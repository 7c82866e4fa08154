------------------------------ MODULE ProcFiles ------------------------------
(***************************************************************************)
(* One reader of one task's procfs files (pkg/sys/proc/procfs/process.go). *)
(* A task is what the kernel knows about it: its argument list, comm,      *)
(* start time, cgroup lines and memory mappings.  Each file may be read    *)
(* once, in any order, while the task may exit, after which a read fails   *)
(* as fs.ReadFile does.  The parsers are those of ProcParse.               *)
(***************************************************************************)
EXTENDS ProcParse

CONSTANTS
    Tasks,         \* the tasks the kernel may describe
    StatusStructs, \* the structs a caller may give ReadTaskStatus: tagged fields
    StatusDest     \* the kind of that argument

VARIABLES
    task,        \* the kernel's task
    read,        \* [Files -> Outcomes]: outcome of each call
    view,        \* what each call returned
    dest         \* the fields of the caller's struct, one of StatusStructs

vars == <<task, read, view, dest>>

Files == {"cmdline", "stat", "cgroup", "maps", "status"}

-----------------------------------------------------------------------------
(* The reader.  Each call reads its file afresh; "err" is fs.ReadFile      *)
(* failing because the task is gone, "bad" an error or panic of the parse. *)

Outcomes == {"unread", "ok", "err", "bad"}

TypeOK ==
    /\ [task EXCEPT !.alive = TRUE] \in Tasks
    /\ read \in [Files -> Outcomes]
    /\ view.start \in 0 .. MaxNum
    /\ view.container \in Containers \cup {""}
    /\ dest \in StatusStructs

Init ==
    /\ task \in Tasks
    /\ dest \in StatusStructs
    /\ read = [f \in Files |-> "unread"]
    /\ view = [cmdline |-> <<>>, start |-> 0, container |-> "", maps |-> <<>>,
               status |-> ReadTaskStatus(StatusDest, dest, <<>>).vals]

\* The task exits; its /proc directory goes away.
Exit ==
    /\ task.alive
    /\ task' = [task EXCEPT !.alive = FALSE]
    /\ UNCHANGED <<read, view, dest>>

ReadCommandLine ==
    /\ read["cmdline"] = "unread"
    /\ read' = [read EXCEPT !["cmdline"] = IF task.alive THEN "ok" ELSE "err"]
    /\ view' = [view EXCEPT !.cmdline =
                   IF task.alive THEN ProcessCommandLine(CmdlineFile(task)) ELSE <<>>]
    /\ UNCHANGED <<task, dest>>

ReadStartTime ==
    LET r == TaskStartTime(StatFile(task)) IN
    /\ read["stat"] = "unread"
    /\ read' = [read EXCEPT !["stat"] =
                   CASE ~task.alive -> "err" [] r.err -> "bad" [] OTHER -> "ok"]
    /\ view' = [view EXCEPT !.start = IF task.alive THEN r.val ELSE 0]
    /\ UNCHANGED <<task, dest>>

ReadContainerID ==
    /\ read["cgroup"] = "unread"
    /\ read' = [read EXCEPT !["cgroup"] = IF task.alive THEN "ok" ELSE "err"]
    /\ view' = [view EXCEPT !.container =
                   IF task.alive
                   THEN ProcessContainerID(TaskControlGroups(CgroupFile(task)))
                   ELSE ""]
    /\ UNCHANGED <<task, dest>>

ReadMappings ==
    LET r == ProcessMappings(MapsFile(task)) IN
    /\ read["maps"] = "unread"
    /\ read' = [read EXCEPT !["maps"] =
                   CASE ~task.alive -> "err" [] r.panic -> "bad" [] OTHER -> "ok"]
    /\ view' = [view EXCEPT !.maps = IF task.alive /\ ~r.panic THEN r.maps ELSE <<>>]
    /\ UNCHANGED <<task, dest>>

\* ReadTaskStatus: os.Open fails once the task is gone; otherwise the
\* struct holds what the scan set, also when it stopped on an error.
ReadStatus ==
    LET r == ReadTaskStatus(StatusDest, dest, StatusFile(task)) IN
    /\ read["status"] = "unread"
    /\ read' = [read EXCEPT !["status"] =
                   CASE ~task.alive -> "err" [] r.err -> "bad" [] OTHER -> "ok"]
    /\ view' = [view EXCEPT !.status = IF task.alive THEN r.vals ELSE @]
    /\ UNCHANGED <<task, dest>>

Next ==
    \/ ReadStatus
    \/ Exit
    \/ ReadCommandLine
    \/ ReadStartTime
    \/ ReadContainerID
    \/ ReadMappings

Spec == Init /\ [][Next]_vars

-----------------------------------------------------------------------------
(* ProcessCommandLine returns the process's arguments, or at least no     *)
(* argument it does not have, and none out of order: the NUL loop may     *)
(* stop early but never skips or invents one.                             *)
CommandLineIsArgvPrefix ==
    read["cmdline"] = "ok" => IsPrefix(view.cmdline, task.args)

(* ProcessCommandLine "returns the full command-line arguments for the    *)
(* process" (its doc comment): every argument, in order.                  *)
CommandLineMatchesArgv ==
    read["cmdline"] = "ok" => view.cmdline = task.args

(* TaskStartTime parses any stat line of a live task, whatever its comm   *)
(* holds, and returns the task's start time on either field layout.       *)
StartTimeIsTaskStart ==
    /\ read["stat"] # "bad"
    /\ read["stat"] = "ok" => view.start = task.start

(* ProcessContainerID names the container the task's cgroups place it in, *)
(* even when some hierarchies leave it at the root, and "" otherwise.     *)
ContainerIDMatchesCgroups ==
    read["cgroup"] = "ok" => view.container = task.container

(* ProcessMappings returns every mapping in order, with a path that keeps *)
(* its blanks, and "" for an anonymous mapping.                           *)
MappingsMatchKernel ==
    LET expected ==
        [i \in DOMAIN task.maps |->
            [Start |-> task.maps[i].start, End |-> task.maps[i].end,
             Path  |-> IF task.maps[i].path = <<>> THEN ""
                       ELSE JoinWords(task.maps[i].path)]]
    IN  /\ read["maps"] # "bad"
        /\ read["maps"] = "ok" => view.maps = expected

\* The tags of the status file in the order the kernel prints them, and
\* the value each one holds for the task.
StatusTags == <<"Name", "Umask", "State", "Pid", "PPid", "Uid", "Groups", "VmRSS", "SigQ", "SigBlk">>
KernelPrintsNumbers(tag) == tag \in {"Umask", "Pid", "PPid", "Uid", "Groups"}
TagPosition(tag) == CHOOSE i \in DOMAIN StatusTags : StatusTags[i] = tag
KernelStatusValue(f) ==
    CASE f.tag = "Name"   -> Concat(task.comm)
      [] f.tag = "Umask"  -> task.umask
      [] f.tag = "PPid"   -> task.ppid
      [] f.tag = "Uid"    -> [i \in 1 .. 4 |-> task.uid]
      [] f.tag = "Groups" -> task.groups
      [] f.tag = "VmRSS"  -> 12
      [] f.tag = "SigBlk" -> 512

(* Into a struct whose fields are strings, or numbers on lines the kernel *)
(* prints as numbers, ReadTaskStatus fills every field from the line of   *)
(* its tag, as the task's values: the name whatever it holds, the umask   *)
(* the kernel prints in octal, the four user IDs and the supplementary    *)
(* groups, none of them among them; the lines the struct has no field     *)
(* for are passed over.                                                   *)
StatusMatchesKernel ==
    (\A i \in DOMAIN dest : dest[i].kind = "string" \/ KernelPrintsNumbers(dest[i].tag)) =>
        /\ read["status"] # "bad"
        /\ read["status"] = "ok" =>
               view.status = [i \in DOMAIN dest |-> KernelStatusValue(dest[i])]

(* What a caller holds after ReadTaskStatus, failed or not: the fields of *)
(* the lines up to some line of the file hold the task's values and all  *)
(* the others their zero values.  When a value does not parse, the scan   *)
(* returns at once: no field of a later line is written, and no field of *)
(* an earlier line holds anything but its value.                          *)
StatusIsFilePrefix ==
    read["status"] \in {"ok", "bad"} =>
        \E p \in 0 .. Len(StatusTags) :
            \A i \in DOMAIN dest :
                view.status[i] = IF TagPosition(dest[i].tag) <= p
                                 THEN KernelStatusValue(dest[i])
                                 ELSE ZeroValue(dest[i])

=============================================================================
