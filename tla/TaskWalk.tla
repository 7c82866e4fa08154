------------------------------ MODULE TaskWalk ------------------------------
(***************************************************************************)
(* FileSystem.WalkTasks (pkg/sys/proc/procfs/process.go) scanning /proc    *)
(* while the kernel forks and reaps tasks, PIDs being reused, with the     *)
(* process cache's walk function (spec 4.3) reading each task's start time *)
(* and keying it by TaskUniqueID.                                          *)
(*                                                                         *)
(* The walk is one goroutine, step by step: the listing of /proc, then per *)
(* name the open and listing of its task directory, then per task one call *)
(* of the walk function.  Between any two steps the kernel may act.        *)
(***************************************************************************)
EXTENDS Integers, Sequences, SequencesExt, FiniteSets, TLC

CONSTANTS
    Pids,        \* the PIDs the kernel may hand out (numbers)
    StartTimes,  \* start times of successive forks, increasing
    BootID,      \* fs.BootID()
    Init0        \* the tasks alive when the walk begins

P == INSTANCE ProcParse WITH Containers <- {}, MaxNum <- 99

VARIABLES
    tasks,       \* live tasks: [pid, tgid, start]
    forks,       \* forks so far; the next one starts at StartTimes[forks+1]
    pc,          \* the walk: "start", "procs", "tasks"; "done" when it returns
                 \* at the end, "stopped" when the walk function said stop
    procNames,   \* d.Readdirnames of the mount point
    i,           \* index into procNames
    tgid,        \* the process being scanned
    taskNames,   \* d.Readdirnames of its task directory
    j,           \* index into taskNames
    seeded,      \* entries the walk function made: [pid, tgid, start, id]
    atStart      \* ghost: the tasks alive when /proc was listed

vars == <<tasks, forks, pc, procNames, i, tgid, taskNames, j, seeded, atStart>>
walkVars == <<pc, procNames, i, tgid, taskNames, j, seeded, atStart>>

Used == {t.pid : t \in tasks}
Leaders == {t \in tasks : t.pid = t.tgid}
Sorted(S) == SetToSortSeq(S, LAMBDA a, b : a < b)

TypeOK ==
    /\ tasks \subseteq [pid : Pids, tgid : Pids, start : Nat]
    /\ forks \in 0 .. Len(StartTimes)
    /\ seeded \subseteq [pid : Pids, tgid : Pids, start : Nat \ {0}, id : STRING]
    /\ pc \in {"start", "procs", "tasks", "done", "stopped"}
    /\ i \in 1 .. Len(procNames) + 1 /\ j \in 1 .. Len(taskNames) + 1

Init ==
    /\ tasks = Init0
    /\ forks = 0
    /\ pc = "start"
    /\ procNames = <<>> /\ i = 1 /\ tgid = 0 /\ taskNames = <<>> /\ j = 1
    /\ seeded = {} /\ atStart = {}

-----------------------------------------------------------------------------
(* The kernel.                                                             *)

\* fork() of a new process, or clone() of a thread into process g.
Fork(p, g) ==
    /\ forks < Len(StartTimes)
    /\ p \notin Used
    /\ g = p \/ \E l \in Leaders : l.pid = g
    /\ tasks' = tasks \cup {[pid |-> p, tgid |-> g, start |-> StartTimes[forks + 1]]}
    /\ forks' = forks + 1
    /\ UNCHANGED walkVars

\* A thread exits; its PID is free again.
ExitThread(t) ==
    /\ t.pid # t.tgid
    /\ tasks' = tasks \ {t}
    /\ UNCHANGED <<forks>> /\ UNCHANGED walkVars

\* exit_group(): every task of the process goes, and /proc/<tgid> with it.
ExitGroup(l) ==
    /\ tasks' = {t \in tasks : t.tgid # l.pid}
    /\ UNCHANGED <<forks>> /\ UNCHANGED walkVars

-----------------------------------------------------------------------------
(* WalkTasks.                                                              *)

\* Open and Readdirnames of the mount point: "self" and the like, then
\* one numeric name per process, in PID order.
ListProcs ==
    /\ pc = "start"
    /\ procNames' = <<"self">> \o [k \in 1 .. Cardinality(Leaders) |->
                                     ToString(Sorted({l.pid : l \in Leaders})[k])]
    /\ atStart' = tasks
    /\ pc' = "procs"
    /\ UNCHANGED <<tasks, forks, i, tgid, taskNames, j, seeded>>

\* The names in a process's task directory, in PID order.
TaskDirNames(g) ==
    LET pids == Sorted({t.pid : t \in {u \in tasks : u.tgid = g}})
    IN  [k \in 1 .. Len(pids) |-> ToString(pids[k])]

\* Mutant: a process that has gone away ends the walk.
SkipGone_Return == pc' = "done" /\ UNCHANGED <<i, tgid, taskNames, j>>

\* os.Open or Readdirnames of /proc/<tgid>/task failed: "not fatal; the
\* process may have gone away", so on to the next name.
SkipGone == i' = i + 1 /\ UNCHANGED <<pc, tgid, taskNames, j>>

\* One iteration of the outer loop: past the end the walk returns; a name
\* that is not a number is skipped; a process whose task directory is
\* gone is skipped; otherwise its task names are listed.
NextProc ==
    /\ pc = "procs"
    /\ IF i > Len(procNames) THEN pc' = "done" /\ UNCHANGED <<i, tgid, taskNames, j>>
       ELSE IF P!ParsesAs(procNames[i]) = {} THEN i' = i + 1 /\ UNCHANGED <<pc, tgid, taskNames, j>>
       ELSE LET g == P!ParseNum(procNames[i]) IN
            IF ~\E l \in Leaders : l.pid = g THEN SkipGone
            ELSE /\ tgid' = g /\ taskNames' = TaskDirNames(g) /\ j' = 1
                 /\ pc' = "tasks" /\ i' = i
    /\ UNCHANGED <<tasks, forks, procNames, seeded, atStart>>

\* The cache's walk function (spec 4.3) for (tgid, pid): TaskStartTime on
\* the task's stat file, which fails once the task is gone, and an entry
\* keyed by TaskUniqueID.  Its result says whether to go on.
WalkFunc(g, p, goOn) ==
    LET live == {t \in tasks : t.pid = p /\ t.tgid = g} IN
    /\ seeded' = IF live = {} THEN seeded
                 ELSE LET t == CHOOSE t \in live : TRUE
                          st == P!TaskStartTime(P!StatFile([comm |-> <<"w">>,
                                    layout |-> "3.4", start |-> t.start]))
                      IN  seeded \cup {[pid |-> p, tgid |-> g, start |-> st.val,
                                        id |-> P!TaskUniqueID(BootID, p, st.val)]}
    /\ IF goOn THEN UNCHANGED pc ELSE pc' = "stopped"

\* One iteration of the inner loop: past the end, on to the next process;
\* a name that is not a number is skipped; otherwise the walk function
\* is called, and the walk returns when it answers false.
NextTask ==
    /\ pc = "tasks"
    /\ IF j > Len(taskNames)
       THEN pc' = "procs" /\ i' = i + 1 /\ UNCHANGED <<j, seeded>>
       ELSE /\ i' = i /\ j' = j + 1
            /\ IF P!ParsesAs(taskNames[j]) = {} THEN UNCHANGED <<pc, seeded>>
               ELSE \E goOn \in BOOLEAN :
                        WalkFunc(tgid, P!ParseNum(taskNames[j]), goOn)
    /\ UNCHANGED <<tasks, forks, procNames, tgid, taskNames, atStart>>

Next ==
    \/ \E p \in Pids, g \in Pids : Fork(p, g)
    \/ \E t \in tasks : ExitThread(t)
    \/ \E l \in Leaders : ExitGroup(l)
    \/ ListProcs
    \/ NextProc
    \/ NextTask

\* The walk is one goroutine that is never starved; the kernel need not act.
Spec == Init /\ [][Next]_vars /\ WF_vars(ListProcs \/ NextProc \/ NextTask)

-----------------------------------------------------------------------------
(* A task that lives from the listing of /proc to the end of a walk that  *)
(* was not cut short has been handed to the walk function and seeded,     *)
(* whatever other processes came and went meanwhile.                       *)
StableTasksSeeded ==
    pc = "done" =>
        \A t \in atStart \cap tasks :
            \E e \in seeded : e.pid = t.pid /\ e.start = t.start

(* TaskUniqueID tells apart two tasks that shared a PID, or whose PID and *)
(* start time run together as digits: equal IDs mean the same PID and the *)
(* same start time.                                                        *)
SeededIDsDistinct ==
    \A a, b \in seeded : a.id = b.id => a.pid = b.pid /\ a.start = b.start

=============================================================================
