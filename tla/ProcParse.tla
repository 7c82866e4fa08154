------------------------------ MODULE ProcParse ------------------------------
(***************************************************************************)
(* The parsers of pkg/sys/proc/procfs/process.go, as operators over the    *)
(* files the kernel prints: ProcessCommandLine, TaskStartTime,             *)
(* TaskUniqueID, TaskControlGroups with ProcessContainerID, and            *)
(* ProcessMappings.  Each file is built from a task record the way the     *)
(* kernel prints it.                                                       *)
(*                                                                         *)
(* Text is a sequence of tokens: the bytes the parser tests ("(", ")",     *)
(* NUL) are tokens of their own; a number is the string ToString gives,    *)
(* and parsing it is the inverse over a bounded range.                     *)
(***************************************************************************)
EXTENDS Integers, Sequences, SequencesExt, TLC

CONSTANTS
    Containers,  \* container IDs
    MaxNum       \* the largest number a file holds

NUL == "NUL"

\* strconv.ParseInt / ParseUint / Atoi on a decimal token.
ParsesAs(s) == {n \in 0 .. MaxNum : ToString(n) = s}
ParseNum(s) == CHOOSE n \in ParsesAs(s) : TRUE

-----------------------------------------------------------------------------
(* /proc/<pid>/cmdline: every argument followed by a NUL; a process that   *)
(* rewrote its argument area (setproctitle) has one title with no NUL.     *)
CmdlineFile(t) ==
    IF t.retitled THEN t.args[1]
    ELSE FlattenSeq([i \in DOMAIN t.args |-> t.args[i] \o <<NUL>>])

\* bufio.Reader.ReadString(0): up to and including the first NUL, or all
\* that is left with io.EOF.
ReadString(buf) ==
    LET i == SelectInSeq(buf, LAMBDA c : c = NUL) IN
    IF i = 0 THEN [s |-> buf, rest |-> <<>>, err |-> TRUE]
    ELSE [s |-> SubSeq(buf, 1, i), rest |-> SubSeq(buf, i + 1, Len(buf)), err |-> FALSE]

\* Mutant: an empty argument is skipped instead of ending the loop.
RECURSIVE ReadArgs_SkipsEmpty(_, _)
ReadArgs_SkipsEmpty(buf, commandLine) ==
    LET r == ReadString(buf) IN
    IF r.err THEN commandLine
    ELSE IF Len(r.s) <= 1 THEN ReadArgs_SkipsEmpty(r.rest, commandLine)
    ELSE ReadArgs_SkipsEmpty(r.rest, Append(commandLine, Front(r.s)))

\* The loop of ProcessCommandLine: stop at an error or a string of at most
\* the NUL, else keep the string without its NUL.
RECURSIVE ReadArgs(_, _)
ReadArgs(buf, commandLine) ==
    LET r == ReadString(buf) IN
    IF r.err \/ Len(r.s) <= 1 THEN commandLine
    ELSE ReadArgs(r.rest, Append(commandLine, Front(r.s)))

ProcessCommandLine(cmdline) == ReadArgs(cmdline, <<>>)

-----------------------------------------------------------------------------
(* /proc/<tgid>/task/<pid>/stat: "pid (comm) f0 f1 ...".  The comm may     *)
(* hold blanks and parentheses.  Per the comment in TaskStartTime, kernels *)
(* before 3.4 put the start time in f18; later ones in f19, with f18 = 0.  *)
StatFields(t) ==
    [i \in 1 .. 20 |->
        CASE i = 19 -> IF t.layout = "pre3.4" THEN ToString(t.start) ELSE "0"
          [] i = 20 -> IF t.layout = "pre3.4" THEN "1" ELSE ToString(t.start)
          [] OTHER  -> "1"]

StatFile(t) == <<"7", "(">> \o t.comm \o <<")">> \o StatFields(t)

\* Mutant: the fields start after the first ')' instead of the last.
StartFields_FirstParen(data) ==
    SubSeq(data, SelectInSeq(data, LAMBDA c : c = ")") + 1, Len(data))

\* strings.Fields(data[lastRParen+1:])
StartFields(data) ==
    SubSeq(data, SelectLastInSeq(data, LAMBDA c : c = ")") + 1, Len(data))

\* Mutant: f18 is taken whatever it holds.
TaskStartTime_Field18Only(data) ==
    LET f == StartFields(data) IN
    IF ParsesAs(f[19]) = {} THEN [err |-> TRUE, val |-> 0]
    ELSE [err |-> FALSE, val |-> ParseNum(f[19])]

\* TaskStartTime's parse: (0, nil) without both parentheses in order; a
\* parse error is returned; f18, or f19 when f18 is 0.
TaskStartTime(data) ==
    LET l == SelectInSeq(data, LAMBDA c : c = "(")
        r == SelectLastInSeq(data, LAMBDA c : c = ")")
        f == StartFields(data)
    IN  CASE l = 0 \/ r = 0 \/ r < l        -> [err |-> FALSE, val |-> 0]
          [] ParsesAs(f[19]) = {}           -> [err |-> TRUE, val |-> 0]
          [] ParseNum(f[19]) # 0            -> [err |-> FALSE, val |-> ParseNum(f[19])]
          [] ParsesAs(f[20]) = {}           -> [err |-> TRUE, val |-> 0]
          [] OTHER                          -> [err |-> FALSE, val |-> ParseNum(f[20])]

\* Mutant: the parts are run together without separators.
TaskUniqueID_NoSeparators(bootID, pid, startTime) ==
    bootID \o ToString(pid) \o ToString(startTime)

\* TaskUniqueID: fmt.Sprintf("%s-%d-%d", fs.BootID(), pid, startTime).
TaskUniqueID(bootID, pid, startTime) ==
    bootID \o "-" \o ToString(pid) \o "-" \o ToString(startTime)

-----------------------------------------------------------------------------
(* /proc/<tgid>/task/<pid>/cgroup: one "id:controllers:path" line per      *)
(* hierarchy, each kept as its ':'-separated parts.                        *)
CgroupFile(t) ==
    [i \in DOMAIN t.cgroups |-> <<ToString(i), "ctl", t.cgroups[i]>>]

\* sys.ContainerID (pkg/sys, not under src/): the ID a container
\* runtime's cgroup path names, or "".
ContainerID(path) ==
    IF \E c \in Containers : path = "/docker/" \o c
    THEN CHOOSE c \in Containers : path = "/docker/" \o c ELSE ""

\* TaskControlGroups: lines whose ID does not parse are skipped.
TaskControlGroups(data) ==
    LET ok(parts) == ParsesAs(parts[1]) # {}
        cg(parts) == [ID |-> ParseNum(parts[1]), Path |-> parts[3]]
    IN  [i \in 1 .. Len(SelectSeq(data, ok)) |-> cg(SelectSeq(data, ok)[i])]

\* Mutant: only the first cgroup line is consulted.
ProcessContainerID_FirstLine(cgroups) ==
    IF cgroups = <<>> THEN "" ELSE ContainerID(cgroups[1].Path)

\* Mutant: the cgroup path is returned instead of the ID it names.
ProcessContainerID_ReturnsPath(cgroups) ==
    LET i == SelectInSeq(cgroups, LAMBDA cg : ContainerID(cg.Path) # "") IN
    IF i = 0 THEN "" ELSE cgroups[i].Path

\* ProcessContainerID: the first cgroup whose path names a container.
ProcessContainerID(cgroups) ==
    LET i == SelectInSeq(cgroups, LAMBDA cg : ContainerID(cg.Path) # "") IN
    IF i = 0 THEN "" ELSE ContainerID(cgroups[i].Path)

-----------------------------------------------------------------------------
(* /proc/<pid>/maps: "start-end perms offset dev inode path", with a blank *)
(* after the inode even when the path is empty.  A line is kept as its     *)
(* blank-separated words (the address word as its '-'-separated parts);    *)
(* the path may itself hold blanks.                                        *)
MapsFile(t) ==
    [i \in DOMAIN t.maps |->
        <<<<ToString(t.maps[i].start), ToString(t.maps[i].end)>>,
          "r-xp", "0", "08:02", "1">>
        \o (IF t.maps[i].path = <<>> THEN <<"">> ELSE t.maps[i].path)]

JoinWords(ws) == FoldLeft(LAMBDA a, b : a \o " " \o b, ws[1], Tail(ws))

\* Mutant: split at every blank, as strings.Fields would.
SplitN_All(words, n) == words

\* strings.SplitN(s, " ", n)
SplitN(words, n) ==
    IF Len(words) <= n THEN words
    ELSE SubSeq(words, 1, n - 1) \o <<JoinWords(SubSeq(words, n, Len(words)))>>

\* One iteration of ProcessMappings' loop on one line.
MappingsLine(line) ==
    LET fields == SplitN(line, 6)
        addrs  == fields[1]
        out(k) == [kind |-> k, Start |-> 0, End |-> 0, Path |-> ""]
    IN  CASE Len(fields) < 5                                    -> out("skip")
          [] Len(addrs) # 2                                     -> out("skip")
          [] ParsesAs(addrs[1]) = {} \/ ParsesAs(addrs[2]) = {} -> out("skip")
          [] Len(fields) = 5                                    -> out("panic")
          [] OTHER -> [kind |-> "ok", Start |-> ParseNum(addrs[1]),
                       End |-> ParseNum(addrs[2]), Path |-> fields[6]]

\* ProcessMappings: the mappings of the lines kept, or a panic on fields[5].
ProcessMappings(data) ==
    LET each == [i \in DOMAIN data |-> MappingsLine(data[i])]
        kept == SelectSeq(each, LAMBDA m : m.kind = "ok")
    IN  [panic |-> \E i \in DOMAIN each : each[i].kind = "panic",
         maps  |-> [i \in DOMAIN kept |-> [Start |-> kept[i].Start,
                                           End |-> kept[i].End, Path |-> kept[i].Path]]]

-----------------------------------------------------------------------------
(* /proc/<pid>/task/<tid>/status and ReadTaskStatus.  These lines are      *)
(* strings, taken apart a character at a time with SubSeq.                 *)

Char(str, i) == SubSeq(str, i, i)
IsSpace(c) == c \in {" ", "\t"}
Concat(ws) == FoldLeft(LAMBDA a, b : a \o b, "", ws)
JoinStr(sep, ws) == IF ws = <<>> THEN "" ELSE FoldLeft(LAMBDA a, b : a \o sep \o b, ws[1], Tail(ws))
Dec(n) == ToString(n)
\* %#04o
Octal4(n) == "0" \o Dec(n \div 64) \o Dec((n \div 8) % 8) \o Dec(n % 8)

\* The lines proc_pid_status prints, those the reader does not ask for
\* (State, Pid, VmRSS, SigQ, SigBlk) included.
StatusFile(t) ==
    << "Name:\t" \o Concat(t.comm),
       "Umask:\t" \o Octal4(t.umask),
       "State:\tS (sleeping)",
       "Pid:\t7",
       "PPid:\t" \o Dec(t.ppid),
       "Uid:\t" \o JoinStr("\t", [i \in 1 .. 4 |-> Dec(t.uid)]),
       "Groups:\t" \o Concat([i \in DOMAIN t.groups |-> Dec(t.groups[i]) \o " "]),
       "VmRSS:\t    12 kB",
       "SigQ:\t0/7",
       "SigBlk:\t0000000000000200" >>

\* strings.TrimSpace
TrimSpace(str) ==
    LET in == {i \in 1 .. Len(str) : ~IsSpace(Char(str, i))} IN
    IF in = {} THEN "" ELSE SubSeq(str, Min(in), Max(in))

\* strings.Fields
RECURSIVE Fields(_)
Fields(str) ==
    LET t  == TrimSpace(str)
        sp == {i \in 1 .. Len(t) : IsSpace(Char(t, i))}
    IN  IF t = "" THEN <<>>
        ELSE IF sp = {} THEN <<t>>
        ELSE <<SubSeq(t, 1, Min(sp) - 1)>> \o Fields(SubSeq(t, Min(sp) + 1, Len(t)))

\* strings.SplitN(line, ":", 2)
SplitColon(line) ==
    LET cs == {i \in 1 .. Len(line) : Char(line, i) = ":"} IN
    IF cs = {} THEN <<line>>
    ELSE <<SubSeq(line, 1, Min(cs) - 1), SubSeq(line, Min(cs) + 1, Len(line))>>

DigitOf(c) == {d \in 0 .. 15 : Char("0123456789abcdef", d + 1) = c
                                \/ Char("0123456789ABCDEF", d + 1) = c}

\* The digits of str in base b, or err when one is not such a digit.
Digits(str, b) ==
    IF \E i \in 1 .. Len(str) : ~\E d \in DigitOf(Char(str, i)) : d < b
    THEN [err |-> TRUE, val |-> 0]
    ELSE [err |-> FALSE,
          val |-> FoldLeft(LAMBDA acc, i : acc * b + Min(DigitOf(Char(str, i))),
                           0, [i \in 1 .. Len(str) |-> i])]

\* Mutant: base 10 whatever the prefix.
ParseUint0_Decimal(str) == IF str = "" THEN [err |-> TRUE, val |-> 0] ELSE Digits(str, 10)

\* strconv.ParseUint(s, 0, 64) as of the Go releases of this code: "0x"
\* is hexadecimal, another leading "0" octal, the rest decimal.  The
\* kernel's values are far below 2^64, so the range check never fails.
ParseUint0(str) ==
    CASE str = "" -> [err |-> TRUE, val |-> 0]
      [] Char(str, 1) = "0" /\ Len(str) >= 3 /\ Char(str, 2) \in {"x", "X"}
                    -> Digits(SubSeq(str, 3, Len(str)), 16)
      [] Char(str, 1) = "0" -> Digits(SubSeq(str, 2, Len(str)), 8)
      [] OTHER -> Digits(str, 10)

\* strconv.ParseInt(s, 0, 64): an optional sign, then as ParseUint.
ParseInt0(str) ==
    LET neg  == str # "" /\ Char(str, 1) = "-"
        body == IF str # "" /\ Char(str, 1) \in {"+", "-"} THEN SubSeq(str, 2, Len(str)) ELSE str
        r    == ParseUint0(body)
    IN  [r EXCEPT !.val = IF neg THEN -@ ELSE @]

\* setValueFromString for a field [tag, kind, elem]: string, int and uint
\* kinds, a slice of one of them filled from strings.Fields, an error for
\* a slice of slices and for any other kind.
SetScalar(kind, str) ==
    CASE kind = "string" -> [err |-> FALSE, val |-> str]
      [] kind = "int"    -> ParseInt0(str)
      [] kind = "uint"   -> ParseUint0(str)
      [] OTHER           -> [err |-> TRUE, val |-> 0]

SetValueFromString(f, str) ==
    IF f.kind # "slice" THEN SetScalar(f.kind, str)
    ELSE IF f.elem = "slice" THEN [err |-> TRUE, val |-> <<>>]
    ELSE LET l == Fields(str)
             a == [i \in DOMAIN l |-> SetScalar(f.elem, l[i])]
         IN  IF \E i \in DOMAIN a : a[i].err THEN [err |-> TRUE, val |-> <<>>]
             ELSE [err |-> FALSE, val |-> [i \in DOMAIN a |-> a[i].val]]

\* findFieldByTag: the last field whose tag is name, or 0.
FindFieldByTag(fields, name) ==
    LET is == {i \in DOMAIN fields : fields[i].tag = name} IN
    IF is = {} THEN 0 ELSE Max(is)

\* Mutant: a value that does not parse is passed over like an unknown tag.
RECURSIVE ScanStatus_SkipBadLine(_, _, _)
ScanStatus_SkipBadLine(fields, lines, vals) ==
    IF lines = <<>> THEN [err |-> FALSE, vals |-> vals]
    ELSE LET parts == SplitColon(Head(lines))
             k     == IF Len(parts) = 2 THEN FindFieldByTag(fields, parts[1]) ELSE 0
             r     == SetValueFromString(fields[k], TrimSpace(parts[2]))
         IN  IF k = 0 \/ r.err THEN ScanStatus_SkipBadLine(fields, Tail(lines), vals)
             ELSE ScanStatus_SkipBadLine(fields, Tail(lines), [vals EXCEPT ![k] = r.val])

\* The scanner loop: a line without a colon or with no field of its tag
\* is passed over; the first value that does not parse ends the loop with
\* the fields before it already set.
RECURSIVE ScanStatus(_, _, _)
ScanStatus(fields, lines, vals) ==
    IF lines = <<>> THEN [err |-> FALSE, vals |-> vals]
    ELSE LET parts == SplitColon(Head(lines))
             k     == IF Len(parts) = 2 THEN FindFieldByTag(fields, parts[1]) ELSE 0
             r     == SetValueFromString(fields[k], TrimSpace(parts[2]))
         IN  IF k = 0 THEN ScanStatus(fields, Tail(lines), vals)
             ELSE IF r.err THEN [err |-> TRUE, vals |-> vals]
             ELSE ScanStatus(fields, Tail(lines), [vals EXCEPT ![k] = r.val])

ZeroValue(f) == CASE f.kind = "string" -> "" [] f.kind = "slice" -> <<>> [] OTHER -> 0

\* ReadTaskStatus into a destination of kind destKind with the given
\* fields: it must be a pointer to a struct.
ReadTaskStatus(destKind, fields, lines) ==
    LET zero == [i \in DOMAIN fields |-> ZeroValue(fields[i])] IN
    IF destKind # "ptr_struct" THEN [err |-> TRUE, vals |-> zero]
    ELSE ScanStatus(fields, lines, zero)

=============================================================================
