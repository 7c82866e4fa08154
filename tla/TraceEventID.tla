---------------------------- MODULE TraceEventID ----------------------------
(***************************************************************************)
(* GetTraceEventID and ReadTraceEventID (pkg/perf/tracepoint.go): the ID  *)
(* of a trace event is read from events/<name>/id, which the kernel       *)
(* prints as "%d\n".  ReadTraceEventID makes a single Read into a zeroed  *)
(* six-byte buffer, trims trailing newlines and zero bytes, parses the    *)
(* rest with strconv.Atoi and converts it to uint16.  The buffer is a     *)
(* sequence of one-character strings; a zero byte is NUL.                 *)
(***************************************************************************)
EXTENDS Integers, Sequences, SequencesExt

CONSTANTS
    Names,        \* the event names asked for
    Registered,   \* the names with a directory under events/
    IDs           \* the IDs the kernel may give an event (an unsigned short)

VARIABLES
    kernelID,     \* the ID of each registered event
    results       \* per name, <<>> before the call, then <<[err, id]>>

vars == <<kernelID, results>>

NUL == "NUL"
BufSize == 6

Chars(str) == [i \in 1 .. Len(str) |-> SubSeq(str, i, i)]

\* The contents of events/<name>/id.
IDFile(id) == Chars(ToString(id)) \o <<"\n">>

\* What one Read of the buffer returns from contents c: its count of bytes
\* and whether it comes with an error.  The *os.File GetTraceEventID
\* passes returns all the id file holds, up to the buffer's size.
Reads(c) ==
    {[n |-> IF Len(c) < BufSize THEN Len(c) ELSE BufSize, eof |-> FALSE]}

\* var buf [6]byte filled by reader.Read(buf[:]).
Buffer(c, rd) == [i \in 1 .. BufSize |-> IF i <= rd.n THEN c[i] ELSE NUL]

\* strings.TrimRight(s, cutset)
RECURSIVE TrimRight(_, _)
TrimRight(s, cutset) ==
    IF s # <<>> /\ Last(s) \in cutset THEN TrimRight(Front(s), cutset) ELSE s

\* strconv.Atoi: an optional sign and one or more decimal digits.
Digit(c) == CHOOSE d \in 0 .. 9 : ToString(d) = c
Atoi(s) ==
    LET signed == s # <<>> /\ Head(s) \in {"+", "-"}
        ds     == IF signed THEN Tail(s) ELSE s
        mag    == FoldLeft(LAMBDA acc, c : acc * 10 + Digit(c), 0, ds)
    IN  IF ds = <<>> \/ \E i \in DOMAIN ds : ds[i] \notin {ToString(d) : d \in 0 .. 9}
        THEN [err |-> TRUE, val |-> 0]
        ELSE [err |-> FALSE, val |-> IF signed /\ Head(s) = "-" THEN -mag ELSE mag]

Failed == [err |-> TRUE, id |-> 0]

\* Mutant: only newlines are trimmed.
ReadTraceEventID_TrimNewline(c, rd) ==
    LET a == Atoi(TrimRight(Buffer(c, rd), {"\n"})) IN
    IF rd.eof \/ a.err THEN Failed ELSE [err |-> FALSE, id |-> a.val % 65536]

\* ReadTraceEventID: an error from Read (io.EOF included) or from Atoi is
\* returned with ID 0; uint16(id) keeps the low 16 bits.
ReadTraceEventID(c, rd) ==
    LET a == Atoi(TrimRight(Buffer(c, rd), {"\n", NUL})) IN
    IF rd.eof \/ a.err THEN Failed ELSE [err |-> FALSE, id |-> a.val % 65536]

Init ==
    /\ kernelID \in [Registered -> IDs]
    /\ results = [n \in Names |-> <<>>]

\* GetTraceEventID(name): os.OpenFile of events/<name>/id fails for an
\* event that is not there; otherwise the file is read.
GetTraceEventID(name) ==
    /\ results[name] = <<>>
    /\ \/ /\ name \notin Registered
          /\ results' = [results EXCEPT ![name] = <<Failed>>]
       \/ /\ name \in Registered
          /\ \E rd \in Reads(IDFile(kernelID[name])) :
                results' = [results EXCEPT ![name] = <<ReadTraceEventID(IDFile(kernelID[name]), rd)>>]
    /\ UNCHANGED kernelID

Next == \E name \in Names : GetTraceEventID(name)

Spec == Init /\ [][Next]_vars

-----------------------------------------------------------------------------
(* GetTraceEventID returns the ID the kernel gave the event, whatever its *)
(* number of digits, the five-digit IDs that fill the buffer with their   *)
(* newline included; and an error for an event that is not there.        *)
IDReadBack ==
    \A name \in Names : results[name] # <<>> =>
        IF name \in Registered
        THEN results[name][1] = [err |-> FALSE, id |-> kernelID[name]]
        ELSE results[name][1].err

=============================================================================
