---------------------------- MODULE MC_ProcFiles ----------------------------
(***************************************************************************)
(* The tasks a procfs reader may meet: argument lists of up to two        *)
(* arguments, empty ones included, and a retitled process; comms holding  *)
(* parentheses or a colon; both start-time layouts; cgroup files of a     *)
(* task outside any container, inside one on every hierarchy or only on   *)
(* some, and on the unified hierarchy; maps with anonymous and            *)
(* blank-holding paths; status files with and without groups, read into  *)
(* a struct whose fields all parse or one with a field that never does.   *)
(***************************************************************************)
EXTENDS ProcFiles

MCContainers == {"c1"}

Argvs ==
    [retitled : {FALSE}, args : SeqOf({<<>>, <<"a">>}, 2)]
    \cup {[retitled |-> TRUE, args |-> << <<"a", "b">> >>]}

Comms == { <<"w">>, <<"w", ":", ")">>, <<")", "(", "w">> }

Cgroups ==
    { [container |-> "",   cgroups |-> <<"/", "/">>],
      [container |-> "",   cgroups |-> <<"/">>],
      [container |-> "c1", cgroups |-> <<"/docker/c1", "/docker/c1">>],
      [container |-> "c1", cgroups |-> <<"/", "/docker/c1">>],
      [container |-> "c1", cgroups |-> <<"/docker/c1">>] }

Maps ==
    { <<>>,
      << [start |-> 1, end |-> 2, path |-> <<>>] >>,
      << [start |-> 1, end |-> 2, path |-> <<"/lib">>],
         [start |-> 2, end |-> 3, path |-> <<"/my", "lib">>] >> }

\* The struct a caller of ReadTaskStatus passes: the name, umask, parent,
\* user IDs and supplementary groups.
MCStatusFields ==
    << [tag |-> "Name",   kind |-> "string", elem |-> "none"],
       [tag |-> "Umask",  kind |-> "uint",   elem |-> "none"],
       [tag |-> "PPid",   kind |-> "int",    elem |-> "none"],
       [tag |-> "Uid",    kind |-> "slice",  elem |-> "int"],
       [tag |-> "Groups", kind |-> "slice",  elem |-> "int"] >>

\* A struct a caller could as well write: the resident set size as an int,
\* which "12 kB" is not, and the blocked-signal mask, printed after it.
MCStatusFieldsVmRSS ==
    << [tag |-> "Name",   kind |-> "string", elem |-> "none"],
       [tag |-> "PPid",   kind |-> "int",    elem |-> "none"],
       [tag |-> "VmRSS",  kind |-> "int",    elem |-> "none"],
       [tag |-> "SigBlk", kind |-> "uint",   elem |-> "none"] >>

MCStatusStructs == {MCStatusFields, MCStatusFieldsVmRSS}

MCTasks ==
    { [alive |-> TRUE, args |-> a.args, retitled |-> a.retitled, comm |-> c,
       start |-> 3, layout |-> l, cgroups |-> g.cgroups, container |-> g.container,
       maps |-> m, umask |-> 18, ppid |-> 1, uid |-> 1000,
       groups |-> IF l = "3.4" THEN <<4, 27>> ELSE <<>>] :
        a \in Argvs, c \in Comms, l \in {"pre3.4", "3.4"}, g \in Cgroups, m \in Maps }

=============================================================================
