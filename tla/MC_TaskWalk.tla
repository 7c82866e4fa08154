----------------------------- MODULE MC_TaskWalk -----------------------------
(***************************************************************************)
(* Three PIDs: process 12 (started at tick 3) alive when the walk begins,  *)
(* and room for three more forks.  PIDs 1 and 12 with start times 23 and 3 *)
(* are the pair whose digits run together ("1"+"23" = "12"+"3").           *)
(***************************************************************************)
EXTENDS TaskWalk

MCPids == {1, 12, 13}
MCStartTimes == <<23, 24, 25>>
MCInit0 == {[pid |-> 12, tgid |-> 12, start |-> 3]}

=============================================================================
