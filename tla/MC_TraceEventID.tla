--------------------------- MODULE MC_TraceEventID ---------------------------
(***************************************************************************)
(* Two registered events and one missing; IDs of one, two, four and five  *)
(* digits, the largest unsigned short among them.                         *)
(***************************************************************************)
EXTENDS TraceEventID

MCNames == {"sched_switch", "sys_enter", "missing"}
MCRegistered == {"sched_switch", "sys_enter"}
MCIDs == {1, 42, 9999, 65535}

=============================================================================
