----------------------- MODULE SensorDispatchAbstract -----------------------
(***************************************************************************)
(* What the registry and dispatch path promise a subscriber (spec 3, 4.5,  *)
(* 5): a subscription gains sinks while it is active; an unsubscribe drops *)
(* them all at once, and the subscription is freed later, when Unsubscribe *)
(* returns.  Taking a sequence number and delivering it are separate: a    *)
(* number is taken, atomically, for every event handled, and delivered at *)
(* most once; it may never be delivered, when the filter rejects the      *)
(* event.  An active subscription receives only while it has sinks, and a  *)
(* closing one may still receive what was in flight, but a freed one      *)
(* receives nothing.  Workers, reference counts and kernel installation   *)
(* are not visible here.                                                  *)
(***************************************************************************)
EXTENDS Integers, Sequences

CONSTANTS Subs, Events, CPUs

VARIABLES subState, sinks, seq, streams

avars == <<subState, sinks, seq, streams>>

Init ==
    /\ subState = [s \in Subs |-> "active"]
    /\ sinks = [s \in Subs |-> {}]
    /\ seq = 0
    /\ streams = [s \in Subs |-> <<>>]

Subscribe(s, e) ==
    /\ subState[s] = "active"
    /\ e \notin sinks[s]
    /\ sinks' = [sinks EXCEPT ![s] = @ \cup {e}]
    /\ UNCHANGED <<subState, seq, streams>>

Unsubscribe(s) ==
    /\ subState[s] = "active"
    /\ subState' = [subState EXCEPT ![s] = "closing"]
    /\ sinks' = [sinks EXCEPT ![s] = {}]
    /\ UNCHANGED <<seq, streams>>

Free(s) ==
    /\ subState[s] = "closing"
    /\ subState' = [subState EXCEPT ![s] = "closed"]
    /\ UNCHANGED <<sinks, seq, streams>>

Delivered == UNION {{streams[s][i].seq : i \in DOMAIN streams[s]} : s \in Subs}

TakeNumber ==
    /\ seq' = seq + 1
    /\ UNCHANGED <<subState, sinks, streams>>

Deliver(s, c) ==
    /\ subState[s] # "closed"
    /\ subState[s] = "active" => sinks[s] # {}
    /\ \E n \in (1 .. seq) \ Delivered :
          streams' = [streams EXCEPT ![s] = Append(@, [seq |-> n, cpu |-> c])]
    /\ UNCHANGED <<subState, sinks, seq>>

Next ==
    \/ \E s \in Subs, e \in Events : Subscribe(s, e)
    \/ \E s \in Subs : Unsubscribe(s) \/ Free(s)
    \/ \E s \in Subs, c \in CPUs : Deliver(s, c)
    \/ TakeNumber

\* An unsubscribe returns: a closing subscription is freed.
Spec == Init /\ [][Next]_avars /\ \A s \in Subs : WF_avars(Free(s))

=============================================================================
