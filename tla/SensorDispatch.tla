--------------------------- MODULE SensorDispatch ---------------------------
(***************************************************************************)
(* The subscription / event-sink registry and the per-CPU dispatch path.   *)
(*                                                                         *)
(* Subscriptions register event sinks on kernel events.  A kprobe or       *)
(* tracepoint registration is shared: the kernel monitor installs it when  *)
(* the first sink needs it, and removes it when the last one goes.  A      *)
(* performance-counter group (RegisterPerformanceEventFilter, perf.go)     *)
(* belongs to one subscription.  One worker per CPU takes samples from its *)
(* ring buffer and, for every subscription with a sink on the sample's     *)
(* event, runs that subscription's handler.  The handler has the shape of *)
(* handlePerfCounterEvent in perf.go: InitWithSample ignores the sensor's *)
(* own samples and takes the next sequence number; then DispatchEvent     *)
(* looks the sink up again under the registry lock and evaluates its      *)
(* filter; the subscriber's callback then runs outside the lock.           *)
(* Unsubscribe removes the sinks under the registry lock and then waits   *)
(* until no worker still holds the subscription before freeing it.        *)
(* The registry, the workers and InitWithSample are not under src/: they  *)
(* follow spec 4.5 and 5.                                                 *)
(***************************************************************************)
EXTENDS Integers, Sequences, FiniteSets, TLC

CONSTANTS
    Subs,        \* subscriptions
    Probes,      \* kprobe / tracepoint specifications that can be shared
    CPUs,        \* ring buffers, one dispatch worker each
    MaxSamples   \* bound on the samples the kernel delivers

VARIABLES
    subState,    \* "active", "closing" (sinks removed) or "closed" (freed)
    requested,   \* events each subscription has asked for
    sinks,       \* events each subscription has a registered sink on
    nstatus,     \* number of status messages logged per subscription
    installed,   \* events registered in the kernel
    refcount,    \* sinks sharing each kernel registration
    cpu,         \* the sample each worker is dispatching
    seq,         \* sensor.Metrics.Events, the last sequence number taken
    streams,     \* events each subscriber has received: <<seq, cpu>>
    nsamples     \* samples delivered by the kernel so far

vars == <<subState, requested, sinks, nstatus, installed, refcount, cpu, seq,
          streams, nsamples>>

(* The counter group of a subscription is its own kernel event.           *)
Counter(s) == <<"counter", s>>
Events == Probes \cup {Counter(s) : s \in Subs}

(* A worker: the sample it is on, whether it has looked the sinks up,    *)
(* the subscriptions whose handler it still has to run, and the handler   *)
(* it is in: <<s>> or <<>>, the sequence number it took, and whether the  *)
(* recheck passed and the callback is to run.                             *)
Idle == [busy |-> FALSE, event |-> Counter(CHOOSE s \in Subs : TRUE),
         self |-> FALSE, looked |-> FALSE, pending |-> {},
         cur |-> <<>>, num |-> 0, deliver |-> FALSE]

(* Mutant: the subscription is let go of before its callback has run.    *)
Holding_PendingOnly(s) == {c \in CPUs : s \in cpu[c].pending}

(* Workers that still have to run, or are running, a handler of s.       *)
Holding(s) == {c \in CPUs : s \in cpu[c].pending \/ cpu[c].cur = <<s>>}

TypeOK ==
    /\ subState \in [Subs -> {"active", "closing", "closed"}]
    /\ requested \in [Subs -> SUBSET Events]
    /\ sinks \in [Subs -> SUBSET Events]
    /\ nstatus \in [Subs -> Nat]
    /\ installed \in [Events -> BOOLEAN]
    /\ refcount \in [Events -> Nat]
    /\ cpu \in [CPUs -> [busy: BOOLEAN, event: Events, self: BOOLEAN,
                         looked: BOOLEAN, pending: SUBSET Subs,
                         cur: {<<>>} \cup {<<s>> : s \in Subs}, num: Nat,
                         deliver: BOOLEAN]]
    /\ seq \in Nat
    /\ streams \in [Subs -> Seq([seq: Nat, cpu: CPUs])]
    /\ nsamples \in 0 .. MaxSamples

Init ==
    /\ subState = [s \in Subs |-> "active"]
    /\ requested = [s \in Subs |-> {}]
    /\ sinks = [s \in Subs |-> {}]
    /\ nstatus = [s \in Subs |-> 0]
    /\ installed = [e \in Events |-> FALSE]
    /\ refcount = [e \in Events |-> 0]
    /\ cpu = [c \in CPUs |-> Idle]
    /\ seq = 0
    /\ streams = [s \in Subs |-> <<>>]
    /\ nsamples = 0

-----------------------------------------------------------------------------
(* Registration, under the registry lock.                                  *)

(* addEventSink: a new sink on e, sharing e's kernel registration.         *)
AddEventSink(s, e) ==
    /\ sinks' = [sinks EXCEPT ![s] = @ \cup {e}]
    /\ refcount' = [refcount EXCEPT ![e] = @ + 1]

(* A kprobe/tracepoint filter: share the installation if there is one,    *)
(* otherwise have the kernel monitor install it, which the kernel may     *)
(* refuse; a refusal is a status message and the rest of the subscription *)
(* goes on (spec 4.5 steps 1-3).                                          *)
RegisterFilter(s, p) ==
    /\ subState[s] = "active"
    /\ p \notin requested[s]
    /\ requested' = [requested EXCEPT ![s] = @ \cup {p}]
    /\ \/ /\ installed[p]
          /\ AddEventSink(s, p)
          /\ UNCHANGED <<installed, nstatus>>
       \/ /\ ~installed[p]
          /\ installed' = [installed EXCEPT ![p] = TRUE]
          /\ AddEventSink(s, p)
          /\ UNCHANGED nstatus
       \/ /\ ~installed[p]
          /\ nstatus' = [nstatus EXCEPT ![s] = @ + 1]
          /\ UNCHANGED <<installed, sinks, refcount>>
    /\ UNCHANGED <<subState, cpu, seq, streams, nsamples>>

(* RegisterPerformanceEventFilter: RegisterCounterEventGroup fails for an *)
(* empty counter list (and may fail otherwise); on success the group ID   *)
(* is kept and a sink with no filter is added.                            *)
RegisterPerformanceEventFilter(s, hasCounters) ==
    /\ subState[s] = "active"
    /\ Counter(s) \notin requested[s]
    /\ requested' = [requested EXCEPT ![s] = @ \cup {Counter(s)}]
    /\ \/ /\ hasCounters
          /\ installed' = [installed EXCEPT ![Counter(s)] = TRUE]
          /\ AddEventSink(s, Counter(s))
          /\ UNCHANGED nstatus
       \/ /\ nstatus' = [nstatus EXCEPT ![s] = @ + 1]
          /\ UNCHANGED <<installed, sinks, refcount>>
    /\ UNCHANGED <<subState, cpu, seq, streams, nsamples>>

(* Unsubscribe, first half: drop every sink of s and have the kernel      *)
(* monitor remove each registration whose count reaches zero (spec 4.5    *)
(* step 4; the spec leaves a failing removal open, and it is not modelled).*)
(* Mutant: every requested event is released, refused ones included.      *)
Unsubscribe_ReleasesRequested(s) ==
    /\ subState[s] = "active"
    /\ subState' = [subState EXCEPT ![s] = "closing"]
    /\ refcount' = [e \in Events |-> IF e \in requested[s] THEN refcount[e] - 1
                                                           ELSE refcount[e]]
    /\ installed' = [e \in Events |-> IF e \in requested[s] THEN refcount'[e] > 0
                                                            ELSE installed[e]]
    /\ sinks' = [sinks EXCEPT ![s] = {}]
    /\ UNCHANGED <<requested, nstatus, cpu, seq, streams, nsamples>>

Unsubscribe(s) ==
    /\ subState[s] = "active"
    /\ subState' = [subState EXCEPT ![s] = "closing"]
    /\ refcount' = [e \in Events |-> IF e \in sinks[s] THEN refcount[e] - 1
                                                       ELSE refcount[e]]
    /\ installed' = [e \in Events |-> IF e \in sinks[s] THEN refcount'[e] > 0
                                                        ELSE installed[e]]
    /\ sinks' = [sinks EXCEPT ![s] = {}]
    /\ UNCHANGED <<requested, nstatus, cpu, seq, streams, nsamples>>

(* Unsubscribe, second half: once no worker holds s, it is freed.         *)
(* Mutant: the subscription is freed without waiting for the workers.     *)
Free_NoWait(s) ==
    /\ subState[s] = "closing"
    /\ subState' = [subState EXCEPT ![s] = "closed"]
    /\ UNCHANGED <<requested, sinks, nstatus, installed, refcount, cpu, seq,
                   streams, nsamples>>

Free(s) ==
    /\ subState[s] = "closing"
    /\ Holding(s) = {}
    /\ subState' = [subState EXCEPT ![s] = "closed"]
    /\ UNCHANGED <<requested, sinks, nstatus, installed, refcount, cpu, seq,
                   streams, nsamples>>

-----------------------------------------------------------------------------
(* Dispatch, one sample at a time per CPU.                                 *)

(* The kernel monitor reads a sample of an installed event from c's ring  *)
(* buffer; self says it was caused by the sensor's own thread.            *)
Receive(c, e, self) ==
    /\ ~cpu[c].busy
    /\ installed[e]
    /\ nsamples < MaxSamples
    /\ nsamples' = nsamples + 1
    /\ cpu' = [cpu EXCEPT ![c] = [Idle EXCEPT !.busy = TRUE, !.event = e, !.self = self]]
    /\ UNCHANGED <<subState, requested, sinks, nstatus, installed, refcount,
                   seq, streams>>

(* Under the registry lock: the subscriptions with a sink on the event.    *)
Lookup(c) ==
    /\ cpu[c].busy /\ ~cpu[c].looked
    /\ cpu' = [cpu EXCEPT ![c].looked = TRUE,
                          ![c].pending = {s \in Subs : cpu[c].event \in sinks[s]}]
    /\ UNCHANGED <<subState, requested, sinks, nstatus, installed, refcount,
                   seq, streams, nsamples>>

(* InitWithSample: FALSE for the sensor's own samples, and the handler   *)
(* returns; otherwise Init takes the next sequence number atomically.     *)
InitWithSample(c) ==
    IF cpu[c].self THEN UNCHANGED seq ELSE seq' = seq + 1

(* handlePerfCounterEvent and the other per-subscription handlers, up to *)
(* the call of DispatchEvent: InitWithSample first.                       *)
Handle(c, s) ==
    /\ cpu[c].looked /\ cpu[c].cur = <<>>
    /\ s \in cpu[c].pending
    /\ InitWithSample(c)
    /\ cpu' = [cpu EXCEPT ![c].pending = @ \ {s},
                          ![c].cur = IF cpu[c].self THEN <<>> ELSE <<s>>,
                          ![c].num = IF cpu[c].self THEN 0 ELSE seq']
    /\ UNCHANGED <<subState, requested, sinks, nstatus, installed, refcount,
                   streams, nsamples>>

DispatchEvent(c) ==
    LET s == cpu[c].cur[1] IN
    /\ cpu[c].cur # <<>> /\ ~cpu[c].deliver
    /\ \E matches \in BOOLEAN :
          /\ cpu[c].event = Counter(s) => matches
          /\ cpu' = IF cpu[c].event \in sinks[s] /\ matches
                    THEN [cpu EXCEPT ![c].deliver = TRUE]
                    ELSE [cpu EXCEPT ![c].cur = <<>>]
    /\ UNCHANGED <<subState, requested, sinks, nstatus, installed, refcount,
                   seq, streams, nsamples>>

(* The subscriber's dispatch callback, outside the registry lock (spec   *)
(* 5): the event reaches the subscriber with the number taken in         *)
(* InitWithSample, and the handler returns.                               *)
Deliver(c) ==
    LET s == cpu[c].cur[1] IN
    /\ cpu[c].deliver
    /\ streams' = [streams EXCEPT ![s] = Append(@, [seq |-> cpu[c].num, cpu |-> c])]
    /\ cpu' = [cpu EXCEPT ![c].cur = <<>>, ![c].deliver = FALSE]
    /\ UNCHANGED <<subState, requested, sinks, nstatus, installed, refcount,
                   seq, nsamples>>

Finish(c) ==
    /\ cpu[c].busy /\ cpu[c].looked /\ cpu[c].pending = {} /\ cpu[c].cur = <<>>
    /\ cpu' = [cpu EXCEPT ![c] = Idle]
    /\ UNCHANGED <<subState, requested, sinks, nstatus, installed, refcount,
                   seq, streams, nsamples>>

Next ==
    \/ \E s \in Subs, p \in Probes : RegisterFilter(s, p)
    \/ \E s \in Subs, h \in BOOLEAN : RegisterPerformanceEventFilter(s, h)
    \/ \E s \in Subs : Unsubscribe(s) \/ Free(s)
    \/ \E c \in CPUs, e \in Events, self \in BOOLEAN : Receive(c, e, self)
    \/ \E c \in CPUs : Lookup(c) \/ DispatchEvent(c) \/ Deliver(c) \/ Finish(c)
    \/ \E c \in CPUs, s \in Subs : Handle(c, s)

(* A worker runs a sample's dispatch to completion without suspending,    *)
(* and Unsubscribe's wait returns once the workers let go: these steps    *)
(* are weakly fair. Samples and new registrations need not ever come.     *)
Fairness ==
    /\ \A c \in CPUs : /\ WF_vars(Lookup(c)) /\ WF_vars(Finish(c))
                      /\ WF_vars(DispatchEvent(c)) /\ WF_vars(Deliver(c))
    /\ \A c \in CPUs, s \in Subs : WF_vars(Handle(c, s))
    /\ \A s \in Subs : WF_vars(Free(s))

Spec == Init /\ [][Next]_vars /\ Fairness

-----------------------------------------------------------------------------
Abstract == INSTANCE SensorDispatchAbstract

RefinesAbstract == Abstract!Spec

=============================================================================
