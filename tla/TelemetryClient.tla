--------------------------- MODULE TelemetryClient ---------------------------
(***************************************************************************)
(* The example telemetry client (examples/telemetry/main.go): its main    *)
(* goroutine dials the sensor, opens the GetEvents stream and prints every *)
(* response until Recv fails; a second goroutine waits on the channel      *)
(* given to signal.Notify and cancels the context on SIGINT.  The user may *)
(* press Ctrl-C at any moment; the sensor answers with responses of        *)
(* statuses and events, or breaks the stream.                              *)
(***************************************************************************)
EXTENDS Integers, Sequences, SequencesExt

CONSTANTS
    Servers,       \* values of -server, split at ":" (strings.Split)
    Images,        \* values of -image
    Listening,     \* the [network, address] a sensor listens on
    Responses,     \* GetEventsResponse: [statuses : Seq(code), events : Seq(event)]
    MaxResponses,  \* responses the sensor sends at most
    MaxSigints     \* Ctrl-C presses at most

VARIABLES
    cfg,           \* the parsed flags: [server, image, json]
    pc,            \* main: "notify", "spawn", "dial", "getevents", "recv", "exited"
    watcher,       \* the signal goroutine: "none", "started", "waiting", "got", "done"
    cancelled,     \* ctx.Done() is closed
    sigints,       \* Ctrl-C presses so far
    exitCode,      \* "none", "1" (os.Exit(1)), "SIGINT" (default action)
    dialed,        \* the [network, address] net.DialTimeout was given, or NoConn
    sent,          \* the Subscription sent with GetEvents, if any: <<sub>> or <<>>
    received,      \* responses received so far
    lastResp,      \* the response of the last iteration
    lastOut        \* the lines that iteration printed: [of, index, marshalled]

vars == <<cfg, pc, watcher, cancelled, sigints, exitCode, dialed, sent,
          received, lastResp, lastOut>>

NoConn == [network |-> "none", address |-> ""]
NoResponse == [statuses |-> <<>>, events |-> <<>>]

JoinWith(sep, parts) == FoldLeft(LAMBDA acc, p : acc \o sep \o p, Head(parts), Tail(parts))

\* Mutant: the part before the first colon taken as the network.
Dialer_SchemeAsNetwork(parts) ==
    IF Len(parts) > 1 THEN [network |-> parts[1], address |-> parts[2]]
    ELSE [network |-> "tcp", address |-> JoinWith(":", parts)]

\* dialer: "unix:<path>" is a unix socket at parts[1], anything else TCP.
Dialer(parts) ==
    IF Len(parts) > 1 /\ parts[1] = "unix"
    THEN [network |-> "unix", address |-> parts[2]]
    ELSE [network |-> "tcp", address |-> JoinWith(":", parts)]

\* createSubscription: the fixed process, syscall, kernel, user, file and
\* container filters (the ticker and chargen lists are empty), and an image
\* filter when -image is given.
CreateSubscription(image) ==
    [filters |-> {"process", "syscall", "kernel", "user", "file", "container"},
     images  |-> IF image = "" THEN <<>> ELSE <<image>>]

TypeOK ==
    /\ cfg \in [server : Servers, image : Images, json : BOOLEAN]
    /\ pc \in {"notify", "spawn", "dial", "getevents", "recv", "exited"}
    /\ watcher \in {"none", "started", "waiting", "got", "done"}
    /\ cancelled \in BOOLEAN
    /\ sigints \in 0 .. MaxSigints
    /\ exitCode \in {"none", "1", "SIGINT"}
    /\ dialed \in [network : {"unix", "tcp"}, address : STRING] \cup {NoConn}
    /\ received \in 0 .. MaxResponses
    /\ lastResp \in Responses \cup {NoResponse}
    /\ lastOut \in Seq([of : {"status", "event"}, index : Nat, marshalled : BOOLEAN])

Init ==
    /\ cfg \in [server : Servers, image : Images, json : BOOLEAN]
    /\ pc = "notify" /\ watcher = "none" /\ cancelled = FALSE
    /\ sigints = 0 /\ exitCode = "none" /\ dialed = NoConn /\ sent = <<>>
    /\ received = 0 /\ lastResp = NoResponse /\ lastOut = <<>>

Exit(code) == pc' = "exited" /\ exitCode' = code

-----------------------------------------------------------------------------
(* The environment: the user and the sensor.                              *)

\* Ctrl-C.  Before signal.Notify the default action ends the process.
\* After it, the runtime hands the signal over only to a goroutine already
\* waiting on the unbuffered channel, and drops it otherwise.
SigInt ==
    /\ sigints < MaxSigints /\ pc # "exited"
    /\ sigints' = sigints + 1
    /\ IF pc = "notify" THEN Exit("SIGINT") /\ UNCHANGED watcher
       ELSE IF watcher = "waiting" THEN watcher' = "got" /\ UNCHANGED <<pc, exitCode>>
       ELSE UNCHANGED <<watcher, pc, exitCode>>
    /\ UNCHANGED <<cfg, cancelled, dialed, sent, received, lastResp, lastOut>>

-----------------------------------------------------------------------------
(* The signal goroutine: <-signals; cancel().                              *)

WatcherWait ==
    /\ pc # "exited" /\ watcher = "started"
    /\ watcher' = "waiting"
    /\ UNCHANGED <<cfg, pc, cancelled, sigints, exitCode, dialed, sent, received, lastResp, lastOut>>

WatcherCancel ==
    /\ pc # "exited" /\ watcher = "got"
    /\ watcher' = "done" /\ cancelled' = TRUE
    /\ UNCHANGED <<cfg, pc, sigints, exitCode, dialed, sent, received, lastResp, lastOut>>

-----------------------------------------------------------------------------
(* The main goroutine.                                                     *)

\* signals := make(chan os.Signal); signal.Notify(signals, os.Interrupt)
Notify ==
    /\ pc = "notify" /\ pc' = "spawn"
    /\ UNCHANGED <<cfg, watcher, cancelled, sigints, exitCode, dialed, sent, received, lastResp, lastOut>>

\* go func() { <-signals; cancel() }()
Spawn ==
    /\ pc = "spawn" /\ pc' = "dial" /\ watcher' = "started"
    /\ UNCHANGED <<cfg, cancelled, sigints, exitCode, dialed, sent, received, lastResp, lastOut>>

\* grpc.DialContext with WithBlock and a one second timeout: it fails when
\* ctx is cancelled, when nobody listens at the dialer's address, or on
\* the timeout; on failure the client exits 1.
Dial ==
    LET target == Dialer(cfg.server) IN
    /\ pc = "dial"
    /\ \/ /\ ~cancelled /\ target \in Listening
          /\ pc' = "getevents" /\ UNCHANGED exitCode
       \/ Exit("1")
    /\ dialed' = target
    /\ UNCHANGED <<cfg, watcher, cancelled, sigints, sent, received, lastResp, lastOut>>

\* c.GetEvents(ctx, createSubscription()): exits 1 on error.
GetEvents ==
    /\ pc = "getevents"
    /\ \/ /\ ~cancelled
          /\ sent' = <<CreateSubscription(cfg.image)>> /\ pc' = "recv" /\ UNCHANGED exitCode
       \/ Exit("1") /\ UNCHANGED sent
    /\ UNCHANGED <<cfg, watcher, cancelled, sigints, dialed, received, lastResp, lastOut>>

\* Mutant: a lone status is never printed.
ShowStatuses_ManyOnly(st) == Len(st) > 1

\* Statuses are printed when there are several, or one that is not OK.
ShowStatuses(st) == Len(st) > 1 \/ (Len(st) = 1 /\ st[1] # "OK")

\* One line per status (when shown) and per event: the item, or with
\* -json the marshalled item, or "Unable to decode event" when
\* MarshalToString fails and the loop continues.
Lines(r, json) ==
    LET items == (IF ShowStatuses(r.statuses)
                  THEN [k \in DOMAIN r.statuses |-> [of |-> "status", index |-> k]]
                  ELSE <<>>)
                 \o [k \in DOMAIN r.events |-> [of |-> "event", index |-> k]]
    IN  {[k \in DOMAIN items |-> [of |-> items[k].of, index |-> items[k].index,
                                   marshalled |-> ok[k]]] :
            ok \in IF json THEN [DOMAIN items -> BOOLEAN] ELSE {[k \in DOMAIN items |-> TRUE]}}

\* Mutant: a failed Recv is reported and the loop goes on.
Receive_ContinueOnError ==
    /\ pc = "recv"
    /\ \/ UNCHANGED <<pc, exitCode, received, lastResp, lastOut>>
       \/ /\ ~cancelled /\ received < MaxResponses
          /\ \E r \in Responses :
                /\ lastResp' = r /\ received' = received + 1
                /\ lastOut' \in Lines(r, cfg.json)
          /\ UNCHANGED <<pc, exitCode>>
    /\ UNCHANGED <<cfg, watcher, cancelled, sigints, dialed, sent>>

\* One iteration of the loop: stream.Recv fails (the stream broke, or ctx
\* was cancelled, after which it can only fail) and the client exits 1;
\* or it returns a response, whose statuses and events are printed.
Receive ==
    /\ pc = "recv"
    /\ \/ Exit("1") /\ UNCHANGED <<received, lastResp, lastOut>>
       \/ /\ ~cancelled /\ received < MaxResponses
          /\ \E r \in Responses :
                /\ lastResp' = r /\ received' = received + 1
                /\ lastOut' \in Lines(r, cfg.json)
          /\ UNCHANGED <<pc, exitCode>>
    /\ UNCHANGED <<cfg, watcher, cancelled, sigints, dialed, sent>>

Next ==
    \/ SigInt
    \/ WatcherWait \/ WatcherCancel
    \/ Notify \/ Spawn \/ Dial \/ GetEvents \/ Receive

\* Both goroutines are runnable until they block, and Dial and GetEvents
\* return (the timeout); Recv is only bound to return once ctx is
\* cancelled.  The user and the sensor are under no obligation.
Fairness ==
    /\ WF_vars(WatcherWait) /\ WF_vars(WatcherCancel)
    /\ WF_vars(Notify) /\ WF_vars(Spawn) /\ WF_vars(Dial) /\ WF_vars(GetEvents)
    /\ WF_vars(cancelled /\ Receive)

Spec == Init /\ [][Next]_vars /\ Fairness

-----------------------------------------------------------------------------
(* Every status the sensor reports that is not OK, and every event, gets  *)
(* its own line in the iteration that received it: printed, or reported  *)
(* as undecodable.  The status condition must not hide a lone failure.    *)
NonOKStatusesShown ==
    LET has(of, k) == \E n \in DOMAIN lastOut : lastOut[n].of = of /\ lastOut[n].index = k
    IN  /\ \A k \in DOMAIN lastResp.statuses : lastResp.statuses[k] # "OK" => has("status", k)
        /\ \A k \in DOMAIN lastResp.events : has("event", k)

(* Once ctx is cancelled, whatever main is blocked in, the client exits.  *)
CancelEndsClient == cancelled ~> pc = "exited"

(* Ctrl-C ends the client ("Cancel context on control-C"), whenever it is *)
(* pressed.                                                                *)
InterruptEndsClient == sigints > 0 ~> pc = "exited"

(* The dialer "understands unix:/path/to/sock": it dials the whole path   *)
(* after "unix:".                                                         *)
UnixDialUsesPath ==
    dialed # NoConn /\ cfg.server[1] = "unix" =>
        dialed.address = JoinWith(":", Tail(cfg.server))

=============================================================================
