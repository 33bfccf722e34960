--------------------------- MODULE BrokerLifecycle ---------------------------
(***************************************************************************)
(* Start, operation and shutdown of the broker process: broker.Broker      *)
(* (internal/broker/broker.go) with the main goroutine (cmd/broker), the   *)
(* two serving goroutines, the retention worker, the monitor of the        *)
(* serving loops, and the handlers of requests in flight.                  *)
(*                                                                         *)
(* Shutdown may be called by main (on a signal, or when a server fails     *)
(* within the startup window) and by the monitor (when a server fails      *)
(* later); the first call does the work, a second one returns at once.     *)
(* A serving loop may fail at any time.                                    *)
(***************************************************************************)
EXTENDS Integers, Sequences

CONSTANT MaxRequests  \* bound: requests in flight

ASSUME RequestsAssumption == MaxRequests \in Nat

Servers == {"http", "grpc"}

VARIABLES
  main,     \* where the main goroutine is; "clean" and "error" when it ended
  serve,    \* where the serving goroutines are
  worker,   \* where the retention worker is
  monitor,  \* where monitorServe is
  shutdown, \* the Shutdown that does the work: who runs it, its next step
  b         \* the state they share

brokerVars == <<main, serve, worker, monitor, shutdown, b>>

Shared == [stopped : BOOLEAN,              \* Broker.stopped
           ready : BOOLEAN,                \* httpserver.Server.ready
           cancelled : BOOLEAN,            \* maintenanceCtx is cancelled
           errors : 0 .. 2,                \* errors in serveErrCh
           down : SUBSET Servers,          \* servers that were told to stop
           forced : BOOLEAN,               \* gRPC stopped without draining
           requests : 0 .. MaxRequests,    \* handlers that are running
           closed : SUBSET {"offsets", "storage"},
           done : BOOLEAN]                 \* Broker.doneCh is closed

BrokerInit ==
  /\ main = "start"
  /\ serve = [s \in Servers |-> "off"]
  /\ worker = "off" /\ monitor = "off"
  /\ shutdown = [owner |-> "none", step |-> 1]
  /\ b = [stopped |-> FALSE, ready |-> FALSE, cancelled |-> FALSE, errors |-> 0,
          down |-> {}, forced |-> FALSE, requests |-> 0, closed |-> {}, done |-> FALSE]

Ended == main \in {"clean", "error"}
-----------------------------------------------------------------------------
(***************************************************************************)
(* Start, called by main.                                                  *)
(***************************************************************************)
\* Both listeners are bound; the goroutines are started.
StartServing ==
  /\ main = "start"
  /\ main' = "window"
  /\ serve' = [s \in Servers |-> "serving"]
  /\ worker' = "retain"
  /\ UNCHANGED <<monitor, shutdown, b>>

\* A listener cannot be bound.
BindFail ==
  /\ main = "start"
  /\ main' = "error"
  /\ UNCHANGED <<serve, worker, monitor, shutdown, b>>

\* Mutant: the monitor is started before the broker is marked ready.
AfterTimer_MonitorFirst == <<"monitor", "ready", "wait">>

\* What main does once the startup window is over.
AfterTimer == <<"ready", "monitor", "wait">>

Following(here) == AfterTimer[1 + CHOOSE i \in 1 .. 2 : AfterTimer[i] = here]

\* The select in Start: an error arrives, or 50 ms pass without one.
StartupSelect ==
  /\ main = "window"
  /\ \/ /\ b.errors > 0
        /\ b' = [b EXCEPT !.errors = @ - 1]
        /\ main' = "startupFailed"
     \/ main' = AfterTimer[1] /\ UNCHANGED b
  /\ UNCHANGED <<serve, worker, monitor, shutdown>>

MarkReady ==
  /\ main = "ready"
  /\ b' = [b EXCEPT !.ready = TRUE]
  /\ main' = Following("ready")
  /\ UNCHANGED <<serve, worker, monitor, shutdown>>

StartMonitor ==
  /\ main = "monitor"
  /\ monitor' = "waiting"
  /\ main' = Following("monitor")
  /\ UNCHANGED <<serve, worker, shutdown, b>>
-----------------------------------------------------------------------------
(***************************************************************************)
(* The goroutines.                                                         *)
(***************************************************************************)
\* Serve returns: the server was told to stop, or it fails.
ServeReturns(s) ==
  /\ ~Ended /\ serve[s] = "serving"
  /\ serve' = [serve EXCEPT ![s] = "returned"]
  /\ UNCHANGED <<main, worker, monitor, shutdown, b>>

\* The goroutine reads Broker.stopped.
ServeChecks(s) ==
  /\ ~Ended /\ serve[s] = "returned"
  /\ serve' = [serve EXCEPT ![s] = IF b.stopped THEN "done" ELSE "failed"]
  /\ UNCHANGED <<main, worker, monitor, shutdown, b>>

ServeMarksUnready(s) ==
  /\ ~Ended /\ serve[s] = "failed"
  /\ serve' = [serve EXCEPT ![s] = "report"]
  /\ b' = [b EXCEPT !.ready = FALSE]
  /\ UNCHANGED <<main, worker, monitor, shutdown>>

\* Mutant: the goroutine reports and goes on.
ServeReports_Again(s) ==
  /\ ~Ended /\ serve[s] = "report"
  /\ b' = [b EXCEPT !.errors = @ + 1]
  /\ UNCHANGED <<main, serve, worker, monitor, shutdown>>

\* The channel has room for both servers.
ServeReports(s) ==
  /\ ~Ended /\ serve[s] = "report"
  /\ serve' = [serve EXCEPT ![s] = "done"]
  /\ b' = [b EXCEPT !.errors = @ + 1]
  /\ UNCHANGED <<main, worker, monitor, shutdown>>

\* ApplyRetention ends, after the last partition or early when cancelled.
WorkerRetained ==
  /\ ~Ended /\ worker = "retain"
  /\ worker' = "select"
  /\ UNCHANGED <<main, serve, monitor, shutdown, b>>

WorkerTick ==
  /\ ~Ended /\ worker = "select"
  /\ worker' = "retain"
  /\ UNCHANGED <<main, serve, monitor, shutdown, b>>

WorkerStops ==
  /\ ~Ended /\ worker = "select" /\ b.cancelled
  /\ worker' = "done"
  /\ UNCHANGED <<main, serve, monitor, shutdown, b>>

MonitorReceives ==
  /\ ~Ended /\ monitor = "waiting" /\ b.errors > 0
  /\ b' = [b EXCEPT !.errors = @ - 1]
  /\ monitor' = IF b.stopped THEN "done" ELSE "shutdown"
  /\ UNCHANGED <<main, serve, worker, shutdown>>

MonitorCancelled ==
  /\ ~Ended /\ monitor = "waiting" /\ b.cancelled
  /\ monitor' = "done"
  /\ UNCHANGED <<main, serve, worker, shutdown, b>>

\* A request reaches a handler, and the handler returns. Connections that
\* were accepted go on delivering requests after the accept loop has failed,
\* until GracefulStop.
RequestStart ==
  /\ ~Ended /\ serve["grpc"] # "off" /\ "grpc" \notin b.down
  /\ b.requests < MaxRequests
  /\ b' = [b EXCEPT !.requests = @ + 1]
  /\ UNCHANGED <<main, serve, worker, monitor, shutdown>>

RequestEnd ==
  /\ ~Ended /\ b.requests > 0
  /\ b' = [b EXCEPT !.requests = @ - 1]
  /\ UNCHANGED <<main, serve, worker, monitor, shutdown>>
-----------------------------------------------------------------------------
(***************************************************************************)
(* main after Start.                                                       *)
(***************************************************************************)
Signal ==
  /\ main = "wait"
  /\ main' = "signalled"
  /\ UNCHANGED <<serve, worker, monitor, shutdown, b>>

MainSeesDone ==
  /\ main = "wait" /\ b.done
  /\ main' = "error"
  /\ UNCHANGED <<serve, worker, monitor, shutdown, b>>
-----------------------------------------------------------------------------
(***************************************************************************)
(* Shutdown.                                                               *)
(***************************************************************************)
\* Mutants: no wait for the worker; no cancellation.
ShutdownSteps_NoWorkerWait == <<"unready", "cancel", "grpc", "http", "serving", "offsets", "storage", "done">>
ShutdownSteps_NoCancel == <<"unready", "workers", "grpc", "http", "serving", "offsets", "storage", "done">>

ShutdownSteps ==
  <<"unready", "cancel", "workers", "grpc", "http", "serving", "offsets", "storage", "done">>

CallsShutdown(who) ==
  \/ who = "main" /\ main \in {"startupFailed", "signalled"}
  \/ who = "monitor" /\ monitor = "shutdown"

\* What the caller does when Shutdown returns nil or an error: main ends the
\* process, with an error also when Start has failed.
Returned(who, isNil) ==
  \/ who = "monitor" /\ monitor' = "done" /\ UNCHANGED main
  \/ /\ who = "main" /\ UNCHANGED monitor
     /\ main' = IF isNil /\ main \in {"signalled", "stopping"} THEN "clean" ELSE "error"

\* The first caller sets stopped; a later one returns nil at once.
ShutdownCall(who) ==
  /\ ~Ended /\ CallsShutdown(who)
  /\ IF b.stopped
     THEN Returned(who, TRUE) /\ UNCHANGED <<shutdown, b>>
     ELSE /\ b' = [b EXCEPT !.stopped = TRUE]
          /\ shutdown' = [owner |-> who, step |-> 1]
          /\ main' = IF who = "monitor" THEN main
                     ELSE IF main = "startupFailed" THEN "stoppingFailed" ELSE "stopping"
          /\ monitor' = IF who = "monitor" THEN "stopping" ELSE monitor
  /\ UNCHANGED <<serve, worker>>

AtStep(name) ==
  /\ ~Ended /\ shutdown.owner # "none"
  /\ shutdown.step <= Len(ShutdownSteps) /\ ShutdownSteps[shutdown.step] = name

Advance == shutdown' = [shutdown EXCEPT !.step = @ + 1]

ShutdownFlags ==
  /\ \/ AtStep("unready") /\ b' = [b EXCEPT !.ready = FALSE]
     \/ AtStep("cancel") /\ b' = [b EXCEPT !.cancelled = TRUE]
     \/ AtStep("offsets") /\ b' = [b EXCEPT !.closed = @ \cup {"offsets"}]
     \/ AtStep("storage") /\ b' = [b EXCEPT !.closed = @ \cup {"storage"}]
  /\ Advance
  /\ UNCHANGED <<main, serve, worker, monitor>>

\* maintenanceWG.Wait and serveWG.Wait.
ShutdownWaits ==
  /\ \/ AtStep("workers") /\ worker = "done"
     \/ AtStep("serving") /\ \A s \in Servers : serve[s] = "done"
  /\ Advance
  /\ UNCHANGED <<main, serve, worker, monitor, b>>

\* No new requests are accepted from here on.
ShutdownStopsServer ==
  /\ \E s \in Servers : AtStep(s) /\ s \notin b.down /\ b' = [b EXCEPT !.down = @ \cup {s}]
  /\ UNCHANGED <<main, serve, worker, monitor, shutdown>>

\* GracefulStop waits for the handlers; the context of main's call after a
\* signal has a timeout, and then Stop does not wait for them.
ShutdownGRPC ==
  /\ AtStep("grpc") /\ "grpc" \in b.down
  /\ \/ b.requests = 0 /\ UNCHANGED b
     \/ main = "stopping" /\ b' = [b EXCEPT !.forced = TRUE]
  /\ Advance
  /\ UNCHANGED <<main, serve, worker, monitor>>

\* The HTTP server has read and write timeouts: its handlers return.
ShutdownHTTP ==
  /\ AtStep("http") /\ "http" \in b.down
  /\ Advance
  /\ UNCHANGED <<main, serve, worker, monitor, b>>

\* The error of a timeout, of a server or of a store being closed.
ShutdownReturns ==
  /\ AtStep("done")
  /\ b' = [b EXCEPT !.done = TRUE]
  /\ Advance
  /\ \E ok \in {~b.forced, FALSE} : Returned(shutdown.owner, ok)
  /\ UNCHANGED <<serve, worker>>
-----------------------------------------------------------------------------
Serving(s) == ServeChecks(s) \/ ServeMarksUnready(s) \/ ServeReports(s)

Shutdown ==
  \/ \E who \in {"main", "monitor"} : ShutdownCall(who)
  \/ ShutdownFlags \/ ShutdownWaits \/ ShutdownStopsServer
  \/ ShutdownGRPC \/ ShutdownHTTP \/ ShutdownReturns

Start == StartServing \/ BindFail \/ StartupSelect \/ MarkReady \/ StartMonitor

Monitor == MonitorReceives \/ MonitorCancelled

BrokerNext ==
  \/ Start \/ Signal \/ MainSeesDone
  \/ \E s \in Servers : ServeReturns(s) \/ Serving(s)
  \/ WorkerRetained \/ WorkerTick \/ WorkerStops
  \/ Monitor
  \/ RequestStart \/ RequestEnd
  \/ Shutdown
  \/ Ended /\ UNCHANGED brokerVars

\* Go schedules every goroutine that can run, a server that was told to
\* stop returns from Serve, and a select that is entered again and again with
\* a cancelled context takes that case in the end. Nothing is assumed of
\* RequestEnd: a health Watch lasts as long as its client wants.
Fairness ==
  /\ WF_brokerVars(Start) /\ WF_brokerVars(MainSeesDone)
  /\ \A s \in Servers : WF_brokerVars(Serving(s)) /\ WF_brokerVars(s \in b.down /\ ServeReturns(s))
  /\ WF_brokerVars(WorkerRetained) /\ SF_brokerVars(WorkerStops)
  /\ WF_brokerVars(Monitor)
  /\ WF_brokerVars(Shutdown)

BrokerSpec == BrokerInit /\ [][BrokerNext]_brokerVars /\ Fairness
-----------------------------------------------------------------------------
\* The goroutines and what they share.
BrokerTypeOK ==
  /\ b \in Shared
  /\ shutdown.owner \in {"none", "main", "monitor"}
  /\ shutdown.step \in 1 .. Len(ShutdownSteps) + 1

\* Readiness is withdrawn for good: once Shutdown has marked the broker
\* unready, neither Start nor anybody else marks it ready again.
UnreadyWhileStopping ==
  shutdown.step > 1 => ~b.ready

\* The partition stores are closed last: no retention run, no serving loop
\* and, unless the shutdown timed out, no request handler is left.
StorageClosedLast ==
  b.closed # {} =>
    /\ worker = "done"
    /\ \A s \in Servers : serve[s] = "done"
    /\ b.requests > 0 => b.forced

\* GracefulStop waits for a handler that is still running.
Draining == AtStep("grpc") /\ "grpc" \in b.down /\ b.requests > 0

\* A serving loop that fails does not leave a half-dead broker, whenever the
\* failure happens (startup window, operation, shutdown): the process ends,
\* unless a handler never returns. Neither the monitor nor Start gives its
\* Shutdown a deadline, so that GracefulStop then waits for it for ever; no
\* other wait lasts.
FailureEndsProcess ==
  \A s \in Servers : serve[s] = "failed" ~> (Ended \/ []Draining)

\* A signal ends the process, even when a handler never returns, and whatever
\* retention run is in progress: main's Shutdown has a deadline, and returns
\* at once when the monitor's is already draining.
SignalEndsProcess == main = "signalled" ~> Ended

\* "Shutdown gracefully stops the broker server, then flushes and closes
\* storage": when main reports a clean shutdown, the stores are closed.
CleanExitClosesStorage ==
  main = "clean" => b.closed = {"offsets", "storage"}
=============================================================================
