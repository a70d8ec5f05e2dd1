---------------------------- MODULE AppLifecycle ----------------------------
(***************************************************************************)
(* The lifecycle of LiteyukiApp (app.py): one startup task, shared stop    *)
(* tasks, and the cleanup both of them run over the OneBot adapter, the    *)
(* event bus and the Cordis host, under a deadline and with named close    *)
(* operations that outlive the cleanup that started them.                  *)
(*                                                                         *)
(* The parts are seen from the application: what it refers to (onebot,     *)
(* cordis, services), what is really up (live), and whether a callback of  *)
(* the bus outlived its cancellation (stray).  An action is what a task    *)
(* does between two suspensions.                                           *)
(***************************************************************************)
EXTENDS Integers, FiniteSets

CONSTANTS
  Stoppers,    \* tasks that call stop
  MaxStops,    \* bound on the calls each of them makes
  MaxCancels,  \* bound on the calls of cancel_start
  Nobody       \* no task keeps the event loop

ASSUME StopperAssumption == Nobody \notin Stoppers /\ MaxStops \in Nat /\ MaxCancels \in Nat

VARIABLES
  state,       \* AppState
  accepting,   \* _accepting_events
  onebot,      \* the application refers to an adapter
  cordis,      \* the application refers to a Cordis manager
  services,    \* _runtime_services is not empty
  logging,     \* "off", "on" (_logging_started) or "shut"
  live,        \* the parts that are up
  stray,       \* the bus has background tasks
  closing,     \* _cleanup_operations: the parts whose close operation runs
  startOp,     \* where the task of _start_impl is; "done" until its callback ran
  startCancel, \* that task has a cancellation it has not received
  stopOp,      \* where the task of _stop_impl is; "done" until its callback ran
  cleanup,     \* the cleanup each of the two tasks runs
  stopper,     \* where each caller of stop is
  stops,       \* how often each of them called
  cancels,     \* how often cancel_start was called
  loop         \* the stopper that never yields, or Nobody

vars == <<state, accepting, onebot, cordis, services, logging, live, stray, closing,
          startOp, startCancel, stopOp, cleanup, stopper, stops, cancels, loop>>

partVars == <<onebot, cordis, services, logging, live>>
callVars == <<stopper, stops, cancels, loop>>

Parts == {"OneBot", "EventBus", "Cordis"}
Ops == {"start", "stop"}

\* A cleanup waits for the part at, has heard how its close operation ended, and knows
\* whether the bus was closed and whether anything failed.
NoCleanup == [at |-> "none", heard |-> "none", eventsClean |-> FALSE, failed |-> FALSE]

-----------------------------------------------------------------------------
(* The cleanup, seen by the task o that runs it. *)

\* _await_cleanup: task o joins the close operation of a part, or starts one.
Await(o, part, f) ==
  /\ cleanup' = [cleanup EXCEPT ![o] = [f EXCEPT !.at = part, !.heard = "none"]]
  /\ closing' = closing \cup {part}

\* A cleanup refuses new events first.
RefuseEvents == FALSE

BeginCleanup(o) ==
  /\ accepting' = RefuseEvents
  /\ Await(o, IF onebot THEN "OneBot" ELSE "EventBus", NoCleanup)

\* May logging be shut down at the end of cleanup f?
AllQuiet(f) == f.eventsClean /\ ~onebot /\ ~cordis' /\ closing = {}

\* Mutant: services go whatever became of Cordis.
AlwaysRemove == TRUE

\* The runtime services are removed only when Cordis is closed.
RemoveServices == ~cordis'

\* The end of the cleanup of task o, whose frame is f.
Finish(o, f) ==
  /\ cleanup' = [cleanup EXCEPT ![o] = NoCleanup]
  /\ services' = (services /\ ~RemoveServices)
  /\ logging' = IF logging = "on" /\ AllQuiet(f) THEN "shut" ELSE logging
  /\ IF o = "start"
     THEN /\ startOp' = "done"
          /\ UNCHANGED <<state, stopOp, stopper>>
     ELSE /\ stopOp' = "done"
          /\ state' = IF f.failed THEN "failed" ELSE "stopped"
          /\ stopper' = [w \in Stoppers |->
                           IF stopper[w] # "awaitStop" THEN stopper[w]
                           ELSE IF f.failed THEN "raised" ELSE "returned"]
          /\ UNCHANGED startOp
  /\ UNCHANGED closing

\* The adapter is closed, failed or is late: go on with the bus in any case.
AfterOneBot(o, f, result) ==
  /\ onebot' = (onebot /\ result # "ok")
  /\ Await(o, "EventBus", [f EXCEPT !.failed = @ \/ result # "ok"])
  /\ UNCHANGED <<state, cordis, services, logging, startOp, stopOp, stopper>>

\* Mutant: background tasks of the bus are not looked at.
ClosedInTime(result) == result = "ok"

\* The bus is closed, and no callback of it is left.
EventsClean(result) == result = "ok" /\ ~stray

\* Mutant: a cleanup that had to leave Cordis up does not report it.
NotReported == FALSE

\* Cordis is left for a later stop: that is an error of this one.
Deferred == cordis

\* Only a clean bus lets Cordis be closed; a late one is no failure by itself.
AfterEventBus(o, f, result) ==
  LET clean == EventsClean(result)
      g == [f EXCEPT !.eventsClean = clean, !.failed = @ \/ stray \/ result = "error"]
  IN  /\ UNCHANGED <<onebot, cordis>>
      /\ IF cordis /\ clean
         THEN /\ Await(o, "Cordis", g)
              /\ UNCHANGED <<state, services, logging, startOp, stopOp, stopper>>
         ELSE Finish(o, [g EXCEPT !.failed = @ \/ Deferred])

AfterCordis(o, f, result) ==
  /\ cordis' = (cordis /\ result # "ok")
  /\ UNCHANGED onebot
  /\ Finish(o, [f EXCEPT !.failed = @ \/ result # "ok"])

After(o, result) ==
  LET f == cleanup[o] IN
  \/ f.at = "OneBot" /\ AfterOneBot(o, f, result)
  \/ f.at = "EventBus" /\ AfterEventBus(o, f, result)
  \/ f.at = "Cordis" /\ AfterCordis(o, f, result)

\* The task has not received a cancellation.
Undisturbed(o) == loop = Nobody /\ (o = "stop" \/ ~startCancel)

\* The close operation that task o waits for has ended.
Hears(o) ==
  /\ Undisturbed(o) /\ cleanup[o].heard # "none"
  /\ After(o, cleanup[o].heard)
  /\ UNCHANGED <<accepting, live, stray, startCancel, stops, cancels, loop>>

\* Mutant: a cleanup waits as long as the part takes.
NoDeadline(o) == FALSE

\* The shutdown deadline passes; the close operation goes on without its waiter.
DeadlinePasses(o) ==
  /\ Undisturbed(o) /\ cleanup[o].heard = "none"
  /\ After(o, "late")
  /\ UNCHANGED <<accepting, live, stray, startCancel, stops, cancels, loop>>

-----------------------------------------------------------------------------
(* The parts. *)

\* The close operation of a part ends.  The bus closes itself without an error; the
\* adapter and Cordis may fail and stay up.
CloseEnds(part, result) ==
  /\ loop = Nobody /\ part \in closing
  /\ part = "EventBus" => result = "ok"
  /\ closing' = closing \ {part}
  /\ live' = IF result = "ok" THEN live \ {part} ELSE live
  /\ cleanup' = [o \in Ops |-> IF cleanup[o].at = part
                               THEN [cleanup[o] EXCEPT !.heard = result] ELSE cleanup[o]]
  /\ UNCHANGED <<state, accepting, onebot, cordis, services, logging, stray, startOp,
                 startCancel, stopOp, callVars>>

\* A handler that Cordis runs for the bus outlives its cancellation, and ends at last.
StrayBegins ==
  /\ loop = Nobody /\ ~stray /\ {"EventBus", "Cordis"} \subseteq live
  /\ stray' = TRUE
  /\ UNCHANGED <<state, accepting, partVars, closing, startOp, startCancel, stopOp, cleanup,
                 callVars>>

StrayEnds ==
  /\ loop = Nobody /\ stray
  /\ stray' = FALSE
  /\ UNCHANGED <<state, accepting, partVars, closing, startOp, startCancel, stopOp, cleanup,
                 callVars>>

-----------------------------------------------------------------------------
(* Startup. *)

Start ==
  /\ loop = Nobody /\ state = "created"
  /\ state' = "starting" /\ startOp' = "created"
  /\ UNCHANGED <<accepting, partVars, stray, closing, startCancel, stopOp, cleanup, callVars>>

\* Startup failed: it cleans up in its own task.
StartFails ==
  /\ state' = "failed" /\ startOp' = "cleanup"
  /\ BeginCleanup("start")

\* The first step of _start_impl, up to the first plugin that suspends: logging, the bus,
\* the resource services and the Cordis manager come up in this order, unless one fails.
StartRuns ==
  /\ Undisturbed("start") /\ startOp = "created"
  /\ \/ \E done \in 0..3 :
          /\ logging' = IF done >= 1 THEN "on" ELSE "off"
          /\ live' = IF done >= 2 THEN live \cup {"EventBus"} ELSE live
          /\ services' = (done >= 3)
          /\ UNCHANGED cordis
          /\ StartFails
     \/ /\ logging' = "on" /\ services' = TRUE /\ cordis' = TRUE
        /\ live' = live \cup {"EventBus", "Cordis"}
        /\ startOp' = "activating"
        /\ UNCHANGED <<state, accepting, closing, cleanup>>
  /\ UNCHANGED <<onebot, stray, startCancel, stopOp, callVars>>

Ready ==
  /\ state' = "ready" /\ accepting' = TRUE /\ startOp' = "done"
  /\ UNCHANGED <<closing, cleanup>>

\* All plugins are active: the adapter is started if accounts are configured.
PluginsActive ==
  /\ Undisturbed("start") /\ startOp = "activating"
  /\ \/ /\ onebot' = TRUE /\ live' = live \cup {"OneBot"} /\ startOp' = "connecting"
        /\ UNCHANGED <<state, accepting, closing, cleanup>>
     \/ Ready /\ UNCHANGED <<onebot, live>>
  /\ UNCHANGED <<cordis, services, logging, stray, startCancel, stopOp, callVars>>

AdapterStarted ==
  /\ Undisturbed("start") /\ startOp = "connecting"
  /\ Ready
  /\ UNCHANGED <<partVars, stray, startCancel, stopOp, callVars>>

\* A plugin or the adapter raises, or passes on the cancellation it received.
StartupError ==
  /\ loop = Nobody /\ startOp \in {"activating", "connecting"}
  /\ StartFails
  /\ startCancel' = FALSE
  /\ UNCHANGED <<partVars, stray, stopOp, callVars>>

CancelStart ==
  /\ loop = Nobody /\ startOp \notin {"none", "done"} /\ cancels < MaxCancels
  /\ cancels' = cancels + 1 /\ startCancel' = TRUE
  /\ UNCHANGED <<state, accepting, partVars, stray, closing, startOp, stopOp, cleanup, stopper,
                 stops, loop>>

\* A task that is cancelled before its first step runs nothing of _start_impl.
StartNeverRuns ==
  /\ loop = Nobody /\ startOp = "created" /\ startCancel
  /\ startOp' = "done" /\ startCancel' = FALSE
  /\ UNCHANGED <<state, accepting, partVars, stray, closing, stopOp, cleanup, callVars>>

\* A plugin swallows the cancellation.
CancelSwallowed ==
  /\ loop = Nobody /\ startOp \in {"activating", "connecting"} /\ startCancel
  /\ startCancel' = FALSE
  /\ UNCHANGED <<state, accepting, partVars, stray, closing, startOp, stopOp, cleanup, callVars>>

\* The cancellation reaches the cleanup of startup: the part it waits for counts as failed.
CleanupInterrupted ==
  /\ loop = Nobody /\ startOp = "cleanup" /\ startCancel
  /\ After("start", "error")
  /\ startCancel' = FALSE
  /\ UNCHANGED <<accepting, live, stray, stops, cancels, loop>>

\* The done callback of the startup task: _start_operation is cleared, and those who wait
\* for it come back.
ClearStart ==
  /\ loop = Nobody /\ startOp = "done"
  /\ startOp' = "none" /\ startCancel' = FALSE
  /\ stopper' = [w \in Stoppers |-> IF stopper[w] = "awaitStart" THEN "again" ELSE stopper[w]]
  /\ UNCHANGED <<state, accepting, partVars, stray, closing, stopOp, cleanup, stops, cancels,
                 loop>>

-----------------------------------------------------------------------------
(* Stopping. *)

\* A startup is waited for; a cancelled one may have left the state behind without a task.
StartupPending == state = "starting" /\ startOp # "none"

\* Is there a stop task to join?
StopUnderWay == state = "stopping" /\ stopOp # "none"

\* One pass of the loop of stop by caller w.  While the startup task is done and its
\* callback has not run, the pass neither suspends nor changes anything, and is repeated.
StopTurn(w) ==
  \/ /\ state \in {"created", "stopped"}
     /\ state' = "stopped" /\ stopper' = [stopper EXCEPT ![w] = "returned"]
     /\ UNCHANGED <<stopOp, loop>>
  \/ /\ StartupPending
     /\ stopper' = [stopper EXCEPT ![w] = "awaitStart"]
     /\ loop' = IF startOp = "done" THEN w ELSE Nobody
     /\ UNCHANGED <<state, stopOp>>
  \/ /\ state \in {"starting", "stopping", "ready", "failed"} /\ ~StartupPending
     /\ state' = "stopping" /\ stopper' = [stopper EXCEPT ![w] = "awaitStop"]
     /\ stopOp' = IF StopUnderWay THEN stopOp ELSE "created"
     /\ UNCHANGED loop

Stop(w) ==
  /\ loop = Nobody /\ stopper[w] \in {"idle", "returned", "raised"} /\ stops[w] < MaxStops
  /\ stops' = [stops EXCEPT ![w] = @ + 1]
  /\ StopTurn(w)
  /\ UNCHANGED <<accepting, partVars, stray, closing, startOp, startCancel, cleanup, cancels>>

StopAgain(w) ==
  /\ loop = Nobody /\ stopper[w] = "again"
  /\ StopTurn(w)
  /\ UNCHANGED <<accepting, partVars, stray, closing, startOp, startCancel, cleanup, stops,
                 cancels>>

StopRuns ==
  /\ loop = Nobody /\ stopOp = "created"
  /\ stopOp' = "cleanup"
  /\ BeginCleanup("stop")
  /\ UNCHANGED <<state, partVars, stray, startOp, startCancel, callVars>>

ClearStop ==
  /\ loop = Nobody /\ stopOp = "done"
  /\ stopOp' = "none"
  /\ UNCHANGED <<state, accepting, partVars, stray, closing, startOp, startCancel, cleanup,
                 callVars>>

-----------------------------------------------------------------------------
Init ==
  /\ state = "created" /\ accepting = FALSE /\ onebot = FALSE /\ cordis = FALSE
  /\ services = FALSE /\ logging = "off" /\ live = {} /\ stray = FALSE /\ closing = {}
  /\ startOp = "none" /\ startCancel = FALSE /\ stopOp = "none"
  /\ cleanup = [o \in Ops |-> NoCleanup]
  /\ stopper = [w \in Stoppers |-> "idle"] /\ stops = [w \in Stoppers |-> 0]
  /\ cancels = 0 /\ loop = Nobody

Startup ==
  \/ StartRuns \/ PluginsActive \/ AdapterStarted \/ StartupError \/ StartNeverRuns
  \/ CleanupInterrupted \/ ClearStart

Stopping ==
  \/ \E w \in Stoppers : StopAgain(w)
  \/ StopRuns \/ ClearStop

\* What goes on without a call from outside.
Running ==
  \/ Startup \/ CancelSwallowed \/ Stopping
  \/ \E o \in Ops : Hears(o) \/ DeadlinePasses(o)
  \/ \E part \in Parts, result \in {"ok", "error"} : CloseEnds(part, result)
  \/ StrayBegins \/ StrayEnds

Calls == Start \/ CancelStart \/ \E w \in Stoppers : Stop(w)

Next == Calls \/ Running

Spec == Init /\ [][Next]_vars

\* Ready tasks run, timers fire, plugins and the adapter do not start for ever.  Nothing is
\* assumed of how the parts close.
Fairness ==
  /\ WF_vars(Startup) /\ WF_vars(Stopping)
  /\ \A o \in Ops : WF_vars(Hears(o) \/ DeadlinePasses(o))

FairSpec == Spec /\ Fairness

-----------------------------------------------------------------------------
(* What the lifecycle promises. *)

\* The application reports stopped only when the adapter, Cordis, the services and every
\* callback of the bus are gone, whether it came from startup, a failed startup or a failed
\* stop; the bus is closed, or its close operation still runs.
StoppedMeansClean ==
  state = "stopped" =>
    /\ ~onebot /\ ~cordis /\ ~services /\ ~accepting /\ ~stray
    /\ "EventBus" \in live => "EventBus" \in closing
    /\ live \subseteq {"EventBus"}

\* Cordis, whose scopes own what the handlers use, is not closed while the bus is up or a
\* callback of it still runs; logging is the last to go: nothing that logs is up or being
\* closed.  (A later cleanup calls aclose of the closed bus once more, which returns.)
CloseOrder ==
  /\ "Cordis" \in closing => "EventBus" \notin live /\ ~stray
  /\ logging = "shut" => live = {} /\ closing \subseteq {"EventBus"} /\ ~stray

\* A part that is up stays known to the application, also when a stop and the cleanup of a
\* failed startup run at the same time: a later stop can close what an earlier one could not.
NothingForgotten ==
  /\ "OneBot" \in live => onebot
  /\ "Cordis" \in live => cordis /\ services
  /\ accepting => {"EventBus", "Cordis"} \subseteq live

Waiting(w) == stopper[w] \in {"awaitStart", "again", "awaitStop"}

\* Every call of stop ends.
StopReturns == \A w \in Stoppers : Waiting(w) ~> ~Waiting(w)
=============================================================================
