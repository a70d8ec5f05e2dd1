----------------------------- MODULE AppSession -----------------------------
(***************************************************************************)
(* What drives the application in a process of the command line (cli.py):  *)
(* run, which starts it and stops it on a signal, and tests debug, which   *)
(* gives startup and cleanup a deadline each and reports with its exit     *)
(* status how the session went.  An embedding program calls start,         *)
(* cancel_start and stop as it likes.                                      *)
(***************************************************************************)
EXTENDS AppLifecycle

CONSTANT Cli   \* the stopper that the session is

ASSUME SessionAssumption == Cli \in Stoppers

VARIABLE session

sessionVars == <<vars, session>>

NewSession(mode) ==
  [mode |-> mode, pc |-> "new", heard |-> "none", up |-> FALSE, error |-> FALSE,
   signal |-> FALSE, exit |-> "none"]

Goes(pc) == session' = [session EXCEPT !.pc = pc]
GoesWrong(pc) == session' = [session EXCEPT !.pc = pc, !.error = TRUE]

-----------------------------------------------------------------------------
(* Startup. *)

\* tests debug validates the settings before it starts anything.
SessionBegins ==
  /\ session.pc = "new"
  /\ \/ Goes("startup")
     \/ session.mode = "debug" /\ GoesWrong("cleanup")
  /\ UNCHANGED vars

SessionStarts ==
  /\ session.pc = "startup"
  /\ Start
  /\ Goes("starting")

\* The startup task has ended: what the caller of start hears.
Observe ==
  session' = IF session.pc = "starting" /\ startOp # "done" /\ startOp' = "done"
             THEN [session EXCEPT !.heard = IF state' = "ready" THEN "ok" ELSE "error"]
             ELSE session

StartHeard ==
  /\ session.pc = "starting"
  /\ \/ /\ session.heard = "ok"
        /\ session' = [session EXCEPT !.pc = "ready", !.up = TRUE]
     \/ session.heard = "error" /\ GoesWrong("cleanup")
  /\ UNCHANGED vars

\* cancel_start, also when there is nothing to cancel.
CancelsStart == startCancel' = (startCancel \/ startOp \notin {"none", "done"})

\* The deadline of a debug session passes during startup.  The first step of a task that was
\* created comes before any timer; a task that has not made it only disappears.
StartDeadline ==
  /\ session.mode = "debug"
  /\ \/ session.pc = "startup" /\ GoesWrong("cleanup") /\ UNCHANGED startCancel
     \/ /\ session.pc = "starting" /\ session.heard = "none" /\ startOp # "created"
        /\ CancelsStart /\ GoesWrong("aborted")
  /\ UNCHANGED <<state, accepting, partVars, stray, closing, startOp, stopOp, cleanup, callVars>>

\* The cancelled call of start has ended, and the loop has run once.
AbortDone ==
  /\ session.pc = "aborted"
  /\ Goes("cleanup")
  /\ UNCHANGED vars

\* The duration is over, or run has received its signal.
LeaveReady ==
  /\ session.pc = "ready" /\ (session.mode = "run" => session.signal)
  /\ Goes("cleanup")
  /\ UNCHANGED vars

-----------------------------------------------------------------------------
(* Cleanup, which follows whatever happened. *)

SessionStops ==
  /\ session.pc = "cleanup"
  /\ Stop(Cli)
  /\ Goes("stopping")

\* Mutant: an error of the cleanup is not reported.
NoCleanupError == FALSE

CleanupError == stopper[Cli] = "raised"

SessionEnds ==
  /\ session.pc \in {"stopping", "draining"} /\ stopper[Cli] \in {"returned", "raised"}
  /\ session' = [session EXCEPT
       !.pc = "ended",
       !.exit = IF session.signal /\ session.mode = "debug" THEN "interrupted"
                ELSE IF session.error \/ session.pc = "draining" \/ CleanupError THEN "failed"
                ELSE "ok"]
  /\ UNCHANGED vars

CleanupIsLate == session.mode = "debug" /\ session.pc = "stopping"

\* The call of stop is cancelled: while it waits for the stop task it ends, while it waits
\* for the startup it swallows the cancellation and goes on.
Cancelled(pc) == IF pc = "awaitStop" THEN "raised" ELSE "again"

\* The deadline of the cleanup passes; the cancelled call is waited for without another one.
CleanupDeadline ==
  /\ CleanupIsLate /\ loop = Nobody /\ startOp # "created"
  /\ stopper[Cli] \in {"awaitStart", "again", "awaitStop"}
  /\ CancelsStart
  /\ stopper' = [stopper EXCEPT ![Cli] = Cancelled(@)]
  /\ Goes("draining")
  /\ UNCHANGED <<state, accepting, partVars, stray, closing, startOp, stopOp, cleanup, stops,
                 cancels, loop>>

-----------------------------------------------------------------------------
(* SIGINT and SIGTERM. *)

\* run only notes the signal; a debug session, whose main task is cancelled, goes on with its
\* cleanup, leaves a cleanup that runs, or loses the cancellation to the call it waits for.
Signal ==
  /\ session.mode # "embedded" /\ ~session.signal /\ session.pc \notin {"new", "ended"}
  /\ LET s == [session EXCEPT !.signal = TRUE] IN
     \/ session.mode = "run" /\ session' = s /\ UNCHANGED stopper
     \/ /\ session.mode = "debug"
        /\ CASE session.pc = "stopping" ->
                  session' = [s EXCEPT !.pc = "ended", !.exit = "interrupted"]
                  /\ UNCHANGED stopper
             [] session.pc = "draining" ->
                  session' = s /\ stopper' = [stopper EXCEPT ![Cli] =
                                                IF @ \in {"returned", "raised"} THEN @
                                                ELSE Cancelled(@)]
             [] OTHER -> session' = [s EXCEPT !.pc = "cleanup"] /\ UNCHANGED stopper
  /\ UNCHANGED <<state, accepting, partVars, stray, closing, startOp, startCancel, stopOp,
                 cleanup, stops, cancels, loop>>

-----------------------------------------------------------------------------
SessionInit == Init /\ session \in {NewSession(m) : m \in {"run", "debug", "embedded"}}

SessionStep ==
  /\ session.mode # "embedded"
  /\ \/ SessionBegins \/ SessionStarts \/ StartHeard \/ StartDeadline \/ AbortDone \/ LeaveReady
     \/ SessionStops \/ SessionEnds \/ CleanupDeadline

SessionNext ==
  \/ SessionStep \/ Signal
  \/ session.mode = "embedded" /\ Calls /\ UNCHANGED session
  \/ session.pc # "ended" /\ Running /\ Observe

SessionSpec == SessionInit /\ [][SessionNext]_sessionVars

Alive == session.pc # "ended"

\* The fairness of the application, for as long as the process lives, and of the session.
FairSession ==
  /\ SessionSpec
  /\ WF_sessionVars(Alive /\ Startup /\ Observe)
  /\ WF_sessionVars(Alive /\ Stopping /\ Observe)
  /\ \A o \in Ops : WF_sessionVars(Alive /\ (Hears(o) \/ DeadlinePasses(o)) /\ Observe)
  /\ WF_sessionVars(SessionStep)

\* The same, but a plugin that swallows its cancellation may take for ever.
ImpatientSession ==
  /\ SessionSpec
  /\ WF_sessionVars(/\ Alive
                    /\ \/ StartRuns \/ StartNeverRuns \/ CleanupInterrupted \/ ClearStart
                       \/ startCancel /\ StartupError
                    /\ Observe)
  /\ WF_sessionVars(Alive /\ Stopping /\ Observe)
  /\ \A o \in Ops : WF_sessionVars(Alive /\ (Hears(o) \/ DeadlinePasses(o)) /\ Observe)
  /\ WF_sessionVars(SessionStep)

-----------------------------------------------------------------------------
(* What the commands that run the application promise. *)

\* A session that ends well has stopped the application completely; a debug session has also
\* seen it come up.  A startup or a cleanup that failed or was late is never reported as a
\* success.
ExitTruth ==
  session.exit = "ok" =>
    /\ state = "stopped" /\ ~onebot /\ ~cordis
    /\ session.mode = "debug" => session.up

\* Every call of stop is answered unless a caller keeps the loop; a debug session ends in any
\* case, run after its signal, if startup does not take for ever.
EveryoneAnswered ==
  /\ \A w \in Stoppers : Waiting(w) ~> ~Waiting(w) \/ loop # Nobody \/ ~Alive
  /\ session.mode = "debug" ~> ~Alive
  /\ session.signal ~> ~Alive

\* The cleanup of a debug session ends, whatever plugins do with their cancellation.
CleanupBounded == session.mode = "debug" /\ session.pc = "stopping" ~> ~Alive
=============================================================================
