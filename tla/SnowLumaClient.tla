--------------------------- MODULE SnowLumaClient ---------------------------
(***************************************************************************)
(* One SnowLuma account (snowluma/client.py): the task that connects,      *)
(* reads and reconnects (run), the task that hands queued events to the    *)
(* host one at a time (disp), callers of the OneBot API, which send under  *)
(* one lock (gate), and close, with its deadline, its lingering tasks and  *)
(* its deferred close of the transport.                                    *)
(*                                                                         *)
(* Two things close a transport: the task that close starts for it         *)
(* (transport), and _run where it leaves the context of its connection     *)
(* (Leaving).  A start that finds the dispatcher of an earlier one at work *)
(* forgets it: it goes on as a stray.                                      *)
(*                                                                         *)
(* close runs under _close_lock, so that one call of it is at work at a    *)
(* time; another call waits or times out and changes nothing.  A caller is *)
(* the task that calls the API; an action is what a task does between two  *)
(* suspensions.                                                            *)
(***************************************************************************)
EXTENDS Integers, Sequences, FiniteSets

CONSTANTS
  Callers,     \* tasks that call the OneBot API
  Slots,       \* _EVENT_QUEUE_BYTE_SLOTS
  Capacity,    \* _EVENT_QUEUE_CAPACITY
  Weights,     \* slots that events of different sizes take
  MaxConnections, MaxEvents, MaxCalls, MaxCloses, MaxStarts,  \* bounds on the history
  Nobody       \* the gate is free

ASSUME AccountAssumption ==
  /\ Slots \in Nat \ {0} /\ Capacity \in Nat \ {0} /\ Weights \subseteq Nat \ {0}
  /\ {MaxConnections, MaxEvents, MaxCalls, MaxCloses, MaxStarts} \subseteq Nat
  /\ Nobody \notin Callers /\ Callers \cap {"run", "disp", "close", "deferred"} = {}

VARIABLES
  state,       \* _state
  closed,      \* _closed
  closing,     \* _closing
  cleanupError,\* _cleanup_error is set
  connection,  \* _connection: 0 is None
  closingConn, \* _closing_connection is set
  run,         \* where the task of _run is, its connection and its reservation
  disp,        \* where the task of _dispatch_events is
  strays,      \* where the dispatcher of each start is that a later start has forgotten
  owned,       \* which of both _task and _event_dispatch_task refer to
  lingering,   \* _lingering_tasks
  cancelled,   \* tasks with a cancellation they have not received
  gate,        \* the caller that holds _send_lock over a send, or Nobody
  caller,      \* where each caller is, on which connection, and its future
  queue,       \* the sizes of the events in _events
  unfinished,  \* events put into _events without a task_done
  slots,       \* the value of _event_slots
  transport,   \* _transport_close_task runs
  deferred,    \* where the task of _close_after_send_gate is
  closer,      \* where the current call of close is
  counts       \* how much of the history's bounds is used

vars == <<state, closed, closing, cleanupError, connection, closingConn, run, disp, strays,
          owned, lingering, cancelled, gate, caller, queue, unfinished, slots, transport,
          deferred, closer, counts>>

queueVars == <<queue, unfinished, slots>>
eventVars == <<disp, strays, queueVars>>
closeVars == <<closingConn, transport, deferred, closer>>
flagVars == <<closed, closing, owned>>
errorVars == <<state, cleanupError, lingering>>

Count(what, max) == counts[what] < max /\ counts' = [counts EXCEPT ![what] = @ + 1]

-----------------------------------------------------------------------------
(* Helpers. *)

NoRun == [pc |-> "none", conn |-> 0, need |-> 0, got |-> 0]
NoCall == [pc |-> "idle", conn |-> 0, future |-> "none", late |-> FALSE]
NoClose == [pc |-> "idle", conn |-> FALSE, late |-> FALSE, waits |-> {}, bad |-> FALSE]

\* The context of a connection is left: its __aexit__ closes the transport, whether a send
\* holds the gate or not.
Leaving == run.pc \in {"exit", "lastExit"}

SendTasks == {c \in Callers : caller[c].pc # "idle"}

\* Of the tasks an account has, those it may still refer to.
Alive == {t \in {"run"} : run.pc # "none"} \cup {t \in {"disp"} : disp # "none"} \cup SendTasks

\* The slots that queued events hold, summed up one event after the other.
Weight(events) ==
  LET sum[i \in 0..Len(events)] == IF i = 0 THEN 0 ELSE sum[i - 1] + events[i]
  IN  sum[Len(events)]

\* _clear_connection_state: every pending call is told that its connection is gone.
FailPending(calls) ==
  [c \in Callers |-> IF calls[c].future = "open" THEN [calls[c] EXCEPT !.future = "error"]
                     ELSE calls[c]]

\* The condition of _maybe_mark_stopped.
Quiet ==
  /\ closed' /\ ~closing' /\ connection' = 0 /\ ~closingConn' /\ SendTasks' = {}
  /\ lingering' = {} /\ ~cleanupError'

MaybeStopped(otherwise) == state' = IF Quiet THEN "stopped" ELSE otherwise

\* The end of task t as its done callback _forget_task sees it, if it lingers; a close that
\* waits for it looks at it later.
Ended(t, raised) ==
  /\ cancelled' = cancelled \ {t}
  /\ IF t \in lingering
     THEN /\ lingering' = lingering \ {t}
          /\ cleanupError' = (cleanupError \/ raised)
          /\ MaybeStopped(IF raised THEN "failed" ELSE state)
     ELSE UNCHANGED errorVars
  /\ closer' = [closer EXCEPT !.bad = @ \/ (raised /\ t \in closer.waits)]

-----------------------------------------------------------------------------
(* The connection. *)

\* May start go on, or is something of an earlier close left?
Startable == ~closing /\ lingering = {} /\ ~closingConn /\ ~cleanupError

\* What becomes of a dispatcher whose queue is replaced: it waits at the old one for ever, or
\* has an event in hand; one that was going to take an event would release slots that the new
\* semaphore has not lent, and ends.
Forgotten(d) == IF d # "get" THEN d ELSE IF queue = <<>> THEN "stuck" ELSE "none"

\* A start that is not refused replaces both tasks, the queue and the semaphore.  It asks only
\* for the end of _task: the dispatcher of the start before it may be at work.
Start ==
  /\ ~("run" \in owned /\ run.pc # "none") /\ Startable
  /\ Count("starts", MaxStarts)
  /\ closed' = FALSE /\ state' = "connecting"
  /\ queue' = <<>> /\ unfinished' = 0 /\ slots' = Slots
  /\ strays' = [n \in DOMAIN strays |-> Forgotten(IF n = counts["starts"] THEN disp ELSE strays[n])]
  /\ run' = [NoRun EXCEPT !.pc = "connect"] /\ disp' = "get" /\ owned' = {"run", "disp"}
  /\ UNCHANGED <<closing, cleanupError, connection, lingering, cancelled, gate, caller,
                 closeVars>>

\* The task of _run ends.
RunEnds ==
  /\ run' = NoRun
  /\ Ended("run", FALSE)

\* The calls that the end of a connection leaves behind.
CallsAfterLoss == FailPending(caller)

\* The finally clause of _run: the connection is gone; wait and try again unless closed.
Lost(again) ==
  /\ connection' = 0 /\ caller' = CallsAfterLoss
  /\ IF closed
     THEN RunEnds
     ELSE /\ run' = [NoRun EXCEPT !.pc = IF again THEN "backoff" ELSE "lastBackoff"]
          /\ state' = "backoff"
          /\ UNCHANGED <<lingering, cleanupError, cancelled, closer>>

Undisturbed(t) == t \notin cancelled

RunConnects ==
  /\ run.pc = "connect" /\ Undisturbed("run")
  /\ Count("connections", MaxConnections)
  /\ run' = [run EXCEPT !.pc = "gate", !.conn = counts'["connections"]]
  /\ UNCHANGED <<flagVars, errorVars, connection, cancelled, gate, caller, eventVars, closeVars>>

RunConnectFails ==
  /\ run.pc = "connect" /\ Undisturbed("run")
  /\ UNCHANGED <<flagVars, gate, eventVars, closingConn, transport, deferred, counts>>
  /\ Lost(TRUE)

\* The new connection is published under the gate, unless the account is closing.
RunPublishes ==
  /\ run.pc = "gate" /\ Undisturbed("run") /\ gate = Nobody
  /\ IF closed \/ closing
     THEN run' = [run EXCEPT !.pc = "lastExit"] /\ UNCHANGED <<connection, state>>
     ELSE /\ run' = [run EXCEPT !.pc = "consume"]
          /\ connection' = run.conn /\ state' = "connected"
  /\ UNCHANGED <<flagVars, cleanupError, lingering, cancelled, gate, caller, eventVars,
                 closeVars, counts>>

\* An answer arrives for a call that still waits for it.
RunAnswers(c) ==
  /\ run.pc = "consume" /\ Undisturbed("run")
  /\ caller[c].future = "open" /\ caller[c].conn = run.conn
  /\ caller' = [caller EXCEPT ![c].future = "ok"]
  /\ UNCHANGED <<flagVars, errorVars, connection, run, cancelled, gate, eventVars, closeVars,
                 counts>>

\* run takes the slots it can get; with all of them the event is queued, if there is room
\* and the account was not closed meanwhile.
Reserve(r) ==
  LET more == IF r.need - r.got <= slots THEN r.need - r.got ELSE slots
      full == r.got + more = r.need
  IN  IF closed
      THEN /\ run' = [r EXCEPT !.pc = "consume", !.need = 0, !.got = 0]
           /\ slots' = slots + r.got /\ UNCHANGED <<queue, unfinished>>
      ELSE IF full /\ Len(queue) < Capacity
      THEN /\ run' = [r EXCEPT !.pc = "consume", !.need = 0, !.got = 0]
           /\ slots' = slots - more
           /\ queue' = Append(queue, r.need) /\ unfinished' = unfinished + 1
      ELSE /\ run' = [r EXCEPT !.pc = IF full THEN "put" ELSE "reserve", !.got = @ + more]
           /\ slots' = slots - more /\ UNCHANGED <<queue, unfinished>>

RunReceives(weight) ==
  /\ run.pc = "consume" /\ Undisturbed("run")
  /\ Count("events", MaxEvents)
  /\ IF weight > Slots
     THEN UNCHANGED <<run, queueVars>>
     ELSE Reserve([run EXCEPT !.need = weight])
  /\ UNCHANGED <<flagVars, errorVars, connection, disp, strays, cancelled, gate, caller, closeVars>>

RunReserves ==
  /\ run.pc = "reserve" /\ Undisturbed("run") /\ slots > 0
  /\ Reserve(run)
  /\ UNCHANGED <<flagVars, errorVars, connection, disp, strays, cancelled, gate, caller,
                 closeVars, counts>>

RunPuts ==
  /\ run.pc = "put" /\ Undisturbed("run") /\ Len(queue) < Capacity
  /\ queue' = Append(queue, run.need) /\ unfinished' = unfinished + 1
  /\ run' = [run EXCEPT !.pc = "consume", !.need = 0, !.got = 0]
  /\ UNCHANGED <<flagVars, errorVars, connection, disp, strays, slots, cancelled, gate, caller,
                 closeVars, counts>>

\* The peer goes, or the transport fails: _run leaves the context of the connection.
RunLoses ==
  /\ run.pc = "consume" /\ Undisturbed("run")
  /\ run' = [run EXCEPT !.pc = "exit"]
  /\ UNCHANGED <<flagVars, errorVars, connection, cancelled, gate, caller, eventVars, closeVars,
                 counts>>

\* The context has closed the transport.
RunExits ==
  /\ Leaving /\ Undisturbed("run")
  /\ UNCHANGED <<flagVars, gate, eventVars, closingConn, transport, deferred, counts>>
  /\ Lost(run.pc = "exit")

\* A task that can go on does so before a timer fires.
Ready ==
  \/ closer.pc = "gate" /\ gate = Nobody
  \/ queue # <<>> /\ (disp = "get" \/ \E n \in DOMAIN strays : strays[n] = "get")

RunRetries ==
  /\ run.pc \in {"backoff", "lastBackoff"} /\ Undisturbed("run") /\ ~Ready
  /\ UNCHANGED <<flagVars, connection, gate, caller, eventVars, closingConn, transport,
                 deferred, counts>>
  /\ IF closed \/ run.pc = "lastBackoff"
     THEN RunEnds
     ELSE run' = [NoRun EXCEPT !.pc = "connect"] /\ UNCHANGED <<errorVars, cancelled, closer>>

\* Mutant: a cancelled reservation keeps the slots it has got.
KeptForEver == 0

\* The slots that a cancelled reservation gives back.
GivenBack == run.got

\* _run receives its cancellation: it gives back what it reserved and leaves the context of
\* its connection, if it has one, which closes the transport also under a send that has the
\* gate.  A cancellation in that close, or without a connection, ends the task.
RunCancelled ==
  /\ run.pc # "none" /\ "run" \in cancelled
  /\ UNCHANGED <<flagVars, gate, disp, strays, queue, unfinished, closingConn, transport,
                 deferred, counts>>
  /\ \/ /\ run.pc \in {"gate", "consume", "reserve", "put"}
        /\ run' = [run EXCEPT !.pc = "lastExit", !.need = 0, !.got = 0]
        /\ slots' = slots + GivenBack /\ cancelled' = cancelled \ {"run"}
        /\ UNCHANGED <<errorVars, connection, caller, closer>>
     \/ /\ run.pc \in {"connect", "exit", "lastExit"}
        /\ UNCHANGED slots
        /\ Lost(FALSE)
     \/ /\ run.pc \in {"backoff", "lastBackoff"}
        /\ UNCHANGED <<slots, connection, caller>>
        /\ RunEnds

-----------------------------------------------------------------------------
(* Delivery of events. *)

DispEnds(raised) == disp' = "none" /\ Ended("disp", raised)

\* The next event leaves the queue and its slots are free while the host works on it.
Takes == queue # <<>> /\ queue' = Tail(queue) /\ slots' = slots + Head(queue)

\* task_done raises once it has been called for every event that was put.
Overdone == unfinished = 0
TaskDone == unfinished' = IF Overdone THEN 0 ELSE unfinished - 1

\* Behind an event a dispatcher takes the next one, if there is one, or waits.
AfterEvent == IF queue = <<>> THEN "get" ELSE "callback"
TakesNext == Takes \/ (queue = <<>> /\ UNCHANGED <<queue, slots>>)

DispOthers == <<flagVars, connection, run, gate, caller, closingConn, transport, deferred, counts>>

DispGets ==
  /\ disp = "get" /\ Undisturbed("disp")
  /\ Takes /\ disp' = "callback"
  /\ UNCHANGED <<DispOthers, strays, unfinished, errorVars, cancelled, closer>>

\* on_event returns or raises an Exception.
DispReturns ==
  /\ disp = "callback" /\ Undisturbed("disp")
  /\ TaskDone
  /\ UNCHANGED <<DispOthers, strays>>
  /\ IF closed \/ Overdone
     THEN DispEnds(Overdone) /\ UNCHANGED <<queue, slots>>
     ELSE TakesNext /\ disp' = AfterEvent /\ UNCHANGED <<errorVars, cancelled, closer>>

\* The dispatcher receives its cancellation, which on_event may ignore.
DispCancelled ==
  /\ disp # "none" /\ "disp" \in cancelled
  /\ UNCHANGED <<DispOthers, strays, queue, slots>>
  /\ \/ disp = "get" /\ DispEnds(FALSE) /\ UNCHANGED unfinished
     \/ disp = "callback" /\ TaskDone /\ DispEnds(Overdone)
     \/ /\ disp = "callback" /\ cancelled' = cancelled \ {"disp"}
        /\ UNCHANGED <<disp, unfinished, errorVars, closer>>

\* A stray serves the queue of the account like its dispatcher, but for that nobody cancels it
\* or looks at its end.
StrayGets(n) ==
  /\ strays[n] = "get"
  /\ Takes /\ strays' = [strays EXCEPT ![n] = "callback"]
  /\ UNCHANGED <<DispOthers, disp, unfinished, errorVars, cancelled, closer>>

StrayReturns(n) ==
  /\ strays[n] = "callback"
  /\ TaskDone
  /\ UNCHANGED <<DispOthers, disp, errorVars, cancelled, closer>>
  /\ IF closed \/ Overdone
     THEN strays' = [strays EXCEPT ![n] = "none"] /\ UNCHANGED <<queue, slots>>
     ELSE TakesNext /\ strays' = [strays EXCEPT ![n] = AfterEvent]

-----------------------------------------------------------------------------
(* Calls. *)

\* The call of c ends; the task may pass an error on, or make one of its cancellation.
CallEnds(c, raised) ==
  /\ caller' = [caller EXCEPT ![c] = NoCall]
  /\ gate' = IF gate = c THEN Nobody ELSE gate
  /\ Ended(c, raised)

Others == <<flagVars, connection, run, eventVars, closingConn, transport, deferred>>

Call(c) ==
  /\ caller[c].pc = "idle"
  /\ Count("calls", MaxCalls)
  /\ caller' = [caller EXCEPT ![c].pc = "gate"]
  /\ UNCHANGED <<Others, errorVars, cancelled, gate, closer>>

\* A call is refused when the account closes or is not connected.
CallRefused == closed \/ closing \/ connection = 0

\* The call gets the gate and sends, unless it is refused or too large.
CallSends(c) ==
  /\ caller[c].pc = "gate" /\ Undisturbed(c) /\ gate = Nobody
  /\ UNCHANGED <<Others, counts>>
  /\ \/ /\ ~CallRefused
        /\ gate' = c
        /\ caller' = [caller EXCEPT ![c].pc = "sending", ![c].conn = connection,
                                     ![c].future = "open"]
        /\ UNCHANGED <<errorVars, cancelled, closer>>
     \/ \E raised \in BOOLEAN : CallEnds(c, raised)

\* The transport has taken the message; the gate is free.
CallSent(c) ==
  /\ caller[c].pc = "sending" /\ Undisturbed(c)
  /\ gate' = Nobody /\ caller' = [caller EXCEPT ![c].pc = "waiting"]
  /\ UNCHANGED <<Others, errorVars, cancelled, closer, counts>>

CallReturns(c) ==
  /\ caller[c].pc = "waiting" /\ Undisturbed(c) /\ caller[c].future # "open"
  /\ UNCHANGED <<Others, counts>>
  /\ \E raised \in BOOLEAN : (raised => caller[c].future = "error") /\ CallEnds(c, raised)

\* The send fails.
CallFails(c) ==
  /\ caller[c].pc = "sending" /\ Undisturbed(c)
  /\ UNCHANGED <<Others, counts>>
  /\ \E raised \in BOOLEAN : CallEnds(c, raised)

\* What the timeout of a call bounds.
Timed(c) == caller[c].pc # "idle"

\* ACTION_TIMEOUT_SECONDS pass: the task is cancelled from within, once.
CallTimeout(c) ==
  /\ Timed(c) /\ Undisturbed(c) /\ ~caller[c].late
  /\ cancelled' = cancelled \cup {c} /\ caller' = [caller EXCEPT ![c].late = TRUE]
  /\ UNCHANGED <<Others, errorVars, gate, closer, counts>>

\* The task receives its cancellation, which a send may ignore.
CallCancelled(c) ==
  /\ caller[c].pc # "idle" /\ c \in cancelled
  /\ UNCHANGED <<Others, counts>>
  /\ \/ \E raised \in BOOLEAN : CallEnds(c, raised)
     \/ /\ caller[c].pc = "sending" /\ cancelled' = cancelled \ {c}
        /\ UNCHANGED <<errorVars, gate, caller, closer>>

-----------------------------------------------------------------------------
(* Closing. *)

\* Nothing is left of an earlier start or close.
Released ==
  /\ closed /\ owned = {} /\ connection = 0 /\ ~closingConn /\ SendTasks = {}
  /\ lingering = {} /\ ~cleanupError

\* Mutant: the transport is closed at once although a send holds the gate.
CloseAnyway(f) == f.conn

\* Does close close the transport itself?
ClosesTransport(f) == f.conn /\ ~f.late

\* The end of _close_locked when something or nothing is pending.
CloseFinishes(pending) ==
  /\ caller' = FailPending(caller) /\ closing' = FALSE /\ closer' = NoClose
  /\ MaybeStopped(IF cleanupError' THEN "failed"
                  ELSE IF pending \/ closingConn' THEN "cleanup_pending" ELSE "stopped")

\* _drain_events frees the slots of one event after the other.  It stops behind the first
\* whose task_done is one too many.
DrainRaises == Len(queue) > unfinished

Drain ==
  /\ queue' = IF DrainRaises THEN SubSeq(queue, unfinished + 2, Len(queue)) ELSE <<>>
  /\ slots' = slots + (Weight(queue) - Weight(queue'))
  /\ unfinished' = IF DrainRaises THEN 0 ELSE unfinished - Len(queue)

\* close raises: nothing is done about the transport or about calls.
CloseRaises(left) ==
  /\ cleanupError' = TRUE /\ state' = "failed" /\ closing' = FALSE /\ closer' = NoClose
  /\ lingering' = lingering \cup left
  /\ UNCHANGED <<closingConn, transport, deferred, caller>>

\* The queue is drained: close closes the transport, after the gate if it could not have it.
CloseTransport(f, left, before, failed) ==
  /\ cleanupError' = (failed \/ f.bad)
  /\ IF ClosesTransport(f) /\ ~transport
     THEN /\ transport' = TRUE /\ closingConn' = TRUE /\ closing' = TRUE
          /\ lingering' = lingering \cup left
          /\ closer' = [f EXCEPT !.pc = "transport", !.waits = left]
          /\ state' = IF f.bad THEN "failed" ELSE before
          /\ UNCHANGED <<deferred, caller>>
     ELSE /\ closingConn' = (closingConn \/ f.conn)
          /\ deferred' = IF f.conn /\ ~ClosesTransport(f) THEN "gate" ELSE deferred
          /\ lingering' = lingering \cup left
                          \cup IF f.conn /\ ~ClosesTransport(f) THEN {"deferred"} ELSE {}
          /\ UNCHANGED transport
          /\ CloseFinishes(left # {} \/ f.conn)

\* close has waited for the tasks it cancelled, f.waits minus those in left.
CloseGoesOn(f, left, before, failed) ==
  /\ Drain
  /\ IF DrainRaises THEN CloseRaises(left) ELSE CloseTransport(f, left, before, failed)

\* close has the gate, or its deadline passed there: the account is closed now.
CloseTakes(late, before, failed) ==
  LET tasks == (owned \cup SendTasks) \cap Alive
      f == [NoClose EXCEPT !.pc = "tasks", !.late = late, !.waits = tasks,
                           !.conn = connection # 0 \/ closingConn]
  IN  /\ closed' = TRUE /\ connection' = 0 /\ owned' = {}
      /\ cancelled' = cancelled \cup tasks
      /\ IF tasks = {}
         THEN CloseGoesOn(f, {}, before, failed)
         ELSE /\ closer' = f /\ closing' = TRUE /\ state' = before /\ cleanupError' = failed
              /\ UNCHANGED <<queueVars, transport, closingConn, lingering, deferred, caller>>

\* The first steps of close, up to the gate if that is taken.  An error of an earlier close
\* is forgotten if there is a transport to close again.
Close ==
  LET failed == cleanupError /\ connection = 0 /\ ~closingConn IN
  /\ closer.pc = "idle"
  /\ Count("closes", MaxCloses)
  /\ \/ /\ Released
        /\ Drain
        /\ IF DrainRaises
           THEN UNCHANGED <<state, caller>>
           ELSE state' = "stopped" /\ caller' = FailPending(caller)
        /\ UNCHANGED <<flagVars, cleanupError, connection, lingering, cancelled, closeVars>>
     \/ /\ ~Released /\ gate = Nobody
        /\ CloseTakes(FALSE, "stopping", failed)
     \/ /\ ~Released /\ gate # Nobody
        /\ closing' = TRUE /\ state' = "stopping" /\ cleanupError' = failed
        /\ closer' = [NoClose EXCEPT !.pc = "gate"]
        /\ UNCHANGED <<closed, owned, connection, lingering, cancelled, closingConn, transport,
                       deferred, queueVars, caller>>
  /\ UNCHANGED <<run, disp, strays, gate>>

CloseGate ==
  /\ closer.pc = "gate" /\ gate = Nobody
  /\ CloseTakes(FALSE, state, cleanupError)
  /\ UNCHANGED <<run, disp, strays, gate, counts>>

CloseGateLate ==
  /\ closer.pc = "gate"
  /\ CloseTakes(TRUE, state, cleanupError)
  /\ UNCHANGED <<run, disp, strays, gate, counts>>

CloseTasksEnded ==
  /\ closer.pc = "tasks" /\ closer.waits \cap Alive = {}
  /\ UNCHANGED <<closed, owned, connection, run, disp, strays, cancelled, gate, counts>>
  /\ CloseGoesOn(closer, {}, state, cleanupError)

\* Mutant: the deadline does not bound the wait for cancelled tasks.
TasksUnbounded == CloseTasksEnded

CloseTasksLate ==
  /\ closer.pc = "tasks" /\ closer.waits \cap Alive # {}
  /\ UNCHANGED <<closed, owned, connection, run, disp, strays, cancelled, gate, counts>>
  /\ CloseGoesOn(closer, closer.waits \cap Alive, state, cleanupError)

\* The deadline passes while the transport is closed: that task is cancelled and lingers.
CloseTransportLate ==
  /\ closer.pc = "transport"
  /\ cancelled' = cancelled \cup {"close"} /\ lingering' = lingering \cup {"close"}
  /\ UNCHANGED <<closed, owned, connection, cleanupError, closingConn, run, eventVars, gate,
                 transport, deferred, counts>>
  /\ CloseFinishes(TRUE)

\* Mutant: a cancelled close forgets the tasks it waited for.
NotRetained == IF closer.pc = "transport" THEN {"close"} ELSE {}

\* The tasks that a cancelled close leaves to their done callbacks.
Retained ==
  CASE closer.pc = "gate" -> {} [] closer.pc = "tasks" -> closer.waits \cap Alive
    [] closer.pc = "transport" -> {"close"}

\* The task that runs close is cancelled where it waits.
CloseCancelled ==
  /\ closer.pc # "idle"
  /\ closer' = NoClose /\ closing' = FALSE
  /\ UNCHANGED <<closed, owned, connection, closingConn, run, eventVars, cancelled, gate, caller,
                 transport, deferred, counts>>
  /\ lingering' = lingering \cup Retained
  /\ cleanupError' = (cleanupError \/ (closer.pc = "tasks" /\ closer.bad))
  /\ MaybeStopped("cleanup_pending")

\* The close of the transport ends well, fails, or is cancelled.
TransportCloseEnds(result) ==
  /\ transport
  /\ result = "cancelled" => "close" \in cancelled
  /\ transport' = FALSE
  /\ cancelled' = cancelled \ {"close"}
  /\ closingConn' = (closingConn /\ result # "ok")
  /\ cleanupError' = (cleanupError \/ result = "error")
  /\ UNCHANGED <<closed, owned, connection, run, eventVars, gate, counts>>
  /\ IF closer.pc = "transport"
     THEN /\ UNCHANGED <<lingering, deferred>>
          /\ IF result = "ok"
             THEN CloseFinishes(closer.waits # {})
             ELSE /\ closing' = FALSE /\ closer' = NoClose /\ state' = "failed"
                  /\ UNCHANGED caller
     ELSE /\ lingering' = lingering \ ({"close"} \cup
                            IF deferred = "transport" THEN {"deferred"} ELSE {})
          /\ deferred' = IF deferred = "transport" THEN "none" ELSE deferred
          /\ UNCHANGED <<closing, caller, closer>>
          /\ MaybeStopped(IF result = "error" THEN "failed" ELSE state)

\* The deferred close gets the gate: it closes the transport, unless that is under way.
DeferredClose ==
  /\ deferred = "gate" /\ gate = Nobody
  /\ UNCHANGED <<flagVars, connection, closingConn, run, eventVars, cancelled, gate, caller,
                 closer, counts, cleanupError>>
  /\ IF transport
     THEN /\ deferred' = "none" /\ lingering' = lingering \ {"deferred"}
          /\ UNCHANGED transport /\ MaybeStopped(state)
     ELSE /\ deferred' = "transport" /\ transport' = TRUE
          /\ UNCHANGED <<lingering, state>>

DeferredLate ==
  /\ deferred = "transport"
  /\ deferred' = "none"
  /\ cancelled' = cancelled \cup {"close"}
  /\ lingering' = (lingering \ {"deferred"}) \cup {"close"}
  /\ UNCHANGED <<flagVars, connection, closingConn, run, eventVars, gate, caller, transport,
                 closer, counts, cleanupError, state>>

-----------------------------------------------------------------------------
Init ==
  /\ state = "stopped" /\ closed = TRUE /\ closing = FALSE /\ cleanupError = FALSE
  /\ connection = 0 /\ closingConn = FALSE /\ run = NoRun /\ disp = "none"
  /\ strays = [n \in 1 .. MaxStarts |-> "none"] /\ owned = {}
  /\ lingering = {} /\ cancelled = {} /\ gate = Nobody
  /\ caller = [c \in Callers |-> NoCall] /\ queue = <<>> /\ unfinished = 0 /\ slots = Slots
  /\ transport = FALSE /\ deferred = "none" /\ closer = NoClose
  /\ counts = [w \in {"starts", "connections", "events", "calls", "closes"} |-> 0]

RunStep ==
  \/ RunConnects \/ RunConnectFails \/ RunPublishes \/ RunReserves \/ RunPuts \/ RunExits
  \/ RunRetries \/ RunCancelled

CallStep(c) ==
  CallSends(c) \/ CallSent(c) \/ CallReturns(c) \/ CallFails(c) \/ CallTimeout(c)
  \/ CallCancelled(c)

CloseStep ==
  CloseGate \/ CloseGateLate \/ CloseTasksEnded \/ CloseTasksLate \/ CloseTransportLate

Next ==
  \/ Start \/ RunStep \/ RunLoses
  \/ \E c \in Callers : RunAnswers(c) \/ Call(c) \/ CallStep(c)
  \/ \E weight \in Weights : RunReceives(weight)
  \/ DispGets \/ DispReturns \/ DispCancelled
  \/ \E n \in DOMAIN strays : StrayGets(n) \/ StrayReturns(n)
  \/ Close \/ CloseStep \/ CloseCancelled
  \/ \E result \in {"ok", "error", "cancelled"} : TransportCloseEnds(result)
  \/ DeferredClose \/ DeferredLate

Spec == Init /\ [][Next]_vars

\* What a call does by itself: the lock wakes it, its timer fires, a cancellation arrives.
CallTurn(c) == CallSends(c) \/ CallReturns(c) \/ CallTimeout(c) \/ CallCancelled(c)

\* Calls and close go on and their timers fire.  Nothing is assumed of the task of _run, of the
\* dispatchers and the host they call, of the peer, of sends and of the close of a transport.
FairSpec == Spec /\ WF_vars(CloseStep) /\ \A c \in Callers : WF_vars(CallTurn(c))

-----------------------------------------------------------------------------
(* What an account promises. *)

\* The slots of the byte budget are free, or held by a queued event or by the reservation of
\* the event just received: no way out of a reservation loses or doubles one.
SlotsConserved == slots + Weight(queue) + run.got = Slots

\* The tasks that status() counts.
BackgroundTasks == lingering \cup SendTasks \cup (owned \cap Alive)

Unreleased == Alive # {} \/ transport \/ closingConn \/ deferred # "none"

\* What OneBotService.close takes for a clean account is one as far as the account still knows:
\* none of the tasks of the last start, its calls and its lingering tasks is at work and no
\* transport is left to close, however closes are late, cancelled or repeated.  A dispatcher
\* that a later start has replaced (a stray) is none of them: the account does not count it.
CleanMeansReleased ==
  /\ closed /\ closer.pc = "idle" /\ BackgroundTasks = {} /\ ~cleanupError
  /\ state \notin {"stopping", "cleanup_pending", "failed"}
  => ~Unreleased

\* What close does to the transport of a send that holds the gate: its own task for the
\* transport waits for the gate; _run, which it has cancelled too, leaves the context of the
\* connection and closes it, but only under a send that close waits for in vain (under that one
\* it does, though docs/specs/onebot-v11-snowluma.md:31 defers the close to the end of the send).
\* And a call does not wait for the answer on a connection that another one has replaced.
CallsKeepTransport ==
  /\ transport => gate = Nobody
  /\ run.pc = "lastExit" /\ gate # Nobody => gate \in lingering \cup closer.waits
  /\ \A c \in Callers : caller[c].future = "open" => connection \in {0, caller[c].conn}

\* The timeout of the call has passed and its send has ignored the cancellation: asyncio.timeout
\* cancels once, so that nothing bounds the wait for the answer any more.
TimeoutSwallowed(c) == caller[c].late /\ c \notin cancelled

\* A call ends: by an answer, an error or its timeout, whatever the connection, the
\* dispatcher and close do meanwhile, unless a send swallows the timeout; close returns or
\* raises by its deadline, whatever tasks and the transport do.
CallsEnd ==
  /\ \A c \in Callers : caller[c].pc # "idle" ~> (caller[c].pc = "idle" \/ TimeoutSwallowed(c))
  /\ closer.pc # "idle" ~> closer.pc = "idle"
=============================================================================
