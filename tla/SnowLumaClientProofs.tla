------------------------ MODULE SnowLumaClientProofs ------------------------
(***************************************************************************)
(* Proof that a SnowLuma account keeps sends, transport and connections    *)
(* apart, for any number of callers, connections, calls and closes.        *)
(***************************************************************************)
EXTENDS SnowLumaClient, SequenceTheorems, WellFoundedInduction, NaturalsInduction,
        TLAPS

-----------------------------------------------------------------------------
(* The invariant. *)

\* The shapes of what the argument looks into.
Shapes ==
  /\ DOMAIN caller = Callers
  /\ \A c \in Callers : DOMAIN caller[c] = {"pc", "conn", "future", "late"}
  /\ DOMAIN run = {"pc", "conn", "need", "got"}
  /\ DOMAIN closer = {"pc", "conn", "late", "waits", "bad"}
  /\ closer.pc \in {"idle", "gate", "tasks", "transport"}
  /\ closer.late \in BOOLEAN /\ closer.conn \in BOOLEAN

Open(c) == caller[c].future = "open"

\* What holds a call that its connection has left: a close that waits for it, or the account.
WaitedFor == lingering \cup {t \in closer.waits : closer.pc = "tasks"}

\* An open future belongs to the connection of the account, or is left to a close.
FuturesOwned ==
  \A c \in Callers : Open(c) =>
    /\ caller[c].pc \in {"sending", "waiting"}
    /\ connection # 0 => connection = caller[c].conn
    /\ connection = 0 => closed /\ c \in WaitedFor

\* Where the task of _run may stand while the account has a connection.
Connected == {"consume", "reserve", "put", "exit", "lastExit"}

\* An account that is not closed owns its task of _run, which holds its connection.
ConnectionOwned ==
  /\ connection # 0 => run.pc \in Connected /\ ~closed
  /\ ~closed => "run" \in owned

\* From the first cancellation on, a close keeps new sends out: it has closed the account.
CloserShuts ==
  /\ closer.pc # "idle" => closing
  /\ closer.pc \in {"tasks", "transport"} => closed
  /\ closer.pc = "tasks" /\ ~closer.late => gate = Nobody

\* The account cannot start again while its transport is closed, now or later.
TransportHeld ==
  /\ deferred # "none" => closed /\ "deferred" \in lingering
  /\ transport =>
       /\ closed /\ gate = Nobody
       /\ closer.pc = "transport" \/ closingConn \/ "close" \in lingering \/ deferred = "transport"

AccountInv == Shapes /\ FuturesOwned /\ ConnectionOwned /\ CloserShuts /\ TransportHeld

-----------------------------------------------------------------------------
(* Steps of the task of _run and of the dispatcher. *)

\* What these steps never touch.
Apart == <<flagVars, gate, closingConn, transport, deferred>>

LEMMA EndedEffect ==
  ASSUME Shapes, NEW t, NEW raised, Ended(t, raised)
  PROVE  /\ lingering' = lingering \ {t}
         /\ DOMAIN closer' = {"pc", "conn", "late", "waits", "bad"}
         /\ closer'.pc = closer.pc /\ closer'.late = closer.late /\ closer'.conn = closer.conn
         /\ closer'.waits = closer.waits
<1>1. lingering' = lingering \ {t}
  BY DEF Ended, errorVars
<1>2. closer' = [closer EXCEPT !.bad = @ \/ (raised /\ t \in closer.waits)]
  BY DEF Ended
<1> QED BY <1>1, <1>2 DEF Shapes

\* Only run moves, and stays connected if it was.
LEMMA RunMoves ==
  ASSUME AccountInv, DOMAIN run' = {"pc", "conn", "need", "got"},
         connection # 0 => run'.pc \in Connected,
         UNCHANGED <<Apart, connection, lingering, caller, closer>>
  PROVE  AccountInv'
BY DEF AccountInv, Shapes, FuturesOwned, ConnectionOwned, CloserShuts, TransportHeld, Open,
       WaitedFor, Apart, flagVars, Connected

\* A task ends, and nothing else changes but run.
LEMMA TaskEnds ==
  ASSUME AccountInv, NEW t \in {"run", "disp"}, NEW raised, Ended(t, raised),
         DOMAIN run' = {"pc", "conn", "need", "got"},
         connection # 0 => run'.pc \in Connected,
         UNCHANGED <<Apart, connection, caller>>
  PROVE  AccountInv'
<1>1. /\ lingering' = lingering \ {t}
      /\ DOMAIN closer' = {"pc", "conn", "late", "waits", "bad"}
      /\ closer'.pc = closer.pc /\ closer'.late = closer.late /\ closer'.conn = closer.conn
      /\ closer'.waits = closer.waits
  BY EndedEffect DEF AccountInv
<1>2. t \notin Callers /\ t # "deferred" /\ t # "close"
  BY AccountAssumption
<1>3. Shapes'
  BY <1>1 DEF AccountInv, Shapes
<1>4. FuturesOwned'
  BY <1>1, <1>2 DEF AccountInv, FuturesOwned, Open, WaitedFor, Apart, flagVars
<1>5. ConnectionOwned'
  BY DEF AccountInv, ConnectionOwned, Apart, flagVars, Connected
<1>6. CloserShuts'
  BY <1>1 DEF AccountInv, CloserShuts, Apart, flagVars
<1>7. TransportHeld'
  BY <1>1, <1>2 DEF AccountInv, TransportHeld, Apart, flagVars
<1> QED BY <1>3, <1>4, <1>5, <1>6, <1>7 DEF AccountInv

LEMMA FailPendingEffect ==
  ASSUME Shapes
  PROVE  /\ DOMAIN FailPending(caller) = Callers
         /\ \A c \in Callers : /\ DOMAIN FailPending(caller)[c] = {"pc", "conn", "future", "late"}
                               /\ FailPending(caller)[c].future # "open"
BY DEF Shapes, FailPending

\* The finally clause of _run: no call waits for an answer any more.
LEMMA LostKeeps ==
  ASSUME AccountInv, NEW again, Lost(again), UNCHANGED Apart
  PROVE  AccountInv'
<1>1. connection' = 0 /\ caller' = FailPending(caller)
  BY DEF Lost, CallsAfterLoss
<1>2. /\ lingering' = lingering \ {"run"} \/ lingering' = lingering
      /\ DOMAIN closer' = {"pc", "conn", "late", "waits", "bad"}
      /\ closer'.pc = closer.pc /\ closer'.late = closer.late /\ closer'.conn = closer.conn
      /\ closer'.waits = closer.waits
  <2>1. CASE RunEnds
    BY <2>1, EndedEffect DEF RunEnds, AccountInv
  <2>2. CASE UNCHANGED <<lingering, closer>>
    BY <2>2 DEF AccountInv, Shapes
  <2> QED BY <2>1, <2>2 DEF Lost
<1>3. DOMAIN run' = {"pc", "conn", "need", "got"}
  BY DEF Lost, RunEnds, NoRun
<1>4. Shapes'
  BY <1>1, <1>2, <1>3, FailPendingEffect DEF AccountInv, Shapes
<1>5. FuturesOwned'
  BY <1>1, FailPendingEffect DEF AccountInv, FuturesOwned, Open
<1>6. ConnectionOwned'
  BY <1>1 DEF AccountInv, ConnectionOwned, Apart, flagVars
<1>7. CloserShuts'
  BY <1>2 DEF AccountInv, CloserShuts, Apart, flagVars
<1>8. TransportHeld'
  BY <1>2 DEF AccountInv, TransportHeld, Apart, flagVars
<1> QED BY <1>4, <1>5, <1>6, <1>7, <1>8 DEF AccountInv

\* The new connection is published: no call waits for an answer of an earlier one.
LEMMA RunPublishesKeeps ==
  ASSUME AccountInv, RunPublishes
  PROVE  AccountInv'
<1>1. CASE closed \/ closing
  <2>1. run' = [run EXCEPT !.pc = "lastExit"]
    BY <1>1 DEF RunPublishes
  <2>2. DOMAIN run' = {"pc", "conn", "need", "got"} /\ run'.pc = "lastExit"
    BY <2>1 DEF AccountInv, Shapes
  <2> QED BY <1>1, <2>2, RunMoves DEF RunPublishes, Apart, closeVars, Connected
<1>2. CASE ~closed /\ ~closing
  <2>1. connection = 0 /\ \A c \in Callers : ~Open(c)
    BY <1>2 DEF RunPublishes, AccountInv, ConnectionOwned, Connected, FuturesOwned
  <2>2. run' = [run EXCEPT !.pc = "consume"]
    BY <1>2 DEF RunPublishes
  <2>3. DOMAIN run' = {"pc", "conn", "need", "got"} /\ run'.pc = "consume"
    BY <2>2 DEF AccountInv, Shapes
  <2> QED BY <1>2, <2>1, <2>3 DEF RunPublishes, AccountInv, Shapes, FuturesOwned,
            ConnectionOwned, Connected, CloserShuts, TransportHeld, Open, flagVars, closeVars
<1> QED BY <1>1, <1>2

LEMMA RunAnswersKeeps ==
  ASSUME AccountInv, NEW c \in Callers, RunAnswers(c)
  PROVE  AccountInv'
<1>1. /\ caller' = [caller EXCEPT ![c].future = "ok"]
      /\ UNCHANGED <<Apart, connection, run, lingering, closer>>
  BY DEF RunAnswers, Apart, errorVars, closeVars
<1>2. Shapes'
  BY <1>1 DEF AccountInv, Shapes
<1>3. FuturesOwned'
  BY <1>1 DEF AccountInv, Shapes, FuturesOwned, Open, WaitedFor, Apart, flagVars
<1> QED BY <1>1, <1>2, <1>3 DEF AccountInv, ConnectionOwned, CloserShuts, TransportHeld, Apart,
                                flagVars

LEMMA RunStepKeeps ==
  ASSUME AccountInv, RunStep \/ RunLoses
  PROVE  AccountInv'
<1>0. DOMAIN run = {"pc", "conn", "need", "got"} /\ (connection # 0 => run.pc \in Connected)
  BY DEF AccountInv, Shapes, ConnectionOwned
<1>1. CASE RunConnects
  <2>1. connection = 0
    BY <1>0, <1>1 DEF RunConnects, Connected
  <2>2. DOMAIN run' = {"pc", "conn", "need", "got"}
    BY <1>0, <1>1 DEF RunConnects
  <2> QED BY <1>1, <2>1, <2>2, RunMoves DEF RunConnects, Apart, errorVars, closeVars
<1>2. CASE RunConnectFails
  BY <1>2, LostKeeps DEF RunConnectFails, Apart
<1>3. CASE RunReserves
  BY <1>0, <1>3, RunMoves DEF RunReserves, Reserve, Apart, errorVars, closeVars, Connected
<1>4. CASE RunPuts
  BY <1>0, <1>4, RunMoves DEF RunPuts, Apart, errorVars, closeVars, Connected
<1>5. CASE RunExits
  BY <1>5, LostKeeps DEF RunExits, Apart
<1>6. CASE RunRetries
  <2>1. connection = 0
    BY <1>0, <1>6 DEF RunRetries, Connected
  <2>2. CASE RunEnds
    <3>1. DOMAIN run' = {"pc", "conn", "need", "got"} /\ Ended("run", FALSE)
      BY <2>2 DEF RunEnds, NoRun
    <3> QED BY <1>6, <2>1, <3>1, TaskEnds DEF RunRetries, Apart
  <2>3. CASE run' = [NoRun EXCEPT !.pc = "connect"] /\ UNCHANGED <<errorVars, cancelled, closer>>
    BY <1>6, <2>1, <2>3, RunMoves DEF RunRetries, NoRun, Apart, errorVars
  <2> QED BY <1>6, <2>2, <2>3 DEF RunRetries
<1>7. CASE RunCancelled
  <2>1. CASE /\ run' = [run EXCEPT !.pc = "lastExit", !.need = 0, !.got = 0]
             /\ UNCHANGED <<errorVars, connection, caller, closer>>
    BY <1>0, <1>7, <2>1, RunMoves DEF RunCancelled, Apart, errorVars, Connected
  <2>2. CASE Lost(FALSE)
    BY <1>7, <2>2, LostKeeps DEF RunCancelled, Apart
  <2>3. CASE /\ run.pc \in {"backoff", "lastBackoff"}
             /\ UNCHANGED <<slots, connection, caller>> /\ RunEnds
    <3>1. connection = 0
      BY <1>0, <2>3 DEF Connected
    <3>2. DOMAIN run' = {"pc", "conn", "need", "got"} /\ Ended("run", FALSE)
      BY <2>3 DEF RunEnds, NoRun
    <3> QED BY <1>7, <2>3, <3>1, <3>2, TaskEnds DEF RunCancelled, Apart
  <2> QED BY <1>7, <2>1, <2>2, <2>3 DEF RunCancelled
<1>8. CASE RunLoses
  BY <1>0, <1>8, RunMoves DEF RunLoses, Apart, errorVars, closeVars, Connected
<1> QED BY <1>1, <1>2, <1>3, <1>4, <1>5, <1>6, <1>7, <1>8, RunPublishesKeeps DEF RunStep

LEMMA RunReceivesKeeps ==
  ASSUME AccountInv, NEW weight, RunReceives(weight)
  PROVE  AccountInv'
<1>0. DOMAIN run = {"pc", "conn", "need", "got"} /\ run.pc \in Connected
  BY DEF AccountInv, Shapes, RunReceives, Connected
<1>1. DOMAIN run' = {"pc", "conn", "need", "got"} /\ run'.pc \in Connected
  BY <1>0 DEF RunReceives, Reserve, Connected
<1> QED BY <1>1, RunMoves DEF RunReceives, Apart, errorVars, closeVars

\* The steps of a dispatcher, of the last start or of an earlier one.
DispStep ==
  \/ DispGets \/ DispReturns \/ DispCancelled
  \/ \E n \in DOMAIN strays : StrayGets(n) \/ StrayReturns(n)

LEMMA DispStepKeeps ==
  ASSUME AccountInv, DispStep
  PROVE  AccountInv'
<1>0. DOMAIN run = {"pc", "conn", "need", "got"} /\ (connection # 0 => run.pc \in Connected)
  BY DEF AccountInv, Shapes, ConnectionOwned
<1>1. UNCHANGED <<Apart, connection, run, caller>>
  BY DEF DispStep, DispGets, DispReturns, DispCancelled, StrayGets, StrayReturns, DispOthers,
         Apart
<1>2. CASE \E raised : DispEnds(raised)
  BY <1>0, <1>1, <1>2, TaskEnds DEF DispEnds
<1>3. CASE UNCHANGED <<lingering, closer>>
  BY <1>0, <1>1, <1>3, RunMoves
<1> QED BY <1>2, <1>3 DEF DispStep, DispGets, DispReturns, DispCancelled, StrayGets, StrayReturns,
                          errorVars

-----------------------------------------------------------------------------
(* Calls. *)

\* Caller c moves to r, with the gate in its hands or not.
LEMMA CallMoves ==
  ASSUME AccountInv, NEW c \in Callers, NEW r, caller' = [caller EXCEPT ![c] = r],
         DOMAIN r = {"pc", "conn", "future", "late"},
         r.future = "open" => /\ r.pc \in {"sending", "waiting"}
                              /\ connection # 0 => connection = r.conn
                              /\ connection = 0 => Open(c),
         gate' \in {gate, Nobody} \/ (~CallRefused /\ connection # 0),
         \/ UNCHANGED <<lingering, closer>>
         \/ r.future # "open" /\ \E raised : Ended(c, raised),
         UNCHANGED <<flagVars, connection, run, closingConn, transport, deferred>>
  PROVE  AccountInv'
<1>1. /\ lingering \ {c} \subseteq lingering' /\ lingering' \subseteq lingering
      /\ r.future = "open" => lingering' = lingering
      /\ DOMAIN closer' = {"pc", "conn", "late", "waits", "bad"}
      /\ closer'.pc = closer.pc /\ closer'.late = closer.late /\ closer'.conn = closer.conn
      /\ closer'.waits = closer.waits
  <2>1. CASE UNCHANGED <<lingering, closer>>
    BY <2>1 DEF AccountInv, Shapes
  <2>2. CASE r.future # "open" /\ \E raised : Ended(c, raised)
    BY <2>2, EndedEffect DEF AccountInv
  <2> QED BY <2>1, <2>2
<1>2. c # "close" /\ c # "deferred"
  BY AccountAssumption
<1>3. DOMAIN caller' = Callers /\ caller'[c] = r /\ \A d \in Callers \ {c} : caller'[d] = caller[d]
  BY DEF AccountInv, Shapes
<1>4. Shapes'
  BY <1>1, <1>3 DEF AccountInv, Shapes
<1>5. FuturesOwned'
  <2>1. ASSUME NEW d \in Callers, Open(d)'
        PROVE  /\ caller'[d].pc \in {"sending", "waiting"}
               /\ connection' # 0 => connection' = caller'[d].conn
               /\ connection' = 0 => closed' /\ d \in WaitedFor'
    <3>1. CASE d = c
      BY <1>1, <1>3, <2>1, <3>1 DEF AccountInv, FuturesOwned, Open, WaitedFor, flagVars
    <3>2. CASE d # c
      BY <1>1, <1>3, <2>1, <3>2 DEF AccountInv, FuturesOwned, Open, WaitedFor, flagVars
    <3> QED BY <3>1, <3>2
  <2> QED BY <2>1 DEF FuturesOwned
<1>6. ConnectionOwned'
  BY DEF AccountInv, ConnectionOwned, flagVars
<1>7. CloserShuts'
  BY <1>1 DEF AccountInv, CloserShuts, CallRefused, flagVars
<1>8. TransportHeld'
  BY <1>1, <1>2 DEF AccountInv, TransportHeld, CallRefused, flagVars
<1> QED BY <1>4, <1>5, <1>6, <1>7, <1>8 DEF AccountInv

LEMMA CallEndsKeeps ==
  ASSUME AccountInv, NEW c \in Callers, NEW raised, CallEnds(c, raised), UNCHANGED Others
  PROVE  AccountInv'
<1>1. DOMAIN NoCall = {"pc", "conn", "future", "late"} /\ NoCall.future = "none"
  BY DEF NoCall
<1>2. caller' = [caller EXCEPT ![c] = NoCall] /\ gate' \in {gate, Nobody} /\ Ended(c, raised)
  BY DEF CallEnds
<1> HIDE DEF NoCall
<1> QED BY <1>1, <1>2, CallMoves DEF Others

\* Caller c moves without an end of its task.
LEMMA CallGoesOn ==
  ASSUME AccountInv, NEW c \in Callers, NEW r, caller' = [caller EXCEPT ![c] = r],
         DOMAIN r = {"pc", "conn", "future", "late"},
         r.future = "open" => /\ r.pc \in {"sending", "waiting"}
                              /\ connection # 0 => connection = r.conn
                              /\ connection = 0 => Open(c),
         gate' \in {gate, Nobody} \/ (~CallRefused /\ connection # 0),
         UNCHANGED <<Others, errorVars, closer>>
  PROVE  AccountInv'
BY CallMoves DEF Others, errorVars

LEMMA CallStepKeeps ==
  ASSUME AccountInv, NEW c \in Callers, Call(c) \/ CallStep(c)
  PROVE  AccountInv'
<1>0. /\ DOMAIN caller = Callers /\ DOMAIN caller[c] = {"pc", "conn", "future", "late"}
      /\ Open(c) => /\ caller[c].pc \in {"sending", "waiting"}
                    /\ connection # 0 => connection = caller[c].conn
  BY DEF AccountInv, Shapes, FuturesOwned
<1>1. CASE \E raised : CallEnds(c, raised) /\ UNCHANGED Others
  BY <1>1, CallEndsKeeps
<1>2. CASE Call(c)
  <2> DEFINE r == [caller[c] EXCEPT !.pc = "gate"]
  <2>1. /\ caller' = [caller EXCEPT ![c] = r] /\ DOMAIN r = {"pc", "conn", "future", "late"}
        /\ r.future # "open"
    BY <1>0, <1>2 DEF Call, Open
  <2> HIDE DEF r
  <2> QED BY <1>2, <2>1, CallGoesOn DEF Call
<1>3. CASE CallSends(c)
  <2>1. CASE /\ ~CallRefused
             /\ caller' = [caller EXCEPT ![c].pc = "sending", ![c].conn = connection,
                                          ![c].future = "open"]
             /\ UNCHANGED <<errorVars, cancelled, closer>>
    <3> DEFINE r == [caller[c] EXCEPT !.pc = "sending", !.conn = connection, !.future = "open"]
    <3>1. /\ caller' = [caller EXCEPT ![c] = r] /\ DOMAIN r = {"pc", "conn", "future", "late"}
          /\ r.pc = "sending" /\ r.conn = connection
      BY <1>0, <2>1
    <3>2. connection # 0
      BY <2>1 DEF CallRefused
    <3> HIDE DEF r
    <3> QED BY <1>3, <2>1, <3>1, <3>2, CallGoesOn DEF CallSends
  <2> QED BY <1>1, <1>3, <2>1 DEF CallSends
<1>4. CASE CallSent(c)
  <2> DEFINE r == [caller[c] EXCEPT !.pc = "waiting"]
  <2>1. /\ caller' = [caller EXCEPT ![c] = r] /\ DOMAIN r = {"pc", "conn", "future", "late"}
        /\ r.pc = "waiting" /\ r.conn = caller[c].conn /\ r.future = caller[c].future
    BY <1>0, <1>4 DEF CallSent
  <2> HIDE DEF r
  <2>2. gate' = Nobody /\ UNCHANGED <<Others, errorVars, closer>>
    BY <1>4 DEF CallSent
  <2>3. r.future = "open" => Open(c) /\ (connection # 0 => connection = r.conn)
    BY <1>0, <2>1 DEF Open
  <2> QED BY <2>1, <2>2, <2>3, CallGoesOn
<1>5. CASE CallReturns(c) \/ CallFails(c)
  BY <1>1, <1>5 DEF CallReturns, CallFails
<1>6. CASE CallTimeout(c)
  <2> DEFINE r == [caller[c] EXCEPT !.late = TRUE]
  <2>1. /\ caller' = [caller EXCEPT ![c] = r] /\ DOMAIN r = {"pc", "conn", "future", "late"}
        /\ r.pc = caller[c].pc /\ r.conn = caller[c].conn /\ r.future = caller[c].future
    BY <1>0, <1>6 DEF CallTimeout
  <2> HIDE DEF r
  <2> QED BY <1>0, <1>6, <2>1, CallGoesOn DEF CallTimeout, Open
<1>7. CASE CallCancelled(c)
  <2>1. CASE UNCHANGED <<errorVars, gate, caller, closer>>
    <3>1. UNCHANGED <<Apart, connection, run, lingering, caller, closer>>
      BY <1>7, <2>1 DEF CallCancelled, Others, errorVars, Apart
    <3>2. DOMAIN run = {"pc", "conn", "need", "got"} /\ (connection # 0 => run.pc \in Connected)
      BY DEF AccountInv, Shapes, ConnectionOwned
    <3> QED BY <3>1, <3>2, RunMoves
  <2> QED BY <1>1, <1>7, <2>1 DEF CallCancelled
<1> QED BY <1>2, <1>3, <1>4, <1>5, <1>6, <1>7 DEF CallStep

-----------------------------------------------------------------------------
(* Starting and closing. *)

CloserFields == {"pc", "conn", "late", "waits", "bad"}

\* Nothing of an earlier close is left, and no connection.
LEMMA StartKeeps ==
  ASSUME AccountInv, Start
  PROVE  AccountInv'
<1>1. /\ ~closing /\ lingering = {} /\ ~closingConn /\ closer.pc = "idle"
      /\ deferred = "none" /\ ~transport
  BY DEF Start, Startable, AccountInv, CloserShuts, TransportHeld, Shapes
<1>2. connection = 0
  BY DEF Start, AccountInv, ConnectionOwned, Connected
<1>3. \A c \in Callers : ~Open(c)
  BY <1>1, <1>2 DEF AccountInv, FuturesOwned, WaitedFor
<1>4. /\ DOMAIN run' = {"pc", "conn", "need", "got"}
      /\ "run" \in owned' /\ UNCHANGED <<closing, connection, lingering, gate, caller, closeVars>>
  BY DEF Start, NoRun
<1> QED BY <1>1, <1>2, <1>3, <1>4 DEF AccountInv, Shapes, FuturesOwned, ConnectionOwned,
          CloserShuts, TransportHeld, Open, closeVars

\* A call whose future is open is at work, so that a close waits for it.
LEMMA OpenIsAlive ==
  ASSUME AccountInv, NEW c \in Callers, Open(c)
  PROVE  c \in SendTasks /\ c \in Alive
BY DEF AccountInv, FuturesOwned, SendTasks, Alive

\* close comes to its end: no call waits for an answer.
LEMMA FinishKeeps ==
  ASSUME AccountInv, NEW pending, CloseFinishes(pending), UNCHANGED run,
         ConnectionOwned', TransportHeld'
  PROVE  AccountInv'
<1>1. closer' = NoClose /\ caller' = FailPending(caller)
  BY DEF CloseFinishes
<1>2. /\ DOMAIN NoClose = {"pc", "conn", "late", "waits", "bad"}
      /\ NoClose.pc = "idle" /\ NoClose.late = FALSE /\ NoClose.conn = FALSE
  BY DEF NoClose
<1> HIDE DEF NoClose
<1>3. Shapes'
  BY <1>1, <1>2, FailPendingEffect DEF AccountInv, Shapes
<1>4. FuturesOwned'
  BY <1>1, FailPendingEffect DEF AccountInv, FuturesOwned, Open
<1>5. CloserShuts'
  BY <1>1, <1>2 DEF CloserShuts
<1> QED BY <1>3, <1>4, <1>5 DEF AccountInv

\* What close is told of its call, f, once it has the account closed.
LEMMA GoesOnKeeps ==
  ASSUME AccountInv, closer.pc # "transport",
         NEW f, NEW left, NEW before, NEW failed, CloseGoesOn(f, left, before, failed),
         DOMAIN f = CloserFields, f.late \in BOOLEAN, f.conn \in BOOLEAN,
         ~f.late => gate = Nobody,
         \A c \in Callers : Open(c) => c \in lingering \cup left,
         closed' = TRUE, connection' = 0, UNCHANGED <<run, gate>>
  PROVE  AccountInv'
<1>1. ConnectionOwned'
  BY DEF ConnectionOwned
<1>2. CASE ~DrainRaises /\ ClosesTransport(f) /\ ~transport
  <2>1. /\ transport' = TRUE /\ closing' = TRUE /\ lingering' = lingering \cup left
        /\ closer' = [f EXCEPT !.pc = "transport", !.waits = left]
        /\ UNCHANGED <<deferred, caller>>
    BY <1>2 DEF CloseGoesOn, CloseTransport
  <2>2. /\ DOMAIN closer' = CloserFields /\ closer'.pc = "transport"
        /\ closer'.late = f.late /\ closer'.conn = f.conn
    BY <2>1 DEF CloserFields
  <2>3. gate = Nobody
    BY <1>2 DEF ClosesTransport
  <2>4. Shapes'
    BY <2>1, <2>2 DEF AccountInv, Shapes, CloserFields
  <2>5. FuturesOwned'
    BY <2>1 DEF AccountInv, FuturesOwned, Open, WaitedFor
  <2>6. CloserShuts'
    BY <2>1, <2>2 DEF CloserShuts
  <2>7. TransportHeld'
    BY <2>1, <2>2, <2>3 DEF AccountInv, TransportHeld
  <2> QED BY <1>1, <2>4, <2>5, <2>6, <2>7 DEF AccountInv
<1>3. CASE ~DrainRaises /\ ~(ClosesTransport(f) /\ ~transport)
  <2>1. /\ closingConn' = (closingConn \/ f.conn) /\ lingering \subseteq lingering'
        /\ UNCHANGED transport
        /\ deferred' = deferred \/ (deferred' = "gate" /\ f.conn /\ "deferred" \in lingering')
        /\ CloseFinishes(left # {} \/ f.conn)
    BY <1>3 DEF CloseGoesOn, CloseTransport
  <2>2. TransportHeld'
    BY <2>1 DEF AccountInv, TransportHeld
  <2> QED BY <1>1, <2>1, <2>2, FinishKeeps
<1>4. CASE DrainRaises
  <2>1. /\ closing' = FALSE /\ closer' = NoClose /\ lingering' = lingering \cup left
        /\ UNCHANGED <<closingConn, transport, deferred, caller>>
    BY <1>4 DEF CloseGoesOn, CloseRaises
  <2>2. /\ DOMAIN NoClose = {"pc", "conn", "late", "waits", "bad"}
        /\ NoClose.pc = "idle" /\ NoClose.late = FALSE /\ NoClose.conn = FALSE
    BY DEF NoClose
  <2> HIDE DEF NoClose
  <2>3. Shapes' /\ CloserShuts'
    BY <2>1, <2>2 DEF AccountInv, Shapes, CloserShuts
  <2>4. FuturesOwned'
    BY <2>1 DEF AccountInv, FuturesOwned, Open, WaitedFor
  <2>5. TransportHeld'
    BY <2>1 DEF AccountInv, TransportHeld
  <2> QED BY <1>1, <2>3, <2>4, <2>5 DEF AccountInv
<1> QED BY <1>2, <1>3, <1>4

\* close closes the account and cancels its tasks.
LEMMA TakesKeeps ==
  ASSUME AccountInv, closer.pc \in {"idle", "gate"},
         NEW late \in BOOLEAN, ~late => gate = Nobody,
         NEW before, NEW failed, CloseTakes(late, before, failed), UNCHANGED <<run, gate>>
  PROVE  AccountInv'
<1> DEFINE tasks == (owned \cup SendTasks) \cap Alive
           f == [NoClose EXCEPT !.pc = "tasks", !.late = late, !.waits = tasks,
                                !.conn = connection # 0 \/ closingConn]
<1>1. /\ DOMAIN f = CloserFields /\ f.pc = "tasks" /\ f.late = late /\ f.waits = tasks
      /\ f.conn \in BOOLEAN
  BY DEF NoClose, CloserFields
<1>2. closed' = TRUE /\ connection' = 0
  BY DEF CloseTakes
<1>3. \A c \in Callers : Open(c) => c \in tasks
  BY OpenIsAlive
<1>4. CASE tasks = {}
  <2>1. CloseGoesOn(f, {}, before, failed)
    BY <1>4 DEF CloseTakes
  <2> HIDE DEF f
  <2> QED BY <1>1, <1>2, <1>3, <1>4, <2>1, GoesOnKeeps
<1>5. CASE tasks # {}
  <2>1. /\ closer' = f /\ closing' = TRUE
        /\ UNCHANGED <<transport, closingConn, lingering, deferred, caller>>
    BY <1>5 DEF CloseTakes
  <2>2. PICK g, S : g = f /\ S = tasks
    OBVIOUS
  <2>3. /\ closer' = g /\ DOMAIN g = CloserFields /\ g.pc = "tasks" /\ g.late = late
        /\ g.conn \in BOOLEAN /\ g.waits = S /\ \A c \in Callers : Open(c) => c \in S
    BY <1>1, <1>3, <2>1, <2>2
  <2> HIDE DEF f, tasks
  <2>4. Shapes'
    BY <2>1, <2>3 DEF AccountInv, Shapes, CloserFields
  <2>5. FuturesOwned'
    BY <1>2, <2>1, <2>3 DEF AccountInv, FuturesOwned, Open, WaitedFor
  <2>6. ConnectionOwned' /\ CloserShuts'
    BY <1>2, <2>1, <2>3 DEF ConnectionOwned, CloserShuts
  <2>7. TransportHeld'
    BY <1>2, <2>1 DEF AccountInv, TransportHeld
  <2> QED BY <2>4, <2>5, <2>6, <2>7 DEF AccountInv
<1> QED BY <1>4, <1>5

LEMMA CloseKeeps ==
  ASSUME AccountInv, Close
  PROVE  AccountInv'
<1>0. closer.pc = "idle" /\ UNCHANGED <<run, gate>>
  BY DEF Close
<1>1. CASE /\ caller' = FailPending(caller) \/ UNCHANGED caller
           /\ UNCHANGED <<flagVars, cleanupError, connection, lingering, cancelled, closeVars>>
  <2>1. Shapes'
    BY <1>0, <1>1, FailPendingEffect DEF AccountInv, Shapes, closeVars
  <2>2. FuturesOwned'
    BY <1>1, FailPendingEffect DEF AccountInv, FuturesOwned, Open, WaitedFor, flagVars, closeVars
  <2> QED BY <1>0, <1>1, <2>1, <2>2 DEF AccountInv, ConnectionOwned, CloserShuts,
            TransportHeld, flagVars, closeVars
<1>2. ASSUME gate = Nobody, NEW failed, CloseTakes(FALSE, "stopping", failed)
      PROVE  AccountInv'
  BY <1>0, <1>2, TakesKeeps
<1>3. CASE /\ closing' = TRUE /\ closer' = [NoClose EXCEPT !.pc = "gate"]
           /\ UNCHANGED <<closed, owned, connection, lingering, closingConn, transport,
                          deferred, caller>>
  <2> DEFINE g == [NoClose EXCEPT !.pc = "gate"]
  <2>1. DOMAIN g = {"pc", "conn", "late", "waits", "bad"} /\ g.pc = "gate" /\ g.late = FALSE
        /\ g.conn = FALSE
    BY DEF NoClose
  <2>2. closer' = g
    BY <1>3
  <2> HIDE DEF g
  <2> QED BY <1>0, <1>3, <2>1, <2>2 DEF AccountInv, Shapes, FuturesOwned, ConnectionOwned,
            CloserShuts, TransportHeld, Open, WaitedFor
<1> QED BY <1>1, <1>2, <1>3 DEF Close

LEMMA CloseStepKeeps ==
  ASSUME AccountInv, CloseStep
  PROVE  AccountInv'
<1>0. DOMAIN closer = CloserFields /\ closer.late \in BOOLEAN /\ closer.conn \in BOOLEAN
  BY DEF AccountInv, Shapes, CloserFields
<1>1. CASE CloseGate
  BY <1>1, TakesKeeps DEF CloseGate
<1>2. CASE CloseGateLate
  BY <1>2, TakesKeeps DEF CloseGateLate
<1>3. ASSUME closer.pc = "tasks", NEW left, closer.waits \cap Alive \subseteq left,
             CloseGoesOn(closer, left, state, cleanupError),
             UNCHANGED <<closed, connection, run, gate>>
      PROVE  AccountInv'
  <2>1. closed' = TRUE /\ connection' = 0 /\ (~closer.late => gate = Nobody)
    BY <1>3 DEF AccountInv, CloserShuts, ConnectionOwned
  <2>2. \A c \in Callers : Open(c) => c \in lingering \cup left
    BY <1>3, <2>1, OpenIsAlive DEF AccountInv, FuturesOwned, WaitedFor
  <2>3. PICK f : f = closer
    OBVIOUS
  <2> QED BY <1>0, <1>3, <2>1, <2>2, <2>3, GoesOnKeeps
<1>4. CASE CloseTasksEnded
  BY <1>3, <1>4 DEF CloseTasksEnded
<1>5. CASE CloseTasksLate
  BY <1>3, <1>5 DEF CloseTasksLate
<1>6. CASE CloseTransportLate
  <2>1. /\ CloseFinishes(TRUE) /\ lingering' = lingering \cup {"close"}
        /\ UNCHANGED <<closed, owned, connection, run, gate, transport, closingConn, deferred>>
    BY <1>6 DEF CloseTransportLate
  <2>2. ConnectionOwned' /\ TransportHeld'
    BY <2>1 DEF AccountInv, ConnectionOwned, TransportHeld
  <2> QED BY <2>1, <2>2, FinishKeeps
<1> QED BY <1>1, <1>2, <1>4, <1>5, <1>6 DEF CloseStep

\* The task of close is cancelled: whom it waited for lingers.
LEMMA CloseCancelledKeeps ==
  ASSUME AccountInv, CloseCancelled
  PROVE  AccountInv'
<1>1. /\ closer' = NoClose /\ closing' = FALSE
      /\ UNCHANGED <<closed, owned, connection, closingConn, run, gate, caller, transport,
                     deferred>>
      /\ lingering' = lingering \cup Retained
  BY DEF CloseCancelled
<1>2. /\ DOMAIN NoClose = {"pc", "conn", "late", "waits", "bad"}
      /\ NoClose.pc = "idle" /\ NoClose.late = FALSE /\ NoClose.conn = FALSE
  BY DEF NoClose
<1>3. /\ closer.pc = "tasks" => closer.waits \cap Alive \subseteq Retained
      /\ closer.pc = "transport" => "close" \in Retained
  BY DEF Retained
<1> HIDE DEF NoClose
<1>4. Shapes'
  BY <1>1, <1>2 DEF AccountInv, Shapes
<1>5. FuturesOwned'
  <2>1. \A c \in Callers : Open(c) /\ c \in WaitedFor => c \in lingering'
    BY <1>1, <1>3, OpenIsAlive DEF WaitedFor
  <2> QED BY <1>1, <2>1 DEF AccountInv, FuturesOwned, Open, WaitedFor
<1>6. ConnectionOwned' /\ CloserShuts'
  BY <1>1, <1>2 DEF AccountInv, ConnectionOwned, CloserShuts
<1>7. TransportHeld'
  BY <1>1, <1>3 DEF AccountInv, TransportHeld
<1> QED BY <1>4, <1>5, <1>6, <1>7 DEF AccountInv

LEMMA TransportCloseEndsKeeps ==
  ASSUME AccountInv, NEW result, TransportCloseEnds(result)
  PROVE  AccountInv'
<1>1. /\ transport' = FALSE
      /\ UNCHANGED <<closed, owned, connection, run, gate>>
  BY DEF TransportCloseEnds
<1>2. ConnectionOwned'
  BY <1>1 DEF AccountInv, ConnectionOwned
<1>3. CASE closer.pc = "transport"
  <2>1. UNCHANGED <<lingering, deferred>>
    BY <1>3 DEF TransportCloseEnds
  <2>2. TransportHeld'
    BY <1>1, <2>1 DEF AccountInv, TransportHeld
  <2>3. CASE CloseFinishes(closer.waits # {})
    BY <1>1, <1>2, <2>2, <2>3, FinishKeeps
  <2>4. CASE closing' = FALSE /\ closer' = NoClose /\ UNCHANGED caller
    <3>1. /\ DOMAIN NoClose = {"pc", "conn", "late", "waits", "bad"}
          /\ NoClose.pc = "idle" /\ NoClose.late = FALSE /\ NoClose.conn = FALSE
      BY DEF NoClose
    <3> HIDE DEF NoClose
    <3>2. Shapes' /\ CloserShuts'
      BY <1>1, <2>4, <3>1 DEF AccountInv, Shapes, CloserShuts
    <3>3. FuturesOwned'
      BY <1>1, <1>3, <2>1, <2>4 DEF AccountInv, FuturesOwned, Open, WaitedFor
    <3> QED BY <1>2, <2>2, <3>2, <3>3 DEF AccountInv
  <2> QED BY <1>3, <2>3, <2>4 DEF TransportCloseEnds
<1>4. CASE closer.pc # "transport"
  <2>1. /\ lingering' = lingering \ ({"close"} \cup
                              IF deferred = "transport" THEN {"deferred"} ELSE {})
        /\ deferred' = IF deferred = "transport" THEN "none" ELSE deferred
        /\ UNCHANGED <<closing, caller, closer>>
    BY <1>4 DEF TransportCloseEnds
  <2>2. Shapes' /\ CloserShuts'
    BY <1>1, <2>1 DEF AccountInv, Shapes, CloserShuts
  <2>3. FuturesOwned'
    <3>1. \A c \in Callers : c \in WaitedFor => c \in WaitedFor'
      BY <2>1, AccountAssumption DEF WaitedFor
    <3> QED BY <1>1, <2>1, <3>1 DEF AccountInv, FuturesOwned, Open
  <2>4. TransportHeld'
    BY <1>1, <2>1 DEF AccountInv, TransportHeld
  <2> QED BY <1>2, <2>2, <2>3, <2>4 DEF AccountInv
<1> QED BY <1>3, <1>4

LEMMA DeferredKeeps ==
  ASSUME AccountInv, DeferredClose \/ DeferredLate
  PROVE  AccountInv'
<1>1. UNCHANGED <<flagVars, connection, closingConn, run, gate, caller, closer>>
  BY DEF DeferredClose, DeferredLate
<1>2. lingering \ {"deferred"} \subseteq lingering'
  BY DEF DeferredClose, DeferredLate
<1>3. Shapes' /\ ConnectionOwned' /\ CloserShuts'
  BY <1>1 DEF AccountInv, Shapes, ConnectionOwned, CloserShuts, flagVars
<1>4. FuturesOwned'
  <2>1. \A c \in Callers : c \in WaitedFor => c \in WaitedFor'
    BY <1>1, <1>2, AccountAssumption DEF WaitedFor
  <2> QED BY <1>1, <2>1 DEF AccountInv, FuturesOwned, Open, flagVars
<1>5. TransportHeld'
  BY <1>1 DEF AccountInv, TransportHeld, DeferredClose, DeferredLate, flagVars
<1> QED BY <1>3, <1>4, <1>5 DEF AccountInv

-----------------------------------------------------------------------------
LEMMA InitAccount ==
  ASSUME Init
  PROVE  AccountInv
<1>1. /\ DOMAIN NoClose = {"pc", "conn", "late", "waits", "bad"}
      /\ NoClose.pc = "idle" /\ NoClose.late = FALSE /\ NoClose.conn = FALSE
      /\ DOMAIN NoCall = {"pc", "conn", "future", "late"} /\ NoCall.future = "none"
      /\ DOMAIN NoRun = {"pc", "conn", "need", "got"}
  BY DEF NoClose, NoCall, NoRun
<1> HIDE DEF NoClose, NoCall, NoRun
<1> QED BY <1>1 DEF Init, AccountInv, Shapes, FuturesOwned, ConnectionOwned, CloserShuts,
          TransportHeld, Open

\* The inductive invariant: which connection a call waits on, what a close that is at work
\* or has left something behind keeps out, and why an account cannot start again before
\* its transport is closed.
THEOREM Invariance == Spec => []AccountInv
<1>1. Init => AccountInv
  BY InitAccount
<1>2. AccountInv /\ [Next]_vars => AccountInv'
  <2>1. ASSUME AccountInv, UNCHANGED vars PROVE AccountInv'
    BY <2>1 DEF vars, closeVars, AccountInv, Shapes, FuturesOwned, ConnectionOwned,
              CloserShuts, TransportHeld, Open, WaitedFor
  <2>2. ASSUME AccountInv, Next PROVE AccountInv'
    BY <2>2, StartKeeps, RunStepKeeps, RunAnswersKeeps, CallStepKeeps, RunReceivesKeeps,
       DispStepKeeps, CloseKeeps, CloseStepKeeps, CloseCancelledKeeps,
       TransportCloseEndsKeeps, DeferredKeeps DEF Next, DispStep
  <2> QED BY <2>1, <2>2
<1> QED BY <1>1, <1>2, PTL DEF Spec

-----------------------------------------------------------------------------
(* What _run may close under a send. *)

\* Once the account is closed, a send that still has the gate is one that close waits for; and
\* _run leaves a context for good only after close has cancelled it, or without a connection.
GateInv ==
  /\ gate # Nobody => /\ gate \in Callers /\ caller[gate].pc = "sending"
                      /\ closed => gate \in WaitedFor
  /\ run.pc = "lastExit" => connection = 0 /\ (gate = Nobody \/ closed)
  /\ "run" \in cancelled => closed /\ run.pc # "none" /\ "run" \in WaitedFor

LEMMA KeepsTransport ==
  ASSUME AccountInv, GateInv
  PROVE  CallsKeepTransport
BY DEF AccountInv, FuturesOwned, TransportHeld, Open, GateInv, WaitedFor, CallsKeepTransport

\* The gate does not change hands and the account is not closed.
LEMMA GateStays ==
  ASSUME GateInv, UNCHANGED <<gate, closed>>,
         \A c \in Callers : caller'[c].pc = caller[c].pc,
         \A c \in Callers : c = gate /\ c \in WaitedFor => c \in WaitedFor',
         run'.pc = "lastExit" => connection' = 0 /\ (gate = Nobody \/ closed),
         "run" \in cancelled' => "run" \in cancelled /\ run'.pc # "none" /\ "run" \in WaitedFor'
  PROVE  GateInv'
BY DEF GateInv

\* Only run and the connection move, before a cancellation arrives.
LEMMA GateRunMoves ==
  ASSUME GateInv, Undisturbed("run"), UNCHANGED <<gate, closed>>,
         \A c \in Callers : caller'[c].pc = caller[c].pc,
         lingering \ {"run"} \subseteq lingering', UNCHANGED closer \/ \E raised : Ended("run", raised),
         cancelled' \subseteq cancelled, Shapes,
         run'.pc = "lastExit" => connection' = 0 /\ (gate = Nobody \/ closed)
  PROVE  GateInv'
<1>1. \A c \in Callers : c # "run"
  BY AccountAssumption
<1>2. closer'.pc = closer.pc /\ closer'.waits = closer.waits
  BY EndedEffect
<1>3. \A c \in Callers : c \in WaitedFor => c \in WaitedFor'
  BY <1>1, <1>2 DEF WaitedFor
<1> QED BY <1>3, GateStays DEF Undisturbed

LEMMA PendingStays ==
  ASSUME Shapes, caller' = FailPending(caller) \/ UNCHANGED caller
  PROVE  \A c \in Callers : caller'[c].pc = caller[c].pc
BY DEF Shapes, FailPending

\* The finally clause of _run.
LEMMA LostEffect ==
  ASSUME Shapes, NEW again, Lost(again)
  PROVE  /\ \A c \in Callers : caller'[c].pc = caller[c].pc
         /\ run'.pc # "lastExit"
         /\ lingering \ {"run"} \subseteq lingering'
         /\ UNCHANGED closer \/ Ended("run", FALSE)
         /\ UNCHANGED cancelled \/ Ended("run", FALSE)
         /\ closed => Ended("run", FALSE) /\ run' = NoRun
<1>1. \A c \in Callers : caller'[c].pc = caller[c].pc
  BY PendingStays DEF Lost, CallsAfterLoss
<1>2. CASE RunEnds
  <2>1. run'.pc = "none" /\ Ended("run", FALSE)
    BY <1>2 DEF RunEnds, NoRun
  <2> QED BY <1>1, <1>2, <2>1, EndedEffect DEF RunEnds
<1>3. CASE /\ ~closed /\ run' = [NoRun EXCEPT !.pc = IF again THEN "backoff" ELSE "lastBackoff"]
           /\ UNCHANGED <<lingering, cancelled, closer>>
  <2>1. run'.pc # "lastExit"
    BY <1>3 DEF NoRun
  <2> QED BY <1>1, <1>3, <2>1
<1> QED BY <1>2, <1>3 DEF Lost

LEMMA EndedCancelled ==
  ASSUME NEW t, NEW raised, Ended(t, raised)
  PROVE  cancelled' = cancelled \ {t}
BY DEF Ended

LEMMA GateRun ==
  ASSUME AccountInv, GateInv,
         \/ RunStep \/ RunLoses
         \/ \E c \in Callers : RunAnswers(c)
         \/ \E weight \in Weights : RunReceives(weight)
  PROVE  GateInv'
<1>0. Shapes /\ DOMAIN run = {"pc", "conn", "need", "got"}
  BY DEF AccountInv, Shapes
<1>1. CASE RunConnects \/ RunReserves \/ RunPuts \/ RunLoses
           \/ \E weight \in Weights : RunReceives(weight)
  <2>1. /\ Undisturbed("run")
        /\ UNCHANGED <<gate, closed, caller, lingering, cancelled, closer>>
    BY <1>1 DEF RunConnects, RunReserves, RunPuts, RunLoses, RunReceives, flagVars, errorVars,
                closeVars
  <2>2. run'.pc # "lastExit"
    BY <1>0, <1>1 DEF RunConnects, RunReserves, RunPuts, RunLoses, RunReceives, Reserve
  <2> QED BY <1>0, <2>1, <2>2, GateRunMoves
<1>2. ASSUME NEW c \in Callers, RunAnswers(c) PROVE GateInv'
  <2>1. \A d \in Callers : caller'[d].pc = caller[d].pc
    BY <1>0, <1>2 DEF RunAnswers, Shapes
  <2>2. /\ Undisturbed("run") /\ run.pc = "consume"
        /\ UNCHANGED <<gate, closed, run, lingering, cancelled, closer>>
    BY <1>2 DEF RunAnswers, flagVars, errorVars, closeVars
  <2> QED BY <1>0, <2>1, <2>2, GateRunMoves
<1>3. CASE RunPublishes
  <2>1. connection = 0
    BY <1>3 DEF RunPublishes, AccountInv, ConnectionOwned, Connected
  <2>2. run'.pc = "lastExit" => connection' = 0 /\ gate = Nobody
    BY <1>0, <1>3, <2>1 DEF RunPublishes
  <2> QED BY <1>0, <1>3, <2>2, GateRunMoves DEF RunPublishes, flagVars, closeVars
<1>4. CASE RunConnectFails \/ RunExits
  <2>1. PICK again \in BOOLEAN : Lost(again)
    BY <1>4 DEF RunConnectFails, RunExits
  <2>2. Undisturbed("run") /\ UNCHANGED <<gate, closed>>
    BY <1>4 DEF RunConnectFails, RunExits, flagVars
  <2>3. cancelled' \subseteq cancelled
    BY <1>0, <2>1, LostEffect, EndedCancelled
  <2> QED BY <1>0, <2>1, <2>2, <2>3, LostEffect, GateRunMoves
<1>5. CASE RunRetries
  <2>1. Undisturbed("run") /\ UNCHANGED <<gate, closed, caller>>
    BY <1>5 DEF RunRetries, flagVars
  <2>2. CASE RunEnds
    <3>1. run'.pc # "lastExit" /\ Ended("run", FALSE)
      BY <2>2 DEF RunEnds, NoRun
    <3> QED BY <1>0, <2>1, <3>1, EndedEffect, EndedCancelled, GateRunMoves
  <2>3. CASE run' = [NoRun EXCEPT !.pc = "connect"] /\ UNCHANGED <<errorVars, cancelled, closer>>
    <3>1. run'.pc # "lastExit"
      BY <2>3 DEF NoRun
    <3> QED BY <1>0, <2>1, <2>3, <3>1, GateRunMoves DEF errorVars
  <2> QED BY <1>5, <2>2, <2>3 DEF RunRetries
<1>6. CASE RunCancelled
  <2>0. /\ closed /\ connection = 0 /\ UNCHANGED <<gate, closed>>
        /\ \A c \in Callers : c # "run"
    BY <1>6, AccountAssumption DEF RunCancelled, GateInv, AccountInv, ConnectionOwned, flagVars
  <2>1. CASE /\ UNCHANGED <<errorVars, connection, caller, closer>>
             /\ cancelled' = cancelled \ {"run"}
    BY <2>0, <2>1, GateStays DEF errorVars, WaitedFor
  <2>2. ASSUME Ended("run", FALSE), run' = NoRun, \A c \in Callers : caller'[c].pc = caller[c].pc
        PROVE  GateInv'
    <3>1. /\ cancelled' = cancelled \ {"run"} /\ lingering' = lingering \ {"run"}
          /\ closer'.pc = closer.pc /\ closer'.waits = closer.waits /\ run'.pc = "none"
      BY <1>0, <2>2, EndedEffect, EndedCancelled DEF NoRun
    <3> QED BY <2>0, <2>2, <3>1, GateStays DEF WaitedFor
  <2>3. CASE Lost(FALSE)
    BY <1>0, <2>0, <2>2, <2>3, LostEffect
  <2>4. CASE UNCHANGED caller /\ RunEnds
    BY <2>2, <2>4 DEF RunEnds
  <2> QED BY <1>6, <2>1, <2>3, <2>4 DEF RunCancelled
<1> QED BY <1>1, <1>2, <1>3, <1>4, <1>5, <1>6 DEF RunStep

LEMMA GateDisp ==
  ASSUME AccountInv, GateInv, DispStep
  PROVE  GateInv'
<1>0. UNCHANGED <<gate, closed, connection, run, caller>> /\ "disp" \notin Callers
  BY AccountAssumption DEF DispStep, DispGets, DispReturns, DispCancelled, StrayGets,
     StrayReturns, DispOthers, flagVars
<1>1. CASE \E raised : DispEnds(raised)
  <2>1. /\ lingering' = lingering \ {"disp"} /\ cancelled' = cancelled \ {"disp"}
        /\ closer'.pc = closer.pc /\ closer'.waits = closer.waits
    BY <1>1, EndedEffect, EndedCancelled DEF DispEnds, AccountInv
  <2> QED BY <1>0, <2>1 DEF GateInv, WaitedFor
<1>2. CASE UNCHANGED <<lingering, closer>> /\ cancelled' \subseteq cancelled
  BY <1>0, <1>2 DEF GateInv, WaitedFor
<1> QED BY <1>1, <1>2 DEF DispStep, DispGets, DispReturns, DispCancelled, StrayGets, StrayReturns,
                          errorVars

LEMMA GateCall ==
  ASSUME AccountInv, GateInv, NEW c \in Callers, Call(c) \/ CallStep(c)
  PROVE  GateInv'
<1>0. /\ UNCHANGED <<closed, connection, run>> /\ c # "run" /\ c # Nobody
      /\ DOMAIN caller = Callers /\ DOMAIN caller[c] = {"pc", "conn", "future", "late"}
  BY AccountAssumption DEF Call, CallStep, CallSends, CallSent, CallReturns, CallFails,
     CallTimeout, CallCancelled, Others, flagVars, AccountInv, Shapes
<1>1. ASSUME NEW raised, CallEnds(c, raised) PROVE GateInv'
  <2>1. /\ lingering' = lingering \ {c} /\ cancelled' = cancelled \ {c}
        /\ closer'.pc = closer.pc /\ closer'.waits = closer.waits
    BY <1>1, EndedEffect, EndedCancelled DEF CallEnds, AccountInv
  <2>2. \A d \in Callers \ {c} : caller'[d] = caller[d]
    BY <1>0, <1>1 DEF CallEnds
  <2>3. gate' = IF gate = c THEN Nobody ELSE gate
    BY <1>1 DEF CallEnds
  <2> QED BY <1>0, <2>1, <2>2, <2>3 DEF GateInv, WaitedFor
<1>2. CASE Call(c)
  <2>1. caller[c].pc = "idle" /\ UNCHANGED <<gate, lingering, closer, cancelled>>
    BY <1>2 DEF Call, errorVars
  <2>2. \A d \in Callers \ {c} : caller'[d] = caller[d]
    BY <1>0, <1>2 DEF Call
  <2> QED BY <1>0, <2>1, <2>2 DEF GateInv, WaitedFor
<1>3. CASE CallSends(c)
  <2>1. CASE /\ ~CallRefused /\ gate' = c
             /\ caller' = [caller EXCEPT ![c].pc = "sending", ![c].conn = connection,
                                          ![c].future = "open"]
             /\ UNCHANGED <<errorVars, cancelled, closer>>
    <3>1. caller'[c].pc = "sending" /\ ~closed /\ connection # 0
      BY <1>0, <2>1 DEF CallRefused
    <3> QED BY <1>0, <2>1, <3>1 DEF GateInv, WaitedFor, errorVars
  <2> QED BY <1>1, <1>3, <2>1 DEF CallSends
<1>4. CASE CallSent(c)
  BY <1>0, <1>4 DEF CallSent, GateInv, WaitedFor, errorVars
<1>5. CASE CallReturns(c) \/ CallFails(c)
  BY <1>1, <1>5 DEF CallReturns, CallFails
<1>6. CASE CallTimeout(c)
  <2>1. \A d \in Callers : caller'[d].pc = caller[d].pc
    BY <1>0, <1>6 DEF CallTimeout
  <2>2. UNCHANGED <<gate, lingering, closer>> /\ cancelled' = cancelled \cup {c}
    BY <1>6 DEF CallTimeout, errorVars
  <2> QED BY <1>0, <2>1, <2>2 DEF GateInv, WaitedFor
<1>7. CASE CallCancelled(c)
  <2>1. CASE cancelled' = cancelled \ {c} /\ UNCHANGED <<errorVars, gate, caller, closer>>
    BY <1>0, <2>1 DEF GateInv, WaitedFor, errorVars
  <2> QED BY <1>1, <1>7, <2>1 DEF CallCancelled
<1> QED BY <1>2, <1>3, <1>4, <1>5, <1>6, <1>7 DEF CallStep

LEMMA GateStart ==
  ASSUME AccountInv, GateInv, Start
  PROVE  GateInv'
<1>1. lingering = {} /\ closer.pc = "idle"
  BY DEF Start, Startable, AccountInv, CloserShuts, Shapes
<1>2. "run" \notin cancelled
  BY <1>1 DEF GateInv, WaitedFor
<1>3. run'.pc = "connect" /\ ~closed' /\ UNCHANGED <<gate, caller, cancelled>>
  BY DEF Start, NoRun
<1> QED BY <1>2, <1>3 DEF GateInv

\* A send that has the gate is at work.
LEMMA HolderIsAlive ==
  ASSUME GateInv, gate # Nobody
  PROVE  gate \in Callers /\ gate \in SendTasks /\ gate \in Alive
BY DEF GateInv, SendTasks, Alive

\* close goes on: whom it waited for and is at work lingers.
LEMMA GateGoesOn ==
  ASSUME AccountInv, GateInv, closer.pc # "transport",
         NEW f, NEW left, NEW before, NEW failed, CloseGoesOn(f, left, before, failed),
         closed' = TRUE, connection' = 0, UNCHANGED <<run, gate>>,
         gate # Nobody => gate \in lingering \cup left,
         "run" \in cancelled' => run.pc # "none" /\ "run" \in lingering \cup left
  PROVE  GateInv'
<1>1. lingering \cup left \subseteq lingering'
  BY DEF CloseGoesOn, CloseRaises, CloseTransport
<1>2. caller' = FailPending(caller) \/ UNCHANGED caller
  BY DEF CloseGoesOn, CloseRaises, CloseTransport, CloseFinishes
<1>3. \A c \in Callers : caller'[c].pc = caller[c].pc
  BY <1>2, PendingStays DEF AccountInv
<1> QED BY <1>1, <1>3 DEF GateInv, WaitedFor

LEMMA GateTakes ==
  ASSUME AccountInv, GateInv, closer.pc \in {"idle", "gate"},
         NEW late, NEW before, NEW failed, CloseTakes(late, before, failed), UNCHANGED <<run, gate>>
  PROVE  GateInv'
<1> DEFINE tasks == (owned \cup SendTasks) \cap Alive
           f == [NoClose EXCEPT !.pc = "tasks", !.late = late, !.waits = tasks,
                                !.conn = connection # 0 \/ closingConn]
<1>1. /\ closed' = TRUE /\ connection' = 0 /\ cancelled' = cancelled \cup tasks
      /\ gate # Nobody => gate \in tasks
  BY HolderIsAlive DEF CloseTakes
<1>2. "run" \in cancelled' => run.pc # "none" /\ "run" \in lingering \cup tasks
  BY <1>1, AccountAssumption DEF GateInv, WaitedFor, Alive, SendTasks
<1>3. CASE tasks = {}
  <2>1. CloseGoesOn(f, {}, before, failed)
    BY <1>3 DEF CloseTakes
  <2>2. PICK g, S : g = f /\ S = tasks
    OBVIOUS
  <2>3. CloseGoesOn(g, {}, before, failed)
    BY <2>1, <2>2
  <2> HIDE DEF f
  <2> QED BY <1>1, <1>2, <1>3, <2>3, GateGoesOn
<1>4. CASE tasks # {}
  <2>1. PICK g, S : g = f /\ S = tasks
    OBVIOUS
  <2>2. closer' = g /\ g.pc = "tasks" /\ g.waits = S /\ UNCHANGED <<lingering, caller>>
    BY <1>4, <2>1 DEF CloseTakes, NoClose
  <2>3. /\ gate # Nobody => gate \in S
        /\ "run" \in cancelled' => run.pc # "none" /\ "run" \in lingering \cup S
    BY <1>1, <1>2, <2>1
  <2> HIDE DEF f, tasks
  <2> QED BY <1>1, <2>2, <2>3 DEF GateInv, WaitedFor
<1> QED BY <1>3, <1>4

LEMMA GateClose ==
  ASSUME AccountInv, GateInv, Close
  PROVE  GateInv'
<1>0. closer.pc = "idle" /\ UNCHANGED <<run, gate>>
  BY DEF Close
<1>1. CASE /\ caller' = FailPending(caller) \/ UNCHANGED caller
           /\ UNCHANGED <<flagVars, connection, lingering, cancelled, closeVars>>
  <2>1. \A c \in Callers : caller'[c].pc = caller[c].pc
    BY <1>1, PendingStays DEF AccountInv
  <2> QED BY <1>0, <1>1, <2>1 DEF GateInv, WaitedFor, flagVars, closeVars
<1>2. ASSUME NEW failed, CloseTakes(FALSE, "stopping", failed)
      PROVE  GateInv'
  BY <1>0, <1>2, GateTakes
<1>3. CASE UNCHANGED <<closed, connection, lingering, cancelled, caller>>
           /\ closer' = [NoClose EXCEPT !.pc = "gate"]
  BY <1>0, <1>3 DEF GateInv, WaitedFor
<1> QED BY <1>1, <1>2, <1>3 DEF Close

LEMMA GateCloseStep ==
  ASSUME AccountInv, GateInv, CloseStep
  PROVE  GateInv'
<1>1. CASE CloseGate \/ CloseGateLate
  BY <1>1, GateTakes DEF CloseGate, CloseGateLate
<1>2. ASSUME closer.pc = "tasks", NEW left, closer.waits \cap Alive \subseteq left,
             CloseGoesOn(closer, left, state, cleanupError),
             UNCHANGED <<closed, connection, run, gate, cancelled>>
      PROVE  GateInv'
  <2>1. closed' = TRUE /\ connection' = 0
    BY <1>2 DEF AccountInv, CloserShuts, ConnectionOwned
  <2>2. gate # Nobody => gate \in lingering \cup left
    BY <1>2, <2>1, HolderIsAlive DEF GateInv, WaitedFor
  <2>3. "run" \in cancelled' => run.pc # "none" /\ "run" \in lingering \cup left
    BY <1>2 DEF GateInv, WaitedFor, Alive
  <2>4. PICK f : f = closer
    OBVIOUS
  <2> QED BY <1>2, <2>1, <2>2, <2>3, <2>4, GateGoesOn
<1>3. CASE CloseTasksEnded
  BY <1>2, <1>3 DEF CloseTasksEnded
<1>4. CASE CloseTasksLate
  BY <1>2, <1>4 DEF CloseTasksLate
<1>5. CASE CloseTransportLate
  <2>1. /\ caller' = FailPending(caller) /\ lingering' = lingering \cup {"close"}
        /\ cancelled' = cancelled \cup {"close"} /\ closer.pc = "transport"
        /\ UNCHANGED <<closed, connection, run, gate>>
    BY <1>5 DEF CloseTransportLate, CloseFinishes
  <2>2. \A c \in Callers : caller'[c].pc = caller[c].pc
    BY <2>1, PendingStays DEF AccountInv
  <2> QED BY <2>1, <2>2 DEF GateInv, WaitedFor
<1> QED BY <1>1, <1>3, <1>4, <1>5 DEF CloseStep

LEMMA GateCloseCancelled ==
  ASSUME AccountInv, GateInv, CloseCancelled
  PROVE  GateInv'
<1>1. /\ UNCHANGED <<closed, connection, run, gate, caller, cancelled>>
      /\ lingering' = lingering \cup Retained
  BY DEF CloseCancelled
<1>2. closer.pc = "tasks" => closer.waits \cap Alive \subseteq Retained
  BY DEF Retained
<1>3. gate # Nobody /\ closed => gate \in lingering'
  BY <1>1, <1>2, HolderIsAlive DEF GateInv, WaitedFor
<1>4. "run" \in cancelled => "run" \in lingering'
  BY <1>1, <1>2 DEF GateInv, WaitedFor, Alive
<1> QED BY <1>1, <1>3, <1>4 DEF GateInv, WaitedFor

LEMMA GateTransport ==
  ASSUME AccountInv, GateInv,
         \/ \E result \in {"ok", "error", "cancelled"} : TransportCloseEnds(result)
         \/ DeferredClose \/ DeferredLate
  PROVE  GateInv'
<1>0. \A c \in Callers : c \notin {"close", "deferred", "run"}
  BY AccountAssumption
<1>1. /\ UNCHANGED <<closed, connection, run, gate>>
      /\ lingering \ {"close", "deferred"} \subseteq lingering'
      /\ "run" \in cancelled' => "run" \in cancelled
      /\ UNCHANGED closer \/ closer.pc = "transport"
      /\ caller' = FailPending(caller) \/ UNCHANGED caller
  BY DEF TransportCloseEnds, CloseFinishes, DeferredClose, DeferredLate, flagVars
<1>2. \A c \in Callers : caller'[c].pc = caller[c].pc
  BY <1>1, PendingStays DEF AccountInv
<1> QED BY <1>0, <1>1, <1>2 DEF GateInv, WaitedFor

\* A transport that close closes is never closed under a send that holds the gate.  _run, which
\* leaves the context of its connection, closes it there only under a send that close has
\* cancelled in vain.  And no call waits for an answer on a connection that another one has
\* replaced.  All this however calls, reconnects, starts and closes that are late or cancelled
\* interleave, for any number of callers.
THEOREM TransportKept == Spec => []CallsKeepTransport
<1>1. Init => GateInv
  BY DEF Init, GateInv, NoRun
<1>2. AccountInv /\ GateInv /\ [Next]_vars => GateInv'
  <2>1. ASSUME GateInv, UNCHANGED vars PROVE GateInv'
    BY <2>1 DEF vars, closeVars, GateInv, WaitedFor
  <2>2. ASSUME AccountInv, GateInv, Next PROVE GateInv'
    BY <2>2, GateRun, GateDisp, GateCall, GateStart, GateClose, GateCloseStep,
       GateCloseCancelled, GateTransport DEF Next, DispStep
  <2> QED BY <2>1, <2>2
<1>3. AccountInv /\ GateInv => CallsKeepTransport
  BY KeepsTransport
<1> QED BY <1>1, <1>2, <1>3, Invariance, PTL DEF Spec

-----------------------------------------------------------------------------
(* What a clean account has released. *)

Unclean == {"stopping", "cleanup_pending", "failed"}

\* The account refers to both of its tasks as long as they are at work, or somebody waits
\* for them.
TasksHeld ==
  /\ run.pc # "none" => "run" \in owned \cup WaitedFor
  /\ disp # "none" => "disp" \in owned \cup WaitedFor

\* A transport that is still to be closed shows in the state, unless a close is at work.
StateTells == closingConn => closed /\ (closer.pc = "idle" => state \in Unclean)

ReleaseInv == TasksHeld /\ StateTells

LEMMA ReleaseInvSuffices ==
  ASSUME AccountInv, ReleaseInv
  PROVE  CleanMeansReleased
<1> SUFFICES ASSUME closed, closer.pc = "idle", BackgroundTasks = {}, ~cleanupError,
                    state \notin Unclean
             PROVE  ~Unreleased
  BY DEF CleanMeansReleased, Unclean
<1>1. lingering = {} /\ SendTasks = {} /\ WaitedFor = {}
  BY DEF BackgroundTasks, WaitedFor
<1>2. ~closingConn
  BY DEF ReleaseInv, StateTells
<1>3. deferred = "none" /\ ~transport
  BY <1>1, <1>2 DEF AccountInv, TransportHeld
<1>4. Alive = {}
  BY <1>1 DEF ReleaseInv, TasksHeld, BackgroundTasks, Alive
<1> QED BY <1>2, <1>3, <1>4 DEF Unreleased

\* The end of task t, which is not at work any more.
LEMMA EndedReleases ==
  ASSUME AccountInv, ReleaseInv, NEW t, NEW raised \in BOOLEAN, Ended(t, raised),
         UNCHANGED <<closed, owned, closingConn>>,
         run'.pc # "none" => run.pc # "none" /\ t # "run",
         disp' # "none" => disp # "none" /\ t # "disp"
  PROVE  ReleaseInv'
<1>1. /\ lingering' = lingering \ {t} /\ closer'.pc = closer.pc /\ closer'.waits = closer.waits
  BY EndedEffect DEF AccountInv
<1>2. TasksHeld'
  BY <1>1 DEF ReleaseInv, TasksHeld, WaitedFor
<1>3. StateTells'
  <2>1. CASE MaybeStopped(IF raised THEN "failed" ELSE state)
    BY <1>1, <2>1 DEF ReleaseInv, StateTells, MaybeStopped, Quiet, Unclean
  <2>2. CASE UNCHANGED errorVars
    BY <1>1, <2>2 DEF ReleaseInv, StateTells, errorVars
  <2> QED BY <2>1, <2>2 DEF Ended
<1> QED BY <1>2, <1>3 DEF ReleaseInv

\* Nothing that the invariant looks at changes but for where the tasks are.
LEMMA TasksMove ==
  ASSUME ReleaseInv, UNCHANGED <<closed, owned, closingConn, lingering, closer>>,
         run'.pc # "none" => run.pc # "none", disp' # "none" => disp # "none",
         closed => state' = state
  PROVE  ReleaseInv'
BY DEF ReleaseInv, TasksHeld, StateTells, WaitedFor

LEMMA LostReleases ==
  ASSUME AccountInv, ReleaseInv, run.pc # "none", NEW again \in BOOLEAN, Lost(again),
         UNCHANGED <<closed, owned, closingConn, disp>>
  PROVE  ReleaseInv'
<1>1. CASE RunEnds
  BY <1>1, EndedReleases DEF RunEnds, NoRun
<1>2. CASE ~closed /\ UNCHANGED <<lingering, closer>>
  BY <1>2, TasksMove
<1> QED BY <1>1, <1>2 DEF Lost

LEMMA RunReleases ==
  ASSUME AccountInv, ReleaseInv,
         \/ RunStep \/ RunLoses
         \/ \E c \in Callers : RunAnswers(c)
         \/ \E weight \in Weights : RunReceives(weight)
  PROVE  ReleaseInv'
<1>0. DOMAIN run = {"pc", "conn", "need", "got"}
  BY DEF AccountInv, Shapes
<1>1. CASE RunConnects \/ RunLoses \/ \E c \in Callers : RunAnswers(c)
  BY <1>1, TasksMove DEF RunConnects, RunLoses, RunAnswers, flagVars, errorVars, eventVars,
                         closeVars
<1>2. CASE RunReserves \/ RunPuts \/ \E weight \in Weights : RunReceives(weight)
  BY <1>2, TasksMove DEF RunReserves, RunPuts, RunReceives, flagVars, errorVars, closeVars
<1>3. CASE RunPublishes
  BY <1>3, TasksMove DEF RunPublishes, flagVars, eventVars, closeVars
<1>4. CASE RunConnectFails \/ RunExits
  <2>1. run.pc # "none" /\ UNCHANGED <<closed, owned, closingConn, disp>>
    BY <1>4 DEF RunConnectFails, RunExits, Leaving, flagVars, eventVars
  <2>2. \E again \in BOOLEAN : Lost(again)
    BY <1>4 DEF RunConnectFails, RunExits
  <2> QED BY <2>1, <2>2, LostReleases
<1>5. CASE RunRetries
  <2>0. run.pc # "none" /\ UNCHANGED <<closed, owned, closingConn, disp>>
    BY <1>5 DEF RunRetries, flagVars, eventVars
  <2>1. CASE RunEnds
    BY <2>0, <2>1, EndedReleases DEF RunEnds, NoRun
  <2>2. CASE UNCHANGED <<errorVars, closer>>
    BY <2>0, <2>2, TasksMove DEF errorVars
  <2> QED BY <1>5, <2>1, <2>2 DEF RunRetries
<1>6. CASE RunCancelled
  <2>0. run.pc # "none" /\ UNCHANGED <<closed, owned, closingConn, disp>>
    BY <1>6 DEF RunCancelled, flagVars
  <2>1. CASE UNCHANGED <<errorVars, closer>>
    BY <2>0, <2>1, TasksMove DEF errorVars
  <2>2. CASE Lost(FALSE)
    BY <2>0, <2>2, LostReleases
  <2>3. CASE RunEnds
    BY <2>0, <2>3, EndedReleases DEF RunEnds, NoRun
  <2> QED BY <1>6, <2>1, <2>2, <2>3 DEF RunCancelled
<1> QED BY <1>1, <1>2, <1>3, <1>4, <1>5, <1>6 DEF RunStep

LEMMA DispReleases ==
  ASSUME AccountInv, ReleaseInv, DispStep
  PROVE  ReleaseInv'
<1>0. UNCHANGED <<closed, owned, closingConn, run>>
  BY DEF DispStep, DispGets, DispReturns, DispCancelled, StrayGets, StrayReturns, DispOthers,
         flagVars
<1>1. CASE \E raised \in BOOLEAN : DispEnds(raised)
  BY <1>0, <1>1, EndedReleases DEF DispEnds
<1>2. CASE UNCHANGED <<errorVars, closer>> /\ (disp' # "none" => disp # "none")
  BY <1>0, <1>2, TasksMove DEF errorVars
<1> QED BY <1>1, <1>2 DEF DispStep, DispGets, DispReturns, DispCancelled, StrayGets, StrayReturns,
                          Overdone

LEMMA CallReleases ==
  ASSUME AccountInv, ReleaseInv, NEW c \in Callers, Call(c) \/ CallStep(c)
  PROVE  ReleaseInv'
<1>0. UNCHANGED <<closed, owned, closingConn, run, disp>>
  BY DEF Call, CallStep, CallSends, CallSent, CallReturns, CallFails, CallTimeout,
         CallCancelled, Others, flagVars, eventVars
<1>1. CASE \E raised \in BOOLEAN : CallEnds(c, raised)
  BY <1>0, <1>1, EndedReleases, AccountAssumption DEF CallEnds
<1>2. CASE UNCHANGED <<errorVars, closer>>
  BY <1>0, <1>2, TasksMove DEF errorVars
<1> QED BY <1>1, <1>2 DEF Call, CallStep, CallSends, CallSent, CallReturns, CallFails,
                          CallTimeout, CallCancelled

-----------------------------------------------------------------------------
(* Closing, once more. *)

\* close comes to its end while closingConn is as pending says, or something is left.
LEMMA FinishTells ==
  ASSUME NEW pending, CloseFinishes(pending), closingConn' => closed'
  PROVE  StateTells'
BY DEF CloseFinishes, MaybeStopped, Quiet, StateTells, Unclean

\* close has the account closed: what is at work is owned, lingers or is among those left.
LEMMA GoesOnReleases ==
  ASSUME NEW f, NEW left, NEW before, NEW failed, CloseGoesOn(f, left, before, failed),
         DOMAIN f = CloserFields, closed' = TRUE,
         run'.pc # "none" => "run" \in owned' \cup lingering \cup left,
         disp' # "none" => "disp" \in owned' \cup lingering \cup left
  PROVE  ReleaseInv'
<1>1. lingering \cup left \subseteq lingering'
  BY DEF CloseGoesOn, CloseRaises, CloseTransport
<1>2. TasksHeld'
  BY <1>1 DEF TasksHeld, WaitedFor
<1>3. StateTells'
  <2>1. CASE CloseFinishes(left # {} \/ f.conn)
    BY <2>1, FinishTells
  <2>2. CASE closer' = [f EXCEPT !.pc = "transport", !.waits = left]
    <3>1. closer'.pc = "transport"
      BY <2>2 DEF CloserFields
    <3> QED BY <3>1 DEF StateTells
  <2>3. CASE CloseRaises(left)
    BY <2>3 DEF CloseRaises, StateTells, Unclean
  <2> QED BY <2>1, <2>2, <2>3 DEF CloseGoesOn, CloseTransport
<1> QED BY <1>2, <1>3 DEF ReleaseInv

LEMMA TakesReleases ==
  ASSUME AccountInv, ReleaseInv, closer.pc \in {"idle", "gate"},
         NEW late \in BOOLEAN, NEW before, NEW failed, CloseTakes(late, before, failed),
         UNCHANGED <<run, disp>>
  PROVE  ReleaseInv'
<1> DEFINE tasks == (owned \cup SendTasks) \cap Alive
           f == [NoClose EXCEPT !.pc = "tasks", !.late = late, !.waits = tasks,
                                !.conn = connection # 0 \/ closingConn]
<1>1. DOMAIN f = CloserFields /\ f.pc = "tasks" /\ f.waits = tasks
  BY DEF NoClose, CloserFields
<1>2. closed' = TRUE /\ owned' = {}
  BY DEF CloseTakes
<1>3. /\ run.pc # "none" => "run" \in lingering \cup tasks
      /\ disp # "none" => "disp" \in lingering \cup tasks
  BY DEF ReleaseInv, TasksHeld, WaitedFor, Alive
<1>4. CASE tasks = {}
  <2>1. CloseGoesOn(f, {}, before, failed)
    BY <1>4 DEF CloseTakes
  <2>2. PICK g : g = f
    OBVIOUS
  <2>3. CloseGoesOn(g, {}, before, failed) /\ DOMAIN g = CloserFields
    BY <1>1, <2>1, <2>2
  <2> HIDE DEF f
  <2> QED BY <1>2, <1>3, <1>4, <2>3, GoesOnReleases
<1>5. CASE tasks # {}
  <2>1. PICK g, S : g = f /\ S = tasks
    OBVIOUS
  <2>2. closer' = g /\ g.pc = "tasks" /\ g.waits = S /\ UNCHANGED lingering
    BY <1>1, <1>5, <2>1 DEF CloseTakes
  <2>3. /\ run'.pc # "none" => "run" \in lingering \cup S
        /\ disp' # "none" => "disp" \in lingering \cup S
    BY <1>3, <2>1
  <2> HIDE DEF f, tasks
  <2> QED BY <1>2, <2>2, <2>3 DEF ReleaseInv, TasksHeld, StateTells, WaitedFor
<1> QED BY <1>4, <1>5

LEMMA CloseReleases ==
  ASSUME AccountInv, ReleaseInv, Close
  PROVE  ReleaseInv'
<1>0. closer.pc = "idle" /\ UNCHANGED <<run, disp>>
  BY DEF Close
<1>1. CASE Released /\ UNCHANGED <<flagVars, lingering, closeVars>>
  BY <1>0, <1>1 DEF Released, ReleaseInv, TasksHeld, StateTells, WaitedFor, flagVars, closeVars
<1>2. ASSUME NEW failed, CloseTakes(FALSE, "stopping", failed)
      PROVE  ReleaseInv'
  BY <1>0, <1>2, TakesReleases
<1>3. CASE /\ closer' = [NoClose EXCEPT !.pc = "gate"]
           /\ UNCHANGED <<closed, owned, lingering, closingConn>>
  <2>1. closer'.pc = "gate"
    BY <1>3 DEF NoClose
  <2> QED BY <1>0, <1>3, <2>1 DEF ReleaseInv, TasksHeld, StateTells, WaitedFor
<1> QED BY <1>1, <1>2, <1>3 DEF Close

LEMMA CloseStepReleases ==
  ASSUME AccountInv, ReleaseInv, CloseStep
  PROVE  ReleaseInv'
<1>0. DOMAIN closer = CloserFields
  BY DEF AccountInv, Shapes, CloserFields
<1>1. CASE CloseGate \/ CloseGateLate
  BY <1>1, TakesReleases DEF CloseGate, CloseGateLate
<1>2. ASSUME closer.pc = "tasks", NEW left, closer.waits \cap Alive \subseteq left,
             CloseGoesOn(closer, left, state, cleanupError),
             UNCHANGED <<closed, owned, run, disp>>
      PROVE  ReleaseInv'
  <2>1. closed' = TRUE
    BY <1>2 DEF AccountInv, CloserShuts
  <2>2. /\ run.pc # "none" => "run" \in owned \cup lingering \cup left
        /\ disp # "none" => "disp" \in owned \cup lingering \cup left
    BY <1>2 DEF ReleaseInv, TasksHeld, WaitedFor, Alive
  <2>3. PICK f : f = closer
    OBVIOUS
  <2> QED BY <1>0, <1>2, <2>1, <2>2, <2>3, GoesOnReleases
<1>3. CASE CloseTasksEnded
  BY <1>2, <1>3 DEF CloseTasksEnded
<1>4. CASE CloseTasksLate
  BY <1>2, <1>4 DEF CloseTasksLate
<1>5. CASE CloseTransportLate
  <2>1. /\ CloseFinishes(TRUE) /\ lingering' = lingering \cup {"close"}
        /\ UNCHANGED <<closed, owned, closingConn, run, disp>>
    BY <1>5 DEF CloseTransportLate, eventVars
  <2>2. TasksHeld'
    BY <1>5, <2>1 DEF ReleaseInv, TasksHeld, WaitedFor, CloseTransportLate
  <2>3. StateTells'
    BY <2>1, FinishTells DEF ReleaseInv, StateTells
  <2> QED BY <2>2, <2>3 DEF ReleaseInv
<1> QED BY <1>1, <1>3, <1>4, <1>5 DEF CloseStep

LEMMA CloseCancelledReleases ==
  ASSUME AccountInv, ReleaseInv, CloseCancelled
  PROVE  ReleaseInv'
<1>1. /\ UNCHANGED <<closed, owned, closingConn, run, disp>>
      /\ lingering' = lingering \cup Retained
      /\ MaybeStopped("cleanup_pending")
  BY DEF CloseCancelled, eventVars
<1>2. closer.pc = "tasks" => closer.waits \cap Alive \subseteq Retained
  BY DEF Retained
<1>3. TasksHeld'
  BY <1>1, <1>2 DEF ReleaseInv, TasksHeld, WaitedFor, Alive
<1>4. StateTells'
  BY <1>1 DEF ReleaseInv, StateTells, MaybeStopped, Quiet, Unclean
<1> QED BY <1>3, <1>4 DEF ReleaseInv

LEMMA TransportCloseEndsReleases ==
  ASSUME AccountInv, ReleaseInv, NEW result, TransportCloseEnds(result)
  PROVE  ReleaseInv'
<1>1. /\ UNCHANGED <<closed, owned, run, disp>> /\ (closingConn' => closingConn)
      /\ lingering \ {"close", "deferred"} \subseteq lingering'
  BY DEF TransportCloseEnds, eventVars
<1>2. CASE closer.pc = "transport"
  <2>1. TasksHeld'
    BY <1>1, <1>2 DEF ReleaseInv, TasksHeld, WaitedFor
  <2>2. CASE CloseFinishes(closer.waits # {})
    BY <1>1, <2>1, <2>2, FinishTells DEF ReleaseInv, StateTells
  <2>3. CASE state' = "failed"
    BY <1>1, <2>1, <2>3 DEF ReleaseInv, StateTells, Unclean
  <2> QED BY <1>2, <2>2, <2>3 DEF TransportCloseEnds
<1>3. CASE closer.pc # "transport"
  <2>1. closer' = closer /\ MaybeStopped(IF result = "error" THEN "failed" ELSE state)
    BY <1>3 DEF TransportCloseEnds
  <2>2. TasksHeld'
    BY <1>1, <2>1 DEF ReleaseInv, TasksHeld, WaitedFor
  <2>3. StateTells'
    BY <1>1, <2>1 DEF ReleaseInv, StateTells, MaybeStopped, Quiet, Unclean
  <2> QED BY <2>2, <2>3 DEF ReleaseInv
<1> QED BY <1>2, <1>3

LEMMA DeferredReleases ==
  ASSUME AccountInv, ReleaseInv, DeferredClose \/ DeferredLate
  PROVE  ReleaseInv'
<1>1. /\ UNCHANGED <<closed, owned, closingConn, run, disp, closer>>
      /\ lingering \ {"deferred"} \subseteq lingering'
      /\ MaybeStopped(state) \/ UNCHANGED state
  BY DEF DeferredClose, DeferredLate, flagVars, eventVars
<1>2. TasksHeld'
  BY <1>1 DEF ReleaseInv, TasksHeld, WaitedFor
<1>3. StateTells'
  BY <1>1 DEF ReleaseInv, StateTells, MaybeStopped, Quiet
<1> QED BY <1>2, <1>3 DEF ReleaseInv

LEMMA StartReleases ==
  ASSUME AccountInv, ReleaseInv, Start
  PROVE  ReleaseInv'
<1>1. owned' = {"run", "disp"} /\ ~closingConn /\ UNCHANGED closingConn
  BY DEF Start, Startable, closeVars
<1> QED BY <1>1 DEF ReleaseInv, TasksHeld, StateTells

LEMMA NextReleases ==
  ASSUME AccountInv, ReleaseInv, [Next]_vars
  PROVE  ReleaseInv'
<1>1. CASE UNCHANGED vars
  BY <1>1, TasksMove DEF vars, closeVars
<1>2. CASE Next
  BY <1>2, StartReleases, RunReleases, CallReleases, DispReleases, CloseReleases,
     CloseStepReleases, CloseCancelledReleases, TransportCloseEndsReleases,
     DeferredReleases DEF Next, DispStep
<1> QED BY <1>1, <1>2

\* An account that looks clean to OneBotService.close (closed, with nothing that status() counts,
\* no error and no state of a cleanup that goes on) has no task of its last start at work, no
\* call, no transport to close and none that is being closed, for any number of callers, starts
\* and closes, however they are late, cancelled or repeated.  It does not speak of dispatchers
\* that an earlier start has left behind: nobody counts them.
THEOREM CleanIsReleased == Spec => []CleanMeansReleased
<1>1. Init => ReleaseInv
  BY DEF Init, ReleaseInv, TasksHeld, StateTells, NoRun
<1>2. AccountInv /\ ReleaseInv /\ [Next]_vars => ReleaseInv'
  BY NextReleases
<1>3. AccountInv /\ ReleaseInv => CleanMeansReleased
  BY ReleaseInvSuffices
<1> QED BY <1>1, <1>2, <1>3, Invariance, PTL DEF Spec

-----------------------------------------------------------------------------
(* What the queued events hold: the sum is known by its first term and its step. *)

\* A set of naturals has a least element, ...
LEMMA Least ==
  ASSUME NEW T, T \subseteq Nat, T # {}
  PROVE  \E m \in T : \A k \in T : m <= k
<1> DEFINE R == {ss \in Nat \X Nat : ss[1] < ss[2]}
<1>1. IsWellFoundedOn(R, Nat)
  BY NatLessThanWellFounded, Zenon DEF OpToRel
<1>2. PICK m \in T : \A k \in T : <<k, m>> \notin R
  <2> HIDE DEF R
  <2> QED BY <1>1, WFMin, Zenon
<1>3. ASSUME NEW k \in T PROVE m <= k
  <2>1. ~(k < m)
    BY <1>2
  <2> QED BY <2>1
<1> QED BY <1>3

\* ... so that one which goes on from 0 has them all.
LEMMA Counting ==
  ASSUME NEW T, T \subseteq Nat, 0 \in T, \A n \in T : n + 1 \in T
  PROVE  T = Nat
<1> SUFFICES ASSUME Nat \ T # {} PROVE FALSE
  OBVIOUS
<1>1. PICK m \in Nat \ T : \A k \in Nat \ T : m <= k
  <2> DEFINE U == Nat \ T
  <2>1. U \subseteq Nat /\ U # {}
    OBVIOUS
  <2> HIDE DEF U
  <2>2. \E m \in U : \A k \in U : m <= k
    BY <2>1, Least
  <2> QED BY <2>2 DEF U
<1>2. m - 1 \in Nat /\ ~(m <= m - 1)
  OBVIOUS
<1>3. m - 1 \in T
  BY <1>1, <1>2
<1>4. m \in T
  BY <1>2, <1>3
<1> QED BY <1>4

\* f sums up the first n of these events.
Sums(f, events, n) ==
  /\ DOMAIN f = 0..n /\ f[0] = 0
  /\ \A i \in 0..n : f[i] \in Nat
  /\ \A i \in 1..n : f[i] = f[i - 1] + events[i]

LEMMA SumsExist ==
  ASSUME NEW events \in Seq(Nat)
  PROVE  \E f : Sums(f, events, Len(events))
<1> DEFINE T == {n \in Nat : n <= Len(events) => \E f : Sums(f, events, n)}
<1>1. 0 \in T
  <2>1. Sums([i \in 0..0 |-> 0], events, 0)
    BY DEF Sums
  <2> QED BY <2>1
<1>2. ASSUME NEW n \in T PROVE n + 1 \in T
  <2> SUFFICES ASSUME n + 1 <= Len(events) PROVE \E f : Sums(f, events, n + 1)
    OBVIOUS
  <2>1. n \in Nat /\ Len(events) \in Nat /\ n <= Len(events)
    OBVIOUS
  <2>2. PICK f : Sums(f, events, n)
    BY <2>1
  <2> HIDE DEF T
  <2>3. n + 1 \in 1..Len(events) /\ events[n + 1] \in Nat
    BY <2>1
  <2> DEFINE g == [i \in 0..(n + 1) |-> IF i = n + 1 THEN f[n] + events[n + 1] ELSE f[i]]
  <2>4. DOMAIN g = 0..(n + 1) /\ g[0] = 0
    BY <2>1, <2>2 DEF Sums
  <2>5. ASSUME NEW i \in 0..(n + 1) PROVE g[i] \in Nat
    BY <2>1, <2>2, <2>3 DEF Sums
  <2>6. ASSUME NEW i \in 1..(n + 1) PROVE g[i] = g[i - 1] + events[i]
    <3>1. i - 1 \in 0..n /\ i - 1 # n + 1 /\ i \in 0..(n + 1) /\ i - 1 \in 0..(n + 1)
      BY <2>1
    <3>2. CASE i = n + 1
      BY <2>1, <3>1, <3>2
    <3>3. CASE i # n + 1
      <4>1. i \in 1..n
        BY <2>1, <3>3
      <4> QED BY <2>2, <3>1, <3>3, <4>1 DEF Sums
    <3> QED BY <3>2, <3>3
  <2>7. Sums(g, events, n + 1)
    <3> HIDE DEF g
    <3> QED BY <2>4, <2>5, <2>6 DEF Sums
  <2> QED BY <2>7
<1>3. T = Nat
  <2>1. T \subseteq Nat
    OBVIOUS
  <2> HIDE DEF T
  <2> QED BY <1>1, <1>2, <2>1, Counting
<1>4. Len(events) \in T
  <2> HIDE DEF T
  <2> QED BY <1>3
<1> QED BY <1>4

\* There is one such function, ...
LEMMA SumsAgree ==
  ASSUME NEW events \in Seq(Nat), NEW n \in Nat, NEW f, NEW g, Sums(f, events, n),
         g[0] = 0, \A i \in 1..n : g[i] = g[i - 1] + events[i]
  PROVE  g[n] = f[n]
<1> DEFINE T == {k \in Nat : k <= n => f[k] = g[k]}
<1>1. 0 \in T
  BY DEF Sums
<1>2. ASSUME NEW k \in T PROVE k + 1 \in T
  <2> SUFFICES ASSUME k + 1 <= n PROVE f[k + 1] = g[k + 1]
    OBVIOUS
  <2>1. k \in Nat /\ k <= n /\ f[k] = g[k]
    OBVIOUS
  <2>2. k + 1 \in 1..n /\ (k + 1) - 1 = k
    BY <2>1
  <2> HIDE DEF T
  <2> QED BY <2>1, <2>2 DEF Sums
<1>3. T = Nat
  <2>1. T \subseteq Nat
    OBVIOUS
  <2> HIDE DEF T
  <2> QED BY <1>1, <1>2, <2>1, Counting
<1>4. n \in T
  BY <1>3
<1> QED BY <1>4

\* ... and Weight is its last value.
LEMMA WeightIs ==
  ASSUME NEW events \in Seq(Nat), NEW f, Sums(f, events, Len(events))
  PROVE  Weight(events) = f[Len(events)] /\ Weight(events) \in Nat
<1> DEFINE Step(h) == [i \in 0..Len(events) |-> IF i = 0 THEN 0 ELSE h[i - 1] + events[i]]
           sum == CHOOSE h : h = Step(h)
<1>0. Len(events) \in Nat
  OBVIOUS
<1>1. PICK h : h = [i \in 0..Len(events) |-> f[i]]
  OBVIOUS
<1>2. h = Step(h)
  <2>1. ASSUME NEW i \in 0..Len(events)
        PROVE  f[i] = IF i = 0 THEN 0 ELSE h[i - 1] + events[i]
    <3>1. CASE i = 0
      BY <3>1 DEF Sums
    <3>2. CASE i # 0
      <4>1. i \in 1..Len(events) /\ i - 1 \in 0..Len(events)
        BY <1>0, <3>2
      <4> QED BY <1>1, <3>2, <4>1 DEF Sums
    <3> QED BY <3>1, <3>2
  <2> QED BY <1>1, <2>1
<1>3. sum = Step(sum)
  <2> HIDE DEF Step
  <2> QED BY <1>2
<1>4. Weight(events) = sum[Len(events)]
  BY DEF Weight
<1>5. PICK s : s = sum
  OBVIOUS
<1>6. s = Step(s) /\ Weight(events) = s[Len(events)]
  <2> HIDE DEF Step
  <2> QED BY <1>3, <1>4, <1>5
<1> HIDE DEF sum
<1>7. s[0] = 0
  <2>1. 0 \in 0..Len(events)
    BY <1>0
  <2> QED BY <1>6, <2>1
<1>8. ASSUME NEW i \in 1..Len(events) PROVE s[i] = s[i - 1] + events[i]
  <2>1. i \in 0..Len(events) /\ i # 0
    BY <1>0
  <2> HIDE DEF Step
  <2>2. s = [j \in 0..Len(events) |-> IF j = 0 THEN 0 ELSE s[j - 1] + events[j]]
    BY <1>6 DEF Step
  <2> QED BY <2>1, <2>2
<1>9. s[Len(events)] = f[Len(events)]
  BY <1>0, <1>7, <1>8, SumsAgree
<1>10. f[Len(events)] \in Nat
  BY <1>0 DEF Sums
<1> QED BY <1>6, <1>9, <1>10


\* No event holds no slot, ...
LEMMA WeightOfNone == Weight(<<>>) = 0
<1> DEFINE f == [i \in 0..0 |-> 0]
<1>1. <<>> \in Seq(Nat) /\ Len(<<>>) = 0
  OBVIOUS
<1>2. Sums(f, <<>>, 0) /\ f[0] = 0
  BY DEF Sums
<1> HIDE DEF f
<1> QED BY <1>1, <1>2, WeightIs

\* ... a new event adds what it needs, ...
LEMMA WeightOfAppend ==
  ASSUME NEW events \in Seq(Nat), NEW n \in Nat
  PROVE  /\ Append(events, n) \in Seq(Nat)
         /\ Weight(Append(events, n)) = Weight(events) + n
<1>1. PICK f : Sums(f, events, Len(events))
  BY SumsExist
<1>2. PICK more : more = Append(events, n)
  OBVIOUS
<1>3. PICK l : l = Len(events)
  OBVIOUS
<1>4. /\ l \in Nat /\ more \in Seq(Nat) /\ Len(more) = l + 1 /\ more[l + 1] = n
      /\ \A i \in 1..l : more[i] = events[i]
  BY <1>2, <1>3
<1>5. Sums(f, events, l)
  BY <1>1, <1>3
<1> DEFINE g == [i \in 0..(l + 1) |-> IF i = l + 1 THEN f[l] + n ELSE f[i]]
<1>6. DOMAIN g = 0..(l + 1) /\ g[0] = 0 /\ g[l + 1] = f[l] + n
  BY <1>4, <1>5 DEF Sums
<1>7. ASSUME NEW i \in 0..(l + 1) PROVE g[i] \in Nat
  BY <1>4, <1>5 DEF Sums
<1>8. ASSUME NEW i \in 1..(l + 1) PROVE g[i] = g[i - 1] + more[i]
  <2>1. i - 1 \in 0..l /\ i - 1 # l + 1 /\ i \in 0..(l + 1) /\ i - 1 \in 0..(l + 1)
    BY <1>4
  <2>2. CASE i = l + 1
    BY <1>4, <2>1, <2>2
  <2>3. CASE i # l + 1
    <3>1. i \in 1..l
      BY <1>4, <2>3
    <3> QED BY <1>4, <1>5, <2>1, <2>3, <3>1 DEF Sums
  <2> QED BY <2>2, <2>3
<1> HIDE DEF g
<1>9. Sums(g, more, Len(more))
  <2>1. Sums(g, more, l + 1)
    BY <1>6, <1>7, <1>8 DEF Sums
  <2> QED BY <1>4, <2>1
<1>10. Weight(more) = f[l] + n
  BY <1>4, <1>6, <1>9, WeightIs
<1>11. Weight(events) = f[l]
  BY <1>1, <1>3, WeightIs
<1> QED BY <1>2, <1>4, <1>10, <1>11

\* ... and the next event takes what it holds away.
LEMMA WeightOfTail ==
  ASSUME NEW events \in Seq(Nat), events # <<>>
  PROVE  /\ Tail(events) \in Seq(Nat) /\ Head(events) \in Nat /\ Weight(Tail(events)) \in Nat
         /\ Weight(events) = Head(events) + Weight(Tail(events))
<1>1. PICK rest, first, l : rest = Tail(events) /\ first = Head(events) /\ l = Len(rest)
  OBVIOUS
<1>2. /\ rest \in Seq(Nat) /\ first \in Nat /\ l \in Nat /\ Len(events) = l + 1
      /\ events[1] = first /\ \A i \in 1..l : events[i + 1] = rest[i]
  BY <1>1
<1>3. PICK f : Sums(f, rest, Len(rest))
  BY <1>2, SumsExist
<1>4. Sums(f, rest, l)
  BY <1>1, <1>3
<1> DEFINE g == [i \in 0..(l + 1) |-> IF i = 0 THEN 0 ELSE first + f[i - 1]]
<1>5. DOMAIN g = 0..(l + 1) /\ g[0] = 0 /\ g[l + 1] = first + f[l]
  BY <1>2, <1>4 DEF Sums
<1>6. ASSUME NEW i \in 0..(l + 1) PROVE g[i] \in Nat
  <2>1. CASE i = 0
    BY <1>5, <2>1
  <2>2. CASE i # 0
    <3>1. i - 1 \in 0..l
      BY <1>2, <2>2
    <3> QED BY <1>2, <1>4, <2>2, <3>1 DEF Sums
  <2> QED BY <2>1, <2>2
<1>7. ASSUME NEW i \in 1..(l + 1) PROVE g[i] = g[i - 1] + events[i]
  <2>1. i \in 0..(l + 1) /\ i # 0 /\ i - 1 \in 0..(l + 1) /\ g[i] = first + f[i - 1]
    BY <1>2
  <2>2. CASE i = 1
    <3>1. f[i - 1] = 0 /\ g[i - 1] = 0 /\ events[i] = first
      BY <1>2, <1>4, <1>5, <2>2 DEF Sums
    <3> HIDE DEF g
    <3> QED BY <1>2, <2>1, <3>1
  <2>3. CASE i # 1
    <3>1. i - 1 \in 1..l /\ (i - 1) + 1 = i /\ i - 1 # 0 /\ i - 2 \in 0..l /\ (i - 1) - 1 = i - 2
      BY <1>2, <2>3
    <3>2. g[i - 1] = first + f[i - 2]
      BY <2>1, <3>1
    <3>3. f[i - 1] = f[i - 2] + rest[i - 1] /\ events[i] = rest[i - 1]
      BY <1>2, <1>4, <3>1 DEF Sums
    <3>4. f[i - 2] \in Nat /\ rest[i - 1] \in Nat
      BY <1>1, <1>2, <1>4, <3>1 DEF Sums
    <3> HIDE DEF g
    <3> QED BY <1>2, <2>1, <3>2, <3>3, <3>4
  <2> QED BY <2>2, <2>3
<1> HIDE DEF g
<1>8. Sums(g, events, Len(events))
  <2>1. Sums(g, events, l + 1)
    BY <1>5, <1>6, <1>7 DEF Sums
  <2> QED BY <1>2, <2>1
<1>9. Weight(events) = first + f[l]
  BY <1>2, <1>5, <1>8, WeightIs
<1>10. Weight(rest) = f[l] /\ Weight(rest) \in Nat
  BY <1>1, <1>2, <1>3, WeightIs
<1> QED BY <1>1, <1>2, <1>9, <1>10

LEMMA WeightIsNat ==
  ASSUME NEW events \in Seq(Nat)
  PROVE  Weight(events) \in Nat
BY SumsExist, WeightIs

-----------------------------------------------------------------------------
(* The byte budget. *)

\* A reservation holds what it has got until it has all, and where none goes on none is held.
Holding ==
  /\ run.got <= run.need
  /\ run.pc = "put" => run.got = run.need
  /\ run.pc \notin {"reserve", "put"} => run.need = 0 /\ run.got = 0

BudgetInv ==
  /\ slots \in Nat /\ queue \in Seq(Nat) /\ run.need \in Nat /\ run.got \in Nat
  /\ Holding
  /\ SlotsConserved

\* A step that leaves the budget alone may move run where no reservation goes on.
LEMMA BudgetApart ==
  ASSUME BudgetInv, UNCHANGED <<queue, slots>>,
         \/ UNCHANGED run
         \/ /\ run.pc \notin {"reserve", "put"} /\ run'.pc \notin {"reserve", "put"}
            /\ run'.need = 0 /\ run'.got = 0
  PROVE  BudgetInv'
<1>1. Weight(queue') = Weight(queue)
  OBVIOUS
<1>2. run'.need \in Nat /\ run'.got \in Nat /\ run'.got = run.got /\ Holding'
  BY DEF BudgetInv, Holding
<1> QED BY <1>1, <1>2 DEF BudgetInv, SlotsConserved

\* Events leave the queue in a step, by a dispatcher or because close drains it: the slots that
\* they held are free again, and no others.
LEMMA BudgetFreed ==
  ASSUME BudgetInv, queue' \in Seq(Nat), slots' \in Nat,
         slots' + Weight(queue') = slots + Weight(queue), UNCHANGED run
  PROVE  BudgetInv'
<1>1. PICK w, v : w = Weight(queue) /\ v = Weight(queue')
  OBVIOUS
<1>2. w \in Nat /\ v \in Nat
  BY <1>1, WeightIsNat DEF BudgetInv
<1>3. slots' + v = slots + w /\ slots + w + run.got = Slots
  BY <1>1 DEF BudgetInv, SlotsConserved
<1>4. slots' + v + run.got = Slots
  BY <1>2, <1>3 DEF BudgetInv
<1> QED BY <1>1, <1>4 DEF BudgetInv, Holding, SlotsConserved

\* What is left of a queue weighs no more than the queue.
LEMMA WeightOfRest ==
  ASSUME NEW events \in Seq(Nat), NEW n \in Nat
  PROVE  n <= Len(events) => /\ SubSeq(events, n + 1, Len(events)) \in Seq(Nat)
                            /\ Weight(SubSeq(events, n + 1, Len(events))) <= Weight(events)
<1> DEFINE Rest(k) == SubSeq(events, k + 1, Len(events))
           T == {k \in Nat : k <= Len(events) =>
                   Rest(k) \in Seq(Nat) /\ Weight(Rest(k)) <= Weight(events)}
<1>0. Len(events) \in Nat /\ Weight(events) \in Nat
  BY WeightIsNat
<1>1. 0 \in T
  <2>1. Rest(0) = events
    OBVIOUS
  <2> HIDE DEF Rest
  <2> QED BY <1>0, <2>1
<1>2. ASSUME NEW k \in T PROVE k + 1 \in T
  <2> SUFFICES ASSUME k + 1 <= Len(events)
               PROVE  Rest(k + 1) \in Seq(Nat) /\ Weight(Rest(k + 1)) <= Weight(events)
    OBVIOUS
  <2>1. k \in Nat /\ k <= Len(events) /\ Rest(k) \in Seq(Nat) /\ Weight(Rest(k)) <= Weight(events)
    BY <1>0
  <2> HIDE DEF T
  <2>2. PICK r : r = Rest(k)
    OBVIOUS
  <2>3. Rest(k) # <<>> /\ Tail(Rest(k)) = Rest(k + 1)
    <3>1. /\ Len(Rest(k)) = Len(events) - k /\ Rest(k + 1) \in Seq(Nat)
          /\ Len(Rest(k + 1)) = Len(events) - (k + 1)
          /\ \A i \in 1..(Len(events) - k) : Rest(k)[i] = events[i + k]
          /\ \A i \in 1..(Len(events) - (k + 1)) : Rest(k + 1)[i] = events[i + (k + 1)]
      BY <1>0, <2>1
    <3>2. PICK l \in Nat : l = Len(events)
      BY <1>0
    <3>3. PICK q, s : q = Rest(k) /\ s = Rest(k + 1)
      OBVIOUS
    <3>4. /\ q \in Seq(Nat) /\ s \in Seq(Nat) /\ Len(q) = l - k /\ Len(s) = l - (k + 1)
          /\ \A i \in 1..(l - k) : q[i] = events[i + k]
          /\ \A i \in 1..(l - (k + 1)) : s[i] = events[i + (k + 1)]
          /\ k \in Nat /\ k + 1 <= l
      BY <2>1, <3>1, <3>2, <3>3
    <3> HIDE DEF Rest
    <3>5. q # <<>> /\ Tail(q) \in Seq(Nat) /\ Len(Tail(q)) = Len(s)
      BY <3>4
    <3>6. ASSUME NEW i \in 1..Len(s) PROVE Tail(q)[i] = s[i]
      <4>1. Tail(q)[i] = q[i + 1] /\ i + 1 \in 1..(l - k) /\ (i + 1) + k = i + (k + 1)
        BY <3>4, <3>5
      <4> QED BY <3>4, <4>1
    <3>7. Tail(q) = s
      BY <3>4, <3>5, <3>6, SeqEqual
    <3> QED BY <3>3, <3>5, <3>7
  <2>4. r \in Seq(Nat) /\ r # <<>> /\ Tail(r) = Rest(k + 1) /\ Weight(r) <= Weight(events)
    BY <2>1, <2>2, <2>3
  <2> HIDE DEF Rest
  <2>5. /\ Rest(k + 1) \in Seq(Nat) /\ Head(r) \in Nat /\ Weight(Rest(k + 1)) \in Nat
        /\ Weight(r) = Head(r) + Weight(Rest(k + 1))
    BY <2>4, WeightOfTail
  <2>6. PICK h, w, v, u : h = Head(r) /\ w = Weight(Rest(k + 1)) /\ v = Weight(events) /\ u = Weight(r)
    OBVIOUS
  <2>7. h \in Nat /\ w \in Nat /\ v \in Nat /\ u = h + w /\ u <= v
    BY <1>0, <2>4, <2>5, <2>6
  <2>8. w <= v
    BY <2>7
  <2> QED BY <2>5, <2>6, <2>8
<1>3. T = Nat
  <2>1. T \subseteq Nat
    OBVIOUS
  <2> HIDE DEF T
  <2> QED BY <1>1, <1>2, <2>1, Counting
<1>4. n \in T
  <2> HIDE DEF T
  <2> QED BY <1>3
<1> QED BY <1>4

\* The queue is drained, or as much of it as task_done lets it.
LEMMA DrainKeepsBudget ==
  ASSUME BudgetInv, unfinished \in Nat, Drain, UNCHANGED run
  PROVE  BudgetInv'
<1>1. queue' \in Seq(Nat) /\ Weight(queue') \in Nat /\ Weight(queue') <= Weight(queue)
  <2>0. queue \in Seq(Nat) /\ Weight(queue) \in Nat
    BY WeightIsNat DEF BudgetInv
  <2>1. CASE DrainRaises
    <3>1. PICK n \in Nat : n = unfinished + 1 /\ n <= Len(queue)
      BY <2>0, <2>1 DEF DrainRaises
    <3>2. queue' = SubSeq(queue, n + 1, Len(queue))
      BY <2>1, <3>1 DEF Drain
    <3> QED BY <2>0, <3>1, <3>2, WeightOfRest, WeightIsNat
  <2>2. CASE ~DrainRaises
    <3>1. queue' = <<>> /\ queue' \in Seq(Nat)
      BY <2>2 DEF Drain
    <3> QED BY <2>0, <3>1, WeightOfNone
  <2> QED BY <2>1, <2>2
<1>2. PICK w, v : w = Weight(queue) /\ v = Weight(queue')
  OBVIOUS
<1>3. w \in Nat /\ v \in Nat /\ v <= w /\ slots \in Nat
  BY <1>1, <1>2, WeightIsNat DEF BudgetInv
<1>4. slots' = slots + (w - v)
  BY <1>2 DEF Drain
<1>5. slots' \in Nat /\ slots' + v = slots + w
  BY <1>3, <1>4
<1> QED BY <1>1, <1>2, <1>5, BudgetFreed

\* run takes slots for what it reads, gives them back because the account is closed, or hands
\* them over to the queue.
LEMMA ReserveKeepsBudget ==
  ASSUME slots \in Nat, queue \in Seq(Nat), NEW r, DOMAIN r = {"pc", "conn", "need", "got"},
         r.need \in Nat, r.got \in Nat, r.got <= r.need, slots + Weight(queue) + r.got = Slots,
         Reserve(r)
  PROVE  BudgetInv'
<1> DEFINE more == IF r.need - r.got <= slots THEN r.need - r.got ELSE slots
<1>1. PICK m, w : m = more /\ w = Weight(queue)
  OBVIOUS
<1>2. m \in Nat /\ m <= slots /\ r.got + m <= r.need /\ w \in Nat
  BY <1>1, WeightIsNat
<1>3. slots + w + r.got = Slots
  BY <1>1
<1>4. CASE /\ run' = [r EXCEPT !.pc = "consume", !.need = 0, !.got = 0]
           /\ slots' = slots + r.got /\ UNCHANGED queue
  <2>1. run'.pc = "consume" /\ run'.need = 0 /\ run'.got = 0 /\ Weight(queue') = w
    BY <1>1, <1>4
  <2> HIDE DEF more
  <2> QED BY <1>2, <1>3, <1>4, <2>1 DEF BudgetInv, Holding, SlotsConserved
<1>5. CASE /\ run' = [r EXCEPT !.pc = "consume", !.need = 0, !.got = 0]
           /\ slots' = slots - m /\ queue' = Append(queue, r.need) /\ r.got + m = r.need
  <2>1. run'.pc = "consume" /\ run'.need = 0 /\ run'.got = 0
    BY <1>5
  <2>2. queue' \in Seq(Nat) /\ Weight(queue') = w + r.need
    BY <1>1, <1>5, WeightOfAppend
  <2> HIDE DEF more
  <2> QED BY <1>2, <1>3, <1>5, <2>1, <2>2 DEF BudgetInv, Holding, SlotsConserved
<1>6. CASE /\ run' = [r EXCEPT !.pc = IF r.got + m = r.need THEN "put" ELSE "reserve",
                               !.got = @ + m]
           /\ slots' = slots - m /\ UNCHANGED queue
  <2>1. /\ run'.pc = IF r.got + m = r.need THEN "put" ELSE "reserve"
        /\ run'.need = r.need /\ run'.got = r.got + m /\ Weight(queue') = w
    BY <1>1, <1>6
  <2> HIDE DEF more
  <2> QED BY <1>2, <1>3, <1>6, <2>1 DEF BudgetInv, Holding, SlotsConserved
<1> QED BY <1>1, <1>4, <1>5, <1>6 DEF Reserve

LEMMA LostKeepsBudget ==
  ASSUME BudgetInv, NEW again, Lost(again), UNCHANGED <<queue, slots>>,
         run.pc \notin {"reserve", "put"}
  PROVE  BudgetInv'
<1>1. \/ run' = NoRun
      \/ run' = [NoRun EXCEPT !.pc = IF again THEN "backoff" ELSE "lastBackoff"]
  BY DEF Lost, RunEnds
<1>2. run'.pc \notin {"reserve", "put"} /\ run'.need = 0 /\ run'.got = 0
  BY <1>1 DEF NoRun
<1> QED BY <1>2, BudgetApart

\* A task that is cancelled gives back what its reservation has got.
LEMMA RunCancelledKeepsBudget ==
  ASSUME Shapes, BudgetInv, RunCancelled
  PROVE  BudgetInv'
<1>1. CASE /\ run' = [run EXCEPT !.pc = "lastExit", !.need = 0, !.got = 0]
           /\ slots' = slots + GivenBack
  <2>1. run'.pc = "lastExit" /\ run'.need = 0 /\ run'.got = 0 /\ UNCHANGED queue
    BY <1>1 DEF Shapes, RunCancelled
  <2>2. Weight(queue') = Weight(queue) /\ Weight(queue) \in Nat
    BY <2>1, WeightIsNat DEF BudgetInv
  <2>3. slots' = slots + run.got
    BY <1>1 DEF GivenBack
  <2> QED BY <2>1, <2>2, <2>3 DEF BudgetInv, Holding, SlotsConserved
<1>2. CASE run.pc \in {"connect", "exit", "lastExit"} /\ UNCHANGED slots /\ Lost(FALSE)
  BY <1>2, LostKeepsBudget DEF RunCancelled
<1>3. CASE run.pc \in {"backoff", "lastBackoff"} /\ UNCHANGED slots /\ RunEnds
  BY <1>3, BudgetApart DEF RunCancelled, RunEnds, NoRun
<1> QED BY <1>1, <1>2, <1>3 DEF RunCancelled

LEMMA RunStepKeepsBudget ==
  ASSUME Shapes, BudgetInv, RunStep \/ RunLoses
  PROVE  BudgetInv'
<1>0. DOMAIN run = {"pc", "conn", "need", "got"}
  BY DEF Shapes
<1>1. ASSUME UNCHANGED <<queue, slots>>, run.pc \notin {"reserve", "put"},
             NEW pc, pc \notin {"reserve", "put"}, NEW conn,
             run' = [run EXCEPT !.pc = pc, !.conn = conn]
      PROVE  BudgetInv'
  <2>1. run'.pc = pc /\ run'.need = run.need /\ run'.got = run.got
    BY <1>0, <1>1
  <2>2. run.need = 0 /\ run.got = 0
    BY <1>1 DEF BudgetInv, Holding
  <2> QED BY <1>1, <2>1, <2>2, BudgetApart
<1>2. CASE RunConnects
  BY <1>1, <1>2 DEF RunConnects, eventVars, queueVars
<1>3. CASE RunPublishes
  <2>1. ASSUME NEW pc, run' = [run EXCEPT !.pc = pc]
        PROVE  run' = [run EXCEPT !.pc = pc, !.conn = run.conn]
    BY <1>0, <2>1
  <2> QED BY <1>1, <1>3, <2>1 DEF RunPublishes, eventVars, queueVars
<1>4. CASE RunLoses
  <2>1. run' = [run EXCEPT !.pc = "exit", !.conn = run.conn]
    BY <1>0, <1>4 DEF RunLoses
  <2> QED BY <1>1, <1>4, <2>1 DEF RunLoses, eventVars, queueVars
<1>5. CASE RunConnectFails
  BY <1>5, LostKeepsBudget DEF RunConnectFails, eventVars, queueVars
<1>6. CASE RunExits
  BY <1>6, LostKeepsBudget DEF RunExits, Leaving, eventVars, queueVars
<1>7. CASE RunRetries
  <2>1. run' = NoRun \/ run' = [NoRun EXCEPT !.pc = "connect"]
    BY <1>7 DEF RunRetries, RunEnds
  <2>2. run'.pc \notin {"reserve", "put"} /\ run'.need = 0 /\ run'.got = 0
    BY <2>1 DEF NoRun
  <2> QED BY <1>7, <2>2, BudgetApart DEF RunRetries, eventVars, queueVars
<1>8. CASE RunReserves
  BY <1>0, <1>8, ReserveKeepsBudget DEF RunReserves, BudgetInv, Holding, SlotsConserved
<1>9. CASE RunPuts
  <2>1. run.got = run.need /\ queue' = Append(queue, run.need) /\ UNCHANGED slots
    BY <1>9 DEF RunPuts, BudgetInv, Holding
  <2>2. run'.pc = "consume" /\ run'.need = 0 /\ run'.got = 0
    BY <1>0, <1>9 DEF RunPuts
  <2>3. queue' \in Seq(Nat) /\ Weight(queue') = Weight(queue) + run.need /\ Weight(queue) \in Nat
    BY <2>1, WeightOfAppend, WeightIsNat DEF BudgetInv
  <2> QED BY <2>1, <2>2, <2>3 DEF BudgetInv, Holding, SlotsConserved
<1> QED BY <1>2, <1>3, <1>4, <1>5, <1>6, <1>7, <1>8, <1>9, RunCancelledKeepsBudget DEF RunStep

LEMMA RunReceivesKeepsBudget ==
  ASSUME Shapes, BudgetInv, NEW weight \in Weights, RunReceives(weight)
  PROVE  BudgetInv'
<1>1. CASE UNCHANGED <<run, queueVars>>
  BY <1>1, BudgetApart DEF queueVars
<1>2. CASE Reserve([run EXCEPT !.need = weight])
  <2>1. PICK r : r = [run EXCEPT !.need = weight]
    OBVIOUS
  <2>2. run.got = 0 /\ weight \in Nat
    BY AccountAssumption DEF RunReceives, BudgetInv, Holding
  <2>3. DOMAIN r = {"pc", "conn", "need", "got"} /\ r.need = weight /\ r.got = 0
    BY <2>1, <2>2 DEF Shapes
  <2>4. slots + Weight(queue) + r.got = Slots /\ slots \in Nat /\ queue \in Seq(Nat)
    BY <2>2, <2>3 DEF BudgetInv, SlotsConserved
  <2>5. r.got <= r.need /\ r.need \in Nat /\ r.got \in Nat
    BY <2>2, <2>3
  <2>6. Reserve(r)
    BY <1>2, <2>1
  <2> QED BY <2>3, <2>4, <2>5, <2>6, ReserveKeepsBudget
<1> QED BY <1>1, <1>2 DEF RunReceives

\* A dispatcher takes the next event.
LEMMA TakesKeepsBudget ==
  ASSUME BudgetInv, Takes, UNCHANGED run
  PROVE  BudgetInv'
<1>1. queue # <<>> /\ queue' = Tail(queue) /\ slots' = slots + Head(queue)
  BY DEF Takes
<1>2. /\ Tail(queue) \in Seq(Nat) /\ Head(queue) \in Nat /\ Weight(Tail(queue)) \in Nat
      /\ Weight(queue) = Head(queue) + Weight(Tail(queue))
  BY <1>1, WeightOfTail DEF BudgetInv
<1>3. PICK h, w : h = Head(queue) /\ w = Weight(Tail(queue))
  OBVIOUS
<1>4. /\ queue' \in Seq(Nat) /\ Weight(queue') = w /\ slots' = slots + h /\ slots \in Nat
      /\ h \in Nat /\ w \in Nat /\ Weight(queue) = h + w
  BY <1>1, <1>2, <1>3 DEF BudgetInv
<1>5. slots' \in Nat /\ slots' + Weight(queue') = slots + Weight(queue)
  BY <1>4
<1> QED BY <1>4, <1>5, BudgetFreed

LEMMA DispKeepsBudget ==
  ASSUME BudgetInv, DispStep
  PROVE  BudgetInv'
<1>1. UNCHANGED run /\ (Takes \/ UNCHANGED <<queue, slots>>)
  BY DEF DispStep, DispGets, DispReturns, DispCancelled, StrayGets, StrayReturns, DispOthers,
         TakesNext
<1> QED BY <1>1, TakesKeepsBudget, BudgetApart

LEMMA CloseKeepsBudget ==
  ASSUME BudgetInv, unfinished \in Nat, Close \/ CloseStep \/ CloseCancelled
  PROVE  BudgetInv'
<1>0. UNCHANGED run
  BY DEF Close, CloseStep, CloseGate, CloseGateLate, CloseTasksEnded, CloseTasksLate,
         CloseTransportLate, CloseCancelled
<1>1. CASE UNCHANGED <<queue, slots>>
  BY <1>0, <1>1, BudgetApart
<1>2. CASE Drain
  BY <1>0, <1>2, DrainKeepsBudget
<1>3. ASSUME NEW f, NEW left, NEW before, NEW failed, CloseGoesOn(f, left, before, failed)
      PROVE  Drain
  BY <1>3 DEF CloseGoesOn
<1>4. ASSUME NEW late, NEW before, NEW failed, CloseTakes(late, before, failed)
      PROVE  UNCHANGED <<queue, slots>> \/ Drain
  BY <1>3, <1>4 DEF CloseTakes, queueVars
<1>5. CASE Close
  BY <1>1, <1>2, <1>4, <1>5 DEF Close, queueVars
<1>6. CASE CloseGate \/ CloseGateLate
  BY <1>1, <1>2, <1>4, <1>6 DEF CloseGate, CloseGateLate
<1>7. CASE CloseTasksEnded \/ CloseTasksLate
  BY <1>2, <1>3, <1>7 DEF CloseTasksEnded, CloseTasksLate
<1>8. CASE CloseTransportLate \/ CloseCancelled
  BY <1>1, <1>8 DEF CloseTransportLate, CloseCancelled, eventVars, queueVars
<1> QED BY <1>5, <1>6, <1>7, <1>8 DEF CloseStep

LEMMA NextKeepsBudget ==
  ASSUME Shapes, BudgetInv, unfinished \in Nat, [Next]_vars
  PROVE  BudgetInv'
<1>1. CASE Start
  <2>1. queue' = <<>> /\ slots' = Slots /\ run'.pc = "connect" /\ run'.need = 0 /\ run'.got = 0
    BY <1>1 DEF Start, NoRun
  <2>2. queue' \in Seq(Nat) /\ Weight(queue') = 0 /\ Slots \in Nat
    BY <2>1, WeightOfNone, AccountAssumption
  <2> QED BY <2>1, <2>2 DEF BudgetInv, Holding, SlotsConserved
<1>2. CASE \E c \in Callers : RunAnswers(c) \/ Call(c) \/ CallStep(c)
  BY <1>2, BudgetApart DEF RunAnswers, Call, CallStep, CallSends, CallSent, CallReturns,
     CallFails, CallTimeout, CallCancelled, Others, eventVars, queueVars
<1>3. CASE \/ \E result \in {"ok", "error", "cancelled"} : TransportCloseEnds(result)
           \/ DeferredClose \/ DeferredLate
  BY <1>3, BudgetApart DEF TransportCloseEnds, DeferredClose, DeferredLate, eventVars, queueVars
<1>4. CASE UNCHANGED vars
  BY <1>4, BudgetApart DEF vars
<1>5. CASE RunStep \/ RunLoses \/ \E weight \in Weights : RunReceives(weight)
  BY <1>5, RunStepKeepsBudget, RunReceivesKeepsBudget
<1>6. CASE DispStep \/ Close \/ CloseStep \/ CloseCancelled
  BY <1>6, DispKeepsBudget, CloseKeepsBudget
<1> QED BY <1>1, <1>2, <1>3, <1>4, <1>5, <1>6 DEF Next, DispStep

\* The count of unfinished events never goes below zero: task_done raises first, and a drain
\* stops there.
LEMMA UnfinishedStays ==
  ASSUME BudgetInv, unfinished \in Nat, [Next]_vars
  PROVE  unfinished' \in Nat
<1>0. Len(queue) \in Nat
  BY DEF BudgetInv
<1>1. CASE Drain
  BY <1>0, <1>1 DEF Drain, DrainRaises
<1>2. CASE UNCHANGED unfinished
  BY <1>2
<1>3. CASE Start
  BY <1>3 DEF Start
<1>4. CASE RunStep \/ RunLoses \/ \E weight \in Weights : RunReceives(weight)
  <2>1. ASSUME NEW r, Reserve(r) PROVE unfinished' \in {unfinished, unfinished + 1}
    BY <2>1 DEF Reserve
  <2>2. unfinished' \in {unfinished, unfinished + 1}
    BY <1>4, <2>1 DEF RunStep, RunConnects, RunConnectFails, RunPublishes, RunReserves, RunPuts,
       RunExits, RunRetries, RunCancelled, RunLoses, RunReceives, eventVars, queueVars
  <2> QED BY <2>2
<1>5. CASE DispStep
  <2>1. TaskDone \/ UNCHANGED unfinished
    BY <1>5 DEF DispStep, DispGets, DispReturns, DispCancelled, StrayGets, StrayReturns
  <2> QED BY <2>1 DEF TaskDone, Overdone
<1>6. CASE \E c \in Callers : RunAnswers(c) \/ Call(c) \/ CallStep(c)
  BY <1>6 DEF RunAnswers, Call, CallStep, CallSends, CallSent, CallReturns, CallFails,
     CallTimeout, CallCancelled, Others, eventVars, queueVars
<1>7. CASE \/ \E result \in {"ok", "error", "cancelled"} : TransportCloseEnds(result)
           \/ DeferredClose \/ DeferredLate \/ CloseCancelled \/ CloseTransportLate
  BY <1>7 DEF TransportCloseEnds, DeferredClose, DeferredLate, CloseCancelled,
     CloseTransportLate, eventVars, queueVars
<1>8. CASE Close \/ CloseGate \/ CloseGateLate
  BY <1>1, <1>2, <1>8 DEF Close, CloseGate, CloseGateLate, CloseTakes, CloseGoesOn, queueVars
<1>9. CASE CloseTasksEnded \/ CloseTasksLate
  BY <1>1, <1>9 DEF CloseTasksEnded, CloseTasksLate, CloseGoesOn
<1>10. CASE UNCHANGED vars
  BY <1>10 DEF vars
<1> QED BY <1>3, <1>4, <1>5, <1>6, <1>7, <1>8, <1>9, <1>10 DEF Next, DispStep, CloseStep

\* The slots of the byte budget are free, or held by a queued event or by the reservation of
\* the event just received, for any sizes of the queue, of the budget and of events: whether an
\* event is read, waits for slots or for room, is dispatched, drained by close or given up by a
\* cancelled task, no slot is lost and none is given back twice.
THEOREM SlotsAreKept == Spec => []SlotsConserved
<1> DEFINE Inv == BudgetInv /\ unfinished \in Nat
<1>1. Init => Inv
  <2> SUFFICES ASSUME Init PROVE Inv
    OBVIOUS
  <2>1. /\ queue = <<>> /\ unfinished = 0 /\ slots = Slots /\ Slots \in Nat
        /\ run.pc = "none" /\ run.need = 0 /\ run.got = 0
    BY AccountAssumption DEF Init, NoRun
  <2>2. queue \in Seq(Nat) /\ Weight(queue) = 0
    BY <2>1, WeightOfNone
  <2> QED BY <2>1, <2>2 DEF BudgetInv, Holding, SlotsConserved
<1>2. AccountInv /\ Inv /\ [Next]_vars => Inv'
  BY NextKeepsBudget, UnfinishedStays DEF AccountInv
<1>3. Inv => SlotsConserved
  BY DEF BudgetInv
<1> QED BY <1>1, <1>2, <1>3, Invariance, PTL DEF Spec
=============================================================================
