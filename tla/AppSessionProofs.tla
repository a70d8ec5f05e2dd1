-------------------------- MODULE AppSessionProofs --------------------------
(***************************************************************************)
(* Proofs about the application and what drives it, for any number of      *)
(* callers of stop and any bounds on their calls.                          *)
(***************************************************************************)
EXTENDS AppSession, TLAPS

-----------------------------------------------------------------------------
(* The invariant. *)

Frames ==
  [at : Parts \cup {"none"}, heard : {"none", "ok", "error"}, eventsClean : BOOLEAN,
   failed : BOOLEAN]

Types ==
  /\ state \in {"created", "starting", "ready", "failed", "stopping", "stopped"}
  /\ accepting \in BOOLEAN /\ onebot \in BOOLEAN /\ cordis \in BOOLEAN /\ services \in BOOLEAN
  /\ logging \in {"off", "on", "shut"} /\ stray \in BOOLEAN
  /\ live \subseteq Parts /\ closing \subseteq Parts
  /\ startOp \in {"none", "created", "activating", "connecting", "cleanup", "done"}
  /\ stopOp \in {"none", "created", "cleanup", "done"}
  /\ cleanup \in [Ops -> Frames]

NothingUp ==
  /\ live = {} /\ ~onebot /\ ~cordis /\ ~services /\ ~accepting /\ ~stray /\ logging = "off"
  /\ closing = {}

NoCleanups == \A o \in Ops : cleanup[o].at = "none"

\* Startup has the application for itself until it ends or fails, and what it has brought up
\* so far is known.
StartupAlone ==
  /\ state \in {"created", "starting"} =>
       NoCleanups /\ stopOp = "none" /\ closing = {} /\ ~accepting /\ logging # "shut"
  /\ startOp \in {"created", "activating", "connecting"} => state = "starting"
  /\ state = "created" => startOp = "none" /\ NothingUp
  /\ startOp = "created" => NothingUp
  /\ state = "starting" /\ startOp \in {"none", "done"} => NothingUp
  /\ startOp \in {"activating", "connecting"} => {"EventBus", "Cordis"} \subseteq live

\* The two tasks that clean up, and when.
Cleaners ==
  /\ cleanup["start"].at # "none" <=> startOp = "cleanup"
  /\ cleanup["stop"].at # "none" <=> stopOp = "cleanup"
  /\ stopOp \in {"created", "cleanup"} => state = "stopping"
  /\ startOp = "cleanup" => state \notin {"created", "starting"}

\* Events are accepted only before the first cleanup.
AcceptingAlone == accepting => NoCleanups /\ closing = {}

\* What the cleanup f of task o knows of the parts it is done with, and of the one it waits for.
FrameOK(o, f) ==
  f.at # "none" =>
    /\ f.heard = "ok" => f.at \notin live
    /\ f.at = "EventBus" /\ f.heard = "none" => "EventBus" \in closing
    /\ f.at = "EventBus" => f.heard \in {"none", "ok"}
    /\ f.at \in {"EventBus", "Cordis"} /\ ~f.failed => ~onebot
    /\ f.eventsClean => "EventBus" \notin live /\ ~stray
    /\ f.at = "Cordis" => f.eventsClean

Dropped == logging = "shut" => ~onebot /\ ~cordis

Promises == StoppedMeansClean /\ CloseOrder /\ NothingForgotten

AppInv ==
  /\ Types /\ StartupAlone /\ Cleaners /\ AcceptingAlone
  /\ \A o \in Ops : FrameOK(o, cleanup[o])
  /\ Dropped /\ Promises

-----------------------------------------------------------------------------
(* The cleanup. *)

LEMMA AwaitEffect ==
  ASSUME cleanup \in [Ops -> Frames], NEW o \in Ops, NEW part \in Parts, NEW f \in Frames,
         Await(o, part, f)
  PROVE  /\ cleanup' \in [Ops -> Frames]
         /\ cleanup'[o].at = part /\ cleanup'[o].heard = "none"
         /\ cleanup'[o].eventsClean = f.eventsClean /\ cleanup'[o].failed = f.failed
         /\ \A q \in Ops : q # o => cleanup'[q] = cleanup[q]
         /\ closing' = closing \cup {part}
<1>1. PICK g : g = [f EXCEPT !.at = part, !.heard = "none"]
  OBVIOUS
<1>2. /\ g \in Frames /\ g.at = part /\ g.heard = "none"
      /\ g.eventsClean = f.eventsClean /\ g.failed = f.failed
  BY <1>1 DEF Frames
<1> QED BY <1>1, <1>2 DEF Await

LEMMA FinishEffect ==
  ASSUME cleanup \in [Ops -> Frames], NEW o \in Ops, NEW f, Finish(o, f)
  PROVE  /\ cleanup' \in [Ops -> Frames]
         /\ cleanup'[o].at = "none"
         /\ \A q \in Ops : q # o => cleanup'[q] = cleanup[q]
<1>1. NoCleanup \in Frames /\ NoCleanup.at = "none"
  BY DEF NoCleanup, Frames
<1> QED BY <1>1 DEF Finish

\* A cleanup begins.
LEMMA BeginEffect ==
  ASSUME Types, NEW o \in Ops, BeginCleanup(o)
  PROVE  /\ accepting' = FALSE /\ cleanup' \in [Ops -> Frames]
         /\ cleanup'[o].at \in {"OneBot", "EventBus"} /\ cleanup'[o].heard = "none"
         /\ cleanup'[o].at = "EventBus" <=> ~onebot
         /\ ~cleanup'[o].eventsClean
         /\ \A q \in Ops : q # o => cleanup'[q] = cleanup[q]
         /\ closing' = closing \cup {cleanup'[o].at}
<1>1. NoCleanup \in Frames /\ ~NoCleanup.eventsClean
  BY DEF NoCleanup, Frames
<1>2. PICK part \in Parts : part = IF onebot THEN "OneBot" ELSE "EventBus"
  BY DEF Parts
<1>3. Await(o, part, NoCleanup) /\ accepting' = FALSE
  BY <1>2 DEF BeginCleanup, RefuseEvents
<1>4. /\ cleanup' \in [Ops -> Frames]
      /\ cleanup'[o].at = part /\ cleanup'[o].heard = "none"
      /\ cleanup'[o].eventsClean = NoCleanup.eventsClean
      /\ \A q \in Ops : q # o => cleanup'[q] = cleanup[q]
      /\ closing' = closing \cup {part}
  BY <1>1, <1>3, AwaitEffect DEF Types
<1> QED BY <1>1, <1>2, <1>3, <1>4

\* Parts only go while cleanups run, so that what a cleanup knows of them stays true.
LEMMA FrameStays ==
  ASSUME NEW o, NEW f, FrameOK(o, f), live' \subseteq live, closing \subseteq closing',
         onebot' => onebot, stray' => stray \/ "EventBus" \in live
  PROVE  FrameOK(o, f)'
BY DEF FrameOK

LEMMA OneBotIsGood ==
  ASSUME AppInv, NEW o \in Ops, NEW result \in {"ok", "error", "late"},
         cleanup[o].at = "OneBot", AfterOneBot(o, cleanup[o], result),
         UNCHANGED <<accepting, live, stray>>,
         result = "ok" => cleanup[o].heard = "ok"
  PROVE  AppInv'
<1>1. PICK f \in Frames : f = cleanup[o]
  BY DEF AppInv, Types
<1>2. PICK g : g = [f EXCEPT !.failed = @ \/ result # "ok"]
  OBVIOUS
<1>3. g \in Frames /\ g.eventsClean = f.eventsClean /\ (g.failed <=> f.failed \/ result # "ok")
  BY <1>1, <1>2 DEF Frames
<1>4. Await(o, "EventBus", g)
  BY <1>1, <1>2 DEF AfterOneBot
<1>5. /\ cleanup' \in [Ops -> Frames]
      /\ cleanup'[o].at = "EventBus" /\ cleanup'[o].heard = "none"
      /\ cleanup'[o].eventsClean = g.eventsClean /\ cleanup'[o].failed = g.failed
      /\ \A q \in Ops : q # o => cleanup'[q] = cleanup[q]
      /\ closing' = closing \cup {"EventBus"}
  BY <1>3, <1>4, AwaitEffect DEF AppInv, Types, Parts
<1>6. /\ UNCHANGED <<state, cordis, services, logging, startOp, stopOp, accepting, live, stray>>
      /\ onebot' = (onebot /\ result # "ok")
  BY DEF AfterOneBot
<1>7. state \notin {"created", "starting"} /\ ~accepting
  BY DEF AppInv, StartupAlone, NoCleanups, AcceptingAlone
<1>8. FrameOK(o, cleanup[o]) /\ ("OneBot" \in live => onebot')
  BY <1>6 DEF AppInv, FrameOK, Promises, NothingForgotten, Types
<1>9. Types'
  BY <1>5, <1>6 DEF AppInv, Types, Parts
<1>10. StartupAlone' /\ AcceptingAlone'
  BY <1>5, <1>6, <1>7 DEF AppInv, StartupAlone, AcceptingAlone, NothingUp
<1>11. Cleaners'
  BY <1>5, <1>6 DEF AppInv, Cleaners, Ops
<1>12. ASSUME NEW q \in Ops PROVE FrameOK(q, cleanup[q])'
  <2>1. CASE q = o
    <3>1. ~g.failed => ~onebot'
      BY <1>3, <1>6
    <3>2. g.eventsClean => "EventBus" \notin live /\ ~stray
      BY <1>1, <1>3, <1>8 DEF FrameOK
    <3> QED BY <1>5, <1>6, <2>1, <3>1, <3>2 DEF FrameOK
  <2>2. CASE q # o
    <3>1. PICK h : h = cleanup[q]
      OBVIOUS
    <3>2. FrameOK(q, h)'
      BY <1>5, <1>6, <3>1, FrameStays DEF AppInv, Types
    <3> QED BY <1>5, <2>2, <3>1, <3>2
  <2> QED BY <2>1, <2>2
<1>13. Dropped' /\ Promises'
  BY <1>5, <1>6, <1>8 DEF AppInv, Types, Dropped, Promises, StoppedMeansClean, CloseOrder, NothingForgotten, Parts
<1> QED BY <1>9, <1>10, <1>11, <1>12, <1>13 DEF AppInv

LEMMA FinishIsGood ==
  ASSUME AppInv, NEW o \in Ops, NEW f \in Frames, cleanup[o].at # "none", Finish(o, f),
         UNCHANGED <<accepting, live, stray, onebot>>, cordis' \in BOOLEAN, cordis' => cordis,
         "Cordis" \in live => cordis',
         f.eventsClean => "EventBus" \notin live /\ ~stray,
         ~f.failed => /\ ~onebot /\ ~cordis' /\ ~stray
                      /\ "EventBus" \in live => "EventBus" \in closing
  PROVE  AppInv'
<1>1. /\ cleanup' \in [Ops -> Frames] /\ cleanup'[o].at = "none"
      /\ \A q \in Ops : q # o => cleanup'[q] = cleanup[q]
  BY FinishEffect DEF AppInv, Types
<1>2. /\ services' = (services /\ cordis') /\ closing' = closing
      /\ logging' = IF logging = "on" /\ AllQuiet(f) THEN "shut" ELSE logging
      /\ o = "start" => startOp' = "done" /\ UNCHANGED <<state, stopOp>>
      /\ o = "stop" => /\ stopOp' = "done" /\ UNCHANGED startOp
                       /\ state' = IF f.failed THEN "failed" ELSE "stopped"
  BY DEF Finish, RemoveServices
<1>3. state \notin {"created", "starting"} /\ ~accepting
      /\ (o = "start" => startOp = "cleanup") /\ (o = "stop" => stopOp = "cleanup")
      /\ state' \notin {"created", "starting"} /\ o \in {"start", "stop"}
  BY <1>2 DEF AppInv, StartupAlone, NoCleanups, AcceptingAlone, Cleaners, Ops
<1>4. startOp \notin {"created", "activating", "connecting"}
  BY <1>3 DEF AppInv, StartupAlone
<1>5. Types'
  BY <1>1, <1>2, <1>3 DEF AppInv, Types
<1>6. StartupAlone' /\ AcceptingAlone'
  BY <1>2, <1>3, <1>4 DEF AppInv, StartupAlone, AcceptingAlone
<1>7. Cleaners'
  BY <1>1, <1>2, <1>3 DEF AppInv, Cleaners, Ops
<1>8. ASSUME NEW q \in Ops PROVE FrameOK(q, cleanup[q])'
  <2>1. CASE q = o
    BY <1>1, <2>1 DEF FrameOK
  <2>2. CASE q # o
    <3>1. PICK h : h = cleanup[q]
      OBVIOUS
    <3>2. FrameOK(q, h)'
      BY <1>2, <3>1, FrameStays DEF AppInv
    <3> QED BY <1>1, <2>2, <3>1, <3>2
  <2> QED BY <2>1, <2>2
<1>9. NothingForgotten'
  BY <1>2, <1>3 DEF AppInv, Types, Promises, NothingForgotten
<1>10. StoppedMeansClean'
  BY <1>2, <1>3, <1>9 DEF AppInv, Types, Parts, Promises, NothingForgotten, StoppedMeansClean
<1>11. Dropped' /\ CloseOrder'
  BY <1>2, <1>9 DEF AppInv, Types, Parts, AllQuiet, Dropped, Promises, NothingForgotten, CloseOrder
<1> QED BY <1>5, <1>6, <1>7, <1>8, <1>9, <1>10, <1>11 DEF AppInv, Promises

LEMMA EventBusIsGood ==
  ASSUME AppInv, NEW o \in Ops, NEW result \in {"ok", "error", "late"},
         cleanup[o].at = "EventBus", AfterEventBus(o, cleanup[o], result),
         UNCHANGED <<accepting, live, stray>>,
         result = "ok" => cleanup[o].heard = "ok",
         result = "late" => cleanup[o].heard = "none"
  PROVE  AppInv'
<1>1. PICK f \in Frames : f = cleanup[o]
  BY DEF AppInv, Types
<1>2. PICK g : g = [f EXCEPT !.eventsClean = EventsClean(result),
                             !.failed = @ \/ stray \/ result = "error"]
  OBVIOUS
<1>3. /\ g \in Frames /\ (g.eventsClean <=> EventsClean(result))
      /\ (g.failed <=> f.failed \/ stray \/ result = "error")
  BY <1>1, <1>2 DEF Frames, AppInv, Types, EventsClean
<1>4. FrameOK(o, f)
  BY <1>1 DEF AppInv
<1>5. EventsClean(result) => "EventBus" \notin live /\ ~stray
  BY <1>1, <1>4 DEF EventsClean, FrameOK
<1>6. CASE cordis /\ EventsClean(result)
  <2>1. /\ Await(o, "Cordis", g)
        /\ UNCHANGED <<state, services, logging, startOp, stopOp, onebot, cordis>>
    BY <1>1, <1>2, <1>6 DEF AfterEventBus
  <2>2. /\ cleanup' \in [Ops -> Frames]
        /\ cleanup'[o].at = "Cordis" /\ cleanup'[o].heard = "none"
        /\ cleanup'[o].eventsClean = g.eventsClean /\ cleanup'[o].failed = g.failed
        /\ \A q \in Ops : q # o => cleanup'[q] = cleanup[q]
        /\ closing' = closing \cup {"Cordis"}
    BY <1>3, <2>1, AwaitEffect DEF AppInv, Types, Parts
  <2>3. state \notin {"created", "starting"} /\ ~accepting
    BY DEF AppInv, StartupAlone, NoCleanups, AcceptingAlone
  <2>4. Types'
    BY <2>1, <2>2 DEF AppInv, Types, Parts
  <2>5. StartupAlone' /\ AcceptingAlone'
    BY <2>1, <2>2, <2>3 DEF AppInv, StartupAlone, AcceptingAlone, NothingUp
  <2>6. Cleaners'
    BY <2>1, <2>2 DEF AppInv, Cleaners, Ops
  <2>7. ASSUME NEW q \in Ops PROVE FrameOK(q, cleanup[q])'
    <3>1. CASE q = o
      BY <1>1, <1>3, <1>4, <1>5, <1>6, <2>1, <2>2, <3>1 DEF FrameOK
    <3>2. CASE q # o
      <4>1. PICK h : h = cleanup[q]
        OBVIOUS
      <4>2. FrameOK(q, h)'
        BY <2>1, <2>2, <4>1, FrameStays DEF AppInv
      <4> QED BY <2>2, <3>2, <4>1, <4>2
    <3> QED BY <3>1, <3>2
  <2>8. Dropped' /\ Promises'
    BY <1>5, <1>6, <2>1, <2>2, <2>3
       DEF AppInv, Types, Dropped, Promises, StoppedMeansClean, CloseOrder, NothingForgotten, Parts
  <2> QED BY <2>4, <2>5, <2>6, <2>7, <2>8 DEF AppInv
<1>7. CASE ~(cordis /\ EventsClean(result))
  <2>1. PICK h : h = [g EXCEPT !.failed = @ \/ cordis]
    OBVIOUS
  <2>2. /\ h \in Frames /\ h.eventsClean = g.eventsClean
        /\ (h.failed <=> g.failed \/ cordis)
    BY <1>3, <2>1 DEF Frames, AppInv, Types
  <2>3. Finish(o, h) /\ UNCHANGED <<onebot, cordis>>
    BY <1>1, <1>2, <1>7, <2>1 DEF AfterEventBus, Deferred
  <2>4. ~h.failed => /\ ~onebot /\ ~cordis /\ ~stray
                     /\ "EventBus" \in live => "EventBus" \in closing
    BY <1>1, <1>3, <1>4, <2>2 DEF FrameOK, AppInv, Types
  <2> QED BY <1>1, <1>3, <1>5, <2>2, <2>3, <2>4, FinishIsGood
          DEF AppInv, Types, Promises, NothingForgotten
<1> QED BY <1>6, <1>7

LEMMA CordisIsGood ==
  ASSUME AppInv, NEW o \in Ops, NEW result \in {"ok", "error", "late"},
         cleanup[o].at = "Cordis", AfterCordis(o, cleanup[o], result),
         UNCHANGED <<accepting, live, stray>>,
         result = "ok" => cleanup[o].heard = "ok"
  PROVE  AppInv'
<1>1. PICK f \in Frames : f = cleanup[o] /\ FrameOK(o, f)
  BY DEF AppInv, Types
<1>2. PICK g : g = [f EXCEPT !.failed = @ \/ result # "ok"]
  OBVIOUS
<1>3. g \in Frames /\ g.eventsClean = f.eventsClean /\ (g.failed <=> f.failed \/ result # "ok")
  BY <1>1, <1>2 DEF Frames
<1>4. Finish(o, g) /\ cordis' = (cordis /\ result # "ok") /\ UNCHANGED onebot
  BY <1>1, <1>2 DEF AfterCordis
<1>5. "Cordis" \in live => cordis'
  BY <1>1, <1>4 DEF FrameOK, AppInv, Types, Promises, NothingForgotten
<1> QED BY <1>1, <1>3, <1>4, <1>5, FinishIsGood DEF AppInv, Types, FrameOK

LEMMA AfterIsGood ==
  ASSUME AppInv, NEW o \in Ops, NEW result \in {"ok", "error", "late"}, After(o, result),
         UNCHANGED <<accepting, live, stray>>,
         result = "ok" => cleanup[o].heard = "ok",
         result = "late" => cleanup[o].heard = "none"
  PROVE  AppInv'
BY OneBotIsGood, EventBusIsGood, CordisIsGood DEF After

-----------------------------------------------------------------------------
(* The parts. *)

appVars == <<state, accepting, onebot, cordis, services, logging, live, stray, closing, startOp,
             stopOp, cleanup>>

LEMMA SameIsGood ==
  ASSUME AppInv, UNCHANGED appVars
  PROVE  AppInv'
<1>1. Types' /\ StartupAlone' /\ Cleaners' /\ AcceptingAlone' /\ Dropped' /\ Promises'
  BY DEF AppInv, appVars, Types, StartupAlone, NothingUp, NoCleanups, Cleaners, AcceptingAlone,
         Dropped, Promises, StoppedMeansClean, CloseOrder, NothingForgotten
<1>2. \A o \in Ops : FrameOK(o, cleanup[o])'
  BY DEF AppInv, appVars, FrameOK
<1> QED BY <1>1, <1>2 DEF AppInv

LEMMA CloseEndsIsGood ==
  ASSUME AppInv, NEW part \in Parts, NEW result \in {"ok", "error"}, CloseEnds(part, result)
  PROVE  AppInv'
<1>1. /\ UNCHANGED <<state, accepting, onebot, cordis, services, logging, stray, startOp, stopOp>>
      /\ part \in closing /\ closing' = closing \ {part}
      /\ live' = IF result = "ok" THEN live \ {part} ELSE live
      /\ part = "EventBus" => result = "ok"
  BY DEF CloseEnds
<1>2. state \notin {"created", "starting"} /\ ~accepting
  BY <1>1 DEF AppInv, StartupAlone, AcceptingAlone
<1>3. ASSUME NEW o \in Ops
      PROVE  /\ cleanup'[o] \in Frames /\ cleanup'[o].at = cleanup[o].at
             /\ FrameOK(o, cleanup[o])'
  <2>1. PICK f \in Frames : f = cleanup[o] /\ FrameOK(o, f)
    BY DEF AppInv, Types
  <2>2. PICK g : g = IF f.at = part THEN [f EXCEPT !.heard = result] ELSE f
    OBVIOUS
  <2>3. cleanup'[o] = g
    BY <2>1, <2>2 DEF CloseEnds
  <2>4. /\ g \in Frames /\ g.at = f.at /\ g.eventsClean = f.eventsClean /\ g.failed = f.failed
        /\ g.heard = IF f.at = part THEN result ELSE f.heard
    BY <2>1, <2>2 DEF Frames
  <2>5. FrameOK(o, g)'
    BY <1>1, <2>1, <2>4 DEF FrameOK
  <2> QED BY <2>1, <2>3, <2>4, <2>5
<1>4. Types'
  <2>1. DOMAIN cleanup' = Ops /\ cleanup' = [o \in Ops |-> cleanup'[o]]
    BY DEF CloseEnds
  <2>2. cleanup' \in [Ops -> Frames]
    BY <1>3, <2>1
  <2> QED BY <1>1, <2>2 DEF AppInv, Types
<1>5. StartupAlone' /\ AcceptingAlone'
  <2>1. startOp \notin {"created", "activating", "connecting"}
    BY <1>2 DEF AppInv, StartupAlone
  <2> QED BY <1>1, <1>2, <2>1 DEF StartupAlone, AcceptingAlone
<1>6. Cleaners'
  BY <1>1, <1>3 DEF AppInv, Cleaners, Ops
<1>7. Dropped' /\ Promises'
  BY <1>1, <1>2 DEF AppInv, Dropped, Promises, StoppedMeansClean, CloseOrder, NothingForgotten
<1> QED BY <1>3, <1>4, <1>5, <1>6, <1>7 DEF AppInv

LEMMA StrayIsGood ==
  ASSUME AppInv, StrayBegins \/ StrayEnds
  PROVE  AppInv'
<1>1. /\ UNCHANGED <<state, accepting, onebot, cordis, services, logging, live, closing, startOp,
                     stopOp, cleanup>>
      /\ stray' \in BOOLEAN /\ (stray' => {"EventBus", "Cordis"} \subseteq live)
  BY DEF StrayBegins, StrayEnds, partVars
<1>2. Types' /\ Cleaners' /\ AcceptingAlone' /\ Dropped'
  BY <1>1 DEF AppInv, Types, Cleaners, AcceptingAlone, NoCleanups, Dropped
<1>3. StartupAlone'
  BY <1>1 DEF AppInv, StartupAlone, NothingUp, NoCleanups
<1>4. ASSUME NEW o \in Ops PROVE FrameOK(o, cleanup[o])'
  <2>1. PICK f : f = cleanup[o]
    OBVIOUS
  <2>2. FrameOK(o, f)'
    BY <1>1, <2>1, FrameStays DEF AppInv
  <2> QED BY <1>1, <2>1, <2>2
<1>5. Promises'
  BY <1>1 DEF AppInv, Promises, StoppedMeansClean, CloseOrder, NothingForgotten
<1> QED BY <1>2, <1>3, <1>4, <1>5 DEF AppInv

-----------------------------------------------------------------------------
(* Startup. *)

LEMMA StartFailsIsGood ==
  ASSUME AppInv, startOp \in {"created", "activating", "connecting"}, StartFails,
         UNCHANGED <<onebot, cordis, stray, stopOp>>,
         live' \subseteq Parts, services' \in BOOLEAN, logging' \in {"off", "on"},
         "OneBot" \in live' => onebot, "Cordis" \in live' => cordis /\ services'
  PROVE  AppInv'
<1>1. /\ state = "starting" /\ NoCleanups /\ stopOp = "none" /\ closing = {} /\ ~accepting
  BY DEF AppInv, StartupAlone
<1>2. /\ accepting' = FALSE /\ cleanup' \in [Ops -> Frames]
      /\ cleanup'["start"].at \in {"OneBot", "EventBus"} /\ cleanup'["start"].heard = "none"
      /\ cleanup'["start"].at = "EventBus" <=> ~onebot
      /\ ~cleanup'["start"].eventsClean
      /\ \A q \in Ops : q # "start" => cleanup'[q] = cleanup[q]
      /\ closing' = closing \cup {cleanup'["start"].at}
      /\ state' = "failed" /\ startOp' = "cleanup"
  BY BeginEffect DEF StartFails, AppInv, Ops
<1>3. Types'
  BY <1>1, <1>2 DEF AppInv, Types, Parts
<1>4. StartupAlone' /\ AcceptingAlone' /\ Dropped'
  BY <1>2 DEF StartupAlone, AcceptingAlone, Dropped
<1>5. Cleaners'
  BY <1>1, <1>2 DEF Cleaners, NoCleanups, Ops
<1>6. \A o \in Ops : FrameOK(o, cleanup[o])'
  BY <1>1, <1>2 DEF FrameOK, NoCleanups, Ops
<1>7. Promises'
  BY <1>1, <1>2 DEF Promises, StoppedMeansClean, CloseOrder, NothingForgotten
<1> QED BY <1>3, <1>4, <1>5, <1>6, <1>7 DEF AppInv

\* Startup goes on, and has not cleaned anything up so far.
LEMMA StartGoesOn ==
  ASSUME AppInv, startOp \in {"created", "activating", "connecting"},
         UNCHANGED <<closing, cleanup, stray, stopOp>>,
         live' \subseteq Parts, onebot' \in BOOLEAN,
         {"EventBus", "Cordis"} \subseteq live', cordis', services', logging' \in {"off", "on"},
         "OneBot" \in live' => onebot',
         \/ state' = "starting" /\ startOp' \in {"activating", "connecting"} /\ ~accepting'
         \/ state' = "ready" /\ startOp' = "done" /\ accepting',
         cordis' \in BOOLEAN, services' \in BOOLEAN, accepting' \in BOOLEAN
  PROVE  AppInv'
<1>1. /\ state = "starting" /\ NoCleanups /\ stopOp = "none" /\ closing = {} /\ ~accepting
  BY DEF AppInv, StartupAlone
<1>2. Types'
  BY DEF AppInv, Types
<1>3. StartupAlone' /\ AcceptingAlone' /\ Dropped'
  BY <1>1 DEF StartupAlone, AcceptingAlone, NoCleanups, Dropped
<1>4. Cleaners' /\ \A o \in Ops : FrameOK(o, cleanup[o])'
  BY <1>1 DEF Cleaners, NoCleanups, FrameOK, Ops
<1>5. Promises'
  BY <1>1 DEF Promises, StoppedMeansClean, CloseOrder, NothingForgotten
<1> QED BY <1>2, <1>3, <1>4, <1>5 DEF AppInv

LEMMA StartRunsIsGood ==
  ASSUME AppInv, StartRuns
  PROVE  AppInv'
<1>1. NothingUp /\ startOp = "created" /\ UNCHANGED <<onebot, stray, stopOp>>
  BY DEF AppInv, StartRuns, StartupAlone
<1>2. ASSUME NEW done \in 0..3,
             logging' = (IF done >= 1 THEN "on" ELSE "off"),
             live' = (IF done >= 2 THEN live \cup {"EventBus"} ELSE live),
             services' = (done >= 3), UNCHANGED cordis, StartFails
      PROVE  AppInv'
  BY <1>1, <1>2, StartFailsIsGood DEF NothingUp, Parts
<1>3. CASE /\ logging' = "on" /\ services' = TRUE /\ cordis' = TRUE
           /\ live' = live \cup {"EventBus", "Cordis"}
           /\ startOp' = "activating"
           /\ UNCHANGED <<state, accepting, closing, cleanup>>
  <2>1. state = "starting" /\ ~accepting
    BY <1>1 DEF AppInv, StartupAlone
  <2> QED BY <1>1, <1>3, <2>1, StartGoesOn DEF NothingUp, Parts, AppInv, Types
<1> QED BY <1>2, <1>3 DEF StartRuns

LEMMA StartupIsGood ==
  ASSUME AppInv, PluginsActive \/ AdapterStarted \/ StartupError
  PROVE  AppInv'
<1>1. /\ startOp \in {"activating", "connecting"} /\ state = "starting" /\ ~accepting
      /\ {"EventBus", "Cordis"} \subseteq live /\ live \subseteq Parts
      /\ "OneBot" \in live => onebot
      /\ cordis /\ services /\ logging \in {"off", "on"} /\ onebot \in BOOLEAN
      /\ cordis \in BOOLEAN /\ services \in BOOLEAN
  BY DEF AppInv, Types, StartupAlone, Promises, NothingForgotten, PluginsActive, AdapterStarted,
         StartupError
<1>2. CASE StartupError
  BY <1>1, <1>2, StartFailsIsGood DEF StartupError, partVars
<1>3. CASE PluginsActive \/ AdapterStarted
  <2>1. UNCHANGED <<closing, cleanup, stray, stopOp, cordis, services, logging>>
    BY <1>3 DEF PluginsActive, AdapterStarted, Ready, partVars
  <2>2. \/ onebot' = TRUE /\ live' = live \cup {"OneBot"}
        \/ UNCHANGED <<onebot, live>>
    BY <1>3 DEF PluginsActive, AdapterStarted, partVars
  <2>3. \/ state' = "starting" /\ startOp' = "connecting" /\ accepting' = accepting
        \/ state' = "ready" /\ startOp' = "done" /\ accepting' = TRUE
    BY <1>1, <1>3 DEF PluginsActive, AdapterStarted, Ready
  <2>4. accepting' \in BOOLEAN
    BY <2>3 DEF AppInv, Types
  <2>5. /\ live' \subseteq Parts /\ {"EventBus", "Cordis"} \subseteq live'
        /\ onebot' \in BOOLEAN /\ ("OneBot" \in live' => onebot')
    BY <1>1, <2>2 DEF Parts
  <2>6. /\ cordis' /\ services' /\ logging' \in {"off", "on"}
        /\ cordis' \in BOOLEAN /\ services' \in BOOLEAN
    BY <1>1, <2>1
  <2>7. \/ state' = "starting" /\ startOp' \in {"activating", "connecting"} /\ ~accepting'
        \/ state' = "ready" /\ startOp' = "done" /\ accepting'
    BY <1>1, <2>3
  <2>8. UNCHANGED <<closing, cleanup, stray, stopOp>>
    BY <2>1
  <2>9. startOp \in {"created", "activating", "connecting"}
    BY <1>1
  <2> QED BY <2>4, <2>5, <2>6, <2>7, <2>8, <2>9, StartGoesOn
<1> QED BY <1>2, <1>3

LEMMA StartEndsIsGood ==
  ASSUME AppInv, Start \/ StartNeverRuns \/ ClearStart
  PROVE  AppInv'
<1>1. UNCHANGED <<accepting, onebot, cordis, services, logging, live, stray, closing, stopOp,
                  cleanup>>
  BY DEF Start, StartNeverRuns, ClearStart, partVars, callVars
<1>2. \/ state = "created" /\ state' = "starting" /\ startOp' = "created"
      \/ UNCHANGED state /\ startOp = "created" /\ startOp' = "done"
      \/ UNCHANGED state /\ startOp = "done" /\ startOp' = "none"
  BY DEF Start, StartNeverRuns, ClearStart
<1>3. Types'
  BY <1>1, <1>2 DEF AppInv, Types
<1>4. StartupAlone'
  BY <1>1, <1>2 DEF AppInv, StartupAlone, NothingUp, NoCleanups
<1>5. Cleaners'
  BY <1>1, <1>2 DEF AppInv, Cleaners, StartupAlone
<1>6. AcceptingAlone' /\ Dropped' /\ \A o \in Ops : FrameOK(o, cleanup[o])'
  BY <1>1 DEF AppInv, AcceptingAlone, NoCleanups, Dropped, FrameOK
<1>7. Promises'
  BY <1>1, <1>2 DEF AppInv, Promises, StoppedMeansClean, CloseOrder, NothingForgotten
<1> QED BY <1>3, <1>4, <1>5, <1>6, <1>7 DEF AppInv

-----------------------------------------------------------------------------
(* Stopping. *)

LEMMA StopTurnIsGood ==
  ASSUME AppInv, NEW w \in Stoppers, StopTurn(w),
         UNCHANGED <<accepting, partVars, stray, closing, startOp, cleanup>>
  PROVE  AppInv'
<1>1. UNCHANGED <<accepting, onebot, cordis, services, logging, live, stray, closing, startOp,
                  cleanup>>
  BY DEF partVars
<1>2. \/ state \in {"created", "stopped"} /\ state' = "stopped" /\ UNCHANGED stopOp
      \/ UNCHANGED <<state, stopOp>>
      \/ /\ state \in {"starting", "stopping", "ready", "failed"} /\ ~StartupPending
         /\ state' = "stopping"
         /\ stopOp' = IF StopUnderWay THEN stopOp ELSE "created"
  BY DEF StopTurn
<1>3. CASE UNCHANGED <<state, stopOp>>
  BY <1>1, <1>3, SameIsGood DEF appVars
<1>4. CASE state \in {"created", "stopped"} /\ state' = "stopped" /\ UNCHANGED stopOp
  <2>1. startOp \notin {"created", "activating", "connecting"}
    BY <1>4 DEF AppInv, StartupAlone
  <2>2. Types' /\ StartupAlone' /\ Cleaners'
    BY <1>1, <1>4, <2>1 DEF AppInv, Types, StartupAlone, Cleaners, NoCleanups
  <2>3. AcceptingAlone' /\ Dropped' /\ \A o \in Ops : FrameOK(o, cleanup[o])'
    BY <1>1 DEF AppInv, AcceptingAlone, NoCleanups, Dropped, FrameOK
  <2>4. Promises'
    BY <1>1, <1>4 DEF AppInv, StartupAlone, NothingUp, Promises, StoppedMeansClean, CloseOrder,
                      NothingForgotten
  <2> QED BY <2>2, <2>3, <2>4 DEF AppInv
<1>5. CASE /\ state \in {"starting", "stopping", "ready", "failed"} /\ ~StartupPending
           /\ state' = "stopping"
           /\ stopOp' = IF StopUnderWay THEN stopOp ELSE "created"
  <2>1. startOp \notin {"created", "activating", "connecting"}
    BY <1>5 DEF AppInv, StartupAlone, StartupPending
  <2>2. Types'
    BY <1>1, <1>5 DEF AppInv, Types
  <2>3. Cleaners'
    BY <1>1, <1>5 DEF AppInv, Cleaners, StopUnderWay
  <2>4. AcceptingAlone' /\ Dropped' /\ \A o \in Ops : FrameOK(o, cleanup[o])'
    BY <1>1 DEF AppInv, AcceptingAlone, NoCleanups, Dropped, FrameOK
  <2>5. Promises' /\ StartupAlone'
    BY <1>1, <1>5, <2>1 DEF AppInv, StartupAlone, Promises, StoppedMeansClean, CloseOrder,
                            NothingForgotten
  <2> QED BY <2>2, <2>3, <2>4, <2>5 DEF AppInv
<1> QED BY <1>2, <1>3, <1>4, <1>5

LEMMA StopRunsIsGood ==
  ASSUME AppInv, StopRuns
  PROVE  AppInv'
<1>1. /\ stopOp = "created" /\ stopOp' = "cleanup" /\ state = "stopping"
      /\ UNCHANGED <<state, onebot, cordis, services, logging, live, stray, startOp>>
      /\ startOp \notin {"created", "activating", "connecting"}
  BY DEF AppInv, StopRuns, Cleaners, StartupAlone, partVars
<1>2. /\ accepting' = FALSE /\ cleanup' \in [Ops -> Frames]
      /\ cleanup'["stop"].at \in {"OneBot", "EventBus"} /\ cleanup'["stop"].heard = "none"
      /\ cleanup'["stop"].at = "EventBus" <=> ~onebot
      /\ ~cleanup'["stop"].eventsClean
      /\ \A q \in Ops : q # "stop" => cleanup'[q] = cleanup[q]
      /\ closing' = closing \cup {cleanup'["stop"].at}
  BY BeginEffect DEF StopRuns, AppInv, Ops
<1>3. Types'
  BY <1>1, <1>2 DEF AppInv, Types, Parts
<1>4. StartupAlone' /\ AcceptingAlone' /\ Dropped'
  BY <1>1, <1>2 DEF AppInv, StartupAlone, AcceptingAlone, Dropped
<1>5. Cleaners'
  BY <1>1, <1>2 DEF AppInv, Cleaners, Ops
<1>6. ASSUME NEW q \in Ops PROVE FrameOK(q, cleanup[q])'
  <2>1. CASE q = "stop"
    BY <1>1, <1>2, <2>1 DEF FrameOK
  <2>2. CASE q # "stop"
    <3>1. PICK h : h = cleanup[q]
      OBVIOUS
    <3>2. FrameOK(q, h)'
      BY <1>1, <1>2, <3>1, FrameStays DEF AppInv
    <3> QED BY <1>2, <2>2, <3>1, <3>2
  <2> QED BY <2>1, <2>2
<1>7. Promises'
  BY <1>1, <1>2 DEF AppInv, Types, Dropped, Promises, StoppedMeansClean, CloseOrder,
                    NothingForgotten
<1> QED BY <1>3, <1>4, <1>5, <1>6, <1>7 DEF AppInv

LEMMA ClearStopIsGood ==
  ASSUME AppInv, ClearStop
  PROVE  AppInv'
<1>1. /\ UNCHANGED <<state, accepting, onebot, cordis, services, logging, live, stray, closing,
                     startOp, cleanup>>
      /\ stopOp = "done" /\ stopOp' = "none"
  BY DEF ClearStop, partVars, callVars
<1>2. Types' /\ StartupAlone' /\ Cleaners'
  BY <1>1 DEF AppInv, Types, StartupAlone, NothingUp, NoCleanups, Cleaners
<1>3. AcceptingAlone' /\ Dropped' /\ \A o \in Ops : FrameOK(o, cleanup[o])'
  BY <1>1 DEF AppInv, AcceptingAlone, NoCleanups, Dropped, FrameOK
<1>4. Promises'
  BY <1>1 DEF AppInv, Promises, StoppedMeansClean, CloseOrder, NothingForgotten
<1> QED BY <1>2, <1>3, <1>4 DEF AppInv

-----------------------------------------------------------------------------
(* Every step of the application. *)

LEMMA CallsAreGood ==
  ASSUME AppInv, Calls
  PROVE  AppInv'
<1>1. CASE CancelStart
  BY <1>1, SameIsGood DEF CancelStart, appVars, partVars
<1>2. ASSUME NEW w \in Stoppers, Stop(w) PROVE AppInv'
  BY <1>2, StopTurnIsGood DEF Stop
<1> QED BY <1>1, <1>2, StartEndsIsGood DEF Calls

LEMMA RunningIsGood ==
  ASSUME AppInv, Running
  PROVE  AppInv'
<1>1. CASE Startup
  <2>1. CASE CleanupInterrupted
    BY <2>1, AfterIsGood DEF CleanupInterrupted, Ops
  <2> QED BY <1>1, <2>1, StartRunsIsGood, StartupIsGood, StartEndsIsGood DEF Startup
<1>2. CASE CancelSwallowed
  BY <1>2, SameIsGood DEF CancelSwallowed, appVars, partVars
<1>3. CASE Stopping
  <2>1. ASSUME NEW w \in Stoppers, StopAgain(w) PROVE AppInv'
    BY <2>1, StopTurnIsGood DEF StopAgain
  <2> QED BY <1>3, <2>1, StopRunsIsGood, ClearStopIsGood DEF Stopping
<1>4. ASSUME NEW o \in Ops, Hears(o) \/ DeadlinePasses(o) PROVE AppInv'
  <2>1. CASE Hears(o)
    <3>1. cleanup[o].heard \in {"ok", "error", "late"} /\ cleanup[o].heard # "late"
      BY <2>1 DEF Hears, AppInv, Types, Frames
    <3>2. PICK result \in {"ok", "error", "late"} : result = cleanup[o].heard
      BY <3>1
    <3> QED BY <2>1, <3>1, <3>2, AfterIsGood DEF Hears
  <2>2. CASE DeadlinePasses(o)
    BY <2>2, AfterIsGood DEF DeadlinePasses
  <2> QED BY <1>4, <2>1, <2>2
<1>5. ASSUME NEW part \in Parts, NEW result \in {"ok", "error"}, CloseEnds(part, result)
      PROVE  AppInv'
  BY <1>5, CloseEndsIsGood
<1> QED BY <1>1, <1>2, <1>3, <1>4, <1>5, StrayIsGood DEF Running
LEMMA InitGood ==
  ASSUME Init
  PROVE  AppInv
<1>1. NoCleanup \in Frames /\ NoCleanup.at = "none"
  BY DEF NoCleanup, Frames
<1>2. Types /\ StartupAlone /\ Cleaners /\ AcceptingAlone /\ Dropped /\ Promises
  BY <1>1 DEF Init, Types, StartupAlone, NothingUp, NoCleanups, Cleaners, AcceptingAlone,
              Dropped, Promises, StoppedMeansClean, CloseOrder, NothingForgotten, Ops, Parts
<1>3. \A o \in Ops : FrameOK(o, cleanup[o])
  BY <1>1 DEF Init, FrameOK
<1> QED BY <1>2, <1>3 DEF AppInv

\* Whatever calls start, cancel_start and stop and in whatever order, the application keeps
\* its promises: this is LiteyukiApp as an embedding program sees it.
THEOREM AppIsGood == Spec => []AppInv
<1>1. Init => AppInv
  BY InitGood
<1>2. AppInv /\ [Next]_vars => AppInv'
  <2> SUFFICES ASSUME AppInv, [Next]_vars PROVE AppInv'
    OBVIOUS
  <2>1. CASE UNCHANGED vars
    BY <2>1, SameIsGood DEF vars, appVars
  <2> QED BY <2>1, CallsAreGood, RunningIsGood DEF Next
<1> QED BY <1>1, <1>2, PTL DEF Spec
-----------------------------------------------------------------------------
(* The session. *)

Points ==
  {"new", "startup", "starting", "ready", "aborted", "cleanup", "stopping", "draining", "ended"}

Sessions ==
  [mode : {"run", "debug", "embedded"}, pc : Points, heard : {"none", "ok", "error"},
   up : BOOLEAN, error : BOOLEAN, signal : BOOLEAN,
   exit : {"none", "ok", "failed", "interrupted"}]

Places == {"idle", "awaitStart", "again", "awaitStop", "returned", "raised"}

SessionTypes == session \in Sessions /\ stopper \in [Stoppers -> Places]

\* A stop that returned is never undone.
Answered == \A w \in Stoppers : stopper[w] = "returned" => state = "stopped"

\* A debug session that did not come up knows why.
Accounted ==
  /\ session.pc = "ready" => session.up
  /\ session.pc = "aborted" => session.error
  /\ session.mode = "debug" /\ session.pc \in {"cleanup", "stopping"} =>
       session.up \/ session.error \/ session.signal

\* Only the end of the session sets the exit status.
ExitLast == session.exit = "ok" => session.pc = "ended" /\ state = "stopped"
                                   /\ (session.mode = "debug" => session.up)

SessionInv == SessionTypes /\ Answered /\ Accounted /\ ExitLast

\* What a step of the application does to its callers and to "stopped".
StoppersKept ==
  /\ stopper' \in [Stoppers -> Places]
  /\ \A w \in Stoppers : stopper'[w] = "returned" => stopper[w] = "returned" \/ state' = "stopped"
  /\ state = "stopped" => state' = "stopped"

LEMMA FinishKeeps ==
  ASSUME AppInv, SessionTypes, NEW o \in Ops, NEW f, cleanup[o].at # "none", Finish(o, f)
  PROVE  StoppersKept
<1>1. CASE o = "start"
  BY <1>1 DEF Finish, StoppersKept, SessionTypes, Places
<1>2. CASE o = "stop"
  <2>1. state = "stopping"
    BY <1>2 DEF AppInv, Cleaners
  <2>2. stopper' = [w \in Stoppers |-> IF stopper[w] # "awaitStop" THEN stopper[w]
                                       ELSE IF f.failed THEN "raised" ELSE "returned"]
        /\ state' = IF f.failed THEN "failed" ELSE "stopped"
    BY <1>2 DEF Finish
  <2> QED BY <2>1, <2>2 DEF StoppersKept, SessionTypes, Places
<1> QED BY <1>1, <1>2 DEF Ops

LEMMA AfterKeeps ==
  ASSUME AppInv, SessionTypes, NEW o \in Ops, NEW result, After(o, result)
  PROVE  StoppersKept
<1>1. CASE cleanup[o].at = "OneBot" /\ AfterOneBot(o, cleanup[o], result)
  BY <1>1 DEF AfterOneBot, StoppersKept, SessionTypes, Places
<1>2. CASE cleanup[o].at = "EventBus" /\ AfterEventBus(o, cleanup[o], result)
  BY <1>2, FinishKeeps DEF AfterEventBus, StoppersKept, SessionTypes, Places
<1>3. CASE cleanup[o].at = "Cordis" /\ AfterCordis(o, cleanup[o], result)
  BY <1>3, FinishKeeps DEF AfterCordis
<1> QED BY <1>1, <1>2, <1>3 DEF After

LEMMA StopTurnKeeps ==
  ASSUME SessionTypes, NEW w \in Stoppers, StopTurn(w)
  PROVE  StoppersKept
BY DEF StopTurn, StoppersKept, SessionTypes, Places, StartupPending

LEMMA StartKeeps ==
  ASSUME AppInv, SessionTypes, Startup
  PROVE  StoppersKept
<1>1. CASE CleanupInterrupted
  BY <1>1, AfterKeeps DEF CleanupInterrupted, Ops
<1>2. CASE ClearStart
  BY <1>2 DEF ClearStart, StoppersKept, SessionTypes, Places
<1>3. CASE StartRuns \/ PluginsActive \/ AdapterStarted \/ StartupError \/ StartNeverRuns
  <2>1. UNCHANGED stopper
    BY <1>3 DEF StartRuns, PluginsActive, AdapterStarted, StartupError, StartNeverRuns, callVars
  <2>2. startOp \in {"created", "activating", "connecting"}
    BY <1>3 DEF StartRuns, PluginsActive, AdapterStarted, StartupError, StartNeverRuns
  <2>3. state # "stopped"
    BY <2>2 DEF AppInv, StartupAlone
  <2> QED BY <2>1, <2>3 DEF StoppersKept, SessionTypes, Places
<1> QED BY <1>1, <1>2, <1>3 DEF Startup

LEMMA RunningKeeps ==
  ASSUME AppInv, SessionTypes, Running
  PROVE  StoppersKept
<1>1. CASE Stopping
  <2>1. ASSUME NEW w \in Stoppers, StopAgain(w) PROVE StoppersKept
    BY <2>1, StopTurnKeeps DEF StopAgain
  <2>2. CASE StopRuns \/ ClearStop
    BY <2>2 DEF StopRuns, ClearStop, callVars, StoppersKept, SessionTypes, Places
  <2> QED BY <1>1, <2>1, <2>2 DEF Stopping
<1>2. ASSUME NEW o \in Ops, Hears(o) \/ DeadlinePasses(o) PROVE StoppersKept
  BY <1>2, AfterKeeps DEF Hears, DeadlinePasses
<1>3. ASSUME NEW part \in Parts, NEW result, CloseEnds(part, result) PROVE StoppersKept
  BY <1>3 DEF CloseEnds, callVars, StoppersKept, SessionTypes, Places
<1>4. CASE StrayBegins \/ StrayEnds \/ CancelSwallowed
  BY <1>4 DEF StrayBegins, StrayEnds, CancelSwallowed, callVars, StoppersKept, SessionTypes, Places
<1> QED BY <1>1, <1>2, <1>3, <1>4, StartKeeps DEF Running

LEMMA CallsKeep ==
  ASSUME AppInv, SessionTypes, Calls
  PROVE  StoppersKept
<1>1. CASE Start \/ CancelStart
  BY <1>1 DEF Start, CancelStart, callVars, StoppersKept, SessionTypes, Places
<1>2. ASSUME NEW w \in Stoppers, Stop(w) PROVE StoppersKept
  BY <1>2, StopTurnKeeps DEF Stop
<1> QED BY <1>1, <1>2 DEF Calls

LEMMA GoesEffect ==
  ASSUME session \in Sessions, NEW p \in Points, Goes(p)
  PROVE  /\ session' \in Sessions /\ session'.pc = p
         /\ session'.mode = session.mode /\ session'.heard = session.heard
         /\ session'.up = session.up /\ session'.error = session.error
         /\ session'.signal = session.signal /\ session'.exit = session.exit
<1>1. PICK s \in Sessions : s = session
  OBVIOUS
<1>2. PICK t : t = [s EXCEPT !.pc = p]
  OBVIOUS
<1>3. /\ t \in Sessions /\ t.pc = p /\ t.mode = s.mode /\ t.heard = s.heard /\ t.up = s.up
      /\ t.error = s.error /\ t.signal = s.signal /\ t.exit = s.exit
  BY <1>2 DEF Sessions
<1> QED BY <1>1, <1>2, <1>3 DEF Goes

LEMMA GoesWrongEffect ==
  ASSUME session \in Sessions, NEW p \in Points, GoesWrong(p)
  PROVE  /\ session' \in Sessions /\ session'.pc = p /\ session'.error = TRUE
         /\ session'.exit = session.exit
<1>1. PICK s \in Sessions : s = session
  OBVIOUS
<1>2. PICK t : t = [s EXCEPT !.pc = p, !.error = TRUE]
  OBVIOUS
<1>3. t \in Sessions /\ t.pc = p /\ t.error = TRUE /\ t.exit = s.exit
  BY <1>2 DEF Sessions
<1> QED BY <1>1, <1>2, <1>3 DEF GoesWrong

LEMMA ObserveEffect ==
  ASSUME session \in Sessions, Observe
  PROVE  /\ session' \in Sessions /\ session'.pc = session.pc
         /\ session'.mode = session.mode /\ session'.up = session.up
         /\ session'.error = session.error /\ session'.signal = session.signal
         /\ session'.exit = session.exit
<1>1. PICK s \in Sessions : s = session
  OBVIOUS
<1>2. PICK ok \in {"ok", "error"} : ok = IF state' = "ready" THEN "ok" ELSE "error"
  OBVIOUS
<1>3. PICK t : t = [s EXCEPT !.heard = ok]
  OBVIOUS
<1>4. /\ t \in Sessions /\ t.pc = s.pc /\ t.mode = s.mode /\ t.up = s.up /\ t.error = s.error
      /\ t.signal = s.signal /\ t.exit = s.exit
  BY <1>3 DEF Sessions
<1>5. session' = t \/ session' = s
  BY <1>1, <1>2, <1>3 DEF Observe
<1> QED BY <1>1, <1>4, <1>5

\* A session that has not ended goes on, while the application keeps what it answered.
LEMMA SessionGoesOn ==
  ASSUME SessionInv, StoppersKept, session' \in Sessions, session.exit # "ok",
         session'.exit # "ok", Accounted'
  PROVE  SessionInv'
BY DEF SessionInv, StoppersKept, SessionTypes, Answered, ExitLast

LEMMA NothingMoves ==
  ASSUME SessionInv, UNCHANGED vars
  PROVE  StoppersKept
BY DEF SessionInv, SessionTypes, vars, callVars, StoppersKept

LEMMA SessionStepIsGood ==
  ASSUME AppInv, SessionInv, SessionStep
  PROVE  AppInv' /\ SessionInv'
<1>1. session \in Sessions /\ session.pc # "ended" /\ session.exit # "ok"
  BY DEF SessionInv, SessionTypes, ExitLast, SessionStep, SessionBegins, SessionStarts,
         StartHeard, StartDeadline, AbortDone, LeaveReady, SessionStops, SessionEnds,
         CleanupDeadline, CleanupIsLate
<1>2. CASE SessionBegins
  <2>1. UNCHANGED vars /\ (Goes("startup") \/ GoesWrong("cleanup"))
    BY <1>2 DEF SessionBegins
  <2>2. /\ session' \in Sessions /\ session'.exit = session.exit
        /\ session'.pc = "startup" \/ (session'.pc = "cleanup" /\ session'.error = TRUE)
    BY <1>1, <2>1, GoesEffect, GoesWrongEffect DEF Points
  <2>3. SessionInv'
    BY <1>1, <2>1, <2>2, NothingMoves, SessionGoesOn DEF Accounted
  <2> QED BY <2>1, <2>3, SameIsGood DEF vars, appVars
<1>3. CASE SessionStarts
  <2>1. Calls /\ Goes("starting")
    BY <1>3 DEF SessionStarts, Calls
  <2>2. session' \in Sessions /\ session'.exit = session.exit /\ session'.pc = "starting"
    BY <1>1, <2>1, GoesEffect DEF Points
  <2>3. SessionInv'
    BY <1>1, <2>1, <2>2, CallsKeep, SessionGoesOn DEF Accounted, SessionInv
  <2> QED BY <2>1, <2>3, CallsAreGood
<1>4. CASE StartHeard
  <2>1. CASE GoesWrong("cleanup")
    <3>1. /\ session' \in Sessions /\ session'.exit = session.exit
          /\ session'.pc = "cleanup" /\ session'.error = TRUE
      BY <1>1, <2>1, GoesWrongEffect DEF Points
    <3>2. UNCHANGED vars
      BY <1>4 DEF StartHeard
    <3> QED BY <1>1, <3>1, <3>2, NothingMoves, SessionGoesOn, SameIsGood
            DEF Accounted, vars, appVars
  <2>2. CASE session' = [session EXCEPT !.pc = "ready", !.up = TRUE]
    <3>1. PICK s \in Sessions : s = session
      BY <1>1
    <3>2. PICK t : t = [s EXCEPT !.pc = "ready", !.up = TRUE]
      OBVIOUS
    <3>3. t \in Sessions /\ t.pc = "ready" /\ t.up = TRUE /\ t.exit = s.exit
      BY <3>2 DEF Sessions, Points
    <3>4. UNCHANGED vars /\ session' = t
      BY <1>4, <2>2, <3>1, <3>2 DEF StartHeard
    <3> QED BY <1>1, <3>1, <3>3, <3>4, NothingMoves, SessionGoesOn, SameIsGood
            DEF Accounted, vars, appVars
  <2> QED BY <1>4, <2>1, <2>2 DEF StartHeard
<1>5. CASE StartDeadline
  <2>1. /\ UNCHANGED appVars /\ UNCHANGED stopper
        /\ GoesWrong("cleanup") \/ GoesWrong("aborted")
    BY <1>5 DEF StartDeadline, appVars, partVars, callVars
  <2>2. /\ session' \in Sessions /\ session'.exit = session.exit
        /\ session'.pc \in {"cleanup", "aborted"} /\ session'.error = TRUE
    BY <1>1, <2>1, GoesWrongEffect DEF Points
  <2>3. StoppersKept
    BY <2>1 DEF SessionInv, SessionTypes, appVars, StoppersKept
  <2> QED BY <1>1, <2>1, <2>2, <2>3, SessionGoesOn, SameIsGood DEF Accounted
<1>6. CASE AbortDone \/ LeaveReady
  <2>1. UNCHANGED vars /\ Goes("cleanup") /\ session.pc \in {"aborted", "ready"}
    BY <1>6 DEF AbortDone, LeaveReady
  <2>2. /\ session' \in Sessions /\ session'.exit = session.exit /\ session'.pc = "cleanup"
        /\ session'.up = session.up /\ session'.error = session.error
    BY <1>1, <2>1, GoesEffect DEF Points
  <2>3. Accounted'
    BY <2>1, <2>2 DEF SessionInv, Accounted
  <2> QED BY <1>1, <2>1, <2>2, <2>3, NothingMoves, SessionGoesOn, SameIsGood DEF vars, appVars
<1>7. CASE SessionStops
  <2>1. Calls /\ Goes("stopping") /\ session.pc = "cleanup"
    BY <1>7, SessionAssumption DEF SessionStops, Calls
  <2>2. /\ session' \in Sessions /\ session'.exit = session.exit /\ session'.pc = "stopping"
        /\ session'.up = session.up /\ session'.error = session.error
        /\ session'.signal = session.signal /\ session'.mode = session.mode
    BY <1>1, <2>1, GoesEffect DEF Points
  <2>3. Accounted'
    BY <2>1, <2>2 DEF SessionInv, Accounted
  <2>4. SessionInv'
    BY <1>1, <2>1, <2>2, <2>3, CallsKeep, SessionGoesOn DEF SessionInv
  <2> QED BY <2>1, <2>4, CallsAreGood
<1>8. CASE SessionEnds
  <2>1. PICK s \in Sessions : s = session
    BY <1>1
  <2>2. PICK e \in {"ok", "failed", "interrupted"} :
          e = IF s.signal /\ s.mode = "debug" THEN "interrupted"
              ELSE IF s.error \/ s.pc = "draining" \/ CleanupError THEN "failed" ELSE "ok"
    OBVIOUS
  <2>3. PICK t : t = [s EXCEPT !.pc = "ended", !.exit = e]
    OBVIOUS
  <2>4. t \in Sessions /\ t.pc = "ended" /\ t.exit = e /\ t.mode = s.mode /\ t.up = s.up
    BY <2>3 DEF Sessions, Points
  <2>5. session' = t /\ UNCHANGED vars
    BY <1>8, <2>1, <2>2, <2>3 DEF SessionEnds
  <2>6. s.pc \in {"stopping", "draining"} /\ stopper[Cli] \in {"returned", "raised"}
    BY <1>8, <2>1 DEF SessionEnds
  <2>7. e = "ok" => state = "stopped" /\ (s.mode = "debug" => s.up)
    BY <2>1, <2>2, <2>6, SessionAssumption DEF SessionInv, Answered, Accounted, CleanupError,
                                              Sessions
  <2>8. SessionInv'
    BY <2>4, <2>5, <2>7 DEF SessionInv, SessionTypes, vars, callVars, Answered, Accounted, ExitLast
  <2> QED BY <2>5, <2>8, SameIsGood DEF vars, appVars
<1>9. CASE CleanupDeadline
  <2>1. /\ UNCHANGED appVars /\ Goes("draining")
        /\ stopper' = [stopper EXCEPT ![Cli] = Cancelled(@)]
    BY <1>9 DEF CleanupDeadline, appVars, partVars
  <2>2. session' \in Sessions /\ session'.exit = session.exit /\ session'.pc = "draining"
    BY <1>1, <2>1, GoesEffect DEF Points
  <2>3. StoppersKept
    BY <2>1 DEF SessionInv, SessionTypes, appVars, StoppersKept, Cancelled, Places
  <2> QED BY <1>1, <2>1, <2>2, <2>3, SessionGoesOn, SameIsGood DEF Accounted
<1> QED BY <1>2, <1>3, <1>4, <1>5, <1>6, <1>7, <1>8, <1>9 DEF SessionStep
LEMMA SignalIsGood ==
  ASSUME AppInv, SessionInv, Signal
  PROVE  AppInv' /\ SessionInv'
<1>1. PICK s \in Sessions : s = session
  BY DEF SessionInv, SessionTypes
<1>2. s.pc # "ended" /\ s.exit # "ok"
  BY <1>1 DEF Signal, SessionInv, ExitLast
<1>3. UNCHANGED appVars
  BY DEF Signal, appVars, partVars
<1>4. PICK t : t = [s EXCEPT !.signal = TRUE]
  OBVIOUS
<1>5. /\ t \in Sessions /\ t.signal = TRUE /\ t.pc = s.pc /\ t.mode = s.mode /\ t.up = s.up
      /\ t.error = s.error /\ t.exit = s.exit
  BY <1>4 DEF Sessions
<1>6. PICK u : u = [t EXCEPT !.pc = "ended", !.exit = "interrupted"]
  OBVIOUS
<1>7. u \in Sessions /\ u.pc = "ended" /\ u.exit = "interrupted"
  BY <1>5, <1>6 DEF Sessions, Points
<1>8. PICK v : v = [t EXCEPT !.pc = "cleanup"]
  OBVIOUS
<1>9. v \in Sessions /\ v.pc = "cleanup" /\ v.exit = t.exit /\ v.signal = TRUE
  BY <1>5, <1>8 DEF Sessions, Points
<1>10. session' \in {t, u, v}
  BY <1>1, <1>4, <1>6, <1>8 DEF Signal
<1>11. session' \in Sessions /\ session'.exit # "ok"
  BY <1>2, <1>5, <1>7, <1>9, <1>10
<1>12. Accounted'
  <2>1. CASE session' = t
    BY <1>1, <1>5, <2>1 DEF SessionInv, Accounted
  <2>2. CASE session' \in {u, v}
    BY <1>7, <1>9, <2>2 DEF Accounted
  <2> QED BY <1>10, <2>1, <2>2
<1>13. StoppersKept
  <2>1. \/ UNCHANGED stopper
        \/ stopper' = [stopper EXCEPT ![Cli] = IF @ \in {"returned", "raised"} THEN @
                                               ELSE Cancelled(@)]
    BY DEF Signal
  <2> QED BY <1>3, <2>1 DEF SessionInv, SessionTypes, appVars, StoppersKept, Cancelled, Places
<1> QED BY <1>1, <1>2, <1>3, <1>11, <1>12, <1>13, SameIsGood, SessionGoesOn

LEMMA SessionNextIsGood ==
  ASSUME AppInv, SessionInv, [SessionNext]_sessionVars
  PROVE  AppInv' /\ SessionInv'
<1>1. CASE UNCHANGED sessionVars
  BY <1>1, SameIsGood DEF sessionVars, vars, callVars, appVars, SessionInv, SessionTypes, Answered,
                          Accounted, ExitLast
<1>2. CASE Calls /\ UNCHANGED session
  <2>1. AppInv' /\ StoppersKept
    BY <1>2, CallsAreGood, CallsKeep DEF SessionInv
  <2> QED BY <1>2, <2>1 DEF StoppersKept, SessionInv, SessionTypes, Answered, Accounted, ExitLast
<1>3. CASE session.pc # "ended" /\ Running /\ Observe
  <2>1. AppInv' /\ StoppersKept
    BY <1>3, RunningIsGood, RunningKeeps DEF SessionInv
  <2>2. /\ session' \in Sessions /\ session'.pc = session.pc
        /\ session'.mode = session.mode /\ session'.up = session.up
        /\ session'.error = session.error /\ session'.signal = session.signal
        /\ session'.exit = session.exit
    BY <1>3, ObserveEffect DEF SessionInv, SessionTypes
  <2>3. session.exit # "ok" /\ Accounted'
    BY <1>3, <2>2 DEF SessionInv, ExitLast, Accounted
  <2> QED BY <2>1, <2>2, <2>3, SessionGoesOn
<1> QED BY <1>1, <1>2, <1>3, SessionStepIsGood, SignalIsGood DEF SessionNext

LEMMA SessionInitGood ==
  ASSUME SessionInit
  PROVE  AppInv /\ SessionInv
<1>1. PICK m \in {"run", "debug", "embedded"} : session = NewSession(m)
  BY DEF SessionInit
<1>2. session \in Sessions /\ session.pc = "new" /\ session.exit = "none"
  BY <1>1 DEF NewSession, Sessions, Points
<1>3. Init /\ stopper = [w \in Stoppers |-> "idle"]
  BY DEF SessionInit, Init
<1> QED BY <1>2, <1>3, InitGood DEF SessionInv, SessionTypes, Places, Answered, Accounted, ExitLast

\* The invariant of the application under a command, a signal and an embedding program.
THEOREM SessionIsGood == SessionSpec => [](AppInv /\ SessionInv)
<1>1. SessionInit => AppInv /\ SessionInv
  BY SessionInitGood
<1>2. AppInv /\ SessionInv /\ [SessionNext]_sessionVars => AppInv' /\ SessionInv'
  BY SessionNextIsGood
<1> QED BY <1>1, <1>2, PTL DEF SessionSpec

\* An application that reports stopped has nothing left but the close operation of its bus,
\* whichever of startup, a failed startup and any number of stops cleaned up last.
THEOREM StoppedIsClean == SessionSpec => []StoppedMeansClean
<1>1. AppInv => StoppedMeansClean
  BY DEF AppInv, Promises
<1> QED BY <1>1, SessionIsGood, PTL

\* Cordis is closed after the bus and its callbacks, and logging after everything.
THEOREM ClosedInOrder == SessionSpec => []CloseOrder
<1>1. AppInv => CloseOrder
  BY DEF AppInv, Promises
<1> QED BY <1>1, SessionIsGood, PTL

\* Two cleanups at the same time never lose a part that is up.
THEOREM PartsAreKept == SessionSpec => []NothingForgotten
<1>1. AppInv => NothingForgotten
  BY DEF AppInv, Promises
<1> QED BY <1>1, SessionIsGood, PTL

\* The exit status of a session tells the truth about startup and cleanup.
THEOREM ExitIsTrue == SessionSpec => []ExitTruth
<1>1. AppInv /\ SessionInv => ExitTruth
  BY DEF AppInv, Promises, StoppedMeansClean, SessionInv, ExitLast, ExitTruth
<1> QED BY <1>1, SessionIsGood, PTL
=============================================================================
