-------------------------- MODULE FeatureHostProofs ---------------------------
(***************************************************************************)
(* Proofs about the Cordis manager with its features: the profile service  *)
(* writes one field at a time and is quiet when it is closed, and a plugin *)
(* whose scope is closed has left nothing in the registries.  For any      *)
(* chain of plugins, any scripts of their factories, any events, messages, *)
(* fields and number of failures.                                          *)
(***************************************************************************)
EXTENDS FeatureHostProps, SequenceTheorems, FiniteSetTheorems, TLAPS

-----------------------------------------------------------------------------
(* The profile service. *)

\* The steps of the service, whoever takes them.
ProfileMoves ==
  \/ \E c \in Callers : \E op : Call(c, op)
  \/ \E c \in Callers : CancelCall(c)
  \/ CloseService \/ ProfileStep
  \/ UNCHANGED profileVars

\* Every step of the system is one of the service, as far as the service goes.
LEMMA NextMovesProfile ==
  ASSUME [Next]_vars
  PROVE  ProfileMoves
<1>0. Plugins \subseteq Callers /\ Events \subseteq Callers
  BY HostAssumption
<1>1. ASSUME NEW p \in Plugins, ActivationStep(p) PROVE ProfileMoves
  <2>1. CASE \/ Activate(p) \/ OnHandler(p) \/ OnCommands(p) \/ OnOwn(p) \/ StorageStarted(p)
             \/ StorageAbandoned(p) \/ FactoryRaises(p) \/ FactoryReturns(p) \/ RolledBack(p)
    BY <2>1 DEF ProfileMoves, Activate, OnHandler, OnCommands, OnOwn, StorageStarted,
                StorageAbandoned, FactoryRaises, FactoryReturns, RolledBack
  <2>2. CASE StorageStarts(p)
    BY <1>0, <2>2 DEF ProfileMoves, StorageStarts
  <2>3. CASE StorageFails(p) \/ StorageUnwinds(p)
    BY <2>3 DEF ProfileMoves, StorageFails, StorageUnwinds
  <2>4. CASE StorageCancelled(p)
    BY <1>0, <2>4 DEF ProfileMoves, StorageCancelled
  <2> QED BY <1>1, <2>1, <2>2, <2>3, <2>4 DEF ActivationStep
<1>2. CASE Start \/ Close \/ ManagerStep
  BY <1>2 DEF ProfileMoves, Start, Close, ManagerStep, CleanupRuns, CleanupEnds
<1>3. ASSUME NEW s, ScopeStep(s) PROVE ProfileMoves
  BY <1>3 DEF ProfileMoves, ScopeStep, CloseBelow, DisposeHandler, DisposeCommands,
              DisposeStorage, StorageClosed, DisposeOwn, DisposerFails, ScopeDone
<1>4. ASSUME NEW e \in Events, EventStep(e) PROVE ProfileMoves
  <2>1. CASE Ask(e)
    BY <1>0, <2>1 DEF ProfileMoves, Ask
  <2>2. CASE CancelProvider(e)
    BY <1>0, <2>2 DEF ProfileMoves, CancelProvider
  <2> QED BY <1>4, <2>1, <2>2 DEF ProfileMoves, EventStep, Dispatch, HandlerEnds,
            HandlerRaises, Route, RunCommand, Answered, Cancel, Finish
<1>5. CASE ProfileStep \/ UNCHANGED vars
  BY <1>5 DEF ProfileMoves, vars
<1> QED BY <1>1, <1>2, <1>3, <1>4, <1>5 DEF Next

\* The shapes of what the argument looks into.
ProfileShapes ==
  /\ DOMAIN call = Callers /\ DOMAIN thread = Callers /\ DOMAIN row = Fields
  /\ \A c \in Callers : /\ DOMAIN call[c] = {"pc", "op", "doing"}
                        /\ DOMAIN thread[c] = {"pc", "op", "seen", "failed"}

\* Where a caller is that needs the lock.
Inside(c) == call[c].pc \in {"draining", "waiting"}

\* One thread works on the database at a time, with the row as it is.
ThreadsAlone ==
  /\ \A c, d \in Callers : thread[c].pc # "none" /\ thread[d].pc # "none" => c = d
  /\ \A c \in Callers : thread[c].pc = "read" => thread[c].seen = row

\* Who is inside holds the lock, and nobody is when the service has been closed.
LockHeld ==
  /\ \A c \in Callers : Inside(c) => lock = c /\ ~closedService
  /\ closing \in {"draining", "returned"} => closedService

ClosedQuiet == closing = "returned" => Threads = {}

ProfileInv == ProfileShapes /\ ThreadsAlone /\ LockHeld /\ ClosedQuiet

LEMMA InitHoldsProfile ==
  ASSUME InitProfile
  PROVE  ProfileInv
BY ProfileAssumption DEF InitProfile, ProfileInv, ProfileShapes, ThreadsAlone, LockHeld,
   ClosedQuiet, Threads, Inside, NoCall, NoThread

\* The caller c moves, to where it is not inside, or stays inside with the lock.
LEMMA CallerMoves ==
  ASSUME ProfileInv, NEW c \in Callers, DOMAIN call' = Callers,
         DOMAIN call'[c] = {"pc", "op", "doing"},
         \A d \in Callers \ {c} : call'[d] = call[d],
         Inside(c)' => lock = c /\ ~closedService,
         lock' = lock \/ lock = c \/ lock \notin Callers,
         Inside(c)' => lock' = lock,
         UNCHANGED <<closedService, closing, thread, row>>
  PROVE  ProfileInv'
<1>1. ProfileShapes'
  BY DEF ProfileInv, ProfileShapes
<1>2. ThreadsAlone' /\ ClosedQuiet'
  BY DEF ProfileInv, ThreadsAlone, ClosedQuiet, Threads
<1>3. LockHeld'
  BY DEF ProfileInv, LockHeld, Inside
<1> QED BY <1>1, <1>2, <1>3 DEF ProfileInv

LEMMA CallKeeps ==
  ASSUME ProfileInv, NEW c \in Callers, NEW op, Call(c, op)
  PROVE  ProfileInv'
<1>1. /\ DOMAIN call' = Callers /\ call'[c] = [pc |-> "called", op |-> op, doing |-> NoOp]
      /\ \A d \in Callers \ {c} : call'[d] = call[d]
  BY DEF Call, ProfileInv, ProfileShapes
<1>2. lock' = lock \/ lock \notin Callers
  BY ProfileAssumption DEF Call, Acquire
<1>3. ~Inside(c)'
  BY <1>1 DEF Inside
<1> QED BY <1>1, <1>2, <1>3, CallerMoves DEF Call

LEMMA EnterKeeps ==
  ASSUME ProfileInv, NEW c \in Callers, Enter(c)
  PROVE  ProfileInv'
<1>1. /\ DOMAIN call' = Callers /\ DOMAIN call'[c] = {"pc", "op", "doing"}
      /\ \A d \in Callers \ {c} : call'[d] = call[d]
  BY DEF Enter, ProfileInv, ProfileShapes
<1>2. lock = c /\ (Inside(c)' => ~closedService /\ lock' = lock)
  BY DEF Enter, Inside, ProfileInv, ProfileShapes
<1> QED BY <1>1, <1>2, CallerMoves DEF Enter

LEMMA CancelCallKeeps ==
  ASSUME ProfileInv, NEW c \in Callers, CancelCall(c)
  PROVE  ProfileInv'
<1>1. /\ DOMAIN call' = Callers /\ DOMAIN call'[c] = {"pc", "op", "doing"}
      /\ \A d \in Callers \ {c} : call'[d] = call[d]
      /\ call'[c].pc = "cancelled"
  BY DEF CancelCall, ProfileInv, ProfileShapes
<1>2. lock' = lock \/ lock = c
  BY DEF CancelCall, Leave
<1>3. ~Inside(c)'
  BY <1>1 DEF Inside
<1> QED BY <1>1, <1>2, <1>3, CallerMoves DEF CancelCall

LEMMA StartThreadKeeps ==
  ASSUME ProfileInv, NEW c \in Callers, StartThread(c)
  PROVE  ProfileInv'
<1>1. /\ DOMAIN call' = Callers /\ DOMAIN call'[c] = {"pc", "op", "doing"}
      /\ call'[c].pc = "waiting" /\ \A d \in Callers \ {c} : call'[d] = call[d]
  BY DEF StartThread, ProfileInv, ProfileShapes
<1>2. /\ DOMAIN thread' = Callers /\ DOMAIN thread'[c] = {"pc", "op", "seen", "failed"}
      /\ thread'[c].pc = "created" /\ \A d \in Callers \ {c} : thread'[d] = thread[d]
  BY DEF StartThread, ProfileInv, ProfileShapes, NoThread
<1>3. /\ \A d \in Callers : thread[d].pc = "none"
      /\ lock = c /\ ~closedService /\ UNCHANGED <<closedService, closing, lock, row>>
  BY DEF StartThread, Drained, Threads, ProfileInv, LockHeld, Inside
<1>4. ProfileShapes'
  BY <1>1, <1>2, <1>3 DEF ProfileInv, ProfileShapes
<1>5. ThreadsAlone'
  BY <1>2, <1>3 DEF ThreadsAlone
<1>6. LockHeld' /\ ClosedQuiet'
  BY <1>1, <1>3 DEF ProfileInv, LockHeld, Inside, ClosedQuiet
<1> QED BY <1>4, <1>5, <1>6 DEF ProfileInv

\* The thread of c takes a step on the row, or on the schema, or fails.
LEMMA ThreadRuns ==
  ASSUME ProfileInv, NEW c \in Callers, thread[c].pc # "none",
         DOMAIN thread' = Callers, DOMAIN thread'[c] = {"pc", "op", "seen", "failed"},
         \A d \in Callers \ {c} : thread'[d] = thread[d],
         thread'[c].pc = "read" => thread'[c].seen = row', DOMAIN row' = Fields,
         UNCHANGED <<closedService, lock, call, closing>>
  PROVE  ProfileInv'
<1>1. \A d \in Callers \ {c} : thread[d].pc = "none"
  BY DEF ProfileInv, ThreadsAlone
<1>2. ProfileShapes'
  BY DEF ProfileInv, ProfileShapes
<1>3. ThreadsAlone'
  BY <1>1 DEF ThreadsAlone
<1>4. LockHeld' /\ ClosedQuiet'
  BY DEF ProfileInv, LockHeld, Inside, ClosedQuiet, Threads
<1> QED BY <1>2, <1>3, <1>4 DEF ProfileInv

LEMMA ThreadReadsKeeps ==
  ASSUME ProfileInv, NEW c \in Callers, ThreadReads(c)
  PROVE  ProfileInv'
<1>1. /\ DOMAIN thread' = Callers /\ DOMAIN thread'[c] = {"pc", "op", "seen", "failed"}
      /\ \A d \in Callers \ {c} : thread'[d] = thread[d]
      /\ thread'[c].pc = "read" => thread'[c].seen = row
  BY DEF ThreadReads, ProfileInv, ProfileShapes
<1>2. thread[c].pc # "none" /\ DOMAIN row = Fields
      /\ UNCHANGED <<closedService, lock, call, closing, row>>
  BY DEF ThreadReads, ProfileInv, ProfileShapes
<1> QED BY <1>1, <1>2, ThreadRuns

LEMMA ThreadWritesKeeps ==
  ASSUME ProfileInv, NEW c \in Callers, ThreadWrites(c)
  PROVE  ProfileInv'
<1>1. /\ DOMAIN thread' = Callers /\ DOMAIN thread'[c] = {"pc", "op", "seen", "failed"}
      /\ \A d \in Callers \ {c} : thread'[d] = thread[d]
      /\ thread'[c].pc = "ended"
  BY DEF ThreadWrites, ProfileInv, ProfileShapes
<1>2. thread[c].pc # "none" /\ UNCHANGED <<closedService, lock, call, closing>>
  BY DEF ThreadWrites
<1>3. DOMAIN row' = Fields
  BY DEF ThreadWrites, Written, ProfileInv, ProfileShapes, ThreadsAlone
<1> QED BY <1>1, <1>2, <1>3, ThreadRuns

LEMMA ThreadBusyKeeps ==
  ASSUME ProfileInv, NEW c \in Callers, ThreadBusy(c)
  PROVE  ProfileInv'
<1>1. /\ DOMAIN thread' = Callers /\ DOMAIN thread'[c] = {"pc", "op", "seen", "failed"}
      /\ \A d \in Callers \ {c} : thread'[d] = thread[d]
      /\ thread'[c].pc = "ended"
  BY DEF ThreadBusy, ProfileInv, ProfileShapes
<1>2. thread[c].pc # "none" /\ DOMAIN row = Fields
      /\ UNCHANGED <<closedService, lock, call, closing, row>>
  BY DEF ThreadBusy, ProfileInv, ProfileShapes
<1> QED BY <1>1, <1>2, ThreadRuns

\* The task of a thread is done: its caller goes on with the lock, or gives it back.
LEMMA ThreadDoneKeeps ==
  ASSUME ProfileInv, NEW c \in Callers, ThreadDone(c)
  PROVE  ProfileInv'
<1>1. /\ DOMAIN thread' = Callers /\ thread'[c] = NoThread
      /\ \A d \in Callers \ {c} : thread'[d] = thread[d]
  BY DEF ThreadDone, ProfileInv, ProfileShapes
<1>2. /\ DOMAIN call' = Callers /\ DOMAIN call'[c] = {"pc", "op", "doing"}
      /\ \A d \in Callers \ {c} : call'[d] = call[d]
  BY DEF ThreadDone, ProfileInv, ProfileShapes
<1>3. UNCHANGED <<closedService, closing, row>>
  BY DEF ThreadDone
<1>4. /\ Inside(c)' => Inside(c) /\ lock' = lock
      /\ lock' = lock \/ Inside(c)
  <2>1. CASE call[c].pc # "waiting"
    BY <2>1 DEF ThreadDone, Inside
  <2>2. CASE call[c].pc = "waiting"
    <3>1. Inside(c)
      BY <2>2 DEF Inside
    <3> DEFINE done == thread[c].failed \/ thread[c].op = call[c].op \/ call[c].op = StartOp
    <3>2. CASE done
      <4>1. call' = [call EXCEPT ![c].pc = IF thread[c].failed THEN "raised" ELSE "returned"]
        BY <2>2, <3>2 DEF ThreadDone
      <4>2. call'[c].pc \in {"raised", "returned"}
        BY <4>1 DEF ProfileInv, ProfileShapes
      <4> QED BY <3>1, <4>2 DEF Inside
    <3>3. CASE ~done
      BY <2>2, <3>1, <3>3 DEF ThreadDone
    <3> QED BY <3>2, <3>3
  <2> QED BY <2>1, <2>2
<1>5. ProfileShapes'
  BY <1>1, <1>2, <1>3 DEF ProfileInv, ProfileShapes, NoThread
<1>6. ThreadsAlone' /\ ClosedQuiet'
  BY <1>1, <1>3 DEF ProfileInv, ThreadsAlone, ClosedQuiet, Threads, NoThread
<1>7. LockHeld'
  BY <1>2, <1>3, <1>4 DEF ProfileInv, LockHeld, Inside
<1> QED BY <1>5, <1>6, <1>7 DEF ProfileInv

LEMMA CloserKeeps ==
  ASSUME ProfileInv, CloseService \/ CloseEnters \/ CloseReturns
  PROVE  ProfileInv'
<1>1. UNCHANGED <<call, thread, row>>
  BY DEF CloseService, CloseEnters, CloseReturns
<1>2. ProfileShapes' /\ ThreadsAlone'
  BY <1>1 DEF ProfileInv, ProfileShapes, ThreadsAlone
<1>3. LockHeld'
  BY <1>1, ProfileAssumption DEF ProfileInv, LockHeld, Inside, CloseService, CloseEnters,
     CloseReturns, Acquire
<1>4. ClosedQuiet'
  BY <1>1 DEF ProfileInv, ClosedQuiet, Threads, NoThreads, CloseService, CloseEnters,
     CloseReturns
<1> QED BY <1>2, <1>3, <1>4 DEF ProfileInv

LEMMA NextKeepsProfile ==
  ASSUME ProfileInv, [Next]_vars
  PROVE  ProfileInv'
<1>1. CASE UNCHANGED profileVars
  BY <1>1 DEF profileVars, ProfileInv, ProfileShapes, ThreadsAlone, LockHeld, Inside,
     ClosedQuiet, Threads
<1>2. CASE ProfileStep
  BY <1>2, EnterKeeps, StartThreadKeeps, ThreadReadsKeeps, ThreadWritesKeeps,
     ThreadBusyKeeps, ThreadDoneKeeps, CloserKeeps DEF ProfileStep, ThreadStep
<1> QED BY <1>1, <1>2, NextMovesProfile, CallKeeps, CancelCallKeeps, CloserKeeps
           DEF ProfileMoves

\* The profile service, whatever plugins and events do with it: its lock is held by whoever is
\* inside, one thread works on the database at a time and with the row as it is, and closing
\* it keeps everybody out.
THEOREM ProfileIsSafe == Spec => []ProfileInv
<1>1. Init => ProfileInv
  BY InitHoldsProfile DEF Init
<1>2. ProfileInv /\ [Next]_vars => ProfileInv'
  BY NextKeepsProfile
<1> QED BY <1>1, <1>2, PTL DEF Spec

\* A step that changes a field of the row is the write of a thread, for that field.
LEMMA WritesOneField ==
  ASSUME ProfileInv, [Next]_vars, NEW f \in Fields, row'[f] # row[f]
  PROVE  \E c \in Callers : /\ ThreadWrites(c)
                            /\ thread[c].op.kind \in {"set", "delete"}
                            /\ thread[c].op.field = f
<1>1. PICK c \in Callers : ThreadWrites(c)
  BY NextMovesProfile DEF ProfileMoves, Call, CancelCall, CloseService, ProfileStep, Enter,
     StartThread, ThreadStep, ThreadReads, ThreadBusy, ThreadDone, CloseEnters, CloseReturns,
     profileVars
<1>2. thread[c].seen = row /\ f \in DOMAIN row
  BY <1>1 DEF ThreadWrites, ProfileInv, ThreadsAlone, ProfileShapes
<1>3. row' = Written(thread[c].op, row) /\ thread[c].op.kind # "get"
  BY <1>1, <1>2 DEF ThreadWrites
<1>4. thread[c].op.kind \in {"set", "delete"} /\ thread[c].op.field = f
  BY <1>2, <1>3 DEF Written
<1> QED BY <1>1, <1>4

\* However calls overlap, are cancelled and leave their threads behind: a write changes the
\* field it is for and no other.
THEOREM FieldsAreApart == Spec => OneFieldAtATime
<1>1. ProfileInv /\ [Next]_vars =>
        [\A f \in Fields : row'[f] # row[f] =>
           \E c \in Callers : /\ ThreadWrites(c)
                              /\ thread[c].op.kind \in {"set", "delete"}
                              /\ thread[c].op.field = f]_vars
  BY WritesOneField
<1> QED BY <1>1, ProfileIsSafe, PTL DEF Spec, OneFieldAtATime

-----------------------------------------------------------------------------
(* The record of a scope, and how each step changes it. *)

ScopeFields == {"pc", "under", "disposers", "left", "visited", "erred", "awaits"}

HeldBy(f) == {f.disposers[i] : i \in DOMAIN f.disposers}

\* While a scope is closed it calls its disposers from the last to the first, and as long as
\* none has failed those called are gone; a scope that is complete has none left.
Sound(f) ==
  /\ DOMAIN f = ScopeFields
  /\ f.pc \in {"none", "open", "closing", "failed", "complete"}
  /\ \E T : f.disposers \in Seq(T)
  /\ f.left \in Nat /\ f.erred \in BOOLEAN /\ f.awaits \in BOOLEAN
  /\ f.pc \in {"none", "complete"} => f.disposers = <<>>
  /\ f.pc = "closing" =>
       /\ f.left <= Len(f.disposers)
       /\ ~f.erred => f.left = Len(f.disposers)
  /\ f.awaits => f.pc = "closing" /\ f.left > 0 /\ f.disposers[f.left].kind = "storage"

LEMMA RemoveAtEffect ==
  ASSUME NEW T, NEW s \in Seq(T), NEW i \in 1..Len(s)
  PROVE  /\ RemoveAt(s, i) \in Seq(T) /\ Len(RemoveAt(s, i)) = Len(s) - 1
         /\ \A j \in 1..(Len(s) - 1) : RemoveAt(s, i)[j] = IF j < i THEN s[j] ELSE s[j + 1]
<1>0. DOMAIN s = 1..Len(s) /\ Len(s) \in Nat
  BY LenProperties
<1> DEFINE a == SubSeq(s, 1, i - 1)
           b == SubSeq(s, i + 1, Len(s))
<1>1. /\ a \in Seq(T) /\ Len(a) = i - 1 /\ \A j \in 1..(i - 1) : a[j] = s[j]
  BY <1>0, SubSeqProperties
<1>2. /\ b \in Seq(T) /\ Len(b) = Len(s) - i /\ \A j \in 1..(Len(s) - i) : b[j] = s[i + j]
  <2>1. i + 1 \in Int /\ Len(s) \in Int /\ \A j \in i + 1..Len(s) : s[j] \in T
    BY <1>0
  <2>2. /\ b \in Seq(T) /\ Len(b) = IF i + 1 <= Len(s) THEN Len(s) - (i + 1) + 1 ELSE 0
        /\ \A j \in 1..Len(s) - (i + 1) + 1 : b[j] = s[i + 1 + j - 1]
    BY <2>1, SubSeqProperties
  <2> HIDE DEF b
  <2>3. ASSUME NEW n \in Nat, NEW m \in 1..n
        PROVE  /\ (IF m + 1 <= n THEN n - (m + 1) + 1 ELSE 0) = n - m
               /\ \A j \in 1..n - m : j \in 1..n - (m + 1) + 1 /\ m + 1 + j - 1 = m + j
    OBVIOUS
  <2>4. /\ (IF i + 1 <= Len(s) THEN Len(s) - (i + 1) + 1 ELSE 0) = Len(s) - i
        /\ \A j \in 1..Len(s) - i : j \in 1..Len(s) - (i + 1) + 1 /\ i + 1 + j - 1 = i + j
    BY <1>0, <2>3
  <2>5. ASSUME NEW j \in 1..Len(s) - i PROVE b[j] = s[i + j]
    BY <2>2, <2>4
  <2>6. Len(b) = Len(s) - i
    BY <2>2, <2>4
  <2> QED BY <2>2, <2>5, <2>6
<1> DEFINE t == a \o b
<1>3. RemoveAt(s, i) = t
  BY DEF RemoveAt
<1> HIDE DEF a, b
<1>4. /\ t \in Seq(T) /\ Len(t) = Len(a) + Len(b)
      /\ \A j \in 1..(Len(a) + Len(b)) : t[j] = IF j <= Len(a) THEN a[j] ELSE b[j - Len(a)]
  BY <1>1, <1>2, ConcatProperties
<1> HIDE DEF t
<1>5. Len(t) = Len(s) - 1
  BY <1>0, <1>1, <1>2, <1>4
<1>6. ASSUME NEW j \in 1..(Len(s) - 1), j < i PROVE t[j] = s[j]
  <2>1. j \in 1..(i - 1) /\ j \in 1..(Len(a) + Len(b)) /\ j <= Len(a)
    BY <1>0, <1>1, <1>2, <1>6
  <2> QED BY <1>1, <1>4, <2>1
<1>7. ASSUME NEW j \in 1..(Len(s) - 1), ~(j < i) PROVE t[j] = s[j + 1]
  <2>1. /\ j - (i - 1) \in 1..(Len(s) - i) /\ j \in 1..(Len(a) + Len(b)) /\ ~(j <= Len(a))
        /\ i + (j - (i - 1)) = j + 1 /\ j - Len(a) = j - (i - 1)
    BY <1>0, <1>1, <1>2, <1>7
  <2> QED BY <1>2, <1>4, <2>1
<1> QED BY <1>3, <1>4, <1>5, <1>6, <1>7

LEMMA SoundWhenOpened ==
  ASSUME NEW u
  PROVE  /\ Sound([NoScope EXCEPT !.pc = "open", !.under = u])
         /\ HeldBy([NoScope EXCEPT !.pc = "open", !.under = u]) = {}
<1>1. <<>> \in Seq({}) /\ DOMAIN <<>> = {}
  OBVIOUS
<1> QED BY <1>1 DEF Sound, NoScope, ScopeFields, HeldBy

LEMMA SoundWhenOwning ==
  ASSUME NEW f, Sound(f), f.pc = "open", NEW d
  PROVE  /\ Sound([f EXCEPT !.disposers = Append(@, d)])
         /\ HeldBy([f EXCEPT !.disposers = Append(@, d)]) = HeldBy(f) \cup {d}
<1> DEFINE g == [f EXCEPT !.disposers = Append(@, d)]
<1>1. PICK S : f.disposers \in Seq(S)
  BY DEF Sound
<1>2. PICK s : s = f.disposers
  OBVIOUS
<1>3. s \in Seq(S \cup {d})
  BY <1>1, <1>2, SeqMonotonic
<1>4. /\ Append(s, d) \in Seq(S \cup {d}) /\ DOMAIN s = 1..Len(s) /\ Len(s) \in Nat
      /\ DOMAIN Append(s, d) = 1..Len(s) + 1
      /\ \A i \in 1..Len(s) : Append(s, d)[i] = s[i]
      /\ Append(s, d)[Len(s) + 1] = d
  BY <1>3, AppendProperties, LenProperties
<1>5. /\ DOMAIN g = ScopeFields /\ g.disposers = Append(s, d) /\ g.pc = "open"
      /\ g.left = f.left /\ g.erred = f.erred /\ g.awaits = f.awaits
  BY <1>2 DEF Sound, ScopeFields
<1>6. HeldBy(g) = {s[i] : i \in 1..Len(s)} \cup {d}
  <2> HIDE DEF g
  <2>1. HeldBy(g) = {Append(s, d)[i] : i \in 1..Len(s) + 1}
    BY <1>4, <1>5 DEF HeldBy
  <2>2. 1..Len(s) + 1 = 1..Len(s) \cup {Len(s) + 1}
    BY <1>4
  <2> QED BY <1>4, <2>1, <2>2
<1>7. HeldBy(f) = {s[i] : i \in 1..Len(s)}
  BY <1>2, <1>4 DEF HeldBy
<1> HIDE DEF g
<1>8. Sound(g)
  BY <1>4, <1>5 DEF Sound
<1>9. HeldBy(g) = HeldBy(f) \cup {d}
  BY <1>6, <1>7
<1> QED BY <1>8, <1>9 DEF g

LEMMA SoundWhileClosing ==
  ASSUME NEW g, NEW T, NEW s \in Seq(T), NEW n \in Nat, NEW e \in BOOLEAN, NEW a \in BOOLEAN,
         DOMAIN g = ScopeFields, g.pc = "closing", g.disposers = s, g.left = n, g.erred = e,
         g.awaits = a, n <= Len(s), ~e => n = Len(s),
         a => n > 0 /\ s[n].kind = "storage"
  PROVE  Sound(g)
<1>1. \E U : g.disposers \in Seq(U)
  BY Zenon
<1> QED BY <1>1 DEF Sound

\* The record of a scope that begins to be closed.
Shut(f) == [f EXCEPT !.pc = "closing", !.left = Len(f.disposers), !.visited = FALSE,
                     !.erred = FALSE]

LEMMA SoundWhenShut ==
  ASSUME NEW f, Sound(f), f.pc \in {"open", "failed"}
  PROVE  Sound(Shut(f)) /\ HeldBy(Shut(f)) = HeldBy(f)
<1>1. PICK S : f.disposers \in Seq(S)
  BY DEF Sound
<1>2. Len(f.disposers) \in Nat
  BY <1>1, LenProperties
<1>3. /\ DOMAIN Shut(f) = ScopeFields /\ Shut(f).disposers = f.disposers
      /\ Shut(f).pc = "closing" /\ Shut(f).left = Len(f.disposers) /\ Shut(f).erred = FALSE
      /\ Shut(f).awaits = FALSE
  BY DEF Sound, ScopeFields, Shut
<1> HIDE DEF Shut
<1>4. Sound(Shut(f))
  <2>1. PICK s : s = f.disposers
    OBVIOUS
  <2>2. PICK n : n = Len(s)
    OBVIOUS
  <2>3. s \in Seq(S) /\ n \in Nat /\ n <= Len(s) /\ n = Len(s)
    BY <1>1, <1>2, <2>1, <2>2
  <2>4. Shut(f).disposers = s /\ Shut(f).left = n
    BY <1>3, <2>1, <2>2
  <2> QED BY <1>3, <2>3, <2>4, SoundWhileClosing
<1>5. HeldBy(Shut(f)) = HeldBy(f)
  BY <1>3 DEF HeldBy
<1> QED BY <1>4, <1>5

LEMMA SoundWhenVisited ==
  ASSUME NEW f, Sound(f), NEW v
  PROVE  Sound([f EXCEPT !.visited = v]) /\ HeldBy([f EXCEPT !.visited = v]) = HeldBy(f)
<1> DEFINE g == [f EXCEPT !.visited = v]
<1>1. /\ DOMAIN g = ScopeFields /\ g.disposers = f.disposers /\ g.pc = f.pc /\ g.left = f.left
      /\ g.erred = f.erred /\ g.awaits = f.awaits
  BY DEF Sound, ScopeFields
<1> HIDE DEF g
<1>2. Sound(g) /\ HeldBy(g) = HeldBy(f)
  BY <1>1 DEF Sound, HeldBy
<1> QED BY <1>2 DEF g

\* Its next disposer has been called.
Called(f) == [f EXCEPT !.disposers = RemoveAt(@, f.left), !.left = @ - 1, !.awaits = FALSE]

LEMMA SoundWhenCalled ==
  ASSUME NEW f, Sound(f), f.pc = "closing", f.left > 0
  PROVE  /\ Sound(Called(f))
         /\ HeldBy(Called(f)) \subseteq HeldBy(f)
         /\ HeldBy(f) \ {f.disposers[f.left]} \subseteq HeldBy(Called(f))
<1>1. PICK S : f.disposers \in Seq(S)
  BY DEF Sound
<1>2. PICK s : s = f.disposers
  OBVIOUS
<1>3. PICK n : n = f.left
  OBVIOUS
<1>4. /\ s \in Seq(S) /\ Len(s) \in Nat /\ DOMAIN s = 1..Len(s) /\ n \in 1..Len(s)
      /\ ~f.erred => n = Len(s)
  BY <1>1, <1>2, <1>3, LenProperties DEF Sound
<1>5. PICK t : t = RemoveAt(s, n)
  OBVIOUS
<1>6. /\ t \in Seq(S) /\ Len(t) = Len(s) - 1 /\ DOMAIN t = 1..(Len(s) - 1)
      /\ \A j \in 1..(Len(s) - 1) : t[j] = IF j < n THEN s[j] ELSE s[j + 1]
  <2>1. /\ t \in Seq(S) /\ Len(t) = Len(s) - 1
        /\ \A j \in 1..(Len(s) - 1) : t[j] = IF j < n THEN s[j] ELSE s[j + 1]
    BY <1>4, <1>5, RemoveAtEffect, Zenon
  <2>2. DOMAIN t = 1..Len(t)
    BY <2>1, LenProperties, Zenon
  <2> QED BY <2>1, <2>2, Zenon
<1>7. /\ DOMAIN Called(f) = ScopeFields /\ Called(f).disposers = t
      /\ Called(f).pc = "closing" /\ Called(f).left = n - 1 /\ Called(f).erred = f.erred
      /\ Called(f).awaits = FALSE
  <2>1. PICK k : k = f.left - 1
    OBVIOUS
  <2>2. Called(f) = [f EXCEPT !.disposers = t, !.left = k, !.awaits = FALSE]
    BY <1>2, <1>3, <1>5, <2>1 DEF Called
  <2>3. DOMAIN f = ScopeFields /\ k = n - 1
    BY <1>3, <2>1 DEF Sound
  <2> QED BY <2>2, <2>3 DEF ScopeFields
<1>8. Sound(Called(f))
  <2>1. ASSUME NEW m \in Nat, NEW i \in 1..m
        PROVE  i - 1 \in Nat /\ i - 1 <= m - 1 /\ (i = m => i - 1 = m - 1)
    OBVIOUS
  <2>2. PICK k : k = n - 1
    OBVIOUS
  <2>3. k \in Nat /\ k <= Len(t) /\ (~f.erred => k = Len(t)) /\ f.erred \in BOOLEAN
    BY <1>4, <1>6, <2>1, <2>2 DEF Sound
  <2>4. Called(f).left = k
    BY <1>7, <2>2
  <2> HIDE DEF Called
  <2> QED BY <1>6, <1>7, <2>3, <2>4, SoundWhileClosing
<1>9. ASSUME NEW j \in 1..(Len(s) - 1) PROVE \E k \in 1..Len(s) : t[j] = s[k]
  <2>0. ASSUME NEW m \in Nat, NEW i \in 1..(m - 1) PROVE i \in 1..m /\ i + 1 \in 1..m
    OBVIOUS
  <2>1. j \in 1..Len(s) /\ j + 1 \in 1..Len(s)
    BY <1>4, <2>0
  <2> QED BY <1>6, <2>1
<1>10. ASSUME NEW k \in 1..Len(s), k # n PROVE \E j \in 1..(Len(s) - 1) : t[j] = s[k]
  <2>0. ASSUME NEW m \in Nat, NEW i \in 1..m, NEW l \in 1..m, l # i
        PROVE  \/ l \in 1..(m - 1) /\ l < i
               \/ l - 1 \in 1..(m - 1) /\ ~(l - 1 < i) /\ (l - 1) + 1 = l
    BY <2>0
  <2>1. \/ k \in 1..(Len(s) - 1) /\ k < n
        \/ k - 1 \in 1..(Len(s) - 1) /\ ~(k - 1 < n) /\ (k - 1) + 1 = k
    BY <1>4, <1>10, <2>0
  <2> QED BY <1>6, <2>1
<1>11. HeldBy(Called(f)) = {t[j] : j \in 1..(Len(s) - 1)} /\ HeldBy(f) = {s[k] : k \in 1..Len(s)}
  BY <1>2, <1>4, <1>6, <1>7 DEF HeldBy
<1>12. HeldBy(Called(f)) \subseteq HeldBy(f)
  BY <1>9, <1>11
<1>13. HeldBy(f) \ {s[n]} \subseteq HeldBy(Called(f))
  BY <1>10, <1>11
<1> QED BY <1>2, <1>3, <1>8, <1>12, <1>13

\* Its next disposer has failed.
Skipped(f) == [f EXCEPT !.left = @ - 1, !.erred = TRUE]

LEMMA SoundWhenSkipped ==
  ASSUME NEW f, Sound(f), f.pc = "closing", f.left > 0, ~f.awaits
  PROVE  Sound(Skipped(f)) /\ HeldBy(Skipped(f)) = HeldBy(f)
<1>1. /\ DOMAIN Skipped(f) = ScopeFields /\ Skipped(f).disposers = f.disposers
      /\ Skipped(f).pc = "closing" /\ Skipped(f).left = f.left - 1 /\ Skipped(f).erred = TRUE
      /\ Skipped(f).awaits = f.awaits
  BY DEF Sound, ScopeFields, Skipped
<1>2. Len(f.disposers) \in Nat
  <2>1. PICK S : f.disposers \in Seq(S)
    BY DEF Sound
  <2> QED BY <2>1, LenProperties
<1>3. f.left - 1 \in Nat /\ f.left - 1 <= Len(f.disposers)
  BY <1>2 DEF Sound
<1> QED BY <1>1, <1>3 DEF Sound, HeldBy

\* Its next disposer has begun to close the profile service.
Waits(f) == [f EXCEPT !.awaits = TRUE]

LEMMA SoundWhenWaiting ==
  ASSUME NEW f, Sound(f), f.pc = "closing", f.left > 0, f.disposers[f.left].kind = "storage"
  PROVE  Sound(Waits(f)) /\ HeldBy(Waits(f)) = HeldBy(f)
<1>1. /\ DOMAIN Waits(f) = ScopeFields /\ Waits(f).disposers = f.disposers
      /\ Waits(f).pc = f.pc /\ Waits(f).left = f.left /\ Waits(f).erred = f.erred
      /\ Waits(f).awaits = TRUE
  BY DEF Sound, ScopeFields, Waits
<1> QED BY <1>1 DEF Sound, HeldBy

\* It is closed, or has failed.
LEMMA SoundWhenDone ==
  ASSUME NEW f, Sound(f), f.pc = "closing", ~f.awaits, NEW pc,
         pc = "failed" \/ (pc = "complete" /\ f.left = 0 /\ ~f.erred)
  PROVE  Sound([f EXCEPT !.pc = pc]) /\ HeldBy([f EXCEPT !.pc = pc]) = HeldBy(f)
<1> DEFINE g == [f EXCEPT !.pc = pc]
<1>1. /\ DOMAIN g = ScopeFields /\ g.disposers = f.disposers /\ g.pc = pc /\ g.left = f.left
      /\ g.erred = f.erred /\ g.awaits = f.awaits
  BY DEF Sound, ScopeFields
<1>2. pc = "complete" => f.disposers = <<>>
  <2>1. PICK S : f.disposers \in Seq(S)
    BY DEF Sound
  <2> QED BY <2>1, EmptySeq DEF Sound
<1> HIDE DEF g
<1>3. Sound(g) /\ HeldBy(g) = HeldBy(f)
  BY <1>1, <1>2 DEF Sound, HeldBy
<1> QED BY <1>3 DEF g

-----------------------------------------------------------------------------
(* Activations and scopes: who is closed, and why. *)

Scopes == Plugins \cup {Root}

HostShapes ==
  /\ DOMAIN activation = Plugins /\ \A p \in Plugins : DOMAIN activation[p] = {"pc", "at"}
  /\ DOMAIN scope = Scopes /\ \A s \in Scopes : Sound(scope[s])
  /\ pluginScopes \in Seq(Plugins)

\* The chain consists of plugins whose factories have returned.
ChainActive == \A i \in DOMAIN pluginScopes : activation[pluginScopes[i]].pc = "active"

ScopesOpened == \A p \in Plugins : activation[p].pc = "idle" <=> scope[p].pc = "none"

\* Why a scope may be closed: the manager is, or its activation has failed.
Justified(s) == closed \/ (s \in Plugins /\ activation[s].pc \in {"rollback", "failed"})

ClosingsKnown ==
  \A s \in Scopes : scope[s].pc \in {"closing", "failed", "complete"} => Justified(s)

\* Whoever is being activated on a closed manager was when aclose was called.
InFlightOvertaken == closed => \A p \in Plugins : InFlight(p) => p \in overtaken

\* A plugin lies below the manager or one that is active.
Parents ==
  \A p \in Plugins : scope[p].pc # "none" =>
    scope[p].under = Root \/ (scope[p].under \in Plugins /\ activation[scope[p].under].pc = "active")

RootKept ==
  /\ cleanup # "none" => closed
  /\ cleanup \in {"none", "created", "failed"} => scope[Root].pc \in {"open", "failed"}

\* Nothing comes below a scope that calls its disposers.
BelowGone == \A s \in Scopes : scope[s].awaits => Below(s) = {}

ControlInv ==
  /\ HostShapes /\ ChainActive /\ ScopesOpened /\ ClosingsKnown /\ InFlightOvertaken
  /\ Parents /\ RootKept /\ BelowGone

LEMMA InitControl ==
  ASSUME Init
  PROVE  ControlInv
<1>1. <<>> \in Seq(Plugins) /\ <<>> \in Seq({}) /\ DOMAIN <<>> = {}
  OBVIOUS
<1>2. /\ Sound(NoScope) /\ Sound([NoScope EXCEPT !.pc = "open"])
      /\ NoScope.pc = "none" /\ ~NoScope.awaits
      /\ [NoScope EXCEPT !.pc = "open"].pc = "open" /\ ~[NoScope EXCEPT !.pc = "open"].awaits
  BY <1>1 DEF Sound, NoScope, ScopeFields
<1>3. /\ DOMAIN scope = Scopes
      /\ scope[Root] = [NoScope EXCEPT !.pc = "open"] /\ \A p \in Plugins : scope[p] = NoScope
  BY HostAssumption DEF Init, Scopes
<1>4. \A s \in Scopes : Sound(scope[s]) /\ ~scope[s].awaits /\ scope[s].pc \in {"none", "open"}
  BY <1>2, <1>3 DEF Scopes
<1>5. HostShapes
  BY <1>1, <1>3, <1>4 DEF Init, HostShapes
<1>6. ChainActive /\ ScopesOpened
  BY <1>1, <1>2, <1>3 DEF Init, ChainActive, ScopesOpened
<1>7. ClosingsKnown /\ InFlightOvertaken /\ BelowGone
  BY <1>4 DEF Init, ClosingsKnown, InFlightOvertaken, BelowGone
<1>8. Parents /\ RootKept
  BY <1>2, <1>3 DEF Init, Parents, RootKept
<1> QED BY <1>5, <1>6, <1>7, <1>8 DEF ControlInv

\* How the activation of a plugin may go on, but for its start.
Goes(p) ==
  \/ activation'[p].pc = activation[p].pc
  \/ /\ InFlight(p) /\ activation'[p].pc # "idle"
     /\ activation[p].pc = "rollback" => activation'[p].pc = "failed"

\* How a scope may change, but for its opening.
Settles(s) ==
  /\ Sound(scope'[s]) /\ scope'[s].under = scope[s].under
  /\ \/ scope'[s].pc = scope[s].pc
     \/ /\ scope[s].pc \in {"open", "closing", "failed"}
        /\ scope'[s].pc \in {"closing", "failed", "complete"}
        /\ Justified(s)'
        /\ s = Root => scope[s].pc = "closing"
  /\ scope'[s].awaits => scope[s].awaits \/ Below(s) = {}

LEMMA Resettled ==
  ASSUME ControlInv, UNCHANGED <<closed, overtaken, cleanup>>,
         DOMAIN activation' = Plugins, \A p \in Plugins : DOMAIN activation'[p] = {"pc", "at"},
         pluginScopes' \in Seq(Plugins), ChainActive',
         DOMAIN scope' = Scopes,
         \A p \in Plugins : Goes(p),
         \A s \in Scopes : Settles(s)
  PROVE  ControlInv'
<1>0. Plugins \subseteq Scopes /\ Root \in Scopes
  BY DEF Scopes
<1>1. HostShapes'
  BY DEF HostShapes, Settles
<1>2. ScopesOpened'
  BY <1>0 DEF ControlInv, ScopesOpened, Goes, InFlight, Settles
<1>3. ClosingsKnown'
  <2>1. ASSUME NEW s \in Scopes, Justified(s) PROVE Justified(s)'
    BY <2>1 DEF Justified, Goes, InFlight
  <2> QED BY <2>1 DEF ControlInv, ClosingsKnown, Settles
<1>4. InFlightOvertaken'
  BY DEF ControlInv, InFlightOvertaken, Goes, InFlight
<1>5. Parents'
  <2>1. \A q \in Plugins : activation[q].pc = "active" => activation'[q].pc = "active"
    BY DEF Goes, InFlight
  <2> QED BY <1>0, <2>1 DEF ControlInv, Parents, Settles
<1>6. RootKept'
  BY <1>0 DEF ControlInv, RootKept, Settles
<1>7. BelowGone'
  <2>1. ASSUME NEW s \in Scopes PROVE Below(s)' \subseteq Below(s)
    BY <1>0 DEF Below, Settles
  <2> QED BY <2>1 DEF ControlInv, BelowGone, Settles
<1> QED BY <1>1, <1>2, <1>3, <1>4, <1>5, <1>6, <1>7 DEF ControlInv

LEMMA AtRestSettles ==
  ASSUME ControlInv, NEW s \in Scopes, scope'[s] = scope[s]
  PROVE  Settles(s)
BY DEF ControlInv, HostShapes, Settles

\* The activation of p goes on, whose scope stays.
LEMMA ActivationGoesOn ==
  ASSUME ControlInv, NEW p \in Plugins, InFlight(p), NEW a, DOMAIN a = {"pc", "at"},
         a.pc # "idle", activation[p].pc = "rollback" => a.pc = "failed",
         activation' = [activation EXCEPT ![p] = a],
         pluginScopes' = pluginScopes
           \/ (pluginScopes' = Append(pluginScopes, p) /\ a.pc = "active"),
         DOMAIN scope' = Scopes, \A s \in Scopes : Settles(s),
         UNCHANGED <<closed, overtaken, cleanup>>
  PROVE  ControlInv'
<1>1. /\ DOMAIN activation' = Plugins /\ activation'[p] = a
      /\ \A q \in Plugins \ {p} : activation'[q] = activation[q]
      /\ \A q \in Plugins : DOMAIN activation'[q] = {"pc", "at"}
  BY DEF ControlInv, HostShapes
<1>2. \A q \in Plugins : Goes(q)
  BY <1>1 DEF Goes
<1>3. /\ pluginScopes \in Seq(Plugins) /\ DOMAIN pluginScopes = 1..Len(pluginScopes)
      /\ Len(pluginScopes) \in Nat
  BY LenProperties DEF ControlInv, HostShapes
<1>4. \A i \in DOMAIN pluginScopes :
        pluginScopes[i] \in Plugins \ {p} /\ activation'[pluginScopes[i]].pc = "active"
  BY <1>1, <1>3 DEF ControlInv, ChainActive, InFlight
<1>5. pluginScopes' \in Seq(Plugins) /\ ChainActive'
  <2>1. CASE pluginScopes' = pluginScopes
    BY <1>3, <1>4, <2>1 DEF ChainActive
  <2>2. CASE pluginScopes' = Append(pluginScopes, p) /\ a.pc = "active"
    <3>1. PICK r, n : r = Append(pluginScopes, p) /\ n = Len(pluginScopes)
      OBVIOUS
    <3>2. /\ r \in Seq(Plugins) /\ n \in Nat /\ DOMAIN r = 1..n + 1 /\ r[n + 1] = p
          /\ \A i \in 1..n : r[i] = pluginScopes[i]
      BY <1>3, <3>1, AppendProperties, LenProperties
    <3>3. \A i \in 1..n + 1 : i \in 1..n \/ i = n + 1
      BY <3>2
    <3>4. \A i \in DOMAIN r : activation'[r[i]].pc = "active"
      BY <1>1, <1>3, <1>4, <2>2, <3>1, <3>2, <3>3
    <3> QED BY <2>2, <3>1, <3>2, <3>4 DEF ChainActive
  <2> QED BY <2>1, <2>2
<1> QED BY <1>1, <1>2, <1>5, Resettled

\* A scope calls no disposer of its own and goes on waiting for none but the same.
Keeps(s) ==
  /\ HeldBy(scope[s]) \subseteq HeldBy(scope'[s])
  /\ scope'[s].awaits => scope[s].awaits /\ Disposer(s)' = Disposer(s)

\* A step takes scopes on as the invariant has it, and gives s at most the disposer d.
Onward(s, d) ==
  /\ ControlInv'
  /\ \A t \in Scopes : Keeps(t)
  /\ \A t \in Scopes : HeldBy(scope'[t]) \subseteq HeldBy(scope[t])
                                                \cup (IF t = s THEN {d} ELSE {})

LEMMA OneChanges ==
  ASSUME ControlInv, NEW s \in Scopes, NEW g, scope' = [scope EXCEPT ![s] = g]
  PROVE  /\ DOMAIN scope' = Scopes /\ scope'[s] = g
         /\ \A t \in Scopes \ {s} : scope'[t] = scope[t] /\ Settles(t) /\ Keeps(t)
<1>1. /\ DOMAIN scope' = Scopes /\ scope'[s] = g
      /\ \A t \in Scopes \ {s} : scope'[t] = scope[t]
  BY DEF ControlInv, HostShapes
<1>2. ASSUME NEW t \in Scopes \ {s} PROVE Keeps(t)
  BY <1>1 DEF Keeps, Disposer
<1> QED BY <1>1, <1>2, AtRestSettles

LEMMA ClosingIsShut ==
  ASSUME ControlInv, NEW s \in Scopes
  PROVE  Closing(s) = [scope EXCEPT ![s] = Shut(scope[s])]
BY DEF Closing, Shut, ControlInv, HostShapes

\* The scope s begins to be closed.
LEMMA ShutSettles ==
  ASSUME ControlInv, NEW s \in Scopes, scope[s].pc \in {"open", "failed"}, scope' = Closing(s),
         Justified(s)', s # Root
  PROVE  /\ DOMAIN scope' = Scopes
         /\ \A t \in Scopes : Settles(t) /\ Keeps(t) /\ HeldBy(scope'[t]) = HeldBy(scope[t])
<1>1. Sound(scope[s])
  BY DEF ControlInv, HostShapes
<1>2. /\ Sound(Shut(scope[s])) /\ HeldBy(Shut(scope[s])) = HeldBy(scope[s])
      /\ Shut(scope[s]).pc = "closing" /\ Shut(scope[s]).under = scope[s].under
      /\ Shut(scope[s]).awaits = FALSE
  <2>1. /\ Shut(scope[s]).pc = "closing" /\ Shut(scope[s]).under = scope[s].under
        /\ Shut(scope[s]).awaits = scope[s].awaits /\ scope[s].awaits = FALSE
    BY <1>1 DEF Sound, Shut, ScopeFields
  <2> QED BY <1>1, <2>1, SoundWhenShut
<1>3. PICK g : g = Shut(scope[s])
  OBVIOUS
<1>4. /\ DOMAIN scope' = Scopes /\ scope'[s] = g
      /\ \A t \in Scopes \ {s} : scope'[t] = scope[t] /\ Settles(t) /\ Keeps(t)
  BY <1>3, ClosingIsShut, OneChanges
<1>5. Settles(s)
  BY <1>2, <1>3, <1>4 DEF Settles
<1>6. Keeps(s)
  BY <1>2, <1>3, <1>4 DEF Keeps
<1> QED BY <1>2, <1>3, <1>4, <1>5, <1>6

\* The activation of p fails, and its scope is closed.
LEMMA RollbackGoesOn ==
  ASSUME ControlInv, NEW p \in Plugins, InFlight(p), activation[p].pc # "rollback", Rollback(p),
         UNCHANGED managerVars
  PROVE  /\ ControlInv'
         /\ \A t \in Scopes : Keeps(t) /\ HeldBy(scope'[t]) = HeldBy(scope[t])
<1>0. p \in Scopes /\ p # Root
  BY HostAssumption DEF Scopes
<1>1. PICK a : a = [activation[p] EXCEPT !.pc = "rollback"]
  OBVIOUS
<1>2. /\ activation' = [activation EXCEPT ![p] = a] /\ DOMAIN a = {"pc", "at"}
      /\ a.pc = "rollback" /\ activation'[p].pc = "rollback"
  BY <1>1 DEF Rollback, ControlInv, HostShapes
<1>3. Justified(p)'
  BY <1>2 DEF Justified
<1>4. /\ DOMAIN scope' = Scopes
      /\ \A t \in Scopes : Settles(t) /\ Keeps(t) /\ HeldBy(scope'[t]) = HeldBy(scope[t])
  <2>1. CASE scope[p].pc \in {"open", "failed"}
    BY <1>0, <1>3, <2>1, ShutSettles DEF Rollback
  <2>2. CASE scope[p].pc \notin {"open", "failed"}
    <3>1. scope' = scope
      BY <2>2 DEF Rollback
    <3> QED BY <3>1, AtRestSettles DEF Keeps, Disposer, ControlInv, HostShapes
  <2> QED BY <2>1, <2>2
<1>5. ControlInv'
  BY <1>2, <1>4, ActivationGoesOn DEF managerVars
<1> QED BY <1>4, <1>5

\* The scope of p takes the disposer d, or refuses it and the activation fails.
LEMMA OwningGoesOn ==
  ASSUME ControlInv, NEW p \in Plugins, InFlight(p), activation[p].pc # "rollback", NEW d,
         Owning(p, d), UNCHANGED managerVars
  PROVE  /\ Onward(p, d)
         /\ scope[p].pc = "open" => d \in HeldBy(scope'[p])
<1>0. p \in Scopes /\ p # Root
  BY HostAssumption DEF Scopes
<1>1. CASE scope[p].pc # "open"
  <2>1. Rollback(p)
    BY <1>1 DEF Owning
  <2> QED BY <1>1, <2>1, RollbackGoesOn DEF Onward
<1>2. CASE scope[p].pc = "open"
  <2>1. PICK a : a = [pc |-> "factory", at |-> activation[p].at + 1]
    OBVIOUS
  <2>2. activation' = [activation EXCEPT ![p] = a] /\ DOMAIN a = {"pc", "at"} /\ a.pc = "factory"
    BY <1>2, <2>1 DEF Owning
  <2>3. PICK f : f = scope[p]
    OBVIOUS
  <2>4. PICK g : g = [f EXCEPT !.disposers = Append(@, d)]
    OBVIOUS
  <2>5. scope' = [scope EXCEPT ![p] = g]
    BY <1>2, <2>3, <2>4 DEF Owning
  <2>6. /\ DOMAIN scope' = Scopes /\ scope'[p] = g
        /\ \A t \in Scopes \ {p} : scope'[t] = scope[t] /\ Settles(t) /\ Keeps(t)
    BY <1>0, <2>5, OneChanges
  <2>7. Sound(f) /\ f.pc = "open"
    BY <1>0, <1>2, <2>3 DEF ControlInv, HostShapes
  <2>8. Sound(g) /\ HeldBy(g) = HeldBy(f) \cup {d}
    BY <2>4, <2>7, SoundWhenOwning
  <2>9. g.under = f.under /\ g.pc = f.pc /\ g.awaits = FALSE
    BY <2>4, <2>7 DEF Sound, ScopeFields
  <2>10. Settles(p) /\ Keeps(p)
    BY <2>3, <2>6, <2>8, <2>9 DEF Settles, Keeps
  <2>11. ControlInv'
    BY <2>2, <2>6, <2>10, ActivationGoesOn DEF managerVars
  <2>12. \A t \in Scopes : HeldBy(scope'[t]) \subseteq HeldBy(scope[t])
                                                        \cup (IF t = p THEN {d} ELSE {})
    BY <2>3, <2>6, <2>8
  <2> QED BY <2>3, <2>6, <2>8, <2>10, <2>11, <2>12 DEF Onward
<1> QED BY <1>1, <1>2

\* The scopes move, but the activations and the manager do not.
LEMMA ScopesMove ==
  ASSUME ControlInv, UNCHANGED <<managerVars, activation>>, DOMAIN scope' = Scopes,
         \A s \in Scopes : Settles(s)
  PROVE  ControlInv'
<1>1. UNCHANGED <<closed, overtaken, cleanup, pluginScopes, activation>>
  BY DEF managerVars
<1>2. /\ DOMAIN activation' = Plugins /\ \A p \in Plugins : DOMAIN activation'[p] = {"pc", "at"}
      /\ pluginScopes' \in Seq(Plugins) /\ ChainActive' /\ \A p \in Plugins : Goes(p)
  BY <1>1 DEF ControlInv, HostShapes, ChainActive, Goes
<1> QED BY <1>1, <1>2, Resettled

\* A scope that is being closed is so for a reason that reaches what lies below it.
LEMMA BelowJustified ==
  ASSUME ControlInv, NEW s \in Scopes, scope[s].pc = "closing", NEW p \in Below(s)
  PROVE  Justified(p) /\ p \in Plugins
<1>1. p \in Plugins /\ scope[p].pc # "none" /\ scope[p].under = s
  BY DEF Below
<1>2. Justified(s)
  BY DEF ControlInv, ClosingsKnown
<1>3. s = Root \/ activation[s].pc = "active"
  BY <1>1 DEF ControlInv, Parents
<1> QED BY <1>1, <1>2, <1>3, HostAssumption DEF Justified

LEMMA CloseBelowGoesOn ==
  ASSUME ControlInv, NEW s \in Scopes, CloseBelow(s)
  PROVE  /\ ControlInv'
         /\ \A t \in Scopes : Keeps(t) /\ HeldBy(scope'[t]) = HeldBy(scope[t])
<1>0. UNCHANGED <<managerVars, activation>> /\ scope[s].pc = "closing"
  BY DEF CloseBelow
<1>1. PICK p \in Below(s) :
        scope' = [(IF scope[p].pc = "closing" THEN scope ELSE Closing(p)) EXCEPT ![s].visited = TRUE]
  BY DEF CloseBelow
<1>2. p \in Plugins /\ Justified(p) /\ p \in Scopes /\ scope[p].pc \notin {"none", "complete"}
  BY <1>0, BelowJustified DEF Below, Scopes
<1>3. Justified(p)'
  BY <1>0, <1>2 DEF Justified, managerVars
<1>4. PICK f, g : f = scope[s] /\ g = [f EXCEPT !.visited = TRUE]
  OBVIOUS
<1>5. Sound(f) /\ DOMAIN f = ScopeFields
  BY <1>4 DEF ControlInv, HostShapes, Sound
<1>6. /\ Sound(g) /\ HeldBy(g) = HeldBy(f) /\ g.pc = f.pc /\ g.under = f.under
      /\ g.awaits = f.awaits /\ g.disposers = f.disposers /\ g.left = f.left
  BY <1>4, <1>5, SoundWhenVisited DEF ScopeFields
<1>7. ASSUME scope'[s] = g PROVE Settles(s) /\ Keeps(s) /\ HeldBy(scope'[s]) = HeldBy(scope[s])
  <2>1. Settles(s)
    BY <1>4, <1>6, <1>7 DEF Settles
  <2>2. Keeps(s)
    BY <1>4, <1>6, <1>7 DEF Keeps, Disposer
  <2> QED BY <1>4, <1>6, <1>7, <2>1, <2>2
<1>8. CASE scope[p].pc = "closing"
  <2>1. scope' = [scope EXCEPT ![s] = g]
    BY <1>1, <1>4, <1>8
  <2>2. /\ DOMAIN scope' = Scopes /\ scope'[s] = g
        /\ \A t \in Scopes \ {s} : scope'[t] = scope[t] /\ Settles(t) /\ Keeps(t)
    BY <2>1, OneChanges
  <2> QED BY <1>0, <1>7, <2>2, ScopesMove
<1>9. CASE scope[p].pc # "closing"
  <2>0. p # s /\ p # Root /\ scope[p].pc \in {"open", "failed"}
    BY <1>0, <1>2, <1>9, HostAssumption DEF ControlInv, HostShapes, Sound
  <2>1. PICK h : h = Shut(scope[p])
    OBVIOUS
  <2>2. scope' = [[scope EXCEPT ![p] = h] EXCEPT ![s].visited = TRUE]
    BY <1>1, <1>2, <1>9, <2>1, ClosingIsShut
  <2>3. /\ DOMAIN scope' = Scopes /\ scope'[s] = g /\ scope'[p] = h
        /\ \A t \in Scopes \ {s, p} : scope'[t] = scope[t]
    BY <1>2, <1>4, <2>0, <2>2 DEF ControlInv, HostShapes
  <2>4. Sound(scope[p]) /\ DOMAIN scope[p] = ScopeFields /\ ~scope[p].awaits
    BY <1>2, <2>0 DEF ControlInv, HostShapes, Sound
  <2>5. /\ Sound(h) /\ HeldBy(h) = HeldBy(scope[p]) /\ h.pc = "closing"
        /\ h.under = scope[p].under /\ ~h.awaits
    BY <2>0, <2>1, <2>4, SoundWhenShut DEF Shut, ScopeFields
  <2>6. Settles(p) /\ Keeps(p)
    BY <1>3, <2>0, <2>3, <2>5 DEF Settles, Keeps
  <2>7. \A t \in Scopes \ {s, p} : Settles(t) /\ Keeps(t)
    BY <2>3, AtRestSettles DEF Keeps, Disposer
  <2> QED BY <1>0, <1>7, <2>3, <2>5, <2>6, <2>7, ScopesMove
<1> QED BY <1>8, <1>9

\* The scope s has called its next disposer.
LEMMA CalledGoesOn ==
  ASSUME ControlInv, NEW s \in Scopes, NEW kind, Disposing(s, kind), Disposed(s),
         UNCHANGED <<managerVars, activation>>
  PROVE  /\ ControlInv'
         /\ \A t \in Scopes \ {s} : Keeps(t)
         /\ \A t \in Scopes : HeldBy(scope'[t]) \subseteq HeldBy(scope[t])
         /\ HeldBy(scope[s]) \ {Disposer(s)} \subseteq HeldBy(scope'[s])
         /\ ~scope'[s].awaits
<1>1. PICK f : f = scope[s]
  OBVIOUS
<1>2. Sound(f) /\ f.pc = "closing" /\ f.left > 0 /\ DOMAIN f = ScopeFields
  BY <1>1 DEF ControlInv, HostShapes, Disposing, Sound
<1>3. PICK g : g = Called(f)
  OBVIOUS
<1>4. scope' = [scope EXCEPT ![s] = g]
  BY <1>1, <1>3 DEF Disposed, Called
<1>5. /\ DOMAIN scope' = Scopes /\ scope'[s] = g
      /\ \A t \in Scopes \ {s} : scope'[t] = scope[t] /\ Settles(t) /\ Keeps(t)
  BY <1>4, OneChanges
<1>6. /\ Sound(g) /\ HeldBy(g) \subseteq HeldBy(f)
      /\ HeldBy(f) \ {f.disposers[f.left]} \subseteq HeldBy(g)
  BY <1>2, <1>3, SoundWhenCalled
<1>7. g.pc = f.pc /\ g.under = f.under /\ ~g.awaits
  BY <1>2, <1>3 DEF Called, ScopeFields
<1>8. Settles(s)
  BY <1>1, <1>5, <1>6, <1>7 DEF Settles
<1>9. ControlInv'
  BY <1>5, <1>8, ScopesMove
<1> QED BY <1>1, <1>5, <1>6, <1>7, <1>9 DEF Disposer

\* The storage disposer of s has begun.
LEMMA WaitsGoesOn ==
  ASSUME ControlInv, NEW s \in Scopes, Disposing(s, "storage"),
         scope' = [scope EXCEPT ![s].awaits = TRUE], UNCHANGED <<managerVars, activation>>
  PROVE  /\ ControlInv'
         /\ \A t \in Scopes \ {s} : Keeps(t)
         /\ \A t \in Scopes : HeldBy(scope'[t]) = HeldBy(scope[t])
         /\ Disposer(s)' = Disposer(s)
<1>1. PICK f : f = scope[s]
  OBVIOUS
<1>2. /\ Sound(f) /\ f.pc = "closing" /\ f.left > 0 /\ DOMAIN f = ScopeFields
      /\ f.disposers[f.left].kind = "storage" /\ Below(s) = {}
  BY <1>1 DEF ControlInv, HostShapes, Disposing, Sound, Disposer
<1>3. PICK g : g = Waits(f)
  OBVIOUS
<1>4. scope' = [scope EXCEPT ![s] = g]
  BY <1>1, <1>3 DEF Waits
<1>5. /\ DOMAIN scope' = Scopes /\ scope'[s] = g
      /\ \A t \in Scopes \ {s} : scope'[t] = scope[t] /\ Settles(t) /\ Keeps(t)
  BY <1>4, OneChanges
<1>6. Sound(g) /\ HeldBy(g) = HeldBy(f)
  BY <1>2, <1>3, SoundWhenWaiting
<1>7. g.pc = f.pc /\ g.under = f.under /\ g.disposers = f.disposers /\ g.left = f.left
  BY <1>2, <1>3 DEF Waits, ScopeFields
<1>8. Settles(s)
  BY <1>1, <1>2, <1>5, <1>6, <1>7 DEF Settles
<1>9. ControlInv'
  BY <1>5, <1>8, ScopesMove
<1> QED BY <1>1, <1>5, <1>6, <1>7, <1>9 DEF Disposer

\* A disposer of s has failed, which stays where it is.
LEMMA SkippedGoesOn ==
  ASSUME ControlInv, NEW s \in Scopes, DisposerFails(s)
  PROVE  /\ ControlInv'
         /\ \A t \in Scopes : Keeps(t) /\ HeldBy(scope'[t]) = HeldBy(scope[t])
<1>1. PICK f : f = scope[s]
  OBVIOUS
<1>2. Sound(f) /\ f.pc = "closing" /\ f.left > 0 /\ DOMAIN f = ScopeFields /\ ~f.awaits
  BY <1>1 DEF ControlInv, HostShapes, DisposerFails, Disposing, Disposer, Sound
<1>3. PICK g : g = Skipped(f)
  OBVIOUS
<1>4. scope' = [scope EXCEPT ![s] = g]
  BY <1>1, <1>3 DEF DisposerFails, Skipped
<1>5. /\ DOMAIN scope' = Scopes /\ scope'[s] = g
      /\ \A t \in Scopes \ {s} : scope'[t] = scope[t] /\ Settles(t) /\ Keeps(t)
  BY <1>4, OneChanges
<1>6. Sound(g) /\ HeldBy(g) = HeldBy(f)
  BY <1>2, <1>3, SoundWhenSkipped
<1>7. g.pc = f.pc /\ g.under = f.under /\ ~g.awaits
  BY <1>2, <1>3 DEF Skipped, ScopeFields
<1>8. Settles(s) /\ Keeps(s)
  BY <1>1, <1>5, <1>6, <1>7 DEF Settles, Keeps
<1>9. ControlInv'
  BY <1>5, <1>8, ScopesMove DEF DisposerFails
<1> QED BY <1>1, <1>5, <1>6, <1>8, <1>9

LEMMA ScopeDoneGoesOn ==
  ASSUME ControlInv, NEW s \in Scopes, ScopeDone(s)
  PROVE  /\ ControlInv'
         /\ \A t \in Scopes : Keeps(t) /\ HeldBy(scope'[t]) = HeldBy(scope[t])
<1>1. PICK f : f = scope[s]
  OBVIOUS
<1>2. Sound(f) /\ f.pc = "closing" /\ DOMAIN f = ScopeFields
  BY <1>1 DEF ControlInv, HostShapes, ScopeDone, Sound
<1>3. PICK pc : /\ scope' = [scope EXCEPT ![s].pc = pc]
                /\ pc = "failed" \/ (pc = "complete" /\ f.left = 0 /\ ~f.erred)
                /\ f.left = 0 \/ Below(s) # {}
  BY <1>1 DEF ScopeDone
<1>4. ~f.awaits
  BY <1>1, <1>2, <1>3 DEF ControlInv, BelowGone, Sound
<1>5. PICK g : g = [f EXCEPT !.pc = pc]
  OBVIOUS
<1>6. scope' = [scope EXCEPT ![s] = g]
  BY <1>1, <1>3, <1>5
<1>7. /\ DOMAIN scope' = Scopes /\ scope'[s] = g
      /\ \A t \in Scopes \ {s} : scope'[t] = scope[t] /\ Settles(t) /\ Keeps(t)
  BY <1>6, OneChanges
<1>8. Sound(g) /\ HeldBy(g) = HeldBy(f)
  BY <1>2, <1>3, <1>4, <1>5, SoundWhenDone
<1>9. g.pc = pc /\ g.under = f.under /\ ~g.awaits
  BY <1>2, <1>4, <1>5 DEF ScopeFields
<1>10. Justified(s)'
  <2>1. Justified(s)
    BY <1>1, <1>2 DEF ControlInv, ClosingsKnown
  <2> QED BY <2>1 DEF Justified, ScopeDone, managerVars
<1>11. Settles(s) /\ Keeps(s)
  BY <1>1, <1>2, <1>3, <1>7, <1>8, <1>9, <1>10 DEF Settles, Keeps
<1>12. ControlInv'
  BY <1>7, <1>11, ScopesMove DEF ScopeDone
<1> QED BY <1>1, <1>7, <1>8, <1>11, <1>12

\* Where no scope changes.
LEMMA ScopesRest ==
  ASSUME ControlInv, UNCHANGED scope
  PROVE  /\ DOMAIN scope' = Scopes
         /\ \A t \in Scopes : Settles(t) /\ Keeps(t) /\ HeldBy(scope'[t]) = HeldBy(scope[t])
BY AtRestSettles DEF Keeps, Disposer, ControlInv, HostShapes

LEMMA AtRestGoesOn ==
  ASSUME ControlInv, UNCHANGED <<managerVars, activation, scope>>
  PROVE  ControlInv'
BY ScopesRest, ScopesMove

\* Only the activation of p moves.
LEMMA ActivationAlone ==
  ASSUME ControlInv, NEW p \in Plugins, InFlight(p), NEW pc, pc # "idle",
         activation[p].pc = "rollback" => pc = "failed",
         activation' = [activation EXCEPT ![p].pc = pc],
         \/ UNCHANGED pluginScopes
         \/ pluginScopes' = Append(pluginScopes, p) /\ pc = "active",
         UNCHANGED <<closed, overtaken, cleanup, scope>>
  PROVE  ControlInv'
<1>1. PICK a : a = [activation[p] EXCEPT !.pc = pc]
  OBVIOUS
<1>2. activation' = [activation EXCEPT ![p] = a] /\ DOMAIN a = {"pc", "at"} /\ a.pc = pc
  BY <1>1 DEF ControlInv, HostShapes
<1>3. DOMAIN scope' = Scopes /\ \A t \in Scopes : Settles(t)
  BY ScopesRest
<1> QED BY <1>2, <1>3, ActivationGoesOn

\* A plugin is activated while nothing is being closed.
LEMMA ActivateGoesOn ==
  ASSUME ControlInv, NEW p \in Plugins, Activate(p)
  PROVE  /\ ControlInv'
         /\ \A t \in Scopes : Keeps(t) /\ HeldBy(scope'[t]) = HeldBy(scope[t])
<1>0. p \in Scopes /\ p # Root /\ Root \in Scopes /\ Plugins \subseteq Scopes /\ Root \notin Plugins
  BY HostAssumption DEF Scopes
<1>1. \A s \in Scopes : scope[s].pc \in {"none", "open"} /\ ~scope[s].awaits
  BY DEF Activate, ControlInv, ClosingsKnown, Justified, InFlight, HostShapes, Sound
<1>2. scope[p].pc = "none" /\ HeldBy(scope[p]) = {}
  <2>1. scope[p].pc = "none" /\ Sound(scope[p])
    BY <1>0 DEF Activate, ControlInv, ScopesOpened, HostShapes
  <2> QED BY <2>1, EmptySeq DEF Sound, HeldBy
<1>3. PICK g : g = [NoScope EXCEPT !.pc = "open", !.under = Newest]
  OBVIOUS
<1>4. /\ Sound(g) /\ HeldBy(g) = {} /\ g.pc = "open" /\ g.under = Newest /\ ~g.awaits
  BY <1>3, SoundWhenOpened DEF NoScope
<1>5. scope' = [scope EXCEPT ![p] = g]
  BY <1>3 DEF Activate
<1>6. /\ DOMAIN scope' = Scopes /\ scope'[p] = g
      /\ \A t \in Scopes \ {p} : scope'[t] = scope[t] /\ Settles(t) /\ Keeps(t)
  BY <1>0, <1>5, OneChanges
<1>7. /\ DOMAIN activation' = Plugins /\ activation'[p].pc = "factory"
      /\ DOMAIN activation'[p] = {"pc", "at"}
      /\ \A q \in Plugins \ {p} : activation'[q] = activation[q]
      /\ activation[p].pc = "idle"
  BY DEF Activate, ControlInv, HostShapes
<1>8. UNCHANGED <<closed, overtaken, cleanup, pluginScopes>> /\ ~closed
  BY DEF Activate, managerVars
<1>9. HostShapes'
  BY <1>4, <1>6, <1>7, <1>8 DEF ControlInv, HostShapes
<1>10. \A i \in DOMAIN pluginScopes : pluginScopes[i] \in Plugins \ {p}
  <2>1. \A i \in DOMAIN pluginScopes : pluginScopes[i] \in Plugins
    BY DEF ControlInv, HostShapes
  <2> QED BY <1>7, <2>1 DEF ControlInv, ChainActive
<1>11. ChainActive'
  BY <1>7, <1>8, <1>10 DEF ControlInv, ChainActive
<1>12. ScopesOpened'
  BY <1>0, <1>4, <1>6, <1>7 DEF ControlInv, ScopesOpened
<1>13. ClosingsKnown' /\ BelowGone'
  BY <1>1, <1>4, <1>6 DEF ClosingsKnown, BelowGone
<1>14. InFlightOvertaken'
  BY <1>8 DEF InFlightOvertaken
<1>15. Newest = Root \/ (Newest \in Plugins \ {p} /\ activation[Newest].pc = "active")
  <2>1. CASE pluginScopes = <<>>
    BY <2>1 DEF Newest
  <2>2. CASE pluginScopes # <<>>
    <3>1. pluginScopes \in Seq(Plugins) /\ Len(pluginScopes) \in DOMAIN pluginScopes
      <4>1. pluginScopes \in Seq(Plugins)
        BY DEF ControlInv, HostShapes
      <4>2. Len(pluginScopes) \in Nat /\ DOMAIN pluginScopes = 1..Len(pluginScopes)
            /\ Len(pluginScopes) # 0
        BY <2>2, <4>1, EmptySeq, LenProperties
      <4> QED BY <4>1, <4>2
    <3>2. Newest = pluginScopes[Len(pluginScopes)]
      BY <2>2 DEF Newest, Last
    <3> QED BY <1>10, <3>1, <3>2 DEF ControlInv, ChainActive
  <2> QED BY <2>1, <2>2
<1>16. Parents'
  <2>1. ASSUME NEW q \in Plugins, scope'[q].pc # "none"
        PROVE  \/ scope'[q].under = Root
               \/ scope'[q].under \in Plugins /\ activation'[scope'[q].under].pc = "active"
    <3>1. CASE q = p
      BY <1>4, <1>6, <1>7, <1>15, <3>1
    <3>2. CASE q # p
      <4>1. scope'[q] = scope[q]
        BY <1>0, <1>6, <3>2
      <4>2. \/ scope[q].under = Root
            \/ scope[q].under \in Plugins /\ activation[scope[q].under].pc = "active"
        BY <2>1, <4>1 DEF ControlInv, Parents
      <4> QED BY <1>7, <4>1, <4>2
    <3> QED BY <3>1, <3>2
  <2> QED BY <2>1 DEF Parents
<1>17. RootKept'
  BY <1>0, <1>6, <1>8 DEF ControlInv, RootKept
<1>18. ControlInv'
  BY <1>9, <1>11, <1>12, <1>13, <1>14, <1>16, <1>17 DEF ControlInv
<1>19. Keeps(p)
  BY <1>2, <1>4, <1>6 DEF Keeps
<1> QED BY <1>2, <1>4, <1>6, <1>18, <1>19

\* A step that registers nothing and calls no disposer.
Undisturbed ==
  /\ ControlInv'
  /\ overtaken \subseteq overtaken' /\ registrations' \subseteq registrations
  /\ UNCHANGED <<reg, res>>
  /\ \A t \in Scopes : Keeps(t) /\ HeldBy(scope'[t]) = HeldBy(scope[t])

LEMMA CloseGoesOn ==
  ASSUME ControlInv, Close
  PROVE  Undisturbed
<1>1. /\ closed' = TRUE /\ cleanup' = "created" /\ cleanup \in {"none", "failed"}
      /\ overtaken' = overtaken \cup {p \in Plugins : InFlight(p)}
      /\ UNCHANGED <<pluginScopes, activation, scope, registrations, reg, res>>
  BY DEF Close, registryVars, scopeVars
<1>2. HostShapes' /\ ChainActive' /\ ScopesOpened' /\ Parents'
  BY <1>1 DEF ControlInv, HostShapes, ChainActive, ScopesOpened, Parents
<1>3. ClosingsKnown'
  BY <1>1 DEF ClosingsKnown, Justified
<1>4. InFlightOvertaken'
  BY <1>1 DEF InFlightOvertaken, InFlight
<1>5. RootKept'
  BY <1>1 DEF ControlInv, RootKept
<1>6. BelowGone'
  BY <1>1 DEF ControlInv, BelowGone, Below
<1>7. ControlInv'
  BY <1>2, <1>3, <1>4, <1>5, <1>6 DEF ControlInv
<1> QED BY <1>1, <1>7, ScopesRest DEF Undisturbed

LEMMA CleanupRunsGoesOn ==
  ASSUME ControlInv, CleanupRuns
  PROVE  Undisturbed
<1>0. Root \in Scopes /\ Plugins \subseteq Scopes /\ Root \notin Plugins
  BY HostAssumption DEF Scopes
<1>1. /\ cleanup = "created" /\ cleanup' = "running" /\ registrations' = {}
      /\ UNCHANGED <<closed, pluginScopes, overtaken, reg, res, activation>>
      /\ scope' = Closing(Root)
  BY DEF CleanupRuns
<1>2. closed /\ scope[Root].pc \in {"open", "failed"}
  BY <1>1 DEF ControlInv, RootKept
<1>3. PICK f, g : f = scope[Root] /\ g = Shut(f)
  OBVIOUS
<1>4. Sound(f) /\ DOMAIN f = ScopeFields /\ ~f.awaits
  BY <1>0, <1>2, <1>3 DEF ControlInv, HostShapes, Sound
<1>5. Sound(g) /\ HeldBy(g) = HeldBy(f) /\ g.pc = "closing" /\ ~g.awaits
  BY <1>2, <1>3, <1>4, SoundWhenShut DEF Shut, ScopeFields
<1>6. scope' = [scope EXCEPT ![Root] = g]
  BY <1>0, <1>1, <1>3, ClosingIsShut
<1>7. /\ DOMAIN scope' = Scopes /\ scope'[Root] = g
      /\ \A t \in Scopes \ {Root} : scope'[t] = scope[t] /\ Settles(t) /\ Keeps(t)
  BY <1>0, <1>6, OneChanges
<1>8. \A p \in Plugins : scope'[p] = scope[p]
  BY <1>0, <1>7
<1>9. HostShapes'
  BY <1>1, <1>5, <1>7 DEF ControlInv, HostShapes
<1>10. ChainActive' /\ ScopesOpened' /\ Parents' /\ InFlightOvertaken'
  BY <1>1, <1>8 DEF ControlInv, ChainActive, ScopesOpened, Parents, InFlightOvertaken, InFlight
<1>11. ClosingsKnown' /\ RootKept'
  BY <1>1, <1>2 DEF ClosingsKnown, Justified, RootKept
<1>12. BelowGone'
  BY <1>5, <1>7, <1>8 DEF ControlInv, BelowGone, Below
<1>13. ControlInv'
  BY <1>9, <1>10, <1>11, <1>12 DEF ControlInv
<1>14. Keeps(Root) /\ HeldBy(scope'[Root]) = HeldBy(scope[Root])
  BY <1>3, <1>5, <1>7 DEF Keeps
<1> QED BY <1>1, <1>7, <1>13, <1>14 DEF Undisturbed

LEMMA CleanupEndsGoesOn ==
  ASSUME ControlInv, CleanupEnds
  PROVE  Undisturbed
<1>1. /\ cleanup = "running" /\ cleanup' = IF scope[Root].pc = "complete" THEN "done" ELSE "failed"
      /\ pluginScopes' = pluginScopes \/ pluginScopes' = <<>>
      /\ scope[Root].pc \in {"complete", "failed"}
      /\ UNCHANGED <<closed, overtaken, activation, scope, registrations, reg, res>>
  BY DEF CleanupEnds, registryVars, scopeVars
<1>2. <<>> \in Seq(Plugins) /\ DOMAIN <<>> = {}
  OBVIOUS
<1>3. HostShapes' /\ ChainActive'
  BY <1>1, <1>2 DEF ControlInv, HostShapes, ChainActive
<1>4. ScopesOpened' /\ Parents' /\ ClosingsKnown' /\ InFlightOvertaken' /\ BelowGone'
  BY <1>1 DEF ControlInv, ScopesOpened, Parents, ClosingsKnown, Justified, InFlightOvertaken,
     InFlight, BelowGone, Below
<1>5. RootKept'
  BY <1>1 DEF ControlInv, RootKept
<1>6. ControlInv'
  BY <1>3, <1>4, <1>5 DEF ControlInv
<1> QED BY <1>1, <1>6, ScopesRest DEF Undisturbed

\* The steps that leave the registries and the disposers of the scopes alone.
LEMMA UndisturbedSteps ==
  ASSUME ControlInv,
         \/ \E p \in Plugins :
              \/ Activate(p) \/ StorageStarts(p) \/ StorageFails(p) \/ StorageCancelled(p)
              \/ StorageUnwinds(p) \/ StorageAbandoned(p) \/ FactoryRaises(p)
              \/ FactoryReturns(p) \/ RolledBack(p)
         \/ Start \/ Close \/ ManagerStep
         \/ \E s \in Scopes : CloseBelow(s) \/ DisposerFails(s) \/ ScopeDone(s)
         \/ \E e \in Events : EventStep(e)
         \/ UNCHANGED hostVars
  PROVE  Undisturbed
<1>1. CASE \/ Start \/ (\E e \in Events : EventStep(e)) \/ UNCHANGED hostVars
  <2>1. /\ UNCHANGED <<closed, cleanup, overtaken, pluginScopes, activation, scope, registrations,
                       reg, res>>
    BY <1>1 DEF Start, EventStep, Dispatch, HandlerEnds, HandlerRaises, Route, RunCommand, Ask,
       Answered, Cancel, CancelProvider, Finish, Unaffected, hostVars, managerVars,
       registryVars, scopeVars
  <2>2. /\ DOMAIN activation' = Plugins /\ \A p \in Plugins : DOMAIN activation'[p] = {"pc", "at"}
        /\ pluginScopes' \in Seq(Plugins) /\ ChainActive' /\ \A p \in Plugins : Goes(p)
    BY <2>1 DEF ControlInv, HostShapes, ChainActive, Goes
  <2>3. ControlInv'
    BY <2>1, <2>2, ScopesRest, Resettled
  <2> QED BY <2>1, <2>3, ScopesRest DEF Undisturbed
<1>2. CASE Close \/ ManagerStep
  BY <1>2, CloseGoesOn, CleanupRunsGoesOn, CleanupEndsGoesOn DEF ManagerStep
<1>3. CASE \E s \in Scopes : CloseBelow(s) \/ DisposerFails(s) \/ ScopeDone(s)
  <2>1. UNCHANGED <<overtaken, registrations, reg, res>>
    BY <1>3 DEF CloseBelow, DisposerFails, ScopeDone, managerVars, registryVars
  <2>2. ControlInv' /\ \A t \in Scopes : Keeps(t) /\ HeldBy(scope'[t]) = HeldBy(scope[t])
    BY <1>3, CloseBelowGoesOn, SkippedGoesOn, ScopeDoneGoesOn
  <2> QED BY <2>1, <2>2 DEF Undisturbed
<1>4. ASSUME NEW p \in Plugins,
             \/ StorageStarts(p) \/ StorageFails(p) \/ StorageCancelled(p)
             \/ StorageUnwinds(p) \/ FactoryReturns(p) \/ RolledBack(p)
      PROVE  Undisturbed
  <2>1. UNCHANGED <<closed, cleanup, overtaken, registrations, reg, res, scope>> /\ InFlight(p)
    BY <1>4 DEF StorageStarts, StorageFails, StorageCancelled, StorageUnwinds, FactoryReturns,
       RolledBack, managerVars, registryVars, scopeVars, Due, InFactory, InFlight
  <2>2. CASE FactoryReturns(p)
    <3>1. ControlInv'
      BY <2>1, <2>2, ActivationAlone DEF FactoryReturns, InFactory
    <3> QED BY <2>1, <3>1, ScopesRest DEF Undisturbed
  <2>3. CASE RolledBack(p)
    <3>1. ControlInv'
      BY <2>1, <2>3, ActivationAlone DEF RolledBack, managerVars
    <3> QED BY <2>1, <3>1, ScopesRest DEF Undisturbed
  <2>4. CASE StorageStarts(p) \/ StorageFails(p) \/ StorageCancelled(p) \/ StorageUnwinds(p)
    <3>1. PICK pc \in {"starting", "abandoning", "cancelled"} :
            activation' = [activation EXCEPT ![p].pc = pc]
      BY <2>4 DEF StorageStarts, StorageFails, StorageCancelled, StorageUnwinds
    <3>2. activation[p].pc # "rollback" /\ UNCHANGED pluginScopes
      BY <2>4 DEF StorageStarts, StorageFails, StorageCancelled, StorageUnwinds, Due, InFactory,
         managerVars
    <3>3. ControlInv'
      BY <2>1, <3>1, <3>2, ActivationAlone
    <3> QED BY <2>1, <3>3, ScopesRest DEF Undisturbed
  <2> QED BY <1>4, <2>2, <2>3, <2>4
<1>5. ASSUME NEW p \in Plugins, StorageAbandoned(p) \/ FactoryRaises(p)
      PROVE  Undisturbed
  <2>1. /\ UNCHANGED managerVars /\ UNCHANGED <<overtaken, registrations, reg, res>>
        /\ InFlight(p) /\ activation[p].pc # "rollback" /\ Rollback(p)
    BY <1>5 DEF StorageAbandoned, FactoryRaises, InFactory, InFlight, managerVars, registryVars
  <2> QED BY <2>1, RollbackGoesOn DEF Undisturbed
<1>6. ASSUME NEW p \in Plugins, Activate(p)
      PROVE  Undisturbed
  <2>1. UNCHANGED <<overtaken, registrations, reg, res>>
    BY <1>6 DEF Activate, managerVars, registryVars
  <2> QED BY <1>6, <2>1, ActivateGoesOn DEF Undisturbed
<1> QED BY <1>1, <1>2, <1>3, <1>4, <1>5, <1>6

-----------------------------------------------------------------------------
(* What a plugin leaves behind. *)

\* A plugin that aclose has not overtaken owns the removal of what it has registered: of each
\* handler, of its resource, and of each command, unless that belongs to its resource.
HandlersHeld ==
  \A r \in registrations : \A p \in Plugins \ overtaken :
    r.plugin = p => [kind |-> "handler", number |-> r.number] \in HeldBy(scope[p])

ResourcesHeld ==
  \A n \in DOMAIN res.resources : \A p \in Plugins \ overtaken :
    res.resources[n].owner = p => [kind |-> "storage", id |-> n] \in HeldBy(scope[p])

CommandsHeld ==
  \A n \in DOMAIN reg.commands : \A p \in Plugins \ overtaken :
    reg.commands[n].owner = p =>
      \/ [kind |-> "commands"] \in HeldBy(scope[p])
      \/ \E m \in DOMAIN res.resources : /\ res.resources[m].owner = p
                                         /\ n \in IdsOf(res.resources[m])

\* The ids of resources, registered or only held, have been given out.
IdsKnown ==
  /\ reg.next \in Nat /\ res.next \in Nat
  /\ \A n \in DOMAIN res.resources : n \in Nat /\ n < res.next
  /\ \A s \in Scopes : \A d \in HeldBy(scope[s]) : d.kind = "storage" => d.id \in Nat /\ d.id < res.next

\* A disposer that waits for the service has removed its resource.
Removing == \A s \in Scopes : scope[s].awaits => Disposer(s).id \notin DOMAIN res.resources

FootInv == HandlersHeld /\ ResourcesHeld /\ CommandsHeld /\ IdsKnown /\ Removing

LEMMA InitFoot ==
  ASSUME Init
  PROVE  FootInv
<1>1. /\ DOMAIN res.resources = {} /\ DOMAIN reg.commands = {} /\ registrations = {}
      /\ reg.next = 0 /\ res.next = 0
  BY DEF Init, NoResources, NoCommands
<1>2. \A s \in Scopes : HeldBy(scope[s]) = {} /\ ~scope[s].awaits
  BY DEF Init, Scopes, NoScope, HeldBy
<1> QED BY <1>1, <1>2 DEF FootInv, HandlersHeld, ResourcesHeld, CommandsHeld, IdsKnown, Removing

LEMMA UndisturbedFoot ==
  ASSUME FootInv, Undisturbed
  PROVE  FootInv'
<1>0. Plugins \subseteq Scopes
  BY DEF Scopes
<1>1. HandlersHeld' /\ ResourcesHeld' /\ CommandsHeld'
  BY <1>0 DEF FootInv, Undisturbed, HandlersHeld, ResourcesHeld, CommandsHeld, IdsOf
<1>2. IdsKnown' /\ Removing'
  BY DEF FootInv, Undisturbed, IdsKnown, Removing, Keeps
<1> QED BY <1>1, <1>2 DEF FootInv

\* While its factory runs on an open manager the scope of a plugin is open.
LEMMA OpenWhileInFlight ==
  ASSUME ControlInv, NEW p \in Plugins \ overtaken, InFlight(p), activation[p].pc # "rollback"
  PROVE  scope[p].pc = "open"
<1>1. p \in Scopes
  BY DEF Scopes
<1>2. ~closed
  BY DEF ControlInv, InFlightOvertaken
<1>3. scope[p].pc \notin {"closing", "failed", "complete"}
  BY <1>1, <1>2 DEF ControlInv, ClosingsKnown, Justified, InFlight
<1>4. scope[p].pc # "none"
  BY DEF ControlInv, ScopesOpened, InFlight
<1> QED BY <1>1, <1>3, <1>4 DEF ControlInv, HostShapes, Sound

\* A disposer is taken that is not of storage; no resource changes.
LEMMA OwningFoot ==
  ASSUME FootInv, NEW p \in Plugins, NEW d, d.kind # "storage", Onward(p, d),
         UNCHANGED <<res, overtaken>>, reg'.next \in Nat
  PROVE  ResourcesHeld' /\ IdsKnown' /\ Removing'
<1>0. Plugins \subseteq Scopes
  BY DEF Scopes
<1>1. ResourcesHeld'
  BY <1>0 DEF FootInv, ResourcesHeld, Onward, Keeps
<1>2. \A s \in Scopes : HeldBy(scope'[s]) \subseteq HeldBy(scope[s]) \cup {d}
  BY DEF Onward
<1>3. IdsKnown'
  BY <1>2 DEF FootInv, IdsKnown
<1>4. Removing'
  BY DEF FootInv, Removing, Onward, Keeps
<1> QED BY <1>1, <1>3, <1>4

LEMMA OnHandlerGoesOn ==
  ASSUME ControlInv, FootInv, NEW p \in Plugins, OnHandler(p)
  PROVE  ControlInv' /\ FootInv'
<1>0. /\ InFlight(p) /\ activation[p].pc # "rollback" /\ UNCHANGED <<managerVars, overtaken, reg, res>>
      /\ Plugins \subseteq Scopes
  BY DEF OnHandler, Due, InFactory, InFlight, managerVars, Scopes
<1>1. CASE scope[p].pc = "open" /\ ~closed
  <2>1. PICK d : d = [kind |-> "handler", number |-> sequence]
    OBVIOUS
  <2>2. /\ Owning(p, d)
        /\ registrations' = registrations \cup
                            {[plugin |-> p, order |-> Step(p).order, number |-> sequence]}
    BY <1>1, <2>1 DEF OnHandler
  <2>3. Onward(p, d) /\ d \in HeldBy(scope'[p])
    BY <1>0, <1>1, <2>2, OwningGoesOn
  <2>4. d.kind # "storage"
    BY <2>1
  <2>5. ResourcesHeld' /\ IdsKnown' /\ Removing'
    BY <1>0, <2>3, <2>4, OwningFoot DEF FootInv, IdsKnown
  <2>6. HandlersHeld'
    <3>1. ASSUME NEW r \in registrations', NEW q \in Plugins \ overtaken, r.plugin = q
          PROVE  [kind |-> "handler", number |-> r.number] \in HeldBy(scope'[q])
      <4>1. CASE r \in registrations
        BY <1>0, <2>3, <3>1, <4>1 DEF FootInv, HandlersHeld, Onward, Keeps
      <4>2. CASE r \notin registrations
        <5>1. r.plugin = p /\ r.number = sequence
          BY <2>2, <4>2
        <5> QED BY <2>1, <2>3, <3>1, <5>1
      <4> QED BY <4>1, <4>2
    <3> QED BY <1>0, <3>1 DEF HandlersHeld
  <2>7. CommandsHeld'
    BY <1>0, <2>3 DEF FootInv, CommandsHeld, Onward, Keeps, IdsOf
  <2> QED BY <2>3, <2>5, <2>6, <2>7 DEF FootInv, Onward
<1>2. CASE ~(scope[p].pc = "open" /\ ~closed)
  <2>1. Rollback(p) /\ UNCHANGED registrations
    BY <1>2 DEF OnHandler
  <2>2. Undisturbed
    BY <1>0, <2>1, RollbackGoesOn DEF Undisturbed
  <2> QED BY <2>2, UndisturbedFoot DEF Undisturbed
<1> QED BY <1>1, <1>2

LEMMA OnOwnGoesOn ==
  ASSUME ControlInv, FootInv, NEW p \in Plugins, OnOwn(p)
  PROVE  ControlInv' /\ FootInv'
<1>0. /\ InFlight(p) /\ activation[p].pc # "rollback"
      /\ UNCHANGED <<managerVars, overtaken, reg, res, registrations>> /\ Plugins \subseteq Scopes
  BY DEF OnOwn, Due, InFactory, InFlight, managerVars, registryVars, Scopes
<1>1. PICK d : d = [kind |-> "own"]
  OBVIOUS
<1>2. Onward(p, d) /\ d.kind # "storage"
  BY <1>0, <1>1, OwningGoesOn DEF OnOwn
<1>3. ResourcesHeld' /\ IdsKnown' /\ Removing'
  BY <1>0, <1>2, OwningFoot DEF FootInv, IdsKnown
<1>4. HandlersHeld'
  BY <1>0, <1>2 DEF FootInv, HandlersHeld, Onward, Keeps
<1>5. CommandsHeld'
  BY <1>0, <1>2 DEF FootInv, CommandsHeld, Onward, Keeps, IdsOf
<1> QED BY <1>2, <1>3, <1>4, <1>5 DEF FootInv, Onward

\* The commands there are once a batch has been added.
LEMMA AddedCommands ==
  ASSUME NEW r, r.next \in Nat, NEW specs, Len(specs) \in Nat, NEW owner
  PROVE  /\ Added(r, specs, owner).next = r.next + Len(specs)
         /\ \A n \in DOMAIN Added(r, specs, owner).commands :
              \/ /\ n \in r.next .. r.next + Len(specs) - 1
                 /\ Added(r, specs, owner).commands[n].owner = owner
              \/ /\ n \in DOMAIN r.commands
                 /\ Added(r, specs, owner).commands[n] = r.commands[n]
<1> DEFINE new == [n \in r.next .. r.next + Len(specs) - 1 |->
                      [owner |-> owner, spec |-> specs[n - r.next + 1]]]
<1>0. PICK c : c = Added(r, specs, owner).commands
  OBVIOUS
<1>1. c = Updated(r.commands, new) /\ Added(r, specs, owner).next = r.next + Len(specs)
  BY <1>0 DEF Added
<1>2. DOMAIN new = r.next .. r.next + Len(specs) - 1 /\ \A n \in DOMAIN new : new[n].owner = owner
  OBVIOUS
<1> HIDE DEF new
<1>3. /\ DOMAIN c = DOMAIN new \cup DOMAIN r.commands
      /\ \A n \in DOMAIN new : c[n] = new[n]
      /\ \A n \in DOMAIN r.commands \ DOMAIN new : c[n] = r.commands[n]
  BY <1>1 DEF Updated
<1>4. \A n \in DOMAIN c : \/ n \in r.next .. r.next + Len(specs) - 1 /\ c[n].owner = owner
                          \/ n \in DOMAIN r.commands /\ c[n] = r.commands[n]
  BY <1>2, <1>3
<1> QED BY <1>0, <1>1, <1>4

LEMMA OnCommandsGoesOn ==
  ASSUME ControlInv, FootInv, NEW p \in Plugins, OnCommands(p)
  PROVE  ControlInv' /\ FootInv'
<1>0. /\ InFlight(p) /\ activation[p].pc # "rollback"
      /\ UNCHANGED <<managerVars, overtaken, res, registrations>> /\ Plugins \subseteq Scopes
  BY DEF OnCommands, Due, InFactory, InFlight, managerVars, Scopes
<1>b. PICK specs \in Step(p).batches :
        IF Acceptable(reg, specs)
        THEN reg' = Added(reg, specs, p) /\ Owning(p, [kind |-> "commands"])
        ELSE Rollback(p) /\ UNCHANGED reg
  BY DEF OnCommands
<1>1. CASE ~Acceptable(reg, specs)
  <2>1. Rollback(p) /\ UNCHANGED reg
    BY <1>b, <1>1
  <2>2. Undisturbed
    BY <1>0, <2>1, RollbackGoesOn DEF Undisturbed
  <2> QED BY <2>2, UndisturbedFoot DEF Undisturbed
<1>2. CASE Acceptable(reg, specs)
  <2>1. PICK d : d = [kind |-> "commands"]
    OBVIOUS
  <2>2. reg' = Added(reg, specs, p) /\ Owning(p, d)
    BY <1>b, <1>2, <2>1
  <2>3. Onward(p, d) /\ d.kind # "storage"
    BY <1>0, <2>1, <2>2, OwningGoesOn
  <2>4. Len(specs) \in Nat /\ reg.next \in Nat
    BY ScriptAssumption DEF OnCommands, Due, Step, FootInv, IdsKnown
  <2>5. /\ reg'.next = reg.next + Len(specs)
        /\ \A n \in DOMAIN reg'.commands :
             \/ reg'.commands[n].owner = p
             \/ n \in DOMAIN reg.commands /\ reg'.commands[n] = reg.commands[n]
    BY <2>2, <2>4, AddedCommands
  <2>6. ResourcesHeld' /\ IdsKnown' /\ Removing'
    <3>1. reg'.next \in Nat
      BY <2>4, <2>5
    <3> QED BY <1>0, <2>3, <3>1, OwningFoot
  <2>7. HandlersHeld'
    BY <1>0, <2>3 DEF FootInv, HandlersHeld, Onward, Keeps
  <2>8. CommandsHeld'
    <3>1. ASSUME NEW n \in DOMAIN reg'.commands, NEW q \in Plugins \ overtaken,
                 reg'.commands[n].owner = q
          PROVE  \/ [kind |-> "commands"] \in HeldBy(scope'[q])
                 \/ \E m \in DOMAIN res.resources : /\ res.resources[m].owner = q
                                                    /\ n \in IdsOf(res.resources[m])
      <4>1. CASE q = p
        <5>1. scope[p].pc = "open"
          BY <1>0, <4>1, OpenWhileInFlight
        <5> QED BY <1>0, <2>1, <2>2, <4>1, <5>1, OwningGoesOn
      <4>2. CASE q # p
        BY <1>0, <2>3, <2>5, <3>1, <4>2 DEF FootInv, CommandsHeld, Onward, Keeps
      <4> QED BY <4>1, <4>2
    <3> QED BY <1>0, <3>1 DEF CommandsHeld, IdsOf
  <2> QED BY <2>3, <2>6, <2>7, <2>8 DEF FootInv, Onward
<1> QED BY <1>1, <1>2

LEMMA StorageStartedGoesOn ==
  ASSUME ControlInv, FootInv, NEW p \in Plugins, StorageStarted(p)
  PROVE  ControlInv' /\ FootInv'
<1>0. /\ InFlight(p) /\ activation[p].pc # "rollback"
      /\ UNCHANGED <<managerVars, overtaken, registrations>> /\ Plugins \subseteq Scopes
  BY DEF StorageStarted, InFlight, managerVars, Scopes
<1>1. PICK new, specs : new = Step(p).resource /\ specs = CommandsOf(new)
  OBVIOUS
<1>2. PICK d : d = [kind |-> "storage", id |-> res.next]
  OBVIOUS
<1>3. /\ reg' = Added(reg, specs, p) /\ res' = WithResource(reg, res, new, p)
      /\ Owning(p, d)
  BY <1>1, <1>2 DEF StorageStarted, WithCommands
<1>4. Onward(p, d)
  BY <1>0, <1>3, OwningGoesOn
<1>5. p \notin overtaken => d \in HeldBy(scope'[p])
  BY <1>0, <1>3, OpenWhileInFlight, OwningGoesOn
<1>6. Len(specs) = 3 /\ DOMAIN specs = 1..3 /\ reg.next \in Nat /\ res.next \in Nat
  BY <1>1 DEF CommandsOf, FootInv, IdsKnown
<1>7. /\ reg'.next \in Nat
      /\ \A n \in DOMAIN reg'.commands :
           \/ n \in reg.next .. reg.next + 2 /\ reg'.commands[n].owner = p
           \/ n \in DOMAIN reg.commands /\ reg'.commands[n] = reg.commands[n]
  <2>1. /\ reg'.next = reg.next + Len(specs)
        /\ \A n \in DOMAIN reg'.commands :
             \/ n \in reg.next .. reg.next + Len(specs) - 1 /\ reg'.commands[n].owner = p
             \/ n \in DOMAIN reg.commands /\ reg'.commands[n] = reg.commands[n]
    <3>1. Len(specs) \in Nat
      BY <1>6
    <3>2. PICK r : r = reg
      OBVIOUS
    <3>3. r.next \in Nat /\ reg' = Added(r, specs, p)
      BY <1>3, <1>6, <3>2
    <3> QED BY <3>1, <3>2, <3>3, AddedCommands
  <2>2. ASSUME NEW k \in Nat PROVE k + 3 \in Nat /\ k + 3 - 1 = k + 2
    OBVIOUS
  <2>3. reg.next + Len(specs) \in Nat /\ reg.next + Len(specs) - 1 = reg.next + 2
    BY <1>6, <2>2
  <2> QED BY <2>1, <2>3
<1>8. /\ res'.next = res.next + 1
      /\ DOMAIN res'.resources = DOMAIN res.resources \cup {res.next}
      /\ res'.resources[res.next].owner = p
      /\ res'.resources[res.next].commands = NewIds(reg, specs)
      /\ \A n \in DOMAIN res.resources : res'.resources[n] = res.resources[n]
  <2>1. res.next \notin DOMAIN res.resources
    BY DEF FootInv, IdsKnown
  <2>2. PICK x : x = [owner |-> p, spec |-> new, commands |-> NewIds(reg, specs)]
    OBVIOUS
  <2>3. res'.next = res.next + 1 /\ res'.resources = Updated(res.resources, [n \in {res.next} |-> x])
    BY <1>1, <1>3, <2>2 DEF WithResource
  <2>4. /\ DOMAIN res'.resources = DOMAIN res.resources \cup {res.next}
        /\ res'.resources[res.next] = x
        /\ \A n \in DOMAIN res.resources : res'.resources[n] = res.resources[n]
    BY <2>1, <2>3 DEF Updated
  <2> QED BY <2>2, <2>3, <2>4
<1>9. reg.next .. reg.next + 2 \subseteq IdsOf(res'.resources[res.next])
  <2>1. ASSUME NEW n \in reg.next .. reg.next + 2
        PROVE  \E i \in 1..3 : n = reg.next + i - 1
    <3>1. n - reg.next + 1 \in 1..3 /\ n = reg.next + (n - reg.next + 1) - 1
      BY <1>6
    <3> QED BY <3>1
  <2>2. IdsOf(res'.resources[res.next]) = {reg.next + i - 1 : i \in 1..3}
    BY <1>6, <1>8 DEF IdsOf, NewIds
  <2> QED BY <2>1, <2>2
<1>10. HandlersHeld'
  BY <1>0, <1>4 DEF FootInv, HandlersHeld, Onward, Keeps
<1>11. ResourcesHeld'
  BY <1>0, <1>2, <1>4, <1>5, <1>8 DEF FootInv, ResourcesHeld, Onward, Keeps
<1>12. CommandsHeld'
  <2>1. ASSUME NEW n \in DOMAIN reg'.commands, NEW q \in Plugins \ overtaken,
               reg'.commands[n].owner = q
        PROVE  \/ [kind |-> "commands"] \in HeldBy(scope'[q])
               \/ \E m \in DOMAIN res'.resources : /\ res'.resources[m].owner = q
                                                   /\ n \in IdsOf(res'.resources[m])
    <3>1. CASE n \in reg.next .. reg.next + 2 /\ reg'.commands[n].owner = p
      BY <1>8, <1>9, <2>1, <3>1
    <3>2. CASE n \in DOMAIN reg.commands /\ reg'.commands[n] = reg.commands[n]
      <4>1. \/ [kind |-> "commands"] \in HeldBy(scope[q])
            \/ \E m \in DOMAIN res.resources : /\ res.resources[m].owner = q
                                               /\ n \in IdsOf(res.resources[m])
        BY <2>1, <3>2 DEF FootInv, CommandsHeld
      <4> QED BY <1>0, <1>4, <1>8, <4>1 DEF Onward, Keeps
    <3> QED BY <1>7, <3>1, <3>2
  <2> QED BY <1>0, <2>1 DEF CommandsHeld, IdsOf
<1>13. IdsKnown'
  <2>1. ASSUME NEW n \in DOMAIN res'.resources PROVE n \in Nat /\ n < res'.next
    BY <1>6, <1>8 DEF FootInv, IdsKnown
  <2>2. ASSUME NEW s \in Scopes, NEW x \in HeldBy(scope'[s]), x.kind = "storage"
        PROVE  x.id \in Nat /\ x.id < res'.next
    <3>1. x \in HeldBy(scope[s]) \/ x = d
      BY <1>4 DEF Onward
    <3> QED BY <1>2, <1>6, <1>8, <2>2, <3>1 DEF FootInv, IdsKnown
  <2> QED BY <1>6, <1>7, <1>8, <2>1, <2>2 DEF IdsKnown
<1>14. Removing'
  <2>1. ASSUME NEW s \in Scopes, scope'[s].awaits PROVE Disposer(s)'.id \notin DOMAIN res'.resources
    <3>1. scope[s].awaits /\ Disposer(s)' = Disposer(s)
      BY <1>4, <2>1 DEF Onward, Keeps
    <3>2. Disposer(s).id \notin DOMAIN res.resources
      BY <3>1 DEF FootInv, Removing
    <3>3. Disposer(s) \in HeldBy(scope[s]) /\ Disposer(s).kind = "storage"
      <4>1. Sound(scope[s])
        BY DEF ControlInv, HostShapes
      <4>2. PICK T : scope[s].disposers \in Seq(T)
        BY <4>1 DEF Sound
      <4>3. DOMAIN scope[s].disposers = 1..Len(scope[s].disposers)
        BY <4>2, LenProperties
      <4>4. scope[s].left \in DOMAIN scope[s].disposers
        BY <3>1, <4>1, <4>3 DEF Sound
      <4> QED BY <3>1, <4>1, <4>4 DEF Sound, HeldBy, Disposer
    <3>4. Disposer(s).id < res.next /\ Disposer(s).id \in Nat
      BY <3>3 DEF FootInv, IdsKnown
    <3> QED BY <1>6, <1>8, <3>1, <3>2, <3>4
  <2> QED BY <2>1 DEF Removing
<1> QED BY <1>4, <1>10, <1>11, <1>12, <1>13, <1>14 DEF FootInv, Onward

\* What a scope calls is what it holds.
LEMMA DisposerHeld ==
  ASSUME ControlInv, NEW s \in Scopes, scope[s].pc = "closing", scope[s].left > 0
  PROVE  Disposer(s) \in HeldBy(scope[s])
<1>1. Sound(scope[s])
  BY DEF ControlInv, HostShapes
<1>2. PICK T : scope[s].disposers \in Seq(T)
  BY <1>1 DEF Sound
<1>3. DOMAIN scope[s].disposers = 1..Len(scope[s].disposers)
  BY <1>2, LenProperties
<1>4. scope[s].left \in DOMAIN scope[s].disposers
  BY <1>1, <1>3 DEF Sound
<1> QED BY <1>4 DEF HeldBy, Disposer

\* The scope s has called a disposer: what that stood for is gone.
LEMMA CalledFoot ==
  ASSUME ControlInv, FootInv, NEW s \in Scopes, NEW kind, Disposing(s, kind), Disposed(s),
         UNCHANGED <<managerVars, activation, overtaken, res>>,
         registrations' \subseteq registrations,
         kind = "handler" => \A r \in registrations' : r.number # Disposer(s).number,
         DOMAIN reg'.commands \subseteq DOMAIN reg.commands, reg'.next = reg.next,
         \A n \in DOMAIN reg'.commands : reg'.commands[n] = reg.commands[n],
         kind = "commands" => \A n \in DOMAIN reg'.commands : reg'.commands[n].owner # s,
         kind = "storage" => Disposer(s).id \notin DOMAIN res.resources
  PROVE  ControlInv' /\ FootInv'
<1>0. Plugins \subseteq Scopes /\ Disposer(s).kind = kind
  BY DEF Scopes, Disposing
<1>1. /\ ControlInv'
      /\ \A t \in Scopes \ {s} : Keeps(t)
      /\ \A t \in Scopes : HeldBy(scope'[t]) \subseteq HeldBy(scope[t])
      /\ HeldBy(scope[s]) \ {Disposer(s)} \subseteq HeldBy(scope'[s])
      /\ ~scope'[s].awaits
  BY CalledGoesOn
<1>2. ASSUME NEW t \in Scopes, NEW d \in HeldBy(scope[t]), t # s \/ d # Disposer(s)
      PROVE  d \in HeldBy(scope'[t])
  BY <1>1, <1>2 DEF Keeps
<1>3. HandlersHeld'
  <2>1. ASSUME NEW r \in registrations', NEW p \in Plugins \ overtaken, r.plugin = p
        PROVE  [kind |-> "handler", number |-> r.number] \in HeldBy(scope'[p])
    <3>1. PICK d : d = [kind |-> "handler", number |-> r.number]
      OBVIOUS
    <3>2. d \in HeldBy(scope[p])
      BY <2>1, <3>1 DEF FootInv, HandlersHeld
    <3>3. d # Disposer(s)
      BY <1>0, <2>1, <3>1
    <3> QED BY <1>0, <1>2, <3>1, <3>2, <3>3
  <2> QED BY <2>1 DEF HandlersHeld
<1>4. ResourcesHeld'
  <2>1. ASSUME NEW n \in DOMAIN res.resources, NEW p \in Plugins \ overtaken,
               res.resources[n].owner = p
        PROVE  [kind |-> "storage", id |-> n] \in HeldBy(scope'[p])
    <3>1. PICK d : d = [kind |-> "storage", id |-> n]
      OBVIOUS
    <3>2. d \in HeldBy(scope[p])
      BY <2>1, <3>1 DEF FootInv, ResourcesHeld
    <3>3. d # Disposer(s)
      BY <1>0, <3>1
    <3> QED BY <1>0, <1>2, <3>1, <3>2, <3>3
  <2> QED BY <2>1 DEF ResourcesHeld
<1>5. CommandsHeld'
  <2>1. ASSUME NEW n \in DOMAIN reg'.commands, NEW p \in Plugins \ overtaken,
               reg'.commands[n].owner = p,
               ~\E m \in DOMAIN res.resources : /\ res.resources[m].owner = p
                                                /\ n \in IdsOf(res.resources[m])
        PROVE  [kind |-> "commands"] \in HeldBy(scope'[p])
    <3>1. PICK d : d = [kind |-> "commands"]
      OBVIOUS
    <3>2. d \in HeldBy(scope[p])
      BY <2>1, <3>1 DEF FootInv, CommandsHeld
    <3>3. d # Disposer(s) \/ p # s
      BY <1>0, <2>1, <3>1
    <3> QED BY <1>0, <1>2, <3>1, <3>2, <3>3
  <2> QED BY <2>1 DEF CommandsHeld, IdsOf
<1>6. IdsKnown'
  BY <1>1 DEF FootInv, IdsKnown
<1>7. Removing'
  BY <1>1 DEF FootInv, Removing, Keeps
<1> QED BY <1>1, <1>3, <1>4, <1>5, <1>6, <1>7 DEF FootInv

\* The commands there are when some have been removed.
LEMMA WithoutCommands ==
  ASSUME NEW r, NEW ids
  PROVE  /\ Without(r, ids).next = r.next
         /\ DOMAIN Without(r, ids).commands = DOMAIN r.commands \ ids
         /\ \A n \in DOMAIN r.commands \ ids : Without(r, ids).commands[n] = r.commands[n]
BY DEF Without

LEMMA DisposersGoOn ==
  ASSUME ControlInv, FootInv, NEW s \in Scopes,
         DisposeHandler(s) \/ DisposeCommands(s) \/ StorageClosed(s) \/ DisposeOwn(s)
  PROVE  ControlInv' /\ FootInv'
<1>1. CASE DisposeHandler(s)
  <2>1. /\ Disposing(s, "handler") /\ Disposed(s)
        /\ UNCHANGED <<managerVars, activation, overtaken, res, reg>>
        /\ registrations' = {r \in registrations : r.number # Disposer(s).number}
    BY <1>1 DEF DisposeHandler, managerVars
  <2> QED BY <2>1, CalledFoot
<1>2. CASE DisposeCommands(s)
  <2>1. /\ Disposing(s, "commands") /\ Disposed(s)
        /\ UNCHANGED <<managerVars, activation, overtaken, res, registrations>>
        /\ reg' = Without(reg, OwnedBy(reg, s))
    BY <1>2 DEF DisposeCommands, managerVars, OwnerGone
  <2>2. /\ reg'.next = reg.next /\ DOMAIN reg'.commands = DOMAIN reg.commands \ OwnedBy(reg, s)
        /\ \A n \in DOMAIN reg'.commands : reg'.commands[n] = reg.commands[n]
    BY <2>1, WithoutCommands
  <2>3. \A n \in DOMAIN reg'.commands : reg'.commands[n].owner # s
    BY <2>2 DEF OwnedBy
  <2> QED BY <2>1, <2>2, <2>3, CalledFoot
<1>3. CASE StorageClosed(s)
  <2>1. /\ Disposing(s, "storage") /\ Disposed(s) /\ scope[s].awaits
        /\ UNCHANGED <<managerVars, activation, overtaken, res, reg, registrations>>
    BY <1>3 DEF StorageClosed, managerVars, registryVars
  <2>2. Disposer(s).id \notin DOMAIN res.resources
    BY <2>1 DEF FootInv, Removing
  <2> QED BY <2>1, <2>2, CalledFoot
<1>4. CASE DisposeOwn(s)
  <2>1. /\ Disposing(s, "own") /\ Disposed(s)
        /\ UNCHANGED <<managerVars, activation, overtaken, res, reg, registrations>>
    BY <1>4 DEF DisposeOwn, managerVars, registryVars
  <2> QED BY <2>1, CalledFoot
<1> QED BY <1>1, <1>2, <1>3, <1>4

LEMMA DisposeStorageGoesOn ==
  ASSUME ControlInv, FootInv, NEW s \in Scopes, DisposeStorage(s)
  PROVE  ControlInv' /\ FootInv'
<1>0. /\ Plugins \subseteq Scopes /\ UNCHANGED <<managerVars, overtaken, registrations>>
      /\ Disposing(s, "storage")
  BY DEF Scopes, DisposeStorage, managerVars
<1>1. PICK id : id = Disposer(s).id
  OBVIOUS
<1>2. /\ ControlInv'
      /\ \A t \in Scopes \ {s} : Keeps(t)
      /\ \A t \in Scopes : HeldBy(scope'[t]) = HeldBy(scope[t])
      /\ Disposer(s)' = Disposer(s)
  BY <1>0, WaitsGoesOn DEF DisposeStorage
<1>3. PICK gone : gone = {res.resources[id].commands[i] : i \in DOMAIN res.resources[id].commands}
  OBVIOUS
<1>4. /\ reg'.next = reg.next /\ DOMAIN reg'.commands = DOMAIN reg.commands \ gone
      /\ \A n \in DOMAIN reg'.commands : reg'.commands[n] = reg.commands[n]
  <2>1. reg' = Without(reg, gone \cap DOMAIN reg.commands)
    BY <1>1, <1>3 DEF DisposeStorage, CommandsGone, Unregistered
  <2> QED BY <2>1, WithoutCommands
<1>5. /\ res'.next = res.next /\ DOMAIN res'.resources = DOMAIN res.resources \ {id}
      /\ \A n \in DOMAIN res'.resources : res'.resources[n] = res.resources[n]
  BY <1>1 DEF DisposeStorage, ResourceGone
<1>6. HandlersHeld' /\ ResourcesHeld' /\ IdsKnown'
  BY <1>0, <1>2, <1>4, <1>5 DEF FootInv, HandlersHeld, ResourcesHeld, IdsKnown
<1>7. CommandsHeld'
  <2>1. ASSUME NEW n \in DOMAIN reg'.commands, NEW p \in Plugins \ overtaken,
               reg'.commands[n].owner = p, [kind |-> "commands"] \notin HeldBy(scope'[p])
        PROVE  \E m \in DOMAIN res'.resources : /\ res'.resources[m].owner = p
                                                /\ n \in IdsOf(res'.resources[m])
    <3>1. PICK m \in DOMAIN res.resources : /\ res.resources[m].owner = p
                                            /\ n \in IdsOf(res.resources[m])
      BY <1>0, <1>2, <1>4, <2>1 DEF FootInv, CommandsHeld
    <3>2. m # id
      BY <1>3, <1>4, <2>1, <3>1 DEF IdsOf
    <3> QED BY <1>5, <3>1, <3>2
  <2> QED BY <1>0, <2>1 DEF CommandsHeld, IdsOf
<1>8. Removing'
  BY <1>1, <1>2, <1>5 DEF FootInv, Removing, Keeps
<1> QED BY <1>2, <1>6, <1>7, <1>8 DEF FootInv

\* How a step moves the activations, the scopes and the registries.
StepKinds ==
  \/ Undisturbed
  \/ \E p \in Plugins : OnHandler(p) \/ OnCommands(p) \/ OnOwn(p) \/ StorageStarted(p)
  \/ \E s \in Scopes : \/ DisposeHandler(s) \/ DisposeCommands(s) \/ StorageClosed(s)
                       \/ DisposeOwn(s) \/ DisposeStorage(s)

LEMMA NextIsOfAKind ==
  ASSUME ControlInv, [Next]_vars
  PROVE  StepKinds
<1>1. ASSUME NEW p \in Plugins, ActivationStep(p) PROVE StepKinds
  BY <1>1, UndisturbedSteps DEF ActivationStep, StepKinds
<1>2. CASE Start \/ Close \/ ManagerStep
  BY <1>2, UndisturbedSteps DEF StepKinds
<1>3. ASSUME NEW s \in Scopes, ScopeStep(s) PROVE StepKinds
  BY <1>3, UndisturbedSteps DEF ScopeStep, StepKinds
<1>4. ASSUME NEW e \in Events, EventStep(e) PROVE StepKinds
  BY <1>4, UndisturbedSteps DEF StepKinds
<1>5. CASE (ProfileStep /\ UNCHANGED hostVars) \/ UNCHANGED vars
  <2>1. UNCHANGED hostVars
    BY <1>5 DEF vars
  <2> QED BY <2>1, UndisturbedSteps DEF StepKinds
<1> QED BY <1>1, <1>2, <1>3, <1>4, <1>5 DEF Next, Scopes

LEMMA NextKeepsFoot ==
  ASSUME ControlInv, FootInv, [Next]_vars
  PROVE  ControlInv' /\ FootInv'
<1>1. StepKinds
  BY NextIsOfAKind
<1>2. CASE Undisturbed
  BY <1>2, UndisturbedFoot DEF Undisturbed
<1> QED BY <1>1, <1>2, OnHandlerGoesOn, OnCommandsGoesOn, OnOwnGoesOn, StorageStartedGoesOn,
           DisposersGoOn, DisposeStorageGoesOn DEF StepKinds

\* What the manager keeps in order: a scope is closed only when the manager is or its activation
\* has failed, a plugin lies below one that is active, and whoever registers something owns its
\* removal.
THEOREM OwnersAreSafe == Spec => [](ControlInv /\ FootInv)
<1>1. Init => ControlInv /\ FootInv
  BY InitControl, InitFoot
<1>2. ControlInv /\ FootInv /\ [Next]_vars => ControlInv' /\ FootInv'
  BY NextKeepsFoot
<1> QED BY <1>1, <1>2, PTL DEF Spec

\* However activations fail, registrations are refused, disposers raise and closings are
\* repeated: a plugin whose scope is closed has left no handler, command or resource behind,
\* unless its factory was running when aclose was called.
THEOREM NothingStays == Spec => []NothingLeftBehind
<1>1. ControlInv /\ FootInv => NothingLeftBehind
  <2> SUFFICES ASSUME ControlInv, FootInv, NEW p \in Plugins \ overtaken, scope[p].pc = "complete"
               PROVE  /\ OwnedBy(reg, p) = {}
                      /\ \A n \in DOMAIN res.resources : res.resources[n].owner # p
                      /\ \A r \in registrations : r.plugin # p
    BY DEF NothingLeftBehind
  <2>1. HeldBy(scope[p]) = {}
    <3>1. Sound(scope[p])
      BY DEF ControlInv, HostShapes, Scopes
    <3> QED BY <3>1, EmptySeq DEF Sound, HeldBy
  <2>2. \A n \in DOMAIN res.resources : res.resources[n].owner # p
    BY <2>1 DEF FootInv, ResourcesHeld
  <2>3. \A r \in registrations : r.plugin # p
    BY <2>1 DEF FootInv, HandlersHeld
  <2>4. OwnedBy(reg, p) = {}
    BY <2>1, <2>2 DEF FootInv, CommandsHeld, OwnedBy
  <2> QED BY <2>2, <2>3, <2>4
<1> QED BY <1>1, OwnersAreSafe, PTL

-----------------------------------------------------------------------------
(* The service is closed with its owner. *)

\* A plugin that has called the service is not done with its start, has closed the service, or
\* owns the disposer that will.
ServiceHeld ==
  \A p \in Plugins \ overtaken : call[p].pc # "none" =>
    \/ activation[p].pc \in {"starting", "cancelled", "abandoning"}
    \/ closing = "returned"
    \/ \E d \in HeldBy(scope[p]) : d.kind = "storage"

\* A plugin calls the service when its storage starts.
LEMMA CallsBegin ==
  ASSUME ProfileInv, [Next]_vars, NEW p \in Plugins, call[p].pc = "none", call'[p].pc # "none"
  PROVE  StorageStarts(p)
<1>0. p \in Callers /\ p \notin Events /\ DOMAIN call = Callers
  BY HostAssumption DEF ProfileInv, ProfileShapes
<1>1. ASSUME ProfileStep PROVE FALSE
  BY <1>0, <1>1 DEF ProfileStep, Enter, StartThread, ThreadStep, ThreadReads, ThreadWrites,
     ThreadBusy, ThreadDone, CloseEnters, CloseReturns
<1>2. ASSUME NEW q \in Plugins, ActivationStep(q) PROVE StorageStarts(p)
  <2>1. CASE StorageStarts(q)
    BY <1>0, <2>1 DEF StorageStarts, Call
  <2>2. CASE StorageFails(q) \/ StorageUnwinds(q)
    BY <2>2 DEF StorageFails, StorageUnwinds, CloseService
  <2>3. CASE StorageCancelled(q)
    BY <1>0, <2>3 DEF StorageCancelled, CancelCall
  <2> QED BY <1>2, <2>1, <2>2, <2>3 DEF ActivationStep, Activate, OnHandler, OnCommands, OnOwn,
            StorageStarted, StorageAbandoned, FactoryRaises, FactoryReturns, RolledBack, profileVars
<1>3. ASSUME NEW e \in Events, EventStep(e) PROVE FALSE
  <2>1. CASE Ask(e)
    BY <1>0, <2>1 DEF Ask, Call
  <2>2. CASE CancelProvider(e)
    BY <1>0, <2>2 DEF CancelProvider, CancelCall
  <2> QED BY <1>3, <2>1, <2>2 DEF EventStep, Dispatch, HandlerEnds, HandlerRaises, Route,
            RunCommand, Answered, Cancel, Finish, profileVars
<1>4. ASSUME NEW s, ScopeStep(s) PROVE FALSE
  BY <1>4 DEF ScopeStep, CloseBelow, DisposeHandler, DisposeCommands, DisposeStorage,
     StorageClosed, DisposeOwn, DisposerFails, ScopeDone, CloseService, profileVars
<1>5. ASSUME Start \/ Close \/ ManagerStep \/ UNCHANGED vars PROVE FALSE
  BY <1>5 DEF Start, Close, ManagerStep, CleanupRuns, CleanupEnds, vars, profileVars
<1> QED BY <1>1, <1>2, <1>3, <1>4, <1>5 DEF Next

LEMMA ReturnedStays ==
  ASSUME [Next]_vars, closing = "returned"
  PROVE  closing' = "returned"
BY NextMovesProfile DEF ProfileMoves, Call, CancelCall, CloseService, ProfileStep, Enter,
   StartThread, ThreadStep, ThreadReads, ThreadWrites, ThreadBusy, ThreadDone, CloseEnters,
   CloseReturns, profileVars

\* A scope gives up its storage disposer when the service is closed.
LEMMA StorageStays ==
  ASSUME ControlInv, [Next]_vars, NEW p \in Plugins, NEW d \in HeldBy(scope[p]),
         d.kind = "storage", closing # "returned"
  PROVE  d \in HeldBy(scope'[p])
<1>0. p \in Scopes
  BY DEF Scopes
<1>1. StepKinds
  BY NextIsOfAKind
<1>2. CASE Undisturbed
  BY <1>0, <1>2 DEF Undisturbed, Keeps
<1>3. ASSUME NEW q \in Plugins, NEW x, Owning(q, x), UNCHANGED managerVars, InFlight(q),
             activation[q].pc # "rollback"
      PROVE  d \in HeldBy(scope'[p])
  <2>1. Onward(q, x)
    BY <1>3, OwningGoesOn
  <2> QED BY <1>0, <2>1 DEF Onward, Keeps
<1>4. ASSUME NEW q \in Plugins, Rollback(q), UNCHANGED managerVars, InFlight(q),
             activation[q].pc # "rollback"
      PROVE  d \in HeldBy(scope'[p])
  BY <1>0, <1>4, RollbackGoesOn DEF Keeps
<1>5. ASSUME NEW q \in Plugins, OnHandler(q) \/ OnCommands(q) \/ OnOwn(q) \/ StorageStarted(q)
      PROVE  d \in HeldBy(scope'[p])
  <2>1. UNCHANGED managerVars /\ InFlight(q) /\ activation[q].pc # "rollback"
    BY <1>5 DEF OnHandler, OnCommands, OnOwn, StorageStarted, Due, InFactory, InFlight
  <2>2. Rollback(q) \/ \E x : Owning(q, x)
    BY <1>5 DEF OnHandler, OnCommands, OnOwn, StorageStarted
  <2> QED BY <1>3, <1>4, <2>1, <2>2
<1>6. ASSUME NEW s \in Scopes, DisposeHandler(s) \/ DisposeCommands(s) \/ DisposeOwn(s)
      PROVE  d \in HeldBy(scope'[p])
  <2>1. PICK kind \in {"handler", "commands", "own"} :
          /\ Disposing(s, kind) /\ Disposed(s) /\ UNCHANGED <<managerVars, activation>>
    BY <1>6 DEF DisposeHandler, DisposeCommands, DisposeOwn
  <2>2. /\ \A t \in Scopes \ {s} : Keeps(t)
        /\ HeldBy(scope[s]) \ {Disposer(s)} \subseteq HeldBy(scope'[s])
    BY <2>1, CalledGoesOn
  <2>3. d # Disposer(s)
    BY <2>1 DEF Disposing
  <2> QED BY <1>0, <2>2, <2>3 DEF Keeps
<1>7. ASSUME NEW s \in Scopes, DisposeStorage(s)
      PROVE  d \in HeldBy(scope'[p])
  <2>1. /\ Disposing(s, "storage") /\ scope' = [scope EXCEPT ![s].awaits = TRUE]
        /\ UNCHANGED <<managerVars, activation>>
    BY <1>7 DEF DisposeStorage
  <2>2. \A t \in Scopes : HeldBy(scope'[t]) = HeldBy(scope[t])
    BY <2>1, WaitsGoesOn
  <2> QED BY <1>0, <2>2
<1>8. ASSUME NEW s \in Scopes, StorageClosed(s) PROVE FALSE
  BY <1>8 DEF StorageClosed
<1> QED BY <1>1, <1>2, <1>5, <1>6, <1>7, <1>8 DEF StepKinds

\* An activation that has begun with its storage ends with it.
LEMMA StorageEnds ==
  ASSUME ControlInv, [Next]_vars, NEW p \in Plugins \ overtaken,
         activation[p].pc \in {"starting", "cancelled", "abandoning"}
  PROVE  \/ activation'[p].pc \in {"starting", "cancelled", "abandoning"}
         \/ closing = "returned"
         \/ \E d \in HeldBy(scope'[p]) : d.kind = "storage"
<1>0. InFlight(p) /\ activation[p].pc # "rollback" /\ DOMAIN activation = Plugins
      /\ DOMAIN activation[p] = {"pc", "at"}
  BY DEF InFlight, ControlInv, HostShapes
<1>1. ASSUME NEW q \in Plugins, ActivationStep(q), q # p PROVE activation'[p] = activation[p]
  BY <1>0, <1>1 DEF ActivationStep, Activate, OnHandler, OnCommands, OnOwn, StorageStarts,
     StorageStarted, StorageFails, StorageCancelled, StorageUnwinds, StorageAbandoned,
     FactoryRaises, FactoryReturns, RolledBack, Owning, Rollback
<1>2. CASE ActivationStep(p)
  <2>1. CASE StorageStarted(p)
    <3>1. PICK d : d = [kind |-> "storage", id |-> res.next]
      OBVIOUS
    <3>2. Owning(p, d) /\ UNCHANGED managerVars
      BY <2>1, <3>1 DEF StorageStarted
    <3>3. scope[p].pc = "open"
      BY <1>0, OpenWhileInFlight
    <3> QED BY <1>0, <3>1, <3>2, <3>3, OwningGoesOn
  <2>2. CASE StorageFails(p) \/ StorageCancelled(p) \/ StorageUnwinds(p)
    BY <1>0, <2>2 DEF StorageFails, StorageCancelled, StorageUnwinds
  <2>3. CASE StorageAbandoned(p)
    BY <2>3 DEF StorageAbandoned
  <2>4. ASSUME \/ Activate(p) \/ OnHandler(p) \/ OnCommands(p) \/ OnOwn(p) \/ StorageStarts(p)
               \/ FactoryRaises(p) \/ FactoryReturns(p) \/ RolledBack(p)
        PROVE FALSE
    BY <2>4 DEF Activate, OnHandler, OnCommands, OnOwn, StorageStarts, FactoryRaises,
       FactoryReturns, RolledBack, Due, InFactory
  <2> QED BY <1>2, <2>1, <2>2, <2>3, <2>4 DEF ActivationStep
<1>3. ASSUME NEW s, ScopeStep(s) PROVE activation' = activation
  BY <1>3 DEF ScopeStep, CloseBelow, DisposeHandler, DisposeCommands, DisposeStorage,
     StorageClosed, DisposeOwn, DisposerFails, ScopeDone
<1>4. ASSUME NEW e, EventStep(e) PROVE activation' = activation
  BY <1>4 DEF EventStep, Dispatch, HandlerEnds, HandlerRaises, Route, RunCommand, Ask,
     Answered, Cancel, CancelProvider, Finish, Unaffected
<1>5. ASSUME Start \/ Close \/ ManagerStep \/ UNCHANGED hostVars PROVE activation' = activation
  BY <1>5 DEF Start, Close, ManagerStep, CleanupRuns, CleanupEnds, hostVars
<1> QED BY <1>1, <1>2, <1>3, <1>4, <1>5 DEF Next, vars

LEMMA NextKeepsService ==
  ASSUME ProfileInv, ControlInv, FootInv, ServiceHeld, [Next]_vars
  PROVE  ServiceHeld'
<1>1. overtaken \subseteq overtaken'
  <2>1. CASE Undisturbed
    BY <2>1 DEF Undisturbed
  <2>2. CASE ~Undisturbed
    BY <2>2, NextIsOfAKind DEF StepKinds, OnHandler, OnCommands, OnOwn, StorageStarted,
       DisposeHandler, DisposeCommands, StorageClosed, DisposeOwn, DisposeStorage, managerVars
  <2> QED BY <2>1, <2>2
<1> SUFFICES ASSUME NEW p \in Plugins \ overtaken, call'[p].pc # "none", closing # "returned"
             PROVE  \/ activation'[p].pc \in {"starting", "cancelled", "abandoning"}
                    \/ \E d \in HeldBy(scope'[p]) : d.kind = "storage"
  BY <1>1, ReturnedStays DEF ServiceHeld
<1>2. CASE call[p].pc = "none"
  <2>1. StorageStarts(p)
    BY <1>2, CallsBegin
  <2> QED BY <2>1 DEF StorageStarts, ControlInv, HostShapes
<1>3. CASE call[p].pc # "none"
  <2>1. \/ activation[p].pc \in {"starting", "cancelled", "abandoning"}
        \/ \E d \in HeldBy(scope[p]) : d.kind = "storage"
    BY <1>3 DEF ServiceHeld
  <2> QED BY <2>1, StorageEnds, StorageStays
<1> QED BY <1>2, <1>3

\* Whatever is cancelled, fails and is retried: no thread works on the database when close of
\* the profile service has returned, and it has returned when the scope of a plugin that has
\* used the service is closed.
THEOREM ServiceIsQuiet == Spec => []QuietAfterClose
<1>1. Init => ServiceHeld
  BY HostAssumption DEF Init, InitProfile, NoCall, ServiceHeld
<1>2. ProfileInv /\ ControlInv /\ FootInv /\ ServiceHeld /\ [Next]_vars => ServiceHeld'
  BY NextKeepsService
<1>3. ProfileInv /\ ControlInv /\ ServiceHeld => QuietAfterClose
  <2> SUFFICES ASSUME ProfileInv, ControlInv, ServiceHeld
               PROVE  \A p \in Plugins \ overtaken :
                        (scope[p].pc = "complete" /\ call[p].pc # "none") => closing = "returned"
    BY DEF QuietAfterClose, ProfileInv, ClosedQuiet
  <2> TAKE p \in Plugins \ overtaken
  <2> HAVE scope[p].pc = "complete" /\ call[p].pc # "none"
  <2>1. HeldBy(scope[p]) = {}
    <3>1. Sound(scope[p])
      BY DEF ControlInv, HostShapes, Scopes
    <3> QED BY <3>1, EmptySeq DEF Sound, HeldBy
  <2>2. activation[p].pc \notin {"starting", "cancelled", "abandoning"}
    BY OpenWhileInFlight DEF InFlight
  <2> QED BY <2>1, <2>2 DEF ServiceHeld
<1> QED BY <1>1, <1>2, <1>3, ProfileIsSafe, OwnersAreSafe, PTL DEF Spec

-----------------------------------------------------------------------------
(* The registries agree. *)

\* A set of naturals has a least element, ...
LEMMA Least ==
  ASSUME NEW T, T \subseteq Nat, T # {}
  PROVE  \E m \in T : \A k \in T : m <= k
<1> DEFINE R == {ss \in Nat \X Nat : ss[1] < ss[2]}
<1>1. IsWellFoundedOn(R, Nat)
  BY NatLessThanWellFounded, Zenon DEF OpToRel
<1>2. PICK m \in T : \A k \in T : <<k, m>> \notin R
  <2> HIDE DEF R
  <2> QED BY <1>1, WFMin, Zenon
<1>3. ASSUME NEW k \in T PROVE m <= k
  <2>1. ~(k < m)
    BY <1>2
  <2> QED BY <2>1
<1> QED BY <1>3

\* ... one that is bounded has a greatest, ...
LEMMA MaxOf ==
  ASSUME NEW S, S \subseteq Nat, S # {}, NEW b \in Nat, \A x \in S : x <= b
  PROVE  Max(S) \in S /\ \A x \in S : x <= Max(S)
<1> DEFINE T == {k \in Nat : \A x \in S : x <= k}
<1>1. T \subseteq Nat /\ b \in T
  OBVIOUS
<1>2. PICK m \in T : \A k \in T : m <= k
  <2> HIDE DEF T
  <2> QED BY <1>1, Least
<1>3. m \in S
  <2> SUFFICES ASSUME m \notin S PROVE FALSE
    OBVIOUS
  <2>1. \A x \in S : x \in Nat /\ x <= m /\ x # m
    OBVIOUS
  <2>2. m - 1 \in Nat /\ \A x \in S : x <= m - 1
    <3>1. m \in Nat
      OBVIOUS
    <3>2. ASSUME NEW x \in S PROVE m - 1 \in Nat /\ x <= m - 1
      <4>1. x \in Nat /\ x <= m /\ x # m
        BY <2>1
      <4> HIDE DEF T
      <4> QED BY <3>1, <4>1
    <3> HIDE DEF T
    <3> QED BY <3>2
  <2>3. m - 1 \in T
    BY <2>2
  <2> QED BY <1>2, <2>3
<1>4. \E x \in S : \A y \in S : x >= y
  BY <1>3
<1> QED BY <1>4 DEF Max

\* ... and finitely many naturals are bounded.
LEMMA Bounded ==
  ASSUME NEW n \in Nat, NEW f, \A i \in 1..n : f[i] \in Nat
  PROVE  \E b \in Nat : \A i \in 1..n : f[i] <= b
<1> DEFINE T == {k \in Nat : k <= n /\ ~\E b \in Nat : \A i \in 1..k : f[i] <= b}
<1>0. SUFFICES ASSUME T # {} PROVE FALSE
  <2>1. n \notin T
    BY <1>0
  <2> QED BY <2>1
<1>1. PICK k \in T : \A l \in T : k <= l
  <2> T \subseteq Nat
    OBVIOUS
  <2> HIDE DEF T
  <2> QED BY <1>0, Least
<1>2. k # 0
  <2>1. \A i \in 1..0 : f[i] <= 0
    OBVIOUS
  <2> QED BY <2>1
<1>3. k - 1 \in Nat /\ k - 1 <= n /\ k - 1 \notin T /\ k \in 1..n
  <2>1. k \in Nat /\ k <= n
    OBVIOUS
  <2>2. k - 1 \in Nat /\ k - 1 <= n /\ k \in 1..n /\ ~(k <= k - 1)
    BY <1>2, <2>1
  <2> HIDE DEF T
  <2> QED BY <1>1, <2>2
<1>4. PICK b \in Nat : \A i \in 1..(k - 1) : f[i] <= b
  BY <1>3
<1>5. PICK c \in Nat : c >= b /\ c >= f[k]
  <2>1. f[k] \in Nat
    BY <1>3
  <2>2. ASSUME NEW x \in Nat, NEW y \in Nat PROVE \E c \in Nat : c >= x /\ c >= y
    <3>1. x + y \in Nat /\ x + y >= x /\ x + y >= y
      OBVIOUS
    <3> QED BY <3>1
  <2> QED BY <2>1, <2>2
<1>6. \A i \in 1..k : f[i] <= c
  <2>1. ASSUME NEW i \in 1..k PROVE f[i] <= c
    <3>1. CASE i = k
      BY <1>5, <3>1
    <3>2. CASE i # k
      <4>1. i \in 1..(k - 1)
        BY <3>2
      <4>2. f[i] <= b /\ f[i] \in Nat
        BY <1>3, <1>4, <4>1
      <4> QED BY <1>5, <4>2
    <3> QED BY <3>1, <3>2
  <2> QED BY <2>1
<1> QED BY <1>6

LEMMA FoldedShape ==
  ASSUME NEW a \in Seq(Words)
  PROVE  /\ Folded(a) \in Seq(Words) /\ Len(Folded(a)) = Len(a)
         /\ Folded(Folded(a)) = Folded(a)
<1>1. Len(a) \in Nat /\ DOMAIN a = 1..Len(a) /\ \A i \in 1..Len(a) : a[i] \in Words
  BY LenProperties
<1>2. PICK n : n = Len(a)
  OBVIOUS
<1>3. PICK f : f = [i \in 1..n |-> Fold[a[i]]]
  OBVIOUS
<1>4. Folded(a) = f /\ n \in Nat
  BY <1>1, <1>2, <1>3 DEF Folded
<1>5. f \in [1..n -> Words]
  BY <1>1, <1>2, <1>3, WordAssumption
<1>6. f \in Seq(Words) /\ Len(f) = n
  BY <1>4, <1>5
<1>7. Folded(f) = f
  <2>1. \A i \in 1..n : Fold[f[i]] = f[i]
    BY <1>1, <1>2, <1>3, WordAssumption
  <2>2. DOMAIN f = 1..n /\ f = [i \in 1..n |-> f[i]]
    BY <1>3
  <2> QED BY <2>1, <2>2 DEF Folded
<1> QED BY <1>2, <1>4, <1>6, <1>7

\* What a command is found by.
LEMMA PathShape ==
  ASSUME NEW s, OfWords(s), NEW q \in PathsOf(s)
  PROVE  /\ q \in Seq(Words) /\ Len(q) = Len(s.path) + 1 /\ Len(s.path) \in Nat
         /\ Folded(q) = q
<1>1. PICK n \in {s.name} \cup s.aliases : q = Folded(Append(s.path, n))
  BY DEF PathsOf
<1>2. PICK p : p = s.path
  OBVIOUS
<1>3. n \in Words /\ p \in Seq(Words)
  BY <1>2 DEF OfWords
<1>4. Append(p, n) \in Seq(Words) /\ Len(Append(p, n)) = Len(p) + 1 /\ Len(p) \in Nat
  BY <1>3
<1> QED BY <1>1, <1>2, <1>4, FoldedShape

\* Every path leads to the command that has it, and every command has all of its paths; the
\* cached maximum is not exceeded.
RegSound(r) ==
  /\ r.next \in Nat /\ r.longest \in Nat
  /\ \A n \in DOMAIN r.commands : n \in Nat /\ n < r.next /\ OfWords(r.commands[n].spec)
  /\ \A n \in DOMAIN r.commands : \A q \in PathsOf(r.commands[n].spec) :
       q \in DOMAIN r.paths /\ r.paths[q] = n
  /\ \A q \in DOMAIN r.paths :
       /\ r.paths[q] \in DOMAIN r.commands /\ q \in PathsOf(r.commands[r.paths[q]].spec)
       /\ Len(q) <= r.longest

\* A registered path is a path, and none is longer than the cached maximum.
LEMMA PathsAre ==
  ASSUME NEW r, RegSound(r), NEW q \in DOMAIN r.paths
  PROVE  /\ q \in Seq(Words) /\ Len(q) \in Nat /\ Len(q) >= 1 /\ Folded(q) = q
         /\ r.longest \in Nat /\ Len(q) <= r.longest
<1>1. PICK s : s = r.commands[r.paths[q]].spec
  OBVIOUS
<1>2. OfWords(s) /\ q \in PathsOf(s)
  BY <1>1 DEF RegSound
<1>3. q \in Seq(Words) /\ Len(q) = Len(s.path) + 1 /\ Len(s.path) \in Nat /\ Folded(q) = q
  BY <1>2, PathShape
<1> QED BY <1>3 DEF RegSound

\* Resolve finds the command of a registered path.
LEMMA PathsResolve ==
  ASSUME NEW r, RegSound(r), NEW q \in DOMAIN r.paths,
         NEW all, \A n \in DOMAIN r.commands : r.commands[n].spec.permission \in all
  PROVE  Resolved(r, q, all) = r.paths[q]
BY PathsAre DEF Resolved, Visible, Allows, RegSound

\* A line that starts with a path invokes the command of the longest path it starts with.
LEMMA PathsInvoke ==
  ASSUME NEW r, RegSound(r), NEW q \in DOMAIN r.paths, NEW t \in Seq(Words),
         q \in Spelled(r, t), NEW line, line.tokens = t, line.prefixed, ~line.spaced
  PROVE  \E p \in Spelled(r, t) : /\ \A s \in Spelled(r, t) : Len(s) <= Len(p)
                                  /\ Invoked(r, line) = r.paths[p]
<1>1. /\ Len(t) \in Nat /\ DOMAIN t = 1..Len(t) /\ r.longest \in Nat
      /\ \A i \in 1..Len(t) : t[i] \in Words
  BY LenProperties DEF RegSound
<1>0. PICK n : n = Len(t)
  OBVIOUS
<1>2. PICK m : m = Min({r.longest, n})
  OBVIOUS
<1>3. m \in Nat /\ n \in Nat /\ m <= n /\ (m = r.longest \/ m = n)
  <2>1. \E x \in {r.longest, n} : \A y \in {r.longest, n} : x <= y
    BY <1>0, <1>1
  <2>2. m \in {r.longest, n} /\ \A y \in {r.longest, n} : m <= y
    BY <1>2, <2>1 DEF Min
  <2> QED BY <1>0, <1>1, <2>2
<1>4. PICK spelled : spelled = {k \in 1..m : Folded(SubSeq(t, 1, k)) \in DOMAIN r.paths}
  OBVIOUS
<1>5. ASSUME NEW k \in 1..m
      PROVE  /\ Len(Folded(SubSeq(t, 1, k))) = k
             /\ DOMAIN Folded(SubSeq(t, 1, k)) = 1..k
             /\ \A i \in 1..k : Folded(SubSeq(t, 1, k))[i] = Fold[t[i]]
  <2>1. PICK u : u = SubSeq(t, 1, k)
    OBVIOUS
  <2>2. k \in Nat /\ k >= 1 /\ k <= Len(t)
    <3>1. k \in Nat /\ k >= 1 /\ k <= n
      BY <1>3
    <3> QED BY <1>0, <3>1
  <2>3. u \in Seq(Words) /\ Len(u) = k /\ \A i \in 1..k : u[i] = t[i]
    BY <2>1, <2>2
  <2>4. DOMAIN u = 1..k
    BY <2>3, LenProperties
  <2>5. DOMAIN Folded(u) = 1..k /\ \A i \in 1..k : Folded(u)[i] = Fold[t[i]]
    BY <2>3, <2>4 DEF Folded
  <2>6. Len(Folded(u)) = k
    BY <2>3, FoldedShape
  <2> QED BY <2>1, <2>5, <2>6
<1>6. ASSUME NEW s \in Spelled(r, t) PROVE Len(s) \in spelled
  <2>1. s \in DOMAIN r.paths /\ Len(s) <= Len(t) /\ \A i \in 1..Len(s) : s[i] = Fold[t[i]]
    BY DEF Spelled
  <2>2. s \in Seq(Words) /\ Len(s) \in Nat /\ Len(s) >= 1 /\ Len(s) <= r.longest
    BY <2>1, PathsAre
  <2>3. PICK k : k = Len(s)
    OBVIOUS
  <2>4. k \in 1..m
    <3>1. k \in Nat /\ k >= 1 /\ k <= r.longest /\ k <= n
      BY <1>0, <2>1, <2>2, <2>3
    <3> QED BY <1>3, <3>1
  <2>5. PICK f : f = Folded(SubSeq(t, 1, k))
    OBVIOUS
  <2>6. DOMAIN f = 1..k /\ f = [i \in DOMAIN f |-> f[i]] /\ \A i \in 1..k : f[i] = Fold[t[i]]
    BY <1>5, <2>4, <2>5 DEF Folded
  <2>7. DOMAIN s = 1..k /\ s = [i \in DOMAIN s |-> s[i]]
    BY <2>2, <2>3, LenProperties
  <2>8. f = s
    <3>1. \A i \in 1..k : s[i] = f[i]
      BY <2>1, <2>3, <2>6
    <3> QED BY <2>6, <2>7, <3>1
  <2> QED BY <1>4, <2>1, <2>3, <2>4, <2>5, <2>8
<1>7. PICK g : g = Max(spelled)
  OBVIOUS
<1>8. g \in spelled /\ \A k \in spelled : k <= g
  <2>1. spelled \subseteq Nat /\ spelled # {} /\ \A x \in spelled : x <= m
    BY <1>3, <1>4, <1>6
  <2> QED BY <1>3, <1>7, <2>1, MaxOf
<1>9. PICK p : p = Folded(SubSeq(t, 1, g))
  OBVIOUS
<1>10. p \in Spelled(r, t) /\ Len(p) = g
  <2>1. g \in 1..m /\ p \in DOMAIN r.paths
    BY <1>4, <1>8, <1>9
  <2>2. Len(p) = g /\ \A i \in 1..g : p[i] = Fold[t[i]]
    BY <1>5, <1>9, <2>1
  <2>3. g <= Len(t)
    BY <1>0, <1>3, <2>1
  <2> QED BY <2>1, <2>2, <2>3 DEF Spelled
<1>11. Invoked(r, line) = r.paths[p]
  BY <1>0, <1>2, <1>4, <1>7, <1>8, <1>9 DEF Invoked
<1>12. \A s \in Spelled(r, t) : Len(s) <= Len(p)
  BY <1>6, <1>8, <1>10
<1> QED BY <1>10, <1>11, <1>12

\* A batch of commands, acceptable to the registry.
Batch(r, specs) ==
  /\ Len(specs) \in Nat /\ DOMAIN specs = 1..Len(specs)
  /\ \A i \in DOMAIN specs : OfWords(specs[i])
  /\ Acceptable(r, specs)

LEMMA PathsOfBatch ==
  ASSUME NEW r, NEW specs, Batch(r, specs), NEW i \in DOMAIN specs, NEW q \in PathsOf(specs[i])
  PROVE  /\ q \notin DOMAIN r.paths
         /\ \A j \in DOMAIN specs : q \in PathsOf(specs[j]) => j = i
<1>1. q \notin DOMAIN r.paths
  BY DEF Batch, Acceptable
<1>2. ASSUME NEW j \in DOMAIN specs, NEW k \in DOMAIN specs, j < k,
             q \in PathsOf(specs[j]), q \in PathsOf(specs[k])
      PROVE  FALSE
  <2>1. j \in 1..k - 1
    BY <1>2 DEF Batch
  <2>2. PathsOf(specs[k]) \cap PathsOf(specs[j]) = {}
    BY <2>1 DEF Batch, Acceptable
  <2> QED BY <1>2, <2>2
<1>3. ASSUME NEW j \in DOMAIN specs, q \in PathsOf(specs[j]) PROVE j = i
  <2>1. i \in Nat /\ j \in Nat
    BY DEF Batch
  <2>2. ~(i < j) /\ ~(j < i)
    BY <1>2, <1>3
  <2> QED BY <2>1, <2>2
<1> QED BY <1>1, <1>3

\* What register_many makes of the registry: a command for each of the batch, under new ids, a
\* path for each of theirs, and a maximum that none exceeds.
LEMMA AddedEffect ==
  ASSUME NEW r, RegSound(r), NEW specs, Batch(r, specs), NEW owner, NEW a,
         a = Added(r, specs, owner)
  PROVE  /\ a.next = r.next + Len(specs)
         /\ DOMAIN a.commands = DOMAIN r.commands \cup {r.next + i - 1 : i \in DOMAIN specs}
         /\ \A n \in DOMAIN r.commands : a.commands[n] = r.commands[n]
         /\ \A i \in DOMAIN specs :
              a.commands[r.next + i - 1] = [owner |-> owner, spec |-> specs[i]]
         /\ DOMAIN a.paths = DOMAIN r.paths \cup UNION {PathsOf(specs[i]) : i \in DOMAIN specs}
         /\ \A q \in DOMAIN r.paths : a.paths[q] = r.paths[q]
         /\ \A i \in DOMAIN specs : \A q \in PathsOf(specs[i]) : a.paths[q] = r.next + i - 1
         /\ a.longest \in Nat /\ r.longest <= a.longest
         /\ \A i \in DOMAIN specs : \A q \in PathsOf(specs[i]) : Len(q) <= a.longest
<1>1. PICK N, L : N = r.next /\ L = Len(specs)
  OBVIOUS
<1>2. N \in Nat /\ L \in Nat /\ DOMAIN specs = 1..L /\ r.longest \in Nat
  BY <1>1 DEF RegSound, Batch
<1>3. PICK fresh : fresh = UNION {PathsOf(specs[i]) : i \in DOMAIN specs}
  OBVIOUS
<1> DEFINE idOf(q) == N - 1 + CHOOSE i \in DOMAIN specs : q \in PathsOf(specs[i])
<1>4. /\ a.next = N + L
      /\ a.commands = Updated(r.commands, [n \in N .. N + L - 1 |->
                                            [owner |-> owner, spec |-> specs[n - N + 1]]])
      /\ a.paths = Updated(r.paths, [q \in fresh |-> idOf(q)])
      /\ a.longest = Max({r.longest} \cup PathLengths(fresh))
  BY <1>1, <1>3 DEF Added
<1>5. ASSUME NEW n
      PROVE n \in N .. N + L - 1 <=> \E i \in 1..L : n = N + i - 1
  <2>1. ASSUME n \in N .. N + L - 1 PROVE \E i \in 1..L : n = N + i - 1
    <3>1. n - N + 1 \in 1..L /\ n = N + (n - N + 1) - 1
      BY <1>2, <2>1
    <3> QED BY <3>1
  <2>2. ASSUME NEW i \in 1..L PROVE N + i - 1 \in N .. N + L - 1
    BY <1>2
  <2> QED BY <2>1, <2>2
<1>6. DOMAIN a.commands = DOMAIN r.commands \cup {N + i - 1 : i \in DOMAIN specs}
  <2>1. DOMAIN a.commands = DOMAIN r.commands \cup N .. N + L - 1
    BY <1>4 DEF Updated
  <2> QED BY <1>2, <1>5, <2>1
<1>7. \A n \in DOMAIN r.commands : a.commands[n] = r.commands[n]
  <2>1. \A n \in DOMAIN r.commands : n \notin N .. N + L - 1
    BY <1>1, <1>2 DEF RegSound
  <2> QED BY <1>4, <2>1 DEF Updated
<1>8. ASSUME NEW i \in DOMAIN specs
      PROVE  a.commands[N + i - 1] = [owner |-> owner, spec |-> specs[i]]
  <2>1. N + i - 1 \in N .. N + L - 1 /\ (N + i - 1) - N + 1 = i
    BY <1>2
  <2> QED BY <1>4, <2>1 DEF Updated
<1>9. DOMAIN a.paths = DOMAIN r.paths \cup fresh
  BY <1>4 DEF Updated
<1>10. ASSUME NEW i \in DOMAIN specs, NEW q \in PathsOf(specs[i])
       PROVE  q \in fresh /\ q \notin DOMAIN r.paths /\ a.paths[q] = N + i - 1
  <2>1. q \in fresh
    BY <1>3
  <2>2. (CHOOSE j \in DOMAIN specs : q \in PathsOf(specs[j])) = i /\ q \notin DOMAIN r.paths
    BY PathsOfBatch
  <2>3. idOf(q) = N + i - 1
    <3>1. idOf(q) = N - 1 + i
      BY <2>2, Zenon
    <3>2. N - 1 + i = N + i - 1
      BY <1>2
    <3> HIDE DEF idOf
    <3> QED BY <3>1, <3>2
  <2> HIDE DEF idOf
  <2> QED BY <1>4, <2>1, <2>2, <2>3 DEF Updated
<1>11. \A q \in DOMAIN r.paths : a.paths[q] = r.paths[q]
  <2>1. \A q \in DOMAIN r.paths : q \notin fresh
    BY <1>3, <1>10
  <2> HIDE DEF idOf
  <2> QED BY <1>4, <2>1 DEF Updated
<1>12. PICK lengths : lengths = {r.longest} \cup PathLengths(fresh)
  OBVIOUS
<1>13. ASSUME NEW i \in DOMAIN specs, NEW q \in PathsOf(specs[i])
       PROVE  Len(q) = Len(specs[i].path) + 1 /\ Len(specs[i].path) \in Nat
  <2>1. OfWords(specs[i])
    BY DEF Batch
  <2> QED BY <2>1, PathShape
<1>14. ASSUME NEW x \in PathLengths(fresh)
       PROVE  \E i \in 1..L : x = Len(specs[i].path) + 1 /\ Len(specs[i].path) \in Nat
  <2>1. PICK q \in fresh : x = Len(q)
    BY DEF PathLengths
  <2>2. PICK i \in DOMAIN specs : q \in PathsOf(specs[i])
    BY <1>3, <2>1
  <2> QED BY <1>2, <1>13, <2>1, <2>2
<1>15. PICK b \in Nat : \A i \in 1..L : Len(specs[i].path) <= b
  <2>1. PICK f : f = [i \in 1..L |-> Len(specs[i].path)]
    OBVIOUS
  <2>2. \A i \in 1..L : f[i] \in Nat
    <3>1. ASSUME NEW i \in 1..L PROVE Len(specs[i].path) \in Nat
      <4>1. OfWords(specs[i])
        BY <1>2 DEF Batch
      <4> QED BY <4>1, LenProperties DEF OfWords
    <3> QED BY <2>1, <3>1
  <2>3. \E b \in Nat : \A i \in 1..L : f[i] <= b
    BY <1>2, <2>2, Bounded
  <2> QED BY <2>1, <2>3
<1>16. ASSUME NEW x \in lengths PROVE x \in Nat /\ x <= r.longest + b + 1
  <2>1. CASE x = r.longest
    BY <1>2, <2>1
  <2>2. CASE x \in PathLengths(fresh)
    <3>1. PICK m : m \in Nat /\ m <= b /\ x = m + 1
      BY <1>14, <1>15, <2>2
    <3> QED BY <1>2, <3>1
  <2> QED BY <1>12, <2>1, <2>2
<1>17. a.longest \in lengths /\ \A x \in lengths : x <= a.longest
  <2>0. lengths \subseteq Nat /\ lengths # {}
    BY <1>12, <1>16
  <2>1. r.longest + b + 1 \in Nat
    BY <1>2
  <2>2. Max(lengths) \in lengths /\ \A x \in lengths : x <= Max(lengths)
    BY <1>16, <2>0, <2>1, MaxOf
  <2> QED BY <1>4, <1>12, <2>2
<1>18. a.longest \in Nat /\ r.longest <= a.longest
  BY <1>12, <1>16, <1>17
<1>19. ASSUME NEW i \in DOMAIN specs, NEW q \in PathsOf(specs[i]) PROVE Len(q) <= a.longest
  BY <1>10, <1>12, <1>17 DEF PathLengths
<1> QED BY <1>1, <1>3, <1>4, <1>6, <1>7, <1>8, <1>9, <1>10, <1>11, <1>18, <1>19

LEMMA AddedSound ==
  ASSUME NEW r, RegSound(r), NEW specs, Batch(r, specs), NEW owner, NEW a,
         a = Added(r, specs, owner)
  PROVE  RegSound(a)
<1>1. /\ a.next = r.next + Len(specs) /\ r.next \in Nat /\ Len(specs) \in Nat
      /\ DOMAIN specs = 1..Len(specs)
      /\ DOMAIN a.commands = DOMAIN r.commands \cup {r.next + i - 1 : i \in DOMAIN specs}
      /\ \A n \in DOMAIN r.commands : a.commands[n] = r.commands[n]
      /\ \A i \in DOMAIN specs : a.commands[r.next + i - 1].spec = specs[i]
  <2>1. /\ a.next = r.next + Len(specs)
        /\ DOMAIN a.commands = DOMAIN r.commands \cup {r.next + i - 1 : i \in DOMAIN specs}
        /\ \A n \in DOMAIN r.commands : a.commands[n] = r.commands[n]
        /\ \A i \in DOMAIN specs :
             a.commands[r.next + i - 1] = [owner |-> owner, spec |-> specs[i]]
    BY AddedEffect
  <2>2. r.next \in Nat /\ Len(specs) \in Nat /\ DOMAIN specs = 1..Len(specs)
    BY DEF RegSound, Batch
  <2>3. ASSUME NEW i \in DOMAIN specs PROVE a.commands[r.next + i - 1].spec = specs[i]
    <3>1. PICK x : x = [owner |-> owner, spec |-> specs[i]]
      OBVIOUS
    <3>2. a.commands[r.next + i - 1] = x
      BY <2>1, <3>1, Zenon
    <3>3. x.spec = specs[i]
      BY <3>1
    <3> QED BY <3>2, <3>3, Zenon
  <2> QED BY <2>1, <2>2, <2>3, Zenon
<1>2. /\ DOMAIN a.paths = DOMAIN r.paths \cup UNION {PathsOf(specs[i]) : i \in DOMAIN specs}
      /\ \A q \in DOMAIN r.paths : a.paths[q] = r.paths[q]
      /\ \A i \in DOMAIN specs : \A q \in PathsOf(specs[i]) : a.paths[q] = r.next + i - 1
  BY AddedEffect
<1>3. /\ a.longest \in Nat /\ r.longest <= a.longest /\ r.longest \in Nat
      /\ \A i \in DOMAIN specs : \A q \in PathsOf(specs[i]) : Len(q) <= a.longest
  <2>1. r.longest \in Nat
    BY DEF RegSound
  <2> QED BY <2>1, AddedEffect
<1>4. a.next \in Nat
  BY <1>1
<1>5. ASSUME NEW n \in DOMAIN a.commands
      PROVE  /\ n \in Nat /\ n < a.next /\ OfWords(a.commands[n].spec)
             /\ \A q \in PathsOf(a.commands[n].spec) : q \in DOMAIN a.paths /\ a.paths[q] = n
  <2>1. CASE n \in DOMAIN r.commands
    <3>1. n \in Nat /\ n < r.next /\ OfWords(r.commands[n].spec)
      BY <2>1 DEF RegSound
    <3>2. n < a.next
      BY <1>1, <3>1
    <3>3. \A q \in PathsOf(r.commands[n].spec) : q \in DOMAIN r.paths /\ r.paths[q] = n
      BY <2>1 DEF RegSound
    <3> QED BY <1>1, <1>2, <2>1, <3>1, <3>2, <3>3
  <2>2. ASSUME NEW i \in DOMAIN specs, n = r.next + i - 1
        PROVE  /\ n \in Nat /\ n < a.next /\ OfWords(a.commands[n].spec)
               /\ \A q \in PathsOf(a.commands[n].spec) : q \in DOMAIN a.paths /\ a.paths[q] = n
    <3>1. n \in Nat /\ n < a.next
      BY <1>1, <2>2
    <3>2. a.commands[n].spec = specs[i] /\ OfWords(specs[i])
      BY <1>1, <2>2 DEF Batch
    <3> QED BY <1>2, <2>2, <3>1, <3>2
  <2> QED BY <1>1, <2>1, <2>2
<1>6. ASSUME NEW q \in DOMAIN a.paths
      PROVE  /\ a.paths[q] \in DOMAIN a.commands /\ q \in PathsOf(a.commands[a.paths[q]].spec)
             /\ Len(q) <= a.longest
  <2>1. CASE q \in DOMAIN r.paths
    <3>1. /\ r.paths[q] \in DOMAIN r.commands /\ q \in PathsOf(r.commands[r.paths[q]].spec)
          /\ Len(q) <= r.longest
      BY <2>1 DEF RegSound
    <3>2. Len(q) \in Nat
      <4>1. PICK s : s = r.commands[r.paths[q]].spec
        OBVIOUS
      <4>2. OfWords(s) /\ q \in PathsOf(s)
        BY <3>1, <4>1 DEF RegSound
      <4>3. Len(q) = Len(s.path) + 1 /\ Len(s.path) \in Nat
        BY <4>2, PathShape
      <4> QED BY <4>3
    <3>3. Len(q) <= a.longest
      BY <1>3, <3>1, <3>2
    <3> QED BY <1>1, <1>2, <2>1, <3>1, <3>3
  <2>2. CASE q \notin DOMAIN r.paths
    <3>1. PICK i \in DOMAIN specs : q \in PathsOf(specs[i])
      BY <1>2, <2>2
    <3>2. /\ a.paths[q] = r.next + i - 1 /\ a.paths[q] \in DOMAIN a.commands
          /\ a.commands[r.next + i - 1].spec = specs[i]
      BY <1>1, <1>2, <3>1
    <3> QED BY <1>3, <3>1, <3>2
  <2> QED BY <2>1, <2>2
<1> QED BY <1>3, <1>4, <1>5, <1>6 DEF RegSound

LEMMA WithoutSound ==
  ASSUME NEW r, RegSound(r), NEW ids, ids \subseteq DOMAIN r.commands, NEW a,
         a = Without(r, ids)
  PROVE  RegSound(a)
<1>1. PICK gone : gone = UNION {PathsOf(r.commands[n].spec) : n \in ids}
  OBVIOUS
<1>2. /\ a.next = r.next /\ r.next \in Nat /\ r.longest \in Nat
      /\ DOMAIN a.commands = DOMAIN r.commands \ ids
      /\ \A n \in DOMAIN r.commands \ ids : a.commands[n] = r.commands[n]
      /\ DOMAIN a.paths = DOMAIN r.paths \ gone
      /\ \A q \in DOMAIN r.paths \ gone : a.paths[q] = r.paths[q]
      /\ a.longest = Max({0} \cup PathLengths(DOMAIN r.paths \ gone))
  BY <1>1 DEF Without, RegSound
<1>3. ASSUME NEW q \in DOMAIN r.paths, q \notin gone
      PROVE  r.paths[q] \in DOMAIN r.commands \ ids /\ q \in PathsOf(r.commands[r.paths[q]].spec)
  BY <1>1, <1>3 DEF RegSound
<1>4. ASSUME NEW n \in DOMAIN r.commands \ ids, NEW q \in PathsOf(r.commands[n].spec)
      PROVE  q \in DOMAIN r.paths \ gone /\ r.paths[q] = n
  BY <1>1 DEF RegSound
<1>5. PICK lengths : lengths = {0} \cup PathLengths(DOMAIN r.paths \ gone)
  OBVIOUS
<1>6. ASSUME NEW x \in lengths PROVE x \in Nat /\ x <= r.longest
  <2>1. CASE x = 0
    BY <1>2, <2>1
  <2>2. CASE x \in PathLengths(DOMAIN r.paths \ gone)
    <3>1. PICK q \in DOMAIN r.paths : x = Len(q)
      BY <2>2 DEF PathLengths
    <3>2. PICK s : s = r.commands[r.paths[q]].spec
      OBVIOUS
    <3>3. OfWords(s) /\ q \in PathsOf(s) /\ Len(q) <= r.longest
      BY <3>1, <3>2 DEF RegSound
    <3>4. Len(q) = Len(s.path) + 1 /\ Len(s.path) \in Nat
      BY <3>3, PathShape
    <3> QED BY <3>1, <3>3, <3>4
  <2> QED BY <1>5, <2>1, <2>2
<1>7. a.longest \in lengths /\ \A x \in lengths : x <= a.longest
  <2>1. lengths \subseteq Nat /\ lengths # {}
    BY <1>5, <1>6
  <2>2. Max(lengths) \in lengths /\ \A x \in lengths : x <= Max(lengths)
    BY <1>2, <1>6, <2>1, MaxOf
  <2> QED BY <1>2, <1>5, <2>2
<1>8. \A q \in DOMAIN a.paths : Len(q) <= a.longest
  BY <1>2, <1>5, <1>7 DEF PathLengths
<1>9. a.longest \in Nat
  BY <1>6, <1>7
<1>10. \A n \in DOMAIN a.commands : n \in Nat /\ n < a.next /\ OfWords(a.commands[n].spec)
  BY <1>2 DEF RegSound
<1>11. \A n \in DOMAIN a.commands : \A q \in PathsOf(a.commands[n].spec) :
         q \in DOMAIN a.paths /\ a.paths[q] = n
  BY <1>2, <1>4
<1>12. \A q \in DOMAIN a.paths :
         a.paths[q] \in DOMAIN a.commands /\ q \in PathsOf(a.commands[a.paths[q]].spec)
  BY <1>2, <1>3
<1> QED BY <1>2, <1>8, <1>9, <1>10, <1>11, <1>12 DEF RegSound

\* A resource has its path and three commands of its own, which bear its owner.
HasThree(r, x) ==
  /\ \E k \in Nat : IdsOf(x) = k .. k + 2
  /\ IdsOf(x) \subseteq OwnedBy(r, x.owner)

ResourcesSound(r, s) ==
  /\ s.next \in Nat
  /\ \A n \in DOMAIN s.resources :
       /\ n \in Nat /\ n < s.next /\ HasThree(r, s.resources[n])
       /\ Folded(ResourcePath(s.resources[n].spec)) \in DOMAIN s.paths
       /\ s.paths[Folded(ResourcePath(s.resources[n].spec))] = n
  /\ \A q \in DOMAIN s.paths :
       /\ s.paths[q] \in DOMAIN s.resources
       /\ Folded(ResourcePath(s.resources[s.paths[q]].spec)) = q
  /\ \A n, m \in DOMAIN s.resources :
       n # m => IdsOf(s.resources[n]) \cap IdsOf(s.resources[m]) = {}

\* The resources stay as they are while commands come, and go that are none of theirs.
LEMMA ResourcesStay ==
  ASSUME NEW r, NEW s, ResourcesSound(r, s), NEW a,
         \A n \in DOMAIN s.resources : \A i \in IdsOf(s.resources[n]) \cap DOMAIN r.commands :
           i \in DOMAIN a.commands /\ a.commands[i] = r.commands[i]
  PROVE  ResourcesSound(a, s)
<1>1. ASSUME NEW n \in DOMAIN s.resources PROVE HasThree(a, s.resources[n])
  <2>1. PICK x : x = s.resources[n]
    OBVIOUS
  <2>2. HasThree(r, x)
    BY <2>1 DEF ResourcesSound
  <2>3. \A i \in IdsOf(x) : i \in DOMAIN r.commands /\ r.commands[i].owner = x.owner
    BY <2>2 DEF HasThree, OwnedBy
  <2>4. \A i \in IdsOf(x) : i \in DOMAIN a.commands /\ a.commands[i].owner = x.owner
    BY <2>1, <2>3
  <2> QED BY <2>1, <2>2, <2>4 DEF HasThree, OwnedBy
<1> QED BY <1>1 DEF ResourcesSound

\* register: one resource more, with the next three ids of the commands.
LEMMA ResourceAdded ==
  ASSUME NEW r, RegSound(r), NEW s, ResourcesSound(r, s), NEW x, NEW owner,
         Registrable(r, s, x), x.name \in Words, x.path \in Seq(Words), NEW a, NEW b,
         a = Added(r, CommandsOf(x), owner), b = WithResource(r, s, x, owner)
  PROVE  /\ RegSound(a) /\ ResourcesSound(a, b)
         /\ DOMAIN b.resources = DOMAIN s.resources \cup {s.next}
         /\ \A n \in DOMAIN s.resources : b.resources[n] = s.resources[n]
         /\ b.resources[s.next].owner = owner
<1>0. x.name \in Words /\ SetWord \in Words /\ DeleteWord \in Words
  BY ScriptAssumption
<1>1. PICK specs : specs = CommandsOf(x)
  OBVIOUS
<1>2. ResourcePath(x) \in Seq(Words)
  BY DEF ResourcePath
<1>3. Len(specs) = 3 /\ DOMAIN specs = 1..3 /\ \A i \in 1..3 : OfWords(specs[i])
  <2>1. Len(specs) = 3 /\ DOMAIN specs = 1..3
    BY <1>1 DEF CommandsOf
  <2>2. OfWords(specs[1]) /\ OfWords(specs[2]) /\ OfWords(specs[3])
    BY <1>0, <1>1, <1>2 DEF CommandsOf, OfWords
  <2>3. \A i \in 1..3 : i = 1 \/ i = 2 \/ i = 3
    OBVIOUS
  <2> QED BY <2>1, <2>2, <2>3
<1>4. Batch(r, specs)
  BY <1>1, <1>3 DEF Batch, Registrable
<1>5. RegSound(a)
  BY <1>1, <1>4, AddedSound
<1>6. /\ DOMAIN a.commands = DOMAIN r.commands \cup {r.next + i - 1 : i \in DOMAIN specs}
      /\ \A n \in DOMAIN r.commands : a.commands[n] = r.commands[n]
      /\ \A i \in DOMAIN specs :
           a.commands[r.next + i - 1] = [owner |-> owner, spec |-> specs[i]]
  BY <1>1, <1>4, AddedEffect
<1>7. PICK new : new = [owner |-> owner, spec |-> x, commands |-> NewIds(r, specs)]
  OBVIOUS
<1>8. PICK path : path = Folded(ResourcePath(x))
  OBVIOUS
<1>9. s.next \in Nat /\ s.next \notin DOMAIN s.resources /\ path \notin DOMAIN s.paths
      /\ r.next \in Nat
  BY <1>8 DEF ResourcesSound, Registrable, RegSound
<1>10. /\ b.next = s.next + 1
       /\ b.resources = Updated(s.resources, [n \in {s.next} |-> new])
       /\ b.paths = Updated(s.paths, [q \in {path} |-> s.next])
  BY <1>1, <1>7, <1>8 DEF WithResource
<1>11. /\ DOMAIN b.resources = DOMAIN s.resources \cup {s.next}
       /\ \A n \in DOMAIN s.resources : b.resources[n] = s.resources[n]
       /\ b.resources[s.next] = new
  BY <1>9, <1>10 DEF Updated
<1>12. /\ DOMAIN b.paths = DOMAIN s.paths \cup {path}
       /\ \A q \in DOMAIN s.paths : b.paths[q] = s.paths[q]
       /\ b.paths[path] = s.next
  BY <1>9, <1>10 DEF Updated
<1>13. IdsOf(new) = {r.next + i - 1 : i \in 1..3} /\ new.owner = owner /\ new.spec = x
  BY <1>3, <1>7 DEF IdsOf, NewIds
<1>14. HasThree(a, new)
  <2>1. IdsOf(new) = r.next .. r.next + 2
    <3>1. ASSUME NEW n \in r.next .. r.next + 2 PROVE \E i \in 1..3 : n = r.next + i - 1
      <4>1. n - r.next + 1 \in 1..3 /\ n = r.next + (n - r.next + 1) - 1
        BY <1>9
      <4> QED BY <4>1
    <3>2. ASSUME NEW i \in 1..3 PROVE r.next + i - 1 \in r.next .. r.next + 2
      BY <1>9
    <3> QED BY <1>13, <3>1, <3>2
  <2>2. ASSUME NEW i \in 1..3
        PROVE  r.next + i - 1 \in DOMAIN a.commands /\ a.commands[r.next + i - 1].owner = owner
    <3>1. PICK c : c = [owner |-> owner, spec |-> specs[i]]
      OBVIOUS
    <3>2. a.commands[r.next + i - 1] = c /\ r.next + i - 1 \in DOMAIN a.commands
      BY <1>3, <1>6, <3>1, Zenon
    <3> QED BY <3>1, <3>2
  <2>3. IdsOf(new) \subseteq OwnedBy(a, owner)
    BY <1>13, <2>2 DEF OwnedBy
  <2> QED BY <1>9, <1>13, <2>1, <2>3 DEF HasThree
<1>15. ResourcesSound(a, s)
  BY <1>6, ResourcesStay
<1>16. ASSUME NEW n \in DOMAIN s.resources PROVE IdsOf(s.resources[n]) \cap IdsOf(new) = {}
  <2>1. \A i \in IdsOf(s.resources[n]) : i \in DOMAIN r.commands
    BY DEF ResourcesSound, HasThree, OwnedBy
  <2>2. \A i \in IdsOf(s.resources[n]) : i \in Nat /\ i < r.next
    BY <2>1 DEF RegSound
  <2>3. \A i \in IdsOf(new) : ~(i < r.next)
    BY <1>9, <1>13
  <2> QED BY <2>2, <2>3
<1>17. ResourcesSound(a, b)
  <2>1. b.next \in Nat
    BY <1>9, <1>10
  <2>2. ASSUME NEW n \in DOMAIN b.resources
        PROVE  /\ n \in Nat /\ n < b.next /\ HasThree(a, b.resources[n])
               /\ Folded(ResourcePath(b.resources[n].spec)) \in DOMAIN b.paths
               /\ b.paths[Folded(ResourcePath(b.resources[n].spec))] = n
    <3>1. CASE n = s.next
      BY <1>8, <1>9, <1>10, <1>11, <1>12, <1>13, <1>14, <3>1
    <3>2. CASE n \in DOMAIN s.resources
      <4>1. n \in Nat /\ n < s.next /\ HasThree(a, s.resources[n])
        BY <1>15, <3>2 DEF ResourcesSound
      <4>2. n < b.next
        BY <1>9, <1>10, <4>1
      <4>3. /\ Folded(ResourcePath(s.resources[n].spec)) \in DOMAIN s.paths
            /\ s.paths[Folded(ResourcePath(s.resources[n].spec))] = n
        BY <3>2 DEF ResourcesSound
      <4> QED BY <1>11, <1>12, <3>2, <4>1, <4>2, <4>3
    <3> QED BY <1>11, <3>1, <3>2
  <2>3. ASSUME NEW q \in DOMAIN b.paths
        PROVE  /\ b.paths[q] \in DOMAIN b.resources
               /\ Folded(ResourcePath(b.resources[b.paths[q]].spec)) = q
    <3>1. CASE q = path
      BY <1>8, <1>11, <1>12, <1>13, <3>1
    <3>2. CASE q \in DOMAIN s.paths
      <4>1. /\ s.paths[q] \in DOMAIN s.resources
            /\ Folded(ResourcePath(s.resources[s.paths[q]].spec)) = q
        BY <3>2 DEF ResourcesSound
      <4> QED BY <1>11, <1>12, <3>2, <4>1
    <3> QED BY <1>12, <3>1, <3>2
  <2>4. ASSUME NEW n \in DOMAIN b.resources, NEW m \in DOMAIN b.resources, n # m
        PROVE  IdsOf(b.resources[n]) \cap IdsOf(b.resources[m]) = {}
    BY <1>11, <1>16, <2>4 DEF ResourcesSound
  <2> QED BY <2>1, <2>2, <2>3, <2>4 DEF ResourcesSound
<1> QED BY <1>5, <1>7, <1>11, <1>13, <1>17

\* unregister: the resource goes with its path and its commands.
LEMMA ResourceRemoved ==
  ASSUME NEW r, RegSound(r), NEW s, ResourcesSound(r, s), NEW id \in DOMAIN s.resources,
         NEW a, NEW b, a = CommandsGone(r, s, id), b = ResourceGone(s, id)
  PROVE  /\ RegSound(a) /\ ResourcesSound(a, b)
         /\ DOMAIN b.resources \subseteq DOMAIN s.resources
         /\ \A n \in DOMAIN b.resources : b.resources[n] = s.resources[n]
<1>1. PICK x : x = s.resources[id]
  OBVIOUS
<1>2. PICK ids : ids = IdsOf(x) \cap DOMAIN r.commands
  OBVIOUS
<1>3. a = Without(r, ids)
  BY <1>1, <1>2 DEF CommandsGone, Unregistered, IdsOf
<1>4. RegSound(a)
  BY <1>2, <1>3, WithoutSound
<1>5. /\ DOMAIN a.commands = DOMAIN r.commands \ ids
      /\ \A n \in DOMAIN r.commands \ ids : a.commands[n] = r.commands[n]
  BY <1>3, WithoutCommands
<1>6. PICK path : path = Folded(ResourcePath(x.spec))
  OBVIOUS
<1>7. PICK ns, ps : ns = s.resources /\ ps = s.paths
  OBVIOUS
<1>8. /\ b.next = s.next
      /\ b.resources = [n \in DOMAIN ns \ {id} |-> ns[n]]
      /\ b.paths = [q \in DOMAIN ps \ {path} |-> ps[q]]
  BY <1>1, <1>6, <1>7 DEF ResourceGone
<1>9. /\ DOMAIN b.resources = DOMAIN ns \ {id} /\ \A n \in DOMAIN ns \ {id} : b.resources[n] = ns[n]
      /\ DOMAIN b.paths = DOMAIN ps \ {path} /\ \A q \in DOMAIN ps \ {path} : b.paths[q] = ps[q]
  BY <1>8
<1>10. ps[path] = id
  BY <1>1, <1>6, <1>7 DEF ResourcesSound
<1>11. ASSUME NEW n \in DOMAIN b.resources
       PROVE  /\ n \in Nat /\ n < b.next /\ HasThree(a, b.resources[n])
              /\ Folded(ResourcePath(b.resources[n].spec)) \in DOMAIN b.paths
              /\ b.paths[Folded(ResourcePath(b.resources[n].spec))] = n
  <2>1. PICK y : y = ns[n]
    OBVIOUS
  <2>2. n \in DOMAIN ns /\ n # id /\ b.resources[n] = y
    BY <1>9, <2>1
  <2>3. /\ n \in Nat /\ n < s.next /\ HasThree(r, y)
        /\ Folded(ResourcePath(y.spec)) \in DOMAIN ps /\ ps[Folded(ResourcePath(y.spec))] = n
        /\ IdsOf(y) \cap IdsOf(x) = {}
    BY <1>1, <1>7, <2>1, <2>2 DEF ResourcesSound
  <2>4. Folded(ResourcePath(y.spec)) # path
    BY <1>10, <2>2, <2>3
  <2>5. HasThree(a, y)
    BY <1>2, <1>5, <2>3 DEF HasThree, OwnedBy
  <2> QED BY <1>8, <1>9, <2>2, <2>3, <2>4, <2>5
<1>12. ASSUME NEW q \in DOMAIN b.paths
       PROVE  /\ b.paths[q] \in DOMAIN b.resources
              /\ Folded(ResourcePath(b.resources[b.paths[q]].spec)) = q
  <2>1. q \in DOMAIN ps /\ q # path /\ b.paths[q] = ps[q]
    BY <1>9
  <2>2. ps[q] \in DOMAIN ns /\ Folded(ResourcePath(ns[ps[q]].spec)) = q
    BY <1>7, <2>1 DEF ResourcesSound
  <2>3. ps[q] # id
    BY <1>1, <1>6, <1>7, <2>1, <2>2
  <2> QED BY <1>9, <2>1, <2>2, <2>3
<1>13. ASSUME NEW n \in DOMAIN b.resources, NEW m \in DOMAIN b.resources, n # m
       PROVE  IdsOf(b.resources[n]) \cap IdsOf(b.resources[m]) = {}
  <2>1. n \in DOMAIN ns /\ m \in DOMAIN ns /\ b.resources[n] = ns[n] /\ b.resources[m] = ns[m]
    BY <1>9
  <2>2. IdsOf(ns[n]) \cap IdsOf(ns[m]) = {}
    BY <1>7, <1>13, <2>1 DEF ResourcesSound
  <2> QED BY <2>1, <2>2, Zenon
<1>14. ResourcesSound(a, b)
  BY <1>8, <1>11, <1>12, <1>13 DEF ResourcesSound
<1> QED BY <1>4, <1>7, <1>9, <1>14

\* What the factory of a plugin registers.
Registers(p, kind) == \E i \in DOMAIN Script[p] : Script[p][i].do = kind

\* No plugin registers a resource and commands of its own: unregister_owner of the latter takes
\* the commands of the resource as well, some steps before the resource goes.
ResourceAlone == \A p \in Plugins : ~(Registers(p, "storage") /\ Registers(p, "commands"))

OwnersScripted ==
  \A n \in DOMAIN res.resources : /\ res.resources[n].owner \in Plugins
                                  /\ Registers(res.resources[n].owner, "storage")

\* Until the service is closed whoever owns a resource finds it registered.
HeldScripted ==
  \A s \in Scopes : \A d \in HeldBy(scope[s]) :
    /\ d.kind = "storage" /\ closing = "none" => d.id \in DOMAIN res.resources
    /\ d.kind = "commands" => s \in Plugins /\ Registers(s, "commands")

StartingAt ==
  \A p \in Plugins : activation[p].pc = "starting" =>
    activation[p].at \in DOMAIN Script[p] /\ Step(p).do = "storage"

AgreeInv ==
  RegSound(reg) /\ ResourcesSound(reg, res) /\ OwnersScripted /\ HeldScripted /\ StartingAt

LEMMA InitAgrees ==
  ASSUME Init
  PROVE  AgreeInv
<1>1. /\ DOMAIN res.resources = {} /\ DOMAIN res.paths = {} /\ res.next = 0
      /\ DOMAIN reg.commands = {} /\ DOMAIN reg.paths = {} /\ reg.next = 0 /\ reg.longest = 0
  BY DEF Init, NoResources, NoCommands
<1>2. \A s \in Scopes : HeldBy(scope[s]) = {}
  BY DEF Init, Scopes, NoScope, HeldBy
<1>3. \A p \in Plugins : activation[p].pc = "idle"
  BY DEF Init
<1>4. RegSound(reg) /\ ResourcesSound(reg, res)
  BY <1>1 DEF RegSound, ResourcesSound
<1>5. OwnersScripted /\ HeldScripted /\ StartingAt
  BY <1>1, <1>2, <1>3 DEF OwnersScripted, HeldScripted, StartingAt
<1> QED BY <1>4, <1>5 DEF AgreeInv

LEMMA StartingStays ==
  ASSUME ControlInv, StartingAt, [Next]_vars
  PROVE  StartingAt'
<1> SUFFICES ASSUME NEW p \in Plugins, activation'[p].pc = "starting"
             PROVE  /\ activation'[p].at \in DOMAIN Script[p]
                    /\ Script[p][activation'[p].at].do = "storage"
  BY DEF StartingAt, Step
<1>0. DOMAIN activation = Plugins /\ DOMAIN activation[p] = {"pc", "at"}
  BY DEF ControlInv, HostShapes
<1>1. CASE activation'[p] = activation[p]
  BY <1>1 DEF StartingAt, Step
<1>2. CASE StorageStarts(p)
  <2>1. activation'[p].at = activation[p].at
    BY <1>0, <1>2 DEF StorageStarts
  <2> QED BY <1>2, <2>1 DEF StorageStarts, Due, Step
<1>3. ASSUME NEW q \in Plugins, ActivationStep(q), q # p PROVE activation'[p] = activation[p]
  BY <1>0, <1>3 DEF ActivationStep, Activate, OnHandler, OnCommands, OnOwn, StorageStarts,
     StorageStarted, StorageFails, StorageCancelled, StorageUnwinds, StorageAbandoned,
     FactoryRaises, FactoryReturns, RolledBack, Owning, Rollback
<1>4. ASSUME ActivationStep(p) PROVE StorageStarts(p)
  <2>1. ASSUME NEW d, Owning(p, d) \/ Rollback(p) PROVE FALSE
    BY <1>0, <2>1 DEF Owning, Rollback
  <2>2. ASSUME OnHandler(p) \/ OnCommands(p) \/ OnOwn(p) \/ StorageStarted(p)
               \/ StorageAbandoned(p) \/ FactoryRaises(p)
        PROVE FALSE
    BY <2>1, <2>2 DEF OnHandler, OnCommands, OnOwn, StorageStarted, StorageAbandoned, FactoryRaises
  <2>3. ASSUME Activate(p) \/ StorageFails(p) \/ StorageCancelled(p) \/ StorageUnwinds(p)
               \/ FactoryReturns(p) \/ RolledBack(p)
        PROVE FALSE
    BY <1>0, <2>3 DEF Activate, StorageFails, StorageCancelled, StorageUnwinds, FactoryReturns,
       RolledBack
  <2> QED BY <1>4, <2>2, <2>3 DEF ActivationStep
<1>5. ASSUME NEW s, ScopeStep(s) PROVE activation' = activation
  BY <1>5 DEF ScopeStep, CloseBelow, DisposeHandler, DisposeCommands, DisposeStorage,
     StorageClosed, DisposeOwn, DisposerFails, ScopeDone
<1>6. ASSUME NEW e, EventStep(e) PROVE activation' = activation
  BY <1>6 DEF EventStep, Dispatch, HandlerEnds, HandlerRaises, Route, RunCommand, Ask,
     Answered, Cancel, CancelProvider, Finish, Unaffected
<1>7. ASSUME Start \/ Close \/ ManagerStep \/ UNCHANGED hostVars PROVE activation' = activation
  BY <1>7 DEF Start, Close, ManagerStep, CleanupRuns, CleanupEnds, hostVars
<1> QED BY <1>1, <1>2, <1>3, <1>4, <1>5, <1>6, <1>7 DEF Next, vars

LEMMA ClosingStarts ==
  ASSUME [Next]_vars, closing' = "none"
  PROVE  closing = "none"
BY NextMovesProfile DEF ProfileMoves, Call, CancelCall, CloseService, ProfileStep, Enter,
   StartThread, ThreadStep, ThreadReads, ThreadWrites, ThreadBusy, ThreadDone, CloseEnters,
   CloseReturns, profileVars

\* The scopes keep, lose or take a disposer.
LEMMA HeldStays ==
  ASSUME HeldScripted, NEW s, NEW d,
         \A t \in Scopes : HeldBy(scope'[t]) \subseteq HeldBy(scope[t])
                                                      \cup (IF t = s THEN {d} ELSE {}),
         closing' = "none" => closing = "none" /\ DOMAIN res.resources \subseteq DOMAIN res'.resources,
         d.kind = "storage" => d.id \in DOMAIN res'.resources,
         d.kind = "commands" => s \in Plugins /\ Registers(s, "commands")
  PROVE  HeldScripted'
<1> SUFFICES ASSUME NEW t \in Scopes, NEW x \in HeldBy(scope'[t])
             PROVE  /\ x.kind = "storage" /\ closing' = "none" => x.id \in DOMAIN res'.resources
                    /\ x.kind = "commands" => t \in Plugins /\ Registers(t, "commands")
  BY DEF HeldScripted, Registers
<1>1. x \in HeldBy(scope[t]) \/ (t = s /\ x = d)
  OBVIOUS
<1> QED BY <1>1 DEF HeldScripted

\* The commands of a batch join those of the resources.
LEMMA OnCommandsAgrees ==
  ASSUME ControlInv, AgreeInv, NEW p \in Plugins, OnCommands(p),
         closing' = "none" => closing = "none"
  PROVE  RegSound(reg)' /\ ResourcesSound(reg, res)' /\ HeldScripted' /\ UNCHANGED res
<1>0. /\ InFlight(p) /\ activation[p].pc # "rollback" /\ UNCHANGED <<managerVars, res>>
      /\ Due(p, "commands")
  BY DEF OnCommands, Due, InFactory, InFlight
<1>1. PICK d : d = [kind |-> "commands"]
  OBVIOUS
<1>2. Rollback(p) \/ Owning(p, d)
  BY <1>1 DEF OnCommands
<1>3. \A t \in Scopes : HeldBy(scope'[t]) \subseteq HeldBy(scope[t])
                                                      \cup (IF t = p THEN {d} ELSE {})
  BY <1>0, <1>2, OwningGoesOn, RollbackGoesOn DEF Onward
<1>4. Registers(p, "commands")
  BY <1>0 DEF Due, Step, Registers
<1>5. HeldScripted'
  BY <1>0, <1>1, <1>3, <1>4, HeldStays DEF AgreeInv
<1>6. RegSound(reg') /\ ResourcesSound(reg', res)
  <2>1. CASE reg' = reg
    BY <2>1 DEF AgreeInv
  <2>2. CASE reg' # reg
    <3>1. PICK r, a : r = reg /\ a = reg'
      OBVIOUS
    <3>0. PICK specs \in Step(p).batches : a = Added(r, specs, p) /\ Acceptable(r, specs)
      BY <2>2, <3>1 DEF OnCommands
    <3>2. a = Added(r, specs, p) /\ Acceptable(r, specs) /\ RegSound(r) /\ ResourcesSound(r, res)
      BY <3>0, <3>1 DEF AgreeInv
    <3>3. /\ Len(specs) \in Nat /\ DOMAIN specs = 1..Len(specs)
          /\ \A i \in DOMAIN specs : OfWords(specs[i])
      BY <1>0, <3>0, ScriptAssumption DEF Due, Step
    <3>4. Batch(r, specs)
      BY <3>2, <3>3 DEF Batch
    <3>5. RegSound(a)
      BY <3>2, <3>4, AddedSound
    <3>6. /\ DOMAIN r.commands \subseteq DOMAIN a.commands
          /\ \A n \in DOMAIN r.commands : a.commands[n] = r.commands[n]
      BY <3>2, <3>4, AddedEffect
    <3>7. ResourcesSound(a, res)
      BY <3>2, <3>6, ResourcesStay
    <3> QED BY <3>1, <3>5, <3>7
  <2> QED BY <2>1, <2>2
<1> QED BY <1>0, <1>5, <1>6

\* A resource joins the others.
LEMMA StorageStartedAgrees ==
  ASSUME ControlInv, AgreeInv, NEW p \in Plugins, StorageStarted(p),
         closing' = "none" => closing = "none"
  PROVE  RegSound(reg)' /\ ResourcesSound(reg, res)' /\ HeldScripted' /\ OwnersScripted'
<1>0. /\ InFlight(p) /\ activation[p].pc # "rollback" /\ UNCHANGED managerVars
      /\ activation[p].at \in DOMAIN Script[p] /\ Step(p).do = "storage"
  BY DEF StorageStarted, InFlight, AgreeInv, StartingAt
<1>1. PICK d : d = [kind |-> "storage", id |-> res.next]
  OBVIOUS
<1>2. \A t \in Scopes : HeldBy(scope'[t]) \subseteq HeldBy(scope[t])
                                                      \cup (IF t = p THEN {d} ELSE {})
  BY <1>0, <1>1, OwningGoesOn DEF StorageStarted, Onward
<1>3. PICK x, r, s, a, b : x = Step(p).resource /\ r = reg /\ s = res /\ a = reg' /\ b = res'
  OBVIOUS
<1>4. /\ Registrable(r, s, x) /\ a = Added(r, CommandsOf(x), p) /\ b = WithResource(r, s, x, p)
  BY <1>3 DEF StorageStarted, WithCommands
<1>5. x.name \in Words /\ x.path \in Seq(Words)
  BY <1>0, <1>3, ScriptAssumption DEF Step
<1>6. RegSound(r) /\ ResourcesSound(r, s)
  BY <1>3 DEF AgreeInv
<1>7. /\ RegSound(a) /\ ResourcesSound(a, b)
      /\ DOMAIN b.resources = DOMAIN s.resources \cup {s.next}
      /\ \A n \in DOMAIN s.resources : b.resources[n] = s.resources[n]
      /\ b.resources[s.next].owner = p
  BY <1>4, <1>5, <1>6, ResourceAdded
<1>8. OwnersScripted'
  <2>1. Registers(p, "storage")
    BY <1>0 DEF Step, Registers
  <2> QED BY <1>3, <1>7, <2>1 DEF AgreeInv, OwnersScripted, Registers
<1>9. HeldScripted'
  <2>1. /\ d.kind = "storage" /\ d.id \in DOMAIN res'.resources
        /\ DOMAIN res.resources \subseteq DOMAIN res'.resources
    BY <1>1, <1>3, <1>7
  <2> QED BY <1>2, <2>1, HeldStays DEF AgreeInv
<1> QED BY <1>3, <1>7, <1>8, <1>9

\* unregister_owner takes no command of a resource.
LEMMA DisposersAgree ==
  ASSUME ResourceAlone, ControlInv, AgreeInv, NEW s \in Scopes,
         DisposeHandler(s) \/ DisposeCommands(s) \/ StorageClosed(s) \/ DisposeOwn(s),
         closing' = "none" => closing = "none"
  PROVE  RegSound(reg)' /\ ResourcesSound(reg, res)' /\ HeldScripted' /\ UNCHANGED res
<1>1. PICK kind \in {"handler", "commands", "storage", "own"} :
        Disposing(s, kind) /\ Disposed(s) /\ UNCHANGED <<managerVars, activation, res>>
  BY DEF DisposeHandler, DisposeCommands, StorageClosed, DisposeOwn, registryVars
<1>2. PICK d : d = [kind |-> "own"]
  OBVIOUS
<1>3. \A t \in Scopes : HeldBy(scope'[t]) \subseteq HeldBy(scope[t])
  BY <1>1, CalledGoesOn
<1>4. HeldScripted'
  BY <1>1, <1>2, <1>3, HeldStays DEF AgreeInv
<1>5. RegSound(reg') /\ ResourcesSound(reg', res)
  <2>1. CASE reg' = reg
    BY <2>1 DEF AgreeInv
  <2>2. CASE DisposeCommands(s)
    <3>1. PICK r, a, ids : r = reg /\ a = reg' /\ ids = OwnedBy(reg, s)
      OBVIOUS
    <3>2. a = Without(r, ids) /\ ids \subseteq DOMAIN r.commands /\ RegSound(r)
          /\ ResourcesSound(r, res)
      BY <2>2, <3>1 DEF DisposeCommands, OwnerGone, OwnedBy, AgreeInv
    <3>3. RegSound(a)
      BY <3>2, WithoutSound
    <3>4. s \in Plugins /\ Registers(s, "commands")
      <4>1. /\ scope[s].pc = "closing" /\ scope[s].left > 0 /\ Disposer(s).kind = "commands"
        BY <2>2 DEF DisposeCommands, Disposing
      <4>2. Disposer(s) \in HeldBy(scope[s])
        BY <4>1, DisposerHeld
      <4> QED BY <4>1, <4>2 DEF AgreeInv, HeldScripted
    <3>5. ASSUME NEW n \in DOMAIN res.resources, NEW i \in IdsOf(res.resources[n]) \cap DOMAIN r.commands
          PROVE  i \in DOMAIN a.commands /\ a.commands[i] = r.commands[i]
      <4>1. res.resources[n].owner # s
        BY <3>4 DEF ResourceAlone, AgreeInv, OwnersScripted
      <4>2. r.commands[i].owner = res.resources[n].owner
        BY <3>2 DEF ResourcesSound, HasThree, OwnedBy
      <4>3. i \notin ids
        BY <3>1, <4>1, <4>2 DEF OwnedBy
      <4> QED BY <3>2, <4>3, WithoutCommands
    <3>6. ResourcesSound(a, res)
      BY <3>2, <3>5, ResourcesStay
    <3> QED BY <3>1, <3>3, <3>6
  <2>3. DisposeCommands(s) \/ UNCHANGED reg
    BY DEF DisposeHandler, StorageClosed, DisposeOwn, registryVars
  <2> QED BY <2>1, <2>2, <2>3
<1> QED BY <1>1, <1>4, <1>5

\* The resource of a scope goes while the service is open.
LEMMA DisposeStorageAgrees ==
  ASSUME ControlInv, AgreeInv, NEW s \in Scopes, DisposeStorage(s)
  PROVE  RegSound(reg)' /\ ResourcesSound(reg, res)' /\ HeldScripted' /\ OwnersScripted'
<1>0. /\ Disposing(s, "storage") /\ UNCHANGED managerVars /\ UNCHANGED activation
      /\ closing = "none" /\ closing' = "queued"
      /\ scope' = [scope EXCEPT ![s].awaits = TRUE]
  BY DEF DisposeStorage, CloseService
<1>1. \A t \in Scopes : HeldBy(scope'[t]) = HeldBy(scope[t])
  BY <1>0, WaitsGoesOn
<1>2. HeldScripted'
  BY <1>0, <1>1 DEF AgreeInv, HeldScripted, Registers
<1>3. PICK id, r, x, a, b :
        id = Disposer(s).id /\ r = reg /\ x = res /\ a = reg' /\ b = res'
  OBVIOUS
<1>4. id \in DOMAIN x.resources
  <2>1. scope[s].pc = "closing" /\ scope[s].left > 0 /\ Disposer(s).kind = "storage"
    BY <1>0 DEF Disposing
  <2>2. Disposer(s) \in HeldBy(scope[s])
    BY <2>1, DisposerHeld
  <2> QED BY <1>0, <1>3, <2>1, <2>2 DEF AgreeInv, HeldScripted
<1>5. a = CommandsGone(r, x, id) /\ b = ResourceGone(x, id)
  BY <1>3 DEF DisposeStorage
<1>6. RegSound(r) /\ ResourcesSound(r, x)
  BY <1>3 DEF AgreeInv
<1>7. /\ RegSound(a) /\ ResourcesSound(a, b)
      /\ DOMAIN b.resources \subseteq DOMAIN x.resources
      /\ \A n \in DOMAIN b.resources : b.resources[n] = x.resources[n]
  BY <1>4, <1>5, <1>6, ResourceRemoved
<1>8. OwnersScripted'
  BY <1>3, <1>7 DEF AgreeInv, OwnersScripted, Registers
<1> QED BY <1>2, <1>3, <1>7, <1>8

LEMMA NextAgrees ==
  ASSUME ResourceAlone, ControlInv, AgreeInv, [Next]_vars
  PROVE  AgreeInv'
<1>1. StepKinds
  BY NextIsOfAKind
<1>2. closing' = "none" => closing = "none"
  BY ClosingStarts
<1>3. StartingAt'
  BY StartingStays DEF AgreeInv
<1>4. ASSUME UNCHANGED <<reg, res>>
      PROVE  RegSound(reg)' /\ ResourcesSound(reg, res)' /\ OwnersScripted'
  BY <1>4 DEF AgreeInv, OwnersScripted, Registers
<1>5. PICK own : own = [kind |-> "own"]
  OBVIOUS
<1>6. CASE Undisturbed
  <2>1. HeldScripted'
    BY <1>2, <1>6 DEF Undisturbed, AgreeInv, HeldScripted, Registers
  <2> QED BY <1>3, <1>4, <1>6, <2>1 DEF AgreeInv, Undisturbed
<1>7. ASSUME NEW p \in Plugins, OnHandler(p) \/ OnOwn(p) PROVE AgreeInv'
  <2>1. UNCHANGED <<reg, res, managerVars>> /\ InFlight(p) /\ activation[p].pc # "rollback"
    BY <1>7 DEF OnHandler, OnOwn, Due, InFactory, InFlight, registryVars
  <2>2. PICK d : d.kind \in {"handler", "own"} /\ (Rollback(p) \/ Owning(p, d))
    <3>1. PICK handler : handler = [kind |-> "handler", number |-> sequence]
      OBVIOUS
    <3>2. Rollback(p) \/ Owning(p, handler) \/ Owning(p, own)
      BY <1>5, <1>7, <3>1 DEF OnHandler, OnOwn
    <3> QED BY <1>5, <3>1, <3>2
  <2>3. \A t \in Scopes : HeldBy(scope'[t]) \subseteq HeldBy(scope[t])
                                                        \cup (IF t = p THEN {d} ELSE {})
    BY <2>1, <2>2, OwningGoesOn, RollbackGoesOn DEF Onward
  <2>4. HeldScripted'
    BY <1>2, <2>1, <2>2, <2>3, HeldStays DEF AgreeInv
  <2> QED BY <1>3, <1>4, <2>1, <2>4 DEF AgreeInv
<1>8. ASSUME NEW p \in Plugins, OnCommands(p) PROVE AgreeInv'
  BY <1>2, <1>3, <1>8, OnCommandsAgrees DEF AgreeInv, OwnersScripted, Registers
<1>9. ASSUME NEW p \in Plugins, StorageStarted(p) PROVE AgreeInv'
  BY <1>2, <1>3, <1>9, StorageStartedAgrees DEF AgreeInv
<1>10. ASSUME NEW s \in Scopes, \/ DisposeHandler(s) \/ DisposeCommands(s) \/ StorageClosed(s)
                                \/ DisposeOwn(s)
       PROVE  AgreeInv'
  BY <1>2, <1>3, <1>10, DisposersAgree DEF AgreeInv, OwnersScripted, Registers
<1>11. ASSUME NEW s \in Scopes, DisposeStorage(s) PROVE AgreeInv'
  BY <1>3, <1>11, DisposeStorageAgrees DEF AgreeInv
<1> QED BY <1>1, <1>6, <1>7, <1>8, <1>9, <1>10, <1>11 DEF StepKinds

LEMMA AgreeInvMeans ==
  ASSUME AgreeInv
  PROVE  RegistriesAgree
<1>1. RegSound(reg) /\ ResourcesSound(reg, res)
  BY DEF AgreeInv
<1>2. DOMAIN reg.paths = UNION {PathsOf(reg.commands[n].spec) : n \in DOMAIN reg.commands}
  <2>1. ASSUME NEW q \in DOMAIN reg.paths
        PROVE  \E n \in DOMAIN reg.commands : q \in PathsOf(reg.commands[n].spec)
    BY <1>1 DEF RegSound
  <2>2. ASSUME NEW n \in DOMAIN reg.commands, NEW q \in PathsOf(reg.commands[n].spec)
        PROVE  q \in DOMAIN reg.paths
    BY <1>1 DEF RegSound
  <2> QED BY <2>1, <2>2
<1>3. ASSUME NEW q \in DOMAIN reg.paths
      PROVE  /\ reg.paths[q] \in DOMAIN reg.commands
             /\ q \in PathsOf(reg.commands[reg.paths[q]].spec)
             /\ Resolved(reg, q, {reg.commands[n].spec.permission : n \in DOMAIN reg.commands})
                  = reg.paths[q]
  <2>1. PICK all : all = {reg.commands[n].spec.permission : n \in DOMAIN reg.commands}
    OBVIOUS
  <2>2. \A n \in DOMAIN reg.commands : reg.commands[n].spec.permission \in all
    BY <2>1
  <2>3. Resolved(reg, q, all) = reg.paths[q]
    BY <1>1, <2>2, PathsResolve
  <2> QED BY <1>1, <2>1, <2>3 DEF RegSound
<1>6. ASSUME NEW q \in DOMAIN reg.paths, NEW tail \in Tails
      PROVE  LET line == [prefixed |-> TRUE, spaced |-> FALSE, tokens |-> q \o tail]
             IN  \E p \in Spelled(reg, q \o tail) :
                   /\ \A s \in Spelled(reg, q \o tail) : Len(s) <= Len(p)
                   /\ Invoked(reg, line) = reg.paths[p]
  <2>1. PICK t, line : t = q \o tail /\ line = [prefixed |-> TRUE, spaced |-> FALSE, tokens |-> t]
    OBVIOUS
  <2>3. q \in Seq(Words) /\ Len(q) \in Nat /\ Folded(q) = q
    BY <1>1, PathsAre
  <2>4. tail \in Seq(Words)
    BY TailsAssumption
  <2>5. t \in Seq(Words) /\ Len(q) <= Len(t) /\ \A i \in 1..Len(q) : t[i] = q[i]
    BY <2>1, <2>3, <2>4
  <2>6. q \in Spelled(reg, t)
    <3>1. \A i \in 1..Len(q) : q[i] = Fold[q[i]]
      <4>1. DOMAIN q = 1..Len(q)
        BY <2>3, LenProperties
      <4>2. \A i \in DOMAIN q : Folded(q)[i] = Fold[q[i]]
        BY DEF Folded
      <4> QED BY <2>3, <4>1, <4>2
    <3> QED BY <2>5, <3>1 DEF Spelled
  <2>7. line.tokens = t /\ line.prefixed /\ ~line.spaced
    BY <2>1
  <2>8. \E p \in Spelled(reg, t) : /\ \A s \in Spelled(reg, t) : Len(s) <= Len(p)
                                   /\ Invoked(reg, line) = reg.paths[p]
    BY <1>1, <2>5, <2>6, <2>7, PathsInvoke
  <2> QED BY <2>1, <2>8
<1>4. DOMAIN res.resources = {res.paths[q] : q \in DOMAIN res.paths}
  <2>1. ASSUME NEW n \in DOMAIN res.resources PROVE \E q \in DOMAIN res.paths : n = res.paths[q]
    BY <1>1 DEF ResourcesSound
  <2>2. ASSUME NEW q \in DOMAIN res.paths PROVE res.paths[q] \in DOMAIN res.resources
    BY <1>1 DEF ResourcesSound
  <2> QED BY <2>1, <2>2
<1>5. ASSUME NEW n \in DOMAIN res.resources
      PROVE  LET r == res.resources[n] IN
             /\ Target(res, ResourcePath(r.spec)) = n
             /\ Cardinality(IdsOf(r)) = 3 /\ IdsOf(r) \subseteq OwnedBy(reg, r.owner)
  <2>1. PICK r : r = res.resources[n]
    OBVIOUS
  <2>2. /\ HasThree(reg, r) /\ Folded(ResourcePath(r.spec)) \in DOMAIN res.paths
        /\ res.paths[Folded(ResourcePath(r.spec))] = n
    BY <1>1, <2>1 DEF ResourcesSound
  <2>3. Target(res, ResourcePath(r.spec)) = n
    BY <2>2 DEF Target
  <2>4. PICK k \in Nat : IdsOf(r) = k .. k + 2
    BY <2>2 DEF HasThree
  <2>5. Cardinality(k .. k + 2) = 3
    BY FS_Interval
  <2> QED BY <2>1, <2>2, <2>3, <2>4, <2>5 DEF HasThree
<1> QED BY <1>2, <1>3, <1>4, <1>5, <1>6 DEF RegistriesAgree

\* Whatever batches and resources are registered, refused and removed, in whatever order: every
\* command has all of its paths and resolve finds it by each; a line that starts with a path,
\* whatever follows, invokes the command of the longest path it starts with; a resource has its
\* path and its three commands.
THEOREM RegistriesAreOne == ASSUME ResourceAlone PROVE Spec => []RegistriesAgree
<1>1. Init => AgreeInv
  BY InitAgrees
<1>2. ControlInv /\ AgreeInv /\ [Next]_vars => AgreeInv'
  BY NextAgrees
<1>3. AgreeInv => RegistriesAgree
  BY AgreeInvMeans
<1> QED BY <1>1, <1>2, <1>3, OwnersAreSafe, PTL DEF Spec
=============================================================================
