--------------------------- MODULE EventBusProofs ---------------------------
(***************************************************************************)
(* Proofs about EventBus for every number of events, keys, handlers,       *)
(* actions and slots and every capacity: first the admissions; then the    *)
(* workers and the shutdown. The concurrency semaphore never loses or      *)
(* invents a slot; operations of one ordering key never run beside those   *)
(* of an earlier event, provided that no callback raises CancelledError of *)
(* its own accord; no event is ever left where nobody will serve it, and   *)
(* aclose leaves nothing behind.                                           *)
(***************************************************************************)
EXTENDS EventBusProps, FiniteSetTheorems, SequenceTheorems, TLAPS

-----------------------------------------------------------------------------
(* Sequences and sets. *)

\* Taking an element out of a list without duplicates (deque.remove of a semaphore's
\* waiters) leaves a list without duplicates of the other elements.
LEMMA WithoutProperties ==
  ASSUME NEW S, NEW s \in Seq(S), NEW x \in Range(s), NoDuplicates(s)
  PROVE  /\ Without(s, x) \in Seq(S)
         /\ NoDuplicates(Without(s, x))
         /\ Range(Without(s, x)) = Range(s) \ {x}
<1> DEFINE i == CHOOSE j \in DOMAIN s : s[j] = x
           a == SubSeq(s, 1, i - 1)
           b == SubSeq(s, i + 1, Len(s))
<1>1. i \in 1..Len(s) /\ s[i] = x /\ Len(s) \in Nat
  BY DEF Range
<1> HIDE DEF i
<1>2. /\ a \in Seq(S) /\ Len(a) = i - 1
      /\ \A j \in 1..(i - 1) : a[j] = s[j]
  BY <1>1, SubSeqProperties
<1>3. /\ b \in Seq(S) /\ Len(b) = Len(s) - i
      /\ \A j \in 1..(Len(s) - i) : b[j] = s[i + j]
  BY <1>1, SubSeqProperties
<1> HIDE DEF a, b
<1>4. /\ a \o b \in Seq(S) /\ Len(a \o b) = Len(s) - 1
      /\ \A j \in 1..(Len(s) - 1) : (a \o b)[j] = IF j < i THEN s[j] ELSE s[j + 1]
  <2>1. /\ a \o b \in Seq(S) /\ Len(a \o b) = Len(a) + Len(b)
        /\ \A j \in 1..(Len(a) + Len(b)) :
              (a \o b)[j] = IF j <= Len(a) THEN a[j] ELSE b[j - Len(a)]
    BY <1>2, <1>3, ConcatProperties
  <2>2. ASSUME NEW j \in 1..(Len(s) - 1)
        PROVE  (a \o b)[j] = IF j < i THEN s[j] ELSE s[j + 1]
    BY <1>1, <1>2, <1>3, <2>1
  <2> QED BY <1>1, <1>2, <1>3, <2>1, <2>2
<1>5. Without(s, x) = a \o b
  BY DEF Without, i, a, b
<1> DEFINE t == a \o b
<1>6. t \in Seq(S) /\ DOMAIN t = 1..(Len(s) - 1)
  BY <1>4
<1>7. \A j \in DOMAIN t : t[j] = IF j < i THEN s[j] ELSE s[j + 1]
  BY <1>4, <1>6
<1> HIDE DEF t
<1>8. NoDuplicates(t)
  <2>1. SUFFICES ASSUME NEW m \in DOMAIN t, NEW n \in DOMAIN t, t[m] = t[n]
                 PROVE  m = n
    BY Zenon DEF NoDuplicates
  <2> DEFINE from(j) == IF j < i THEN j ELSE j + 1
  <2>2. /\ m \in Int /\ n \in Int /\ from(m) \in 1..Len(s) /\ from(n) \in 1..Len(s)
        /\ t[m] = s[from(m)] /\ t[n] = s[from(n)]
    BY <1>1, <1>6, <1>7
  <2>3. from(m) = from(n)
    <3> HIDE DEF from
    <3>1. DOMAIN s = 1..Len(s)
      BY LenProperties
    <3> QED BY <2>1, <2>2, <3>1 DEF NoDuplicates
  <2> QED BY <1>1, <2>2, <2>3
<1>9. Range(t) = Range(s) \ {x}
  <2>1. ASSUME NEW j \in DOMAIN t PROVE t[j] \in Range(s) \ {x}
    BY <1>1, <1>6, <1>7 DEF NoDuplicates, Range
  <2>2. ASSUME NEW y \in Range(s), y # x PROVE y \in Range(t)
    <3>1. PICK j \in 1..Len(s) : y = s[j]
      BY LenProperties DEF Range
    <3>2. CASE j < i
      <4>0. j \in 1..(Len(s) - 1)
        BY <1>1, <3>1, <3>2
      <4>1. j \in DOMAIN t /\ t[j] = s[j]
        BY <1>6, <1>7, <3>2, <4>0
      <4> QED BY <3>1, <4>1 DEF Range
    <3>3. CASE j > i
      <4>1. j - 1 \in DOMAIN t /\ t[j - 1] = s[j]
        BY <1>1, <1>6, <1>7, <3>1, <3>3
      <4> QED BY <3>1, <4>1 DEF Range
    <3> QED BY <1>1, <2>2, <3>1, <3>2, <3>3
  <2> QED BY <2>1, <2>2 DEF Range
<1> QED BY <1>5, <1>6, <1>8, <1>9 DEF t

LEMMA RangeProperties ==
  ASSUME NEW S, NEW s \in Seq(S)
  PROVE  /\ Range(s) \subseteq S
         /\ s # <<>> => Head(s) \in Range(s) /\ Range(Tail(s)) \subseteq Range(s)
         /\ \A x \in S : Range(Append(s, x)) = Range(s) \cup {x}
<1>1. Range(s) \subseteq S
  BY LenProperties DEF Range
<1>2. ASSUME s # <<>>
      PROVE  Head(s) \in Range(s) /\ Range(Tail(s)) \subseteq Range(s)
  BY <1>2 DEF Range
<1>3. ASSUME NEW x \in S
      PROVE  Range(Append(s, x)) = Range(s) \cup {x}
  <2>1. /\ Append(s, x) \in Seq(S) /\ DOMAIN Append(s, x) = 1..(Len(s) + 1)
        /\ \A i \in 1..Len(s) : Append(s, x)[i] = s[i]
        /\ Append(s, x)[Len(s) + 1] = x
        /\ DOMAIN s = 1..Len(s) /\ Len(s) \in Nat
    BY AppendProperties, LenProperties
  <2>2. \A i \in DOMAIN Append(s, x) : i \in 1..Len(s) \/ i = Len(s) + 1
    BY <2>1
  <2>3. \A i \in DOMAIN s : i \in DOMAIN Append(s, x)
    BY <2>1
  <2>4. Len(s) + 1 \in DOMAIN Append(s, x)
    BY <2>1
  <2> QED BY <2>1, <2>2, <2>3, <2>4 DEF Range
<1> QED BY <1>1, <1>2, <1>3

LEMMA HeadAndTail ==
  ASSUME NEW S, NEW s \in Seq(S), s # <<>>
  PROVE  Range(s) = {Head(s)} \cup Range(Tail(s))
<1>1. /\ DOMAIN s = 1..Len(s) /\ Len(s) \in Nat /\ Len(s) >= 1 /\ Head(s) = s[1]
      /\ DOMAIN Tail(s) = 1..(Len(s) - 1)
      /\ \A i \in 1..(Len(s) - 1) : Tail(s)[i] = s[i + 1]
  BY HeadTailProperties, LenProperties
<1>2. ASSUME NEW x \in Range(s) PROVE x = Head(s) \/ x \in Range(Tail(s))
  <2>1. PICK i \in 1..Len(s) : x = s[i]
    BY <1>1 DEF Range
  <2>2. CASE i = 1
    BY <1>1, <2>1, <2>2
  <2>3. CASE i # 1
    <3>1. i - 1 \in 1..(Len(s) - 1) /\ Tail(s)[i - 1] = s[i]
      BY <1>1, <2>1, <2>3
    <3> QED BY <1>1, <2>1, <3>1 DEF Range
  <2> QED BY <2>2, <2>3
<1>3. Head(s) \in Range(s) /\ Range(Tail(s)) \subseteq Range(s)
  BY RangeProperties
<1> QED BY <1>2, <1>3

LEMMA NoDuplicatesProperties ==
  ASSUME NEW S, NEW s \in Seq(S), NoDuplicates(s)
  PROVE  /\ s # <<>> => NoDuplicates(Tail(s)) /\ Head(s) \notin Range(Tail(s))
         /\ \A x \in S \ Range(s) : NoDuplicates(Append(s, x))
<1>1. DOMAIN s = 1..Len(s) /\ Len(s) \in Nat
  BY LenProperties
<1>2. ASSUME s # <<>>
      PROVE  NoDuplicates(Tail(s)) /\ Head(s) \notin Range(Tail(s))
  <2>1. /\ Len(s) >= 1 /\ Head(s) = s[1]
        /\ DOMAIN Tail(s) = 1..(Len(s) - 1)
        /\ \A i \in 1..(Len(s) - 1) : Tail(s)[i] = s[i + 1]
    BY <1>1, <1>2, HeadTailProperties, LenProperties
  <2>2. \A i \in 1..(Len(s) - 1) : i + 1 \in 1..Len(s) /\ i \in Int
    BY <1>1
  <2>3. NoDuplicates(Tail(s))
    <3>1. SUFFICES ASSUME NEW i \in DOMAIN Tail(s), NEW j \in DOMAIN Tail(s),
                          Tail(s)[i] = Tail(s)[j]
                   PROVE  i = j
      BY Zenon DEF NoDuplicates
    <3>2. i + 1 = j + 1
      BY <1>1, <2>1, <2>2, <3>1, i + 1 \in DOMAIN s, j + 1 \in DOMAIN s DEF NoDuplicates
    <3> QED BY <2>1, <2>2, <3>2
  <2>4. Head(s) \notin Range(Tail(s))
    BY <1>1, <2>1, <2>2 DEF NoDuplicates, Range
  <2> QED BY <2>3, <2>4
<1>3. ASSUME NEW x \in S \ Range(s)
      PROVE  NoDuplicates(Append(s, x))
  <2>1. /\ DOMAIN Append(s, x) = 1..(Len(s) + 1)
        /\ \A i \in 1..Len(s) : Append(s, x)[i] = s[i]
        /\ Append(s, x)[Len(s) + 1] = x
    BY AppendProperties, LenProperties
  <2>2. \A i \in 1..Len(s) : s[i] # x
    BY <1>1, <1>3 DEF Range
  <2> QED BY <1>1, <2>1, <2>2 DEF NoDuplicates
<1> QED BY <1>2, <1>3

-----------------------------------------------------------------------------
(* What the shared steps of EventBus do. *)

\* Answers only change from pending to a final one.
OnlyAnswers(st, st2) ==
  /\ st2 \in [Events -> Statuses]
  /\ \A e \in Events :
       \/ st2[e] = st[e]
       \/ st[e] = "pending" /\ st2[e] \in {"processed", "closed", "error"}

LEMMA ResolveAnswers ==
  ASSUME NEW st \in [Events -> Statuses], NEW S,
         NEW verdict \in {"processed", "closed", "error"}
  PROVE  OnlyAnswers(st, Resolve(st, S, verdict))
BY DEF OnlyAnswers, Resolve, Statuses, Final

\* Worker k is suspended with event e after a part of _dispatch.
Dispatching(k, e, w2) ==
  /\ w2 \in Workers /\ w2.ev = e /\ w2.pc \in {"op", "settle"}
  /\ w2.pc = "op" => w2.op \in Operations
  /\ worker' = [worker EXCEPT ![k] = w2]
  /\ ops' \subseteq Operations
  /\ slots' \in Int
  /\ OnlyAnswers(status, status')

LEMMA SuspendedType ==
  ASSUME NEW pc \in PCs, NEW e \in Events \cup {NoEvent}, NEW bs \in SUBSET Operations
  PROVE  /\ Suspended(pc, e, bs) \in Workers
         /\ Suspended(pc, e, bs).pc = pc
         /\ Suspended(pc, e, bs).ev = e
         /\ Suspended(pc, e, bs).acts = 0
         /\ Suspended(pc, e, bs).barriers = bs
<1>1. 0 \in 0..MaxActions
  BY BoundsAssumption
<1> QED BY <1>1 DEF Suspended, Workers

LEMMA ContinueEffect ==
  ASSUME TypeOK, NEW k \in Keys, NEW w \in Workers, w.ev \in Events,
         w.acts > 0 => w.op \in Operations,
         NEW live \in SUBSET Operations, NEW held \in Int,
         Continue(k, w, live, held)
  PROVE  \E w2 : Dispatching(k, w.ev, w2)
<1>1. CASE \E acts : /\ acts = ActionsLeft(w, live) /\ acts > 0
                     /\ Await(k, [w EXCEPT !.pc = "op", !.acts = acts - 1, !.op.action = acts],
                              live, held)
  <2>1. PICK acts : /\ acts = ActionsLeft(w, live) /\ acts > 0
                    /\ Await(k, [w EXCEPT !.pc = "op", !.acts = acts - 1, !.op.action = acts],
                             live, held)
    BY <1>1
  <2> DEFINE w2 == [w EXCEPT !.pc = "op", !.acts = acts - 1, !.op.action = acts]
  <2>2. acts \in 1..MaxActions /\ acts = w.acts
    BY <2>1, BoundsAssumption DEF ActionsLeft, Workers
  <2> DEFINE o == [w.op EXCEPT !.action = acts]
  <2>3. o \in Operations /\ w2 = [w EXCEPT !.pc = "op", !.acts = acts - 1, !.op = o]
    <3>1. w.op \in Operations
      BY <2>2
    <3>2. o \in Operations
      BY <2>2, <3>1, BoundsAssumption DEF Operations
    <3> QED BY <3>2 DEF Workers
  <2> HIDE DEF o
  <2>4. w2 \in Workers /\ w2.ev = w.ev /\ w2.pc = "op" /\ w2.op \in Operations
    <3>1. "op" \in PCs /\ acts - 1 \in 0..MaxActions
      BY <2>2, BoundsAssumption DEF PCs
    <3> QED BY <2>3, <3>1 DEF Workers
  <2>5. OnlyAnswers(status, status')
    BY <2>1 DEF Await, OnlyAnswers, TypeOK
  <2> QED BY <2>1, <2>4, <2>5 DEF Await, Dispatching
<1>2. CASE /\ ActionsLeft(w, live) = 0
           /\ \E h \in First(w.todo) :
                Await(k, [w EXCEPT !.pc = "op", !.acts = 0, !.todo = @ \ {h},
                                   !.op = [ev |-> w.ev, handler |-> h.id, action |-> 0]],
                      live, held)
  <2>1. PICK h \in First(w.todo) :
                Await(k, [w EXCEPT !.pc = "op", !.acts = 0, !.todo = @ \ {h},
                                   !.op = [ev |-> w.ev, handler |-> h.id, action |-> 0]],
                      live, held)
    BY <1>2
  <2> DEFINE w2 == [w EXCEPT !.pc = "op", !.acts = 0, !.todo = @ \ {h},
                             !.op = [ev |-> w.ev, handler |-> h.id, action |-> 0]]
  <2>2. h \in Handlers
    BY DEF First, Workers
  <2> DEFINE o == [ev |-> w.ev, handler |-> h.id, action |-> 0]
  <2>3. o \in Operations
    BY <2>2, BoundsAssumption DEF Operations, Handlers
  <2> HIDE DEF o
  <2>4. w2 \in Workers /\ w2.ev = w.ev /\ w2.pc = "op" /\ w2.op \in Operations
    <3>1. "op" \in PCs /\ 0 \in 0..MaxActions
      BY BoundsAssumption DEF PCs
    <3>2. w2 = [w EXCEPT !.pc = "op", !.acts = 0, !.todo = @ \ {h}, !.op = o]
      BY DEF o
    <3> QED BY <2>3, <3>1, <3>2 DEF Workers
  <2>5. OnlyAnswers(status, status')
    BY <2>1 DEF Await, OnlyAnswers, TypeOK
  <2> QED BY <2>1, <2>4, <2>5 DEF Await, Dispatching
<1>3. CASE /\ worker' = [worker EXCEPT ![k] = Suspended("settle", w.ev, w.barriers)]
           /\ ops' = live
           /\ slots' = held + 1
           /\ status' = Resolve(status, {w.ev}, "processed")
  <2>1. w.barriers \in SUBSET Operations /\ "settle" \in PCs
    BY DEF Workers, PCs
  <2>2. OnlyAnswers(status, status')
    BY <1>3, ResolveAnswers DEF TypeOK
  <2> DEFINE w2 == Suspended("settle", w.ev, w.barriers)
  <2>3. w2 \in Workers /\ w2.ev = w.ev /\ w2.pc = "settle"
    BY <2>1, SuspendedType
  <2> HIDE DEF w2
  <2> WITNESS w2
  <2> QED BY <1>3, <2>2, <2>3 DEF Dispatching, w2
<1> QED BY <1>1, <1>2, <1>3 DEF Continue

LEMMA BeginDispatchEffect ==
  ASSUME TypeOK, NEW k \in Keys, NEW e \in Events, NEW held \in Int,
         BeginDispatch(k, e, held)
  PROVE  \E w2 : Dispatching(k, e, w2)
<1>1. CASE forced
  <2>1. OnlyAnswers(status, status')
    BY <1>1, ResolveAnswers DEF BeginDispatch, TypeOK
  <2> DEFINE w2 == Suspended("settle", e, {})
  <2>2. w2 \in Workers /\ w2.ev = e /\ w2.pc = "settle"
    <3>1. "settle" \in PCs /\ {} \in SUBSET Operations
      BY DEF PCs
    <3> QED BY <3>1, SuspendedType
  <2>3. /\ worker' = [worker EXCEPT ![k] = w2]
        /\ slots' = held + 1 /\ UNCHANGED ops /\ ops \subseteq Operations
    BY <1>1 DEF BeginDispatch, TypeOK
  <2> HIDE DEF w2
  <2> WITNESS w2
  <2> QED BY <2>1, <2>2, <2>3 DEF Dispatching
<1>2. CASE ~forced
  <2> DEFINE w == [Suspended("op", e, {}) EXCEPT !.todo = handlers]
  <2>1. w \in Workers /\ w.ev = e /\ w.acts = 0
    <3>1. "op" \in PCs /\ {} \in SUBSET Operations
      BY DEF PCs
    <3>2. /\ Suspended("op", e, {}) \in Workers /\ Suspended("op", e, {}).ev = e
          /\ Suspended("op", e, {}).acts = 0
      BY <3>1, SuspendedType
    <3>3. handlers \in SUBSET Handlers
      BY DEF TypeOK
    <3> HIDE DEF Suspended
    <3> QED BY <3>2, <3>3 DEF Workers
  <2>2. Continue(k, w, ops, held)
    BY <1>2 DEF BeginDispatch
  <2> HIDE DEF w
  <2>3. ops \in SUBSET Operations /\ (w.acts > 0 => w.op \in Operations)
    BY <2>1 DEF TypeOK
  <2>4. \E w2 : Dispatching(k, w.ev, w2)
    BY <2>1, <2>2, <2>3, ContinueEffect
  <2> QED BY <2>1, <2>4
<1> QED BY <1>1, <1>2

\* Worker k has taken e from its queue and either dispatches it or waits for a slot.
Taking(k, e, w2) ==
  /\ w2 \in Workers /\ w2.ev = e /\ w2.pc \in {"op", "settle", "acquire"}
  /\ w2.pc = "op" => w2.op \in Operations
  /\ worker' = [worker EXCEPT ![k] = w2]
  /\ keyQueue' = [keyQueue EXCEPT ![k] = Tail(@)]
  /\ slotWaiters' = IF w2.pc = "acquire" THEN Append(slotWaiters, k) ELSE slotWaiters
  /\ ops' \subseteq Operations
  /\ slots' \in Int
  /\ OnlyAnswers(status, status')

LEMMA TakeNextEffect ==
  ASSUME TypeOK, NEW k \in Keys, keyQueue[k] # <<>>, TakeNext(k)
  PROVE  \E w2 : Taking(k, Head(keyQueue[k]), w2)
<1> DEFINE e == Head(keyQueue[k])
<1>1. e \in Events
  BY HeadTailProperties DEF TypeOK
<1>2. CASE BeginDispatch(k, e, slots - 1) /\ UNCHANGED slotWaiters
  <2>1. slots - 1 \in Int
    BY DEF TypeOK
  <2>2. PICK w2 : Dispatching(k, e, w2)
    BY <1>1, <1>2, <2>1, BeginDispatchEffect
  <2> WITNESS w2
  <2> QED BY <1>2, <2>2 DEF TakeNext, Dispatching, Taking
<1>3. CASE /\ worker' = [worker EXCEPT ![k] = Suspended("acquire", e, {})]
           /\ slotWaiters' = Append(slotWaiters, k)
           /\ UNCHANGED <<slots, status, ops>>
  <2> DEFINE w2 == Suspended("acquire", e, {})
  <2>1. w2 \in Workers /\ w2.ev = e /\ w2.pc = "acquire"
    <3>1. "acquire" \in PCs /\ {} \in SUBSET Operations
      BY DEF PCs
    <3> QED BY <1>1, <3>1, SuspendedType
  <2>2. worker' = [worker EXCEPT ![k] = w2]
    BY <1>3
  <2> HIDE DEF w2
  <2>3. OnlyAnswers(status, status')
    BY <1>3 DEF OnlyAnswers, TypeOK
  <2> WITNESS w2
  <2> QED BY <1>3, <2>1, <2>2, <2>3 DEF TakeNext, Taking, TypeOK
<1> QED BY <1>2, <1>3 DEF TakeNext

LEMMA ReleaseType ==
  ASSUME TypeOK, IsFiniteSet(admitted), NEW S \in SUBSET admitted, Release(S)
  PROVE  /\ free' \in Int /\ outstanding' \in Int
         /\ released' \subseteq Events
         /\ released' = released \cup S
<1>1. IsFiniteSet(S \ released)
  BY FS_Subset, S \ released \in SUBSET admitted
<1>2. Cardinality(S \ released) \in Int
  BY <1>1, FS_CardinalityType
<1> QED BY <1>2 DEF Release, TypeOK

-----------------------------------------------------------------------------
(* Every step of one worker has the same shape. *)

\* What the local state w of the worker of key k has to satisfy.
LocalOK(w) ==
  /\ w \in Workers
  /\ w.ev \in admitted \cup {NoEvent}
  /\ w.pc \notin {"none", "created", "dead"} <=> w.ev # NoEvent
  /\ w.pc \in {"op", "grace", "cancelGrace"} => w.op \in Operations

\* The worker of key k moves to local state w2 and changes what is shared with it.
KeyStep(k, w2) ==
  /\ LocalOK(w2)
  /\ w2.pc = "created" => keyQueue'[k] # <<>>
  /\ worker' = [worker EXCEPT ![k] = w2]
  /\ \E q \in Seq(Events) :
       keyQueue' = [keyQueue EXCEPT ![k] = q] /\ Range(q) \subseteq Range(keyQueue[k])
  /\ slotWaiters' \in Seq(Keys) /\ NoDuplicates(slotWaiters')
  /\ Range(slotWaiters') = IF w2.pc = "acquire" THEN Range(slotWaiters) \cup {k}
                           ELSE Range(slotWaiters) \ {k}
  /\ cancelled' \subseteq cancelled /\ cancelled \subseteq cancelled' \cup {k}
  /\ ops' \subseteq Operations /\ slots' \in Int
  /\ OnlyAnswers(status, status')
  /\ free' \in Int /\ outstanding' \in Int /\ released' \subseteq Events
  /\ UNCHANGED <<busVars, handlerVars, waiters, admitted, ingress>>

LEMMA KeyStepKeepsInv ==
  ASSUME BusInv, NEW k \in Keys, NEW w2, KeyStep(k, w2)
  PROVE  BusInv'
<1>1. worker' \in [Keys -> Workers] /\ worker'[k] = w2
      /\ \A j \in Keys \ {k} : worker'[j] = worker[j]
  BY DEF KeyStep, LocalOK, BusInv, TypeOK
<1>2. PICK q \in Seq(Events) :
        keyQueue' = [keyQueue EXCEPT ![k] = q] /\ Range(q) \subseteq Range(keyQueue[k])
  BY DEF KeyStep
<1>3. /\ keyQueue' \in [Keys -> Seq(Events)]
      /\ Range(keyQueue'[k]) \subseteq Range(keyQueue[k])
      /\ \A j \in Keys \ {k} : keyQueue'[j] = keyQueue[j]
  BY <1>2 DEF BusInv, TypeOK
<1>4. TypeOK'
  BY <1>1, <1>3 DEF KeyStep, BusInv, TypeOK, OnlyAnswers, busVars, handlerVars
<1>5. WaitersWellFormed'
  <2>1. \A e \in Events : status'[e] = status[e] \/ (status[e] = "pending"
                             /\ status'[e] \notin {"new", "waiting", "pending"})
    BY DEF KeyStep, OnlyAnswers
  <2>2. waiters' = waiters /\ admitted' = admitted
    BY DEF KeyStep
  <2>3. admitted \subseteq Events /\ Range(waiters) \subseteq Events
    BY RangeProperties DEF BusInv, TypeOK
  <2> QED BY <2>1, <2>2, <2>3 DEF BusInv, WaitersWellFormed
<1>6. InsideAdmitted'
  BY <1>1, <1>3 DEF KeyStep, LocalOK, BusInv, InsideAdmitted
<1>7. WorkersWellFormed'
  <2>1. ASSUME NEW j \in Keys
        PROVE  /\ worker'[j].pc \notin {"none", "created", "dead"} <=> worker'[j].ev # NoEvent
               /\ HoldsSlot(j)' => worker'[j].op \in Operations
               /\ worker'[j].pc = "created" /\ j \notin cancelled' => keyQueue'[j] # <<>>
               /\ worker'[j].pc = "acquire" <=> j \in Range(slotWaiters')
    <3>1. CASE j = k
      BY <1>1, <3>1 DEF KeyStep, LocalOK, HoldsSlot
    <3>2. CASE j # k
      BY <1>1, <1>3, <3>2 DEF KeyStep, HoldsSlot, BusInv, WorkersWellFormed
    <3> QED BY <3>1, <3>2
  <2> QED BY <2>1 DEF KeyStep, WorkersWellFormed
<1> QED BY <1>4, <1>5, <1>6, <1>7 DEF BusInv

-----------------------------------------------------------------------------
(* The actions of a worker are such steps. *)

LEMMA NoWorkerIsOK ==
  LocalOK(NoWorker) /\ NoWorker.pc = "none"
<1>1. "none" \in PCs /\ {} \in SUBSET Operations
  BY DEF PCs
<1>2. NoWorker \in Workers /\ NoWorker.pc = "none" /\ NoWorker.ev = NoEvent
  BY <1>1, SuspendedType DEF NoWorker
<1> QED BY <1>2 DEF LocalOK

LEMMA ExitEffect ==
  ASSUME BusInv, IsFiniteSet(admitted), NEW k \in Keys, worker[k].ev # NoEvent,
         NEW live \in SUBSET Operations, Exit(k, live)
  PROVE  /\ \E S \in SUBSET admitted : Release(S)
         /\ OnlyAnswers(status, status')
         /\ /\ cancelled' \subseteq cancelled /\ cancelled \subseteq cancelled' \cup {k}
            /\ UNCHANGED <<busVars, handlerVars, waiters, admitted, ingress>>
            => KeyStep(k, NoWorker)
<1> DEFINE e == worker[k].ev
           rest == Range(keyQueue[k])
<1>1. {e} \cup rest \in SUBSET admitted
  BY DEF BusInv, InsideAdmitted
<1>2. OnlyAnswers(status, status')
  <2> DEFINE st == Resolve(status, {e}, "error")
  <2>1. OnlyAnswers(status, st)
    BY ResolveAnswers DEF BusInv, TypeOK
  <2>2. OnlyAnswers(st, Resolve(st, rest, "closed"))
    <3>1. st \in [Events -> Statuses]
      BY <2>1 DEF OnlyAnswers
    <3> QED BY <3>1, ResolveAnswers
  <2>3. status' = Resolve(st, rest, "closed")
    BY DEF Exit
  <2> HIDE DEF st
  <2> QED BY <2>1, <2>2, <2>3 DEF OnlyAnswers
<1>3. Release({e} \cup rest)
  BY DEF Exit
<1>4. free' \in Int /\ outstanding' \in Int /\ released' \subseteq Events
  BY <1>1, <1>3, ReleaseType DEF BusInv
<1>5. slots' \in Int
  BY DEF Exit, SlotsAfterExit, BusInv, TypeOK
<1>6. LocalOK(NoWorker) /\ NoWorker.pc = "none"
  BY NoWorkerIsOK
<1>7. /\ slotWaiters' \in Seq(Keys) /\ NoDuplicates(slotWaiters')
      /\ Range(slotWaiters') = Range(slotWaiters) \ {k}
  <2>1. slotWaiters \in Seq(Keys) /\ NoDuplicates(slotWaiters)
    BY DEF BusInv, TypeOK, WorkersWellFormed
  <2>2. CASE worker[k].pc = "acquire"
    <3>1. k \in Range(slotWaiters)
      BY <2>2 DEF BusInv, WorkersWellFormed
    <3>2. slotWaiters' = Without(slotWaiters, k)
      BY <2>2 DEF Exit
    <3> QED BY <2>1, <3>1, <3>2, WithoutProperties
  <2>3. CASE worker[k].pc # "acquire"
    <3>1. k \notin Range(slotWaiters) /\ slotWaiters' = slotWaiters
      BY <2>3 DEF Exit, BusInv, WorkersWellFormed
    <3> QED BY <2>1, <3>1
  <2> QED BY <2>2, <2>3
<1>8. \E q \in Seq(Events) :
        keyQueue' = [keyQueue EXCEPT ![k] = q] /\ Range(q) \subseteq Range(keyQueue[k])
  <2> DEFINE q == <<>>
  <2>1. q \in Seq(Events) /\ Range(q) = {} /\ keyQueue' = [keyQueue EXCEPT ![k] = q]
    BY DEF Exit, Range
  <2> QED BY <2>1
<1>9. worker' = [worker EXCEPT ![k] = NoWorker] /\ ops' = live
  BY DEF Exit
<1> HIDE DEF NoWorker, e, rest
<1>10. ASSUME /\ cancelled' \subseteq cancelled /\ cancelled \subseteq cancelled' \cup {k}
              /\ UNCHANGED <<busVars, handlerVars, waiters, admitted, ingress>>
       PROVE  KeyStep(k, NoWorker)
  BY <1>2, <1>4, <1>5, <1>6, <1>7, <1>8, <1>9, <1>10 DEF KeyStep
<1> QED BY <1>1, <1>2, <1>3, <1>10

\* How a step may change the admissions: not at all, by releasing events that were
\* admitted, or by admitting one event while there is room and the bus accepts.
AdmissionStep ==
  \/ UNCHANGED <<free, outstanding, admitted, released>>
  \/ UNCHANGED admitted /\ \E S \in SUBSET admitted : Release(S)
  \/ accepting /\ free > 0 /\ \E e \in Events \ admitted : Admit(e)

AnswersStay == \A e \in Events : status[e] \in Final => status'[e] = status[e]

\* What the proofs below show of every step.
GoodStep == BusInv' /\ AdmissionStep /\ AnswersStay

LEMMA KeyStepIsGood ==
  ASSUME BusInv, AdmissionStep, NEW k \in Keys, NEW w2, KeyStep(k, w2)
  PROVE  GoodStep
<1>1. AnswersStay
  BY DEF KeyStep, OnlyAnswers, AnswersStay, Final
<1> QED BY <1>1, KeyStepKeepsInv DEF GoodStep

\* The queue of key k does not change in this step.
LEMMA SameQueue ==
  ASSUME BusInv, NEW k \in Keys, UNCHANGED keyQueue
  PROVE  \E q \in Seq(Events) :
           keyQueue' = [keyQueue EXCEPT ![k] = q] /\ Range(q) \subseteq Range(keyQueue[k])
<1> DEFINE q == keyQueue[k]
<1>1. q \in Seq(Events) /\ keyQueue' = [keyQueue EXCEPT ![k] = q]
  BY DEF BusInv, TypeOK
<1> QED BY <1>1

LEMMA TakingIsGood ==
  ASSUME BusInv, NEW k \in Keys, keyQueue[k] # <<>>, worker[k].pc # "acquire",
         TakeNext(k), AdmissionStep,
         free' \in Int, outstanding' \in Int, released' \subseteq Events,
         UNCHANGED <<busVars, handlerVars, waiters, admitted, ingress, cancelled>>
  PROVE  GoodStep
<1> DEFINE e == Head(keyQueue[k])
<1>1. PICK w2 : Taking(k, e, w2)
  BY TakeNextEffect DEF BusInv
<1>2. keyQueue[k] \in Seq(Events) /\ slotWaiters \in Seq(Keys) /\ NoDuplicates(slotWaiters)
  BY DEF BusInv, TypeOK, WorkersWellFormed
<1>3. Head(keyQueue[k]) \in Range(keyQueue[k]) /\ Range(Tail(keyQueue[k])) \subseteq Range(keyQueue[k])
  BY <1>2, RangeProperties
<1>4. LocalOK(w2)
  <2>1. e \in admitted
    BY <1>3 DEF BusInv, InsideAdmitted
  <2>2. e # NoEvent
    BY <2>1, EventsAssumption DEF BusInv, TypeOK
  <2> QED BY <1>1, <2>1, <2>2 DEF Taking, LocalOK
<1>5. \E q \in Seq(Events) :
        keyQueue' = [keyQueue EXCEPT ![k] = q] /\ Range(q) \subseteq Range(keyQueue[k])
  <2> DEFINE q == Tail(keyQueue[k])
  <2>1. q \in Seq(Events)
    BY <1>2, HeadTailProperties
  <2>2. keyQueue' = [keyQueue EXCEPT ![k] = q]
    BY <1>1 DEF Taking
  <2> QED BY <1>3, <2>1, <2>2
<1>6. k \notin Range(slotWaiters)
  BY DEF BusInv, WorkersWellFormed
<1>7. /\ slotWaiters' \in Seq(Keys) /\ NoDuplicates(slotWaiters')
      /\ Range(slotWaiters') = IF w2.pc = "acquire" THEN Range(slotWaiters) \cup {k}
                               ELSE Range(slotWaiters) \ {k}
  <2>1. CASE w2.pc = "acquire"
    <3>1. slotWaiters' = Append(slotWaiters, k)
      BY <1>1, <2>1 DEF Taking
    <3>2. /\ Append(slotWaiters, k) \in Seq(Keys)
          /\ NoDuplicates(Append(slotWaiters, k))
          /\ Range(Append(slotWaiters, k)) = Range(slotWaiters) \cup {k}
      BY <1>2, <1>6, AppendProperties, NoDuplicatesProperties, RangeProperties
    <3> QED BY <2>1, <3>1, <3>2
  <2>2. CASE w2.pc # "acquire"
    BY <1>1, <1>2, <1>6, <2>2 DEF Taking
  <2> QED BY <2>1, <2>2
<1>8. KeyStep(k, w2)
  BY <1>1, <1>4, <1>5, <1>7 DEF Taking, KeyStep, BusInv, TypeOK
<1> QED BY <1>8, KeyStepIsGood

LEMMA DispatchingIsGood ==
  ASSUME BusInv, NEW k \in Keys, NEW w2, Dispatching(k, worker[k].ev, w2),
         worker[k].ev # NoEvent,
         slotWaiters' \in Seq(Keys), NoDuplicates(slotWaiters'),
         Range(slotWaiters') = Range(slotWaiters) \ {k},
         UNCHANGED <<busVars, handlerVars, free, waiters, outstanding, admitted, released,
                     queueVars, cancelled>>
  PROVE  GoodStep
<1>1. LocalOK(w2)
  BY DEF Dispatching, LocalOK, BusInv, InsideAdmitted
<1>2. \E q \in Seq(Events) :
        keyQueue' = [keyQueue EXCEPT ![k] = q] /\ Range(q) \subseteq Range(keyQueue[k])
  BY SameQueue DEF queueVars
<1>3. UNCHANGED <<busVars, handlerVars, waiters, admitted, ingress>>
  BY DEF queueVars
<1>4. KeyStep(k, w2)
  BY <1>1, <1>2, <1>3 DEF Dispatching, KeyStep, BusInv, TypeOK
<1>5. AdmissionStep
  BY DEF AdmissionStep
<1> QED BY <1>4, <1>5, KeyStepIsGood

LEMMA WorkerStartIsGood ==
  ASSUME BusInv, NEW k \in Keys, WorkerStart(k)
  PROVE  GoodStep
<1>1. keyQueue[k] # <<>> /\ worker[k].pc # "acquire"
  BY DEF WorkerStart, BusInv, WorkersWellFormed
<1>2. AdmissionStep /\ free' \in Int /\ outstanding' \in Int /\ released' \subseteq Events
  BY DEF WorkerStart, AdmissionStep, BusInv, TypeOK
<1> QED BY <1>1, <1>2, TakingIsGood DEF WorkerStart

LEMMA SlotGrantedIsGood ==
  ASSUME BusInv, NEW k \in Keys, SlotGranted(k)
  PROVE  GoodStep
<1> DEFINE e == worker[k].ev
<1>1. e # NoEvent /\ e \in Events /\ k \in Range(slotWaiters)
  BY DEF SlotGranted, BusInv, TypeOK, WorkersWellFormed, InsideAdmitted
<1>2. slots - 1 \in Int
  BY DEF BusInv, TypeOK
<1>3. PICK w2 : Dispatching(k, e, w2)
  BY <1>1, <1>2, BeginDispatchEffect DEF SlotGranted, BusInv
<1>4. slotWaiters \in Seq(Keys) /\ NoDuplicates(slotWaiters) /\ slotWaiters # <<>>
  BY <1>1 DEF BusInv, TypeOK, WorkersWellFormed, Range
<1>5. /\ slotWaiters' \in Seq(Keys) /\ NoDuplicates(slotWaiters')
      /\ Range(slotWaiters') = Range(slotWaiters) \ {k}
  <2>1. slotWaiters' = Tail(slotWaiters) /\ Head(slotWaiters) = k
    BY DEF SlotGranted
  <2>2. Tail(slotWaiters) \in Seq(Keys) /\ NoDuplicates(Tail(slotWaiters))
        /\ k \notin Range(Tail(slotWaiters))
        /\ Range(Tail(slotWaiters)) \subseteq Range(slotWaiters)
    BY <1>4, <2>1, HeadTailProperties, NoDuplicatesProperties, RangeProperties
  <2>3. Range(slotWaiters) \subseteq {Head(slotWaiters)} \cup Range(Tail(slotWaiters))
    BY <1>4, HeadAndTail
  <2> QED BY <2>1, <2>2, <2>3
<1> QED BY <1>1, <1>3, <1>5, DispatchingIsGood DEF SlotGranted

LEMMA SettleIsGood ==
  ASSUME BusInv, IsFiniteSet(admitted), NEW k \in Keys, Settle(k)
  PROVE  GoodStep
<1> DEFINE e == worker[k].ev
<1>1. e \in admitted /\ worker[k].pc = "settle"
  BY DEF Settle, BusInv, WorkersWellFormed, InsideAdmitted
<1>2. {e} \in SUBSET admitted /\ Release({e})
  BY <1>1 DEF Settle
<1>3. free' \in Int /\ outstanding' \in Int /\ released' \subseteq Events
  BY <1>2, ReleaseType DEF BusInv
<1>4. AdmissionStep
  BY <1>2 DEF AdmissionStep, Settle
<1>5. CASE MoreQueued(k)
  BY <1>1, <1>3, <1>4, <1>5, TakingIsGood DEF MoreQueued, Settle
<1>6. CASE ~MoreQueued(k)
  <2>1. LocalOK(NoWorker) /\ NoWorker.pc = "none"
    BY NoWorkerIsOK
  <2>2. \E q \in Seq(Events) :
          keyQueue' = [keyQueue EXCEPT ![k] = q] /\ Range(q) \subseteq Range(keyQueue[k])
    BY <1>6, SameQueue DEF Settle
  <2>3. UNCHANGED slotWaiters /\ k \notin Range(slotWaiters)
    BY <1>1, <1>6 DEF Settle, slotVars, BusInv, WorkersWellFormed
  <2>4. UNCHANGED <<slots, status, ops, cancelled>>
        /\ UNCHANGED <<busVars, handlerVars, waiters, admitted, ingress>>
        /\ worker' = [worker EXCEPT ![k] = NoWorker]
    BY <1>6 DEF Settle, slotVars
  <2>5. OnlyAnswers(status, status')
    BY <2>4 DEF OnlyAnswers, BusInv, TypeOK
  <2> HIDE DEF NoWorker
  <2>6. /\ slotWaiters' \in Seq(Keys) /\ NoDuplicates(slotWaiters')
        /\ Range(slotWaiters') = Range(slotWaiters) \ {k}
        /\ ops' \subseteq Operations /\ slots' \in Int
    BY <2>3, <2>4 DEF BusInv, TypeOK, WorkersWellFormed
  <2>7. NoWorker.pc # "created" /\ NoWorker.pc # "acquire"
    BY <2>1
  <2>8. KeyStep(k, NoWorker)
    BY <1>3, <2>1, <2>2, <2>4, <2>5, <2>6, <2>7 DEF KeyStep
  <2> QED BY <1>4, <2>8, KeyStepIsGood
<1> QED BY <1>5, <1>6

\* GoOn: HandlerReturns, OperationEnds and GraceExpires.
LEMMA GoOnIsGood ==
  ASSUME BusInv, NEW k \in Keys, worker[k].pc \in {"op", "grace"},
         NEW w \in Workers, w.ev = worker[k].ev, w.op = worker[k].op,
         NEW live \in SUBSET Operations, GoOn(k, w, live)
  PROVE  GoodStep
<1>1. w.ev # NoEvent /\ w.ev \in Events /\ w.op \in Operations
  BY DEF BusInv, TypeOK, WorkersWellFormed, InsideAdmitted, HoldsSlot
<1>2. slots \in Int /\ Continue(k, w, live, slots)
  BY DEF GoOn, BusInv, TypeOK
<1>3. PICK w2 : Dispatching(k, w.ev, w2)
  BY <1>1, <1>2, ContinueEffect DEF BusInv
<1>4. /\ slotWaiters' \in Seq(Keys) /\ NoDuplicates(slotWaiters')
      /\ Range(slotWaiters') = Range(slotWaiters) \ {k}
  BY DEF GoOn, BusInv, TypeOK, WorkersWellFormed
<1> QED BY <1>1, <1>3, <1>4, DispatchingIsGood DEF GoOn

LEMMA HandlerReturnsIsGood ==
  ASSUME BusInv, NEW k \in Keys, NEW acts \in 0..MaxActions, NEW stop \in BOOLEAN,
         HandlerReturns(k, acts, stop)
  PROVE  GoodStep
<1> DEFINE w == [worker[k] EXCEPT !.acts = acts, !.stop = stop]
<1>1. w \in Workers /\ w.ev = worker[k].ev /\ w.op = worker[k].op
  <2>1. worker[k] \in Workers
    BY DEF BusInv, TypeOK
  <2> QED BY <2>1 DEF Workers
<1>2. ops \ {worker[k].op} \in SUBSET Operations
  BY DEF BusInv, TypeOK
<1>3. worker[k].pc \in {"op", "grace"} /\ GoOn(k, w, ops \ {worker[k].op})
  BY DEF HandlerReturns, Awaits
<1> HIDE DEF w
<1> QED BY <1>1, <1>2, <1>3, GoOnIsGood

LEMMA OperationEndsIsGood ==
  ASSUME BusInv, NEW k \in Keys, OperationEnds(k)
  PROVE  GoodStep
<1>1. worker[k] \in Workers /\ ops \ {worker[k].op} \in SUBSET Operations
  BY DEF BusInv, TypeOK
<1>2. worker[k].pc \in {"op", "grace"} /\ GoOn(k, worker[k], ops \ {worker[k].op})
  BY DEF OperationEnds, Awaits
<1> QED BY <1>1, <1>2, GoOnIsGood

LEMMA GraceExpiresIsGood ==
  ASSUME BusInv, NEW k \in Keys, GraceExpires(k)
  PROVE  GoodStep
<1> DEFINE w == [worker[k] EXCEPT !.barriers = @ \cup {worker[k].op}]
<1>1. worker[k].pc = "grace" /\ GoOn(k, w, ops)
  BY DEF GraceExpires
<1>2. worker[k].op \in Operations
  BY <1>1 DEF BusInv, WorkersWellFormed, HoldsSlot
<1>3. w \in Workers /\ w.ev = worker[k].ev /\ w.op = worker[k].op
  <2>1. worker[k] \in Workers
    BY DEF BusInv, TypeOK
  <2> QED BY <1>2, <2>1 DEF Workers
<1>4. ops \in SUBSET Operations
  BY DEF BusInv, TypeOK
<1> HIDE DEF w
<1> QED BY <1>1, <1>3, <1>4, GoOnIsGood

LEMMA ExitIsGood ==
  ASSUME BusInv, IsFiniteSet(admitted), NEW k \in Keys, worker[k].ev # NoEvent,
         NEW live \in SUBSET Operations, Exit(k, live),
         cancelled' \subseteq cancelled, cancelled \subseteq cancelled' \cup {k},
         UNCHANGED <<busVars, handlerVars, waiters, admitted, ingress>>
  PROVE  GoodStep
<1>1. KeyStep(k, NoWorker) /\ \E S \in SUBSET admitted : Release(S)
  BY ExitEffect
<1>2. AdmissionStep
  BY <1>1 DEF AdmissionStep
<1> QED BY <1>1, <1>2, KeyStepIsGood

\* The worker only moves to pc, with what it holds and awaits unchanged.
LEMMA MoveIsGood ==
  ASSUME BusInv, NEW k \in Keys, NEW pc \in PCs, worker[k].pc # "acquire",
         worker' = [worker EXCEPT ![k].pc = pc],
         \/ pc = "dead" /\ worker[k].pc = "created"
         \/ pc \in {"grace", "cancelGrace"} /\ worker[k].pc \in {"op", "grace"},
         cancelled' \subseteq cancelled, cancelled \subseteq cancelled' \cup {k},
         UNCHANGED <<busVars, handlerVars, admissionVars, queueVars, slotVars, ops>>
  PROVE  GoodStep
<1> DEFINE w2 == [worker[k] EXCEPT !.pc = pc]
<1>1. worker[k] \in Workers
  BY DEF BusInv, TypeOK
<1>2. w2 \in Workers /\ w2.pc = pc /\ w2.ev = worker[k].ev /\ w2.op = worker[k].op
      /\ worker' = [worker EXCEPT ![k] = w2]
  BY <1>1 DEF Workers
<1> HIDE DEF w2
<1>3. LocalOK(w2)
  BY <1>2 DEF LocalOK, BusInv, WorkersWellFormed, InsideAdmitted, HoldsSlot
<1>4. \E q \in Seq(Events) :
        keyQueue' = [keyQueue EXCEPT ![k] = q] /\ Range(q) \subseteq Range(keyQueue[k])
  BY SameQueue DEF queueVars
<1>5. Range(slotWaiters') = Range(slotWaiters) \ {k} /\ slotWaiters' = slotWaiters
  BY DEF slotVars, BusInv, WorkersWellFormed
<1>6. OnlyAnswers(status, status')
  BY DEF OnlyAnswers, admissionVars, BusInv, TypeOK
<1>7. KeyStep(k, w2)
  BY <1>2, <1>3, <1>4, <1>5, <1>6
     DEF KeyStep, BusInv, TypeOK, WorkersWellFormed, admissionVars, queueVars, slotVars
<1>8. AdmissionStep
  BY DEF AdmissionStep, admissionVars
<1> QED BY <1>7, <1>8, KeyStepIsGood

LEMMA DeliverCancelIsGood ==
  ASSUME BusInv, IsFiniteSet(admitted), NEW k \in Keys, DeliverCancel(k)
  PROVE  GoodStep
<1>1. cancelled' \subseteq cancelled /\ cancelled \subseteq cancelled' \cup {k}
      /\ UNCHANGED <<busVars, handlerVars, ingress>>
  BY DEF DeliverCancel
<1>2. "dead" \in PCs /\ "cancelGrace" \in PCs
  BY DEF PCs
<1>3. CASE /\ worker[k].pc = "created"
           /\ worker' = [worker EXCEPT ![k].pc = "dead"]
           /\ UNCHANGED <<admissionVars, keyQueue, slotVars, ops>>
  BY <1>1, <1>2, <1>3, MoveIsGood DEF queueVars
<1>4. CASE /\ worker[k].pc \in {"op", "grace"}
           /\ worker' = [worker EXCEPT ![k].pc = "cancelGrace"]
           /\ UNCHANGED <<admissionVars, keyQueue, slotVars, ops>>
  BY <1>1, <1>2, <1>4, MoveIsGood DEF queueVars
<1>5. CASE /\ worker[k].pc \in {"acquire", "cancelGrace", "settle"}
           /\ Exit(k, ops)
           /\ UNCHANGED <<waiters, admitted>>
  <2>1. worker[k].ev # NoEvent /\ ops \in SUBSET Operations
    BY <1>5 DEF BusInv, WorkersWellFormed, TypeOK
  <2> QED BY <1>1, <1>5, <2>1, ExitIsGood
<1> QED BY <1>3, <1>4, <1>5 DEF DeliverCancel

LEMMA WorkerStepIsGood ==
  ASSUME BusInv, IsFiniteSet(admitted), NEW k \in Keys, WorkerStep(k) \/ CallbackStep(k)
  PROVE  GoodStep
<1>1. CASE OperationTimeout(k)
  <2>1. "grace" \in PCs
    BY DEF PCs
  <2> QED BY <1>1, <2>1, MoveIsGood DEF OperationTimeout
<1>2. CASE CancelUnwinds(k)
  <2>1. worker[k].ev # NoEvent /\ ops \in SUBSET Operations
    BY <1>2 DEF CancelUnwinds, BusInv, WorkersWellFormed, TypeOK
  <2> QED BY <1>2, <2>1, ExitIsGood DEF CancelUnwinds
<1>3. CASE OperationRaises(k)
  <2>1. worker[k].ev # NoEvent /\ ops \ {worker[k].op} \in SUBSET Operations
    BY <1>3 DEF OperationRaises, BusInv, WorkersWellFormed, TypeOK
  <2> QED BY <1>3, <2>1, ExitIsGood DEF OperationRaises
<1>4. CASE \E acts \in 0..MaxActions, stop \in BOOLEAN : HandlerReturns(k, acts, stop)
  BY <1>4, HandlerReturnsIsGood
<1> QED BY <1>1, <1>2, <1>3, <1>4, WorkerStartIsGood, SlotGrantedIsGood, SettleIsGood,
           GraceExpiresIsGood, DeliverCancelIsGood, OperationEndsIsGood
        DEF WorkerStep, CallbackStep

-----------------------------------------------------------------------------
(* Subscribers, publishers, the dispatcher and aclose. *)

\* The workers and the queues they read are left alone.
LEMMA WorkersUntouched ==
  ASSUME BusInv, UNCHANGED <<worker, cancelled, slotWaiters, keyQueue>>
  PROVE  WorkersWellFormed'
BY DEF BusInv, WorkersWellFormed, HoldsSlot

LEMMA SubscriptionIsGood ==
  ASSUME BusInv, Subscriptions
  PROVE  GoodStep
<1>1. /\ UNCHANGED <<busVars, admissionVars, queueVars, worker, cancelled, slotVars, ops>>
      /\ handlers' \subseteq Handlers /\ nextSub' \in 1..(MaxSubscriptions + 1)
  <2>1. ASSUME NEW o \in Orders, Subscribe(o)
        PROVE  /\ UNCHANGED <<busVars, admissionVars, queueVars, worker, cancelled,
                              slotVars, ops>>
               /\ handlers' \subseteq Handlers /\ nextSub' \in 1..(MaxSubscriptions + 1)
    <3>1. nextSub \in 1..MaxSubscriptions /\ nextSub + 1 \in 1..(MaxSubscriptions + 1)
      BY <2>1, BoundsAssumption DEF Subscribe, BusInv, TypeOK
    <3>2. [order |-> o, id |-> nextSub] \in Handlers
      BY <3>1 DEF Handlers
    <3> QED BY <2>1, <3>1, <3>2 DEF Subscribe, BusInv, TypeOK
  <2>2. ASSUME NEW h \in handlers, Unsubscribe(h)
        PROVE  /\ UNCHANGED <<busVars, admissionVars, queueVars, worker, cancelled,
                              slotVars, ops>>
               /\ handlers' \subseteq Handlers /\ nextSub' \in 1..(MaxSubscriptions + 1)
    BY <2>2 DEF Unsubscribe, BusInv, TypeOK
  <2> QED BY <2>1, <2>2 DEF Subscriptions
<1>2. TypeOK'
  BY <1>1 DEF BusInv, TypeOK, busVars, admissionVars, queueVars, slotVars
<1>3. WaitersWellFormed' /\ InsideAdmitted'
  BY <1>1 DEF BusInv, WaitersWellFormed, InsideAdmitted, admissionVars, queueVars
<1>4. WorkersWellFormed'
  BY <1>1, WorkersUntouched DEF queueVars, slotVars
<1>5. AdmissionStep /\ AnswersStay
  BY <1>1 DEF AdmissionStep, AnswersStay, admissionVars
<1> QED BY <1>2, <1>3, <1>4, <1>5 DEF GoodStep, BusInv

\* Event e is admitted, straight from publish or after its wait for capacity.
LEMMA AdmitIsGood ==
  ASSUME BusInv, NEW e \in Events, accepting, free > 0, Admit(e),
         status[e] \in {"new", "waiting"},
         waiters' \in Seq(Events), NoDuplicates(waiters'),
         Range(waiters') = Range(waiters) \ {e},
         dispatcher' \in BOOLEAN,
         UNCHANGED <<accepting, forced, closer, handlerVars, keyQueue, worker, cancelled,
                     slotVars, ops>>
  PROVE  GoodStep
<1>1. e \notin admitted
  BY DEF BusInv, WaitersWellFormed
<1>2. ingress \in Seq(Events) /\ ingress' = Append(ingress, e)
  BY DEF Admit, Put, BusInv, TypeOK
<1>3. ingress' \in Seq(Events) /\ Range(ingress') = Range(ingress) \cup {e}
  BY <1>2, AppendProperties, RangeProperties
<1>4. /\ status' \in [Events -> Statuses] /\ status'[e] = "pending"
      /\ \A d \in Events \ {e} : status'[d] = status[d]
  BY DEF Admit, BusInv, TypeOK, Statuses
<1>5. TypeOK'
  BY <1>3, <1>4 DEF Admit, BusInv, TypeOK, handlerVars, slotVars
<1>6. WaitersWellFormed'
  <2>1. Range(waiters) \subseteq Events /\ admitted' = admitted \cup {e}
    BY RangeProperties DEF Admit, BusInv, TypeOK
  <2> QED BY <1>4, <2>1 DEF BusInv, TypeOK, WaitersWellFormed
<1>7. InsideAdmitted'
  BY <1>3 DEF Admit, BusInv, InsideAdmitted
<1>8. WorkersWellFormed'
  BY WorkersUntouched DEF slotVars
<1>9. AdmissionStep
  BY <1>1 DEF AdmissionStep
<1>10. AnswersStay
  BY <1>4 DEF AnswersStay, Final
<1> QED BY <1>5, <1>6, <1>7, <1>8, <1>9, <1>10 DEF GoodStep, BusInv

\* The publisher of e is turned away, or starts to wait.
LEMMA TurnAwayIsGood ==
  ASSUME BusInv, NEW e \in Events, status[e] \in {"new", "waiting"},
         NEW st \in Statuses \ {"new", "pending"}, status' = [status EXCEPT ![e] = st],
         waiters' \in Seq(Events), NoDuplicates(waiters'),
         Range(waiters') = IF st = "waiting" THEN Range(waiters) \cup {e}
                           ELSE Range(waiters) \ {e},
         dispatcher' \in BOOLEAN,
         UNCHANGED <<accepting, forced, closer, handlerVars, free, outstanding, admitted,
                     released, ingress, keyQueue, worker, cancelled, slotVars, ops>>
  PROVE  GoodStep
<1>1. e \notin admitted
  BY DEF BusInv, WaitersWellFormed
<1>2. /\ status' \in [Events -> Statuses] /\ status'[e] = st
      /\ \A d \in Events \ {e} : status'[d] = status[d]
  BY DEF BusInv, TypeOK
<1>3. TypeOK'
  BY <1>2 DEF BusInv, TypeOK, handlerVars, slotVars
<1>4. WaitersWellFormed'
  <2>1. Range(waiters) \subseteq Events
    BY RangeProperties DEF BusInv, TypeOK
  <2> QED BY <1>1, <1>2, <2>1 DEF BusInv, TypeOK, WaitersWellFormed
<1>5. InsideAdmitted'
  BY DEF BusInv, InsideAdmitted
<1>6. WorkersWellFormed'
  BY WorkersUntouched DEF slotVars
<1>7. AdmissionStep /\ AnswersStay
  BY <1>2 DEF AdmissionStep, AnswersStay, Final
<1> QED BY <1>3, <1>4, <1>5, <1>6, <1>7 DEF GoodStep, BusInv

LEMMA PublishIsGood ==
  ASSUME BusInv, NEW e \in Events, Publish(e)
  PROVE  GoodStep
<1>1. /\ waiters \in Seq(Events) /\ NoDuplicates(waiters) /\ e \notin Range(waiters)
      /\ status[e] = "new"
  BY DEF Publish, BusInv, TypeOK, WaitersWellFormed
<1>2. UNCHANGED <<accepting, forced, closer, handlerVars, keyQueue, worker, cancelled,
                  slotVars, ops>>
  BY DEF Publish
<1>3. CASE ~accepting \/ e \in Oversized
  <2>1. PICK st \in {"overloaded", "closed"} :
          /\ status' = [status EXCEPT ![e] = st]
          /\ UNCHANGED <<dispatcher, free, waiters, outstanding, ingress, admitted, released>>
    BY <1>3 DEF Publish
  <2>2. st \in Statuses \ {"new", "pending", "waiting"}
    BY DEF Statuses, Final
  <2>3. dispatcher' \in BOOLEAN
    BY <2>1 DEF BusInv, TypeOK
  <2> QED BY <1>1, <1>2, <2>1, <2>2, <2>3, TurnAwayIsGood
<1>4. CASE ~(~accepting \/ e \in Oversized) /\ free > 0 /\ waiters = <<>>
  <2>1. accepting /\ dispatcher' = TRUE /\ Admit(e) /\ waiters' = waiters
    BY <1>4 DEF Publish, BusInv, TypeOK
  <2>2. Range(waiters') = Range(waiters) \ {e}
    BY <1>1, <2>1
  <2> QED BY <1>1, <1>2, <1>4, <2>1, <2>2, AdmitIsGood
<1>5. CASE ~(~accepting \/ e \in Oversized) /\ ~(free > 0 /\ waiters = <<>>)
  <2>1. /\ dispatcher' = TRUE
        /\ status' = [status EXCEPT ![e] = IF EnqueueWait THEN "waiting" ELSE "overloaded"]
        /\ waiters' = IF EnqueueWait THEN Append(waiters, e) ELSE waiters
        /\ UNCHANGED <<free, outstanding, ingress, admitted, released>>
    BY <1>5 DEF Publish
  <2>2. "waiting" \in Statuses \ {"new", "pending"} /\ "overloaded" \in Statuses \ {"new", "pending"}
    BY DEF Statuses, Final
  <2>3. CASE EnqueueWait
    <3>1. /\ Append(waiters, e) \in Seq(Events) /\ NoDuplicates(Append(waiters, e))
          /\ Range(Append(waiters, e)) = Range(waiters) \cup {e}
      BY <1>1, AppendProperties, NoDuplicatesProperties, RangeProperties
    <3>2. status' = [status EXCEPT ![e] = "waiting"] /\ waiters' = Append(waiters, e)
      BY <2>1, <2>3
    <3> QED BY <1>1, <1>2, <2>1, <2>2, <3>1, <3>2, TurnAwayIsGood
  <2>4. CASE ~EnqueueWait
    <3>1. status' = [status EXCEPT ![e] = "overloaded"] /\ waiters' = waiters
      BY <2>1, <2>4
    <3> QED BY <1>1, <1>2, <2>1, <2>2, <3>1, TurnAwayIsGood
  <2> QED BY <2>3, <2>4
<1> QED BY <1>3, <1>4, <1>5

LEMMA CapacityGrantedIsGood ==
  ASSUME BusInv, CapacityGranted
  PROVE  GoodStep
<1> DEFINE e == Head(waiters)
<1>1. waiters \in Seq(Events) /\ NoDuplicates(waiters) /\ waiters # <<>> /\ free > 0
  BY DEF CapacityGranted, BusInv, TypeOK, WaitersWellFormed
<1>2. e \in Events /\ status[e] = "waiting"
  BY <1>1, RangeProperties DEF BusInv, WaitersWellFormed
<1>3. /\ waiters' \in Seq(Events) /\ NoDuplicates(waiters')
      /\ Range(waiters') = Range(waiters) \ {e}
  <2>1. waiters' = Tail(waiters) /\ Tail(waiters) \in Seq(Events)
    BY <1>1, HeadTailProperties DEF CapacityGranted
  <2> QED BY <1>1, <2>1, NoDuplicatesProperties, HeadAndTail
<1>4. /\ UNCHANGED <<accepting, forced, closer, handlerVars, keyQueue, worker, cancelled,
                     slotVars, ops>>
      /\ dispatcher' \in BOOLEAN
  BY DEF CapacityGranted, busVars, BusInv, TypeOK
<1>5. CASE StillAccepting
  <2>1. accepting /\ Admit(e)
    BY <1>5 DEF CapacityGranted, StillAccepting
  <2> QED BY <1>1, <1>2, <1>3, <1>4, <2>1, AdmitIsGood
<1>6. CASE ~StillAccepting
  <2>1. /\ status' = [status EXCEPT ![e] = "closed"]
        /\ UNCHANGED <<free, outstanding, ingress, admitted, released>>
    BY <1>6 DEF CapacityGranted
  <2>2. "closed" \in Statuses \ {"new", "pending"}
    BY DEF Statuses, Final
  <2> QED BY <1>2, <1>3, <1>4, <2>1, <2>2, TurnAwayIsGood
<1> QED BY <1>5, <1>6

LEMMA LeaveWaitingIsGood ==
  ASSUME BusInv, NEW e \in Events, NEW st \in Final, LeaveWaiting(e, st)
  PROVE  GoodStep
<1>1. waiters \in Seq(Events) /\ NoDuplicates(waiters) /\ e \in Range(waiters)
  BY DEF LeaveWaiting, BusInv, TypeOK, WaitersWellFormed
<1>2. waiters' = Without(waiters, e)
  BY DEF LeaveWaiting
<1>3. /\ waiters' \in Seq(Events) /\ NoDuplicates(waiters')
      /\ Range(waiters') = Range(waiters) \ {e}
  BY <1>1, <1>2, WithoutProperties
<1>4. st \in Statuses \ {"new", "pending"} /\ st # "waiting"
  BY DEF Statuses, Final
<1>5. dispatcher' \in BOOLEAN /\ status[e] = "waiting" /\ status' = [status EXCEPT ![e] = st]
      /\ UNCHANGED <<accepting, forced, closer, handlerVars, free, outstanding, admitted,
                     released, ingress, keyQueue, worker, cancelled, slotVars, ops>>
  BY DEF LeaveWaiting, busVars, queueVars, BusInv, TypeOK
<1> QED BY <1>3, <1>4, <1>5, TurnAwayIsGood

LEMMA DispatcherTurnIsGood ==
  ASSUME BusInv, DispatcherTurn
  PROVE  GoodStep
<1> DEFINE e == Head(ingress)
           k == KeyOf[e]
<1>1. /\ ingress \in Seq(Events) /\ ingress # <<>> /\ ingress' = Tail(ingress)
      /\ UNCHANGED <<busVars, handlerVars, admissionVars, cancelled, slotVars, ops>>
  BY DEF DispatcherTurn, BusInv, TypeOK
<1>2. /\ e \in Events /\ e \in admitted /\ ingress' \in Seq(Events)
      /\ Range(ingress') \subseteq Range(ingress)
  BY <1>1, HeadTailProperties, RangeProperties DEF BusInv, InsideAdmitted
<1>3. k \in Keys
  BY <1>2, KeysAssumption
<1>4. /\ keyQueue' = [keyQueue EXCEPT ![k] = Append(@, e)]
      /\ worker' = IF worker[k].pc = "none" THEN [worker EXCEPT ![k].pc = "created"]
                   ELSE worker
  BY DEF DispatcherTurn, Put
<1> HIDE DEF e, k
<1>5. /\ keyQueue' \in [Keys -> Seq(Events)]
      /\ keyQueue'[k] # <<>> /\ Range(keyQueue'[k]) = Range(keyQueue[k]) \cup {e}
      /\ \A j \in Keys \ {k} : keyQueue'[j] = keyQueue[j]
  <2>1. keyQueue[k] \in Seq(Events)
    BY <1>3 DEF BusInv, TypeOK
  <2>2. /\ Append(keyQueue[k], e) \in Seq(Events) /\ Append(keyQueue[k], e) # <<>>
        /\ Range(Append(keyQueue[k], e)) = Range(keyQueue[k]) \cup {e}
    BY <1>2, <2>1, AppendProperties, RangeProperties
  <2> QED BY <1>3, <1>4, <2>2 DEF BusInv, TypeOK
<1>6. /\ worker' \in [Keys -> Workers]
      /\ \A j \in Keys : /\ worker'[j].ev = worker[j].ev /\ worker'[j].op = worker[j].op
                         /\ \/ worker'[j].pc = worker[j].pc
                            \/ j = k /\ worker[j].pc = "none" /\ worker'[j].pc = "created"
  <2>1. worker[k] \in Workers
    BY <1>3 DEF BusInv, TypeOK
  <2>2. CASE worker[k].pc = "none"
    <3> DEFINE w2 == [worker[k] EXCEPT !.pc = "created"]
    <3>1. "created" \in PCs
      BY DEF PCs
    <3>2. w2 \in Workers /\ w2.pc = "created" /\ w2.ev = worker[k].ev /\ w2.op = worker[k].op
      BY <2>1, <3>1 DEF Workers
    <3>3. worker' = [worker EXCEPT ![k] = w2]
      BY <1>4, <2>2
    <3> HIDE DEF w2
    <3> QED BY <1>3, <2>2, <3>2, <3>3 DEF BusInv, TypeOK
  <2>3. CASE worker[k].pc # "none"
    BY <1>4, <2>3 DEF BusInv, TypeOK
  <2> QED BY <2>2, <2>3
<1>7. TypeOK'
  BY <1>1, <1>2, <1>5, <1>6
     DEF BusInv, TypeOK, busVars, handlerVars, admissionVars, slotVars
<1>8. WaitersWellFormed'
  BY <1>1 DEF BusInv, WaitersWellFormed, admissionVars
<1>9. InsideAdmitted'
  BY <1>1, <1>2, <1>5, <1>6 DEF BusInv, InsideAdmitted, admissionVars
<1>10. WorkersWellFormed'
  <2>1. NoDuplicates(slotWaiters') /\ slotWaiters' = slotWaiters /\ cancelled' = cancelled
    BY <1>1 DEF BusInv, WorkersWellFormed, slotVars
  <2>2. ASSUME NEW j \in Keys
        PROVE  /\ worker'[j].pc \notin {"none", "created", "dead"} <=> worker'[j].ev # NoEvent
               /\ HoldsSlot(j)' => worker'[j].op \in Operations
               /\ worker'[j].pc = "created" /\ j \notin cancelled' => keyQueue'[j] # <<>>
               /\ worker'[j].pc = "acquire" <=> j \in Range(slotWaiters')
    BY <1>5, <1>6, <2>1 DEF BusInv, WorkersWellFormed, HoldsSlot
  <2> QED BY <2>1, <2>2 DEF WorkersWellFormed
<1>11. AdmissionStep /\ AnswersStay
  BY <1>1 DEF AdmissionStep, AnswersStay, admissionVars
<1> QED BY <1>7, <1>8, <1>9, <1>10, <1>11 DEF GoodStep, BusInv

\* Steps of aclose that only touch its own progress and the flags of the bus, and the
\* cancellation of every living worker.
LEMMA CloserMoveIsGood ==
  ASSUME BusInv, accepting' \in BOOLEAN, forced' \in BOOLEAN, dispatcher' \in BOOLEAN,
         closer' \in Closers,
         cancelled' = cancelled \/ cancelled' = {k \in Keys : Alive(k)},
         UNCHANGED <<handlerVars, admissionVars, queueVars, worker, slotVars, ops>>
  PROVE  GoodStep
<1>1. TypeOK'
  BY DEF BusInv, TypeOK, handlerVars, admissionVars, queueVars, slotVars
<1>2. WaitersWellFormed' /\ InsideAdmitted'
  BY DEF BusInv, WaitersWellFormed, InsideAdmitted, admissionVars, queueVars
<1>3. WorkersWellFormed'
  BY DEF BusInv, WorkersWellFormed, HoldsSlot, Alive, slotVars, queueVars
<1>4. AdmissionStep /\ AnswersStay
  BY DEF AdmissionStep, AnswersStay, admissionVars
<1> QED BY <1>1, <1>2, <1>3, <1>4 DEF GoodStep, BusInv

LEMMA DrainIsGood ==
  ASSUME BusInv, IsFiniteSet(admitted), Drain, forced' \in BOOLEAN,
         UNCHANGED <<accepting, dispatcher, handlerVars, waiters, admitted, worker,
                     slotVars, ops>>
  PROVE  GoodStep
<1>1. Left \in SUBSET admitted
  <2>1. ASSUME NEW e \in Left PROVE e \in admitted
    <3>1. CASE e \in Range(ingress)
      BY <3>1 DEF BusInv, InsideAdmitted
    <3>2. CASE \E k \in Keys : e \in Range(keyQueue[k])
      BY <3>2 DEF BusInv, InsideAdmitted
    <3>3. CASE e # NoEvent /\ \E k \in Keys : e = worker[k].ev
      BY <3>3 DEF BusInv, InsideAdmitted
    <3>4. \/ e \in Range(ingress)
          \/ e \in UNION {Range(keyQueue[k]) : k \in Keys}
          \/ e \in {worker[k].ev : k \in Keys} \ {NoEvent}
      BY <2>1, Zenon DEF Left
    <3> QED BY <3>1, <3>2, <3>3, <3>4
  <2> QED BY <2>1
<1>2. /\ Release(Left) /\ free' \in Int /\ outstanding' \in Int /\ released' \subseteq Events
  BY <1>1, ReleaseType DEF Drain, BusInv
<1>3. OnlyAnswers(status, status')
  BY ResolveAnswers DEF Drain, BusInv, TypeOK
<1>4. /\ ingress' = <<>> /\ \A k \in Keys : keyQueue'[k] = <<>>
      /\ keyQueue' \in [Keys -> Seq(Events)] /\ ingress' \in Seq(Events)
      /\ Range(ingress') = {} /\ \A k \in Keys : Range(keyQueue'[k]) = {}
  BY DEF Drain, Range
<1>5. cancelled' = {k \in Keys : Alive(k)} /\ closer' \in Closers
  BY DEF Drain, Closers
<1>6. TypeOK'
  BY <1>2, <1>3, <1>4, <1>5 DEF BusInv, TypeOK, OnlyAnswers, handlerVars, slotVars
<1>7. WaitersWellFormed'
  <2>1. \A e \in Events : status'[e] = status[e] \/ (status[e] = "pending"
                             /\ status'[e] \notin {"new", "waiting", "pending"})
    BY <1>3 DEF OnlyAnswers
  <2>2. admitted \subseteq Events /\ Range(waiters) \subseteq Events
    BY RangeProperties DEF BusInv, TypeOK
  <2> QED BY <2>1, <2>2 DEF BusInv, WaitersWellFormed
<1>8. InsideAdmitted'
  BY <1>4 DEF BusInv, InsideAdmitted
<1>9. WorkersWellFormed'
  BY <1>5 DEF BusInv, WorkersWellFormed, HoldsSlot, Alive, slotVars
<1>10. AdmissionStep /\ AnswersStay
  BY <1>1, <1>2, <1>3 DEF AdmissionStep, AnswersStay, OnlyAnswers, Final
<1> QED BY <1>6, <1>7, <1>8, <1>9, <1>10 DEF GoodStep, BusInv

LEMMA CloserIsGood ==
  ASSUME BusInv, IsFiniteSet(admitted), CloseBegin \/ CloserStep
  PROVE  GoodStep
<1>1. /\ TRUE \in BOOLEAN /\ FALSE \in BOOLEAN
      /\ {"waitIdle", "drainOps", "forceOps", "stopDispatcher", "done"} \subseteq Closers
      /\ accepting \in BOOLEAN /\ forced \in BOOLEAN /\ dispatcher \in BOOLEAN
  BY DEF Closers, BusInv, TypeOK
<1>2. CASE CloseBegin
  BY <1>1, <1>2, CloserMoveIsGood DEF CloseBegin
<1>3. CASE CloseIdle
  <2>1. closer' \in Closers
    BY <1>1, <1>3 DEF CloseIdle
  <2> QED BY <1>1, <1>3, <2>1, CloserMoveIsGood DEF CloseIdle
<1>4. CASE CloseOpsDrained
  BY <1>1, <1>4, CloserMoveIsGood DEF CloseOpsDrained
<1>5. CASE CloseTimeout
  <2>1. CASE ops = {}
    BY <1>1, <1>5, <2>1, DrainIsGood DEF CloseTimeout
  <2>2. CASE ops # {}
    <3>1. /\ forced' = TRUE /\ cancelled' = {k \in Keys : Alive(k)} /\ closer' = "forceOps"
          /\ UNCHANGED <<accepting, dispatcher, handlerVars, admissionVars, queueVars,
                         worker, slotVars, ops>>
      BY <1>5, <2>2 DEF CloseTimeout, admissionVars
    <3> QED BY <1>1, <3>1, CloserMoveIsGood
  <2> QED BY <2>1, <2>2
<1>6. CASE ForceDrain
  BY <1>1, <1>6, DrainIsGood DEF ForceDrain
<1>7. CASE ForceJoin
  BY <1>1, <1>7, CloserMoveIsGood DEF ForceJoin
<1>8. CASE CloseDone
  BY <1>1, <1>8, CloserMoveIsGood DEF CloseDone
<1> QED BY <1>2, <1>3, <1>4, <1>5, <1>6, <1>7, <1>8 DEF CloserStep

LEMMA StrayIsGood ==
  ASSUME BusInv, NEW o \in ops, StrayOperationEnds(o)
  PROVE  GoodStep
<1>1. /\ ops' = ops \ {o}
      /\ UNCHANGED <<busVars, handlerVars, admissionVars, queueVars, worker, cancelled,
                     slotVars>>
  BY DEF StrayOperationEnds
<1>2. TypeOK'
  BY <1>1 DEF BusInv, TypeOK, busVars, handlerVars, admissionVars, queueVars, slotVars
<1>3. WaitersWellFormed' /\ InsideAdmitted'
  BY <1>1 DEF BusInv, WaitersWellFormed, InsideAdmitted, admissionVars, queueVars
<1>4. WorkersWellFormed'
  BY <1>1, WorkersUntouched DEF queueVars, slotVars
<1>5. AdmissionStep /\ AnswersStay
  BY <1>1 DEF AdmissionStep, AnswersStay, admissionVars
<1> QED BY <1>2, <1>3, <1>4, <1>5 DEF GoodStep, BusInv

-----------------------------------------------------------------------------
(* The theorems. *)

LEMMA NextIsGood ==
  ASSUME BusInv, IsFiniteSet(admitted), Next
  PROVE  GoodStep
<1>1. CASE Publishers
  <2>1. ASSUME NEW e \in Events, EnqueueTimeout(e) \/ PublisherCancelled(e)
        PROVE  GoodStep
    <3>1. "overloaded" \in Final /\ "gone" \in Final
      BY DEF Final
    <3> QED BY <2>1, <3>1, LeaveWaitingIsGood DEF EnqueueTimeout, PublisherCancelled
  <2> QED BY <1>1, <2>1, PublishIsGood, CapacityGrantedIsGood DEF Publishers
<1>2. CASE \E k \in Keys : WorkerStep(k) \/ CallbackStep(k)
  BY <1>2, WorkerStepIsGood
<1>3. CASE \E o \in ops : StrayOperationEnds(o)
  BY <1>3, StrayIsGood
<1> QED BY <1>1, <1>2, <1>3, SubscriptionIsGood, DispatcherTurnIsGood, CloserIsGood DEF Next

\* The accounting together with the finiteness that Cardinality needs.
Accounting == IsFiniteSet(admitted) /\ AdmissionAccounting

LEMMA AdmissionStepKeepsAccounting ==
  ASSUME BusInv, Accounting, AdmissionStep
  PROVE  Accounting'
<1>1. QueueCapacity \in Nat /\ released \subseteq admitted /\ IsFiniteSet(admitted)
  BY BoundsAssumption DEF Accounting, AdmissionAccounting
<1>2. CASE UNCHANGED <<free, outstanding, admitted, released>>
  BY <1>2 DEF Accounting, AdmissionAccounting
<1>3. ASSUME UNCHANGED admitted, NEW S \in SUBSET admitted, Release(S)
      PROVE  Accounting'
  <2> DEFINE fresh == S \ released
             inside == admitted \ released
  <2>1. /\ released' = released \cup fresh
        /\ outstanding' = outstanding - Cardinality(fresh)
        /\ free' = free + Cardinality(fresh)
    BY <1>3 DEF Release
  <2>2. IsFiniteSet(inside) /\ IsFiniteSet(fresh) /\ fresh \subseteq inside
    <3>1. inside \subseteq admitted /\ fresh \subseteq admitted
      OBVIOUS
    <3> QED BY <1>1, <3>1, FS_Subset
  <2>3. inside \cap fresh = fresh /\ inside \ fresh = admitted' \ released'
    BY <1>3, <2>1
  <2> HIDE DEF fresh, inside
  <2>4. Cardinality(inside \ fresh) = Cardinality(inside) - Cardinality(fresh)
    BY <2>2, <2>3, FS_Difference
  <2>5. Cardinality(inside) \in Nat /\ Cardinality(fresh) \in Nat
    BY <2>2, FS_CardinalityType
  <2>6. outstanding = Cardinality(inside) /\ free = QueueCapacity - outstanding /\ free >= 0
    BY DEF Accounting, AdmissionAccounting, inside
  <2>7. /\ outstanding' = Cardinality(admitted' \ released')
        /\ free' = QueueCapacity - outstanding' /\ free' >= 0
    <3> DEFINE n == Cardinality(inside)
               m == Cardinality(fresh)
    <3>1. Cardinality(admitted' \ released') = n - m
      BY <2>3, <2>4, Zenon
    <3>2. /\ outstanding' = outstanding - m /\ free' = free + m
          /\ n \in Nat /\ m \in Nat /\ outstanding = n
      BY <2>1, <2>5, <2>6
    <3> HIDE DEF n, m
    <3> QED BY <1>1, <2>6, <3>1, <3>2
  <2>8. released' \subseteq admitted' /\ IsFiniteSet(admitted')
    BY <1>1, <1>3, <2>1 DEF fresh
  <2> QED BY <2>7, <2>8 DEF Accounting, AdmissionAccounting
<1>4. ASSUME free > 0, NEW e \in Events \ admitted, Admit(e)
      PROVE  Accounting'
  <2>1. /\ free' = free - 1 /\ outstanding' = outstanding + 1
        /\ admitted' = admitted \cup {e} /\ released' = released
    BY <1>4 DEF Admit
  <2> DEFINE inside == admitted \ released
  <2>2. admitted' \ released' = inside \cup {e} /\ e \notin inside
    BY <1>1, <1>4, <2>1
  <2>3. IsFiniteSet(inside)
    BY <1>1, FS_Subset, inside \subseteq admitted
  <2> HIDE DEF inside
  <2>4. Cardinality(inside \cup {e}) = Cardinality(inside) + 1 /\ Cardinality(inside) \in Nat
    BY <2>2, <2>3, FS_AddElement, FS_CardinalityType
  <2>5. outstanding = Cardinality(inside) /\ free = QueueCapacity - outstanding
    BY DEF Accounting, AdmissionAccounting, inside
  <2>6. /\ outstanding' = Cardinality(admitted' \ released')
        /\ free' = QueueCapacity - outstanding' /\ free' >= 0
    <3> DEFINE n == Cardinality(inside)
    <3>1. Cardinality(admitted' \ released') = n + 1
      BY <2>2, <2>4, Zenon
    <3>2. n \in Nat /\ outstanding = n
      BY <2>4, <2>5
    <3> HIDE DEF n
    <3> QED BY <1>1, <1>4, <2>1, <2>5, <3>1, <3>2
  <2>7. released' \subseteq admitted' /\ IsFiniteSet(admitted')
    BY <1>1, <2>1, FS_AddElement
  <2> QED BY <2>6, <2>7 DEF Accounting, AdmissionAccounting
<1> QED BY <1>2, <1>3, <1>4 DEF AdmissionStep

LEMMA InitIsGood ==
  ASSUME Init
  PROVE  BusInv /\ Accounting
<1>1. TypeOK
  <2>1. NoWorker \in Workers
    BY NoWorkerIsOK DEF LocalOK
  <2>2. /\ "open" \in Closers /\ "new" \in Statuses /\ 1 \in 1..(MaxSubscriptions + 1)
        /\ QueueCapacity \in Int /\ MaxConcurrent \in Int
    BY BoundsAssumption DEF Closers, Statuses
  <2>3. <<>> \in Seq(Events) /\ <<>> \in Seq(Keys)
    OBVIOUS
  <2> HIDE DEF NoWorker
  <2>4. /\ keyQueue \in [Keys -> Seq(Events)] /\ worker \in [Keys -> Workers]
        /\ status \in [Events -> Statuses]
    BY <2>1, <2>2, <2>3 DEF Init
  <2>5. /\ accepting \in BOOLEAN /\ forced \in BOOLEAN /\ dispatcher \in BOOLEAN
        /\ closer \in Closers /\ nextSub \in 1..(MaxSubscriptions + 1)
    BY <2>2, Zenon DEF Init
  <2>6. /\ handlers \subseteq Handlers
        /\ free \in Int /\ outstanding \in Int /\ slots \in Int
        /\ waiters \in Seq(Events) /\ ingress \in Seq(Events) /\ slotWaiters \in Seq(Keys)
        /\ cancelled \subseteq Keys /\ ops \subseteq Operations
        /\ admitted \subseteq Events /\ released \subseteq Events
    BY <2>2, <2>3 DEF Init
  <2> QED BY <2>4, <2>5, <2>6 DEF TypeOK
<1>2. WaitersWellFormed /\ InsideAdmitted
  <2>1. NoWorker.ev = NoEvent
    BY DEF NoWorker, Suspended
  <2>2. NoDuplicates(<<>>) /\ Range(<<>>) = {}
    BY DEF NoDuplicates, Range
  <2> HIDE DEF NoWorker
  <2> QED BY <2>1, <2>2 DEF Init, WaitersWellFormed, InsideAdmitted
<1>3. WorkersWellFormed
  <2>1. NoWorker.ev = NoEvent /\ NoWorker.pc = "none"
    BY DEF NoWorker, Suspended
  <2>2. NoDuplicates(<<>>) /\ Range(<<>>) = {}
    BY DEF NoDuplicates, Range
  <2> HIDE DEF NoWorker
  <2> QED BY <2>1, <2>2 DEF Init, WorkersWellFormed, HoldsSlot
<1>4. Accounting
  <2>1. IsFiniteSet({}) /\ Cardinality({}) = 0
    BY FS_EmptySet
  <2> QED BY <2>1, BoundsAssumption DEF Init, Accounting, AdmissionAccounting
<1> QED BY <1>1, <1>2, <1>3, <1>4 DEF BusInv

\* The inductive invariant: types, who waits, what is inside and where each worker is
\* suspended, together with the accounting.
THEOREM Invariance == Spec => [](BusInv /\ Accounting)
<1>1. Init => BusInv /\ Accounting
  BY InitIsGood
<1>2. BusInv /\ Accounting /\ [Next]_vars => (BusInv /\ Accounting)'
  <2>1. ASSUME BusInv, Accounting, Next
        PROVE  (BusInv /\ Accounting)'
    BY <2>1, NextIsGood, AdmissionStepKeepsAccounting DEF GoodStep, Accounting
  <2>2. ASSUME BusInv, Accounting, UNCHANGED vars
        PROVE  (BusInv /\ Accounting)'
    BY <2>2 DEF vars, BusInv, TypeOK, WaitersWellFormed, InsideAdmitted, WorkersWellFormed,
                HoldsSlot, Accounting, AdmissionAccounting
  <2> QED BY <2>1, <2>2
<1> QED BY <1>1, <1>2, PTL DEF Spec

\* Every variable of the bus keeps its type, for any events, keys and capacities.
THEOREM TypeCorrect == Spec => []TypeOK
<1>1. BusInv => TypeOK
  BY DEF BusInv
<1> QED BY <1>1, Invariance, PTL

\* _finish_queued, _close_queued and _force_close together give back every admission
\* exactly once, for any interleaving of workers, timeouts, cancellations and shutdown.
THEOREM AdmissionsBalance == Spec => []AdmissionAccounting
<1>1. Accounting => AdmissionAccounting
  BY DEF Accounting
<1> QED BY <1>1, Invariance, PTL

\* A publisher's answer is never changed: late workers do not overwrite the verdict of a
\* forced close, and a forced close does not overwrite a result.
THEOREM AnswersFinal == Spec => AnswersAreFinal
<1>1. BusInv /\ Accounting /\ [Next]_vars
      => [\A e \in Events : status[e] \in Final => status'[e] = status[e]]_vars
  BY NextIsGood DEF GoodStep, AnswersStay, Accounting
<1> QED BY <1>1, Invariance, PTL DEF Spec, AnswersAreFinal

\* No event is admitted once aclose began, whoever was waiting for capacity.
THEOREM AdmissionEndsAtClose == Spec => NoAdmissionAfterClose
<1>1. BusInv /\ Accounting /\ [Next]_vars => [~accepting => admitted' = admitted]_vars
  BY NextIsGood DEF GoodStep, AdmissionStep, Accounting
<1> QED BY <1>1, Invariance, PTL DEF Spec, NoAdmissionAfterClose

-----------------------------------------------------------------------------
(* The workers inside `async with self._concurrency`. *)

Inside(w) == w.pc \in {"op", "grace", "cancelGrace"}

Holding == {k \in Keys : HoldsSlot(k)}

\* What a step may do: nothing to the slots, one worker takes one, one worker returns its own.
SlotStep ==
  \/ Holding' = Holding /\ slots' = slots
  \/ \E k \in Keys \ Holding : slots > 0 /\ Holding' = Holding \cup {k} /\ slots' = slots - 1
  \/ \E k \in Holding : Holding' = Holding \ {k} /\ slots' = slots + 1

SlotInv ==
  /\ IsFiniteSet(Holding)
  /\ slots \in Nat
  /\ slots + Cardinality(Holding) = MaxConcurrent

LEMMA SlotStepKeepsSlots ==
  ASSUME SlotInv, SlotStep
  PROVE  SlotInv'
<1> DEFINE n == Cardinality(Holding)
<1>1. n \in Nat /\ IsFiniteSet(Holding) /\ slots \in Nat /\ slots + n = MaxConcurrent
  BY FS_CardinalityType DEF SlotInv
<1>2. CASE Holding' = Holding /\ slots' = slots
  BY <1>2 DEF SlotInv
<1>3. ASSUME NEW k \in Keys \ Holding,
             slots > 0, Holding' = Holding \cup {k}, slots' = slots - 1
      PROVE  SlotInv'
  <2>1. IsFiniteSet(Holding') /\ Cardinality(Holding') = n + 1
    BY <1>1, <1>3, FS_AddElement
  <2> HIDE DEF n
  <2> QED BY <1>1, <1>3, <2>1 DEF SlotInv
<1>4. ASSUME NEW k \in Holding, Holding' = Holding \ {k}, slots' = slots + 1
      PROVE  SlotInv'
  <2>1. IsFiniteSet(Holding') /\ Cardinality(Holding') = n - 1
    BY <1>1, <1>4, FS_RemoveElement
  <2> HIDE DEF n
  <2> QED BY <1>1, <1>4, <2>1 DEF SlotInv
<1> QED BY <1>2, <1>3, <1>4 DEF SlotStep

-----------------------------------------------------------------------------
(* What the shared steps of a worker do to the slots. *)

\* Worker k becomes w2; it had the use of a slot and either still has or has returned it.
KeepsOrReturns(k, w2, heldSlots) ==
  /\ worker' = [worker EXCEPT ![k] = w2]
  /\ \/ Inside(w2) /\ slots' = heldSlots
     \/ ~Inside(w2) /\ slots' = heldSlots + 1

LEMMA HoldingAfter ==
  ASSUME TypeOK, NEW k \in Keys, NEW w2, worker' = [worker EXCEPT ![k] = w2]
  PROVE  Holding' = IF Inside(w2) THEN Holding \cup {k} ELSE Holding \ {k}
BY DEF TypeOK, Holding, HoldsSlot, Inside

LEMMA ContinueSlots ==
  ASSUME NEW k \in Keys, NEW w \in Workers, NEW live, NEW held, Continue(k, w, live, held)
  PROVE  \E w2 : KeepsOrReturns(k, w2, held)
<1>1. ASSUME NEW acts, Await(k, [w EXCEPT !.pc = "op", !.acts = acts - 1,
                                          !.op.action = acts], live, held)
      PROVE  \E w2 : KeepsOrReturns(k, w2, held)
  <2> DEFINE w2 == [w EXCEPT !.pc = "op", !.acts = acts - 1, !.op.action = acts]
  <2>1. Inside(w2)
    BY DEF Inside, Workers
  <2>2. worker' = [worker EXCEPT ![k] = w2] /\ slots' = held
    BY <1>1 DEF Await
  <2> HIDE DEF w2
  <2> QED BY <2>1, <2>2 DEF KeepsOrReturns
<1>2. ASSUME NEW h, Await(k, [w EXCEPT !.pc = "op", !.acts = 0, !.todo = @ \ {h},
                                !.op = [ev |-> w.ev, handler |-> h.id, action |-> 0]],
                          live, held)
      PROVE  \E w2 : KeepsOrReturns(k, w2, held)
  <2> DEFINE w2 == [w EXCEPT !.pc = "op", !.acts = 0, !.todo = @ \ {h},
                             !.op = [ev |-> w.ev, handler |-> h.id, action |-> 0]]
  <2>1. Inside(w2)
    BY DEF Inside, Workers
  <2>2. worker' = [worker EXCEPT ![k] = w2] /\ slots' = held
    BY <1>2 DEF Await
  <2> HIDE DEF w2
  <2> QED BY <2>1, <2>2 DEF KeepsOrReturns
<1>3. CASE /\ worker' = [worker EXCEPT ![k] = Suspended("settle", w.ev, w.barriers)]
           /\ slots' = held + 1
  <2> DEFINE w2 == Suspended("settle", w.ev, w.barriers)
  <2>1. ~Inside(w2)
    BY DEF Inside, Suspended
  <2> HIDE DEF w2
  <2>2. KeepsOrReturns(k, w2, held)
    BY <1>3, <2>1 DEF KeepsOrReturns, w2
  <2> QED BY <2>2
<1> QED BY <1>1, <1>2, <1>3 DEF Continue

LEMMA BeginDispatchSlots ==
  ASSUME TypeOK, NEW k \in Keys, NEW e \in Events, NEW held, BeginDispatch(k, e, held)
  PROVE  \E w2 : KeepsOrReturns(k, w2, held)
<1>1. CASE forced
  <2> DEFINE w2 == Suspended("settle", e, {})
  <2>1. ~Inside(w2)
    BY DEF Inside, Suspended
  <2> HIDE DEF w2
  <2>2. KeepsOrReturns(k, w2, held)
    BY <1>1, <2>1 DEF BeginDispatch, KeepsOrReturns, w2
  <2> QED BY <2>2
<1>2. CASE ~forced
  <2> DEFINE w == [Suspended("op", e, {}) EXCEPT !.todo = handlers]
  <2>1. w \in Workers
    <3>1. "op" \in PCs /\ {} \in SUBSET Operations
      BY DEF PCs
    <3>2. Suspended("op", e, {}) \in Workers
      BY <3>1, SuspendedType
    <3>3. handlers \in SUBSET Handlers
      BY DEF TypeOK
    <3> HIDE DEF Suspended
    <3> QED BY <3>2, <3>3 DEF Workers
  <2>2. Continue(k, w, ops, held)
    BY <1>2 DEF BeginDispatch
  <2> HIDE DEF w
  <2> QED BY <2>1, <2>2, ContinueSlots
<1> QED BY <1>1, <1>2

\* A worker outside the semaphore begins to dispatch, with the slot it was just given.
LEMMA DispatchSlotStep ==
  ASSUME TypeOK, NEW k \in Keys \ Holding, NEW e \in Events, slots > 0,
         BeginDispatch(k, e, slots - 1)
  PROVE  SlotStep
<1>1. PICK w2 : KeepsOrReturns(k, w2, slots - 1)
  BY BeginDispatchSlots
<1>2. Holding' = IF Inside(w2) THEN Holding \cup {k} ELSE Holding \ {k}
  BY <1>1, HoldingAfter DEF KeepsOrReturns
<1>3. slots \in Int /\ (~Inside(w2) => Holding' = Holding)
  BY <1>2 DEF TypeOK
<1> QED BY <1>1, <1>2, <1>3 DEF KeepsOrReturns, SlotStep

LEMMA TakeNextSlotStep ==
  ASSUME TypeOK, NEW k \in Keys \ Holding, keyQueue[k] # <<>>, TakeNext(k)
  PROVE  SlotStep
<1> DEFINE e == Head(keyQueue[k])
<1>1. e \in Events
  BY HeadTailProperties DEF TypeOK
<1>2. CASE slots > 0 /\ BeginDispatch(k, e, slots - 1)
  BY <1>1, <1>2, DispatchSlotStep
<1>3. CASE worker' = [worker EXCEPT ![k] = Suspended("acquire", e, {})] /\ slots' = slots
  <2>1. ~Inside(Suspended("acquire", e, {}))
    BY DEF Inside, Suspended
  <2>2. Holding' = Holding
    BY <1>3, <2>1, HoldingAfter
  <2> QED BY <1>3, <2>2 DEF SlotStep
<1> QED BY <1>2, <1>3 DEF TakeNext

\* A worker goes on with a dispatch it holds a slot for.
LEMMA GoOnSlotStep ==
  ASSUME TypeOK, NEW k \in Holding, NEW w \in Workers, NEW live, GoOn(k, w, live)
  PROVE  SlotStep
<1>1. PICK w2 : KeepsOrReturns(k, w2, slots)
  BY ContinueSlots DEF GoOn, Holding
<1>2. Holding' = IF Inside(w2) THEN Holding \cup {k} ELSE Holding \ {k}
  BY <1>1, HoldingAfter DEF KeepsOrReturns, Holding
<1> QED BY <1>1, <1>2 DEF KeepsOrReturns, SlotStep

LEMMA ExitSlotStep ==
  ASSUME TypeOK, NEW k \in Keys, NEW live, Exit(k, live)
  PROVE  SlotStep
<1>1. ~Inside(NoWorker)
  BY DEF Inside, NoWorker, Suspended
<1>2. worker' = [worker EXCEPT ![k] = NoWorker] /\ slots' = SlotsAfterExit(k)
  BY DEF Exit
<1>3. Holding' = Holding \ {k}
  BY <1>1, <1>2, HoldingAfter
<1>4. HoldsSlot(k) <=> k \in Holding
  BY DEF Holding
<1> QED BY <1>2, <1>3, <1>4 DEF SlotStep, SlotsAfterExit

\* A worker changes its place without entering or leaving the semaphore.
LEMMA SamePlaceSlotStep ==
  ASSUME TypeOK, NEW k \in Keys, NEW w2, worker' = [worker EXCEPT ![k] = w2],
         Inside(w2) <=> k \in Holding, slots' = slots
  PROVE  SlotStep
<1>1. Holding' = Holding
  BY HoldingAfter
<1> QED BY <1>1 DEF SlotStep

-----------------------------------------------------------------------------
(* The actions. *)

LEMMA UntouchedSlotStep ==
  ASSUME UNCHANGED <<worker, slots>>
  PROVE  SlotStep
BY DEF SlotStep, Holding, HoldsSlot

LEMMA DispatcherTurnSlotStep ==
  ASSUME BusInv, DispatcherTurn
  PROVE  SlotStep
<1> DEFINE k == KeyOf[Head(ingress)]
<1>1. k \in Keys /\ slots' = slots
  BY KeysAssumption, HeadTailProperties DEF BusInv, TypeOK, DispatcherTurn, slotVars
<1>2. CASE worker' = worker
  BY <1>1, <1>2, UntouchedSlotStep
<1>3. CASE worker[k].pc = "none" /\ worker' = [worker EXCEPT ![k].pc = "created"]
  <2> DEFINE w2 == [worker[k] EXCEPT !.pc = "created"]
  <2>1. worker' = [worker EXCEPT ![k] = w2]
    BY <1>3
  <2>2. ~Inside(w2) /\ k \notin Holding
    BY <1>1, <1>3 DEF BusInv, TypeOK, Workers, Inside, Holding, HoldsSlot
  <2> HIDE DEF w2, k
  <2> QED BY <1>1, <2>1, <2>2, SamePlaceSlotStep DEF BusInv
<1> QED BY <1>2, <1>3 DEF DispatcherTurn

LEMMA WorkerSlotStep ==
  ASSUME BusInv, NEW k \in Keys, WorkerStep(k)
  PROVE  SlotStep
<1>0. /\ TypeOK /\ worker[k] \in Workers
      /\ k \in Holding <=> worker[k].pc \in {"op", "grace", "cancelGrace"}
  BY DEF BusInv, TypeOK, Holding, HoldsSlot
<1>1. CASE WorkerStart(k)
  <2>1. keyQueue[k] # <<>> /\ k \notin Holding /\ TakeNext(k)
    BY <1>0, <1>1 DEF WorkerStart, BusInv, WorkersWellFormed
  <2> QED BY <1>0, <2>1, TakeNextSlotStep
<1>2. CASE SlotGranted(k)
  <2>1. /\ k \notin Holding /\ slots > 0 /\ worker[k].ev \in Events
        /\ BeginDispatch(k, worker[k].ev, slots - 1)
    BY <1>0, <1>2 DEF SlotGranted, BusInv, WorkersWellFormed, Workers
  <2> QED BY <1>0, <2>1, DispatchSlotStep
<1>3. CASE Settle(k)
  <2>1. k \notin Holding
    BY <1>0, <1>3 DEF Settle
  <2>2. CASE MoreQueued(k) /\ TakeNext(k)
    BY <1>0, <2>1, <2>2, TakeNextSlotStep DEF MoreQueued
  <2>3. CASE worker' = [worker EXCEPT ![k] = NoWorker] /\ slots' = slots
    <3>1. ~Inside(NoWorker)
      BY DEF Inside, NoWorker, Suspended
    <3> QED BY <1>0, <2>1, <2>3, <3>1, SamePlaceSlotStep
  <2> QED BY <1>3, <2>2, <2>3 DEF Settle, slotVars
<1>4. CASE OperationTimeout(k)
  <2> DEFINE w2 == [worker[k] EXCEPT !.pc = "grace"]
  <2>1. worker' = [worker EXCEPT ![k] = w2] /\ slots' = slots
    BY <1>4 DEF OperationTimeout, slotVars
  <2>2. Inside(w2) /\ k \in Holding
    BY <1>0, <1>4 DEF OperationTimeout, Inside, Workers
  <2> HIDE DEF w2
  <2> QED BY <1>0, <2>1, <2>2, SamePlaceSlotStep
<1>5. CASE GraceExpires(k)
  <2> DEFINE w == [worker[k] EXCEPT !.barriers = @ \cup {worker[k].op}]
  <2>1. k \in Holding /\ worker[k].op \in Operations
    BY <1>0, <1>5 DEF GraceExpires, BusInv, WorkersWellFormed, HoldsSlot
  <2>2. w \in Workers
    BY <1>0, <2>1 DEF Workers
  <2>3. GoOn(k, w, ops)
    BY <1>5 DEF GraceExpires
  <2> HIDE DEF w
  <2> QED BY <1>0, <2>1, <2>2, <2>3, GoOnSlotStep
<1>6. CASE DeliverCancel(k)
  <2>1. CASE Exit(k, ops)
    BY <1>0, <2>1, ExitSlotStep
  <2>2. CASE /\ worker[k].pc = "created" /\ slots' = slots
             /\ worker' = [worker EXCEPT ![k].pc = "dead"]
    <3> DEFINE w2 == [worker[k] EXCEPT !.pc = "dead"]
    <3>1. worker' = [worker EXCEPT ![k] = w2]
      BY <2>2
    <3>2. ~Inside(w2) /\ k \notin Holding
      BY <1>0, <2>2 DEF Inside, Workers
    <3> HIDE DEF w2
    <3> QED BY <1>0, <2>2, <3>1, <3>2, SamePlaceSlotStep
  <2>3. CASE /\ worker[k].pc \in {"op", "grace"} /\ slots' = slots
             /\ worker' = [worker EXCEPT ![k].pc = "cancelGrace"]
    <3> DEFINE w2 == [worker[k] EXCEPT !.pc = "cancelGrace"]
    <3>1. worker' = [worker EXCEPT ![k] = w2]
      BY <2>3
    <3>2. Inside(w2) /\ k \in Holding
      BY <1>0, <2>3 DEF Inside, Workers
    <3> HIDE DEF w2
    <3> QED BY <1>0, <2>3, <3>1, <3>2, SamePlaceSlotStep
  <2> QED BY <1>6, <2>1, <2>2, <2>3 DEF DeliverCancel, slotVars
<1>7. CASE CancelUnwinds(k)
  BY <1>0, <1>7, ExitSlotStep DEF CancelUnwinds
<1> QED BY <1>1, <1>2, <1>3, <1>4, <1>5, <1>6, <1>7 DEF WorkerStep

LEMMA CallbackSlotStep ==
  ASSUME BusInv, NEW k \in Keys, CallbackStep(k)
  PROVE  SlotStep
<1>0. /\ TypeOK /\ worker[k] \in Workers
      /\ k \in Holding <=> worker[k].pc \in {"op", "grace", "cancelGrace"}
  BY DEF BusInv, TypeOK, Holding, HoldsSlot
<1>1. ASSUME NEW acts \in 0..MaxActions, NEW stop \in BOOLEAN, HandlerReturns(k, acts, stop)
      PROVE  SlotStep
  <2> DEFINE w == [worker[k] EXCEPT !.acts = acts, !.stop = stop]
  <2>1. w \in Workers /\ k \in Holding
    BY <1>0, <1>1 DEF Workers, HandlerReturns, Awaits
  <2>2. GoOn(k, w, ops \ {worker[k].op})
    BY <1>1 DEF HandlerReturns
  <2> HIDE DEF w
  <2> QED BY <1>0, <2>1, <2>2, GoOnSlotStep
<1>2. CASE OperationEnds(k)
  <2>1. k \in Holding /\ GoOn(k, worker[k], ops \ {worker[k].op})
    BY <1>0, <1>2 DEF OperationEnds, Awaits
  <2> QED BY <1>0, <2>1, GoOnSlotStep
<1>3. CASE OperationRaises(k)
  BY <1>0, <1>3, ExitSlotStep DEF OperationRaises
<1> QED BY <1>1, <1>2, <1>3 DEF CallbackStep

LEMMA NextSlotStep ==
  ASSUME BusInv, Next
  PROVE  SlotStep
<1>1. CASE \E k \in Keys : WorkerStep(k) \/ CallbackStep(k)
  BY <1>1, WorkerSlotStep, CallbackSlotStep
<1>2. CASE Subscriptions
  BY <1>2, UntouchedSlotStep DEF Subscriptions, Subscribe, Unsubscribe, slotVars
<1>3. CASE Publishers
  BY <1>3, UntouchedSlotStep DEF Publishers, Publish, CapacityGranted, EnqueueTimeout,
                                 PublisherCancelled, LeaveWaiting, slotVars
<1>4. CASE \E o \in ops : StrayOperationEnds(o)
  BY <1>4, UntouchedSlotStep DEF StrayOperationEnds, slotVars
<1>5. CASE CloseBegin \/ CloserStep
  BY <1>5, UntouchedSlotStep DEF CloseBegin, CloserStep, CloseIdle, CloseOpsDrained,
                                 CloseTimeout, ForceDrain, ForceJoin, CloseDone, slotVars
<1> QED BY <1>1, <1>2, <1>3, <1>4, <1>5, DispatcherTurnSlotStep DEF Next

LEMMA InitSlots ==
  ASSUME Init
  PROVE  SlotInv
<1>1. Holding = {}
  BY DEF Init, Holding, HoldsSlot, NoWorker, Suspended
<1> QED BY <1>1, FS_EmptySet, BoundsAssumption DEF Init, SlotInv

-----------------------------------------------------------------------------
\* The concurrency semaphore: whatever ends a dispatch (its handlers, a timeout, a
\* callback that raises, a cancellation at any point, a forced close), its slot goes
\* back exactly once, for any number of keys and slots.
THEOREM SlotsBalance == Spec => []SlotAccounting
<1>1. Init => SlotInv
  BY InitSlots
<1>2. BusInv /\ SlotInv /\ [Next]_vars => SlotInv'
  <2>1. ASSUME UNCHANGED vars PROVE SlotStep
    BY <2>1, UntouchedSlotStep DEF vars
  <2> QED BY <2>1, NextSlotStep, SlotStepKeepsSlots
<1>3. SlotInv => SlotAccounting
  BY DEF SlotInv, SlotAccounting, Holding
<1> QED BY <1>1, <1>2, <1>3, Invariance, PTL DEF Spec


-----------------------------------------------------------------------------
(* The ordering-key barrier: the invariant. *)

\* Worker k answers for every operation that runs for its key: it awaits it or keeps it
\* among its barriers, and it belongs to the event in its hands.
Held(k) ==
  /\ \A o \in ops : KeyOf[o.ev] = k =>
       /\ o.ev = worker[k].ev
       /\ o \in worker[k].barriers \/ (HoldsSlot(k) /\ o = worker[k].op)
  /\ HoldsSlot(k) => worker[k].op.ev = worker[k].ev
  /\ worker[k].pc = "acquire" => worker[k].barriers = {}
  /\ worker[k].pc # "cancelGrace"

\* The events in the queue and in the hands of worker k are of its key, in one place
\* each, and have their admission still.
OnePlace(k) ==
  /\ NoDuplicates(keyQueue[k])
  /\ \A e \in Range(keyQueue[k]) :
       KeyOf[e] = k /\ e \notin Range(ingress) /\ e \notin released /\ e # worker[k].ev
  /\ worker[k].ev # NoEvent =>
       /\ KeyOf[worker[k].ev] = k
       /\ worker[k].ev \notin Range(ingress) /\ worker[k].ev \notin released

IngressFresh == NoDuplicates(ingress) /\ Range(ingress) \cap released = {}

\* Before a forced close.
OpenInv ==
  /\ cancelled = {} /\ closer # "forceOps"
  /\ IngressFresh
  /\ \A k \in Keys : OnePlace(k) /\ Held(k)

\* During and after a forced close no worker goes on from where it awaits an operation.
Frozen(k) ==
  worker[k].pc \in {"op", "grace"} =>
    k \in cancelled /\ \A o \in ops : KeyOf[o.ev] = k => o.ev = worker[k].ev

BarrierInv == IF forced THEN \A k \in Keys : Frozen(k) ELSE OpenInv

LEMMA BarrierInvSuffices ==
  ASSUME TypeOK, BarrierInv
  PROVE  KeyBarrier
<1>1. \A o \in ops : o.ev \in Events /\ KeyOf[o.ev] \in Keys /\ o.ev # NoEvent
  BY EventsAssumption, KeysAssumption DEF TypeOK, Operations
<1>2. CASE forced
  BY <1>2 DEF BarrierInv, Frozen, KeyBarrier
<1>3. CASE ~forced
  BY <1>1, <1>3 DEF BarrierInv, OpenInv, Held, OnePlace, KeyBarrier
<1> QED BY <1>2, <1>3

-----------------------------------------------------------------------------
(* Steps of one worker while the bus is not forced to close. *)

\* What such a step does outside of worker k and its queue.
KeyOnly(k) ==
  /\ \A j \in Keys \ {k} : worker'[j] = worker[j] /\ keyQueue'[j] = keyQueue[j]
  /\ \A o \in ops' : o \in ops \/ KeyOf[o.ev] = k
  /\ \A e \in released' : e \in released \/ (e = worker[k].ev /\ e # NoEvent)
  /\ UNCHANGED <<forced, closer, ingress, cancelled>>

LEMMA KeyOnlyKeepsOpen ==
  ASSUME OpenInv, NEW k \in Keys, KeyOnly(k), OnePlace(k)', Held(k)'
  PROVE  OpenInv'
<1>1. ASSUME NEW j \in Keys, j # k PROVE OnePlace(j)' /\ Held(j)'
  <2>1. OnePlace(j) /\ Held(j) /\ OnePlace(k)
    BY DEF OpenInv
  <2>2. /\ worker'[j] = worker[j] /\ keyQueue'[j] = keyQueue[j] /\ ingress' = ingress
        /\ \A o \in ops' : KeyOf[o.ev] = j => o \in ops
    BY <1>1 DEF KeyOnly
  <2>3. \A e \in released' : KeyOf[e] = j => e \in released
    BY <1>1, <2>1 DEF KeyOnly, OnePlace
  <2>4. Held(j)'
    BY <2>1, <2>2 DEF Held, HoldsSlot
  <2>5. OnePlace(j)'
    BY <2>1, <2>2, <2>3 DEF OnePlace
  <2> QED BY <2>4, <2>5
<1>2. IngressFresh'
  BY DEF KeyOnly, OpenInv, IngressFresh, OnePlace
<1> QED BY <1>1, <1>2 DEF KeyOnly, OpenInv

\* A worker goes on with the event of w: what still runs for its key are the barriers of w.
LEMMA ContinueHolds ==
  ASSUME TypeOK, NEW k \in Keys, NEW w \in Workers, w.ev \in Events, KeyOf[w.ev] = k,
         w.acts > 0 => w.op \in Operations /\ w.op.ev = w.ev,
         NEW live, \A o \in live : KeyOf[o.ev] = k => o \in w.barriers /\ o.ev = w.ev,
         NEW held, Continue(k, w, live, held)
  PROVE  /\ Held(k)' /\ worker'[k].ev = w.ev
         /\ \A j \in Keys \ {k} : worker'[j] = worker[j]
         /\ \A o \in ops' : o \in live \/ KeyOf[o.ev] = k
<1>1. CASE \E acts : /\ acts = ActionsLeft(w, live) /\ acts > 0
                     /\ Await(k, [w EXCEPT !.pc = "op", !.acts = acts - 1, !.op.action = acts],
                              live, held)
  <2>1. PICK acts : /\ acts = ActionsLeft(w, live) /\ acts > 0
                    /\ Await(k, [w EXCEPT !.pc = "op", !.acts = acts - 1, !.op.action = acts],
                             live, held)
    BY <1>1
  <2> DEFINE w2 == [w EXCEPT !.pc = "op", !.acts = acts - 1, !.op.action = acts]
  <2>2. w.op \in Operations /\ w.op.ev = w.ev
    BY <2>1 DEF ActionsLeft
  <2>3. /\ w2.pc = "op" /\ w2.ev = w.ev /\ w2.barriers = w.barriers /\ w2.op.ev = w.ev
    BY <2>2 DEF Workers, Operations
  <2>4. worker' = [worker EXCEPT ![k] = w2] /\ ops' = live \cup {w2.op}
    BY <2>1 DEF Await
  <2> HIDE DEF w2
  <2>5. worker'[k] = w2 /\ \A j \in Keys \ {k} : worker'[j] = worker[j]
    BY <2>4 DEF TypeOK
  <2> QED BY <2>3, <2>4, <2>5 DEF Held, HoldsSlot
<1>2. CASE \E h \in First(w.todo) :
             Await(k, [w EXCEPT !.pc = "op", !.acts = 0, !.todo = @ \ {h},
                                !.op = [ev |-> w.ev, handler |-> h.id, action |-> 0]],
                   live, held)
  <2>1. PICK h : Await(k, [w EXCEPT !.pc = "op", !.acts = 0, !.todo = @ \ {h},
                                    !.op = [ev |-> w.ev, handler |-> h.id, action |-> 0]],
                       live, held)
    BY <1>2
  <2> DEFINE w2 == [w EXCEPT !.pc = "op", !.acts = 0, !.todo = @ \ {h},
                             !.op = [ev |-> w.ev, handler |-> h.id, action |-> 0]]
  <2>3. /\ w2.pc = "op" /\ w2.ev = w.ev /\ w2.barriers = w.barriers /\ w2.op.ev = w.ev
    BY DEF Workers
  <2>4. worker' = [worker EXCEPT ![k] = w2] /\ ops' = live \cup {w2.op}
    BY <2>1 DEF Await
  <2> HIDE DEF w2
  <2>5. worker'[k] = w2 /\ \A j \in Keys \ {k} : worker'[j] = worker[j]
    BY <2>4 DEF TypeOK
  <2> QED BY <2>3, <2>4, <2>5 DEF Held, HoldsSlot
<1>3. CASE /\ worker' = [worker EXCEPT ![k] = Suspended("settle", w.ev, w.barriers)]
           /\ ops' = live
  <2> DEFINE w2 == Suspended("settle", w.ev, w.barriers)
  <2>1. w2.pc = "settle" /\ w2.ev = w.ev /\ w2.barriers = w.barriers
    BY DEF Suspended
  <2> HIDE DEF w2
  <2>2. worker'[k] = w2 /\ \A j \in Keys \ {k} : worker'[j] = worker[j]
    BY <1>3 DEF TypeOK, w2
  <2> QED BY <1>3, <2>1, <2>2 DEF Held, HoldsSlot
<1> QED BY <1>1, <1>2, <1>3 DEF Continue

\* A worker for whose key nothing runs begins to dispatch e.
LEMMA BeginDispatchHolds ==
  ASSUME TypeOK, ~forced, NEW k \in Keys, NEW e \in Events, KeyOf[e] = k,
         \A o \in ops : KeyOf[o.ev] # k,
         NEW held, BeginDispatch(k, e, held)
  PROVE  /\ Held(k)' /\ worker'[k].ev = e
         /\ \A j \in Keys \ {k} : worker'[j] = worker[j]
         /\ \A o \in ops' : o \in ops \/ KeyOf[o.ev] = k
<1> DEFINE w == [Suspended("op", e, {}) EXCEPT !.todo = handlers]
<1>1. w \in Workers /\ w.ev = e /\ w.acts = 0
  <2>1. "op" \in PCs /\ {} \in SUBSET Operations /\ handlers \in SUBSET Handlers
    BY DEF PCs, TypeOK
  <2>2. /\ Suspended("op", e, {}) \in Workers /\ Suspended("op", e, {}).ev = e
        /\ Suspended("op", e, {}).acts = 0
    BY <2>1, SuspendedType
  <2> HIDE DEF Suspended
  <2> QED BY <2>1, <2>2 DEF Workers
<1>2. Continue(k, w, ops, held)
  BY DEF BeginDispatch
<1> HIDE DEF w
<1> QED BY <1>1, <1>2, ContinueHolds

\* The head of a queue without duplicates moves into the hands of the worker.
LEMMA TakingKeepsPlaces ==
  ASSUME BusInv, OpenInv, NEW k \in Keys, keyQueue[k] # <<>>, KeyOnly(k),
         keyQueue'[k] = Tail(keyQueue[k]), worker'[k].ev = Head(keyQueue[k])
  PROVE  OnePlace(k)'
<1> DEFINE q == keyQueue[k]
<1>1. q \in Seq(Events) /\ NoDuplicates(q) /\ OnePlace(k)
  BY DEF BusInv, TypeOK, OpenInv, OnePlace
<1>2. /\ NoDuplicates(Tail(q)) /\ Head(q) \notin Range(Tail(q))
      /\ Head(q) \in Range(q) /\ Range(Tail(q)) \subseteq Range(q)
  BY <1>1, NoDuplicatesProperties, RangeProperties
<1>3. \A e \in Range(q) : e \notin released' /\ e \notin Range(ingress') /\ KeyOf[e] = k
  BY <1>1 DEF KeyOnly, OnePlace
<1> QED BY <1>2, <1>3 DEF OnePlace

\* TakeNext of a worker for whose key nothing runs.
LEMMA TakeNextKeepsOpen ==
  ASSUME BusInv, ~forced, OpenInv, NEW k \in Keys, keyQueue[k] # <<>>, TakeNext(k),
         \A o \in ops : KeyOf[o.ev] # k,
         \A e \in released' : e \in released \/ (e = worker[k].ev /\ e # NoEvent),
         UNCHANGED <<forced, closer, ingress, cancelled>>
  PROVE  OpenInv'
<1> DEFINE e == Head(keyQueue[k])
<1>1. e \in Events /\ KeyOf[e] = k
  <2>1. keyQueue[k] \in Seq(Events)
    BY DEF BusInv, TypeOK
  <2>2. e \in Range(keyQueue[k]) /\ Range(keyQueue[k]) \subseteq Events
    BY <2>1, RangeProperties
  <2> QED BY <2>2 DEF OpenInv, OnePlace
<1>2. /\ Held(k)' /\ worker'[k].ev = e
      /\ \A j \in Keys \ {k} : worker'[j] = worker[j]
      /\ \A o \in ops' : o \in ops \/ KeyOf[o.ev] = k
  <2>1. CASE BeginDispatch(k, e, slots - 1)
    BY <1>1, <2>1, BeginDispatchHolds DEF BusInv
  <2>2. CASE /\ worker' = [worker EXCEPT ![k] = Suspended("acquire", e, {})]
             /\ ops' = ops
    <3> DEFINE w2 == Suspended("acquire", e, {})
    <3>1. w2.pc = "acquire" /\ w2.ev = e /\ w2.barriers = {}
      BY DEF Suspended
    <3> HIDE DEF w2
    <3>2. worker'[k] = w2 /\ \A j \in Keys \ {k} : worker'[j] = worker[j]
      BY <2>2 DEF BusInv, TypeOK, w2
    <3> QED BY <2>2, <3>1, <3>2 DEF Held, HoldsSlot
  <2> QED BY <2>1, <2>2 DEF TakeNext
<1>3. /\ keyQueue'[k] = Tail(keyQueue[k])
      /\ \A j \in Keys \ {k} : keyQueue'[j] = keyQueue[j]
  BY DEF TakeNext, BusInv, TypeOK
<1>4. KeyOnly(k)
  BY <1>2, <1>3 DEF KeyOnly
<1>5. OnePlace(k)'
  BY <1>2, <1>3, <1>4, TakingKeepsPlaces
<1> QED BY <1>2, <1>4, <1>5, KeyOnlyKeepsOpen

\* A worker for whose key nothing runs, or only what it keeps as barriers, and whose
\* event and queue stay as they are.
LEMMA SameEventKeepsOpen ==
  ASSUME OpenInv, NEW k \in Keys, Held(k)', worker'[k].ev = worker[k].ev,
         \A j \in Keys \ {k} : worker'[j] = worker[j],
         \A o \in ops' : o \in ops \/ KeyOf[o.ev] = k,
         UNCHANGED <<forced, closer, ingress, keyQueue, cancelled, released>>
  PROVE  OpenInv'
<1>1. KeyOnly(k)
  BY DEF KeyOnly
<1>2. OnePlace(k)'
  BY DEF OpenInv, OnePlace
<1> QED BY <1>1, <1>2, KeyOnlyKeepsOpen

\* GoOn: what no longer runs for the key, or is a barrier of w from now on, is not live.
LEMMA GoOnKeepsOpen ==
  ASSUME BusInv, OpenInv, NEW k \in Keys, worker[k].pc \in {"op", "grace"},
         NEW w \in Workers, w.ev = worker[k].ev, w.op = worker[k].op,
         NEW live \in SUBSET ops,
         \A o \in live : o \in w.barriers \/ (o \notin worker[k].barriers /\ o # worker[k].op),
         GoOn(k, w, live)
  PROVE  OpenInv'
<1>1. /\ Held(k) /\ OnePlace(k) /\ HoldsSlot(k)
      /\ worker[k].op \in Operations /\ worker[k].ev \in Events /\ worker[k].ev # NoEvent
  BY DEF OpenInv, HoldsSlot, BusInv, TypeOK, WorkersWellFormed, InsideAdmitted
<1>2. /\ KeyOf[w.ev] = k /\ w.op \in Operations /\ w.op.ev = w.ev
      /\ \A o \in live : KeyOf[o.ev] = k => o \in w.barriers /\ o.ev = w.ev
  BY <1>1 DEF Held, OnePlace
<1>3. Continue(k, w, live, slots)
  BY DEF GoOn
<1>4. /\ Held(k)' /\ worker'[k].ev = w.ev
      /\ \A j \in Keys \ {k} : worker'[j] = worker[j]
      /\ \A o \in ops' : o \in live \/ KeyOf[o.ev] = k
  BY <1>1, <1>2, <1>3, ContinueHolds DEF BusInv
<1> QED BY <1>4, SameEventKeepsOpen DEF GoOn, busVars, queueVars

LEMMA OpenWorkerStep ==
  ASSUME BusInv, ~forced, OpenInv, NEW k \in Keys, WorkerStep(k)
  PROVE  OpenInv'
<1>0. /\ TypeOK /\ worker[k] \in Workers /\ Held(k) /\ OnePlace(k)
      /\ \A o \in ops : o.ev \in Events /\ o.ev # NoEvent /\ o \in Operations
  BY EventsAssumption DEF BusInv, TypeOK, OpenInv, Operations
<1>1. CASE WorkerStart(k)
  <2>1. keyQueue[k] # <<>> /\ worker[k].ev = NoEvent /\ TakeNext(k)
    BY <1>1 DEF WorkerStart, BusInv, WorkersWellFormed
  <2>2. \A o \in ops : KeyOf[o.ev] # k
    BY <1>0, <2>1 DEF Held
  <2>3. UNCHANGED <<forced, closer, ingress, cancelled, released>>
    BY <1>1 DEF WorkerStart, busVars
  <2> QED BY <2>1, <2>2, <2>3, TakeNextKeepsOpen
<1>2. CASE SlotGranted(k)
  <2> DEFINE e == worker[k].ev
  <2>1. /\ worker[k].pc = "acquire" /\ e \in Events /\ e # NoEvent
        /\ BeginDispatch(k, e, slots - 1)
    BY <1>0, <1>2 DEF SlotGranted, BusInv, TypeOK, WorkersWellFormed, InsideAdmitted
  <2>2. KeyOf[e] = k /\ \A o \in ops : KeyOf[o.ev] # k
    BY <1>0, <2>1 DEF Held, OnePlace, HoldsSlot
  <2>3. /\ Held(k)' /\ worker'[k].ev = e
        /\ \A j \in Keys \ {k} : worker'[j] = worker[j]
        /\ \A o \in ops' : o \in ops \/ KeyOf[o.ev] = k
    BY <1>0, <2>1, <2>2, BeginDispatchHolds
  <2> QED BY <1>2, <2>3, SameEventKeepsOpen DEF SlotGranted, busVars, queueVars
<1>3. CASE Settle(k)
  <2>1. worker[k].pc = "settle" /\ worker[k].ev # NoEvent
    BY <1>3 DEF Settle, BusInv, WorkersWellFormed
  <2>2. \A o \in ops : KeyOf[o.ev] # k
    BY <1>0, <1>3, <2>1 DEF Settle, BarriersGone, Held, HoldsSlot
  <2>3. \A e \in released' : e \in released \/ (e = worker[k].ev /\ e # NoEvent)
    BY <1>3, <2>1 DEF Settle, Release
  <2>4. UNCHANGED <<forced, closer, ingress, cancelled>>
    BY <1>3 DEF Settle, busVars
  <2>5. CASE MoreQueued(k)
    BY <1>3, <2>2, <2>3, <2>4, <2>5, TakeNextKeepsOpen DEF Settle, MoreQueued
  <2>6. CASE ~MoreQueued(k)
    <3>1. worker' = [worker EXCEPT ![k] = NoWorker] /\ UNCHANGED <<keyQueue, ops>>
      BY <1>3, <2>6 DEF Settle
    <3>2. NoWorker.pc = "none" /\ NoWorker.ev = NoEvent
      BY DEF NoWorker, Suspended
    <3> HIDE DEF NoWorker
    <3>3. worker'[k] = NoWorker /\ \A j \in Keys \ {k} : worker'[j] = worker[j]
      BY <1>0, <3>1 DEF TypeOK
    <3>4. KeyOnly(k)
      BY <2>3, <2>4, <3>1, <3>3 DEF KeyOnly
    <3>5. keyQueue'[k] = <<>> /\ Range(<<>>) = {} /\ NoDuplicates(<<>>)
      BY <2>6, <3>1 DEF MoreQueued, Range, NoDuplicates
    <3>6. OnePlace(k)'
      BY <3>2, <3>3, <3>5 DEF OnePlace
    <3>7. Held(k)'
      BY <2>2, <3>1, <3>2, <3>3 DEF Held, HoldsSlot
    <3> QED BY <3>4, <3>6, <3>7, KeyOnlyKeepsOpen
  <2> QED BY <2>5, <2>6
<1>4. CASE OperationTimeout(k)
  <2> DEFINE w2 == [worker[k] EXCEPT !.pc = "grace"]
  <2>1. /\ worker[k].pc = "op" /\ w2.pc = "grace" /\ w2.ev = worker[k].ev
        /\ w2.op = worker[k].op /\ w2.barriers = worker[k].barriers
    BY <1>0, <1>4 DEF OperationTimeout, Workers
  <2>2. /\ worker' = [worker EXCEPT ![k] = w2] /\ UNCHANGED ops
        /\ UNCHANGED <<forced, closer, ingress, keyQueue, cancelled, released>>
    BY <1>4 DEF OperationTimeout, busVars, queueVars, admissionVars
  <2> HIDE DEF w2
  <2>3. worker'[k] = w2 /\ \A j \in Keys \ {k} : worker'[j] = worker[j]
    BY <1>0, <2>2 DEF TypeOK
  <2>4. Held(k)'
    BY <1>0, <2>1, <2>2, <2>3 DEF Held, HoldsSlot
  <2> QED BY <2>1, <2>2, <2>3, <2>4, SameEventKeepsOpen
<1>5. CASE GraceExpires(k)
  <2> DEFINE w == [worker[k] EXCEPT !.barriers = @ \cup {worker[k].op}]
  <2>1. worker[k].op \in Operations /\ worker[k].pc = "grace" /\ GoOn(k, w, ops)
    BY <1>0, <1>5 DEF GraceExpires, BusInv, WorkersWellFormed, HoldsSlot
  <2>2. /\ w \in Workers /\ w.ev = worker[k].ev /\ w.op = worker[k].op
        /\ w.barriers = worker[k].barriers \cup {worker[k].op}
    BY <1>0, <2>1 DEF Workers
  <2> HIDE DEF w
  <2> QED BY <2>1, <2>2, GoOnKeepsOpen
<1>6. CASE DeliverCancel(k)
  BY <1>6 DEF DeliverCancel, OpenInv
<1>7. CASE CancelUnwinds(k)
  BY <1>0, <1>7 DEF CancelUnwinds, Held
<1> QED BY <1>1, <1>2, <1>3, <1>4, <1>5, <1>6, <1>7 DEF WorkerStep

LEMMA OpenCallbackStep ==
  ASSUME MayRaise = FALSE, BusInv, OpenInv, NEW k \in Keys, CallbackStep(k)
  PROVE  OpenInv'
<1>0. worker[k] \in Workers
  BY DEF BusInv, TypeOK
<1>1. ASSUME NEW acts \in 0..MaxActions, NEW stop \in BOOLEAN, HandlerReturns(k, acts, stop)
      PROVE  OpenInv'
  <2> DEFINE w == [worker[k] EXCEPT !.acts = acts, !.stop = stop]
  <2>1. /\ w \in Workers /\ w.ev = worker[k].ev /\ w.op = worker[k].op
        /\ w.barriers = worker[k].barriers
    BY <1>0 DEF Workers
  <2>2. worker[k].pc \in {"op", "grace"} /\ GoOn(k, w, ops \ {worker[k].op})
    BY <1>1 DEF HandlerReturns, Awaits
  <2> HIDE DEF w
  <2> QED BY <2>1, <2>2, GoOnKeepsOpen
<1>2. CASE OperationEnds(k)
  <2>1. worker[k].pc \in {"op", "grace"} /\ GoOn(k, worker[k], ops \ {worker[k].op})
    BY <1>2 DEF OperationEnds, Awaits
  <2> QED BY <1>0, <2>1, GoOnKeepsOpen
<1> QED BY <1>1, <1>2 DEF CallbackStep, OperationRaises

-----------------------------------------------------------------------------
(* The other steps while the bus is not forced to close. *)

\* An event is admitted: it was nowhere inside the bus before.
LEMMA AdmitKeepsOpen ==
  ASSUME BusInv, Accounting, OpenInv, NEW e \in Events \ admitted, Admit(e),
         UNCHANGED <<forced, closer, keyQueue, worker, cancelled, ops>>
  PROVE  OpenInv'
<1>1. ingress \in Seq(Events) /\ NoDuplicates(ingress)
  BY DEF BusInv, TypeOK, OpenInv, IngressFresh
<1>2. /\ e \notin Range(ingress) /\ e \notin released
      /\ \A k \in Keys : e \notin Range(keyQueue[k]) /\ e # worker[k].ev
  BY EventsAssumption DEF BusInv, InsideAdmitted, Accounting, AdmissionAccounting
<1>3. ingress' = Append(ingress, e) /\ UNCHANGED released
  BY DEF Admit, Put
<1>4. NoDuplicates(ingress') /\ Range(ingress') = Range(ingress) \cup {e}
  BY <1>1, <1>2, <1>3, NoDuplicatesProperties, RangeProperties
<1>5. IngressFresh'
  BY <1>2, <1>3, <1>4 DEF OpenInv, IngressFresh
<1>6. ASSUME NEW k \in Keys PROVE OnePlace(k)' /\ Held(k)'
  <2>1. OnePlace(k) /\ Held(k)
    BY DEF OpenInv
  <2>2. OnePlace(k)'
    BY <1>2, <1>3, <1>4, <2>1 DEF OnePlace
  <2> QED BY <2>1, <2>2 DEF Held, HoldsSlot
<1> QED BY <1>5, <1>6 DEF OpenInv

LEMMA SameKeepsOpen ==
  ASSUME OpenInv, ops' \subseteq ops, closer' # "forceOps",
         UNCHANGED <<ingress, keyQueue, worker, cancelled, released>>
  PROVE  OpenInv'
<1>1. ASSUME NEW k \in Keys PROVE OnePlace(k)' /\ Held(k)'
  <2>1. OnePlace(k) /\ Held(k)
    BY DEF OpenInv
  <2> QED BY <2>1 DEF OnePlace, Held, HoldsSlot
<1> QED BY <1>1 DEF OpenInv, IngressFresh

LEMMA OpenPublishers ==
  ASSUME BusInv, Accounting, OpenInv, Publishers
  PROVE  OpenInv'
<1>1. \A e \in Events : status[e] \in {"new", "waiting"} => e \in Events \ admitted
  BY DEF BusInv, WaitersWellFormed
<1>2. closer # "forceOps"
  BY DEF OpenInv
<1>3. ASSUME NEW e \in Events, Publish(e) PROVE OpenInv'
  <2>1. CASE Admit(e)
    BY <1>1, <1>3, <2>1, AdmitKeepsOpen DEF Publish
  <2>2. CASE UNCHANGED <<ingress, released>>
    BY <1>2, <1>3, <2>2, SameKeepsOpen DEF Publish
  <2> QED BY <1>3, <2>1, <2>2 DEF Publish
<1>4. CASE CapacityGranted
  <2> DEFINE e == Head(waiters)
  <2>1. waiters \in Seq(Events) /\ waiters # <<>>
    BY <1>4 DEF CapacityGranted, BusInv, TypeOK
  <2>2. e \in Range(waiters)
    BY <2>1, RangeProperties
  <2>3. e \in Events /\ status[e] = "waiting"
    BY <2>1, <2>2, HeadTailProperties DEF BusInv, WaitersWellFormed
  <2>4. CASE Admit(e)
    BY <1>1, <1>4, <2>3, <2>4, AdmitKeepsOpen DEF CapacityGranted, busVars
  <2>5. CASE UNCHANGED <<ingress, released>>
    BY <1>2, <1>4, <2>5, SameKeepsOpen DEF CapacityGranted, busVars
  <2> QED BY <1>4, <2>4, <2>5 DEF CapacityGranted
<1>5. ASSUME NEW e \in Events, NEW verdict, LeaveWaiting(e, verdict) PROVE OpenInv'
  BY <1>2, <1>5, SameKeepsOpen DEF LeaveWaiting, busVars, queueVars
<1> QED BY <1>3, <1>4, <1>5 DEF Publishers, EnqueueTimeout, PublisherCancelled

\* An event moves from the ingress queue to the queue of its key.
LEMMA OpenDispatcherTurn ==
  ASSUME BusInv, OpenInv, DispatcherTurn
  PROVE  OpenInv'
<1>1. ingress \in Seq(Events) /\ ingress # <<>> /\ NoDuplicates(ingress)
  BY DEF DispatcherTurn, BusInv, TypeOK, OpenInv, IngressFresh
<1>2. PICK e \in Events, k \in Keys : e = Head(ingress) /\ k = KeyOf[e]
  BY <1>1, HeadTailProperties, KeysAssumption
<1>3. /\ e # NoEvent /\ ingress' = Tail(ingress)
      /\ Range(ingress) = {e} \cup Range(ingress')
      /\ e \notin Range(ingress') /\ NoDuplicates(ingress')
  <2>1. ingress' = Tail(ingress)
    BY DEF DispatcherTurn
  <2> QED BY <1>1, <1>2, <2>1, HeadAndTail, NoDuplicatesProperties, EventsAssumption
<1>4. /\ UNCHANGED <<forced, closer, cancelled, released, ops>>
      /\ keyQueue' = [keyQueue EXCEPT ![k] = Append(@, e)]
      /\ \/ worker' = worker
         \/ worker[k].pc = "none" /\ worker' = [worker EXCEPT ![k].pc = "created"]
  BY <1>2 DEF DispatcherTurn, Put, busVars, admissionVars
<1>5. e \notin released /\ IngressFresh'
  BY <1>3, <1>4 DEF OpenInv, IngressFresh
<1>6. /\ \A j \in Keys : OnePlace(j) /\ Held(j)
      /\ worker \in [Keys -> Workers] /\ keyQueue \in [Keys -> Seq(Events)]
  BY DEF OpenInv, BusInv, TypeOK
<1>7. e \notin Range(keyQueue[k]) /\ e # worker[k].ev
  BY <1>3, <1>6 DEF OnePlace
<1>8. /\ worker'[k].ev = worker[k].ev /\ worker'[k].barriers = worker[k].barriers
      /\ worker'[k].op = worker[k].op
      /\ worker'[k].pc = worker[k].pc \/ (worker[k].pc = "none" /\ worker'[k].pc = "created")
      /\ \A j \in Keys \ {k} : worker'[j] = worker[j]
  BY <1>4, <1>6 DEF Workers
<1>9. /\ keyQueue'[k] = Append(keyQueue[k], e)
      /\ \A j \in Keys \ {k} : keyQueue'[j] = keyQueue[j]
  BY <1>4, <1>6
<1>10. NoDuplicates(keyQueue'[k]) /\ Range(keyQueue'[k]) = Range(keyQueue[k]) \cup {e}
  BY <1>6, <1>7, <1>9, NoDuplicatesProperties, RangeProperties DEF OnePlace
<1>11. OnePlace(k)'
  BY <1>2, <1>3, <1>4, <1>5, <1>6, <1>7, <1>8, <1>10 DEF OnePlace
<1>12. Held(k)'
  BY <1>4, <1>6, <1>8 DEF Held, HoldsSlot
<1>13. ASSUME NEW j \in Keys, j # k PROVE OnePlace(j)' /\ Held(j)'
  <2>1. OnePlace(j)'
    BY <1>3, <1>4, <1>6, <1>8, <1>9, <1>13 DEF OnePlace
  <2> QED BY <1>4, <1>6, <1>8, <1>13, <2>1 DEF Held, HoldsSlot
<1> QED BY <1>4, <1>5, <1>11, <1>12, <1>13 DEF OpenInv

-----------------------------------------------------------------------------
(* A forced close, and what comes after it. *)

\* The close takes its turn to force: every worker alive is marked before it goes on.
LEMMA ForcingFreezes ==
  ASSUME OpenInv, CloseTimeout, NEW k \in Keys
  PROVE  Frozen(k)'
<1>1. UNCHANGED <<worker, ops>> /\ cancelled' = {j \in Keys : Alive(j)}
  BY DEF CloseTimeout, Drain
<1>2. worker[k].pc \in {"op", "grace"} => k \in cancelled'
  BY <1>1 DEF Alive
<1>3. worker[k].pc \in {"op", "grace"}
      => \A o \in ops : KeyOf[o.ev] = k => o.ev = worker[k].ev
  BY DEF OpenInv, Held
<1> QED BY <1>1, <1>2, <1>3 DEF Frozen

\* Nobody enters an operation any more.
NoneEnters ==
  /\ ops' \subseteq ops
  /\ \A k \in Keys : worker'[k].pc \in {"op", "grace"} =>
       worker'[k] = worker[k] /\ (k \in cancelled => k \in cancelled')

LEMMA NoneEntersKeepsFrozen ==
  ASSUME NoneEnters, \A k \in Keys : Frozen(k)
  PROVE  \A k \in Keys : Frozen(k)'
BY DEF NoneEnters, Frozen

\* Worker k leaves for a place where it awaits no operation.
LEMMA LeavingIsNoEntry ==
  ASSUME TypeOK, NEW k \in Keys, NEW w2, w2.pc \notin {"op", "grace"},
         worker' = [worker EXCEPT ![k] = w2], ops' \subseteq ops,
         cancelled \subseteq cancelled' \cup {k}
  PROVE  NoneEnters
BY DEF TypeOK, NoneEnters

LEMMA SameWorkersNoEntry ==
  ASSUME UNCHANGED worker, ops' \subseteq ops,
         cancelled \subseteq cancelled' \/ cancelled' = {k \in Keys : Alive(k)}
  PROVE  NoneEnters
BY DEF NoneEnters, Alive

LEMMA ForcedDispatchNoEntry ==
  ASSUME TypeOK, forced, NEW k \in Keys, NEW e, NEW held, BeginDispatch(k, e, held),
         UNCHANGED cancelled
  PROVE  NoneEnters
<1> DEFINE w2 == Suspended("settle", e, {})
<1>1. w2.pc = "settle"
  BY DEF Suspended
<1>2. worker' = [worker EXCEPT ![k] = w2] /\ UNCHANGED ops
  BY DEF BeginDispatch
<1> HIDE DEF w2
<1> QED BY <1>1, <1>2, LeavingIsNoEntry

LEMMA ForcedTakeNextNoEntry ==
  ASSUME TypeOK, forced, NEW k \in Keys, TakeNext(k), UNCHANGED cancelled
  PROVE  NoneEnters
<1> DEFINE e == Head(keyQueue[k])
<1>1. CASE BeginDispatch(k, e, slots - 1)
  BY <1>1, ForcedDispatchNoEntry
<1>2. CASE worker' = [worker EXCEPT ![k] = Suspended("acquire", e, {})] /\ UNCHANGED ops
  <2> DEFINE w2 == Suspended("acquire", e, {})
  <2>1. w2.pc = "acquire"
    BY DEF Suspended
  <2> HIDE DEF w2
  <2>2. worker' = [worker EXCEPT ![k] = w2]
    BY <1>2 DEF w2
  <2> QED BY <1>2, <2>1, <2>2, LeavingIsNoEntry
<1> QED BY <1>1, <1>2 DEF TakeNext

LEMMA ExitNoEntry ==
  ASSUME TypeOK, NEW k \in Keys, NEW live \in SUBSET ops, Exit(k, live),
         cancelled \subseteq cancelled' \cup {k}
  PROVE  NoneEnters
<1>1. NoWorker.pc = "none"
  BY DEF NoWorker, Suspended
<1>2. worker' = [worker EXCEPT ![k] = NoWorker] /\ ops' = live
  BY DEF Exit
<1> HIDE DEF NoWorker
<1> QED BY <1>1, <1>2, LeavingIsNoEntry

LEMMA ForcedKeyStep ==
  ASSUME MayRaise = FALSE, TypeOK, forced, NEW k \in Keys, Frozen(k),
         WorkerStep(k) \/ CallbackStep(k)
  PROVE  NoneEnters
<1>1. ~(worker[k].pc \in {"op", "grace"} /\ k \notin cancelled)
  BY DEF Frozen
<1>2. CASE CallbackStep(k) \/ OperationTimeout(k) \/ GraceExpires(k)
  BY <1>1, <1>2 DEF CallbackStep, HandlerReturns, OperationEnds, OperationRaises, Awaits,
                    OperationTimeout, GraceExpires
<1>3. CASE WorkerStart(k)
  BY <1>3, ForcedTakeNextNoEntry DEF WorkerStart
<1>4. CASE SlotGranted(k)
  BY <1>4, ForcedDispatchNoEntry DEF SlotGranted
<1>5. CASE Settle(k)
  <2>1. CASE MoreQueued(k)
    BY <1>5, <2>1, ForcedTakeNextNoEntry DEF Settle
  <2>2. CASE ~MoreQueued(k)
    <3>1. NoWorker.pc = "none"
      BY DEF NoWorker, Suspended
    <3>2. worker' = [worker EXCEPT ![k] = NoWorker] /\ UNCHANGED <<ops, cancelled>>
      BY <1>5, <2>2 DEF Settle
    <3> HIDE DEF NoWorker
    <3> QED BY <3>1, <3>2, LeavingIsNoEntry
  <2> QED BY <2>1, <2>2
<1>6. CASE DeliverCancel(k)
  <2>1. cancelled' = cancelled \ {k}
    BY <1>6 DEF DeliverCancel
  <2>2. ASSUME NEW pc \in {"dead", "cancelGrace"},
               worker' = [worker EXCEPT ![k].pc = pc], UNCHANGED ops
        PROVE  NoneEnters
    <3> DEFINE w2 == [worker[k] EXCEPT !.pc = pc]
    <3>1. w2.pc = pc /\ worker' = [worker EXCEPT ![k] = w2]
      BY <2>2 DEF TypeOK, Workers
    <3> HIDE DEF w2
    <3> QED BY <2>1, <2>2, <3>1, LeavingIsNoEntry
  <2>3. CASE Exit(k, ops)
    BY <2>1, <2>3, ExitNoEntry
  <2> QED BY <1>6, <2>2, <2>3 DEF DeliverCancel
<1>7. CASE CancelUnwinds(k)
  BY <1>7, ExitNoEntry DEF CancelUnwinds
<1> QED BY <1>2, <1>3, <1>4, <1>5, <1>6, <1>7 DEF WorkerStep

LEMMA ForcedDispatcherTurn ==
  ASSUME TypeOK, DispatcherTurn
  PROVE  NoneEnters
<1> DEFINE k == KeyOf[Head(ingress)]
<1>1. k \in Keys /\ UNCHANGED <<ops, cancelled>>
  BY KeysAssumption, HeadTailProperties DEF DispatcherTurn, TypeOK
<1>2. CASE worker' = worker
  BY <1>1, <1>2, SameWorkersNoEntry
<1>3. CASE worker' = [worker EXCEPT ![k].pc = "created"]
  <2> DEFINE w2 == [worker[k] EXCEPT !.pc = "created"]
  <2>1. w2.pc = "created" /\ worker' = [worker EXCEPT ![k] = w2]
    BY <1>1, <1>3 DEF TypeOK, Workers
  <2> HIDE DEF w2, k
  <2> QED BY <1>1, <2>1, LeavingIsNoEntry
<1> QED BY <1>2, <1>3 DEF DispatcherTurn

-----------------------------------------------------------------------------
LEMMA NextKeepsBarrier ==
  ASSUME MayRaise = FALSE, BusInv, Accounting, BarrierInv, Next
  PROVE  BarrierInv'
<1>1. CASE ~forced
  <2>0. OpenInv
    BY <1>1 DEF BarrierInv
  <2>1. CASE CloseTimeout
    BY <2>0, <2>1, ForcingFreezes DEF BarrierInv, CloseTimeout
  <2>2. ASSUME OpenInv', ~forced' PROVE BarrierInv'
    BY <2>2 DEF BarrierInv
  <2>3. ASSUME NEW k \in Keys, WorkerStep(k) \/ CallbackStep(k) PROVE BarrierInv'
    <3>1. ~forced'
      BY <1>1, <2>3 DEF WorkerStep, CallbackStep, WorkerStart, SlotGranted, Settle,
           OperationTimeout, GraceExpires, DeliverCancel, CancelUnwinds, HandlerReturns,
           OperationEnds, OperationRaises, GoOn, busVars
    <3> QED BY <1>1, <2>0, <2>2, <2>3, <3>1, OpenWorkerStep, OpenCallbackStep
  <2>4. CASE Publishers
    <3>1. ~forced'
      BY <1>1, <2>4 DEF Publishers, Publish, CapacityGranted, EnqueueTimeout,
                        PublisherCancelled, LeaveWaiting, busVars
    <3> QED BY <2>0, <2>2, <2>4, <3>1, OpenPublishers
  <2>5. CASE DispatcherTurn
    BY <1>1, <2>0, <2>2, <2>5, OpenDispatcherTurn DEF DispatcherTurn, busVars
  <2>6. CASE Subscriptions \/ (\E o \in ops : StrayOperationEnds(o)) \/ CloseBegin
             \/ CloseIdle \/ CloseOpsDrained \/ ForceJoin \/ CloseDone
    <3>1. /\ ~forced' /\ ops' \subseteq ops /\ closer' # "forceOps"
          /\ UNCHANGED <<ingress, keyQueue, worker, cancelled, released>>
      BY <1>1, <2>0, <2>6 DEF OpenInv, Subscriptions, Subscribe, Unsubscribe,
           StrayOperationEnds, CloseBegin, CloseIdle, CloseOpsDrained, ForceJoin, CloseDone,
           busVars, admissionVars, queueVars
    <3> QED BY <2>0, <2>2, <3>1, SameKeepsOpen
  <2>7. CASE ForceDrain
    BY <2>0, <2>7 DEF ForceDrain, OpenInv
  <2> QED BY <2>1, <2>3, <2>4, <2>5, <2>6, <2>7 DEF Next, CloserStep
<1>2. CASE forced
  <2>0. (\A k \in Keys : Frozen(k)) /\ TypeOK
    BY <1>2 DEF BarrierInv, BusInv
  <2>1. ASSUME NoneEnters, forced' PROVE BarrierInv'
    BY <2>0, <2>1, NoneEntersKeepsFrozen DEF BarrierInv
  <2>2. ASSUME NEW k \in Keys, WorkerStep(k) \/ CallbackStep(k) PROVE BarrierInv'
    <3>1. forced'
      BY <1>2, <2>2 DEF WorkerStep, CallbackStep, WorkerStart, SlotGranted, Settle,
           OperationTimeout, GraceExpires, DeliverCancel, CancelUnwinds, HandlerReturns,
           OperationEnds, OperationRaises, GoOn, busVars
    <3> QED BY <1>2, <2>0, <2>1, <2>2, <3>1, ForcedKeyStep
  <2>3. CASE DispatcherTurn
    BY <1>2, <2>0, <2>1, <2>3, ForcedDispatcherTurn DEF DispatcherTurn, busVars
  <2>4. CASE Subscriptions \/ Publishers \/ (\E o \in ops : StrayOperationEnds(o))
    <3>1. forced' /\ ops' \subseteq ops /\ UNCHANGED <<worker, cancelled>>
      BY <1>2, <2>4 DEF Subscriptions, Subscribe, Unsubscribe, StrayOperationEnds,
           Publishers, Publish, CapacityGranted, EnqueueTimeout, PublisherCancelled,
           LeaveWaiting, busVars
    <3> QED BY <2>1, <3>1, SameWorkersNoEntry
  <2>5. CASE CloseBegin \/ CloserStep
    <3>1. /\ forced' /\ UNCHANGED <<worker, ops>>
          /\ cancelled' = cancelled \/ cancelled' = {k \in Keys : Alive(k)}
      BY <1>2, <2>5 DEF CloseBegin, CloserStep, CloseIdle, CloseOpsDrained, CloseTimeout,
           Drain, ForceDrain, ForceJoin, CloseDone
    <3> QED BY <2>1, <3>1, SameWorkersNoEntry
  <2> QED BY <2>2, <2>3, <2>4, <2>5 DEF Next
<1> QED BY <1>1, <1>2

LEMMA InitBarrier ==
  ASSUME Init
  PROVE  BarrierInv
<1>1. NoWorker.pc = "none" /\ NoWorker.ev = NoEvent
  BY DEF NoWorker, Suspended
<1>2. Range(<<>>) = {} /\ NoDuplicates(<<>>)
  BY DEF Range, NoDuplicates
<1> HIDE DEF NoWorker
<1>3. ASSUME NEW k \in Keys PROVE OnePlace(k) /\ Held(k)
  BY <1>1, <1>2 DEF Init, OnePlace, Held, HoldsSlot
<1> QED BY <1>2, <1>3 DEF Init, BarrierInv, OpenInv, IngressFresh

\* The ordering-key barrier: as long as callbacks raise no CancelledError of their own,
\* no operation of an event is awaited while one of an earlier event of its key still
\* runs, whatever timeouts and grace periods expire, and an event gives its admission
\* back only after its last operation, unless the bus is forced to close.
THEOREM BarrierHolds ==
  ASSUME MayRaise = FALSE
  PROVE  Spec => []KeyBarrier
<1>1. Init => BarrierInv
  BY InitBarrier
<1>2. BusInv /\ Accounting /\ BarrierInv /\ [Next]_vars => BarrierInv'
  <2>1. ASSUME BarrierInv, UNCHANGED vars PROVE BarrierInv'
    BY <2>1 DEF vars, BarrierInv, Frozen, OpenInv, IngressFresh, OnePlace, Held, HoldsSlot
  <2> QED BY <2>1, NextKeepsBarrier
<1>3. BusInv /\ BarrierInv => KeyBarrier
  BY BarrierInvSuffices DEF BusInv
<1> QED BY <1>1, <1>2, <1>3, Invariance, PTL DEF Spec
-----------------------------------------------------------------------------
(* Nothing is stranded, and a closed bus is quiet: the invariant. *)

\* A forced close has answered and released everything and emptied the queues.
Drained == forced /\ closer # "forceOps"

\* How far aclose is says what it has seen to.
CloserInv ==
  /\ forced => closer \in {"forceOps", "forceWorkers", "stopDispatcher", "done"}
  /\ closer \in {"forceOps", "forceWorkers"} => forced
  /\ accepting <=> closer = "open"
  /\ cancelled # {} => closer \in {"forceOps", "forceWorkers"}
  /\ \A k \in Keys : worker[k].pc = "dead" => forced
  /\ closer \in {"drainOps", "forceWorkers", "stopDispatcher", "done"} => admitted \subseteq released
  /\ waiters # <<>> /\ accepting => dispatcher
  /\ closer = "done" => ~dispatcher

PlacesInv ==
  IF Drained THEN ingress = <<>> /\ \A k \in Keys : keyQueue[k] = <<>>
             ELSE IngressFresh /\ \A k \in Keys : OnePlace(k)

\* An event without an answer has its admission, and is answered before its worker settles.
AnswerInv ==
  /\ \A e \in Events : status[e] = "pending" => e \in admitted /\ e \notin released
  /\ \A k \in Keys : worker[k].pc = "settle" => status[worker[k].ev] # "pending"

\* What worker k awaits is its own and runs; the close that is forced has cancelled it.
Awaited(k) ==
  worker[k].pc \in {"op", "grace"} =>
    /\ worker[k].op \in ops /\ worker[k].op.ev = worker[k].ev
    /\ forced => k \in cancelled
    /\ ~Drained

\* A worker that outlives the drain has a cancellation to receive.
QuietInv == Drained => \A k \in Keys : Alive(k) => k \in cancelled

ShutdownInv ==
  /\ CloserInv /\ PlacesInv /\ AnswerInv /\ (\A k \in Keys : Awaited(k)) /\ QuietInv
  /\ NothingStranded

LEMMA ClosedIsQuiet ==
  ASSUME BusInv, Accounting, ShutdownInv
  PROVE  ClosedMeansQuiet
<1> SUFFICES ASSUME closer = "done" PROVE ClosedMeansQuiet
  BY DEF ClosedMeansQuiet
<1>1. admitted = released /\ cancelled = {}
  BY DEF ShutdownInv, CloserInv, Accounting, AdmissionAccounting
<1>2. /\ ingress \in Seq(Events) /\ \A k \in Keys : keyQueue[k] \in Seq(Events)
      /\ Range(ingress) \subseteq admitted /\ \A k \in Keys : Range(keyQueue[k]) \subseteq admitted
  BY DEF BusInv, TypeOK, InsideAdmitted
<1>3. \A e \in Events : status[e] # "pending"
  BY <1>1 DEF ShutdownInv, AnswerInv
<1>4. ASSUME NEW S, NEW s \in Seq(S), Range(s) = {} PROVE s = <<>>
  BY <1>4, HeadAndTail
<1>5. ASSUME Drained PROVE ingress = <<>> /\ \A k \in Keys : ~Alive(k) /\ keyQueue[k] = <<>>
  BY <1>1, <1>5 DEF ShutdownInv, PlacesInv, QuietInv
<1>6. ASSUME ~Drained PROVE ingress = <<>> /\ \A k \in Keys : ~Alive(k) /\ keyQueue[k] = <<>>
  <2>1. Range(ingress) = {} /\ \A k \in Keys : Range(keyQueue[k]) = {}
    BY <1>1, <1>2, <1>6 DEF ShutdownInv, PlacesInv, IngressFresh, OnePlace
  <2>2. ingress = <<>> /\ \A k \in Keys : keyQueue[k] = <<>>
    BY <1>2, <1>4, <2>1
  <2>3. ASSUME NEW k \in Keys PROVE ~Alive(k)
    <3>1. worker[k].ev = NoEvent
      BY <1>1, <1>6 DEF ShutdownInv, PlacesInv, OnePlace, BusInv, InsideAdmitted
    <3>2. worker[k].pc \in {"none", "created", "dead"}
      BY <3>1 DEF BusInv, WorkersWellFormed
    <3> QED BY <1>1, <2>2, <3>2 DEF Alive, BusInv, WorkersWellFormed
  <2> QED BY <1>1, <1>3, <2>2, <2>3
<1>7. ~dispatcher
  BY DEF ShutdownInv, CloserInv
<1> QED BY <1>1, <1>3, <1>5, <1>6, <1>7 DEF ClosedMeansQuiet

-----------------------------------------------------------------------------
(* Every step of one worker serves its events in one of these ways. *)

Stays(k) ==
  Alive(k) /\ Alive(k)' /\ worker'[k].ev = worker[k].ev /\ UNCHANGED <<keyQueue, released>>

Takes(k) ==
  /\ Alive(k) /\ Alive(k)' /\ k \notin cancelled
  /\ worker[k].pc = "settle" \/ worker[k].ev = NoEvent
  /\ keyQueue[k] # <<>> /\ keyQueue'[k] = Tail(keyQueue[k])
  /\ worker'[k].ev = Head(keyQueue[k])
  /\ released' = released \cup ({worker[k].ev} \ {NoEvent})

Leaves(k) ==
  /\ worker[k].ev # NoEvent
  /\ worker'[k].ev = NoEvent /\ worker'[k].pc = "none" /\ keyQueue'[k] = <<>>
  /\ released' = released \cup {worker[k].ev} \cup Range(keyQueue[k])
  /\ \A e \in {worker[k].ev} \cup Range(keyQueue[k]) : status'[e] # "pending"

Dies(k) ==
  /\ worker[k].pc = "created" /\ worker'[k].pc = "dead" /\ k \in cancelled
  /\ worker'[k].ev = worker[k].ev /\ UNCHANGED <<keyQueue, released>>

NoNewPending == \A e \in Events : status'[e] = "pending" => status[e] = "pending"

\* What worker k does with its event, its queue, its operation and its cancellation.
Serves(k) ==
  /\ \A j \in Keys \ {k} : worker'[j] = worker[j] /\ keyQueue'[j] = keyQueue[j]
  /\ UNCHANGED <<accepting, forced, closer, dispatcher, waiters, ingress, admitted>>
  /\ Stays(k) \/ Takes(k) \/ Leaves(k) \/ Dies(k)
  /\ NoNewPending
  /\ worker'[k].pc = "settle" => status'[worker'[k].ev] # "pending"
  /\ ops \subseteq ops' \/ (worker[k].pc \in {"op", "grace"} /\ ops \ {worker[k].op} \subseteq ops')
  /\ worker'[k].pc \in {"op", "grace"} =>
       worker'[k].op \in ops' /\ worker'[k].op.ev = worker'[k].ev /\ ~forced
  /\ k \notin cancelled => cancelled' = cancelled
  /\ k \in cancelled => /\ cancelled' = cancelled \ {k}
                        /\ Alive(k)' => worker[k].pc \in {"op", "grace"}

LEMMA ServesKeepsPlaces ==
  ASSUME BusInv, ShutdownInv, NEW k \in Keys, Serves(k)
  PROVE  PlacesInv'
<1>1. Drained' = Drained /\ ingress' = ingress
  BY DEF Serves, Drained
<1>2. keyQueue[k] \in Seq(Events) /\ worker[k].ev \in Events \cup {NoEvent}
  BY DEF BusInv, TypeOK, InsideAdmitted
<1>3. CASE Drained
  <2>1. keyQueue[k] = <<>>
    BY <1>3 DEF ShutdownInv, PlacesInv
  <2>2. keyQueue'[k] = <<>>
    BY <2>1 DEF Serves, Stays, Takes, Leaves, Dies
  <2> QED BY <1>1, <1>3, <2>2 DEF Serves, ShutdownInv, PlacesInv
<1>4. CASE ~Drained
  <2>0. IngressFresh /\ \A j \in Keys : OnePlace(j)
    BY <1>4 DEF ShutdownInv, PlacesInv
  <2>1. \A e \in released' : e \in released \/ (e = worker[k].ev /\ e # NoEvent)
                             \/ e \in Range(keyQueue[k])
    BY DEF Serves, Stays, Takes, Leaves, Dies
  <2>2. IngressFresh'
    BY <1>1, <2>0, <2>1 DEF IngressFresh, OnePlace
  <2>3. ASSUME NEW j \in Keys, j # k PROVE OnePlace(j)'
    <3>1. worker'[j] = worker[j] /\ keyQueue'[j] = keyQueue[j]
      BY <2>3 DEF Serves
    <3>2. \A e \in released' : KeyOf[e] = j => e \in released
      BY <2>0, <2>1, <2>3 DEF OnePlace
    <3> QED BY <1>1, <2>0, <3>1, <3>2 DEF OnePlace
  <2>4. OnePlace(k)'
    <3>1. CASE Stays(k) \/ Dies(k)
      BY <1>1, <2>0, <3>1 DEF Stays, Dies, OnePlace
    <3>2. CASE Leaves(k)
      <4>1. Range(<<>>) = {} /\ NoDuplicates(<<>>)
        BY DEF Range, NoDuplicates
      <4> QED BY <3>2, <4>1 DEF Leaves, OnePlace
    <3>3. CASE Takes(k)
      <4> DEFINE q == keyQueue[k]
      <4>1. q \in Seq(Events) /\ q # <<>> /\ NoDuplicates(q) /\ OnePlace(k)
        BY <1>2, <2>0, <3>3 DEF Takes, OnePlace
      <4>2. /\ NoDuplicates(Tail(q)) /\ Head(q) \notin Range(Tail(q))
            /\ Head(q) \in Range(q) /\ Range(Tail(q)) \subseteq Range(q)
        BY <4>1, NoDuplicatesProperties, RangeProperties
      <4>3. \A e \in Range(q) : e \notin released' /\ e \notin Range(ingress') /\ KeyOf[e] = k
        BY <1>1, <3>3, <4>1 DEF Takes, OnePlace
      <4> QED BY <3>3, <4>2, <4>3 DEF Takes, OnePlace
    <3> QED BY <3>1, <3>2, <3>3 DEF Serves
  <2> QED BY <1>1, <1>4, <2>2, <2>3, <2>4 DEF PlacesInv
<1> QED BY <1>3, <1>4

LEMMA ServesKeepsAnswers ==
  ASSUME BusInv, ShutdownInv, NEW k \in Keys, Serves(k)
  PROVE  AnswerInv'
<1>1. ASSUME NEW e \in Events, status'[e] = "pending"
      PROVE  e \in admitted' /\ e \notin released'
  <2>1. status[e] = "pending" /\ e \in admitted /\ e \notin released /\ admitted' = admitted
    BY <1>1 DEF Serves, NoNewPending, ShutdownInv, AnswerInv
  <2>2. CASE Takes(k)
    BY <2>1, <2>2 DEF Takes, ShutdownInv, AnswerInv
  <2>3. CASE Stays(k) \/ Leaves(k) \/ Dies(k)
    BY <1>1, <2>1, <2>3 DEF Stays, Leaves, Dies
  <2> QED BY <2>1, <2>2, <2>3 DEF Serves
<1>2. ASSUME NEW j \in Keys, j # k, worker'[j].pc = "settle" PROVE status'[worker'[j].ev] # "pending"
  <2>1. worker'[j] = worker[j]
    BY <1>2 DEF Serves
  <2>2. worker[j].ev \in Events /\ status[worker[j].ev] # "pending"
    BY <1>2, <2>1 DEF ShutdownInv, AnswerInv, BusInv, TypeOK, InsideAdmitted, WorkersWellFormed
  <2> QED BY <2>1, <2>2 DEF Serves, NoNewPending
<1> QED BY <1>1, <1>2 DEF Serves, AnswerInv

LEMMA ServesKeepsAwaited ==
  ASSUME BusInv, ShutdownInv, NEW k \in Keys, Serves(k), NEW j \in Keys
  PROVE  Awaited(j)'
<1>0. Drained' = Drained /\ (Drained => forced) /\ (forced' <=> forced)
  BY DEF Serves, Drained
<1>1. CASE j = k
  BY <1>0, <1>1 DEF Serves, Awaited
<1>2. CASE j # k
  <2>1. worker'[j] = worker[j] /\ Awaited(j) /\ Awaited(k)
    BY <1>2 DEF Serves, ShutdownInv
  <2>2. SUFFICES ASSUME worker[j].pc \in {"op", "grace"} PROVE Awaited(j)'
    BY <2>1 DEF Awaited
  <2>3. ~Drained /\ OnePlace(j) /\ OnePlace(k)
    BY <2>1, <2>2 DEF Awaited, ShutdownInv, PlacesInv
  <2>4. worker[j].ev # NoEvent
    BY <2>2 DEF BusInv, WorkersWellFormed
  <2>5. worker[k].pc \in {"op", "grace"} => worker[k].op # worker[j].op
    <3>1. SUFFICES ASSUME worker[k].pc \in {"op", "grace"}, worker[k].op = worker[j].op PROVE FALSE
      OBVIOUS
    <3>2. worker[k].ev = worker[j].ev
      BY <2>1, <2>2, <3>1 DEF Awaited
    <3> QED BY <1>2, <2>3, <2>4, <3>2 DEF OnePlace
  <2>6. worker[j].op \in ops'
    BY <2>1, <2>2, <2>5 DEF Serves, Awaited
  <2>7. forced => j \in cancelled'
    BY <1>2, <2>1, <2>2 DEF Serves, Awaited
  <2> QED BY <1>0, <2>1, <2>2, <2>3, <2>6, <2>7 DEF Awaited
<1> QED BY <1>1, <1>2

LEMMA ServesStrandsNothing ==
  ASSUME BusInv, ShutdownInv, NEW k \in Keys, Serves(k)
  PROVE  NothingStranded'
<1> SUFFICES ASSUME NEW e \in Events, e \in admitted, e \notin released'
             PROVE  \/ e \in Range(ingress') /\ dispatcher'
                    \/ e \in Range(keyQueue'[KeyOf[e]]) /\ (Alive(KeyOf[e])' \/ closer' = "forceOps")
                    \/ worker'[KeyOf[e]].ev = e /\ Alive(KeyOf[e])'
  BY DEF NothingStranded, Serves, BusInv, TypeOK
<1>1. PICK j \in Keys : j = KeyOf[e]
  BY KeysAssumption
<1>2. e \notin released /\ e # NoEvent /\ keyQueue[k] \in Seq(Events)
  BY EventsAssumption DEF Serves, Stays, Takes, Leaves, Dies, BusInv, TypeOK
<1>3. \/ e \in Range(ingress) /\ dispatcher
      \/ e \in Range(keyQueue[j]) /\ (Alive(j) \/ closer = "forceOps")
      \/ worker[j].ev = e /\ Alive(j)
  BY <1>1, <1>2 DEF ShutdownInv, NothingStranded
<1>4. CASE j # k
  <2>1. worker'[j] = worker[j] /\ keyQueue'[j] = keyQueue[j] /\ (Alive(j) => Alive(j)')
    BY <1>4 DEF Serves, Alive
  <2> QED BY <1>1, <1>3, <2>1 DEF Serves
<1>5. CASE j = k
  <2>1. CASE Stays(k)
    BY <1>1, <1>3, <1>5, <2>1 DEF Serves, Stays
  <2>2. CASE Leaves(k)
    BY <1>1, <1>3, <1>5, <2>2 DEF Serves, Leaves
  <2>3. CASE Dies(k)
    <3>1. closer = "forceOps"
      BY <1>2, <2>3 DEF Dies, ShutdownInv, CloserInv
    <3>2. worker[k].ev = NoEvent
      BY <2>3 DEF Dies, BusInv, WorkersWellFormed
    <3> QED BY <1>1, <1>2, <1>3, <1>5, <2>3, <3>1, <3>2 DEF Serves, Dies
  <2>4. CASE Takes(k)
    <3>1. Range(keyQueue[k]) = {Head(keyQueue[k])} \cup Range(Tail(keyQueue[k]))
      BY <1>2, <2>4, HeadAndTail DEF Takes
    <3> QED BY <1>1, <1>2, <1>3, <1>5, <2>4, <3>1 DEF Serves, Takes
  <2> QED BY <2>1, <2>2, <2>3, <2>4 DEF Serves
<1> QED BY <1>4, <1>5

LEMMA ServesKeepsShutdown ==
  ASSUME BusInv, ShutdownInv, NEW k \in Keys, Serves(k)
  PROVE  ShutdownInv'
<1>1. CloserInv'
  <2>1. released \subseteq released' /\ cancelled' \subseteq cancelled
    BY DEF Serves, Stays, Takes, Leaves, Dies
  <2>2. \A j \in Keys : worker'[j].pc = "dead" => forced
    <3>1. worker'[k].pc = "dead" => k \in cancelled
      BY DEF Serves, Stays, Takes, Leaves, Dies, Alive
    <3> QED BY <3>1 DEF Serves, ShutdownInv, CloserInv
  <2> QED BY <2>1, <2>2 DEF Serves, ShutdownInv, CloserInv
<1>2. QuietInv'
  <2>1. SUFFICES ASSUME Drained, NEW j \in Keys, Alive(j)' PROVE j \in cancelled'
    BY DEF QuietInv, Serves, Drained
  <2>2. CASE j # k
    BY <2>1, <2>2 DEF ShutdownInv, QuietInv, Serves, Alive
  <2>3. CASE j = k
    <3>1. Alive(k)
      BY <2>1, <2>3 DEF Serves, Stays, Takes, Leaves, Dies, Alive
    <3>2. k \in cancelled /\ worker[k].pc \in {"op", "grace"}
      BY <2>1, <2>3, <3>1 DEF ShutdownInv, QuietInv, Serves
    <3> QED BY <2>1, <3>2 DEF ShutdownInv, Awaited
  <2> QED BY <2>2, <2>3
<1> QED BY <1>1, <1>2, ServesKeepsPlaces, ServesKeepsAnswers, ServesKeepsAwaited,
           ServesStrandsNothing DEF ShutdownInv
-----------------------------------------------------------------------------
(* The actions of a worker are such steps. *)

\* A dispatch of event e by worker k has got to its next suspension; live still runs.
Resumes(k, e, live) ==
  /\ worker'[k].ev = e /\ worker'[k].pc \in {"op", "settle"}
  /\ \A j \in Keys \ {k} : worker'[j] = worker[j]
  /\ live \subseteq ops'
  /\ worker'[k].pc = "op" => worker'[k].op \in ops' /\ worker'[k].op.ev = e
  /\ worker'[k].pc = "settle" => status'[e] # "pending"
  /\ NoNewPending

LEMMA ResolveEffect ==
  ASSUME NEW st, NEW S, NEW verdict \in {"processed", "closed", "error"}, NEW e \in Events
  PROVE  /\ Resolve(st, S, verdict)[e] = "pending" => st[e] = "pending" /\ e \notin S
BY DEF Resolve

LEMMA ContinueResumes ==
  ASSUME TypeOK, NEW k \in Keys, NEW w \in Workers, w.ev \in Events,
         w.acts > 0 => w.op \in Operations /\ w.op.ev = w.ev,
         NEW live, NEW held, Continue(k, w, live, held)
  PROVE  Resumes(k, w.ev, live)
<1>1. CASE \E acts : /\ acts = ActionsLeft(w, live) /\ acts > 0
                     /\ Await(k, [w EXCEPT !.pc = "op", !.acts = acts - 1, !.op.action = acts],
                              live, held)
  <2>1. PICK acts : /\ acts = ActionsLeft(w, live) /\ acts > 0
                    /\ Await(k, [w EXCEPT !.pc = "op", !.acts = acts - 1, !.op.action = acts],
                             live, held)
    BY <1>1
  <2> DEFINE w2 == [w EXCEPT !.pc = "op", !.acts = acts - 1, !.op.action = acts]
  <2>2. w.op \in Operations /\ w.op.ev = w.ev
    BY <2>1 DEF ActionsLeft
  <2>3. w2.pc = "op" /\ w2.ev = w.ev /\ w2.op.ev = w.ev
    BY <2>2 DEF Workers, Operations
  <2>4. worker' = [worker EXCEPT ![k] = w2] /\ ops' = live \cup {w2.op} /\ UNCHANGED status
    BY <2>1 DEF Await
  <2> HIDE DEF w2
  <2>5. worker'[k] = w2 /\ \A j \in Keys \ {k} : worker'[j] = worker[j]
    BY <2>4 DEF TypeOK
  <2> QED BY <2>3, <2>4, <2>5 DEF Resumes, NoNewPending
<1>2. CASE \E h \in First(w.todo) :
             Await(k, [w EXCEPT !.pc = "op", !.acts = 0, !.todo = @ \ {h},
                                !.op = [ev |-> w.ev, handler |-> h.id, action |-> 0]],
                   live, held)
  <2>1. PICK h : Await(k, [w EXCEPT !.pc = "op", !.acts = 0, !.todo = @ \ {h},
                                    !.op = [ev |-> w.ev, handler |-> h.id, action |-> 0]],
                       live, held)
    BY <1>2
  <2> DEFINE w2 == [w EXCEPT !.pc = "op", !.acts = 0, !.todo = @ \ {h},
                             !.op = [ev |-> w.ev, handler |-> h.id, action |-> 0]]
  <2>3. w2.pc = "op" /\ w2.ev = w.ev /\ w2.op.ev = w.ev
    BY DEF Workers
  <2>4. worker' = [worker EXCEPT ![k] = w2] /\ ops' = live \cup {w2.op} /\ UNCHANGED status
    BY <2>1 DEF Await
  <2> HIDE DEF w2
  <2>5. worker'[k] = w2 /\ \A j \in Keys \ {k} : worker'[j] = worker[j]
    BY <2>4 DEF TypeOK
  <2> QED BY <2>3, <2>4, <2>5 DEF Resumes, NoNewPending
<1>3. CASE /\ worker' = [worker EXCEPT ![k] = Suspended("settle", w.ev, w.barriers)]
           /\ ops' = live
           /\ status' = Resolve(status, {w.ev}, "processed")
  <2> DEFINE w2 == Suspended("settle", w.ev, w.barriers)
  <2>1. w2.pc = "settle" /\ w2.ev = w.ev
    BY DEF Suspended
  <2> HIDE DEF w2
  <2>2. worker'[k] = w2 /\ \A j \in Keys \ {k} : worker'[j] = worker[j]
    BY <1>3 DEF TypeOK, w2
  <2>3. \A x \in Events : status'[x] = "pending" => status[x] = "pending" /\ x # w.ev
    BY <1>3, ResolveEffect
  <2> QED BY <1>3, <2>1, <2>2, <2>3 DEF Resumes, NoNewPending
<1> QED BY <1>1, <1>2, <1>3 DEF Continue

LEMMA BeginDispatchResumes ==
  ASSUME TypeOK, NEW k \in Keys, NEW e \in Events, NEW held, BeginDispatch(k, e, held)
  PROVE  Resumes(k, e, ops) /\ (forced => worker'[k].pc = "settle")
<1>1. CASE forced
  <2> DEFINE w2 == Suspended("settle", e, {})
  <2>1. w2.pc = "settle" /\ w2.ev = e
    BY DEF Suspended
  <2>2. /\ worker' = [worker EXCEPT ![k] = w2] /\ ops' = ops
        /\ status' = Resolve(status, {e}, "closed")
    BY <1>1 DEF BeginDispatch
  <2> HIDE DEF w2
  <2>3. worker'[k] = w2 /\ \A j \in Keys \ {k} : worker'[j] = worker[j]
    BY <2>2 DEF TypeOK
  <2> QED BY <2>1, <2>2, <2>3, ResolveEffect DEF Resumes, NoNewPending
<1>2. CASE ~forced
  <2> DEFINE w == [Suspended("op", e, {}) EXCEPT !.todo = handlers]
  <2>1. w \in Workers /\ w.ev = e /\ w.acts = 0
    <3>1. "op" \in PCs /\ {} \in SUBSET Operations /\ handlers \in SUBSET Handlers
      BY DEF PCs, TypeOK
    <3>2. /\ Suspended("op", e, {}) \in Workers /\ Suspended("op", e, {}).ev = e
          /\ Suspended("op", e, {}).acts = 0
      BY <3>1, SuspendedType
    <3> HIDE DEF Suspended
    <3> QED BY <3>1, <3>2 DEF Workers
  <2>2. Continue(k, w, ops, held)
    BY <1>2 DEF BeginDispatch
  <2> HIDE DEF w
  <2> QED BY <1>2, <2>1, <2>2, ContinueResumes
<1> QED BY <1>1, <1>2

\* The worker goes on with the event in its hands.
LEMMA ResumingServes ==
  ASSUME NEW k \in Keys, Alive(k), k \notin cancelled, NEW live,
         Resumes(k, worker[k].ev, live), worker'[k].pc = "op" => ~forced,
         ops \subseteq live \/ (worker[k].pc \in {"op", "grace"} /\ ops \ {worker[k].op} \subseteq live),
         UNCHANGED <<busVars, waiters, admitted, released, queueVars, cancelled>>
  PROVE  Serves(k)
<1>1. Stays(k)
  BY DEF Resumes, Stays, Alive, queueVars
<1>2. /\ UNCHANGED <<accepting, forced, closer, dispatcher, waiters, ingress, admitted>>
      /\ UNCHANGED keyQueue
  BY DEF busVars, queueVars
<1> QED BY <1>1, <1>2 DEF Resumes, Serves

\* The worker takes the next event of its queue.
LEMMA TakingServes ==
  ASSUME BusInv, NEW k \in Keys, Alive(k), k \notin cancelled, keyQueue[k] # <<>>, TakeNext(k),
         worker[k].pc = "settle" \/ worker[k].ev = NoEvent,
         released' = released \cup ({worker[k].ev} \ {NoEvent}),
         UNCHANGED <<busVars, waiters, admitted, ingress, cancelled>>
  PROVE  Serves(k)
<1> DEFINE e == Head(keyQueue[k])
<1>1. e \in Events /\ TypeOK
  BY HeadTailProperties DEF BusInv, TypeOK
<1>2. /\ worker'[k].ev = e /\ worker'[k].pc \in {"op", "settle", "acquire"}
      /\ \A j \in Keys \ {k} : worker'[j] = worker[j]
      /\ ops \subseteq ops' /\ NoNewPending
      /\ worker'[k].pc = "op" => worker'[k].op \in ops' /\ worker'[k].op.ev = e /\ ~forced
      /\ worker'[k].pc = "settle" => status'[e] # "pending"
  <2>1. CASE BeginDispatch(k, e, slots - 1)
    BY <1>1, <2>1, BeginDispatchResumes DEF Resumes
  <2>2. CASE /\ worker' = [worker EXCEPT ![k] = Suspended("acquire", e, {})]
             /\ UNCHANGED <<status, ops>>
    <3> DEFINE w2 == Suspended("acquire", e, {})
    <3>1. w2.pc = "acquire" /\ w2.ev = e
      BY DEF Suspended
    <3> HIDE DEF w2
    <3>2. worker'[k] = w2 /\ \A j \in Keys \ {k} : worker'[j] = worker[j]
      BY <1>1, <2>2 DEF TypeOK, w2
    <3> QED BY <2>2, <3>1, <3>2 DEF NoNewPending
  <2> QED BY <2>1, <2>2 DEF TakeNext
<1>3. /\ keyQueue'[k] = Tail(keyQueue[k])
      /\ \A j \in Keys \ {k} : keyQueue'[j] = keyQueue[j]
  BY DEF TakeNext, BusInv, TypeOK
<1>4. Takes(k)
  BY <1>2, <1>3 DEF Takes, Alive
<1>5. UNCHANGED <<accepting, forced, closer, dispatcher, waiters, ingress, admitted>>
  BY DEF busVars
<1> QED BY <1>2, <1>3, <1>4, <1>5 DEF Serves

\* CancelledError leaves the worker.
LEMMA ExitServes ==
  ASSUME BusInv, NEW k \in Keys, worker[k].ev # NoEvent, NEW live, Exit(k, live),
         ops \subseteq live \/ (worker[k].pc \in {"op", "grace"} /\ ops \ {worker[k].op} \subseteq live),
         k \notin cancelled => cancelled' = cancelled,
         k \in cancelled => cancelled' = cancelled \ {k},
         UNCHANGED <<busVars, waiters, admitted, ingress>>
  PROVE  Serves(k)
<1> DEFINE e == worker[k].ev
           rest == Range(keyQueue[k])
<1>1. NoWorker.pc = "none" /\ NoWorker.ev = NoEvent
  BY DEF NoWorker, Suspended
<1>2. /\ worker' = [worker EXCEPT ![k] = NoWorker] /\ ops' = live
      /\ keyQueue' = [keyQueue EXCEPT ![k] = <<>>]
      /\ released' = released \cup {e} \cup rest
  BY DEF Exit, Release
<1>3. /\ worker'[k] = NoWorker /\ keyQueue'[k] = <<>>
      /\ \A j \in Keys \ {k} : worker'[j] = worker[j] /\ keyQueue'[j] = keyQueue[j]
  BY <1>2 DEF BusInv, TypeOK
<1>4. e \in Events /\ rest \subseteq Events
  <2>1. keyQueue[k] \in Seq(Events)
    BY DEF BusInv, TypeOK
  <2> QED BY <2>1, RangeProperties DEF BusInv, TypeOK, InsideAdmitted
<1>5. NoNewPending /\ \A x \in {e} \cup rest : status'[x] # "pending"
  <2> DEFINE st == Resolve(status, {e}, "error")
  <2>1. status' = Resolve(st, rest, "closed")
    BY DEF Exit
  <2>2. \A x \in Events : st[x] = "pending" => status[x] = "pending" /\ x # e
    BY ResolveEffect
  <2> HIDE DEF st
  <2>3. \A x \in Events : status'[x] = "pending" => st[x] = "pending" /\ x \notin rest
    BY <2>1, ResolveEffect
  <2> QED BY <1>4, <2>2, <2>3 DEF NoNewPending
<1> HIDE DEF NoWorker
<1>6. Leaves(k)
  BY <1>1, <1>2, <1>3, <1>5 DEF Leaves
<1>7. UNCHANGED <<accepting, forced, closer, dispatcher, waiters, ingress, admitted>>
  BY DEF busVars
<1> QED BY <1>1, <1>2, <1>3, <1>5, <1>6, <1>7 DEF Serves, Alive

\* Only the place where the worker is suspended changes.
LEMMA MovingServes ==
  ASSUME BusInv, ShutdownInv, NEW k \in Keys,
         NEW pc \in {"grace", "cancelGrace", "dead"},
         worker' = [worker EXCEPT ![k].pc = pc],
         pc = "grace" => worker[k].pc = "op" /\ k \notin cancelled,
         pc = "cancelGrace" => worker[k].pc \in {"op", "grace"},
         pc = "dead" => worker[k].pc = "created" /\ k \in cancelled,
         k \notin cancelled => cancelled' = cancelled,
         k \in cancelled => cancelled' = cancelled \ {k},
         UNCHANGED <<busVars, admissionVars, queueVars, ops>>
  PROVE  Serves(k)
<1>1. /\ worker'[k].pc = pc /\ worker'[k].ev = worker[k].ev /\ worker'[k].op = worker[k].op
      /\ \A j \in Keys \ {k} : worker'[j] = worker[j]
  BY DEF BusInv, TypeOK, Workers
<1>2. Stays(k) \/ Dies(k)
  BY <1>1 DEF Stays, Dies, Alive, queueVars, admissionVars
<1>3. Awaited(k)
  BY DEF ShutdownInv
<1>4. /\ UNCHANGED <<accepting, forced, closer, dispatcher, waiters, ingress, admitted>>
      /\ UNCHANGED <<keyQueue, status>>
  BY DEF busVars, queueVars, admissionVars
<1>5. worker'[k].pc \in {"op", "grace"} =>
        worker'[k].op \in ops' /\ worker'[k].op.ev = worker'[k].ev /\ ~forced
  BY <1>1, <1>3 DEF Awaited
<1> QED BY <1>1, <1>2, <1>4, <1>5 DEF Serves, NoNewPending, Alive
LEMMA GoOnServes ==
  ASSUME BusInv, ShutdownInv, NEW k \in Keys, Awaits(k),
         NEW w \in Workers, w.ev = worker[k].ev, w.op = worker[k].op,
         NEW live, ops \ {worker[k].op} \subseteq live, GoOn(k, w, live)
  PROVE  Serves(k)
<1>1. worker[k].pc \in {"op", "grace"} /\ k \notin cancelled /\ Alive(k)
  BY DEF Awaits, Alive
<1>2. /\ w.ev \in Events /\ w.op \in Operations /\ w.op.ev = w.ev /\ ~forced
  BY <1>1 DEF ShutdownInv, Awaited, BusInv, TypeOK, WorkersWellFormed, InsideAdmitted, HoldsSlot
<1>3. Resumes(k, worker[k].ev, live)
  BY <1>2, ContinueResumes DEF GoOn, BusInv
<1> QED BY <1>1, <1>2, <1>3, ResumingServes DEF GoOn

LEMMA SettleServes ==
  ASSUME BusInv, ShutdownInv, NEW k \in Keys, Settle(k)
  PROVE  Serves(k)
<1> DEFINE e == worker[k].ev
<1>1. /\ worker[k].pc = "settle" /\ k \notin cancelled /\ Alive(k) /\ e # NoEvent
      /\ status[e] # "pending"
  BY DEF Settle, Alive, BusInv, WorkersWellFormed, ShutdownInv, AnswerInv
<1>2. /\ released' = released \cup {e}
      /\ UNCHANGED <<busVars, waiters, admitted, ingress, cancelled>>
  BY DEF Settle, Release
<1>3. CASE MoreQueued(k)
  BY <1>1, <1>2, <1>3, TakingServes DEF Settle, MoreQueued
<1>4. CASE ~MoreQueued(k)
  <2>1. NoWorker.pc = "none" /\ NoWorker.ev = NoEvent
    BY DEF NoWorker, Suspended
  <2>2. worker' = [worker EXCEPT ![k] = NoWorker] /\ UNCHANGED <<keyQueue, status, ops>>
    BY <1>4 DEF Settle
  <2> HIDE DEF NoWorker
  <2>3. worker'[k] = NoWorker /\ \A j \in Keys \ {k} : worker'[j] = worker[j]
    BY <2>2 DEF BusInv, TypeOK
  <2>4. keyQueue[k] = <<>> /\ Range(<<>>) = {}
    BY <1>4 DEF MoreQueued, Range
  <2>5. Leaves(k)
    BY <1>1, <1>2, <2>1, <2>2, <2>3, <2>4 DEF Leaves
  <2>6. UNCHANGED <<accepting, forced, closer, dispatcher, waiters, ingress, admitted>>
    BY <1>2 DEF busVars
  <2> QED BY <1>1, <1>2, <2>1, <2>2, <2>3, <2>5, <2>6 DEF Serves, NoNewPending
<1> QED BY <1>3, <1>4

LEMMA KeyStepServes ==
  ASSUME BusInv, ShutdownInv, NEW k \in Keys, WorkerStep(k) \/ CallbackStep(k)
  PROVE  Serves(k)
<1>0. worker[k] \in Workers /\ Awaited(k) /\ TypeOK
  BY DEF BusInv, TypeOK, ShutdownInv
<1>1. CASE WorkerStart(k)
  <2>1. keyQueue[k] # <<>> /\ worker[k].ev = NoEvent /\ Alive(k) /\ k \notin cancelled
    BY <1>1 DEF WorkerStart, BusInv, WorkersWellFormed, Alive
  <2> QED BY <1>1, <2>1, TakingServes DEF WorkerStart
<1>2. CASE SlotGranted(k)
  <2> DEFINE e == worker[k].ev
  <2>1. /\ worker[k].pc = "acquire" /\ e \in Events /\ Alive(k) /\ k \notin cancelled
        /\ BeginDispatch(k, e, slots - 1)
    BY <1>0, <1>2 DEF SlotGranted, BusInv, TypeOK, WorkersWellFormed, InsideAdmitted, Alive
  <2>2. Resumes(k, e, ops) /\ (worker'[k].pc = "op" => ~forced)
    BY <1>0, <2>1, BeginDispatchResumes
  <2> QED BY <1>2, <2>1, <2>2, ResumingServes DEF SlotGranted
<1>3. CASE OperationTimeout(k)
  BY <1>3, MovingServes DEF OperationTimeout
<1>4. CASE GraceExpires(k)
  <2> DEFINE w == [worker[k] EXCEPT !.barriers = @ \cup {worker[k].op}]
  <2>1. /\ worker[k].op \in Operations /\ Awaits(k) /\ GoOn(k, w, ops)
    BY <1>0, <1>4 DEF GraceExpires, BusInv, WorkersWellFormed, HoldsSlot, Awaits
  <2>2. w \in Workers /\ w.ev = worker[k].ev /\ w.op = worker[k].op
    BY <1>0, <2>1 DEF Workers
  <2> HIDE DEF w
  <2> QED BY <2>1, <2>2, GoOnServes
<1>5. CASE DeliverCancel(k)
  <2>1. k \in cancelled /\ cancelled' = cancelled \ {k} /\ UNCHANGED <<busVars, ingress>>
    BY <1>5 DEF DeliverCancel
  <2>2. CASE /\ worker[k].pc = "created" /\ worker' = [worker EXCEPT ![k].pc = "dead"]
             /\ UNCHANGED <<admissionVars, keyQueue, slotVars, ops>>
    BY <2>1, <2>2, MovingServes DEF queueVars
  <2>3. CASE /\ worker[k].pc \in {"op", "grace"}
             /\ worker' = [worker EXCEPT ![k].pc = "cancelGrace"]
             /\ UNCHANGED <<admissionVars, keyQueue, slotVars, ops>>
    BY <2>1, <2>3, MovingServes DEF queueVars
  <2>4. CASE /\ worker[k].pc \in {"acquire", "cancelGrace", "settle"}
             /\ Exit(k, ops) /\ UNCHANGED <<waiters, admitted>>
    <3>1. worker[k].ev # NoEvent
      BY <2>4 DEF BusInv, WorkersWellFormed
    <3> QED BY <2>1, <2>4, <3>1, ExitServes
  <2> QED BY <1>5, <2>2, <2>3, <2>4 DEF DeliverCancel
<1>6. CASE CancelUnwinds(k)
  <2>1. worker[k].ev # NoEvent /\ k \notin cancelled
    BY <1>6 DEF CancelUnwinds, BusInv, WorkersWellFormed
  <2> QED BY <1>6, <2>1, ExitServes DEF CancelUnwinds
<1>7. ASSUME NEW acts \in 0..MaxActions, NEW stop \in BOOLEAN, HandlerReturns(k, acts, stop)
      PROVE  Serves(k)
  <2> DEFINE w == [worker[k] EXCEPT !.acts = acts, !.stop = stop]
  <2>1. w \in Workers /\ w.ev = worker[k].ev /\ w.op = worker[k].op
    BY <1>0 DEF Workers
  <2>2. Awaits(k) /\ GoOn(k, w, ops \ {worker[k].op})
    BY <1>7 DEF HandlerReturns
  <2> HIDE DEF w
  <2> QED BY <2>1, <2>2, GoOnServes
<1>8. CASE OperationEnds(k)
  BY <1>0, <1>8, GoOnServes DEF OperationEnds
<1>9. CASE OperationRaises(k)
  <2>1. worker[k].ev # NoEvent /\ k \notin cancelled /\ worker[k].pc = "op"
    BY <1>9 DEF OperationRaises, BusInv, WorkersWellFormed
  <2> QED BY <1>9, <2>1, ExitServes DEF OperationRaises
<1> QED BY <1>1, <1>2, <1>3, <1>4, <1>5, <1>6, <1>7, <1>8, <1>9, SettleServes
        DEF WorkerStep, CallbackStep

-----------------------------------------------------------------------------
(* The other steps. *)

\* Nothing moves but what publishers and subscribers hold, and operations that no worker
\* awaits.
LEMMA IdleKeepsShutdown ==
  ASSUME ShutdownInv, BusInv, NoNewPending,
         \A k \in Keys : worker[k].pc \in {"op", "grace"} /\ worker[k].op \in ops => worker[k].op \in ops',
         accepting /\ waiters' # <<>> => dispatcher',
         dispatcher => dispatcher', closer = "done" => dispatcher' = dispatcher,
         UNCHANGED <<accepting, forced, closer, admitted, released, queueVars, worker, cancelled>>
  PROVE  ShutdownInv'
<1>1. Drained' = Drained
  BY DEF Drained
<1>2. CloserInv'
  BY DEF ShutdownInv, CloserInv
<1>3. PlacesInv'
  BY <1>1 DEF ShutdownInv, PlacesInv, IngressFresh, OnePlace, queueVars
<1>4. AnswerInv'
  <2>1. ASSUME NEW k \in Keys, worker[k].pc = "settle" PROVE status'[worker[k].ev] # "pending"
    <3>1. worker[k].ev \in Events /\ status[worker[k].ev] # "pending"
      BY <2>1 DEF ShutdownInv, AnswerInv, BusInv, TypeOK, InsideAdmitted, WorkersWellFormed
    <3> QED BY <3>1 DEF NoNewPending
  <2> QED BY <2>1 DEF ShutdownInv, AnswerInv, NoNewPending
<1>5. \A k \in Keys : Awaited(k)'
  BY <1>1 DEF ShutdownInv, Awaited
<1>6. QuietInv' /\ NothingStranded'
  BY <1>1 DEF ShutdownInv, QuietInv, NothingStranded, Alive, queueVars
<1> QED BY <1>2, <1>3, <1>4, <1>5, <1>6 DEF ShutdownInv

\* An event is admitted: it was nowhere inside the bus before.
LEMMA AdmitKeepsShutdown ==
  ASSUME BusInv, Accounting, ShutdownInv, accepting, NEW e \in Events \ admitted, Admit(e),
         dispatcher', UNCHANGED <<accepting, forced, closer, keyQueue, worker, cancelled, ops>>
  PROVE  ShutdownInv'
<1>1. ~forced /\ ~Drained /\ ~Drained' /\ closer = "open"
  BY DEF ShutdownInv, CloserInv, Drained
<1>2. /\ ingress' = Append(ingress, e) /\ released' = released /\ admitted' = admitted \cup {e}
      /\ status' = [status EXCEPT ![e] = "pending"]
  BY DEF Admit, Put
<1>3. /\ e \notin Range(ingress) /\ e \notin released
      /\ \A k \in Keys : e \notin Range(keyQueue[k]) /\ e # worker[k].ev
  BY EventsAssumption DEF BusInv, InsideAdmitted, Accounting, AdmissionAccounting
<1>4. NoDuplicates(ingress') /\ Range(ingress') = Range(ingress) \cup {e}
  <2>1. ingress \in Seq(Events) /\ NoDuplicates(ingress)
    BY <1>1 DEF BusInv, TypeOK, ShutdownInv, PlacesInv, IngressFresh
  <2> QED BY <1>2, <1>3, <2>1, NoDuplicatesProperties, RangeProperties
<1>5. CloserInv'
  BY <1>1, <1>2 DEF ShutdownInv, CloserInv
<1>6. PlacesInv'
  <2>1. IngressFresh'
    BY <1>1, <1>2, <1>3, <1>4 DEF ShutdownInv, PlacesInv, IngressFresh
  <2>2. ASSUME NEW k \in Keys PROVE OnePlace(k)'
    <3>1. OnePlace(k)
      BY <1>1 DEF ShutdownInv, PlacesInv
    <3> QED BY <1>2, <1>3, <1>4, <3>1 DEF OnePlace
  <2> QED BY <1>1, <2>1, <2>2 DEF PlacesInv
<1>7. AnswerInv'
  <2>1. \A x \in Events : status'[x] = IF x = e THEN "pending" ELSE status[x]
    BY <1>2 DEF BusInv, TypeOK
  <2>2. ASSUME NEW k \in Keys, worker[k].pc = "settle" PROVE status'[worker[k].ev] # "pending"
    <3>1. worker[k].ev \in Events /\ status[worker[k].ev] # "pending"
      BY <2>2 DEF ShutdownInv, AnswerInv, BusInv, TypeOK, InsideAdmitted, WorkersWellFormed
    <3> QED BY <1>3, <2>1, <3>1
  <2> QED BY <1>2, <1>3, <2>1, <2>2 DEF ShutdownInv, AnswerInv
<1>8. \A k \in Keys : Awaited(k)'
  BY <1>1 DEF ShutdownInv, Awaited
<1>9. QuietInv' /\ NothingStranded'
  BY <1>1, <1>2, <1>4 DEF ShutdownInv, QuietInv, NothingStranded, Alive
<1> QED BY <1>5, <1>6, <1>7, <1>8, <1>9 DEF ShutdownInv

LEMMA PublishersKeepShutdown ==
  ASSUME BusInv, Accounting, ShutdownInv, Publishers
  PROVE  ShutdownInv'
<1>1. /\ \A e \in Events : status[e] \in {"new", "waiting"} => e \in Events \ admitted
      /\ status \in [Events -> Statuses]
  BY DEF BusInv, WaitersWellFormed, TypeOK
<1>2. ASSUME NEW e \in Events, NEW v \in Statuses \ {"pending"},
             status' = [status EXCEPT ![e] = v]
      PROVE  NoNewPending
  BY <1>1, <1>2 DEF NoNewPending
<1>3. accepting => closer = "open"
  BY DEF ShutdownInv, CloserInv
<1>4. ASSUME NEW e \in Events, Publish(e) PROVE ShutdownInv'
  <2>1. CASE Admit(e)
    <3>1. e \in Events \ admitted
      BY <1>1, <1>4 DEF Publish
    <3>2. accepting /\ dispatcher' = TRUE
      BY <2>1, <1>4, <3>1 DEF Publish, Admit
    <3>3. UNCHANGED <<accepting, forced, closer, keyQueue, worker, cancelled, ops>>
      BY <1>4 DEF Publish
    <3> QED BY <2>1, <3>1, <3>2, <3>3, AdmitKeepsShutdown
  <2>2. CASE UNCHANGED <<ingress, admitted, released>>
    <3>1. /\ UNCHANGED <<accepting, forced, closer, admitted, released, queueVars, worker,
                         cancelled, ops>>
          /\ \/ accepting /\ dispatcher' = TRUE
             \/ UNCHANGED <<dispatcher, waiters>>
      BY <1>4, <2>2 DEF Publish, queueVars
    <3>2. NoNewPending
      <4>1. PICK v \in Statuses \ {"pending"} : status' = [status EXCEPT ![e] = v]
        <5>1. CASE ~accepting \/ e \in Oversized
          <6>1. (IF accepting THEN "overloaded" ELSE "closed") \in Statuses \ {"pending"}
            BY DEF Statuses, Final
          <6> QED BY <1>4, <5>1, <6>1 DEF Publish
        <5>2. CASE ~(~accepting \/ e \in Oversized)
          <6>1. (IF EnqueueWait THEN "waiting" ELSE "overloaded") \in Statuses \ {"pending"}
            BY DEF Statuses, Final
          <6>2. \/ Admit(e)
                \/ status' = [status EXCEPT ![e] = IF EnqueueWait THEN "waiting"
                                                                  ELSE "overloaded"]
            BY <1>4, <5>2 DEF Publish
          <6>3. ~Admit(e)
            <7>1. e \notin admitted
              BY <1>1, <1>4 DEF Publish
            <7> QED BY <2>2, <7>1 DEF Admit
          <6> QED BY <6>1, <6>2, <6>3
        <5> QED BY <5>1, <5>2
      <4> QED BY <1>2, <4>1
    <3>3. /\ accepting /\ waiters' # <<>> => dispatcher'
          /\ dispatcher => dispatcher'
          /\ closer = "done" => dispatcher' = dispatcher
      BY <1>3, <3>1 DEF ShutdownInv, CloserInv
    <3>4. \A k \in Keys : worker[k].pc \in {"op", "grace"} /\ worker[k].op \in ops
                            => worker[k].op \in ops'
      BY <3>1
    <3>5. UNCHANGED <<accepting, forced, closer, admitted, released, queueVars, worker, cancelled>>
      BY <3>1
    <3> QED BY <3>2, <3>3, <3>4, <3>5, IdleKeepsShutdown
  <2> QED BY <1>4, <2>1, <2>2 DEF Publish
<1>5. CASE CapacityGranted
  <2>1. waiters \in Seq(Events) /\ waiters # <<>>
    BY <1>5 DEF CapacityGranted, BusInv, TypeOK
  <2>2. PICK e \in Events : e = Head(waiters) /\ status[e] = "waiting"
    BY <2>1, RangeProperties, HeadTailProperties DEF BusInv, WaitersWellFormed
  <2>3. UNCHANGED <<busVars, handlerVars, keyQueue, worker, cancelled, slotVars, ops>>
    BY <1>5 DEF CapacityGranted
  <2>4. CASE accepting
    <3>1. Admit(e)
      BY <1>5, <2>2, <2>4 DEF CapacityGranted, StillAccepting
    <3>2. dispatcher'
      BY <2>1, <2>3, <2>4 DEF ShutdownInv, CloserInv, busVars
    <3> QED BY <1>1, <2>2, <2>3, <2>4, <3>1, <3>2, AdmitKeepsShutdown DEF busVars
  <2>5. CASE ~accepting
    <3>1. /\ status' = [status EXCEPT ![e] = "closed"]
          /\ UNCHANGED <<free, outstanding, ingress, admitted, released>>
      BY <1>5, <2>2, <2>5 DEF CapacityGranted, StillAccepting
    <3>2. NoNewPending
      <4>1. "closed" \in Statuses \ {"pending"}
        BY DEF Statuses, Final
      <4> QED BY <1>2, <3>1, <4>1
    <3> QED BY <2>3, <2>5, <3>1, <3>2, IdleKeepsShutdown DEF busVars, queueVars
  <2> QED BY <2>4, <2>5
<1>6. ASSUME NEW e \in Events, NEW v \in {"overloaded", "gone"}, LeaveWaiting(e, v)
      PROVE  ShutdownInv'
  <2>1. NoNewPending
    <3>1. v \in Statuses \ {"pending"}
      BY DEF Statuses, Final
    <3> QED BY <1>2, <1>6, <3>1 DEF LeaveWaiting
  <2>2. waiters # <<>>
    <3>1. e \in Range(waiters)
      BY <1>6 DEF LeaveWaiting, BusInv, WaitersWellFormed
    <3> QED BY <3>1 DEF Range
  <2>3. UNCHANGED <<busVars, admitted, released, queueVars, worker, cancelled, ops>>
    BY <1>6 DEF LeaveWaiting
  <2>4. accepting => dispatcher
    BY <2>2 DEF ShutdownInv, CloserInv
  <2> QED BY <2>1, <2>3, <2>4, IdleKeepsShutdown DEF busVars
<1> QED BY <1>4, <1>5, <1>6 DEF Publishers, EnqueueTimeout, PublisherCancelled

LEMMA SubscriptionsKeepShutdown ==
  ASSUME BusInv, ShutdownInv, Subscriptions
  PROVE  ShutdownInv'
<1>1. UNCHANGED <<busVars, admissionVars, queueVars, worker, cancelled, ops>>
  BY DEF Subscriptions, Subscribe, Unsubscribe
<1>2. NoNewPending /\ (accepting /\ waiters' # <<>> => dispatcher')
  BY <1>1 DEF NoNewPending, ShutdownInv, CloserInv, busVars, admissionVars
<1> QED BY <1>1, <1>2, IdleKeepsShutdown DEF busVars, admissionVars

LEMMA StrayKeepsShutdown ==
  ASSUME BusInv, ShutdownInv, NEW o \in ops, StrayOperationEnds(o)
  PROVE  ShutdownInv'
<1>1. /\ UNCHANGED <<busVars, admissionVars, queueVars, worker, cancelled>>
      /\ ops' = ops \ {o} /\ \A k \in Keys : worker[k].op = o => worker[k].pc = "cancelGrace"
  BY DEF StrayOperationEnds
<1>2. NoNewPending /\ (accepting /\ waiters' # <<>> => dispatcher')
  BY <1>1 DEF NoNewPending, ShutdownInv, CloserInv, busVars, admissionVars
<1> QED BY <1>1, <1>2, IdleKeepsShutdown DEF busVars, admissionVars

\* An event moves from the ingress queue to the queue of its key, whose worker exists or
\* is made: one that died before its first step leaves the queue to the forced close.
LEMMA DispatcherTurnKeepsShutdown ==
  ASSUME BusInv, ShutdownInv, DispatcherTurn
  PROVE  ShutdownInv'
<1>1. ingress \in Seq(Events) /\ ingress # <<>> /\ ~Drained /\ NoDuplicates(ingress)
  BY DEF DispatcherTurn, BusInv, TypeOK, ShutdownInv, PlacesInv, IngressFresh
<1>2. PICK e \in Events, k \in Keys : e = Head(ingress) /\ k = KeyOf[e]
  BY <1>1, HeadTailProperties, KeysAssumption
<1>3. /\ e # NoEvent /\ ingress' = Tail(ingress)
      /\ Range(ingress) = {e} \cup Range(ingress')
      /\ e \notin Range(ingress') /\ NoDuplicates(ingress')
  <2>1. ingress' = Tail(ingress)
    BY DEF DispatcherTurn
  <2> QED BY <1>1, <1>2, <2>1, HeadAndTail, NoDuplicatesProperties, EventsAssumption
<1>4. /\ UNCHANGED <<accepting, forced, closer, dispatcher, waiters, status, admitted, released,
                     cancelled, ops>>
      /\ keyQueue' = [keyQueue EXCEPT ![k] = Append(@, e)]
      /\ \/ worker[k].pc # "none" /\ worker' = worker
         \/ worker[k].pc = "none" /\ worker' = [worker EXCEPT ![k].pc = "created"]
  BY <1>2 DEF DispatcherTurn, Put, busVars, admissionVars
<1>5. /\ worker \in [Keys -> Workers] /\ keyQueue \in [Keys -> Seq(Events)]
      /\ IngressFresh /\ \A j \in Keys : OnePlace(j)
  BY <1>1 DEF BusInv, TypeOK, ShutdownInv, PlacesInv
<1>6. /\ worker'[k].ev = worker[k].ev /\ worker'[k].op = worker[k].op
      /\ worker'[k].pc = worker[k].pc \/ (worker[k].pc = "none" /\ worker'[k].pc = "created")
      /\ worker'[k].pc # "none"
      /\ \A j \in Keys \ {k} : worker'[j] = worker[j]
  BY <1>4, <1>5 DEF Workers
<1>7. /\ keyQueue'[k] = Append(keyQueue[k], e)
      /\ \A j \in Keys \ {k} : keyQueue'[j] = keyQueue[j]
  BY <1>4, <1>5
<1>8. e \notin released /\ e \notin Range(keyQueue[k]) /\ e # worker[k].ev
  BY <1>3, <1>5 DEF OnePlace, IngressFresh
<1>9. NoDuplicates(keyQueue'[k]) /\ Range(keyQueue'[k]) = Range(keyQueue[k]) \cup {e}
  BY <1>5, <1>7, <1>8, NoDuplicatesProperties, RangeProperties DEF OnePlace
<1>10. ~Drained'
  BY <1>1, <1>4 DEF Drained
<1>11. CloserInv'
  <2>1. \A j \in Keys : worker'[j].pc = "dead" => forced
    BY <1>6 DEF ShutdownInv, CloserInv
  <2> QED BY <1>4, <2>1 DEF ShutdownInv, CloserInv
<1>12. PlacesInv'
  <2>1. IngressFresh'
    BY <1>3, <1>4, <1>5 DEF IngressFresh
  <2>2. OnePlace(k)'
    BY <1>2, <1>3, <1>4, <1>5, <1>6, <1>8, <1>9 DEF OnePlace
  <2>3. ASSUME NEW j \in Keys, j # k PROVE OnePlace(j)'
    BY <1>3, <1>4, <1>5, <1>6, <1>7, <2>3 DEF OnePlace
  <2> QED BY <1>10, <2>1, <2>2, <2>3 DEF PlacesInv
<1>13. AnswerInv'
  BY <1>4, <1>6 DEF ShutdownInv, AnswerInv
<1>14. \A j \in Keys : Awaited(j)'
  <2>1. ASSUME NEW j \in Keys PROVE Awaited(j)'
    <3>1. worker'[j].pc \in {"op", "grace"} => worker[j].pc = worker'[j].pc
      BY <1>6
    <3>2. worker'[j].op = worker[j].op /\ worker'[j].ev = worker[j].ev
      BY <1>6
    <3> QED BY <1>4, <1>10, <3>1, <3>2 DEF ShutdownInv, Awaited
  <2> QED BY <2>1
<1>15. QuietInv'
  BY <1>10 DEF QuietInv
<1>16. NothingStranded'
  <2>1. ASSUME NEW x \in admitted \ released
        PROVE  \/ x \in Range(ingress') /\ dispatcher
               \/ x \in Range(keyQueue'[KeyOf[x]]) /\ (Alive(KeyOf[x])' \/ closer = "forceOps")
               \/ worker'[KeyOf[x]].ev = x /\ Alive(KeyOf[x])'
    <3>0. KeyOf[x] \in Keys
      BY KeysAssumption DEF BusInv, TypeOK
    <3>1. CASE x = e
      <4>1. Alive(k)' \/ closer = "forceOps"
        <5>1. CASE worker'[k].pc = "dead"
          BY <1>1, <1>4, <1>6, <5>1 DEF ShutdownInv, CloserInv, Drained
        <5> QED BY <1>6, <5>1 DEF Alive
      <4> QED BY <1>2, <1>9, <3>1, <4>1
    <3>2. CASE x # e
      <4>1. \A j \in Keys : (Alive(j) => Alive(j)') /\ worker'[j].ev = worker[j].ev
                            /\ Range(keyQueue[j]) \subseteq Range(keyQueue'[j])
        BY <1>6, <1>7, <1>9 DEF Alive
      <4> QED BY <1>3, <3>0, <3>2, <4>1 DEF ShutdownInv, NothingStranded
    <3> QED BY <3>1, <3>2
  <2> QED BY <1>4, <2>1 DEF NothingStranded
<1> QED BY <1>11, <1>12, <1>13, <1>14, <1>15, <1>16 DEF ShutdownInv

-----------------------------------------------------------------------------
(* The steps of aclose. *)

\* Only the closer moves.
LEMMA CloserMoveKeepsShutdown ==
  ASSUME ShutdownInv, CloserInv', Drained' = Drained, closer = "forceOps" => closer' = closer,
         dispatcher' = dispatcher \/ admitted \subseteq released,
         UNCHANGED <<forced, admissionVars, queueVars, worker, cancelled, ops>>
  PROVE  ShutdownInv'
<1>1. PlacesInv' /\ AnswerInv' /\ QuietInv' /\ \A k \in Keys : Awaited(k)'
  BY DEF ShutdownInv, PlacesInv, IngressFresh, OnePlace, AnswerInv, QuietInv, Awaited, Alive,
         admissionVars, queueVars
<1>2. NothingStranded'
  BY DEF ShutdownInv, NothingStranded, Alive, admissionVars, queueVars
<1> QED BY <1>1, <1>2 DEF ShutdownInv

\* The drain finds whatever the bus still owes an answer or an admission.
LEMMA DrainKeepsShutdown ==
  ASSUME BusInv, ShutdownInv, Drain, forced' = TRUE, closer \in {"waitIdle", "forceOps"},
         \A k \in Keys : worker[k].pc \notin {"op", "grace"},
         UNCHANGED <<accepting, dispatcher, waiters, admitted, worker, ops>>
  PROVE  ShutdownInv'
<1>1. /\ status' = Resolve(status, Left, "closed") /\ ingress' = <<>>
      /\ released' = released \cup Left /\ closer' = "forceWorkers"
      /\ cancelled' = {k \in Keys : Alive(k)} /\ \A k \in Keys : keyQueue'[k] = <<>>
  BY DEF Drain, Release
<1>2. admitted \ released \subseteq Left
  <2>1. ASSUME NEW e \in admitted \ released PROVE e \in Left
    <3>1. e \in Events /\ e # NoEvent /\ KeyOf[e] \in Keys
      BY EventsAssumption, KeysAssumption DEF BusInv, TypeOK
    <3>2. \/ e \in Range(ingress)
          \/ \E k \in Keys : e \in Range(keyQueue[k])
          \/ \E k \in Keys : worker[k].ev = e
      BY <2>1, <3>1 DEF ShutdownInv, NothingStranded
    <3> QED BY <3>1, <3>2 DEF Left
  <2> QED BY <2>1
<1>3. admitted \subseteq released'
  BY <1>1, <1>2
<1>4. \A e \in Events : status'[e] # "pending"
  <2>1. ASSUME NEW e \in Events, status[e] = "pending" PROVE e \in Left
    BY <1>2, <2>1 DEF ShutdownInv, AnswerInv
  <2>2. ASSUME NEW e \in Events, status'[e] = "pending" PROVE FALSE
    BY <1>1, <2>1, <2>2, ResolveEffect
  <2> QED BY <2>2
<1>5. CloserInv'
  <2>1. ~accepting /\ \A k \in Keys : worker'[k].pc = "dead" => forced'
    BY DEF ShutdownInv, CloserInv
  <2> QED BY <1>1, <1>3, <2>1 DEF CloserInv
<1>6. PlacesInv' /\ QuietInv'
  BY <1>1 DEF PlacesInv, QuietInv, Drained, Alive
<1>7. AnswerInv'
  <2>1. \A k \in Keys : worker'[k].pc = "settle" => worker'[k].ev \in Events
    BY DEF BusInv, TypeOK, InsideAdmitted, WorkersWellFormed
  <2> QED BY <1>4, <2>1 DEF AnswerInv
<1>8. \A k \in Keys : Awaited(k)'
  BY DEF Awaited
<1>9. NothingStranded'
  BY <1>3 DEF NothingStranded
<1> QED BY <1>5, <1>6, <1>7, <1>8, <1>9 DEF ShutdownInv

\* An idle bus has released every event.
LEMMA IdleIsReleased ==
  ASSUME Accounting, outstanding = 0
  PROVE  admitted \subseteq released
<1>1. admitted \ released \subseteq admitted /\ IsFiniteSet(admitted)
  BY DEF Accounting
<1>2. IsFiniteSet(admitted \ released) /\ Cardinality(admitted \ released) = 0
  BY <1>1, FS_Subset DEF Accounting, AdmissionAccounting
<1>3. admitted \ released = {}
  BY <1>2, FS_EmptySet
<1> QED BY <1>3

\* Cancelled operations are waited for first: every worker alive is marked before that.
LEMMA ForcingKeepsShutdown ==
  ASSUME ShutdownInv, closer = "waitIdle", forced' = TRUE, closer' = "forceOps",
         cancelled' = {k \in Keys : Alive(k)},
         UNCHANGED <<accepting, dispatcher, admissionVars, queueVars, worker, ops>>
  PROVE  ShutdownInv'
<1>1. ~Drained /\ ~Drained'
  BY DEF ShutdownInv, CloserInv, Drained
<1>2. CloserInv'
  BY DEF ShutdownInv, CloserInv, admissionVars
<1>3. PlacesInv' /\ AnswerInv' /\ QuietInv'
  BY <1>1 DEF ShutdownInv, PlacesInv, IngressFresh, OnePlace, AnswerInv, QuietInv,
              admissionVars, queueVars
<1>4. \A k \in Keys : Awaited(k)'
  BY <1>1 DEF ShutdownInv, Awaited, Alive
<1>5. NothingStranded'
  BY DEF ShutdownInv, NothingStranded, Alive, admissionVars, queueVars
<1> QED BY <1>2, <1>3, <1>4, <1>5 DEF ShutdownInv

LEMMA CloserKeepsShutdown ==
  ASSUME BusInv, Accounting, ShutdownInv, CloseBegin \/ CloserStep
  PROVE  ShutdownInv'
<1>0. forced \in BOOLEAN /\ accepting \in BOOLEAN
  BY DEF BusInv, TypeOK
<1>1. CASE CloseBegin
  <2>1. /\ closer = "open" /\ closer' = "waitIdle" /\ ~accepting' /\ ~forced
        /\ UNCHANGED <<forced, dispatcher, admissionVars, queueVars, worker, cancelled, ops>>
    BY <1>1 DEF CloseBegin, ShutdownInv, CloserInv
  <2>2. CloserInv' /\ Drained' = Drained
    BY <2>1 DEF ShutdownInv, CloserInv, Drained, admissionVars
  <2> QED BY <2>1, <2>2, CloserMoveKeepsShutdown
<1>2. CASE CloseIdle
  <2>1. /\ closer = "waitIdle" /\ closer' \in {"stopDispatcher", "drainOps"} /\ ~forced
        /\ UNCHANGED <<accepting, forced, dispatcher, admissionVars, queueVars, worker,
                       cancelled, ops>>
    BY <1>2 DEF CloseIdle, ShutdownInv, CloserInv
  <2>2. admitted \subseteq released
    BY <1>2, IdleIsReleased DEF CloseIdle
  <2>3. CloserInv' /\ Drained' = Drained
    BY <2>1, <2>2 DEF ShutdownInv, CloserInv, Drained, admissionVars
  <2> QED BY <2>1, <2>3, CloserMoveKeepsShutdown
<1>3. CASE CloseOpsDrained \/ ForceJoin
  <2>1. /\ closer \in {"drainOps", "forceWorkers"} /\ closer' = "stopDispatcher"
        /\ cancelled = {}
        /\ UNCHANGED <<accepting, forced, dispatcher, admissionVars, queueVars, worker,
                       cancelled, ops>>
    BY <1>3 DEF CloseOpsDrained, ForceJoin, CancellationsReceived, ShutdownInv, CloserInv
  <2>2. CloserInv' /\ Drained' = Drained
    BY <2>1 DEF ShutdownInv, CloserInv, Drained, admissionVars
  <2> QED BY <2>1, <2>2, CloserMoveKeepsShutdown
<1>4. CASE CloseDone
  <2>1. /\ closer = "stopDispatcher" /\ closer' = "done" /\ dispatcher' = FALSE
        /\ UNCHANGED <<accepting, forced, admissionVars, queueVars, worker, cancelled, ops>>
    BY <1>4 DEF CloseDone
  <2>2. CloserInv' /\ Drained' = Drained /\ admitted \subseteq released
    BY <2>1 DEF ShutdownInv, CloserInv, Drained, admissionVars
  <2> QED BY <2>1, <2>2, CloserMoveKeepsShutdown
<1>5. CASE CloseTimeout
  <2>1. CASE ops = {}
    <3>1. \A k \in Keys : worker[k].pc \notin {"op", "grace"}
      BY <2>1 DEF ShutdownInv, Awaited
    <3> QED BY <1>5, <2>1, <3>1, DrainKeepsShutdown DEF CloseTimeout
  <2>2. CASE ops # {}
    <3>1. /\ closer = "waitIdle" /\ forced' = TRUE /\ closer' = "forceOps"
          /\ cancelled' = {k \in Keys : Alive(k)}
          /\ UNCHANGED <<accepting, dispatcher, admissionVars, queueVars, worker, ops>>
      BY <1>5, <2>2 DEF CloseTimeout, admissionVars
    <3> QED BY <3>1, ForcingKeepsShutdown
  <2> QED BY <2>1, <2>2
<1>6. CASE ForceDrain
  <2>1. forced' = TRUE
    BY <1>0, <1>6 DEF ForceDrain, ShutdownInv, CloserInv
  <2>2. \A k \in Keys : worker[k].pc \notin {"op", "grace"}
    BY <1>6 DEF ForceDrain, OperationsGivenUp, CancellationsReceived, ShutdownInv, CloserInv,
                Awaited
  <2> QED BY <1>6, <2>1, <2>2, DrainKeepsShutdown DEF ForceDrain
<1> QED BY <1>1, <1>2, <1>3, <1>4, <1>5, <1>6 DEF CloserStep

-----------------------------------------------------------------------------
LEMMA NextKeepsShutdown ==
  ASSUME BusInv, Accounting, ShutdownInv, Next
  PROVE  ShutdownInv'
<1>1. CASE Subscriptions \/ Publishers \/ DispatcherTurn
  BY <1>1, SubscriptionsKeepShutdown, PublishersKeepShutdown, DispatcherTurnKeepsShutdown
<1>2. ASSUME NEW k \in Keys, WorkerStep(k) \/ CallbackStep(k) PROVE ShutdownInv'
  BY <1>2, KeyStepServes, ServesKeepsShutdown
<1>3. ASSUME NEW o \in ops, StrayOperationEnds(o) PROVE ShutdownInv'
  BY <1>3, StrayKeepsShutdown
<1>4. CASE CloseBegin \/ CloserStep
  BY <1>4, CloserKeepsShutdown
<1> QED BY <1>1, <1>2, <1>3, <1>4 DEF Next

LEMMA InitShutdown ==
  ASSUME Init
  PROVE  ShutdownInv
<1>1. NoWorker.pc = "none" /\ NoWorker.ev = NoEvent
  BY DEF NoWorker, Suspended
<1>2. Range(<<>>) = {} /\ NoDuplicates(<<>>)
  BY DEF Range, NoDuplicates
<1> HIDE DEF NoWorker
<1>3. CloserInv /\ ~Drained
  BY <1>1 DEF Init, CloserInv, Drained
<1>4. PlacesInv
  BY <1>1, <1>2, <1>3 DEF Init, PlacesInv, IngressFresh, OnePlace
<1>5. AnswerInv /\ QuietInv /\ NothingStranded /\ \A k \in Keys : Awaited(k)
  BY <1>1, <1>3 DEF Init, AnswerInv, QuietInv, NothingStranded, Awaited
<1> QED BY <1>3, <1>4, <1>5 DEF ShutdownInv

LEMMA ShutdownHolds == Spec => [](BusInv /\ Accounting /\ ShutdownInv)
<1>1. Init => ShutdownInv
  BY InitShutdown
<1>2. BusInv /\ Accounting /\ ShutdownInv /\ [Next]_vars => ShutdownInv'
  <2>1. ASSUME BusInv, ShutdownInv, UNCHANGED vars PROVE ShutdownInv'
    BY <2>1 DEF vars, ShutdownInv, CloserInv, PlacesInv, IngressFresh, OnePlace, AnswerInv,
                Awaited, QuietInv, NothingStranded, Drained, Alive
  <2> QED BY <2>1, NextKeepsShutdown
<1> QED BY <1>1, <1>2, Invariance, PTL DEF Spec

\* An event the bus still owes an answer or an admission is always in the hands of a task
\* that will serve it: whatever _run_key_queue, its cancellation and _force_close do in
\* turn, no event is left in a queue that no dispatcher, worker or drain will look at.
THEOREM NothingIsStranded == Spec => []NothingStranded
<1>1. ShutdownInv => NothingStranded
  BY DEF ShutdownInv
<1> QED BY <1>1, ShutdownHolds, PTL

\* After aclose, graceful or forced, everything admitted has been answered and released,
\* every queue is empty and no worker or dispatcher is alive.
THEOREM CloseLeavesNothing == Spec => []ClosedMeansQuiet
<1>1. BusInv /\ Accounting /\ ShutdownInv => ClosedMeansQuiet
  BY ClosedIsQuiet
<1> QED BY <1>1, ShutdownHolds, PTL

-----------------------------------------------------------------------------
(* The bus implements OrderedDelivery: lines and the order in them. *)

LEMMA EarlierInRange ==
  ASSUME NEW s, NEW e, NEW f, Earlier(s, e, f)
  PROVE  e \in Range(s) /\ f \in Range(s)
BY DEF Earlier, Range

\* Taking the head out of a list leaves the order of the others as it was.
LEMMA EarlierInTail ==
  ASSUME NEW S, NEW s \in Seq(S), s # <<>>, NoDuplicates(s)
  PROVE  /\ \A e, f : e # Head(s) => (Earlier(Tail(s), e, f) <=> Earlier(s, e, f))
         /\ \A f \in Range(Tail(s)) : Earlier(s, Head(s), f)
         /\ \A e : ~Earlier(s, e, Head(s))
<1>1. /\ DOMAIN s = 1..Len(s) /\ Len(s) \in Nat /\ Len(s) >= 1 /\ Head(s) = s[1]
      /\ DOMAIN Tail(s) = 1..(Len(s) - 1)
      /\ \A i \in 1..(Len(s) - 1) : Tail(s)[i] = s[i + 1]
  BY HeadTailProperties, LenProperties
<1>2. ASSUME NEW e, NEW f, Earlier(Tail(s), e, f) PROVE Earlier(s, e, f)
  <2>1. PICK i, j \in 1..(Len(s) - 1) : i < j /\ s[i + 1] = e /\ s[j + 1] = f
    BY <1>1, <1>2 DEF Earlier
  <2>2. i + 1 \in DOMAIN s /\ j + 1 \in DOMAIN s /\ i + 1 < j + 1
    BY <1>1, <2>1
  <2> QED BY <2>1, <2>2 DEF Earlier
<1>3. ASSUME NEW e, NEW f, e # Head(s), Earlier(s, e, f) PROVE Earlier(Tail(s), e, f)
  <2>1. PICK i, j \in DOMAIN s : i < j /\ s[i] = e /\ s[j] = f
    BY <1>3 DEF Earlier
  <2>2. /\ i - 1 \in DOMAIN Tail(s) /\ j - 1 \in DOMAIN Tail(s) /\ i - 1 < j - 1
        /\ Tail(s)[i - 1] = e /\ Tail(s)[j - 1] = f
    BY <1>1, <1>3, <2>1
  <2> QED BY <2>2 DEF Earlier
<1>4. ASSUME NEW f \in Range(Tail(s)) PROVE Earlier(s, Head(s), f)
  <2>1. PICK i \in 1..(Len(s) - 1) : s[i + 1] = f
    BY <1>1 DEF Range
  <2>2. 1 \in DOMAIN s /\ i + 1 \in DOMAIN s /\ 1 < i + 1
    BY <1>1
  <2> QED BY <1>1, <2>1, <2>2 DEF Earlier
<1>5. ASSUME NEW e, Earlier(s, e, Head(s)) PROVE FALSE
  <2>1. PICK i, j \in DOMAIN s : i < j /\ s[j] = s[1]
    BY <1>1, <1>5 DEF Earlier
  <2>2. j = 1
    BY <1>1, <2>1 DEF NoDuplicates
  <2> QED BY <1>1, <2>1, <2>2
<1> QED BY <1>2, <1>3, <1>4, <1>5

\* A new element comes after all the others.
LEMMA EarlierInAppend ==
  ASSUME NEW S, NEW s \in Seq(S), NEW x \in S, x \notin Range(s), NEW e, NEW f
  PROVE  Earlier(Append(s, x), e, f) <=> Earlier(s, e, f) \/ (e \in Range(s) /\ f = x)
<1>1. /\ DOMAIN s = 1..Len(s) /\ Len(s) \in Nat
      /\ DOMAIN Append(s, x) = 1..(Len(s) + 1)
      /\ \A i \in 1..Len(s) : Append(s, x)[i] = s[i]
      /\ Append(s, x)[Len(s) + 1] = x
  BY AppendProperties, LenProperties
<1> DEFINE t == Append(s, x)
<1>2. /\ DOMAIN t = 1..(Len(s) + 1) /\ \A i \in 1..Len(s) : t[i] = s[i]
      /\ t[Len(s) + 1] = x
  BY <1>1
<1> HIDE DEF t
<1>3. ASSUME Earlier(t, e, f) PROVE Earlier(s, e, f) \/ (e \in Range(s) /\ f = x)
  <2>1. PICK i, j \in 1..(Len(s) + 1) : i < j /\ t[i] = e /\ t[j] = f
    BY <1>2, <1>3 DEF Earlier
  <2>2. i \in DOMAIN s /\ s[i] = e /\ e \in Range(s)
    BY <1>1, <1>2, <2>1 DEF Range
  <2>3. CASE j = Len(s) + 1
    BY <1>2, <2>1, <2>2, <2>3
  <2>4. CASE j # Len(s) + 1
    <3>1. j \in DOMAIN s /\ s[j] = f
      BY <1>1, <1>2, <2>1, <2>4
    <3> QED BY <2>1, <2>2, <3>1 DEF Earlier
  <2> QED BY <2>3, <2>4
<1>4. ASSUME Earlier(s, e, f) PROVE Earlier(t, e, f)
  <2>1. PICK i, j \in DOMAIN s : i < j /\ s[i] = e /\ s[j] = f
    BY <1>4 DEF Earlier
  <2>2. i \in DOMAIN t /\ j \in DOMAIN t /\ t[i] = e /\ t[j] = f
    BY <1>1, <1>2, <2>1
  <2> QED BY <2>1, <2>2 DEF Earlier
<1>5. ASSUME e \in Range(s), f = x PROVE Earlier(t, e, f)
  <2>1. PICK i \in DOMAIN s : s[i] = e
    BY <1>5 DEF Range
  <2>2. i \in DOMAIN t /\ Len(s) + 1 \in DOMAIN t /\ i < Len(s) + 1 /\ t[i] = e
    BY <1>1, <1>2, <2>1
  <2> QED BY <1>2, <1>5, <2>2 DEF Earlier
<1> QED BY <1>3, <1>4, <1>5 DEF t

\* A worker awaits the end of an operation after its own cancellation only while the close
\* is forced.
GraceInv == \A k \in Keys : worker[k].pc = "cancelGrace" => forced

\* A step that leaves the events that stay in their order.
OrderKept == \A e, f \in InBus' : Precedes(e, f)' <=> Precedes(e, f)

LEMMA OrderKeptMeansKeep ==
  ASSUME OrderKept, InBus' \subseteq InBus
  PROVE  Ahead' = {p \in Ahead : p[1] \in InBus' /\ p[2] \in InBus'}
<1>1. \A p \in InBus' \X InBus' : Precedes(p[1], p[2])' <=> Precedes(p[1], p[2])
  BY DEF OrderKept
<1> QED BY <1>1 DEF Ahead

\* Where an event that has its admission is.
LEMMA Whereabouts ==
  ASSUME BusInv, ShutdownInv
  PROVE  /\ InBus \subseteq Events
         /\ Drained => InBus = {}
         /\ \A e \in InBus : \/ e \in Range(ingress)
                             \/ e \in Range(keyQueue[KeyOf[e]])
                             \/ worker[KeyOf[e]].ev = e
<1>1. InBus \subseteq Events
  BY DEF BusInv, TypeOK, InBus
<1>2. Drained => InBus = {}
  BY DEF Drained, ShutdownInv, CloserInv, InBus
<1>3. \A e \in InBus : \/ e \in Range(ingress)
                       \/ e \in Range(keyQueue[KeyOf[e]])
                       \/ worker[KeyOf[e]].ev = e
  BY DEF ShutdownInv, NothingStranded, InBus
<1> QED BY <1>1, <1>2, <1>3

\* What a worker has in its hands is the head of the line of its key.
LEMMA InHandIsFirst ==
  ASSUME BusInv, ShutdownInv, ~Drained, NEW k \in Keys, worker[k].ev # NoEvent, NEW f
  PROVE  KeyOf[worker[k].ev] = k /\ ~Precedes(f, worker[k].ev)
<1>1. OnePlace(k)
  BY DEF ShutdownInv, PlacesInv
<1> QED BY <1>1, EarlierInRange DEF OnePlace, Precedes

\* A step of one worker leaves the other events in their order.
LEMMA ServesKeepsOrder ==
  ASSUME BusInv, ShutdownInv, NEW k \in Keys, Serves(k)
  PROVE  /\ OrderKept
         /\ InBus' = InBus \ released'
<1>1. InBus' = InBus \ released'
  BY DEF Serves, Stays, Takes, Leaves, Dies, InBus
<1>2. CASE Drained
  BY <1>1, <1>2, Whereabouts DEF OrderKept
<1>3. CASE ~Drained
  <2>0. IngressFresh /\ OnePlace(k)
    BY <1>3 DEF ShutdownInv, PlacesInv
  <2>1. SUFFICES ASSUME NEW e \in InBus', NEW f \in InBus'
                 PROVE  Precedes(e, f)' <=> Precedes(e, f)
    BY <1>1 DEF OrderKept
  <2>2. e \in InBus /\ f \in InBus /\ e \notin released' /\ f \notin released' /\ ingress' = ingress
    BY <1>1, <2>1 DEF Serves
  <2>3. CASE KeyOf[f] # k \/ (worker'[k].ev = worker[k].ev /\ keyQueue'[k] = keyQueue[k])
    <3>1. KeyOf[f] \in Keys
      BY <2>2, Whereabouts, KeysAssumption
    <3>2. worker'[KeyOf[f]].ev = worker[KeyOf[f]].ev /\ keyQueue'[KeyOf[f]] = keyQueue[KeyOf[f]]
      BY <2>3, <3>1 DEF Serves
    <3> QED BY <2>2, <3>2 DEF Precedes
  <2>4. CASE KeyOf[f] = k /\ Takes(k)
    <3> DEFINE h == Head(keyQueue[k])
    <3>1. /\ keyQueue[k] # <<>> /\ keyQueue'[k] = Tail(keyQueue[k]) /\ worker'[k].ev = h
          /\ worker[k].ev # e /\ worker[k].ev # f
      BY <2>2, <2>4, Whereabouts, EventsAssumption DEF Takes
    <3>2. keyQueue[k] \in Seq(Events) /\ NoDuplicates(keyQueue[k])
      BY <2>0 DEF BusInv, TypeOK, OnePlace
    <3>3. Range(keyQueue[k]) = {h} \cup Range(Tail(keyQueue[k])) /\ h \notin Range(Tail(keyQueue[k]))
      BY <3>1, <3>2, HeadAndTail, NoDuplicatesProperties
    <3>4. h \notin Range(ingress)
      BY <2>0, <3>3 DEF OnePlace
    <3>5. e # h => (Earlier(Tail(keyQueue[k]), e, f) <=> Earlier(keyQueue[k], e, f))
      BY <3>1, <3>2, EarlierInTail
    <3>6. ~Earlier(keyQueue[k], e, h) /\ ~Earlier(Tail(keyQueue[k]), h, f) /\ ~Earlier(ingress, h, f)
      BY <3>1, <3>2, <3>3, <3>4, EarlierInTail, EarlierInRange
    <3>7. f \in Range(Tail(keyQueue[k])) => Earlier(keyQueue[k], h, f)
      BY <3>1, <3>2, EarlierInTail
    <3>8. f \in Range(ingress) \/ f \in Range(keyQueue[k])
      BY <2>2, <2>4, <3>1, Whereabouts
    <3> HIDE DEF h
    <3>9. CASE e = h
      BY <2>2, <2>4, <3>1, <3>3, <3>4, <3>6, <3>7, <3>8, <3>9 DEF Precedes
    <3>10. CASE e # h
      BY <2>2, <2>4, <3>1, <3>3, <3>5, <3>6, <3>10 DEF Precedes
    <3> QED BY <3>9, <3>10
  <2>5. CASE KeyOf[f] = k /\ Leaves(k)
    <3>1. /\ worker'[k].ev = NoEvent /\ keyQueue'[k] = <<>> /\ worker[k].ev # e
          /\ e \notin Range(keyQueue[k]) /\ e # NoEvent
      BY <2>2, <2>5, Whereabouts, EventsAssumption DEF Leaves
    <3>2. ~Earlier(keyQueue[k], e, f) /\ ~Earlier(<<>>, e, f) /\ Range(<<>>) = {}
      BY <3>1, EarlierInRange DEF Range, Earlier
    <3> QED BY <2>2, <2>5, <3>1, <3>2 DEF Precedes
  <2>6. Takes(k) \/ Leaves(k) \/ (worker'[k].ev = worker[k].ev /\ keyQueue'[k] = keyQueue[k])
    BY DEF Serves, Stays, Dies
  <2> QED BY <2>3, <2>4, <2>5, <2>6
<1> QED BY <1>1, <1>2, <1>3

\* The dispatcher moves an event from one part of its line to the next.
LEMMA DispatcherTurnKeepsOrder ==
  ASSUME BusInv, ShutdownInv, DispatcherTurn
  PROVE  InBus' = InBus /\ OrderKept
<1> DEFINE h == Head(ingress)
           k == KeyOf[h]
<1>1. /\ ingress \in Seq(Events) /\ ingress # <<>> /\ ingress' = Tail(ingress)
      /\ UNCHANGED <<admitted, released>>
  BY DEF DispatcherTurn, BusInv, TypeOK, admissionVars
<1>2. ~Drained
  BY <1>1 DEF ShutdownInv, PlacesInv
<1>3. IngressFresh /\ \A j \in Keys : OnePlace(j)
  BY <1>2 DEF ShutdownInv, PlacesInv
<1>4. /\ h \in Events /\ k \in Keys /\ Range(ingress) = {h} \cup Range(Tail(ingress))
      /\ h \notin Range(Tail(ingress))
  BY <1>1, <1>3, RangeProperties, HeadAndTail, NoDuplicatesProperties, KeysAssumption DEF IngressFresh
<1>5. InBus' = InBus
  BY <1>1 DEF InBus
<1>6. ASSUME NEW j \in Keys PROVE worker'[j].ev = worker[j].ev
  <2>1. worker \in [Keys -> Workers]
    BY DEF BusInv, TypeOK
  <2>2. worker' = worker \/ worker' = [worker EXCEPT ![k].pc = "created"]
    BY DEF DispatcherTurn
  <2> HIDE DEF k
  <2> QED BY <2>1, <2>2 DEF Workers
<1>7. \A j \in Keys : keyQueue'[j] = IF j = k THEN Append(keyQueue[k], h) ELSE keyQueue[j]
  BY <1>4 DEF DispatcherTurn, Put, BusInv, TypeOK
<1>8. SUFFICES ASSUME NEW e \in InBus, NEW f \in InBus
               PROVE  Precedes(e, f)' <=> Precedes(e, f)
  BY <1>5 DEF OrderKept
<1> DEFINE j == KeyOf[f]
<1>9. j \in Keys /\ f \in Events
  BY <1>8, Whereabouts, KeysAssumption
<1>10. h \notin Range(keyQueue[j]) /\ (e = h /\ KeyOf[e] = j => j = k)
  BY <1>3, <1>4, <1>9 DEF OnePlace
<1>11. e # h => (Earlier(Tail(ingress), e, f) <=> Earlier(ingress, e, f))
  BY <1>1, <1>3, EarlierInTail DEF IngressFresh
<1>12. ~Earlier(ingress, e, h) /\ ~Earlier(Tail(ingress), h, f)
  BY <1>1, <1>3, <1>4, EarlierInTail, EarlierInRange DEF IngressFresh
<1>13. f \in Range(Tail(ingress)) => Earlier(ingress, h, f)
  BY <1>1, <1>3, EarlierInTail DEF IngressFresh
<1>14. keyQueue[j] \in Seq(Events)
  BY <1>9 DEF BusInv, TypeOK
<1>15. Earlier(Append(keyQueue[j], h), e, f) <=> Earlier(keyQueue[j], e, f) \/ (e \in Range(keyQueue[j]) /\ f = h)
  BY <1>4, <1>10, <1>14, EarlierInAppend
<1>16. Range(Append(keyQueue[j], h)) = Range(keyQueue[j]) \cup {h}
  BY <1>4, <1>14, RangeProperties
<1>17. /\ Earlier(keyQueue[j], e, f) => e \in Range(keyQueue[j]) /\ f \in Range(keyQueue[j])
       /\ Earlier(ingress, e, f) => e \in Range(ingress) /\ f \in Range(ingress)
       /\ Earlier(Tail(ingress), e, f) => f \in Range(Tail(ingress))
  BY EarlierInRange
<1> HIDE DEF h
<1>18. Precedes(e, f)' <=>
         /\ KeyOf[e] = j
         /\ \/ worker[j].ev = e /\ f # e
            \/ e \in Range(keyQueue'[j]) /\ f \in Range(Tail(ingress))
            \/ Earlier(keyQueue'[j], e, f)
            \/ Earlier(Tail(ingress), e, f)
  BY <1>1, <1>6, <1>9 DEF Precedes
<1>19. Precedes(e, f) <=>
         /\ KeyOf[e] = j
         /\ \/ worker[j].ev = e /\ f # e
            \/ e \in Range(keyQueue[j]) /\ f \in Range(ingress)
            \/ Earlier(keyQueue[j], e, f)
            \/ Earlier(ingress, e, f)
  BY DEF Precedes
<1>20. keyQueue'[j] = IF j = k THEN Append(keyQueue[j], h) ELSE keyQueue[j]
  BY <1>7, <1>9
<1>21. f = h => j = k
  OBVIOUS
<1> HIDE DEF j, k
<1>22. CASE j = k
  <2>1. keyQueue'[j] = Append(keyQueue[j], h)
    BY <1>20, <1>22
  <2>2. CASE e = h
    BY <1>4, <1>10, <1>12, <1>13, <1>15, <1>16, <1>17, <1>18, <1>19, <2>1, <2>2
  <2>3. CASE e # h
    BY <1>4, <1>10, <1>11, <1>12, <1>15, <1>16, <1>17, <1>18, <1>19, <2>1, <2>3
  <2> QED BY <2>2, <2>3
<1>23. CASE j # k
  <2>1. keyQueue'[j] = keyQueue[j] /\ f # h
    BY <1>20, <1>21, <1>23
  <2> QED BY <1>4, <1>10, <1>11, <1>18, <1>19, <1>23, <2>1
<1> QED BY <1>5, <1>22, <1>23

-----------------------------------------------------------------------------
(* The answers a step gives. *)

\* Events of S that have no answer yet are answered.
Answered(S, verdict) == status' = Resolve(status, S, verdict)

\* The ways in which a step of worker k answers the event that it then has in its hands,
\* or the events that it leaves behind.
Answers(k) ==
  /\ \/ UNCHANGED status /\ (Leaves(k) => keyQueue[k] = <<>> /\ k \notin cancelled)
     \/ Answered({worker'[k].ev}, "processed") /\ ~forced /\ ~Leaves(k)
     \/ Answered({worker'[k].ev}, "closed") /\ forced /\ ~Leaves(k)
     \/ /\ status' = Resolve(Resolve(status, {worker[k].ev}, "error"), Range(keyQueue[k]), "closed")
        /\ forced \/ MayRaise
        /\ Leaves(k)
  /\ worker'[k].pc = "cancelGrace" => worker[k].pc = "cancelGrace" \/ cancelled # {}

LEMMA ContinueAnswers ==
  ASSUME TypeOK, NEW k \in Keys, NEW w \in Workers, w.ev \in Events,
         w.acts > 0 => w.op \in Operations /\ w.op.ev = w.ev,
         NEW live, NEW held, Continue(k, w, live, held)
  PROVE  /\ UNCHANGED status \/ Answered({w.ev}, "processed")
         /\ worker'[k].ev = w.ev /\ worker'[k].pc \in {"op", "settle"}
<1>1. worker'[k].ev = w.ev /\ worker'[k].pc \in {"op", "settle"}
  BY ContinueResumes DEF Resumes
<1>2. UNCHANGED status \/ Answered({w.ev}, "processed")
  BY DEF Continue, Await, Answered
<1> QED BY <1>1, <1>2

LEMMA BeginDispatchAnswers ==
  ASSUME TypeOK, NEW k \in Keys, NEW e \in Events, NEW held, BeginDispatch(k, e, held)
  PROVE  /\ \/ UNCHANGED status
            \/ Answered({e}, "processed") /\ ~forced
            \/ Answered({e}, "closed") /\ forced
         /\ worker'[k].ev = e /\ worker'[k].pc \in {"op", "settle"}
<1>1. worker'[k].ev = e /\ worker'[k].pc \in {"op", "settle"}
  BY BeginDispatchResumes DEF Resumes
<1>2. CASE forced
  BY <1>1, <1>2 DEF BeginDispatch, Answered
<1>3. CASE ~forced
  <2> DEFINE w == [Suspended("op", e, {}) EXCEPT !.todo = handlers]
  <2>1. w \in Workers /\ w.ev = e /\ w.acts = 0
    <3>1. "op" \in PCs /\ {} \in SUBSET Operations /\ handlers \in SUBSET Handlers
      BY DEF PCs, TypeOK
    <3>2. /\ Suspended("op", e, {}) \in Workers /\ Suspended("op", e, {}).ev = e
          /\ Suspended("op", e, {}).acts = 0
      BY <3>1, SuspendedType
    <3> HIDE DEF Suspended
    <3> QED BY <3>1, <3>2 DEF Workers
  <2>2. Continue(k, w, ops, held)
    BY <1>3 DEF BeginDispatch
  <2> HIDE DEF w
  <2> QED BY <1>1, <1>3, <2>1, <2>2, ContinueAnswers
<1> QED BY <1>2, <1>3

\* A worker that has an event in its hands after the step does not leave.
LEMMA HoldingIsNotLeaving ==
  ASSUME NEW k \in Keys, worker'[k].ev \in Events
  PROVE  ~Leaves(k)
BY EventsAssumption DEF Leaves

LEMMA TakeNextAnswers ==
  ASSUME BusInv, NEW k \in Keys, keyQueue[k] # <<>>, TakeNext(k)
  PROVE  Answers(k)
<1> DEFINE e == Head(keyQueue[k])
<1>1. e \in Events /\ TypeOK
  BY HeadTailProperties DEF BusInv, TypeOK
<1>2. CASE BeginDispatch(k, e, slots - 1)
  BY <1>1, <1>2, BeginDispatchAnswers, HoldingIsNotLeaving DEF Answers
<1>3. CASE /\ worker' = [worker EXCEPT ![k] = Suspended("acquire", e, {})]
           /\ UNCHANGED <<status, ops>>
  <2> DEFINE w2 == Suspended("acquire", e, {})
  <2>1. w2.pc = "acquire" /\ w2.ev = e
    BY DEF Suspended
  <2> HIDE DEF w2
  <2>2. worker'[k] = w2
    BY <1>1, <1>3 DEF TypeOK, w2
  <2> QED BY <1>1, <1>3, <2>1, <2>2, HoldingIsNotLeaving DEF Answers
<1> QED BY <1>2, <1>3 DEF TakeNext

LEMMA GoOnAnswers ==
  ASSUME BusInv, ShutdownInv, NEW k \in Keys, Awaits(k),
         NEW w \in Workers, w.ev = worker[k].ev, w.op = worker[k].op,
         NEW live, GoOn(k, w, live)
  PROVE  Answers(k)
<1>1. /\ w.ev \in Events /\ w.op \in Operations /\ w.op.ev = w.ev /\ ~forced
  BY DEF Awaits, ShutdownInv, Awaited, BusInv, TypeOK, WorkersWellFormed, InsideAdmitted, HoldsSlot
<1>2. Continue(k, w, live, slots) /\ TypeOK
  BY DEF GoOn, BusInv
<1> QED BY <1>1, <1>2, ContinueAnswers, HoldingIsNotLeaving DEF Answers

LEMMA ExitAnswers ==
  ASSUME BusInv, NEW k \in Keys, worker[k].ev # NoEvent, NEW live, Exit(k, live),
         forced \/ MayRaise
  PROVE  Answers(k)
<1> DEFINE e == worker[k].ev
           rest == Range(keyQueue[k])
<1>1. NoWorker.pc = "none" /\ NoWorker.ev = NoEvent
  BY DEF NoWorker, Suspended
<1>2. /\ worker' = [worker EXCEPT ![k] = NoWorker]
      /\ keyQueue' = [keyQueue EXCEPT ![k] = <<>>]
      /\ released' = released \cup {e} \cup rest
      /\ status' = Resolve(Resolve(status, {e}, "error"), rest, "closed")
  BY DEF Exit, Release
<1>3. worker'[k] = NoWorker /\ keyQueue'[k] = <<>>
  BY <1>2 DEF BusInv, TypeOK
<1>4. e \in Events /\ rest \subseteq Events
  <2>1. keyQueue[k] \in Seq(Events)
    BY DEF BusInv, TypeOK
  <2> QED BY <2>1, RangeProperties DEF BusInv, TypeOK, InsideAdmitted
<1>5. \A x \in {e} \cup rest : status'[x] # "pending"
  <2> DEFINE st == Resolve(status, {e}, "error")
  <2>1. status' = Resolve(st, rest, "closed")
    BY <1>2
  <2>2. \A x \in Events : st[x] = "pending" => x # e
    BY ResolveEffect
  <2> HIDE DEF st
  <2>3. \A x \in Events : status'[x] = "pending" => st[x] = "pending" /\ x \notin rest
    BY <2>1, ResolveEffect
  <2> QED BY <1>4, <2>2, <2>3
<1> HIDE DEF NoWorker
<1>6. Leaves(k)
  BY <1>1, <1>2, <1>3, <1>5 DEF Leaves
<1> QED BY <1>1, <1>2, <1>3, <1>6 DEF Answers

LEMMA KeyStepAnswers ==
  ASSUME BusInv, ShutdownInv, GraceInv, NEW k \in Keys, WorkerStep(k) \/ CallbackStep(k)
  PROVE  Answers(k)
<1>0. worker[k] \in Workers /\ TypeOK /\ CloserInv
  BY DEF BusInv, TypeOK, ShutdownInv
<1>1. CASE WorkerStart(k)
  <2>1. keyQueue[k] # <<>>
    BY <1>1 DEF WorkerStart, BusInv, WorkersWellFormed
  <2> QED BY <1>1, <2>1, TakeNextAnswers DEF WorkerStart
<1>2. CASE SlotGranted(k)
  <2> DEFINE e == worker[k].ev
  <2>1. e \in Events /\ BeginDispatch(k, e, slots - 1)
    BY <1>0, <1>2 DEF SlotGranted, BusInv, TypeOK, WorkersWellFormed, InsideAdmitted
  <2> QED BY <1>0, <2>1, BeginDispatchAnswers, HoldingIsNotLeaving DEF Answers
<1>3. CASE OperationTimeout(k)
  <2>1. worker'[k].pc = "grace" /\ UNCHANGED status
    BY <1>0, <1>3 DEF OperationTimeout, admissionVars, TypeOK
  <2> QED BY <2>1 DEF Answers, Leaves
<1>4. CASE GraceExpires(k)
  <2> DEFINE w == [worker[k] EXCEPT !.barriers = @ \cup {worker[k].op}]
  <2>1. /\ worker[k].op \in Operations /\ Awaits(k) /\ GoOn(k, w, ops)
    BY <1>0, <1>4 DEF GraceExpires, BusInv, WorkersWellFormed, HoldsSlot, Awaits
  <2>2. w \in Workers /\ w.ev = worker[k].ev /\ w.op = worker[k].op
    BY <1>0, <2>1 DEF Workers
  <2> HIDE DEF w
  <2> QED BY <2>1, <2>2, GoOnAnswers
<1>5. CASE DeliverCancel(k)
  <2>1. cancelled # {} /\ forced
    BY <1>0, <1>5 DEF DeliverCancel, CloserInv
  <2>2. CASE /\ worker' = [worker EXCEPT ![k].pc = "dead"] \/ worker' = [worker EXCEPT ![k].pc = "cancelGrace"]
             /\ UNCHANGED <<admissionVars, keyQueue, slotVars, ops>>
    <3>1. worker'[k].pc = "dead" \/ worker'[k].pc = "cancelGrace"
      BY <1>0, <2>2 DEF TypeOK, Workers
    <3>2. UNCHANGED status
      BY <2>2 DEF admissionVars
    <3> QED BY <2>1, <3>1, <3>2 DEF Answers, Leaves
  <2>3. CASE worker[k].pc \in {"acquire", "cancelGrace", "settle"} /\ Exit(k, ops)
    <3>1. worker[k].ev # NoEvent
      BY <2>3 DEF BusInv, WorkersWellFormed
    <3> QED BY <2>1, <2>3, <3>1, ExitAnswers
  <2> QED BY <1>5, <2>2, <2>3 DEF DeliverCancel
<1>6. CASE CancelUnwinds(k)
  <2>1. worker[k].ev # NoEvent /\ forced
    BY <1>6 DEF CancelUnwinds, BusInv, WorkersWellFormed, GraceInv
  <2> QED BY <1>6, <2>1, ExitAnswers DEF CancelUnwinds
<1>7. ASSUME NEW acts \in 0..MaxActions, NEW stop \in BOOLEAN, HandlerReturns(k, acts, stop)
      PROVE  Answers(k)
  <2> DEFINE w == [worker[k] EXCEPT !.acts = acts, !.stop = stop]
  <2>1. w \in Workers /\ w.ev = worker[k].ev /\ w.op = worker[k].op
    BY <1>0 DEF Workers
  <2>2. Awaits(k) /\ GoOn(k, w, ops \ {worker[k].op})
    BY <1>7 DEF HandlerReturns
  <2> HIDE DEF w
  <2> QED BY <2>1, <2>2, GoOnAnswers
<1>8. CASE OperationEnds(k)
  BY <1>0, <1>8, GoOnAnswers DEF OperationEnds
<1>9. CASE OperationRaises(k)
  <2>1. worker[k].ev # NoEvent /\ MayRaise
    BY <1>9 DEF OperationRaises, BusInv, WorkersWellFormed
  <2> QED BY <1>9, <2>1, ExitAnswers DEF OperationRaises
<1>10. CASE Settle(k)
  <2>1. CASE MoreQueued(k)
    BY <1>10, <2>1, TakeNextAnswers DEF Settle, MoreQueued
  <2>2. CASE ~MoreQueued(k)
    <3>1. NoWorker.pc = "none"
      BY DEF NoWorker, Suspended
    <3>2. worker'[k] = NoWorker /\ UNCHANGED status /\ keyQueue[k] = <<>> /\ k \notin cancelled
      BY <1>0, <1>10, <2>2 DEF Settle, MoreQueued, TypeOK
    <3> QED BY <3>1, <3>2 DEF Answers
  <2> QED BY <2>1, <2>2
<1> QED BY <1>1, <1>2, <1>3, <1>4, <1>5, <1>6, <1>7, <1>8, <1>9, <1>10
        DEF WorkerStep, CallbackStep

-----------------------------------------------------------------------------
(* The steps of OrderedDelivery that they amount to. *)

Waits == {e \in InBus : Told[e] = "none"}

\* The heads of the lines are answered and leave.
LEMMA ServeStep ==
  ASSUME NEW k \in Keys, accepting' = accepting, InBus \subseteq Events,
         NEW left, NEW served,
         \A e \in left : /\ e \in InBus \ Waits /\ KeyOf[e] = k
                         /\ \A f \in InBus : ~Precedes(f, e),
         \A e \in served : /\ e \in Waits \ left /\ KeyOf[e] = k
                           /\ \A f \in InBus \ left : ~Precedes(f, e),
         InBus' = InBus \ left, OrderKept,
         Told' = [e \in Events |-> IF e \in served THEN "processed" ELSE Told[e]]
  PROVE  Abstract!Next
<1>1. left \in SUBSET {e \in Abstract!Heads(InBus) \cap Abstract!OfKey(k) : Told[e] # "none"}
  BY DEF Abstract!Heads, Abstract!OfKey, Waits, Ahead
<1>2. served \in SUBSET {e \in Abstract!Heads(InBus \ left) \cap Abstract!OfKey(k) : Told[e] = "none"}
  BY DEF Abstract!Heads, Abstract!OfKey, Waits, Ahead
<1>3. Abstract!Keep(InBus \ left)
  BY OrderKeptMeansKeep DEF Abstract!Keep
<1>4. Abstract!Serve(k)
  BY <1>1, <1>2, <1>3 DEF Abstract!Serve
<1> QED BY <1>4 DEF Abstract!Next

\* Events are answered and leave out of turn.
LEMMA WithdrawStep ==
  ASSUME accepting' = accepting, InBus \subseteq Events,
         NEW closed, NEW failed, NEW left,
         closed \subseteq Waits, failed = {} \/ \E e \in closed : failed = {e},
         left \subseteq InBus, left \cap Waits \subseteq closed,
         \/ ~accepting
         \/ MayRaise /\ \E k \in Keys : \A e \in closed \cup left : KeyOf[e] = k,
         InBus' = InBus \ left, OrderKept,
         Told' = [e \in Events |-> IF e \in failed THEN "error"
                                   ELSE IF e \in closed THEN "closed" ELSE Told[e]]
  PROVE  Abstract!Next
<1>1. ASSUME NEW S, closed \cup left \subseteq S
      PROVE  Abstract!Withdraw(S)
  <2>1. closed \in SUBSET {e \in InBus \cap S : Told[e] = "none"}
    BY <1>1 DEF Waits
  <2>2. left \in SUBSET {e \in InBus \cap S : Told[e] # "none" \/ e \in closed}
    BY <1>1 DEF Waits
  <2>3. failed \in {{}} \cup {{e} : e \in closed}
    OBVIOUS
  <2>4. Abstract!Keep(InBus \ left)
    BY OrderKeptMeansKeep DEF Abstract!Keep
  <2> QED BY <2>1, <2>2, <2>3, <2>4 DEF Abstract!Withdraw
<1>2. CASE ~accepting
  BY <1>1, <1>2 DEF Waits, Abstract!Next
<1>3. CASE MayRaise /\ \E k \in Keys : \A e \in closed \cup left : KeyOf[e] = k
  <2>1. PICK k \in Keys : \A e \in closed \cup left : KeyOf[e] = k
    BY <1>3
  <2>2. closed \cup left \subseteq Abstract!OfKey(k)
    BY <2>1 DEF Abstract!OfKey, Waits
  <2> QED BY <1>1, <1>3, <2>2 DEF Abstract!Next
<1> QED BY <1>2, <1>3

\* Nothing that OrderedDelivery speaks of changes.
LEMMA StutterStep ==
  ASSUME UNCHANGED <<accepting, InBus, Told>>, OrderKept
  PROVE  UNCHANGED Abstract!vars
<1>1. Ahead' = Ahead
  BY OrderKeptMeansKeep DEF Ahead
<1> QED BY <1>1 DEF Abstract!vars

\* The answers of events that are inside, and how a step that resolves changes them.
LEMMA AnswersInside ==
  ASSUME BusInv
  PROVE  /\ \A e \in Events : Told[e] = "none" <=> status[e] \notin Final
         /\ \A e \in InBus : e \in Waits <=> status[e] = "pending"
<1>1. status \in [Events -> Statuses] /\ InBus \subseteq Events
  BY DEF BusInv, TypeOK, InBus
<1>2. \A e \in Events : Told[e] = IF status[e] \in Final THEN status[e] ELSE "none"
  BY DEF Told
<1>3. "none" \notin Final /\ "pending" \notin Final
  BY DEF Final
<1>4. \A e \in InBus : status[e] = "pending" \/ status[e] \in Final
  BY <1>1 DEF BusInv, WaitersWellFormed, InBus, Statuses
<1> QED BY <1>1, <1>2, <1>3, <1>4 DEF Waits

LEMMA AnsweredTold ==
  ASSUME BusInv, ShutdownInv, NEW S, NEW verdict \in Final, Answered(S, verdict)
  PROVE  Told' = [e \in Events |-> IF e \in S \cap Waits THEN verdict ELSE Told[e]]
<1>1. ASSUME NEW e \in Events
      PROVE  Told'[e] = IF e \in S \cap Waits THEN verdict ELSE Told[e]
  <2>1. status'[e] = IF e \in S /\ status[e] = "pending" THEN verdict ELSE status[e]
    BY DEF Answered, Resolve
  <2>2. status[e] = "pending" => e \in InBus
    BY DEF ShutdownInv, AnswerInv, InBus
  <2>3. e \in Waits <=> status[e] = "pending"
    BY <2>2, AnswersInside DEF Waits
  <2>4. Told[e] = (IF status[e] \in Final THEN status[e] ELSE "none")
        /\ Told'[e] = (IF status'[e] \in Final THEN status'[e] ELSE "none")
    BY DEF Told
  <2> QED BY <2>1, <2>3, <2>4
<1>2. Told' = [e \in Events |-> Told'[e]]
  BY DEF Told
<1> QED BY <1>1, <1>2

\* The step of one worker: it serves the head of the line of its key, or takes events out
\* of turn because the close is forced or a callback raised CancelledError.
LEMMA KeyStepRefines ==
  ASSUME BusInv, ShutdownInv, NEW k \in Keys, Serves(k), Answers(k)
  PROVE  Abstract!Next \/ UNCHANGED Abstract!vars
<1> DEFINE e == worker[k].ev
           e2 == worker'[k].ev
           answered == {e2} \cap Waits
<1>1. /\ accepting' = accepting /\ OrderKept /\ InBus' = InBus \ released'
      /\ InBus \subseteq Events /\ (forced => ~accepting)
  BY ServesKeepsOrder, Whereabouts DEF Serves, ShutdownInv, CloserInv
<1>2. status' = status => Told' = Told
  BY DEF Told
<1>3. "processed" \in Final /\ "closed" \in Final /\ "error" \in Final
  BY DEF Final
<1>4. Drained => InBus = {}
  BY Whereabouts
<1>5. \A x \in InBus : x \in Waits <=> status[x] = "pending"
  BY AnswersInside
<1>6. NoEvent \notin InBus
  BY <1>1, EventsAssumption
<1>7. CASE Stays(k) \/ Dies(k)
  <2>1. e2 = e /\ InBus' = InBus /\ ~Leaves(k)
    <3>1. e2 = e /\ UNCHANGED <<admitted, released>>
      BY <1>7 DEF Stays, Dies, Serves
    <3>2. ~Leaves(k)
      BY <1>7 DEF Stays, Dies, Leaves, Alive
    <3> QED BY <3>1, <3>2 DEF InBus
  <2>2. CASE UNCHANGED status
    BY <1>1, <1>2, <2>1, <2>2, StutterStep
  <2>3. CASE Answered({e2}, "processed") /\ ~forced
    <3>1. Told' = [x \in Events |-> IF x \in answered THEN "processed" ELSE Told[x]]
      BY <1>3, <2>3, AnsweredTold
    <3>2. ~Drained
      BY <2>3 DEF Drained
    <3>3. \A x \in answered : x = e /\ x # NoEvent /\ x \in Waits
      BY <1>6, <2>1 DEF Waits
    <3>4. \A x \in answered : KeyOf[x] = k /\ \A f \in InBus : ~Precedes(f, x)
      BY <3>2, <3>3, InHandIsFirst
    <3> DEFINE left == {}
    <3>5. InBus' = InBus \ left
      BY <2>1
    <3>6. \A x \in answered : x \in Waits \ left
      OBVIOUS
    <3> HIDE DEF answered
    <3> QED BY <1>1, <3>1, <3>4, <3>5, <3>6, ServeStep
  <2>4. CASE Answered({e2}, "closed") /\ forced
    <3>1. Told' = [x \in Events |-> IF x \in answered THEN "closed" ELSE Told[x]]
      BY <1>3, <2>4, AnsweredTold
    <3> DEFINE left == {}
               failed == {}
    <3>2. InBus' = InBus \ left /\ left \subseteq InBus /\ left \cap Waits \subseteq answered
          /\ answered \subseteq Waits
      BY <2>1
    <3>3. Told' = [x \in Events |-> IF x \in failed THEN "error"
                                    ELSE IF x \in answered THEN "closed" ELSE Told[x]]
      BY <3>1
    <3>4. failed = {} /\ ~accepting
      BY <1>1, <2>4
    <3> HIDE DEF answered, left, failed
    <3> QED BY <1>1, <3>2, <3>3, <3>4, WithdrawStep
  <2> QED BY <2>1, <2>2, <2>3, <2>4 DEF Answers
<1>8. CASE Takes(k)
  <2> DEFINE left == {e} \cap InBus
  <2>1. ~Drained /\ k \notin cancelled
    BY <1>8 DEF Takes, ShutdownInv, QuietInv
  <2>2. /\ e2 = Head(keyQueue[k]) /\ keyQueue[k] # <<>> /\ released' = released \cup ({e} \ {NoEvent})
        /\ worker[k].pc = "settle" \/ e = NoEvent
    BY <1>8 DEF Takes
  <2>3. InBus' = InBus \ left
    BY <1>1, <1>6, <2>2 DEF InBus
  <2>4. \A x \in left : x = e /\ x # NoEvent /\ x \in InBus /\ x \notin Waits
    BY <1>5, <1>6, <2>2 DEF ShutdownInv, AnswerInv
  <2>5. \A x \in left : KeyOf[x] = k /\ \A f \in InBus : ~Precedes(f, x)
    BY <2>1, <2>4, InHandIsFirst
  <2>6. KeyOf[e2] = k /\ \A f \in InBus \ left : ~Precedes(f, e2)
    <3>1. OnePlace(k) /\ keyQueue[k] \in Seq(Events)
      BY <2>1 DEF ShutdownInv, PlacesInv, BusInv, TypeOK
    <3>2. e2 \in Range(keyQueue[k]) /\ \A f : ~Earlier(keyQueue[k], f, e2)
      <4>1. NoDuplicates(keyQueue[k])
        BY <3>1 DEF OnePlace
      <4>2. Head(keyQueue[k]) \in Range(keyQueue[k])
        BY <2>2, <3>1, RangeProperties
      <4>3. \A f : ~Earlier(keyQueue[k], f, Head(keyQueue[k]))
        BY <2>2, <3>1, <4>1, EarlierInTail
      <4> QED BY <2>2, <4>2, <4>3
    <3>3. KeyOf[e2] = k /\ e2 \notin Range(ingress)
      BY <3>1, <3>2 DEF OnePlace
    <3>4. \A f : ~Earlier(ingress, f, e2)
      BY <3>3, EarlierInRange
    <3>5. \A f \in InBus \ left : worker[k].ev # f
      OBVIOUS
    <3> QED BY <3>2, <3>3, <3>4, <3>5 DEF Precedes
  <2>7. ~Leaves(k)
    <3>1. e2 \in Events
      BY <2>2, HeadTailProperties DEF BusInv, TypeOK
    <3> QED BY <3>1, HoldingIsNotLeaving
  <2>8. CASE UNCHANGED status \/ (Answered({e2}, "processed") /\ ~forced)
    <3>1. PICK served \in {{}, answered} :
            Told' = [x \in Events |-> IF x \in served THEN "processed" ELSE Told[x]]
      <4>1. CASE UNCHANGED status
        <5>1. Told' = [x \in Events |-> Told[x]]
          BY <1>2, <4>1 DEF Told
        <5> QED BY <5>1
      <4>2. CASE Answered({e2}, "processed")
        BY <1>3, <4>2, AnsweredTold
      <4> QED BY <2>8, <4>1, <4>2
    <3>2. \A x \in served : /\ x \in Waits \ left /\ KeyOf[x] = k
                            /\ \A f \in InBus \ left : ~Precedes(f, x)
      BY <2>4, <2>6
    <3>3. \A x \in left : /\ x \in InBus \ Waits /\ KeyOf[x] = k
                          /\ \A f \in InBus : ~Precedes(f, x)
      BY <2>4, <2>5
    <3> HIDE DEF left, answered
    <3> QED BY <1>1, <2>3, <3>1, <3>2, <3>3, ServeStep
  <2>9. CASE Answered({e2}, "closed") /\ forced
    <3>1. Told' = [x \in Events |-> IF x \in answered THEN "closed" ELSE Told[x]]
      BY <1>3, <2>9, AnsweredTold
    <3> DEFINE failed == {}
    <3>2. left \subseteq InBus /\ left \cap Waits \subseteq answered /\ answered \subseteq Waits
      BY <2>4
    <3>3. Told' = [x \in Events |-> IF x \in failed THEN "error"
                                    ELSE IF x \in answered THEN "closed" ELSE Told[x]]
      BY <3>1
    <3>4. failed = {} /\ ~accepting
      BY <1>1, <2>9
    <3> HIDE DEF answered, left, failed
    <3> QED BY <1>1, <2>3, <3>2, <3>3, <3>4, WithdrawStep
  <2> QED BY <2>7, <2>8, <2>9 DEF Answers
<1>9. CASE Leaves(k)
  <2> DEFINE gone == {e} \cup Range(keyQueue[k])
             left == gone \cap InBus
  <2>1. released' = released \cup gone /\ e # NoEvent
    BY <1>9 DEF Leaves
  <2>2. InBus' = InBus \ left
    BY <1>1, <2>1 DEF InBus
  <2>3. CASE UNCHANGED status /\ keyQueue[k] = <<>> /\ k \notin cancelled
    <3>1. Alive(k) /\ ~Drained
      <4>1. Alive(k)
        BY <2>1 DEF BusInv, WorkersWellFormed, Alive
      <4> QED BY <2>3, <4>1 DEF ShutdownInv, QuietInv
    <3>2. gone = {e}
      BY <2>3 DEF Range
    <3>3. \A x \in left : x = e /\ x \in InBus /\ x \notin Waits
      BY <1>5, <1>9, <2>3, <3>2 DEF Leaves
    <3>4. \A x \in left : /\ x \in InBus \ Waits /\ KeyOf[x] = k
                          /\ \A f \in InBus : ~Precedes(f, x)
      BY <2>1, <3>1, <3>3, InHandIsFirst
    <3> DEFINE served == {}
    <3>5. /\ \A x \in served : /\ x \in Waits \ left /\ KeyOf[x] = k
                               /\ \A f \in InBus \ left : ~Precedes(f, x)
          /\ Told' = [x \in Events |-> IF x \in served THEN "processed" ELSE Told[x]]
      BY <1>2, <2>3 DEF Told
    <3> HIDE DEF left, served
    <3> QED BY <1>1, <2>2, <3>4, <3>5, ServeStep
  <2>4. CASE /\ status' = Resolve(Resolve(status, {e}, "error"), Range(keyQueue[k]), "closed")
             /\ forced \/ MayRaise
    <3> DEFINE failed == {e} \cap Waits
               closed == gone \cap Waits
    <3>1. Told' = [x \in Events |-> IF x \in failed THEN "error"
                                    ELSE IF x \in closed THEN "closed" ELSE Told[x]]
      <4>1. ASSUME NEW x \in Events
            PROVE  Told'[x] = IF x \in failed THEN "error"
                              ELSE IF x \in closed THEN "closed" ELSE Told[x]
        <5>1. status'[x] = IF status[x] # "pending" THEN status[x]
                           ELSE IF x = e THEN "error"
                           ELSE IF x \in Range(keyQueue[k]) THEN "closed" ELSE status[x]
          BY <2>4 DEF Resolve
        <5>2. x \in Waits <=> status[x] = "pending"
          <6>1. status[x] = "pending" => x \in InBus
            BY DEF ShutdownInv, AnswerInv, InBus
          <6> QED BY <1>5, <6>1 DEF Waits
        <5>3. Told[x] = (IF status[x] \in Final THEN status[x] ELSE "none")
              /\ Told'[x] = (IF status'[x] \in Final THEN status'[x] ELSE "none")
          BY DEF Told
        <5> QED BY <1>3, <5>1, <5>2, <5>3
      <4>2. Told' = [x \in Events |-> Told'[x]]
        BY DEF Told
      <4> HIDE DEF failed, closed
      <4> QED BY <4>1, <4>2
    <3>2. /\ closed \subseteq Waits /\ (failed = {} \/ \E x \in closed : failed = {x})
          /\ left \subseteq InBus /\ left \cap Waits \subseteq closed
      OBVIOUS
    <3>3. \/ ~accepting
          \/ MayRaise /\ \E j \in Keys : \A x \in closed \cup left : KeyOf[x] = j
      <4>1. CASE forced
        BY <1>1, <4>1
      <4>2. CASE ~forced
        <5>1. OnePlace(k)
          BY <4>2 DEF ShutdownInv, PlacesInv, Drained
        <5>2. \A x \in gone : KeyOf[x] = k
          BY <2>1, <5>1 DEF OnePlace
        <5> QED BY <2>4, <4>2, <5>2
      <4> QED BY <4>1, <4>2
    <3> HIDE DEF failed, closed, left
    <3> QED BY <1>1, <2>2, <3>1, <3>2, <3>3, WithdrawStep
  <2> QED BY <1>9, <2>3, <2>4 DEF Answers
<1> QED BY <1>7, <1>8, <1>9 DEF Serves

-----------------------------------------------------------------------------
(* Publishers, the dispatcher and aclose. *)

LEMMA NothingMoves ==
  ASSUME UNCHANGED <<admitted, released, ingress, keyQueue, worker>>
  PROVE  InBus' = InBus /\ OrderKept /\ Ahead' = Ahead
<1>1. InBus' = InBus
  BY DEF InBus
<1>2. OrderKept
  BY DEF OrderKept, Precedes, InBus
<1> QED BY <1>1, <1>2, OrderKeptMeansKeep DEF Ahead

\* A publisher is told that its event does not get in, or goes on waiting.
LEMMA TurnedAwayStep ==
  ASSUME BusInv, NEW e \in Events, status[e] \in {"new", "waiting"},
         NEW v \in {"waiting", "overloaded", "closed", "gone"}, v = "closed" => ~accepting,
         status' = [status EXCEPT ![e] = v],
         UNCHANGED <<accepting, admitted, released, ingress, keyQueue, worker>>
  PROVE  Abstract!Next \/ UNCHANGED Abstract!vars
<1>1. InBus' = InBus /\ OrderKept /\ Ahead' = Ahead
  BY NothingMoves
<1>2. /\ status \in [Events -> Statuses] /\ e \notin InBus /\ "waiting" \notin Final
      /\ "new" \notin Final /\ {"overloaded", "closed", "gone"} \subseteq Final
  BY DEF BusInv, TypeOK, WaitersWellFormed, InBus, Final
<1>3. /\ Told = [x \in Events |-> IF status[x] \in Final THEN status[x] ELSE "none"]
      /\ Told' = [x \in Events |-> IF status'[x] \in Final THEN status'[x] ELSE "none"]
  BY DEF Told
<1>4. Told[e] = "none"
  BY <1>2, <1>3
<1>5. CASE v = "waiting"
  <2>1. \A x \in Events : (IF status'[x] \in Final THEN status'[x] ELSE "none")
                          = IF status[x] \in Final THEN status[x] ELSE "none"
    BY <1>2, <1>5
  <2>2. Told' = Told
    BY <1>3, <2>1
  <2> QED BY <1>1, <2>2, StutterStep
<1>6. CASE v # "waiting"
  <2>1. \A x \in Events : (IF status'[x] \in Final THEN status'[x] ELSE "none") = [Told EXCEPT ![e] = v][x]
    BY <1>2, <1>3, <1>6
  <2>2. Told' = [Told EXCEPT ![e] = v]
    BY <1>3, <2>1
  <2>3. Abstract!Refuse(e, v)
    BY <1>1, <1>2, <1>4, <2>2 DEF Abstract!Refuse
  <2> QED BY <1>6, <2>3 DEF Abstract!Next
<1> QED BY <1>5, <1>6

\* An event that gets in goes to the end of its line, behind all that is inside.
LEMMA AdmitStep ==
  ASSUME BusInv, Accounting, ShutdownInv, accepting, free > 0,
         NEW e \in Events, status[e] \in {"new", "waiting"}, Admit(e),
         UNCHANGED <<accepting, keyQueue, worker>>
  PROVE  Abstract!Next
<1>1. e \notin admitted /\ e \notin InBus /\ e \notin released /\ e # NoEvent
  BY EventsAssumption DEF BusInv, WaitersWellFormed, InBus, Accounting, AdmissionAccounting
<1>2. ~Drained
  BY DEF ShutdownInv, CloserInv, Drained
<1>3. /\ ingress' = Append(ingress, e) /\ UNCHANGED released /\ admitted' = admitted \cup {e}
      /\ status' = [status EXCEPT ![e] = "pending"]
  BY DEF Admit, Put
<1>4. InBus' = InBus \cup {e} /\ InBus \subseteq Events
  BY <1>1, <1>3, Whereabouts DEF InBus
<1>5. Told[e] = "none" /\ Told' = Told
  <2>1. status \in [Events -> Statuses] /\ "pending" \notin Final /\ status[e] \notin Final
    BY DEF BusInv, TypeOK, Final
  <2>2. \A x \in Events : (IF status'[x] \in Final THEN status'[x] ELSE "none")
                          = IF status[x] \in Final THEN status[x] ELSE "none"
    BY <1>3, <2>1
  <2> QED BY <2>1, <2>2 DEF Told
<1>6. Cardinality(InBus) < QueueCapacity
  <2>1. /\ outstanding = Cardinality(InBus) /\ free = QueueCapacity - outstanding
        /\ outstanding \in Int /\ QueueCapacity \in Int
    BY BoundsAssumption DEF Accounting, AdmissionAccounting, InBus, BusInv, TypeOK
  <2> QED BY <2>1
<1>7. /\ ingress \in Seq(Events) /\ e \notin Range(ingress)
      /\ \A k \in Keys : e \notin Range(keyQueue[k]) /\ e # worker[k].ev
  BY <1>1 DEF BusInv, TypeOK, InsideAdmitted
<1>8. Range(ingress') = Range(ingress) \cup {e}
  BY <1>3, <1>7, RangeProperties
<1>9. ASSUME NEW x \in InBus \cup {e}, NEW y \in InBus \cup {e}
      PROVE  Precedes(x, y)' <=> \/ x \in InBus /\ y \in InBus /\ Precedes(x, y)
                                 \/ x \in InBus /\ y = e /\ KeyOf[x] = KeyOf[e]
  <2> DEFINE k == KeyOf[y]
  <2>1. k \in Keys
    BY <1>4, KeysAssumption
  <2>2. Earlier(Append(ingress, e), x, y) <=> Earlier(ingress, x, y) \/ (x \in Range(ingress) /\ y = e)
    BY <1>7, EarlierInAppend
  <2>3. /\ Earlier(keyQueue[k], x, y) => x \in Range(keyQueue[k]) /\ y \in Range(keyQueue[k])
        /\ Earlier(ingress, x, y) => x \in Range(ingress) /\ y \in Range(ingress)
    BY EarlierInRange
  <2>4. Precedes(x, y)' <=>
          /\ KeyOf[x] = k
          /\ \/ worker[k].ev = x /\ y # x
             \/ x \in Range(keyQueue[k]) /\ y \in Range(ingress')
             \/ Earlier(keyQueue[k], x, y)
             \/ Earlier(Append(ingress, e), x, y)
    BY <1>3 DEF Precedes
  <2>5. Precedes(x, y) <=>
          /\ KeyOf[x] = k
          /\ \/ worker[k].ev = x /\ y # x
             \/ x \in Range(keyQueue[k]) /\ y \in Range(ingress)
             \/ Earlier(keyQueue[k], x, y)
             \/ Earlier(ingress, x, y)
    BY DEF Precedes
  <2>6. x \in InBus => \/ x \in Range(ingress) \/ x \in Range(keyQueue[KeyOf[x]])
                       \/ worker[KeyOf[x]].ev = x
    BY Whereabouts
  <2>7. y = e => k = KeyOf[e]
    OBVIOUS
  <2> HIDE DEF k
  <2>8. CASE x = e
    BY <1>1, <1>7, <2>1, <2>2, <2>3, <2>4, <2>8
  <2>9. CASE x \in InBus /\ y = e
    BY <1>1, <1>7, <1>8, <2>1, <2>2, <2>4, <2>6, <2>7, <2>9
  <2>10. CASE x \in InBus /\ y \in InBus
    BY <1>1, <1>8, <2>2, <2>4, <2>5, <2>10
  <2> QED BY <1>9, <2>8, <2>9, <2>10
<1>10. Ahead' = Ahead \cup {<<f, e>> : f \in InBus \cap Abstract!OfKey(KeyOf[e])}
  <2>1. Ahead' = {p \in (InBus \cup {e}) \X (InBus \cup {e}) : Precedes(p[1], p[2])'}
    BY <1>4 DEF Ahead
  <2>2. ASSUME NEW x \in InBus \cup {e}, NEW y \in InBus \cup {e}
        PROVE  Precedes(x, y)' <=>
                 <<x, y>> \in Ahead \cup {<<f, e>> : f \in InBus \cap Abstract!OfKey(KeyOf[e])}
    <3>1. <<x, y>> \in Ahead <=> x \in InBus /\ y \in InBus /\ Precedes(x, y)
      BY DEF Ahead
    <3>2. <<x, y>> \in {<<f, e>> : f \in InBus \cap Abstract!OfKey(KeyOf[e])}
            <=> x \in InBus /\ y = e /\ KeyOf[x] = KeyOf[e]
      BY <1>4 DEF Abstract!OfKey
    <3> QED BY <1>9, <3>1, <3>2
  <2>3. Ahead \cup {<<f, e>> : f \in InBus \cap Abstract!OfKey(KeyOf[e])}
          \subseteq (InBus \cup {e}) \X (InBus \cup {e})
    BY DEF Ahead
  <2> QED BY <2>1, <2>2, <2>3
<1>11. Abstract!Cardinality(InBus) = Cardinality(InBus)
  BY DEF Cardinality, Abstract!Cardinality
<1>12. Abstract!Admit(e)
  BY <1>1, <1>4, <1>5, <1>6, <1>10, <1>11 DEF Abstract!Admit
<1> QED BY <1>12 DEF Abstract!Next

LEMMA PublishersRefine ==
  ASSUME BusInv, Accounting, ShutdownInv, Publishers
  PROVE  Abstract!Next \/ UNCHANGED Abstract!vars
<1>1. ASSUME NEW e \in Events, Publish(e) PROVE Abstract!Next \/ UNCHANGED Abstract!vars
  <2>0. status[e] = "new" /\ UNCHANGED <<accepting, keyQueue, worker>>
    BY <1>1 DEF Publish
  <2>1. CASE ~accepting \/ e \in Oversized
    <3> DEFINE v == IF accepting THEN "overloaded" ELSE "closed"
    <3>1. status' = [status EXCEPT ![e] = v] /\ UNCHANGED <<ingress, admitted, released>>
      BY <1>1, <2>1 DEF Publish
    <3>2. v \in {"waiting", "overloaded", "closed", "gone"} /\ (v = "closed" => ~accepting)
      OBVIOUS
    <3> HIDE DEF v
    <3> QED BY <2>0, <3>1, <3>2, TurnedAwayStep
  <2>2. CASE ~(~accepting \/ e \in Oversized) /\ free > 0 /\ waiters = <<>>
    <3>1. Admit(e)
      BY <1>1, <2>2 DEF Publish
    <3> QED BY <2>0, <2>2, <3>1, AdmitStep
  <2>3. CASE ~(~accepting \/ e \in Oversized) /\ ~(free > 0 /\ waiters = <<>>)
    <3> DEFINE v == IF EnqueueWait THEN "waiting" ELSE "overloaded"
    <3>1. status' = [status EXCEPT ![e] = v] /\ UNCHANGED <<ingress, admitted, released>>
      BY <1>1, <2>3 DEF Publish
    <3>2. v \in {"waiting", "overloaded", "closed", "gone"} /\ v # "closed"
      OBVIOUS
    <3> HIDE DEF v
    <3> QED BY <2>0, <3>1, <3>2, TurnedAwayStep
  <2> QED BY <2>1, <2>2, <2>3
<1>2. CASE CapacityGranted
  <2>1. waiters \in Seq(Events) /\ waiters # <<>> /\ free > 0
    BY <1>2 DEF CapacityGranted, BusInv, TypeOK
  <2>2. PICK e \in Events : e = Head(waiters) /\ status[e] = "waiting"
    BY <2>1, RangeProperties, HeadTailProperties DEF BusInv, WaitersWellFormed
  <2>3. UNCHANGED <<accepting, keyQueue, worker>>
    BY <1>2 DEF CapacityGranted, busVars
  <2>4. CASE accepting
    <3>1. Admit(e)
      BY <1>2, <2>2, <2>4 DEF CapacityGranted, StillAccepting
    <3> QED BY <2>1, <2>2, <2>3, <2>4, <3>1, AdmitStep
  <2>5. CASE ~accepting
    <3>1. /\ status' = [status EXCEPT ![e] = "closed"]
          /\ UNCHANGED <<ingress, admitted, released>>
      BY <1>2, <2>2, <2>5 DEF CapacityGranted, StillAccepting
    <3> QED BY <2>2, <2>3, <2>5, <3>1, TurnedAwayStep
  <2> QED BY <2>4, <2>5
<1>3. ASSUME NEW e \in Events, NEW v \in {"overloaded", "gone"}, LeaveWaiting(e, v)
      PROVE  Abstract!Next \/ UNCHANGED Abstract!vars
  <2>1. /\ status[e] = "waiting" /\ status' = [status EXCEPT ![e] = v]
        /\ UNCHANGED <<accepting, admitted, released, ingress, keyQueue, worker>>
    BY <1>3 DEF LeaveWaiting, busVars, queueVars
  <2> QED BY <2>1, TurnedAwayStep
<1> QED BY <1>1, <1>2, <1>3 DEF Publishers, EnqueueTimeout, PublisherCancelled

LEMMA StatusKept ==
  ASSUME UNCHANGED <<accepting, status, admitted, released, ingress, keyQueue, worker>>
  PROVE  UNCHANGED Abstract!vars
<1>1. Told' = Told
  BY DEF Told
<1> QED BY <1>1, NothingMoves, StutterStep

LEMMA DrainRefines ==
  ASSUME BusInv, ShutdownInv, Drain, ~accepting, UNCHANGED <<accepting, admitted>>
  PROVE  Abstract!Next
<1>1. /\ Answered(Left, "closed") /\ released' = released \cup Left
  BY DEF Drain, Release, Answered
<1>2. InBus \subseteq Events
  BY Whereabouts
<1>3. InBus \subseteq Left
  <2>1. ASSUME NEW e \in InBus PROVE e \in Left
    <3>1. e # NoEvent /\ KeyOf[e] \in Keys
      BY <1>2, EventsAssumption, KeysAssumption
    <3>2. \/ e \in Range(ingress)
          \/ e \in Range(keyQueue[KeyOf[e]])
          \/ worker[KeyOf[e]].ev = e
      BY Whereabouts
    <3> QED BY <3>1, <3>2 DEF Left
  <2> QED BY <2>1
<1>4. InBus' = {} /\ OrderKept
  BY <1>1, <1>3 DEF InBus, OrderKept
<1>5. "closed" \in Final
  BY DEF Final
<1>6. Told' = [e \in Events |-> IF e \in Left \cap Waits THEN "closed" ELSE Told[e]]
  BY <1>1, <1>5, AnsweredTold
<1> DEFINE closed == Left \cap Waits
           failed == {}
           left == InBus
<1>7. /\ closed \subseteq Waits /\ failed = {} /\ left \subseteq InBus
      /\ left \cap Waits \subseteq closed /\ InBus' = InBus \ left
  BY <1>3, <1>4 DEF Waits
<1>8. Told' = [e \in Events |-> IF e \in failed THEN "error"
                                ELSE IF e \in closed THEN "closed" ELSE Told[e]]
  BY <1>6
<1> HIDE DEF closed, failed, left
<1> QED BY <1>2, <1>4, <1>7, <1>8, WithdrawStep

LEMMA CloserRefines ==
  ASSUME BusInv, ShutdownInv, CloseBegin \/ CloserStep
  PROVE  Abstract!Next \/ UNCHANGED Abstract!vars
<1>1. CASE CloseBegin
  <2>1. /\ accepting /\ accepting' = FALSE
        /\ UNCHANGED <<status, admitted, released, ingress, keyQueue, worker>>
    BY <1>1 DEF CloseBegin, admissionVars, queueVars
  <2>2. InBus' = InBus /\ Ahead' = Ahead /\ Told' = Told
    BY <2>1, NothingMoves DEF Told
  <2>3. Abstract!Close
    BY <2>1, <2>2 DEF Abstract!Close
  <2> QED BY <2>3 DEF Abstract!Next
<1>2. CASE CloseIdle \/ CloseOpsDrained \/ ForceJoin \/ CloseDone
  <2>1. UNCHANGED <<accepting, status, admitted, released, ingress, keyQueue, worker>>
    BY <1>2 DEF CloseIdle, CloseOpsDrained, ForceJoin, CloseDone, admissionVars, queueVars
  <2> QED BY <2>1, StatusKept
<1>3. CASE CloseTimeout
  <2>1. CASE ops = {}
    <3>1. Drain /\ ~accepting /\ UNCHANGED <<accepting, admitted>>
      BY <1>3, <2>1 DEF CloseTimeout, ShutdownInv, CloserInv
    <3> QED BY <3>1, DrainRefines
  <2>2. CASE ops # {}
    <3>1. UNCHANGED <<accepting, status, admitted, released, ingress, keyQueue, worker>>
      BY <1>3, <2>2 DEF CloseTimeout, queueVars
    <3> QED BY <3>1, StatusKept
  <2> QED BY <2>1, <2>2
<1>4. CASE ForceDrain
  <2>1. Drain /\ ~accepting /\ UNCHANGED <<accepting, admitted>>
    BY <1>4 DEF ForceDrain, ShutdownInv, CloserInv
  <2> QED BY <2>1, DrainRefines
<1> QED BY <1>1, <1>2, <1>3, <1>4 DEF CloserStep

LEMMA NextRefines ==
  ASSUME BusInv, Accounting, ShutdownInv, GraceInv, [Next]_vars
  PROVE  [Abstract!Next]_(Abstract!vars)
<1>1. CASE Publishers
  BY <1>1, PublishersRefine
<1>2. CASE DispatcherTurn
  <2>1. UNCHANGED <<accepting, status>>
    BY <1>2 DEF DispatcherTurn, busVars, admissionVars
  <2>2. Told' = Told
    BY <2>1 DEF Told
  <2> QED BY <1>2, <2>1, <2>2, DispatcherTurnKeepsOrder, StutterStep
<1>3. ASSUME NEW k \in Keys, WorkerStep(k) \/ CallbackStep(k)
      PROVE  Abstract!Next \/ UNCHANGED Abstract!vars
  BY <1>3, KeyStepServes, KeyStepAnswers, KeyStepRefines
<1>4. CASE Subscriptions \/ (\E o \in ops : StrayOperationEnds(o)) \/ UNCHANGED vars
  <2>1. UNCHANGED <<accepting, status, admitted, released, ingress, keyQueue, worker>>
    BY <1>4 DEF Subscriptions, Subscribe, Unsubscribe, StrayOperationEnds, vars, busVars,
                admissionVars, queueVars
  <2> QED BY <2>1, StatusKept
<1>5. CASE CloseBegin \/ CloserStep
  BY <1>5, CloserRefines
<1> QED BY <1>1, <1>2, <1>3, <1>4, <1>5 DEF Next

LEMMA NextKeepsGrace ==
  ASSUME BusInv, ShutdownInv, GraceInv, [Next]_vars
  PROVE  GraceInv'
<1>0. worker \in [Keys -> Workers] /\ CloserInv
  BY DEF BusInv, TypeOK, ShutdownInv
<1>1. ASSUME NEW k \in Keys, WorkerStep(k) \/ CallbackStep(k) PROVE GraceInv'
  <2>1. Serves(k) /\ Answers(k)
    BY <1>1, KeyStepServes, KeyStepAnswers
  <2>2. worker'[k].pc = "cancelGrace" => forced
    BY <1>0, <2>1 DEF Answers, GraceInv, CloserInv
  <2> QED BY <2>1, <2>2 DEF Serves, GraceInv
<1>2. CASE DispatcherTurn
  <2>1. forced' = forced
    BY <1>2 DEF DispatcherTurn, busVars
  <2>2. PICK j : worker' = worker \/ worker' = [worker EXCEPT ![j].pc = "created"]
    BY <1>2 DEF DispatcherTurn
  <2>3. \A k \in Keys : worker'[k].pc = "cancelGrace" => worker[k].pc = "cancelGrace"
    BY <1>0, <2>2 DEF Workers
  <2> QED BY <2>1, <2>3 DEF GraceInv
<1>3. ASSUME worker' = worker, forced => forced' PROVE GraceInv'
  BY <1>3 DEF GraceInv
<1>4. CASE Publishers \/ Subscriptions \/ (\E o \in ops : StrayOperationEnds(o)) \/ UNCHANGED vars
  BY <1>3, <1>4 DEF Publishers, Publish, CapacityGranted, EnqueueTimeout, PublisherCancelled,
                    LeaveWaiting, Subscriptions, Subscribe, Unsubscribe, StrayOperationEnds,
                    vars, busVars
<1>5. CASE CloseBegin \/ CloserStep
  BY <1>3, <1>5 DEF CloseBegin, CloserStep, CloseIdle, CloseOpsDrained, CloseTimeout,
                    ForceDrain, ForceJoin, CloseDone
<1> QED BY <1>1, <1>2, <1>4, <1>5 DEF Next

\* Dispatcher, key queues, workers, barriers and semaphores together keep what publish
\* promises: events are admitted within the capacity, answered and released in the order
\* of their admission per ordering key, and taken out of turn only by a close or by a
\* callback that raised CancelledError.
THEOREM OrderIsKept == Spec => KeepsOrder
<1>1. Init => Abstract!Init
  <2>1. SUFFICES ASSUME Init PROVE Abstract!Init
    OBVIOUS
  <2>2. InBus = {} /\ accepting = TRUE /\ Ahead = {}
    BY <2>1 DEF Init, InBus, Ahead
  <2>3. Told = [e \in Events |-> "none"]
    BY <2>1 DEF Init, Told, Final
  <2> QED BY <2>2, <2>3 DEF Abstract!Init
<1>2. Init => GraceInv
  <2>1. NoWorker.pc = "none"
    BY DEF NoWorker, Suspended
  <2> QED BY <2>1 DEF Init, GraceInv
<1>3. BusInv /\ ShutdownInv /\ GraceInv /\ [Next]_vars => GraceInv'
  BY NextKeepsGrace
<1>4. BusInv /\ Accounting /\ ShutdownInv /\ GraceInv /\ [Next]_vars
        => [Abstract!Next]_(Abstract!vars)
  BY NextRefines
<1> QED BY <1>1, <1>2, <1>3, <1>4, ShutdownHolds, PTL DEF Spec, KeepsOrder, Abstract!Spec

\* In a list without duplicates Earlier is a strict order of all elements.
LEMMA EarlierIsAnOrder ==
  ASSUME NEW S, NEW s \in Seq(S), NoDuplicates(s)
  PROVE  /\ \A e : ~Earlier(s, e, e)
         /\ \A e, f : Earlier(s, e, f) => ~Earlier(s, f, e)
         /\ \A e, f, g : Earlier(s, e, f) /\ Earlier(s, f, g) => Earlier(s, e, g)
         /\ \A e, f \in Range(s) : e # f => Earlier(s, e, f) \/ Earlier(s, f, e)
<1>1. DOMAIN s = 1..Len(s) /\ Len(s) \in Nat
  BY LenProperties
<1>2. ASSUME NEW e, NEW f, NEW g, Earlier(s, e, f), Earlier(s, f, g)
      PROVE  Earlier(s, e, g) /\ e # g
  <2>1. PICK i, j \in DOMAIN s : i < j /\ s[i] = e /\ s[j] = f
    BY <1>2 DEF Earlier
  <2>2. PICK m, n \in DOMAIN s : m < n /\ s[m] = f /\ s[n] = g
    BY <1>2 DEF Earlier
  <2>3. j = m
    BY <2>1, <2>2 DEF NoDuplicates
  <2>4. i < n
    BY <1>1, <2>1, <2>2, <2>3
  <2>5. e # g
    BY <1>1, <2>1, <2>2, <2>4 DEF NoDuplicates
  <2> QED BY <2>1, <2>2, <2>4, <2>5 DEF Earlier
<1>3. ASSUME NEW e, Earlier(s, e, e) PROVE FALSE
  BY <1>2, <1>3
<1>4. ASSUME NEW e \in Range(s), NEW f \in Range(s), e # f
      PROVE  Earlier(s, e, f) \/ Earlier(s, f, e)
  <2>1. PICK i, j \in DOMAIN s : s[i] = e /\ s[j] = f
    BY DEF Range
  <2>2. i < j \/ j < i
    BY <1>1, <1>4, <2>1
  <2> QED BY <2>1, <2>2 DEF Earlier
<1> QED BY <1>2, <1>3, <1>4

\* The events of one key that are inside the bus stand in one line.
OneLine ==
  \A e, f \in InBus :
    /\ ~Precedes(e, e)
    /\ e # f /\ KeyOf[e] = KeyOf[f] => (Precedes(e, f) <=> ~Precedes(f, e))
    /\ \A g \in InBus : Precedes(e, f) /\ Precedes(f, g) => Precedes(e, g)

LEMMA PrecedesIsAnOrder ==
  ASSUME BusInv, ShutdownInv
  PROVE  OneLine
<1>1. CASE Drained
  BY <1>1, Whereabouts DEF OneLine
<1>2. CASE ~Drained
  <2>1. ASSUME NEW e \in InBus, NEW f \in InBus, NEW g \in InBus,
               KeyOf[e] = KeyOf[f], KeyOf[f] = KeyOf[g]
        PROVE  /\ ~Precedes(e, e)
               /\ e # f => (Precedes(e, f) <=> ~Precedes(f, e))
               /\ Precedes(e, f) /\ Precedes(f, g) => Precedes(e, g)
    <3> DEFINE k == KeyOf[e]
               q == keyQueue[k]
               h == worker[k].ev
    <3>0. k \in Keys /\ {e, f, g} \subseteq Events
      BY <2>1, Whereabouts, KeysAssumption
    <3>1. /\ NoDuplicates(q) /\ NoDuplicates(ingress) /\ q \in Seq(Events) /\ ingress \in Seq(Events)
          /\ \A x \in Range(q) : x \notin Range(ingress) /\ x # h
          /\ h \in InBus => h \notin Range(ingress)
      BY <1>2, <3>0, Whereabouts, EventsAssumption
         DEF ShutdownInv, PlacesInv, OnePlace, IngressFresh, BusInv, TypeOK
    <3>2. \A x \in {e, f, g} : x \in Range(ingress) \/ x \in Range(q) \/ h = x
      BY <2>1, Whereabouts
    <3>3. /\ \A x : ~Earlier(q, x, x)
          /\ \A x, y : Earlier(q, x, y) => ~Earlier(q, y, x)
          /\ \A x, y, z : Earlier(q, x, y) /\ Earlier(q, y, z) => Earlier(q, x, z)
          /\ \A x, y \in Range(q) : x # y => Earlier(q, x, y) \/ Earlier(q, y, x)
      <4> HIDE DEF q
      <4> QED BY <3>1, EarlierIsAnOrder
    <3>4. /\ \A x : ~Earlier(ingress, x, x)
          /\ \A x, y : Earlier(ingress, x, y) => ~Earlier(ingress, y, x)
          /\ \A x, y, z : Earlier(ingress, x, y) /\ Earlier(ingress, y, z) => Earlier(ingress, x, z)
          /\ \A x, y \in Range(ingress) : x # y => Earlier(ingress, x, y) \/ Earlier(ingress, y, x)
      BY <3>1, EarlierIsAnOrder
    <3>5. /\ \A x, y : Earlier(q, x, y) => x \in Range(q) /\ y \in Range(q)
          /\ \A x, y : Earlier(ingress, x, y) => x \in Range(ingress) /\ y \in Range(ingress)
      BY EarlierInRange
    <3>6. \A x, y \in {e, f, g} :
            Precedes(x, y) <=> \/ h = x /\ y # x
                               \/ x \in Range(q) /\ y \in Range(ingress)
                               \/ Earlier(q, x, y)
                               \/ Earlier(ingress, x, y)
      BY <2>1 DEF Precedes
    <3> HIDE DEF q, h
    <3>7. ~Precedes(e, e)
      BY <3>1, <3>3, <3>4, <3>6
    <3>8. ASSUME e # f PROVE Precedes(e, f) <=> ~Precedes(f, e)
      BY <2>1, <3>1, <3>2, <3>3, <3>4, <3>5, <3>6, <3>8
    <3>9. ASSUME Precedes(e, f), Precedes(f, g) PROVE Precedes(e, g)
      BY <2>1, <3>1, <3>2, <3>3, <3>4, <3>5, <3>6, <3>9
    <3> QED BY <3>7, <3>8, <3>9
  <2>2. \A e, f : Precedes(e, f) => KeyOf[e] = KeyOf[f]
    BY DEF Precedes
  <2> QED BY <2>1, <2>2 DEF OneLine
<1> QED BY <1>1, <1>2

\* Whatever the dispatcher, the queues and the workers hold at a moment, the events of an
\* ordering key that have their admission stand in one line: the order that OrderIsKept
\* speaks of is total on each key, so that its head is one event.
THEOREM LinesAreOrders == Spec => []OneLine
<1>1. BusInv /\ ShutdownInv => OneLine
  BY PrecedesIsAnOrder
<1> QED BY <1>1, ShutdownHolds, PTL
=============================================================================
