--------------------------- MODULE EventBusProps ---------------------------
(***************************************************************************)
(* What the event bus promises, stated over EventBus.                      *)
(***************************************************************************)
EXTENDS EventBus

Closers == {"open", "waitIdle", "drainOps", "forceOps", "forceWorkers",
            "stopDispatcher", "done"}

\* Every variable stays within the values the code gives it.
TypeOK ==
  /\ accepting \in BOOLEAN /\ forced \in BOOLEAN /\ dispatcher \in BOOLEAN
  /\ closer \in Closers
  /\ handlers \subseteq Handlers /\ nextSub \in 1..(MaxSubscriptions + 1)
  /\ free \in Int /\ outstanding \in Int /\ slots \in Int
  /\ waiters \in Seq(Events) /\ ingress \in Seq(Events)
  /\ keyQueue \in [Keys -> Seq(Events)]
  /\ worker \in [Keys -> Workers] /\ cancelled \subseteq Keys
  /\ slotWaiters \in Seq(Keys)
  /\ ops \subseteq Operations
  /\ status \in [Events -> Statuses]
  /\ admitted \subseteq Events /\ released \subseteq Events

NoDuplicates(s) == \A i, j \in DOMAIN s : s[i] = s[j] => i = j

\* What publishers wait for and what was admitted exclude each other.
WaitersWellFormed ==
  /\ NoDuplicates(waiters)
  /\ \A e \in Range(waiters) : status[e] = "waiting"
  /\ \A e \in Events : status[e] = "waiting" => e \in Range(waiters)
  /\ \A e \in admitted : status[e] \notin {"new", "waiting"}

\* Only admitted events are inside the bus.
InsideAdmitted ==
  /\ Range(ingress) \subseteq admitted
  /\ \A k \in Keys : Range(keyQueue[k]) \subseteq admitted
  /\ \A k \in Keys : worker[k].ev \in admitted \cup {NoEvent}

\* What the local state of a worker says about where it is suspended.
WorkersWellFormed ==
  /\ \A k \in Keys : worker[k].pc \notin {"none", "created", "dead"} <=> worker[k].ev # NoEvent
  /\ \A k \in Keys : HoldsSlot(k) => worker[k].op \in Operations
  /\ \A k \in Keys : worker[k].pc = "created" /\ k \notin cancelled => keyQueue[k] # <<>>
  /\ NoDuplicates(slotWaiters)
  /\ \A k \in Keys : worker[k].pc = "acquire" <=> k \in Range(slotWaiters)

\* The invariant that TypeOK and AdmissionAccounting need to be inductive.
BusInv == TypeOK /\ WaitersWellFormed /\ InsideAdmitted /\ WorkersWellFormed

\* Admission accounting of publish, _finish_queued and _close_queued: however an event
\* leaves the bus (dispatched, drained by a forced close, dropped with its cancelled
\* worker, several of these in turn) its admission is given back exactly once, so the
\* semaphore and the counter always agree with the events that are really inside.
AdmissionAccounting ==
  /\ released \subseteq admitted
  /\ outstanding = Cardinality(admitted \ released)
  /\ free = QueueCapacity - outstanding
  /\ free >= 0

\* The concurrency semaphore of _run_key_queue: whatever ends a dispatch, the slot goes
\* back, so its value always is the limit minus the workers inside the async with.
SlotAccounting ==
  /\ slots >= 0
  /\ slots + Cardinality({k \in Keys : HoldsSlot(k)}) = MaxConcurrent

\* An event the bus still owes an answer or an admission is always in the hands of a task
\* that will serve it: the dispatcher, a living worker of its key, or the forced close
\* that has still to drain the queues.  (A worker cancelled before its first step dies
\* without serving its queue.)
NothingStranded ==
  \A e \in admitted \ released :
    LET k == KeyOf[e] IN
    \/ e \in Range(ingress) /\ dispatcher
    \/ e \in Range(keyQueue[k]) /\ (Alive(k) \/ closer = "forceOps")
    \/ worker[k].ev = e /\ Alive(k)

\* The ordering-key barrier of _wait_for_barriers: while an operation of an event still
\* runs, no operation of a later event of the same key is awaited, and the event keeps its
\* admission, so that queue_capacity also bounds the work that timeouts left behind; only a
\* forced close gives admissions back earlier.
KeyBarrier ==
  /\ \A k \in Keys, o \in ops :
       worker[k].pc \in {"op", "grace"} /\ KeyOf[o.ev] = k => o.ev = worker[k].ev
  /\ \A o \in ops : o.ev \in released => forced

\* After aclose returns every admitted event has been answered and released and no
\* worker, no queued event and no undelivered cancellation is left.
ClosedMeansQuiet ==
  closer = "done" =>
    /\ admitted = released
    /\ \A e \in Events : status[e] # "pending"
    /\ \A k \in Keys : ~Alive(k) /\ keyQueue[k] = <<>>
    /\ ingress = <<>> /\ ~dispatcher

\* A publisher's answer is final: set_result and set_exception are guarded by done(), so
\* a worker that unwinds late never overwrites what the forced close reported.
AnswersAreFinal ==
  [][\A e \in Events : status[e] \in Final => status'[e] = status[e]]_vars

\* No event is admitted once aclose began, not even for a publisher that was already
\* waiting for capacity: _accepting is read again after the wait.
NoAdmissionAfterClose ==
  [][~accepting => admitted' = admitted]_vars

\* The events that hold an admission.
InBus == admitted \ released

Earlier(s, e, f) == \E i, j \in DOMAIN s : i < j /\ s[i] = e /\ s[j] = f

\* Event e will be served before event f: what the worker of a key has in its hands comes
\* first, then what is queued for the key, then what the dispatcher has not yet moved.
Precedes(e, f) ==
  LET k == KeyOf[f] IN
  /\ KeyOf[e] = k
  /\ \/ worker[k].ev = e /\ f # e
     \/ e \in Range(keyQueue[k]) /\ f \in Range(ingress)
     \/ Earlier(keyQueue[k], e, f)
     \/ Earlier(ingress, e, f)

Ahead == {p \in InBus \X InBus : Precedes(p[1], p[2])}

Told == [e \in Events |-> IF status[e] \in Final THEN status[e] ELSE "none"]

Abstract == INSTANCE OrderedDelivery WITH
  Capacity <- QueueCapacity,
  open <- accepting,
  inside <- InBus,
  ahead <- Ahead,
  answer <- Told

\* The bus implements OrderedDelivery: dispatcher, key queues, workers, barriers and
\* semaphores together keep first-in first-out order per key and bound the admissions.
KeepsOrder == Abstract!Spec

\* aclose returns, whatever the callbacks do: a handler that never ends and ignores its
\* cancellation costs shutdown a bounded number of grace periods.  If callbacks end once
\* cancelled, every admitted event is answered and gives its admission back: no lost wake-up
\* between dispatcher, key queue and worker.
EveryoneAnswered ==
  /\ ~accepting ~> closer = "done"
  /\ CallbacksEnd =>
       \A e \in Events : e \in admitted ~> status[e] \in Final /\ e \in released
=============================================================================
