------------------------------ MODULE EventBus ------------------------------
(***************************************************************************)
(* The bounded event dispatcher of the kernel (events/bus.py): publishers  *)
(* acquire an admission, one dispatcher task moves admitted events to a    *)
(* queue per ordering key, and one worker task per busy key dispatches     *)
(* them in order, running handlers and then the actions they return.       *)
(*                                                                         *)
(* asyncio is cooperative, so an action of this module is everything a     *)
(* task does between two suspensions.  A callback (handler or action       *)
(* executor) is an operation: a task of its own that is awaited with a     *)
(* timeout, then cancelled and given a grace period, and that may go on    *)
(* running after both.  Timers are nondeterministic choices.               *)
(***************************************************************************)
EXTENDS Integers, Sequences, FiniteSets, Functions

CONSTANTS
  Events,         \* events handed to publish, each of them once
  Keys,           \* ordering keys (runtime, bot, conversation)
  KeyOf,          \* the ordering key of every event
  Oversized,      \* the events whose JSON is over the byte budget
  QueueCapacity,  \* queue_capacity
  MaxConcurrent,  \* max_concurrent_events
  EnqueueWait,    \* is enqueue_timeout positive?
  Orders,         \* values of the order argument of subscribe
  MaxSubscriptions, \* bound on the number of subscribe calls
  MaxActions,     \* bound on the actions one handler result carries
  MayRaise,       \* may a callback end by raising CancelledError itself?
  NoEvent         \* stands for no event

ASSUME EventsAssumption == NoEvent \notin Events
ASSUME KeysAssumption == KeyOf \in [Events -> Keys] /\ Oversized \subseteq Events
ASSUME BoundsAssumption ==
  /\ QueueCapacity \in Nat \ {0}
  /\ MaxConcurrent \in Nat \ {0}
  /\ Orders \subseteq Nat
  /\ MaxSubscriptions \in Nat
  /\ MaxActions \in Nat
ASSUME FlagsAssumption == EnqueueWait \in BOOLEAN /\ MayRaise \in BOOLEAN

VARIABLES
  accepting,    \* _accepting
  forced,       \* _forced_close
  closer,       \* where the one effective aclose call stands
  dispatcher,   \* does the dispatcher task exist?
  handlers,     \* _handlers: the set of registrations, always used in Before order
  nextSub,      \* _next_subscription_id
  free,         \* value of the _capacity semaphore
  waiters,      \* publishers waiting for _capacity, first come first served
  outstanding,  \* _outstanding; _idle is set exactly when it is 0
  ingress,      \* _ingress
  keyQueue,     \* _key_queues, empty when the key has none
  worker,       \* _key_workers and the local state of each worker
  cancelled,    \* keys whose worker has a cancellation it has not received
  slots,        \* value of the _concurrency semaphore
  slotWaiters,  \* keys whose worker waits for _concurrency, in order
  ops,          \* operation tasks that still run (_operation_tasks)
  status,       \* what each publisher got, or how far its event is
  admitted,     \* events that became a _QueuedEvent
  released      \* those with completed = True: admission given back

vars == <<accepting, forced, closer, dispatcher, handlers, nextSub, free, waiters,
          outstanding, ingress, keyQueue, worker, cancelled, slots, slotWaiters,
          ops, status, admitted, released>>

busVars == <<accepting, forced, closer, dispatcher>>
handlerVars == <<handlers, nextSub>>
admissionVars == <<free, waiters, outstanding, status, admitted, released>>
queueVars == <<ingress, keyQueue>>
slotVars == <<slots, slotWaiters>>

-----------------------------------------------------------------------------
(* Data. *)

Handlers == [order : Orders, id : 1..MaxSubscriptions]

Before(h, g) == h.order < g.order \/ (h.order = g.order /\ h.id < g.id)

\* The registration that the sorted list holds first: none of an empty list, else one.
First(hs) == {h \in hs : \A g \in hs \ {h} : Before(h, g)}

\* An operation: the handler call itself (action = 0) or one of its actions.
Operations == [ev : Events, handler : 1..MaxSubscriptions, action : 0..MaxActions]

NoOperation == [ev |-> NoEvent, handler |-> 0, action |-> 0]

PCs == {"none", "created", "acquire", "op", "grace", "cancelGrace", "settle", "dead"}

Workers == [pc : PCs, ev : Events \cup {NoEvent}, todo : SUBSET Handlers,
            acts : 0..MaxActions, stop : BOOLEAN,
            op : Operations \cup {NoOperation}, barriers : SUBSET Operations]

\* A worker that is suspended at pc with event e in flight.
Suspended(pc, e, barriers) ==
  [pc |-> pc, ev |-> e, todo |-> {}, acts |-> 0, stop |-> FALSE,
   op |-> NoOperation, barriers |-> barriers]

NoWorker == Suspended("none", NoEvent, {})

\* The sequence s, which has no duplicates, with x taken out.
Without(s, x) ==
  LET i == CHOOSE j \in DOMAIN s : s[j] = x
  IN  SubSeq(s, 1, i - 1) \o SubSeq(s, i + 1, Len(s))

Alive(k) == worker[k].pc \notin {"none", "dead"}

HoldsSlot(k) == worker[k].pc \in {"op", "grace", "cancelGrace"}

Final == {"processed", "closed", "overloaded", "error", "gone"}

Statuses == {"new", "waiting", "pending"} \cup Final

-----------------------------------------------------------------------------
(* Steps shared by several actions. *)

\* Mutant: the completed flag is not looked at.
ReleaseAgain(S) ==
  /\ released' = released \cup S
  /\ outstanding' = outstanding - Cardinality(S)
  /\ free' = free + Cardinality(S)

\* _finish_queued for every event of S: admission is given back once per event.
Release(S) ==
  LET fresh == S \ released IN
  /\ released' = released \cup fresh
  /\ outstanding' = outstanding - Cardinality(fresh)
  /\ free' = free + Cardinality(fresh)

\* Mutant: done() of the future is not looked at.
ResolveAnyway(st, S, verdict) == [e \in Events |-> IF e \in S THEN verdict ELSE st[e]]

\* Resolve the futures of S that are still pending, on top of the statuses st.
Resolve(st, S, verdict) ==
  [e \in Events |-> IF e \in S /\ st[e] = "pending" THEN verdict ELSE st[e]]

\* Does an action of this dispatch still run after its timeout?
Blocked(w, live) == \E b \in w.barriers \cap live : b.action > 0

\* The actions that _dispatch will still start: none while an earlier one runs, they
\* are then all reported ACTION_BLOCKED.
ActionsLeft(w, live) == IF Blocked(w, live) THEN 0 ELSE w.acts

\* Worker k suspends in the operation of w.
Await(k, w, live, heldSlots) ==
  /\ worker' = [worker EXCEPT ![k] = w]
  /\ ops' = live \cup {w.op}
  /\ slots' = heldSlots
  /\ UNCHANGED status

\* Worker k, which holds a slot, runs _dispatch on from w to its next suspension when
\* live is what still runs: the next action, else the next handler of the snapshot, else
\* the end of the dispatch with the slot returned and the future resolved.
Continue(k, w, live, heldSlots) ==
  \/ LET acts == ActionsLeft(w, live) IN
     /\ acts > 0
     /\ Await(k, [w EXCEPT !.pc = "op", !.acts = acts - 1, !.op.action = acts],
              live, heldSlots)
  \/ /\ ActionsLeft(w, live) = 0 /\ ~w.stop
     /\ \E h \in First(w.todo) :
          Await(k, [w EXCEPT !.pc = "op", !.acts = 0, !.todo = @ \ {h},
                             !.op = [ev |-> w.ev, handler |-> h.id, action |-> 0]],
                live, heldSlots)
  \/ /\ ActionsLeft(w, live) = 0 /\ (w.stop \/ w.todo = {})
     /\ worker' = [worker EXCEPT ![k] = Suspended("settle", w.ev, w.barriers)]
     /\ ops' = live
     /\ slots' = heldSlots + 1
     /\ status' = Resolve(status, {w.ev}, "processed")

\* The head of _dispatch, with the slot just acquired.
BeginDispatch(k, e, heldSlots) ==
  IF forced
  THEN /\ worker' = [worker EXCEPT ![k] = Suspended("settle", e, {})]
       /\ slots' = heldSlots + 1
       /\ status' = Resolve(status, {e}, "closed")
       /\ UNCHANGED ops
  ELSE Continue(k, [Suspended("op", e, {}) EXCEPT !.todo = handlers], ops, heldSlots)

\* One turn of the loop of _run_key_queue: pop the next event and acquire a slot.
TakeNext(k) ==
  LET e == Head(keyQueue[k]) IN
  /\ keyQueue' = [keyQueue EXCEPT ![k] = Tail(@)]
  /\ IF slots > 0 /\ slotWaiters = <<>>
     THEN BeginDispatch(k, e, slots - 1) /\ UNCHANGED slotWaiters
     ELSE /\ worker' = [worker EXCEPT ![k] = Suspended("acquire", e, {})]
          /\ slotWaiters' = Append(slotWaiters, k)
          /\ UNCHANGED <<slots, status, ops>>

\* Mutant: the slot of a cancelled dispatch is lost.
SlotsKept(k) == slots

\* async with self._concurrency: the slot goes back if it was acquired.
SlotsAfterExit(k) == IF HoldsSlot(k) THEN slots + 1 ELSE slots

\* CancelledError leaves the worker: its future gets the exception, its admission
\* and slot are given back, the rest of the key queue is closed.
Exit(k, live) ==
  LET e == worker[k].ev
      rest == Range(keyQueue[k])
  IN  /\ status' = Resolve(Resolve(status, {e}, "error"), rest, "closed")
      /\ Release({e} \cup rest)
      /\ keyQueue' = [keyQueue EXCEPT ![k] = <<>>]
      /\ worker' = [worker EXCEPT ![k] = NoWorker]
      /\ slots' = SlotsAfterExit(k)
      /\ slotWaiters' = IF worker[k].pc = "acquire" THEN Without(slotWaiters, k)
                         ELSE slotWaiters
      /\ ops' = live

\* Mutant: last in, first out.
PutFirst(queue, e) == <<e>> \o queue

\* put_nowait of asyncio.Queue and append of deque.
Put(queue, e) == Append(queue, e)

\* publish after the capacity was acquired: the event becomes a _QueuedEvent.
Admit(e) ==
  /\ free' = free - 1
  /\ outstanding' = outstanding + 1
  /\ admitted' = admitted \cup {e}
  /\ ingress' = Put(ingress, e)
  /\ status' = [status EXCEPT ![e] = "pending"]
  /\ UNCHANGED released

-----------------------------------------------------------------------------
(* Subscriptions. *)

Subscribe(o) ==
  /\ nextSub <= MaxSubscriptions
  /\ handlers' = handlers \cup {[order |-> o, id |-> nextSub]}
  /\ nextSub' = nextSub + 1
  /\ UNCHANGED <<busVars, admissionVars, queueVars, worker, cancelled, slotVars, ops>>

Unsubscribe(h) ==
  /\ handlers' = handlers \ {h}
  /\ UNCHANGED <<nextSub, busVars, admissionVars, queueVars, worker, cancelled,
                 slotVars, ops>>

-----------------------------------------------------------------------------
(* Publishers. *)

\* publish up to its first suspension.
Publish(e) ==
  /\ status[e] = "new"
  /\ IF ~accepting \/ e \in Oversized
     THEN /\ status' = [status EXCEPT ![e] = IF accepting THEN "overloaded" ELSE "closed"]
          /\ UNCHANGED <<dispatcher, free, waiters, outstanding, ingress, admitted, released>>
     ELSE /\ dispatcher' = TRUE
          /\ IF free > 0 /\ waiters = <<>>
             THEN Admit(e) /\ UNCHANGED waiters
             ELSE /\ status' = [status EXCEPT ![e] = IF EnqueueWait THEN "waiting"
                                                                    ELSE "overloaded"]
                  /\ waiters' = IF EnqueueWait THEN Append(waiters, e) ELSE waiters
                  /\ UNCHANGED <<free, outstanding, ingress, admitted, released>>
  /\ UNCHANGED <<accepting, forced, closer, handlerVars, keyQueue, worker, cancelled,
                 slotVars, ops>>

\* Is the bus still accepting when the capacity is granted?
StillAccepting == accepting

\* The first waiter is handed the capacity it waits for; the bus may have closed.
CapacityGranted ==
  /\ waiters # <<>> /\ free > 0
  /\ waiters' = Tail(waiters)
  /\ LET e == Head(waiters) IN
     IF StillAccepting
     THEN Admit(e)
     ELSE /\ status' = [status EXCEPT ![e] = "closed"]
          /\ UNCHANGED <<free, outstanding, ingress, admitted, released>>
  /\ UNCHANGED <<busVars, handlerVars, keyQueue, worker, cancelled, slotVars, ops>>

\* enqueue_timeout passes, or the publisher's own task is cancelled while it waits.
\* (Cancelled later it leaves the admitted event as it is: the future is shielded.)
LeaveWaiting(e, verdict) ==
  /\ status[e] = "waiting"
  /\ status' = [status EXCEPT ![e] = verdict]
  /\ waiters' = Without(waiters, e)
  /\ UNCHANGED <<free, outstanding, admitted, released, busVars, handlerVars, queueVars,
                 worker, cancelled, slotVars, ops>>

\* Mutant: a status the contract does not know.
EnqueueTimeoutUnknown(e) == LeaveWaiting(e, "timeout")

EnqueueTimeout(e) == LeaveWaiting(e, "overloaded")

PublisherCancelled(e) == LeaveWaiting(e, "gone")

-----------------------------------------------------------------------------
(* Dispatcher and workers. *)

\* One turn of _dispatch_loop.
DispatcherTurn ==
  /\ dispatcher /\ ingress # <<>>
  /\ LET e == Head(ingress)
         k == KeyOf[e]
     IN  /\ keyQueue' = [keyQueue EXCEPT ![k] = Put(@, e)]
         /\ worker' = IF worker[k].pc = "none"
                      THEN [worker EXCEPT ![k].pc = "created"]
                      ELSE worker
  /\ ingress' = Tail(ingress)
  /\ UNCHANGED <<busVars, handlerVars, admissionVars, cancelled, slotVars, ops>>

\* The first step of a new worker.
WorkerStart(k) ==
  /\ worker[k].pc = "created" /\ k \notin cancelled
  /\ TakeNext(k)
  /\ UNCHANGED <<busVars, handlerVars, free, waiters, outstanding, admitted, released,
                 ingress, cancelled>>

\* The first waiting worker is handed the slot it waits for.
SlotGranted(k) ==
  /\ worker[k].pc = "acquire" /\ k \notin cancelled
  /\ slots > 0 /\ Head(slotWaiters) = k
  /\ slotWaiters' = Tail(slotWaiters)
  /\ BeginDispatch(k, worker[k].ev, slots - 1)
  /\ UNCHANGED <<busVars, handlerVars, free, waiters, outstanding, admitted, released,
                 queueVars, cancelled>>

\* Worker k goes on with its dispatch from w when live is what still runs.
GoOn(k, w, live) ==
  /\ Continue(k, w, live, slots)
  /\ UNCHANGED <<busVars, handlerVars, free, waiters, outstanding, admitted, released,
                 queueVars, cancelled, slotWaiters>>

Awaits(k) == worker[k].pc \in {"op", "grace"} /\ k \notin cancelled

\* A handler returns a HandlerResult in time, or within the grace after its timeout.
HandlerReturns(k, acts, stop) ==
  /\ Awaits(k) /\ worker[k].op.action = 0
  /\ GoOn(k, [worker[k] EXCEPT !.acts = acts, !.stop = stop], ops \ {worker[k].op})

\* A handler fails or returns an invalid result, an action returns or fails, or either
\* of them obeys the cancellation that followed its timeout.
OperationEnds(k) ==
  /\ Awaits(k)
  /\ GoOn(k, worker[k], ops \ {worker[k].op})

\* The timeout of the operation passes: it is cancelled and given a grace period.
OperationTimeout(k) ==
  /\ worker[k].pc = "op" /\ k \notin cancelled
  /\ worker' = [worker EXCEPT ![k].pc = "grace"]
  /\ UNCHANGED <<busVars, handlerVars, admissionVars, queueVars, cancelled, slotVars, ops>>

\* The operation outlives the grace period and becomes a barrier.
GraceExpires(k) ==
  /\ worker[k].pc = "grace" /\ k \notin cancelled
  /\ GoOn(k, [worker[k] EXCEPT !.barriers = @ \cup {worker[k].op}], ops)

\* A callback raises CancelledError itself, in time: the worker takes it for its own.
OperationRaises(k) ==
  /\ MayRaise
  /\ worker[k].pc = "op" /\ k \notin cancelled
  /\ Exit(k, ops \ {worker[k].op})
  /\ UNCHANGED <<busVars, handlerVars, waiters, admitted, ingress, cancelled>>

\* An operation that no worker awaits any more ends.
StrayOperationEnds(o) ==
  /\ o \in ops
  /\ \A k \in Keys : worker[k].op = o => worker[k].pc = "cancelGrace"
  /\ ops' = ops \ {o}
  /\ UNCHANGED <<busVars, handlerVars, admissionVars, queueVars, worker, cancelled, slotVars>>

\* Mutant: the barriers are not waited for.
NoBarrierWait(k) == TRUE

\* _wait_for_barriers has nothing left to wait for.
BarriersGone(k) == worker[k].barriers \cap ops = {}

\* Mutant: off by one, the last queued event is left behind.
MoreThanOneQueued(k) == Len(keyQueue[k]) > 1

\* The condition of the worker's loop.
MoreQueued(k) == keyQueue[k] # <<>>

\* The barriers are gone: give the admission back and take the next event or leave.
Settle(k) ==
  /\ worker[k].pc = "settle" /\ k \notin cancelled
  /\ BarriersGone(k)
  /\ Release({worker[k].ev})
  /\ IF MoreQueued(k)
     THEN TakeNext(k)
     ELSE /\ worker' = [worker EXCEPT ![k] = NoWorker]
          /\ UNCHANGED <<keyQueue, slotVars, status, ops>>
  /\ UNCHANGED <<busVars, handlerVars, waiters, admitted, ingress, cancelled>>

-----------------------------------------------------------------------------
(* Cancellation of a worker. *)

\* The worker's next step raises CancelledError where it is suspended.  Before its
\* first step no line of it runs, not even its finally clauses; while it awaits an
\* operation it first cancels that and waits out a grace period of its own.
DeliverCancel(k) ==
  /\ k \in cancelled
  /\ cancelled' = cancelled \ {k}
  /\ \/ /\ worker[k].pc = "created"
        /\ worker' = [worker EXCEPT ![k].pc = "dead"]
        /\ UNCHANGED <<admissionVars, keyQueue, slotVars, ops>>
     \/ /\ worker[k].pc \in {"op", "grace"}
        /\ worker' = [worker EXCEPT ![k].pc = "cancelGrace"]
        /\ UNCHANGED <<admissionVars, keyQueue, slotVars, ops>>
     \/ /\ worker[k].pc \in {"acquire", "cancelGrace", "settle"}
        /\ Exit(k, ops)
        /\ UNCHANGED <<waiters, admitted>>
  /\ UNCHANGED <<busVars, handlerVars, ingress>>

\* An event loop runs what is ready before what becomes ready later: no task that waits
\* for the effect of a cancellation wakes up before every cancellation was received.
CancellationsReceived == cancelled = {}

\* The operation ended, or outlived the grace period, and CancelledError goes on.  While
\* aclose waits in _cancel_operation_tasks its timer is the older one and its wake-up at
\* the end of the last operation comes first.
CancelUnwinds(k) ==
  /\ worker[k].pc = "cancelGrace" /\ k \notin cancelled
  /\ worker[k].op \in ops => CancellationsReceived
  /\ closer = "forceOps" => worker[k].op \notin ops /\ ops # {}
  /\ Exit(k, ops)
  /\ UNCHANGED <<busVars, handlerVars, waiters, admitted, ingress, cancelled>>

-----------------------------------------------------------------------------
(* Shutdown: the first aclose call (every later one returns at once). *)

CloseBegin ==
  /\ accepting
  /\ accepting' = FALSE
  /\ closer' = "waitIdle"
  /\ UNCHANGED <<forced, dispatcher, handlerVars, admissionVars, queueVars, worker,
                 cancelled, slotVars, ops>>

\* The bus became idle in time: cancel the operations that still run.
CloseIdle ==
  /\ closer = "waitIdle" /\ outstanding = 0
  /\ closer' = IF ops = {} THEN "stopDispatcher" ELSE "drainOps"
  /\ UNCHANGED <<accepting, forced, dispatcher, handlerVars, admissionVars, queueVars,
                 worker, cancelled, slotVars, ops>>

CloseOpsDrained ==
  /\ closer = "drainOps"
  /\ closer' = "stopDispatcher"
  /\ UNCHANGED <<accepting, forced, dispatcher, handlerVars, admissionVars, queueVars,
                 worker, cancelled, slotVars, ops>>

\* Mutant: the key queues are cleared and their events forgotten.
LeftWithoutQueues == Range(ingress) \cup ({worker[k].ev : k \in Keys} \ {NoEvent})

\* Everything a forced close has to answer: _ingress, _key_queues and _in_flight.
Left == Range(ingress) \cup (UNION {Range(keyQueue[k]) : k \in Keys})
        \cup ({worker[k].ev : k \in Keys} \ {NoEvent})

\* Close what is queued and what is in flight, and cancel the workers that are left.
Drain ==
  /\ status' = Resolve(status, Left, "closed")
  /\ Release(Left)
  /\ ingress' = <<>>
  /\ keyQueue' = [k \in Keys |-> <<>>]
  /\ cancelled' = {k \in Keys : Alive(k)}
  /\ closer' = "forceWorkers"

\* close_timeout passes: cancel every worker and every operation, and drain the bus at
\* once when there is no operation to wait for.
CloseTimeout ==
  /\ closer = "waitIdle"
  /\ forced' = TRUE
  /\ IF ops = {}
     THEN Drain
     ELSE /\ cancelled' = {k \in Keys : Alive(k)}
          /\ closer' = "forceOps"
          /\ UNCHANGED <<status, free, outstanding, released, queueVars>>
  /\ UNCHANGED <<accepting, dispatcher, handlerVars, waiters, admitted, worker, slotVars, ops>>

\* Mutant: _cancel_operation_tasks waits without a timeout.
OperationsEnded == CancellationsReceived /\ ops = {}

\* _cancel_operation_tasks returns: its tasks ended or their grace period did.
OperationsGivenUp == CancellationsReceived

\* _force_close goes on once the operations ended or their grace period did.
ForceDrain ==
  /\ closer = "forceOps" /\ OperationsGivenUp
  /\ Drain
  /\ UNCHANGED <<accepting, forced, dispatcher, handlerVars, waiters, admitted, worker,
                 slotVars, ops>>

\* The workers ended, or the grace period given to them did.
ForceJoin ==
  /\ closer = "forceWorkers" /\ CancellationsReceived
  /\ closer' = "stopDispatcher"
  /\ UNCHANGED <<accepting, forced, dispatcher, handlerVars, admissionVars, queueVars,
                 worker, cancelled, slotVars, ops>>

CloseDone ==
  /\ closer = "stopDispatcher"
  /\ closer' = "done"
  /\ dispatcher' = FALSE
  /\ UNCHANGED <<accepting, forced, handlerVars, admissionVars, queueVars, worker,
                 cancelled, slotVars, ops>>

-----------------------------------------------------------------------------
Init ==
  /\ accepting = TRUE /\ forced = FALSE /\ closer = "open" /\ dispatcher = FALSE
  /\ handlers = {} /\ nextSub = 1
  /\ free = QueueCapacity /\ waiters = <<>> /\ outstanding = 0
  /\ ingress = <<>> /\ keyQueue = [k \in Keys |-> <<>>]
  /\ worker = [k \in Keys |-> NoWorker] /\ cancelled = {}
  /\ slots = MaxConcurrent /\ slotWaiters = <<>>
  /\ ops = {}
  /\ status = [e \in Events |-> "new"]
  /\ admitted = {} /\ released = {}

Subscriptions ==
  \/ \E o \in Orders : Subscribe(o)
  \/ \E h \in handlers : Unsubscribe(h)

Publishers ==
  \/ \E e \in Events : Publish(e) \/ EnqueueTimeout(e) \/ PublisherCancelled(e)
  \/ CapacityGranted

\* What the event loop and its timers do for worker k.
WorkerStep(k) ==
  \/ WorkerStart(k) \/ SlotGranted(k) \/ Settle(k)
  \/ OperationTimeout(k) \/ GraceExpires(k)
  \/ DeliverCancel(k) \/ CancelUnwinds(k)

\* What a callback of worker k does.
CallbackStep(k) ==
  \/ \E acts \in 0..MaxActions, stop \in BOOLEAN : HandlerReturns(k, acts, stop)
  \/ OperationEnds(k)
  \/ OperationRaises(k)

CloserStep ==
  \/ CloseIdle \/ CloseOpsDrained \/ CloseTimeout
  \/ ForceDrain \/ ForceJoin \/ CloseDone

Next ==
  \/ Subscriptions
  \/ Publishers
  \/ DispatcherTurn
  \/ \E k \in Keys : WorkerStep(k) \/ CallbackStep(k)
  \/ \E o \in ops : StrayOperationEnds(o)
  \/ CloseBegin \/ CloserStep

Spec == Init /\ [][Next]_vars

\* The event loop runs every ready task and every timer fires.
LoopFairness ==
  /\ WF_vars(CapacityGranted) /\ \A e \in Events : WF_vars(EnqueueTimeout(e))
  /\ WF_vars(DispatcherTurn)
  /\ \A k \in Keys : WF_vars(WorkerStep(k))
  /\ WF_vars(CloserStep)

\* Callbacks that were cancelled come to an end; nothing in the bus ensures it.
CallbacksEnd == \A o \in Operations : WF_vars(StrayOperationEnds(o))

FairSpec == Spec /\ LoopFairness
=============================================================================
