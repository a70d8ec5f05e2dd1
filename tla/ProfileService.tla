---------------------------- MODULE ProfileService ----------------------------
(***************************************************************************)
(* The SQLite profile service (features/profile_service.py).  An operation *)
(* takes an asyncio lock, waits for the worker threads that earlier        *)
(* callers left behind and runs its own.  A thread cannot be stopped: a    *)
(* caller that is cancelled gives the lock back and its thread goes on.    *)
(*                                                                         *)
(* row is the stored profile of one principal (the rows of others are      *)
(* never touched); a deleted row and a row of defaults read the same.      *)
(***************************************************************************)
EXTENDS Integers, Sequences, FiniteSets, SequencesExt

CONSTANTS
  Callers,      \* tasks that call start, get, set or delete, once at a time
  Fields, Values, Default,
  Version,      \* the schema version the code works with
  Foreign,      \* the schema versions a database may have at the start
  MaxBusy,      \* bound on the threads that fail because the database is locked
  Free          \* nobody holds the lock

Closer == "closer"   \* the task that closes the service

ASSUME ProfileAssumption ==
  /\ Default \in [Fields -> Values] /\ MaxBusy \in Nat
  /\ Version \in Nat /\ Foreign \subseteq Nat
  /\ Closer \notin Callers /\ Free \notin Callers \cup {Closer}

VARIABLES
  closedService,  \* _closed
  initialized,    \* _initialized
  lock, waiting,  \* the holder of _lock, and who waits for it, first come first
  call,           \* what each caller does and was told
  closing,        \* the call of close: none, queued, draining or returned
  thread,         \* _database_tasks: the thread each caller has started
  schema, row,    \* the database
  busy            \* threads that met a locked database

profileVars == <<closedService, initialized, lock, waiting, call, closing, thread, schema, row,
                 busy>>

NoOp == [kind |-> "none"]
SetOp(f, v) == [kind |-> "set", field |-> f, value |-> v]
DeleteOp(f) == [kind |-> "delete", field |-> f]
GetOp(f) == [kind |-> "get", field |-> f]
StartOp == [kind |-> "start"]
InitOp == [kind |-> "init"]
Operations == {SetOp(f, v) : f \in Fields, v \in Values} \cup {DeleteOp(f) : f \in Fields}
                \cup {GetOp(f) : f \in Fields} \cup {StartOp, NoOp}

NoCall == [pc |-> "none", op |-> NoOp, doing |-> NoOp]
NoThread == [pc |-> "none", op |-> NoOp, seen |-> Default, failed |-> FALSE]

InitProfile ==
  /\ closedService = FALSE /\ initialized = FALSE
  /\ lock = Free /\ waiting = <<>>
  /\ call = [c \in Callers |-> NoCall] /\ closing = "none"
  /\ thread = [c \in Callers |-> NoThread]
  /\ schema \in Foreign \cup {0, Version} /\ row = Default
  /\ busy = 0

Threads == {c \in Callers : thread[c].pc # "none"}

\* asyncio.Lock: acquire and release, in the order of the calls.
Acquire(t) == IF lock = Free THEN lock' = t /\ UNCHANGED waiting
              ELSE waiting' = Append(waiting, t) /\ UNCHANGED lock
Release == IF waiting = <<>> THEN lock' = Free /\ UNCHANGED waiting
           ELSE lock' = Head(waiting) /\ waiting' = Tail(waiting)

\* Mutant: a cancelled caller keeps the lock.
KeepsLock(c) == UNCHANGED <<lock, waiting>>

\* A caller that leaves: it holds the lock or waits for it.
Leave(c) == IF lock = c THEN Release
            ELSE waiting' = SelectSeq(waiting, LAMBDA t : t # c) /\ UNCHANGED lock

-----------------------------------------------------------------------------
(* An operation. *)

Call(c, op) ==
  /\ call[c].pc \in {"none", "returned", "raised"} /\ thread[c] = NoThread
  /\ call' = [call EXCEPT ![c] = [pc |-> "called", op |-> op, doing |-> NoOp]]
  /\ Acquire(c)
  /\ UNCHANGED <<closedService, initialized, closing, thread, schema, row, busy>>

\* _ensure_started: an open service, initialised once.
Enter(c) ==
  /\ lock = c /\ call[c].pc = "called"
  /\ \/ /\ closedService
        /\ call' = [call EXCEPT ![c].pc = "raised"]
        /\ Release
     \/ /\ ~closedService /\ initialized /\ call[c].op = StartOp
        /\ call' = [call EXCEPT ![c].pc = "returned"]
        /\ Release
     \/ /\ ~closedService /\ ~(initialized /\ call[c].op = StartOp)
        /\ call' = [call EXCEPT ![c].pc = "draining",
                                ![c].doing = IF initialized THEN call[c].op ELSE InitOp]
        /\ UNCHANGED <<lock, waiting>>
  /\ UNCHANGED <<closedService, initialized, closing, thread, schema, row, busy>>

\* Mutant: the threads of callers that were cancelled are not waited for.
OwnThreadOnly(c) == thread[c].pc = "none"

\* _wait_for_database_tasks has nothing left to wait for.
Drained(c) == Threads = {}

\* _run_database starts its thread.
StartThread(c) ==
  /\ lock = c /\ call[c].pc = "draining" /\ Drained(c)
  /\ thread' = [thread EXCEPT ![c] = [NoThread EXCEPT !.pc = "created", !.op = call[c].doing]]
  /\ call' = [call EXCEPT ![c].pc = "waiting"]
  /\ UNCHANGED <<closedService, initialized, lock, waiting, closing, schema, row, busy>>

\* The thread opens the database: it prepares the schema, or reads the row.
ThreadReads(c) ==
  /\ thread[c].pc = "created"
  /\ IF thread[c].op = InitOp
     THEN /\ schema' = IF schema = 0 THEN Version ELSE schema
          /\ thread' = [thread EXCEPT ![c].pc = "ended",
                                      ![c].failed = schema \notin {0, Version}]
     ELSE /\ thread' = [thread EXCEPT ![c].pc = "read", ![c].seen = row]
          /\ UNCHANGED schema
  /\ UNCHANGED <<closedService, initialized, lock, waiting, call, closing, row, busy>>

\* What an operation makes of the row that its thread has read.
Written(op, seen) ==
  CASE op.kind = "set" -> [seen EXCEPT ![op.field] = op.value]
    [] op.kind = "delete" -> [seen EXCEPT ![op.field] = Default[op.field]]
    [] OTHER -> seen

\* ... and writes it back; a get has nothing to write.
ThreadWrites(c) ==
  /\ thread[c].pc = "read"
  /\ row' = IF thread[c].op.kind = "get" THEN row ELSE Written(thread[c].op, thread[c].seen)
  /\ thread' = [thread EXCEPT ![c].pc = "ended"]
  /\ UNCHANGED <<closedService, initialized, lock, waiting, call, closing, schema, busy>>

\* The busy timeout of SQLite passes: nothing is written.
ThreadBusy(c) ==
  /\ thread[c].pc \in {"created", "read"} /\ busy < MaxBusy
  /\ busy' = busy + 1
  /\ thread' = [thread EXCEPT ![c].pc = "ended", ![c].failed = TRUE]
  /\ UNCHANGED <<closedService, initialized, lock, waiting, call, closing, schema, row>>

\* The task of a thread is done: it leaves the set, and its caller, if there still is one,
\* goes on.
ThreadDone(c) ==
  /\ thread[c].pc = "ended"
  /\ thread' = [thread EXCEPT ![c] = NoThread]
  /\ LET asked == call[c].pc = "waiting"
         done == thread[c].failed \/ thread[c].op = call[c].op \/ call[c].op = StartOp
     IN /\ initialized' = (initialized \/ (asked /\ thread[c].op = InitOp /\ ~thread[c].failed))
        /\ call' = IF ~asked THEN call
                   ELSE IF ~done
                   THEN [call EXCEPT ![c].pc = "draining", ![c].doing = call[c].op]
                   ELSE [call EXCEPT ![c].pc = IF thread[c].failed THEN "raised" ELSE "returned"]
        /\ IF asked /\ done THEN Release ELSE UNCHANGED <<lock, waiting>>
  /\ UNCHANGED <<closedService, closing, schema, row, busy>>

\* The task that calls is cancelled at one of its awaits.
CancelCall(c) ==
  /\ call[c].pc \in {"called", "draining", "waiting"}
  /\ call' = [call EXCEPT ![c].pc = "cancelled"]
  /\ Leave(c)
  /\ UNCHANGED <<closedService, initialized, closing, thread, schema, row, busy>>

-----------------------------------------------------------------------------
(* close. *)

CloseService ==
  /\ closing = "none"
  /\ closing' = "queued"
  /\ Acquire(Closer)
  /\ UNCHANGED <<closedService, initialized, call, thread, schema, row, busy>>

CloseEnters ==
  /\ lock = Closer /\ closing = "queued"
  /\ closedService' = TRUE /\ closing' = "draining"
  /\ Release
  /\ UNCHANGED <<initialized, call, thread, schema, row, busy>>

\* Mutant: close does not wait.
NotWaiting == TRUE

NoThreads == Threads = {}

CloseReturns ==
  /\ closing = "draining" /\ NoThreads
  /\ closing' = "returned"
  /\ UNCHANGED <<closedService, initialized, lock, waiting, call, thread, schema, row, busy>>

ThreadStep(c) == ThreadReads(c) \/ ThreadWrites(c) \/ ThreadBusy(c) \/ ThreadDone(c)

ProfileStep ==
  \/ \E c \in Callers : Enter(c) \/ StartThread(c) \/ ThreadStep(c)
  \/ CloseEnters \/ CloseReturns
===============================================================================
