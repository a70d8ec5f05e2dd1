---------------------------- MODULE CordisScope -----------------------------
(***************************************************************************)
(* The scoped dependency container of the Cordis host (scope.py): a tree   *)
(* of scopes with lazy providers and owned disposers.                      *)
(*                                                                         *)
(* Several tasks work on it: users that resolve keys, one shared task per  *)
(* running provider, and closers that run aclose.  asyncio switches tasks  *)
(* only where one suspends.  A step of a user or of a provider is one      *)
(* action; aclose, which recurses over the tree, takes several, and loop   *)
(* holds the event loop for its task until it suspends.                    *)
(***************************************************************************)
EXTENDS Integers, Sequences, FiniteSets, SequencesExt

CONSTANTS
  Scopes, Root,
  Parent,      \* the scope a scope is created in
  Keys,        \* keys of providers
  Provides,    \* keys each scope registers a provider for
  Needs,       \* keys the provider of a key resolves before it returns
  Things,      \* what is owned by an explicit own call (on registers one too)
  Owns,        \* things each scope may own
  Users,       \* tasks that call use
  From,        \* the scope each of them uses
  Closers,     \* tasks that call aclose
  MaxCalls,    \* bound on the calls each user and each closer makes
  Nobody       \* no task holds the event loop

ASSUME TreeAssumption ==
  /\ Root \in Scopes /\ Parent \in [Scopes \ {Root} -> Scopes]
  /\ Provides \in [Scopes -> SUBSET Keys] /\ Needs \in [Keys -> SUBSET Keys]
  /\ Owns \in [Scopes -> SUBSET Things] /\ Keys \cap Things = {}
  /\ From \in [Users -> Scopes]
  /\ MaxCalls \in Nat /\ Nobody \notin Closers

VARIABLES
  exists,     \* scopes that were created
  closed,     \* _closed
  complete,   \* _cleanup_complete
  children,   \* _children
  providers,  \* _providers
  instances,  \* _instances
  disposers,  \* _disposers, each named by the resource or thing it closes
  task,       \* _resolutions: the running provider tasks
  cancelled,  \* provider tasks with a cancellation they have not received
  user,       \* what each user waits for or was told
  closer,     \* call stack of each closer, innermost aclose first
  calls,      \* how often each task has called
  loop,       \* the closer that holds the event loop, or Nobody
  made,       \* providers that returned a resource
  uses,       \* the resources that the provider of each resource had resolved
  tried,      \* disposers that were called at least once
  gone        \* disposers that were called and succeeded

vars == <<exists, closed, complete, children, providers, instances, disposers, task,
          cancelled, user, closer, calls, loop, made, uses, tried, gone>>

treeVars == <<exists, closed, complete, children>>
resolveVars == <<providers, instances, task, cancelled, user, made, uses>>
disposeVars == <<disposers, tried, gone>>
closeVars == <<closer, loop>>

-----------------------------------------------------------------------------
Provider == Scopes \X Keys

\* With each scope but the root S holds its parent.
Upward(S) == \A s \in S \ {Root} : Parent[s] \in S

\* Each scope and its ancestors.
Ancestors ==
  [s \in Scopes |-> {t \in Scopes : \A S \in SUBSET Scopes : s \in S /\ Upward(S) => t \in S}]

\* _find_provider_owner: of the scopes in sight of s that provide k, the nearest.
Owners(s, k) == {t \in Ancestors[s] : k \in providers[t]}
Owner(s, k) == CHOOSE t \in Owners(s, k) : Owners(s, k) \subseteq Ancestors[t]

Running(p) == task[p].pc # "none"

NoTask == [pc |-> "none", got |-> {}, stack |-> {}, on |-> <<>>]

\* What a caller whose provider stack is stack meets when it resolves k from scope s.
Unavailable(s, k) == Owners(s, k) = {}

\* Mutant: the instance is looked up in the asking scope, not in the provider's.
CachedHere(s, k) == k \in instances[s]

\* An instance is kept in the scope of its provider.
Cached(s, k) == ~Unavailable(s, k) /\ k \in instances[Owner(s, k)]

\* Mutant: the stack is not looked at.
CycleUnnoticed(s, k, stack) ==
  IF Unavailable(s, k) THEN TRUE ELSE ~Cached(s, k) /\ Owner(s, k) \in closed

Refused(s, k, stack) ==
  IF Unavailable(s, k) THEN TRUE
  ELSE ~Cached(s, k) /\ (k \in stack \/ Owner(s, k) \in closed)
Awaited(s, k, stack) == ~Cached(s, k) /\ ~Refused(s, k, stack)

\* The shared task of provider p, started by a caller with this stack if there is none.
Joined(tasks, p, stack) ==
  IF tasks[p].pc = "none"
  THEN [tasks EXCEPT ![p] = [NoTask EXCEPT !.pc = "created", !.stack = stack \cup {p[2]}]]
  ELSE tasks

-----------------------------------------------------------------------------
(* Building the tree. *)

Child(s) ==
  /\ loop = Nobody /\ s \notin exists
  /\ Parent[s] \in exists /\ Parent[s] \notin closed
  /\ exists' = exists \cup {s}
  /\ children' = [children EXCEPT ![Parent[s]] = Append(@, s)]
  /\ UNCHANGED <<closed, complete, resolveVars, disposeVars, closeVars, calls>>

Provide(s, k) ==
  /\ loop = Nobody /\ s \in exists \ closed
  /\ k \in Provides[s] \ providers[s]
  /\ providers' = [providers EXCEPT ![s] = @ \cup {k}]
  /\ UNCHANGED <<treeVars, instances, task, cancelled, user, made, uses, disposeVars,
                 closeVars, calls>>

Own(s, x) ==
  /\ loop = Nobody /\ s \in exists \ closed
  /\ x \in Owns[s] /\ ~Contains(disposers[s], x) /\ <<s, x>> \notin gone
  /\ disposers' = [disposers EXCEPT ![s] = Append(@, x)]
  /\ UNCHANGED <<treeVars, resolveVars, tried, gone, closeVars, calls>>

-----------------------------------------------------------------------------
(* Resolving. *)

\* A user calls use(k).
Use(u, k) ==
  /\ loop = Nobody /\ user[u].pc # "waiting" /\ calls[u] < MaxCalls
  /\ From[u] \in exists
  /\ calls' = [calls EXCEPT ![u] = @ + 1]
  /\ LET s == From[u] IN
     \/ /\ Cached(s, k)
        /\ user' = [user EXCEPT ![u] = [pc |-> "got", on |-> <<>>]]
        /\ UNCHANGED task
     \/ /\ Refused(s, k, {})
        /\ user' = [user EXCEPT ![u] = [pc |-> "error", on |-> <<>>]]
        /\ UNCHANGED task
     \/ /\ Awaited(s, k, {})
        /\ LET p == <<Owner(s, k), k>> IN
           /\ task' = Joined(task, p, {})
           /\ user' = [user EXCEPT ![u] = [pc |-> "waiting", on |-> p]]
  /\ UNCHANGED <<treeVars, providers, instances, cancelled, made, uses, disposeVars, closeVars>>

Active(p) == loop = Nobody /\ task[p].pc \in {"created", "run"} /\ p \notin cancelled

\* A provider resolves a key it needs.
UseNeed(p, k) ==
  /\ Active(p) /\ k \in Needs[p[2]] /\ ~(\E q \in task[p].got : q[2] = k)
  /\ LET s == p[1]
         stack == task[p].stack
     IN \/ /\ Cached(s, k)
           /\ task' = [task EXCEPT ![p].pc = "run", ![p].got = @ \cup {<<Owner(s, k), k>>}]
        \/ /\ Refused(s, k, stack)
           /\ task' = [task EXCEPT ![p].pc = "raise"]
        \/ /\ Awaited(s, k, stack)
           /\ LET q == <<Owner(s, k), k>> IN
              task' = [Joined(task, q, stack) EXCEPT ![p].pc = "wait", ![p].on = q]
  /\ UNCHANGED <<treeVars, providers, instances, cancelled, user, made, uses, disposeVars,
                 closeVars, calls>>

\* The task of provider p ends: whoever waits for it is told.
Ends(p, success) ==
  /\ task' = [q \in Provider |->
                IF q = p THEN NoTask
                ELSE IF task[q].pc = "wait" /\ task[q].on = p
                THEN [task[q] EXCEPT !.pc = IF success THEN "run" ELSE "raise",
                                     !.got = IF success THEN @ \cup {p} ELSE @,
                                     !.on = <<>>]
                ELSE task[q]]
  /\ user' = [u \in Users |->
                IF user[u].pc = "waiting" /\ user[u].on = p
                THEN [pc |-> IF success THEN "got" ELSE "error", on |-> <<>>]
                ELSE user[u]]
  /\ cancelled' = cancelled \ {p}

\* A provider, which may do without some of its needs, returns a resource that has an
\* aclose or close of its own.
ProviderReturns(p) ==
  /\ Active(p)
  /\ Ends(p, TRUE)
  /\ instances' = [instances EXCEPT ![p[1]] = @ \cup {p[2]}]
  /\ disposers' = [disposers EXCEPT ![p[1]] = Append(@, p[2])]
  /\ made' = made \cup {p} /\ uses' = [uses EXCEPT ![p] = task[p].got]
  /\ UNCHANGED <<treeVars, providers, tried, gone, closeVars, calls>>

\* A provider fails, on its own or because a key it needs did.
ProviderFails(p) ==
  /\ loop = Nobody /\ task[p].pc \in {"created", "run", "raise"} /\ p \notin cancelled
  /\ Ends(p, FALSE)
  /\ UNCHANGED <<treeVars, providers, instances, made, uses, disposeVars, closeVars, calls>>

\* A provider task receives its cancellation: it ends, or the provider swallows the
\* CancelledError it was suspended in and goes on without what it waited for.
ProviderCancelled(p) ==
  /\ loop = Nobody /\ p \in cancelled
  /\ \/ Ends(p, FALSE)
     \/ /\ task[p].pc \in {"run", "wait", "raise"}
        /\ task' = [task EXCEPT ![p].pc = "run", ![p].on = <<>>]
        /\ cancelled' = cancelled \ {p}
        /\ UNCHANGED user
  /\ UNCHANGED <<treeVars, providers, instances, made, uses, disposeVars, closeVars, calls>>

-----------------------------------------------------------------------------
(* Closing. *)

NoFrame == [scope |-> Root, pc |-> "enter", todo |-> <<>>, failed |-> FALSE]

Top(c) == Head(closer[c])

\* Closer c is at pc of its innermost aclose, and holds the event loop or gets it back.
At(c, pc) == closer[c] # <<>> /\ Top(c).pc = pc
Runs(c, pc) == loop = c /\ At(c, pc)
WakesUp(c, pc) == loop = Nobody /\ At(c, pc)

\* The innermost aclose of c goes on at frame f.
GoTo(c, f) == closer' = [closer EXCEPT ![c] = <<f>> \o Tail(@)]

\* The innermost aclose of c returns, or raises: its caller notes the failure.
Return(c, failed) ==
  LET rest == Tail(closer[c]) IN
  IF rest = <<>>
  THEN closer' = [closer EXCEPT ![c] = <<>>] /\ loop' = Nobody
  ELSE /\ closer' = [closer EXCEPT ![c] =
                       <<[Head(rest) EXCEPT !.failed = @ \/ failed]>> \o Tail(rest)]
       /\ loop' = c

\* The provider tasks of scope s that still run.
TasksOf(s) == {p \in Provider : p[1] = s /\ Running(p)}

Close(c, s) ==
  /\ loop = Nobody /\ closer[c] = <<>> /\ calls[c] < MaxCalls /\ s \in exists
  /\ calls' = [calls EXCEPT ![c] = @ + 1]
  /\ closer' = [closer EXCEPT ![c] = <<[NoFrame EXCEPT !.scope = s]>>]
  /\ loop' = c
  /\ UNCHANGED <<treeVars, resolveVars, disposeVars>>

AlreadyComplete(c) ==
  /\ Runs(c, "enter") /\ Top(c).scope \in complete
  /\ Return(c, FALSE)
  /\ UNCHANGED <<treeVars, resolveVars, disposeVars, calls>>

\* Marked at once, so that nothing new is resolved, provided or owned.
Marked(s) == closed \cup {s}

\* The provider tasks that aclose cancels.
CancelledBy(s) == TasksOf(s)

\* Mark the scope closed and cancel its running providers.
Enter(c) ==
  LET s == Top(c).scope IN
  /\ Runs(c, "enter") /\ s \notin complete
  /\ closed' = Marked(s)
  /\ cancelled' = cancelled \cup CancelledBy(s)
  /\ IF TasksOf(s) = {}
     THEN GoTo(c, [Top(c) EXCEPT !.pc = "children", !.todo = children[s]]) /\ UNCHANGED loop
     ELSE GoTo(c, [Top(c) EXCEPT !.pc = "gather"]) /\ loop' = Nobody
  /\ UNCHANGED <<exists, complete, children, providers, instances, task, user, made, uses,
                 disposeVars, calls>>

\* Mutant: the cancelled providers are not waited for.
NotWaitedFor(s) == TRUE

\* asyncio.gather over the cancelled providers returns.
Gathered(s) == TasksOf(s) = {}

GatherDone(c) ==
  LET s == Top(c).scope IN
  /\ WakesUp(c, "gather") /\ Gathered(s)
  /\ GoTo(c, [Top(c) EXCEPT !.pc = "children", !.todo = children[s]])
  /\ loop' = c
  /\ UNCHANGED <<treeVars, resolveVars, disposeVars, calls>>

\* The task that runs aclose is cancelled while it waits for the providers: gather passes
\* the cancellation on to them, and raises it once all of them ended.
GatherCancelled(c) ==
  /\ WakesUp(c, "gather")
  /\ cancelled' = cancelled \cup TasksOf(Top(c).scope)
  /\ GoTo(c, [Top(c) EXCEPT !.pc = "abort"])
  /\ UNCHANGED <<treeVars, providers, instances, task, user, made, uses, disposeVars, loop,
                 calls>>

GatherRaises(c) ==
  /\ WakesUp(c, "abort") /\ Gathered(Top(c).scope)
  /\ Return(c, TRUE)
  /\ UNCHANGED <<treeVars, resolveVars, disposeVars, calls>>

CloseChild(c) ==
  LET f == Top(c) IN
  /\ Runs(c, "children") /\ f.todo # <<>>
  /\ closer' = [closer EXCEPT ![c] =
       <<[NoFrame EXCEPT !.scope = Last(f.todo)], [f EXCEPT !.todo = Front(@)]>> \o Tail(@)]
  /\ UNCHANGED <<treeVars, resolveVars, disposeVars, loop, calls>>

\* A child failed: the resources of this scope are kept for a later call.
ChildrenFailed(c) == Top(c).failed

ChildrenDone(c) ==
  /\ Runs(c, "children") /\ Top(c).todo = <<>>
  /\ IF ChildrenFailed(c)
     THEN Return(c, TRUE)
     ELSE /\ GoTo(c, [Top(c) EXCEPT !.pc = "dispose", !.todo = disposers[Top(c).scope]])
          /\ UNCHANGED loop
  /\ UNCHANGED <<treeVars, resolveVars, disposeVars, calls>>

\* Mutant: disposers are called in the order of their registration.
FirstDue(todo) == Head(todo)

\* The disposers are called in reverse order.
Due(todo) == Last(todo)

\* Mutant: the snapshot is taken for the list.
AlwaysListed(s, x) == TRUE

\* Is the disposer still owned, or has another aclose finished it meanwhile?
StillListed(s, x) == Contains(disposers[s], x)

SkipDisposer(c) ==
  LET f == Top(c) IN
  /\ Runs(c, "dispose") /\ f.todo # <<>>
  /\ ~StillListed(f.scope, Due(f.todo))
  /\ GoTo(c, [f EXCEPT !.todo = RemoveFirst(@, Due(@))])
  /\ UNCHANGED <<treeVars, resolveVars, disposeVars, loop, calls>>

CallDisposer(c) ==
  LET f == Top(c)
      x == Due(f.todo)
  IN  /\ Runs(c, "dispose") /\ f.todo # <<>> /\ StillListed(f.scope, x)
      /\ GoTo(c, [f EXCEPT !.pc = "await"])
      /\ loop' = Nobody
      /\ tried' = tried \cup {<<f.scope, x>>}
      /\ UNCHANGED <<treeVars, resolveVars, disposers, gone, calls>>

\* The awaited disposer ends: only a success takes it off the list.
DisposerEnds(c, success) ==
  LET f == Top(c)
      x == Due(f.todo)
  IN  /\ WakesUp(c, "await")
      /\ IF success
         THEN /\ disposers' = [disposers EXCEPT ![f.scope] = RemoveFirst(@, x)]
              /\ gone' = gone \cup {<<f.scope, x>>}
         ELSE UNCHANGED <<disposers, gone>>
      /\ GoTo(c, [f EXCEPT !.pc = "dispose", !.todo = RemoveFirst(@, x),
                           !.failed = @ \/ ~success])
      /\ loop' = c
      /\ UNCHANGED <<treeVars, resolveVars, tried, calls>>

DisposersFailed(c) ==
  /\ Runs(c, "dispose") /\ Top(c).todo = <<>> /\ Top(c).failed
  /\ Return(c, TRUE)
  /\ UNCHANGED <<treeVars, resolveVars, disposeVars, calls>>

Complete(c) ==
  LET s == Top(c).scope IN
  /\ Runs(c, "dispose") /\ Top(c).todo = <<>> /\ ~Top(c).failed
  /\ instances' = [instances EXCEPT ![s] = {}]
  /\ providers' = [providers EXCEPT ![s] = {}]
  /\ complete' = complete \cup {s}
  /\ children' = IF s = Root THEN children
                 ELSE [children EXCEPT ![Parent[s]] = RemoveFirst(@, s)]
  /\ Return(c, FALSE)
  /\ UNCHANGED <<exists, closed, task, cancelled, user, made, uses, disposeVars, calls>>

-----------------------------------------------------------------------------
Init ==
  /\ exists = {Root} /\ closed = {} /\ complete = {}
  /\ children = [s \in Scopes |-> <<>>] /\ providers = [s \in Scopes |-> {}]
  /\ instances = [s \in Scopes |-> {}] /\ disposers = [s \in Scopes |-> <<>>]
  /\ task = [p \in Provider |-> NoTask] /\ cancelled = {}
  /\ user = [u \in Users |-> [pc |-> "idle", on |-> <<>>]]
  /\ closer = [c \in Closers |-> <<>>] /\ loop = Nobody
  /\ calls = [t \in Users \cup Closers |-> 0]
  /\ made = {} /\ uses = [p \in Provider |-> {}] /\ tried = {} /\ gone = {}

Building ==
  \E s \in Scopes :
    \/ Child(s)
    \/ \E k \in Keys : Provide(s, k)
    \/ \E x \in Things : Own(s, x)

ProviderStep(p) ==
  \/ \E k \in Keys : UseNeed(p, k)
  \/ ProviderReturns(p) \/ ProviderFails(p) \/ ProviderCancelled(p)

CloserStep(c) ==
  \/ AlreadyComplete(c) \/ Enter(c) \/ GatherDone(c) \/ GatherRaises(c) \/ CloseChild(c) \/ ChildrenDone(c)
  \/ SkipDisposer(c) \/ CallDisposer(c) \/ DisposersFailed(c) \/ Complete(c)
  \/ \E success \in BOOLEAN : DisposerEnds(c, success)

Next ==
  \/ Building
  \/ \E u \in Users, k \in Keys : Use(u, k)
  \/ \E p \in Provider : ProviderStep(p)
  \/ \E c \in Closers :
       \/ \E s \in Scopes : Close(c, s)
       \/ CloserStep(c) \/ GatherCancelled(c)

Spec == Init /\ [][Next]_vars

\* Ready tasks run, and the callbacks of plugins (providers, disposers) end.
FairSpec ==
  /\ Spec
  /\ \A p \in Provider : WF_vars(ProviderStep(p))
  /\ \A c \in Closers : WF_vars(CloserStep(c))

-----------------------------------------------------------------------------
(* What a tree of scopes promises. *)

\* Concurrent requests share one resolution: a provider never runs again once its resource
\* exists, so no second instance replaces one that somebody holds.
OneInstance == \A p \in Provider : Running(p) => p \notin made

\* A scope whose cleanup completed has no provider running, no child and no resource that
\* was not closed, also when providers returned while aclose was cancelling them.
CompleteMeansDisposed ==
  \A s \in complete :
    /\ TasksOf(s) = {} /\ children[s] = <<>> /\ disposers[s] = <<>>
    /\ \A p \in made : p[1] = s => p \in gone

\* The disposer that closer c awaits.
Awaits(c) == <<Top(c).scope, Due(Top(c).todo)>>

\* A scope's own disposers are not called before all its children are completely closed (a
\* failed child defers its parent, whatever closer met the failure), and a resource is not
\* closed before every resource whose provider had resolved it was at least tried, in this
\* scope or in a scope below.
CloseOrder ==
  \A c \in Closers :
    At(c, "await") =>
      /\ \A s \in exists \ {Root} : Top(c).scope = Parent[s] => s \in complete
      /\ \A p \in made : Awaits(c) \in uses[p] => p \in tried

\* A disposer that succeeded is not called again, by a retry or by another closer.
NotClosedTwice ==
  [][\A c \in Closers : Runs(c, "dispose") /\ At(c, "await")' => Awaits(c)' \notin gone]_vars

\* use returns or raises when providers end; a cyclic dependency is reported and does not
\* leave its callers waiting.
UsersAnswered == \A u \in Users : user[u].pc = "waiting" ~> user[u].pc # "waiting"
=============================================================================
