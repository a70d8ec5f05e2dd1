----------------------------- MODULE FeatureHost -----------------------------
(***************************************************************************)
(* The Cordis manager (core.py) with the features that live on it: plugins *)
(* are activated one below the other and register handlers, commands, a    *)
(* resource and storage in their scopes; events go down the chain of       *)
(* ordered handlers, one of which routes commands; aclose tears all of it  *)
(* down in one shared task.                                                *)
(*                                                                         *)
(* A scope is reduced to what CordisScope promises of it: it closes what   *)
(* lies below first, then calls its disposers last in first out, keeps one *)
(* that fails, and may be closed again.                                    *)
(***************************************************************************)
EXTENDS ResourceRegistry, ProfileService

CONSTANTS
  Chain,        \* the plugins in the order of their activation
  Script,       \* what the factory of each plugin registers, in order
  Router,       \* the plugin whose handler routes commands
  Root,         \* the scope of the manager
  Events,
  Messages,     \* what an event may carry
  Capabilities, \* what the sender of every event may do
  MaxFailures   \* bound on disposers that fail

Plugins == {Chain[i] : i \in DOMAIN Chain}

ASSUME HostAssumption ==
  /\ Callers = Plugins \cup Events /\ Plugins \cap Events = {}
  /\ Root \notin Plugins /\ Router \in Plugins
  /\ MaxFailures \in Nat /\ Public \in Capabilities

\* A factory registers one of several batches, each a sequence of commands; commands and
\* resources have words for names.
ASSUME ScriptAssumption ==
  /\ {SetWord, DeleteWord} \subseteq Words
  /\ \A p \in Plugins : \A i \in DOMAIN Script[p] :
       LET step == Script[p][i] IN
       /\ step.do = "commands" => \A specs \in step.batches :
                                     /\ Len(specs) \in Nat /\ DOMAIN specs = 1 .. Len(specs)
                                     /\ \A j \in DOMAIN specs : OfWords(specs[j])
       /\ step.do = "storage" => step.resource.name \in Words /\ step.resource.path \in Seq(Words)

VARIABLES
  closed,         \* _closed of the manager
  subscribed,     \* _subscription
  registrations,  \* _registrations, which dispatch sorts: a set
  pluginScopes,   \* _plugin_scopes, in order of entry
  sequence,       \* _sequence
  cleanup,        \* _cleanup_task: none, created, running, failed or done
  activation,     \* how far the activation of each plugin is
  scope,          \* what CordisScope says of each scope
  reg, res,       \* the registries of commands and resources
  event,          \* the dispatch of each event
  failures,       \* disposers that failed
  overtaken       \* plugins whose factory ran when aclose was called

managerVars == <<closed, subscribed, pluginScopes, cleanup, overtaken>>
registryVars == <<registrations, sequence, reg, res>>
scopeVars == <<scope, failures>>
hostVars == <<managerVars, registryVars, scopeVars, activation, event>>
vars == <<hostVars, profileVars>>

NoScope == [pc |-> "none", under |-> Root, disposers |-> <<>>, left |-> 0,
            visited |-> FALSE, erred |-> FALSE, awaits |-> FALSE]
Idle == [pc |-> "idle", message |-> None, todo |-> <<>>, command |-> None, ops |-> <<>>,
         failed |-> FALSE]

Init ==
  /\ InitProfile
  /\ closed = FALSE /\ subscribed = FALSE /\ pluginScopes = <<>> /\ cleanup = "none"
  /\ registrations = {} /\ sequence = 0
  /\ activation = [p \in Plugins |-> [pc |-> "idle", at |-> 1]]
  /\ scope = [s \in Plugins \cup {Root} |->
                IF s = Root THEN [NoScope EXCEPT !.pc = "open"] ELSE NoScope]
  /\ reg = NoCommands /\ res = NoResources
  /\ event = [e \in Events |-> Idle]
  /\ failures = 0 /\ overtaken = {}

Newest == IF pluginScopes = <<>> THEN Root ELSE Last(pluginScopes)
InFlight(p) == activation[p].pc \notin {"idle", "active", "failed"}

-----------------------------------------------------------------------------
(* Activation. *)

\* The application activates the plugins one after the other, each below the last.
Activate(p) ==
  /\ ~closed /\ activation[p].pc = "idle"
  /\ Len(pluginScopes) < Len(Chain) /\ Chain[Len(pluginScopes) + 1] = p
  /\ \A q \in Plugins : ~InFlight(q) /\ activation[q].pc # "failed"
  /\ scope' = [scope EXCEPT ![p] = [NoScope EXCEPT !.pc = "open", !.under = Newest]]
  /\ activation' = [activation EXCEPT ![p].pc = "factory"]
  /\ UNCHANGED <<managerVars, registryVars, failures, event, profileVars>>

\* aclose of a scope that is not complete and not being closed.
Closing(s) == [scope EXCEPT ![s].pc = "closing", ![s].left = Len(scope[s].disposers),
                            ![s].visited = FALSE, ![s].erred = FALSE]

\* The factory raises, or is cancelled where it is suspended: activate closes its scope.
Rollback(p) ==
  /\ activation' = [activation EXCEPT ![p].pc = "rollback"]
  /\ scope' = IF scope[p].pc \in {"open", "failed"} THEN Closing(p) ELSE scope

Step(p) == Script[p][activation[p].at]
InFactory(p) == activation[p].pc = "factory"
Due(p, kind) == InFactory(p) /\ activation[p].at \in DOMAIN Script[p] /\ Step(p).do = kind

\* own: an open scope takes the disposer, another one raises.
Owning(p, d) ==
  IF scope[p].pc = "open"
  THEN /\ scope' = [scope EXCEPT ![p].disposers = Append(@, d)]
       /\ activation' = [activation EXCEPT ![p] = [pc |-> "factory", at |-> @.at + 1]]
  ELSE Rollback(p)

\* Scope.on: the manager registers the handler, the scope owns its removal.
OnHandler(p) ==
  /\ Due(p, "handler")
  /\ IF scope[p].pc = "open" /\ ~closed
     THEN /\ registrations' = registrations \cup
                              {[plugin |-> p, order |-> Step(p).order, number |-> sequence]}
          /\ sequence' = sequence + 1
          /\ Owning(p, [kind |-> "handler", number |-> sequence])
     ELSE Rollback(p) /\ UNCHANGED <<registrations, sequence>>
  /\ UNCHANGED <<managerVars, reg, res, failures, event, profileVars>>

\* register_many, and the scope owns unregister_owner; a batch that is refused raises.
OnCommands(p) ==
  /\ Due(p, "commands")
  /\ \E specs \in Step(p).batches :
       IF Acceptable(reg, specs)
       THEN reg' = Added(reg, specs, p) /\ Owning(p, [kind |-> "commands"])
       ELSE Rollback(p) /\ UNCHANGED reg
  /\ UNCHANGED <<managerVars, registrations, sequence, res, failures, event, profileVars>>

\* A disposer of the plugin's own.
OnOwn(p) ==
  /\ Due(p, "own")
  /\ Owning(p, [kind |-> "own"])
  /\ UNCHANGED <<managerVars, registryVars, failures, event, profileVars>>

\* The profile feature starts its service ...
StorageStarts(p) ==
  /\ Due(p, "storage")
  /\ activation' = [activation EXCEPT ![p].pc = "starting"]
  /\ Call(p, StartOp)
  /\ UNCHANGED <<managerVars, registryVars, scopeVars, event>>

\* ... registers its resource, and lets the scope own both.
StorageStarted(p) ==
  /\ activation[p].pc = "starting" /\ call[p].pc = "returned"
  /\ Registrable(reg, res, Step(p).resource)
  /\ reg' = WithCommands(reg, Step(p).resource, p)
  /\ res' = WithResource(reg, res, Step(p).resource, p)
  /\ Owning(p, [kind |-> "storage", id |-> res.next])
  /\ UNCHANGED <<managerVars, registrations, sequence, failures, event, profileVars>>

\* start fails or the resource is refused: the service is closed before the factory raises.
StorageFails(p) ==
  /\ activation[p].pc = "starting"
  /\ \/ call[p].pc = "raised"
     \/ call[p].pc = "returned" /\ ~Registrable(reg, res, Step(p).resource)
  /\ CloseService
  /\ activation' = [activation EXCEPT ![p].pc = "abandoning"]
  /\ UNCHANGED <<managerVars, registryVars, scopeVars, event>>

\* A cancelled start is the same, one step later.
StorageCancelled(p) ==
  /\ activation[p].pc = "starting" /\ CancelCall(p)
  /\ activation' = [activation EXCEPT ![p].pc = "cancelled"]
  /\ UNCHANGED <<managerVars, registryVars, scopeVars, event>>

StorageUnwinds(p) ==
  /\ activation[p].pc = "cancelled" /\ CloseService
  /\ activation' = [activation EXCEPT ![p].pc = "abandoning"]
  /\ UNCHANGED <<managerVars, registryVars, scopeVars, event>>

StorageAbandoned(p) ==
  /\ activation[p].pc = "abandoning" /\ closing = "returned"
  /\ Rollback(p)
  /\ UNCHANGED <<managerVars, registryVars, failures, event, profileVars>>

FactoryRaises(p) ==
  /\ InFactory(p) /\ Rollback(p)
  /\ UNCHANGED <<managerVars, registryVars, failures, event, profileVars>>

\* The manager does not look again at _closed when the factory has returned.
FactoryReturns(p) ==
  /\ InFactory(p) /\ activation[p].at > Len(Script[p])
  /\ pluginScopes' = Append(pluginScopes, p)
  /\ activation' = [activation EXCEPT ![p].pc = "active"]
  /\ UNCHANGED <<closed, subscribed, cleanup, overtaken, registryVars, scopeVars, event,
                 profileVars>>

RolledBack(p) ==
  /\ activation[p].pc = "rollback" /\ scope[p].pc \in {"complete", "failed"}
  /\ activation' = [activation EXCEPT ![p].pc = "failed"]
  /\ UNCHANGED <<managerVars, registryVars, scopeVars, event, profileVars>>

ActivationStep(p) ==
  \/ Activate(p) \/ OnHandler(p) \/ OnCommands(p) \/ OnOwn(p)
  \/ StorageStarts(p) \/ StorageStarted(p) \/ StorageFails(p)
  \/ StorageCancelled(p) \/ StorageUnwinds(p) \/ StorageAbandoned(p)
  \/ FactoryRaises(p) \/ FactoryReturns(p) \/ RolledBack(p)

\* start subscribes the manager once the chain is complete.
Start ==
  /\ ~closed /\ ~subscribed /\ Len(pluginScopes) = Len(Chain)
  /\ subscribed' = TRUE
  /\ UNCHANGED <<closed, pluginScopes, cleanup, overtaken, registryVars, scopeVars, activation,
                 event, profileVars>>

-----------------------------------------------------------------------------
(* Closing. *)

Below(s) == {p \in Plugins : scope[p].pc \notin {"none", "complete"} /\ scope[p].under = s}

CloseBelow(s) ==
  /\ scope[s].pc = "closing" /\ ~scope[s].visited
  /\ \E p \in Below(s) :
       scope' = [(IF scope[p].pc = "closing" THEN scope ELSE Closing(p))
                   EXCEPT ![s].visited = TRUE]
  /\ UNCHANGED <<managerVars, registryVars, failures, activation, event, profileVars>>

Disposer(s) == scope[s].disposers[scope[s].left]

\* The scope has closed what is below it and has a disposer to call.
Disposing(s, kind) ==
  /\ scope[s].pc = "closing" /\ Below(s) = {} /\ scope[s].left > 0
  /\ Disposer(s).kind = kind

Disposed(s) == scope' = [scope EXCEPT ![s].disposers = RemoveAt(@, scope[s].left),
                                      ![s].left = @ - 1, ![s].awaits = FALSE]

DisposeHandler(s) ==
  /\ Disposing(s, "handler") /\ Disposed(s)
  /\ registrations' = {r \in registrations : r.number # Disposer(s).number}
  /\ UNCHANGED <<managerVars, sequence, reg, res, failures, activation, event, profileVars>>

DisposeCommands(s) ==
  /\ Disposing(s, "commands") /\ Disposed(s)
  /\ reg' = OwnerGone(reg, s)
  /\ UNCHANGED <<managerVars, registrations, sequence, res, failures, activation, event,
                 profileVars>>

\* The resource and its commands go, then the service is closed.
DisposeStorage(s) ==
  /\ Disposing(s, "storage") /\ ~scope[s].awaits
  /\ reg' = CommandsGone(reg, res, Disposer(s).id)
  /\ res' = ResourceGone(res, Disposer(s).id)
  /\ CloseService
  /\ scope' = [scope EXCEPT ![s].awaits = TRUE]
  /\ UNCHANGED <<managerVars, registrations, sequence, failures, activation, event>>

StorageClosed(s) ==
  /\ Disposing(s, "storage") /\ scope[s].awaits /\ closing = "returned"
  /\ Disposed(s)
  /\ UNCHANGED <<managerVars, registryVars, failures, activation, event, profileVars>>

DisposeOwn(s) ==
  /\ Disposing(s, "own") /\ Disposed(s)
  /\ UNCHANGED <<managerVars, registryVars, failures, activation, event, profileVars>>

DisposerFails(s) ==
  /\ Disposing(s, "own") /\ failures < MaxFailures
  /\ failures' = failures + 1
  /\ scope' = [scope EXCEPT ![s].left = @ - 1, ![s].erred = TRUE]
  /\ UNCHANGED <<managerVars, registryVars, activation, event, profileVars>>

\* Nothing is left to call, or something below has failed.
ScopeDone(s) ==
  /\ scope[s].pc = "closing"
  /\ \/ /\ Below(s) = {} /\ scope[s].left = 0
        /\ scope' = [scope EXCEPT ![s].pc = IF scope[s].erred THEN "failed" ELSE "complete"]
     \/ /\ scope[s].visited /\ \E p \in Below(s) : scope[p].pc = "failed"
        /\ scope' = [scope EXCEPT ![s].pc = "failed"]
  /\ UNCHANGED <<managerVars, registryVars, failures, activation, event, profileVars>>

ScopeStep(s) ==
  \/ CloseBelow(s) \/ DisposeHandler(s) \/ DisposeCommands(s) \/ DisposeStorage(s)
  \/ StorageClosed(s) \/ DisposeOwn(s) \/ DisposerFails(s) \/ ScopeDone(s)

\* aclose of the manager: it joins a running cleanup, starts one, or retries a failed one.
Close ==
  /\ cleanup \in {"none", "failed"}
  /\ closed' = TRUE /\ cleanup' = "created"
  /\ overtaken' = overtaken \cup {p \in Plugins : InFlight(p)}
  /\ UNCHANGED <<subscribed, pluginScopes, registryVars, scopeVars, activation, event,
                 profileVars>>

CleanupRuns ==
  /\ cleanup = "created"
  /\ cleanup' = "running" /\ subscribed' = FALSE /\ registrations' = {}
  /\ scope' = Closing(Root)
  /\ UNCHANGED <<closed, pluginScopes, overtaken, sequence, reg, res, failures, activation,
                 event, profileVars>>

CleanupEnds ==
  /\ cleanup = "running" /\ scope[Root].pc \in {"complete", "failed"}
  /\ cleanup' = IF scope[Root].pc = "complete" THEN "done" ELSE "failed"
  /\ pluginScopes' = IF scope[Root].pc = "complete" THEN <<>> ELSE pluginScopes
  /\ UNCHANGED <<closed, subscribed, overtaken, registryVars, scopeVars, activation, event,
                 profileVars>>

ManagerStep == CleanupRuns \/ CleanupEnds

-----------------------------------------------------------------------------
(* Dispatch. *)

InOrder(rs) ==
  SetToSortSeq(rs, LAMBDA a, b : a.order < b.order \/ (a.order = b.order /\ a.number < b.number))

\* dispatch opens a scope for the event below the newest plugin and takes the handlers as
\* they are now.  A parent that is closed refuses it.
Dispatch(e, m) ==
  /\ event[e].pc = "idle" /\ subscribed
  /\ event' = [event EXCEPT ![e] =
                 IF scope[Newest].pc = "open"
                 THEN [Idle EXCEPT !.pc = "chain", !.message = m, !.todo = InOrder(registrations)]
                 ELSE [Idle EXCEPT !.pc = "done", !.failed = TRUE]]
  /\ UNCHANGED <<managerVars, registryVars, scopeVars, activation, profileVars>>

At(e, pc) == event[e].pc = pc
Next1(e) == [event[e] EXCEPT !.pc = "chain", !.todo = Tail(@)]
AtHandler(e) == At(e, "chain") /\ event[e].todo # <<>>
AtRouter(e) == AtHandler(e) /\ Head(event[e].todo).plugin = Router

Unaffected == UNCHANGED <<managerVars, registryVars, scopeVars, activation>>

\* A handler that is not the router ends; one that raises stops the chain.
HandlerEnds(e) ==
  /\ AtHandler(e) /\ ~AtRouter(e)
  /\ event' = [event EXCEPT ![e] = Next1(e)]
  /\ Unaffected /\ UNCHANGED profileVars

HandlerRaises(e) ==
  /\ AtHandler(e) /\ ~AtRouter(e)
  /\ event' = [event EXCEPT ![e].todo = <<>>, ![e].failed = TRUE]
  /\ Unaffected /\ UNCHANGED profileVars

\* The router finds the command, checks the permission and has the arguments parsed in a
\* thread.  What it does not route goes to the next handler, and so does what it has routed.
Route(e) ==
  /\ AtRouter(e)
  /\ LET n == Invoked(reg, event[e].message)
     IN event' = [event EXCEPT ![e] =
                    IF n # None /\ n \in Visible(reg, Capabilities)
                    THEN [@ EXCEPT !.pc = "parsing", !.command = reg.commands[n].spec]
                    ELSE Next1(e)]
  /\ Unaffected /\ UNCHANGED profileVars

\* What a command of a resource asks the provider for.
Asked(resource, command, m) ==
  CASE command.name = SetWord -> SetToSeq({SetOp(f, m.value) : f \in FieldNamed(resource, m.field)})
    [] command.name = DeleteWord -> SetToSeq({DeleteOp(f) : f \in FieldNamed(resource, m.field)})
    [] OTHER -> SetToSeq({GetOp(f) : f \in resource.fields})

PathTo(command) ==
  IF command.name \in {SetWord, DeleteWord} THEN command.path ELSE Append(command.path, command.name)

\* The handler of the command: one of a plugin just ends; that of a resource looks the
\* resource up now, checks the target and, to set, has the value converted in a thread.
RunCommand(e) ==
  /\ At(e, "parsing")
  /\ LET m == event[e].message
         id == Target(res, PathTo(event[e].command))
         proceeds == /\ m.valid /\ id # None
                     /\ Authorized(m.own, res.resources[id].spec.needs, Capabilities)
                     /\ Asked(res.resources[id].spec, event[e].command, m) # <<>>
     IN event' = [event EXCEPT ![e] =
                    IF ~proceeds THEN Next1(e)
                    ELSE [@ EXCEPT !.pc = "asking",
                                   !.ops = Asked(res.resources[id].spec, event[e].command, m)]]
  /\ Unaffected /\ UNCHANGED profileVars

\* The next operation of the provider is called.
Ask(e) ==
  /\ At(e, "asking") /\ event[e].ops # <<>>
  /\ Call(e, Head(event[e].ops))
  /\ event' = [event EXCEPT ![e].pc = "provider", ![e].ops = Tail(@)]
  /\ Unaffected

Answered(e) ==
  /\ At(e, "provider") /\ call[e].pc \in {"returned", "raised"}
  /\ event' = [event EXCEPT ![e] =
                 IF call[e].pc = "returned" /\ @.ops # <<>> THEN [@ EXCEPT !.pc = "asking"]
                 ELSE Next1(e)]
  /\ Unaffected /\ UNCHANGED profileVars

\* The bus cancels the handler of the manager.  A cancelled parse or conversion is waited
\* for; a provider operation is given up.
Cancel(e) ==
  /\ event[e].pc \in {"parsing", "asking"}
  /\ event' = [event EXCEPT ![e].pc = "chain", ![e].todo = <<>>, ![e].failed = TRUE]
  /\ Unaffected /\ UNCHANGED profileVars

CancelProvider(e) ==
  /\ At(e, "provider") /\ CancelCall(e)
  /\ event' = [event EXCEPT ![e].pc = "chain", ![e].todo = <<>>, ![e].failed = TRUE]
  /\ Unaffected

\* The scope of the event, which owns nothing here, is closed.
Finish(e) ==
  /\ At(e, "chain") /\ event[e].todo = <<>>
  /\ event' = [event EXCEPT ![e].pc = "done"]
  /\ Unaffected /\ UNCHANGED profileVars

EventStep(e) ==
  \/ \E m \in Messages : Dispatch(e, m)
  \/ HandlerEnds(e) \/ HandlerRaises(e) \/ Route(e) \/ RunCommand(e) \/ Ask(e)
  \/ Answered(e) \/ Cancel(e) \/ CancelProvider(e) \/ Finish(e)

-----------------------------------------------------------------------------
Next ==
  \/ \E p \in Plugins : ActivationStep(p)
  \/ Start \/ Close \/ ManagerStep
  \/ \E s \in Plugins \cup {Root} : ScopeStep(s)
  \/ \E e \in Events : EventStep(e)
  \/ ProfileStep /\ UNCHANGED hostVars

Spec == Init /\ [][Next]_vars

\* The event loop runs what is ready and SQLite's busy timeout ends every thread; no
\* fairness for the code of plugins.
FairSpec ==
  /\ Spec
  /\ WF_vars(ManagerStep)
  /\ \A s \in Plugins \cup {Root} : WF_vars(ScopeStep(s))
  /\ WF_vars(CloseEnters /\ UNCHANGED hostVars) /\ WF_vars(CloseReturns /\ UNCHANGED hostVars)
  /\ \A c \in Callers : /\ WF_vars(Enter(c) /\ UNCHANGED hostVars)
                        /\ WF_vars(StartThread(c) /\ UNCHANGED hostVars)
                        /\ WF_vars(ThreadStep(c) /\ UNCHANGED hostVars)
===============================================================================
