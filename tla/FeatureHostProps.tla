--------------------------- MODULE FeatureHostProps ---------------------------
(***************************************************************************)
(* What the manager, the registries and the profile service promise        *)
(* together.                                                               *)
(***************************************************************************)
EXTENDS FeatureHost

CONSTANT Tails   \* what may follow a path in the text of a message

ASSUME TailsAssumption == Tails \subseteq Seq(Words)

IdsOf(r) == {r.commands[i] : i \in DOMAIN r.commands}

\* The paths of a registry that a line of tokens starts with.
Spelled(r, tokens) ==
  {q \in DOMAIN r.paths : Len(q) <= Len(tokens) /\ \A i \in 1 .. Len(q) : q[i] = Fold[tokens[i]]}

\* Whatever sequence of batches, refusals and removals: every path leads to a command that has
\* it and every command has all of its paths, and resolve finds it by each; a line that starts
\* with a path, whatever follows, invokes the command of the longest path it starts with (the
\* cached maximum is not too small and no shorter path is preferred), so that the text of a path
\* invokes what resolve gives; a resource has its path and its three commands, which bear its
\* owner.  (register_many, unregister, _remove, _parse and resolve of both services.)
RegistriesAgree ==
  /\ DOMAIN reg.paths = UNION {PathsOf(reg.commands[n].spec) : n \in DOMAIN reg.commands}
  /\ \A q \in DOMAIN reg.paths :
       /\ reg.paths[q] \in DOMAIN reg.commands /\ q \in PathsOf(reg.commands[reg.paths[q]].spec)
       /\ Resolved(reg, q, {reg.commands[n].spec.permission : n \in DOMAIN reg.commands}) = reg.paths[q]
       /\ \A tail \in Tails :
            LET line == [prefixed |-> TRUE, spaced |-> FALSE, tokens |-> q \o tail]
            IN  \E p \in Spelled(reg, q \o tail) :
                  /\ \A s \in Spelled(reg, q \o tail) : Len(s) <= Len(p)
                  /\ Invoked(reg, line) = reg.paths[p]
  /\ DOMAIN res.resources = {res.paths[q] : q \in DOMAIN res.paths}
  /\ \A n \in DOMAIN res.resources :
       LET r == res.resources[n] IN
       /\ Target(res, ResourcePath(r.spec)) = n
       /\ Cardinality(IdsOf(r)) = 3 /\ IdsOf(r) \subseteq OwnedBy(reg, r.owner)

\* A plugin whose scope is closed, after a rollback or by aclose, has left no handler, command
\* or resource behind, nor has a batch or a resource that was refused half way.  A factory that still runs when aclose is called is excepted: it may
\* register a command before its scope refuses to own the removal.
NothingLeftBehind ==
  \A p \in Plugins \ overtaken : scope[p].pc = "complete" =>
    /\ OwnedBy(reg, p) = {}
    /\ \A n \in DOMAIN res.resources : res.resources[n].owner # p
    /\ \A r \in registrations : r.plugin # p

\* When close of the profile service has returned no thread works on the database, and none
\* does when the scope that owns the service is closed, whoever was cancelled meanwhile.
QuietAfterClose ==
  /\ closing = "returned" => Threads = {}
  /\ \A p \in Plugins \ overtaken :
       (scope[p].pc = "complete" /\ call[p].pc # "none") => closing = "returned"

\* A write changes the field it is for and no other: no thread writes back what it has read
\* before another one wrote.
OneFieldAtATime ==
  [][\A f \in Fields : row'[f] # row[f] =>
       \E c \in Callers : /\ ThreadWrites(c)
                          /\ thread[c].op.kind \in {"set", "delete"}
                          /\ thread[c].op.field = f]_vars

\* aclose ends: what it waits for is other scopes, the callers before it and their threads.
ManagerCloses == cleanup = "running" ~> cleanup \in {"done", "failed"}
===============================================================================
