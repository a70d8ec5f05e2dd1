-------------------------- MODULE ResourceRegistry ---------------------------
(***************************************************************************)
(* The registry of resources (features/resources_service.py) beside the    *)
(* registry of commands it puts three commands into for each resource.     *)
(* A resource is registered in both or in neither.                         *)
(***************************************************************************)
EXTENDS CommandRegistry

CONSTANTS
  SetWord, DeleteWord,   \* the last words of the commands that change a field
  Public                 \* the capability every event has

NoResources == [resources |-> <<>>, paths |-> <<>>, next |-> 0]

ResourcePath(resource) == Append(resource.path, resource.name)

\* __post_init__ of a resource: no two of its fields fold to the same word.
ValidResource(resource) == \A f, g \in resource.fields : f # g => Fold[f] # Fold[g]

\* _command_bindings: inspect under the name of the resource, set and delete below it.
CommandsOf(resource) ==
  <<[name |-> resource.name, aliases |-> {}, path |-> resource.path, permission |-> Public],
    [name |-> SetWord, aliases |-> {}, path |-> ResourcePath(resource), permission |-> Public],
    [name |-> DeleteWord, aliases |-> {}, path |-> ResourcePath(resource), permission |-> Public]>>

\* register, which takes both registries or raises before it changes either.
Registrable(reg, res, resource) ==
  /\ ValidResource(resource)
  /\ Folded(ResourcePath(resource)) \notin DOMAIN res.paths
  /\ Acceptable(reg, CommandsOf(resource))

WithCommands(reg, resource, owner) == Added(reg, CommandsOf(resource), owner)

WithResource(reg, res, resource, owner) ==
  [resources |-> Updated(res.resources,
                         [n \in {res.next} |-> [owner |-> owner, spec |-> resource,
                                                commands |-> NewIds(reg, CommandsOf(resource))]]),
   paths |-> Updated(res.paths, [q \in {Folded(ResourcePath(resource))} |-> res.next]),
   next |-> res.next + 1]

\* unregister: the resource, its path and its commands.
ResourceGone(res, id) ==
  [res EXCEPT !.resources = [n \in DOMAIN @ \ {id} |-> @[n]],
              !.paths = [q \in DOMAIN @ \ {Folded(ResourcePath(res.resources[id].spec))} |-> @[q]]]

CommandsGone(reg, res, id) ==
  Unregistered(reg, {res.resources[id].commands[i] : i \in DOMAIN res.resources[id].commands})

\* _target: the resource of a path, None if it is gone.
Target(res, path) == IF Folded(path) \in DOMAIN res.paths THEN res.paths[Folded(path)] ELSE None

\* _authorize: one's own fields, or a capability for those of others.
Authorized(own, needed, capabilities) == own \/ needed \in capabilities

\* _field: the fields of a resource that bear a name, which is compared folded.
FieldNamed(resource, word) == {f \in resource.fields : Fold[f] = Fold[word]}
===============================================================================
