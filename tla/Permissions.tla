----------------------------- MODULE Permissions -----------------------------
(***************************************************************************)
(* The permission service (features/permissions.py): what the table of     *)
(* roles and the list of grants say each actor of each account may do.     *)
(***************************************************************************)
EXTENDS Integers, SequencesExt, TLC

CONSTANTS
  Tokens,      \* the names that are tokens: not empty, without whitespace
  Public,      \* the capability everyone has
  Anonymous    \* the actor of an event without one

\* _tokens: no two of a list are equal.
ValidTokens(list) == ToSet(list) \subseteq Tokens /\ IsInjective(list)

\* Principal: an actor is known by the account it is seen from.
PrincipalOf(event) == [runtime |-> event.runtime, bot |-> event.bot, actor |-> event.actor]

\* _parse_roles.
ValidRoles(roles) ==
  \A r \in DOMAIN roles :
    r \in Tokens /\ ValidTokens(roles[r]) /\ roles[r] # <<>> /\ ~Contains(roles[r], Public)

\* One entry of _parse_grants, after those before it.
ValidGrant(grants, i, roles) ==
  LET g == grants[i]
  IN  /\ {g.who.runtime, g.who.bot, g.who.actor} \subseteq Tokens
      /\ \A j \in 1 .. i - 1 : grants[j].who # g.who
      /\ ValidTokens(g.roles) /\ ValidTokens(g.capabilities)
      /\ g.roles # <<>> \/ g.capabilities # <<>>
      /\ ToSet(g.roles) \subseteq DOMAIN roles
      /\ ~Contains(g.capabilities, Public)

Capabilities(g, roles) ==
  {Public} \cup ToSet(g.capabilities) \cup UNION {ToSet(roles[r]) : r \in ToSet(g.roles)}

\* create_permission_service: it raises, or has one snapshot for each principal.
PermissionService(config) ==
  IF ValidRoles(config.roles) /\ \A i \in DOMAIN config.grants : ValidGrant(config.grants, i, config.roles)
  THEN [ok |-> TRUE,
        snapshots |-> [who \in {g.who : g \in ToSet(config.grants)} |->
          LET i == SelectInSeq(config.grants, LAMBDA g : g.who = who)
          IN  Capabilities(config.grants[i], config.roles)]]
  ELSE [ok |-> FALSE, snapshots |-> <<>>]

\* resolve: what the event's actor may do; an event without an actor, or whose actor has no
\* grant, may do what is public.
Resolve(service, event) ==
  IF event.actor # Anonymous /\ PrincipalOf(event) \in DOMAIN service.snapshots
  THEN service.snapshots[PrincipalOf(event)] ELSE {Public}

\* allows.
Allowed(service, event, capability) == capability \in Tokens /\ capability \in Resolve(service, event)
=============================================================================
