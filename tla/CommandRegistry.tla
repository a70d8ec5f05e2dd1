--------------------------- MODULE CommandRegistry ---------------------------
(***************************************************************************)
(* The registry of commands (features/commands_service.py) as operators on *)
(* a record: commands by id, ids by path, the length of the longest path   *)
(* and the next id.  A word is one token of a path or of a message; Fold   *)
(* is str.casefold, Reserved are the words that start with a prefix.       *)
(***************************************************************************)
EXTENDS Integers, Sequences, FiniteSets, FiniteSetsExt, TLC

CONSTANTS
  Words, Fold, Reserved,
  None         \* no command

ASSUME WordAssumption ==
  /\ Fold \in [Words -> Words]
  /\ \A w \in Words : Fold[Fold[w]] = Fold[w]
  /\ Reserved \subseteq Words

\* A command as far as its names go.
OfWords(spec) == spec.name \in Words /\ spec.aliases \subseteq Words /\ spec.path \in Seq(Words)

NoCommands == [commands |-> <<>>, paths |-> <<>>, longest |-> 0, next |-> 0]

Folded(path) == [i \in DOMAIN path |-> Fold[path[i]]]

\* The paths a command is found by: its name and its aliases behind its path.
PathsOf(spec) == {Folded(Append(spec.path, n)) : n \in {spec.name} \cup spec.aliases}

WordsOf(spec) == {spec.name} \cup spec.aliases \cup {spec.path[i] : i \in DOMAIN spec.path}

\* __post_init__ of a command: no two of its names fold to the same word.
ValidSpec(spec) ==
  \A a, b \in {spec.name} \cup spec.aliases : a # b => Fold[a] # Fold[b]

\* A batch is accepted as a whole or not at all.
Acceptable(reg, specs) ==
  \A i \in DOMAIN specs :
    /\ ValidSpec(specs[i]) /\ WordsOf(specs[i]) \cap Reserved = {}
    /\ PathsOf(specs[i]) \cap DOMAIN reg.paths = {}
    /\ \A j \in 1 .. i - 1 : PathsOf(specs[i]) \cap PathsOf(specs[j]) = {}

\* The ids that register_many gives to a batch, in its order.
NewIds(reg, specs) == [i \in DOMAIN specs |-> reg.next + i - 1]

\* A dict updated by another one, whose entries win.
Updated(old, new) ==
  [x \in DOMAIN old \cup DOMAIN new |-> IF x \in DOMAIN new THEN new[x] ELSE old[x]]

PathLengths(paths) == {Len(q) : q \in paths}

\* Mutant: the length of the longest path is not raised.
AddedShort(reg, specs, owner) ==
  LET idOf(q) == reg.next - 1 + CHOOSE i \in DOMAIN specs : q \in PathsOf(specs[i])
      new == UNION {PathsOf(specs[i]) : i \in DOMAIN specs}
  IN [commands |-> Updated(reg.commands, [n \in reg.next .. reg.next + Len(specs) - 1 |->
                                            [owner |-> owner, spec |-> specs[n - reg.next + 1]]]),
      paths |-> Updated(reg.paths, [q \in new |-> idOf(q)]),
      longest |-> reg.longest, next |-> reg.next + Len(specs)]

\* register_many, for an acceptable batch.
Added(reg, specs, owner) ==
  LET idOf(q) == reg.next - 1 + CHOOSE i \in DOMAIN specs : q \in PathsOf(specs[i])
      new == UNION {PathsOf(specs[i]) : i \in DOMAIN specs}
  IN [commands |-> Updated(reg.commands, [n \in reg.next .. reg.next + Len(specs) - 1 |->
                                            [owner |-> owner, spec |-> specs[n - reg.next + 1]]]),
      paths |-> Updated(reg.paths, [q \in new |-> idOf(q)]),
      longest |-> Max({reg.longest} \cup PathLengths(new)),
      next |-> reg.next + Len(specs)]

\* _remove of several commands, each with all of its paths, and the refreshed maximum.
Without(reg, ids) ==
  LET gone == UNION {PathsOf(reg.commands[n].spec) : n \in ids}
      kept == DOMAIN reg.paths \ gone
  IN [commands |-> [n \in DOMAIN reg.commands \ ids |-> reg.commands[n]],
      paths |-> [q \in kept |-> reg.paths[q]],
      longest |-> Max({0} \cup PathLengths(kept)),
      next |-> reg.next]

\* unregister of some registrations; one that is not registered any more is ignored.
Unregistered(reg, ids) == Without(reg, ids \cap DOMAIN reg.commands)

OwnedBy(reg, owner) == {n \in DOMAIN reg.commands : reg.commands[n].owner = owner}

\* Mutant: only one command of the owner is removed.
OneOfOwner(reg, owner) ==
  Without(reg, IF OwnedBy(reg, owner) = {} THEN {} ELSE {Min(OwnedBy(reg, owner))})

\* unregister_owner.
OwnerGone(reg, owner) == Without(reg, OwnedBy(reg, owner))

\* _allows; a permission service that raises allows nothing.
Allows(reg, n, capabilities) == reg.commands[n].spec.permission \in capabilities

\* visible, as a set: what an event with these capabilities is shown.
Visible(reg, capabilities) == {n \in DOMAIN reg.commands : Allows(reg, n, capabilities)}

\* resolve: an exact path that the event may use.
Resolved(reg, path, capabilities) ==
  IF Folded(path) \in DOMAIN reg.paths /\ reg.paths[Folded(path)] \in Visible(reg, capabilities)
  THEN reg.paths[Folded(path)] ELSE None

\* _parse: the command of a message, by the longest path its first tokens spell.
Invoked(reg, message) ==
  LET spelled == {n \in 1 .. Min({reg.longest, Len(message.tokens)}) :
                    Folded(SubSeq(message.tokens, 1, n)) \in DOMAIN reg.paths}
  IN IF ~message.prefixed \/ message.spaced \/ spelled = {} THEN None
     ELSE reg.paths[Folded(SubSeq(message.tokens, 1, Max(spelled)))]
===============================================================================
