--------------------------- MODULE MCCordisScope ----------------------------
(***************************************************************************)
(* Instances of CordisScope for TLC: a root scope and a plugin below it.   *)
(***************************************************************************)
EXTENDS CordisScope

CONSTANTS root, plugin, ka, kb, thing, u1, u2

Tree == [s \in Scopes \ {Root} |-> root]

\* ka needs kb, which needs itself; the plugin may have a ka of its own, which hides the
\* root's, and owns a thing.
ChainProvides == [s \in Scopes |-> IF s = root THEN {ka, kb} ELSE {ka}]
ChainNeeds == [k \in Keys |-> {kb}]
PluginOwns == [s \in Scopes |-> IF s = plugin THEN {thing} ELSE {}]

\* Two providers of the plugin, each needing the other.
PluginProvides == [s \in Scopes |-> IF s = plugin THEN {ka, kb} ELSE {}]
MutualNeeds == [k \in Keys |-> Keys \ {k}]
NothingOwned == [s \in Scopes |-> {}]

FromPlugin == [u \in Users |-> plugin]
=============================================================================
