-------------------------- MODULE MCPluginManager ---------------------------
(***************************************************************************)
(* An index for TLC: echo needs base, and its second version has another   *)
(* entry point.                                                            *)
(***************************************************************************)
EXTENDS PluginManagerProps

CONSTANTS base, echo, baseEntry, echoEntry, newEntry

IndexPoints ==
  [b \in Bundles |-> [v \in Versions |->
     IF b = base THEN {baseEntry} ELSE IF v = 1 THEN {echoEntry} ELSE {newEntry}]]

IndexNeeds == [b \in Bundles |-> [v \in Versions |-> IF b = echo THEN {base} ELSE {}]]
=============================================================================
