--------------------------- MODULE AtomicRegistry ---------------------------
(***************************************************************************)
(* What the instance registry promises to the commands that share it: each *)
(* takes effect at one moment and as a whole, or is refused and changes    *)
(* nothing.  Nicknames differ by more than their case, a command knows an  *)
(* instance by any spelling, and the default is always an instance.        *)
(***************************************************************************)
CONSTANTS Processes, Names, Key, Dirs, None

VARIABLES
  place,    \* the directory of each nickname that is registered
  favorite, \* the default, in any spelling, or None
  told      \* what each process was told last

Same(n) == {m \in Names : Key[m] = Key[n]}
Others(n) == {m \in DOMAIN place : m \notin Same(n)}
Registered(n) == DOMAIN place \cap Same(n) # {}

Init == place \in UNION {[S -> Dirs] : S \in SUBSET Names}
          /\ favorite \in {n \in Names : Registered(n)} \cup {None}
          /\ told = [p \in Processes |-> None]

Add(n, d, force) ==
  /\ ~Registered(n) \/ force
  /\ place' = [m \in Others(n) \cup {n} |-> IF m = n THEN d ELSE place[m]]
  /\ favorite' = IF favorite \in Same(n) THEN n ELSE favorite

Use(n) ==
  /\ favorite' \in DOMAIN place \cap Same(n)
  /\ place' = place

Remove(n) ==
  /\ Registered(n)
  /\ place' = [m \in Others(n) |-> place[m]]
  /\ favorite' = IF favorite \in Same(n) THEN None ELSE favorite

Done(p) ==
  /\ told' = [told EXCEPT ![p] = "done"]
  /\ \E n \in Names : \/ \E d \in Dirs, force \in BOOLEAN : Add(n, d, force)
                      \/ Use(n)
                      \/ Remove(n)

Refused(p) ==
  /\ told' = [told EXCEPT ![p] = "refused"]
  /\ UNCHANGED <<place, favorite>>

Forgets(p) ==
  /\ told' = [told EXCEPT ![p] = None]
  /\ UNCHANGED <<place, favorite>>

Next == \E p \in Processes : Done(p) \/ Refused(p) \/ Forgets(p)

Spec == Init /\ [][Next]_<<place, favorite, told>>
=============================================================================
