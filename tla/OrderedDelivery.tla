-------------------------- MODULE OrderedDelivery ---------------------------
(***************************************************************************)
(* What publish promises, without tasks, queues, semaphores or timers: one *)
(* line of events per ordering key, a bounded number of events in all      *)
(* lines, an answer for the head of a line only, and a way out of the line *)
(* once the answer is given.  A line is the order in which its events were *)
(* admitted: the relation ahead.  Events are taken out of turn only when   *)
(* the bus closes or when a callback raised CancelledError.                *)
(***************************************************************************)
EXTENDS Integers, FiniteSets

CONSTANTS Events, Keys, KeyOf, Capacity, MayRaise

VARIABLES open,   \* are events admitted?
          inside, \* the events that were admitted and have not left
          ahead,  \* <<e, f>>: both are inside, of one key, and e was admitted before f
          answer  \* what each publisher was told

vars == <<open, inside, ahead, answer>>

Init ==
  /\ open = TRUE
  /\ inside = {} /\ ahead = {}
  /\ answer = [e \in Events |-> "none"]

OfKey(k) == {e \in Events : KeyOf[e] = k}

\* The events of S that no other event of S is ahead of: the head of each line.
Heads(S) == {e \in S : \A f \in S : <<f, e>> \notin ahead}

\* Only the events of rest stay, in the order they have.
Keep(rest) ==
  /\ inside' = rest
  /\ ahead' = {p \in ahead : p[1] \in rest /\ p[2] \in rest}

\* A new event goes to the end of the line of its key.
Admit(e) ==
  /\ open /\ answer[e] = "none" /\ e \notin inside
  /\ Cardinality(inside) < Capacity
  /\ inside' = inside \cup {e}
  /\ ahead' = ahead \cup {<<f, e>> : f \in inside \cap OfKey(KeyOf[e])}
  /\ UNCHANGED <<open, answer>>

\* Never admitted: no room in time, too large, closed, or nobody waits any more.
Refuse(e, verdict) ==
  /\ answer[e] = "none" /\ e \notin inside
  /\ verdict = "closed" => ~open
  /\ answer' = [answer EXCEPT ![e] = verdict]
  /\ UNCHANGED <<open, inside, ahead>>

\* The head of a line, once answered, leaves it or stays; the event then at the head is
\* answered or keeps waiting.
Serve(k) ==
  \E left \in SUBSET {e \in Heads(inside) \cap OfKey(k) : answer[e] # "none"} :
  \E served \in SUBSET {e \in Heads(inside \ left) \cap OfKey(k) : answer[e] = "none"} :
    /\ Keep(inside \ left)
    /\ answer' = [e \in Events |-> IF e \in served THEN "processed" ELSE answer[e]]
    /\ UNCHANGED open

\* Of the events of S, some are answered out of turn, one of them perhaps as failed, and
\* some that have their answer leave out of turn.
Withdraw(S) ==
  \E closed \in SUBSET {e \in inside \cap S : answer[e] = "none"} :
  \E failed \in {{}} \cup {{e} : e \in closed} :
  \E left \in SUBSET {e \in inside \cap S : answer[e] # "none" \/ e \in closed} :
    /\ Keep(inside \ left)
    /\ answer' = [e \in Events |-> IF e \in failed THEN "error"
                                   ELSE IF e \in closed THEN "closed" ELSE answer[e]]
    /\ UNCHANGED open

Close ==
  /\ open /\ open' = FALSE
  /\ UNCHANGED <<inside, ahead, answer>>

Next ==
  \/ \E e \in Events : Admit(e)
  \/ \E e \in Events, verdict \in {"closed", "overloaded", "gone"} : Refuse(e, verdict)
  \/ \E k \in Keys : Serve(k)
  \/ ~open /\ Withdraw(Events)
  \/ MayRaise /\ \E k \in Keys : Withdraw(OfKey(k))
  \/ Close

Spec == Init /\ [][Next]_vars
=============================================================================
