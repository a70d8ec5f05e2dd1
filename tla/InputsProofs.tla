----------------------------- MODULE InputsProofs -----------------------------
(***************************************************************************)
(* Proofs about the two machines among the parts of Inputs: the actions of *)
(* handlers stay on the account and in the conversation of the event they  *)
(* answer, for any accounts, payloads and size of the table of reply       *)
(* routes, however connections come and go; and a catalogue is whole, for  *)
(* any packs, files, budgets and language files, however the files change  *)
(* while they are read.                                                    *)
(***************************************************************************)
EXTENDS OneBotService, ResourcePacks, WellFoundedInduction, NaturalsInduction, TLAPS

-----------------------------------------------------------------------------
(* Numbers. *)

\* A set of naturals has a least element.
LEMMA Least ==
  ASSUME NEW T, T \subseteq Nat, T # {}
  PROVE  \E m \in T : \A k \in T : m <= k
<1> DEFINE R == {ss \in Nat \X Nat : ss[1] < ss[2]}
<1>1. IsWellFoundedOn(R, Nat)
  BY NatLessThanWellFounded, Zenon DEF OpToRel
<1>2. PICK m \in T : \A k \in T : <<k, m>> \notin R
  <2> HIDE DEF R
  <2> QED BY <1>1, WFMin, Zenon
<1>3. ASSUME NEW k \in T PROVE m <= k
  <2>1. ~(k < m)
    BY <1>2
  <2> QED BY <2>1
<1> QED BY <1>3

-----------------------------------------------------------------------------
(* Events. *)

\* The events that accounts may make of payloads.
Events == {NormalizeEvent(a, p, n) : a \in Accounts, p \in Payloads, n \in Nat}

\* What the argument needs of them.
LEMMA EventShape ==
  ASSUME NEW e \in Events
  PROVE  /\ e.runtime \in Accounts /\ e.bot = SelfIds[e.runtime] /\ e.n \in Nat
         /\ e.type \in {"request.friend", "request.group"} => e.post_type = "request"
         /\ e.token \in {Missing, <<e.runtime, e.n>>}
<1>1. PICK a \in Accounts, p \in Payloads, n \in Nat : e = NormalizeEvent(a, p, n)
  BY DEF Events
<1>2. /\ e.runtime = a /\ e.n = n /\ e.bot = SelfIds[a] /\ e.type = p.type
      /\ e.post_type = p.post_type /\ e.token \in {Missing, <<a, n>>}
  BY <1>1 DEF NormalizeEvent
<1> QED BY <1>2, RouteAssumption

\* A group has no parent.
LEMMA GroupsHaveNoParent ==
  ASSUME NEW e \in Events, e.conversation # Missing, e.conversation.type = "group"
  PROVE  e.conversation.parent = Missing
<1>1. PICK a \in Accounts, p \in Payloads, n \in Nat : e = NormalizeEvent(a, p, n)
  BY DEF Events
<1>2. \/ e.conversation = MessageConversation(p)
      \/ e.conversation = SignalConversation(p)
  BY <1>1 DEF NormalizeEvent
<1>3. CASE e.conversation = MessageConversation(p)
  BY <1>3 DEF MessageConversation, Conversation
<1>4. CASE e.conversation = SignalConversation(p)
  BY <1>4 DEF SignalConversation, Conversation
<1> QED BY <1>2, <1>3, <1>4

\* What each account was given and has not handed over is known, and what the bus has.
Known == ToSet(heard) \cup UNION {ToSet(queued[a]) : a \in Accounts}

\* The route of an event.
RouteFor(e) == [token |-> e.token, conversation |-> e.conversation]

ChatShape ==
  /\ received \in Nat
  /\ heard \in Seq(Events)
  /\ queued \in [Accounts -> Seq(Events)]
  /\ issued \in [Accounts -> Seq(Events)]
  /\ routes \in [Accounts -> Seq({RouteFor(e) : e \in Events})]

\* Events are known by their numbers.
Numbered ==
  /\ \A e \in Known : e.n <= received
  /\ \A e, f \in Known : e.n = f.n => e = f

\* The tokens an account has given out belong to events of its own that have a conversation.
TokensOwned ==
  \A a \in Accounts : \A i \in 1 .. Len(issued[a]) :
    LET e == issued[a][i]
    IN  e \in Known /\ e.runtime = a /\ e.token # Missing /\ e.conversation # Missing

\* The table of an account has the routes of the last events it has room for.
Follows(table, events) ==
  /\ Len(table) <= Len(events) /\ Len(table) <= MaxRoutes
  /\ Len(table) \in {Len(events), MaxRoutes}
  /\ \A i \in 1 .. Len(table) : table[i] = RouteFor(events[Len(events) - Len(table) + i])

RoutesFollow == \A a \in Accounts : Follows(routes[a], issued[a])

ChatInv == ChatShape /\ Numbered /\ TokensOwned /\ RoutesFollow

-----------------------------------------------------------------------------
(* Reply routes. *)

\* A new route pushes the oldest one out of a full table, and no other.
LEMMA RememberFollows ==
  ASSUME NEW events \in Seq(Events), NEW table \in Seq({RouteFor(e) : e \in Events}),
         NEW e \in Events, Follows(table, events),
         NEW next, next = RememberReplyRoute(table, e.token, e.conversation)
  PROVE  /\ next \in Seq({RouteFor(f) : f \in Events})
         /\ Follows(next, Append(events, e))
<1> DEFINE more == Append(table, RouteFor(e))
<1>1. PICK k, l : k = Len(table) /\ l = Len(events)
  OBVIOUS
<1>2. k \in Nat /\ l \in Nat /\ MaxRoutes \in Nat \ {0} /\ k <= l /\ k <= MaxRoutes
      /\ k \in {l, MaxRoutes}
  BY <1>1, RouteAssumption DEF Follows
<1>3. PICK m : m = more
  OBVIOUS
<1>4. /\ m \in Seq({RouteFor(f) : f \in Events}) /\ Len(m) = k + 1 /\ m[k + 1] = RouteFor(e)
      /\ \A i \in 1 .. k : m[i] = table[i]
  <2>1. RouteFor(e) \in {RouteFor(f) : f \in Events}
    OBVIOUS
  <2> QED BY <1>1, <1>3, <2>1
<1>5. PICK grown : grown = Append(events, e)
  OBVIOUS
<1>6. /\ Len(grown) = l + 1 /\ grown[l + 1] = e
      /\ \A i \in 1 .. l : grown[i] = events[i]
  BY <1>1, <1>5
<1>7. \A i \in 1 .. k + 1 : m[i] = RouteFor(grown[l - k + i])
  <2> TAKE i \in 1 .. k + 1
  <2>1. CASE i = k + 1
    BY <1>2, <1>4, <1>6, <2>1
  <2>2. CASE i # k + 1
    <3>1. i \in 1 .. k /\ l - k + i \in 1 .. l
      BY <1>2, <2>2
    <3>2. table[i] = RouteFor(events[l - k + i])
      BY <1>1, <3>1 DEF Follows
    <3> QED BY <1>4, <1>6, <3>1, <3>2
  <2> QED BY <2>1, <2>2
<1>8. next = IF k + 1 > MaxRoutes THEN Tail(m) ELSE m
  BY <1>3, <1>4 DEF RememberReplyRoute, RouteFor
<1>9. CASE k + 1 > MaxRoutes
  <2>1. PICK t : t = Tail(m)
    OBVIOUS
  <2>2. /\ k = MaxRoutes /\ t \in Seq({RouteFor(f) : f \in Events}) /\ Len(t) = k
        /\ \A i \in 1 .. k : t[i] = m[i + 1]
    BY <1>2, <1>4, <1>9, <2>1
  <2>3. \A i \in 1 .. k : t[i] = RouteFor(grown[(l + 1) - k + i])
    <3> TAKE i \in 1 .. k
    <3>1. i + 1 \in 1 .. k + 1 /\ l - k + (i + 1) = (l + 1) - k + i
      BY <1>2
    <3> QED BY <1>7, <2>2, <3>1
  <2>4. next = t
    BY <1>8, <1>9, <2>1
  <2>5. Follows(t, grown)
    BY <1>2, <1>6, <2>2, <2>3 DEF Follows
  <2> QED BY <1>5, <2>2, <2>4, <2>5
<1>10. CASE ~(k + 1 > MaxRoutes)
  <2>1. next = m /\ k = l
    BY <1>2, <1>8, <1>10
  <2>2. Follows(m, grown)
    <3>1. \A i \in 1 .. k + 1 : m[i] = RouteFor(grown[(l + 1) - (k + 1) + i])
      <4> TAKE i \in 1 .. k + 1
      <4>1. (l + 1) - (k + 1) + i = l - k + i
        BY <1>2
      <4> QED BY <1>7, <4>1
    <3> QED BY <1>2, <1>4, <1>6, <1>10, <2>1, <3>1 DEF Follows
  <2> QED BY <1>4, <1>5, <2>1, <2>2
<1> QED BY <1>9, <1>10

\* A route is found by its token, if there is one.
LEMMA RouteIsFound ==
  ASSUME NEW S, NEW table \in Seq(S), NEW token, NEW i, i = RouteOf(table, token)
  PROVE  /\ i # 0 => i \in 1 .. Len(table) /\ table[i].token = token
         /\ i = 0 => \A j \in 1 .. Len(table) : table[j].token # token
<1> DEFINE I == {j \in 1 .. Len(table) : table[j].token = token}
<1>1. i = IF I # {} THEN Min(I) ELSE 0
  BY DEF RouteOf, SelectInSeq
<1>2. I \subseteq Nat /\ 0 \notin I
  OBVIOUS
<1>3. I # {} => Min(I) \in I
  <2> SUFFICES ASSUME I # {} PROVE Min(I) \in I
    OBVIOUS
  <2>1. \E m \in I : \A k \in I : m <= k
    <3> HIDE DEF I
    <3> QED BY <1>2, Least
  <2> HIDE DEF I
  <2> QED BY <2>1 DEF Min
<1> QED BY <1>1, <1>2, <1>3

\* The newest events of a list are those that its table has routes for.
LEMMA NewestRouted ==
  ASSUME NEW events \in Seq(Events), NEW table, Follows(table, events), NEW S,
         table \in Seq(S), NEW e \in ToSet(Newest(events))
  PROVE  \E i \in 1 .. Len(table) : table[i] = RouteFor(e)
<1>1. PICK k, l : k = Len(table) /\ l = Len(events)
  OBVIOUS
<1>2. /\ k \in Nat /\ l \in Nat /\ MaxRoutes \in Nat \ {0} /\ k <= l /\ k <= MaxRoutes
      /\ k \in {l, MaxRoutes}
  BY <1>1, RouteAssumption DEF Follows
<1>3. PICK first : first = IF l > MaxRoutes THEN l - MaxRoutes + 1 ELSE 1
  OBVIOUS
<1>4. first = l - k + 1 /\ first \in Nat /\ first >= 1
  BY <1>2, <1>3
<1>5. PICK new : new = SubSeq(events, first, l)
  OBVIOUS
<1>6. Newest(events) = new
  BY <1>1, <1>3, <1>5 DEF Newest
<1>7. Len(new) = k /\ \A i \in 1 .. k : new[i] = events[l - k + i]
  <2>1. Len(new) = k
    BY <1>1, <1>2, <1>4, <1>5
  <2>2. \A i \in 1 .. k : new[i] = events[first + i - 1]
    BY <1>1, <1>2, <1>4, <1>5
  <2>3. \A i \in 1 .. k : first + i - 1 = l - k + i
    BY <1>2, <1>4
  <2> QED BY <2>1, <2>2, <2>3
<1>8. DOMAIN new = 1 .. k
  BY <1>1, <1>2, <1>4, <1>5
<1>9. PICK i \in 1 .. k : e = new[i]
  BY <1>6, <1>8 DEF ToSet
<1>10. table[i] = RouteFor(events[l - k + i])
  BY <1>1, <1>9 DEF Follows
<1> QED BY <1>1, <1>7, <1>9, <1>10

-----------------------------------------------------------------------------
(* The accounts. *)

\* A list that has lost its first event has no event it did not have.
LEMMA TailHas ==
  ASSUME NEW S, NEW s \in Seq(S), s # <<>>
  PROVE  /\ Tail(s) \in Seq(S) /\ Head(s) \in S
         /\ ToSet(Tail(s)) \cup {Head(s)} = ToSet(s)
<1>1. PICK t, l : t = Tail(s) /\ l = Len(t)
  OBVIOUS
<1>2. /\ t \in Seq(S) /\ Head(s) = s[1] /\ l \in Nat /\ Len(s) = l + 1
      /\ DOMAIN t = 1 .. l /\ DOMAIN s = 1 .. l + 1
      /\ \A i \in 1 .. l : t[i] = s[i + 1]
  BY <1>1
<1>3. ASSUME NEW i \in 1 .. l PROVE t[i] \in {s[j] : j \in 1 .. l + 1}
  <2>1. i + 1 \in 1 .. l + 1
    BY <1>2
  <2> QED BY <1>2, <2>1
<1>4. ASSUME NEW j \in 1 .. l + 1, j # 1 PROVE s[j] \in {t[i] : i \in 1 .. l}
  <2>1. j - 1 \in 1 .. l /\ (j - 1) + 1 = j
    BY <1>2, <1>4
  <2>2. t[j - 1] = s[j]
    BY <1>2, <2>1
  <2> QED BY <2>1, <2>2
<1>5. s[1] \in S /\ 1 \in 1 .. l + 1
  BY <1>2
<1>6. ToSet(t) = {t[i] : i \in 1 .. l} /\ ToSet(s) = {s[j] : j \in 1 .. l + 1}
  BY <1>2 DEF ToSet
<1>7. {t[i] : i \in 1 .. l} \cup {s[1]} = {s[j] : j \in 1 .. l + 1}
  BY <1>3, <1>4, <1>5
<1> QED BY <1>1, <1>2, <1>5, <1>6, <1>7

LEMMA AppendHas ==
  ASSUME NEW S, NEW s \in Seq(S), NEW x \in S
  PROVE  Append(s, x) \in Seq(S) /\ ToSet(Append(s, x)) = ToSet(s) \cup {x}
<1>1. PICK t, l : t = Append(s, x) /\ l = Len(s)
  OBVIOUS
<1>2. /\ t \in Seq(S) /\ l \in Nat /\ DOMAIN t = 1 .. l + 1 /\ DOMAIN s = 1 .. l
      /\ t[l + 1] = x /\ \A i \in 1 .. l : t[i] = s[i]
  BY <1>1
<1>3. \A i \in 1 .. l + 1 : i = l + 1 \/ i \in 1 .. l
  BY <1>2
<1>4. l + 1 \in 1 .. l + 1 /\ \A i \in 1 .. l : i \in 1 .. l + 1
  BY <1>2
<1>5. ToSet(t) = {t[i] : i \in 1 .. l + 1} /\ ToSet(s) = {s[i] : i \in 1 .. l}
  BY <1>2 DEF ToSet
<1>6. {t[i] : i \in 1 .. l + 1} = {s[i] : i \in 1 .. l} \cup {x}
  BY <1>2, <1>3, <1>4
<1> QED BY <1>1, <1>2, <1>5, <1>6

LEMMA KnownEvents ==
  ASSUME ChatShape
  PROVE  Known \subseteq Events
<1>1. ToSet(heard) \subseteq Events
  BY DEF ChatShape, ToSet
<1>2. \A a \in Accounts : ToSet(queued[a]) \subseteq Events
  BY DEF ChatShape, ToSet
<1> QED BY <1>1, <1>2 DEF Known

\* Connections come and go.
LEMMA LinksKeep ==
  ASSUME ChatInv, NEW a \in Accounts, Connect(a) \/ Disconnect(a)
  PROVE  ChatInv'
<1>1. UNCHANGED <<received, queued, heard>> /\ Known' = Known
  BY DEF Connect, Disconnect, Known
<1>2. CASE Connect(a)
  BY <1>1, <1>2 DEF Connect, ChatInv, ChatShape, Numbered, TokensOwned, RoutesFollow
<1>3. CASE Disconnect(a)
  <2>1. /\ routes' = [routes EXCEPT ![a] = <<>>] /\ issued' = [issued EXCEPT ![a] = <<>>]
    BY <1>3 DEF Disconnect
  <2>2. ChatShape'
    <3>1. \A S : <<>> \in Seq(S)
      OBVIOUS
    <3> QED BY <1>1, <2>1, <3>1 DEF ChatInv, ChatShape
  <2>3. \A b \in Accounts : IF b = a THEN routes'[b] = <<>> /\ issued'[b] = <<>>
                            ELSE routes'[b] = routes[b] /\ issued'[b] = issued[b]
    BY <2>1 DEF ChatInv, ChatShape
  <2>4. Numbered'
    BY <1>1 DEF ChatInv, Numbered
  <2>5. TokensOwned'
    <3> SUFFICES ASSUME NEW b \in Accounts, NEW i \in 1 .. Len(issued'[b])
                 PROVE  /\ issued'[b][i] \in Known /\ issued'[b][i].runtime = b
                        /\ issued'[b][i].token # Missing /\ issued'[b][i].conversation # Missing
      BY <1>1 DEF TokensOwned
    <3>1. b # a
      BY <2>3
    <3> QED BY <2>3, <3>1 DEF ChatInv, TokensOwned
  <2>6. RoutesFollow'
    <3>1. Follows(<<>>, <<>>)
      BY RouteAssumption DEF Follows
    <3> QED BY <2>3, <3>1 DEF ChatInv, RoutesFollow
  <2> QED BY <2>2, <2>4, <2>5, <2>6 DEF ChatInv
<1> QED BY <1>2, <1>3

\* An event is handed over.
LEMMA PublishKeeps ==
  ASSUME ChatInv, NEW a \in Accounts, Publish(a)
  PROVE  ChatInv'
<1>1. PICK q : q = queued[a]
  OBVIOUS
<1>2. /\ q \in Seq(Events) /\ q # <<>> /\ heard' = Append(heard, Head(q))
      /\ queued' = [queued EXCEPT ![a] = Tail(q)]
      /\ UNCHANGED <<received, linked, routes, issued>>
  BY <1>1 DEF Publish, ChatInv, ChatShape
<1>3. Tail(q) \in Seq(Events) /\ Head(q) \in Events /\ ToSet(Tail(q)) \cup {Head(q)} = ToSet(q)
  BY <1>2, TailHas
<1>4. heard' \in Seq(Events) /\ ToSet(heard') = ToSet(heard) \cup {Head(q)}
  BY <1>2, <1>3, AppendHas DEF ChatInv, ChatShape
<1>5. \A b \in Accounts : queued'[b] = IF b = a THEN Tail(q) ELSE queued[b]
  BY <1>2 DEF ChatInv, ChatShape
<1>6. Known' = Known
  <2>1. Known' = ToSet(heard') \cup UNION {ToSet(queued'[b]) : b \in Accounts}
    BY DEF Known
  <2>2. ASSUME NEW e PROVE e \in Known' <=> e \in Known
    <3>1. CASE e \in ToSet(q)
      <4>1. e \in Known
        BY <1>1, <3>1 DEF Known
      <4>2. e \in ToSet(queued'[a]) \/ e \in ToSet(heard')
        BY <1>3, <1>4, <1>5, <3>1
      <4> QED BY <2>1, <4>1, <4>2
    <3>2. CASE e \notin ToSet(q)
      <4>1. e \in ToSet(heard') <=> e \in ToSet(heard)
        BY <1>3, <1>4, <3>2
      <4>2. \A b \in Accounts : e \in ToSet(queued'[b]) <=> e \in ToSet(queued[b])
        BY <1>1, <1>3, <1>5, <3>2
      <4> QED BY <2>1, <4>1, <4>2 DEF Known
    <3> QED BY <3>1, <3>2
  <2> QED BY <2>2
<1>7. ChatShape'
  BY <1>2, <1>3, <1>4 DEF ChatInv, ChatShape
<1> QED BY <1>2, <1>6, <1>7 DEF ChatInv, Numbered, TokensOwned, RoutesFollow

\* A payload becomes an event, which no earlier one is mistaken for.
LEMMA ConsumeKeeps ==
  ASSUME ChatInv, NEW a \in Accounts, NEW p \in Payloads, Consume(a, p)
  PROVE  ChatInv'
<1>1. PICK e : e = NormalizeEvent(a, p, received + 1)
  OBVIOUS
<1>2. /\ queued' = [queued EXCEPT ![a] = Append(@, e)] /\ received' = received + 1
      /\ UNCHANGED heard
      /\ IF e.token # Missing /\ e.conversation # Missing
         THEN /\ routes' = [routes EXCEPT ![a] = RememberReplyRoute(@, e.token, e.conversation)]
              /\ issued' = [issued EXCEPT ![a] = Append(@, e)]
         ELSE UNCHANGED <<routes, issued>>
  BY <1>1 DEF Consume
<1>3. e \in Events /\ e.n = received + 1 /\ e.runtime = a /\ received \in Nat
  <2>1. received \in Nat /\ received + 1 \in Nat
    BY DEF ChatInv, ChatShape
  <2> QED BY <1>1, <2>1 DEF Events, NormalizeEvent
<1>4. PICK q : q = queued[a]
  OBVIOUS
<1>5. q \in Seq(Events) /\ queued' = [queued EXCEPT ![a] = Append(q, e)]
  BY <1>2, <1>4 DEF ChatInv, ChatShape
<1>6. Append(q, e) \in Seq(Events) /\ ToSet(Append(q, e)) = ToSet(q) \cup {e}
  BY <1>3, <1>5, AppendHas
<1>7. \A b \in Accounts : queued'[b] = IF b = a THEN Append(q, e) ELSE queued[b]
  BY <1>5 DEF ChatInv, ChatShape
<1>8. Known' = Known \cup {e}
  <2>1. Known' = ToSet(heard) \cup UNION {ToSet(queued'[b]) : b \in Accounts}
    BY <1>2 DEF Known
  <2>2. ASSUME NEW f PROVE f \in Known' <=> f \in Known \/ f = e
    <3>1. (\E b \in Accounts : f \in ToSet(queued'[b]))
            <=> (\E b \in Accounts : f \in ToSet(queued[b])) \/ f = e
      BY <1>4, <1>6, <1>7
    <3> QED BY <2>1, <3>1 DEF Known
  <2> QED BY <2>2
<1>9. Numbered'
  <2>1. \A f \in Known : f.n \in Nat /\ f.n <= received
    BY KnownEvents, EventShape DEF ChatInv, Numbered
  <2>2. \A f \in Known : f.n # e.n /\ f.n <= received'
    BY <1>2, <1>3, <2>1
  <2>3. e.n <= received'
    BY <1>2, <1>3
  <2> QED BY <1>8, <2>2, <2>3 DEF ChatInv, Numbered
<1>10. /\ received' \in Nat /\ heard' \in Seq(Events) /\ queued' \in [Accounts -> Seq(Events)]
       /\ routes \in [Accounts -> Seq({RouteFor(f) : f \in Events})]
       /\ issued \in [Accounts -> Seq(Events)]
  <2>1. queued \in [Accounts -> Seq(Events)] /\ heard \in Seq(Events)
    BY DEF ChatInv, ChatShape
  <2>2. queued' \in [Accounts -> Seq(Events)]
    BY <1>5, <1>6, <2>1
  <2>3. received' \in Nat /\ heard' = heard
    BY <1>2, <1>3
  <2>4. /\ routes \in [Accounts -> Seq({RouteFor(f) : f \in Events})]
        /\ issued \in [Accounts -> Seq(Events)]
    BY DEF ChatInv, ChatShape
  <2> QED BY <2>1, <2>2, <2>3, <2>4
<1>11. CASE e.token # Missing /\ e.conversation # Missing
  <2>1. PICK table, events, next : /\ table = routes[a] /\ events = issued[a]
                                   /\ next = RememberReplyRoute(table, e.token, e.conversation)
    OBVIOUS
  <2>2. /\ table \in Seq({RouteFor(f) : f \in Events}) /\ events \in Seq(Events)
        /\ Follows(table, events)
    BY <2>1 DEF ChatInv, ChatShape, RoutesFollow
  <2>3. next \in Seq({RouteFor(f) : f \in Events}) /\ Follows(next, Append(events, e))
    BY <1>3, <2>1, <2>2, RememberFollows
  <2>4. routes' = [routes EXCEPT ![a] = next] /\ issued' = [issued EXCEPT ![a] = Append(events, e)]
    BY <1>2, <1>11, <2>1 DEF ChatInv, ChatShape
  <2>5. PICK grown : grown = Append(events, e)
    OBVIOUS
  <2>6. /\ grown \in Seq(Events) /\ Len(grown) = Len(events) + 1 /\ grown[Len(events) + 1] = e
        /\ \A i \in 1 .. Len(events) : grown[i] = events[i]
        /\ Len(events) \in Nat
    BY <1>3, <2>2, <2>5
  <2>7. \A b \in Accounts : /\ routes'[b] = IF b = a THEN next ELSE routes[b]
                            /\ issued'[b] = IF b = a THEN grown ELSE issued[b]
    BY <2>4, <2>5 DEF ChatInv, ChatShape
  <2>8. ChatShape'
    <3>1. /\ routes' \in [Accounts -> Seq({RouteFor(f) : f \in Events})]
          /\ issued' \in [Accounts -> Seq(Events)]
      BY <1>10, <2>3, <2>4, <2>5, <2>6
    <3> QED BY <1>10, <3>1 DEF ChatShape
  <2>9. TokensOwned'
    <3> SUFFICES ASSUME NEW b \in Accounts, NEW i \in 1 .. Len(issued'[b])
                 PROVE  /\ issued'[b][i] \in Known' /\ issued'[b][i].runtime = b
                        /\ issued'[b][i].token # Missing /\ issued'[b][i].conversation # Missing
      BY DEF TokensOwned
    <3>1. CASE b = a /\ i = Len(events) + 1
      BY <1>3, <1>8, <1>11, <2>6, <2>7, <3>1
    <3>2. CASE b = a /\ i # Len(events) + 1
      <4>1. i \in 1 .. Len(events) /\ issued'[b][i] = issued[b][i]
        BY <2>1, <2>6, <2>7, <3>2
      <4> QED BY <1>8, <2>1, <3>2, <4>1 DEF ChatInv, TokensOwned
    <3>3. CASE b # a
      BY <1>8, <2>7, <3>3 DEF ChatInv, TokensOwned
    <3> QED BY <3>1, <3>2, <3>3
  <2>10. RoutesFollow'
    BY <2>3, <2>5, <2>7 DEF ChatInv, RoutesFollow
  <2> QED BY <1>9, <2>8, <2>9, <2>10 DEF ChatInv
<1>12. CASE ~(e.token # Missing /\ e.conversation # Missing)
  <2>1. UNCHANGED <<routes, issued>>
    BY <1>2, <1>12
  <2>2. ChatShape'
    BY <1>10, <2>1 DEF ChatShape
  <2> QED BY <1>8, <1>9, <2>1, <2>2 DEF ChatInv, TokensOwned, RoutesFollow
<1> QED BY <1>11, <1>12

-----------------------------------------------------------------------------
(* Actions. *)

\* A token of an event that the bus has is that event's alone.
LEMMA TokenNamesEvent ==
  ASSUME ChatInv, NEW e \in Known, NEW f \in Known, e.token = f.token, e.token # Missing
  PROVE  e = f
<1>1. e.token = <<e.runtime, e.n>> /\ f.token = <<f.runtime, f.n>>
  BY KnownEvents, EventShape DEF ChatInv
<1>2. PICK a, b, m, n : a = e.runtime /\ m = e.n /\ b = f.runtime /\ n = f.n
  OBVIOUS
<1>3. <<a, m>> = <<b, n>>
  BY <1>1, <1>2
<1>4. e.n = f.n
  BY <1>2, <1>3
<1> QED BY <1>4 DEF ChatInv, Numbered

\* The conversation of a token that the bus was given is that of any known event that has it.
LEMMA ConversationIsThatOf ==
  ASSUME ChatInv, NEW s \in ToSet(heard), s.token # Missing, NEW e \in Known, e.token = s.token
  PROVE  ConversationOf(heard, s.token) = e.conversation
<1>1. PICK f : f = CHOOSE g \in ToSet(heard) : g.token = s.token
  OBVIOUS
<1>2. f \in ToSet(heard) /\ f.token = s.token
  BY <1>1
<1>3. f \in Known
  BY <1>2 DEF Known
<1>4. f = e
  BY <1>2, <1>3, TokenNamesEvent
<1> QED BY <1>1, <1>4 DEF ConversationOf

\* A call that says something reaches the conversation of an event; it is made if OneBot can
\* address that.
LEMMA SendReaches ==
  ASSUME NEW e \in Events, e.conversation # Missing, NEW call, call = SendTo(e.conversation)
  PROVE  /\ call.api # Missing => Reaches(call, e.conversation)
         /\ Addressable(e.conversation) => call.api # Missing
<1>1. PICK c : c = e.conversation
  OBVIOUS
<1>2. c.type = "group" => c.parent = Missing
  BY <1>1, GroupsHaveNoParent
<1>3. call = SendTo(c)
  BY <1>1
<1>4. CASE call = NoCall("failed")
  <2>1. call.api = Missing
    BY <1>4 DEF NoCall
  <2>2. ~Addressable(c)
    <3> SUFFICES ASSUME Addressable(c) PROVE FALSE
      OBVIOUS
    <3>1. \/ call = Call("send_group_msg", c.id, Missing, Missing)
          \/ call = Call("send_private_msg", c.id, c.parent, Missing)
      BY <1>3 DEF SendTo, Addressable
    <3>2. call.api \in {"send_group_msg", "send_private_msg"}
      BY <3>1 DEF Call
    <3> QED BY <2>1, <3>2, RouteAssumption
  <2> QED BY <1>1, <2>1, <2>2
<1>5. CASE c.type = "group" /\ call = Call("send_group_msg", c.id, Missing, Missing)
  BY <1>1, <1>2, <1>5, RouteAssumption DEF Call, Reaches
<1>6. CASE c.type # "group" /\ call = Call("send_private_msg", c.id, c.parent, Missing)
  BY <1>1, <1>6, RouteAssumption DEF Call, Reaches
<1> QED BY <1>3, <1>4, <1>5, <1>6 DEF SendTo

\* What a handler may ask to say: something in a conversation it has seen, or by a token.
LEMMA MessagesSeen ==
  ASSUME NEW action \in Actions, action.type = "send_message"
  PROVE  \/ \E s \in ToSet(heard) : /\ s.conversation # Missing
                                    /\ action.conversation = s.conversation
                                    /\ action.token = Missing
         \/ \E s \in ToSet(heard) : /\ s.token # Missing /\ action.token = s.token
                                    /\ action.conversation = Missing
BY DEF Actions

\* Where a message goes.
LEMMA MessageGoesHome ==
  ASSUME ChatInv, NEW a \in Accounts, NEW action \in Actions, action.type = "send_message",
         NEW call, call = SendMessage(a, action), call.api # Missing
  PROVE  IF action.conversation # Missing THEN Reaches(call, action.conversation)
         ELSE Reaches(call, ConversationOf(heard, action.token)) /\ action.token[1] = a
<1>1. CASE action.conversation # Missing
  <2>1. PICK s \in ToSet(heard) : action.conversation = s.conversation
    BY <1>1, MessagesSeen
  <2>2. s \in Events
    BY <2>1, KnownEvents DEF Known, ChatInv
  <2>3. call = SendTo(s.conversation)
    BY <1>1, <2>1 DEF SendMessage
  <2> QED BY <1>1, <2>1, <2>2, <2>3, SendReaches
<1>2. CASE action.conversation = Missing
  <2>1. PICK s \in ToSet(heard) : s.token # Missing /\ action.token = s.token
    BY <1>2, MessagesSeen
  <2>2. PICK table, i : table = routes[a] /\ i = RouteOf(table, action.token)
    OBVIOUS
  <2>3. /\ table \in Seq({RouteFor(e) : e \in Events}) /\ Follows(table, issued[a])
        /\ Len(issued[a]) \in Nat
    <3>1. /\ routes[a] \in Seq({RouteFor(e) : e \in Events})
          /\ issued[a] \in Seq(Events)
      BY DEF ChatInv, ChatShape
    <3>2. Follows(routes[a], issued[a])
      BY DEF ChatInv, RoutesFollow
    <3>3. Len(issued[a]) \in Nat
      BY <3>1
    <3> QED BY <2>2, <3>1, <3>2, <3>3
  <2>4. call = IF i = 0 THEN NoCall("failed") ELSE SendTo(table[i].conversation)
    BY <1>2, <2>2 DEF SendMessage
  <2>5. i # 0
    BY <2>4 DEF NoCall
  <2>6. i \in 1 .. Len(table) /\ table[i].token = action.token
    BY <2>2, <2>3, <2>5, RouteIsFound
  <2>7. PICK j : j = Len(issued[a]) - Len(table) + i
    OBVIOUS
  <2>8. j \in 1 .. Len(issued[a]) /\ table[i] = RouteFor(issued[a][j])
    BY <2>3, <2>6, <2>7 DEF Follows
  <2>9. PICK e : e = issued[a][j]
    OBVIOUS
  <2>10. e \in Known /\ e.runtime = a /\ e.token # Missing /\ e.conversation # Missing
    BY <2>8, <2>9 DEF ChatInv, TokensOwned
  <2>11. e \in Events
    BY <2>10, KnownEvents DEF ChatInv
  <2>12. e.token = action.token /\ table[i].conversation = e.conversation
    BY <2>6, <2>8, <2>9 DEF RouteFor
  <2>13. ConversationOf(heard, action.token) = e.conversation
    BY <2>1, <2>10, <2>12, ConversationIsThatOf
  <2>14. Reaches(call, e.conversation)
    BY <2>4, <2>5, <2>10, <2>11, <2>12, SendReaches
  <2>15. action.token[1] = a
    BY <2>10, <2>11, <2>12, EventShape
  <2> QED BY <1>2, <2>13, <2>14, <2>15
<1> QED BY <1>1, <1>2

\* A message that answers by one of the newest tokens goes out.
LEMMA NewestIsAnswered ==
  ASSUME ChatInv, NEW a \in Accounts, NEW action \in Actions, action.type = "send_message",
         action.token \in {t.token : t \in ToSet(Newest(issued[a]))},
         Addressable(ConversationOf(heard, action.token)),
         NEW call, call = SendMessage(a, action)
  PROVE  call.api # Missing
<1>1. PICK table, events : table = routes[a] /\ events = issued[a]
  OBVIOUS
<1>2. /\ table \in Seq({RouteFor(e) : e \in Events}) /\ Follows(table, events)
      /\ events \in Seq(Events)
  <2>1. routes[a] \in Seq({RouteFor(e) : e \in Events}) /\ issued[a] \in Seq(Events)
    BY DEF ChatInv, ChatShape
  <2>2. Follows(routes[a], issued[a])
    BY DEF ChatInv, RoutesFollow
  <2> QED BY <1>1, <2>1, <2>2
<1>3. PICK t \in ToSet(Newest(events)) : action.token = t.token
  BY <1>1
<1>4. PICK i \in 1 .. Len(table) : table[i] = RouteFor(t)
  BY <1>2, <1>3, NewestRouted
<1>5. PICK j : j = Len(events) - Len(table) + i
  OBVIOUS
<1>6. j \in 1 .. Len(events) /\ table[i] = RouteFor(events[j])
  BY <1>2, <1>5 DEF Follows
<1>7. events[j].token = t.token
  BY <1>4, <1>6 DEF RouteFor
<1>8. action.token # Missing
  BY <1>1, <1>3, <1>6, <1>7 DEF ChatInv, TokensOwned
<1>9. PICK s \in ToSet(heard) : action.token = s.token /\ action.conversation = Missing
  BY <1>8, MessagesSeen
<1>10. PICK k : k = RouteOf(table, action.token)
  OBVIOUS
<1>11. k # 0
  <2>1. table[i].token = action.token
    BY <1>3, <1>4 DEF RouteFor
  <2> QED BY <1>2, <1>10, <2>1, RouteIsFound
<1>12. k \in 1 .. Len(table) /\ table[k].token = action.token
  BY <1>2, <1>10, <1>11, RouteIsFound
<1>13. PICK l : l = Len(events) - Len(table) + k
  OBVIOUS
<1>14. l \in 1 .. Len(events) /\ table[k] = RouteFor(events[l])
  BY <1>2, <1>12, <1>13 DEF Follows
<1>15. PICK e : e = events[l]
  OBVIOUS
<1>16. e \in Known /\ e.conversation # Missing
  BY <1>1, <1>14, <1>15 DEF ChatInv, TokensOwned
<1>17. e.token = action.token /\ table[k].conversation = e.conversation
  BY <1>12, <1>14, <1>15 DEF RouteFor
<1>18. ConversationOf(heard, action.token) = e.conversation
  BY <1>8, <1>9, <1>16, <1>17, ConversationIsThatOf
<1>19. call = SendTo(e.conversation)
  BY <1>1, <1>9, <1>10, <1>11, <1>17 DEF SendMessage
<1>20. e \in Events
  BY <1>16, KnownEvents DEF ChatInv
<1> QED BY <1>16, <1>18, <1>19, <1>20, SendReaches

\* What an action does that the service carries out: its event is one of the account, and the
\* call is the account's own.
LEMMA ExecuteCarries ==
  ASSUME NEW e, NEW envelope, NEW call, call = Execute(e, envelope), call.api # Missing
  PROVE  /\ e # Missing /\ envelope.event = e.n /\ envelope.runtime = e.runtime
         /\ envelope.bot = e.bot /\ e.runtime \in Accounts /\ SelfIds[e.runtime] = e.bot
         /\ call = Carried(e.runtime, e, envelope.action)
<1>1. \A code : NoCall(code).api = Missing
  BY DEF NoCall
<1>2. \A code : call # NoCall(code)
  BY <1>1
<1> QED BY <1>2 DEF Execute

LEMMA CarriedPerforms ==
  ASSUME NEW a, NEW e, NEW action, NEW call, call = Carried(a, e, action), call.api # Missing
  PROVE  /\ a \in linked
         /\ action.type = "send_message" => call = SendMessage(a, action)
         /\ action.type = "respond_request" => call = RespondRequest(e)
<1>1. PICK c : c = CASE action.type = "send_message" -> SendMessage(a, action)
                     [] action.type = "delete_message" -> Call("delete_msg", Missing, Missing, Missing)
                     [] action.type = "respond_request" -> RespondRequest(e)
                     [] action.type = "adapter_action" -> AdapterAction(action)
  OBVIOUS
<1>2. call = Performed(a, c)
  BY <1>1 DEF Carried
<1>3. NoCall("failed").api = Missing
  BY DEF NoCall
<1>4. call = c /\ a \in linked
  BY <1>2, <1>3 DEF Performed
<1> QED BY <1>1, <1>4

LEMMA RequestsAnswered ==
  ASSUME NEW e \in Events, NEW call, call = RespondRequest(e), call.api # Missing
  PROVE  call.flag = e.flag /\ e.post_type = "request"
<1>1. call # NoCall("failed")
  BY DEF NoCall
<1>2. /\ e.type \in {"request.friend", "request.group"}
      /\ \/ call = Call("set_friend_add_request", Missing, Missing, e.flag)
         \/ call = Call("set_group_add_request", Missing, Missing, e.flag)
  BY <1>1 DEF RespondRequest
<1> QED BY <1>2, EventShape DEF Call

\* Whatever event a handler answers, and whichever event its envelope names.
LEMMA ExecuteStaysHome ==
  ASSUME ChatInv, NEW e \in ToSet(heard) \cup {Missing}, NEW named \in ToSet(heard),
         NEW action \in Actions, NEW envelope,
         envelope = [event |-> named.n, runtime |-> named.runtime, bot |-> named.bot,
                     action |-> action],
         NEW call, call = Execute(e, envelope)
  PROVE  /\ StaysHome(e, envelope, call)
         /\ Answerable(e, envelope) => call.api # Missing
<1>0. envelope.action = action /\ envelope.event = named.n /\ envelope.runtime = named.runtime
      /\ envelope.bot = named.bot
  OBVIOUS
<1>1. ASSUME e # Missing PROVE e \in Known /\ e \in Events
  BY <1>1, KnownEvents DEF Known, ChatInv
<1>2. ASSUME call.api # Missing PROVE StaysHome(e, envelope, call)
  <2>1. /\ e # Missing /\ envelope.runtime = e.runtime /\ e.runtime \in Accounts
        /\ e.bot = SelfIds[e.runtime] /\ call = Carried(e.runtime, e, action)
    BY <1>0, <1>2, ExecuteCarries
  <2>2. /\ e.runtime \in linked
        /\ action.type = "send_message" => call = SendMessage(e.runtime, action)
        /\ action.type = "respond_request" => call = RespondRequest(e)
    BY <1>2, <2>1, CarriedPerforms
  <2>3. action.type = "respond_request" => call.flag = e.flag /\ e.post_type = "request"
    BY <1>1, <1>2, <2>1, <2>2, RequestsAnswered
  <2>4. action.type = "send_message" =>
          IF action.conversation # Missing THEN Reaches(call, action.conversation)
          ELSE Reaches(call, ConversationOf(heard, action.token)) /\ action.token[1] = e.runtime
    <3> SUFFICES ASSUME action.type = "send_message"
                 PROVE  IF action.conversation # Missing THEN Reaches(call, action.conversation)
                        ELSE /\ Reaches(call, ConversationOf(heard, action.token))
                             /\ action.token[1] = e.runtime
      OBVIOUS
    <3>1. PICK a : a = e.runtime
      OBVIOUS
    <3>2. a \in Accounts /\ call = SendMessage(a, action)
      BY <2>1, <2>2, <3>1
    <3> QED BY <1>2, <3>1, <3>2, MessageGoesHome
  <2> QED BY <1>0, <2>1, <2>2, <2>3, <2>4 DEF StaysHome
<1>3. ASSUME Answerable(e, envelope) PROVE call.api # Missing
  <2>1. /\ action.type = "send_message" /\ e # Missing /\ named.n = e.n /\ e.runtime \in linked
        /\ action.token \in {t.token : t \in ToSet(Newest(issued[e.runtime]))}
        /\ Addressable(ConversationOf(heard, action.token))
    BY <1>0, <1>3 DEF Answerable
  <2>2. named \in Known /\ e \in Known /\ e \in Events
    BY <1>1, <2>1 DEF Known
  <2>3. named = e
    BY <2>1, <2>2 DEF ChatInv, Numbered
  <2>4. PICK a : a = e.runtime
    OBVIOUS
  <2>5. a \in Accounts /\ SelfIds[a] = e.bot /\ a \in linked
    BY <2>1, <2>2, <2>4, EventShape
  <2>6. call = Carried(a, e, action)
    BY <1>0, <2>1, <2>3, <2>4, <2>5 DEF Execute
  <2>7. PICK sent : sent = SendMessage(a, action)
    OBVIOUS
  <2>8. call = sent
    BY <2>1, <2>5, <2>6, <2>7 DEF Carried, Performed
  <2> QED BY <2>1, <2>4, <2>5, <2>7, <2>8, NewestIsAnswered
<1>4. call.api = Missing => StaysHome(e, envelope, call)
  BY DEF StaysHome
<1> QED BY <1>2, <1>3, <1>4

LEMMA ActKeeps ==
  ASSUME ChatInv, NEW e \in ToSet(heard) \cup {Missing}, NEW named \in ToSet(heard),
         NEW action \in Actions, Act(e, named, action)
  PROVE  ChatInv' /\ AnswersGoHome'
<1>1. UNCHANGED <<linked, received, routes, queued, heard, issued>>
  BY DEF Act
<1>2. ChatInv'
  <2>1. Known' = Known
    BY <1>1 DEF Known
  <2> QED BY <1>1, <2>1 DEF ChatInv, ChatShape, Numbered, TokensOwned, RoutesFollow
<1>3. PICK envelope, call :
        /\ envelope = [event |-> named.n, runtime |-> named.runtime, bot |-> named.bot,
                       action |-> action]
        /\ call = Execute(e, envelope)
  OBVIOUS
<1>4. last' = [event |-> e, envelope |-> envelope, result |-> call]
  BY <1>3 DEF Act
<1>5. StaysHome(e, envelope, call) /\ (Answerable(e, envelope) => call.api # Missing)
  BY <1>3, ExecuteStaysHome
<1>6. StaysHome(e, envelope, call)' /\ (Answerable(e, envelope)' => call.api # Missing)
  BY <1>1, <1>5 DEF StaysHome, Answerable
<1>7. last'.event = e /\ last'.envelope = envelope /\ last'.result = call
  BY <1>4
<1>8. AnswersGoHome'
  BY <1>6, <1>7 DEF AnswersGoHome, StaysHome, Answerable
<1> QED BY <1>2, <1>8

\* Whatever payloads come in, however connections end and begin anew, and whichever event a
\* handler names in its envelope: an action goes out on the account of the event it answers and
\* reaches the conversation it is meant for or fails, and a token that its account still has to
\* know is answered.
THEOREM ActionsStayHome == ChatSpec => []AnswersGoHome
<1>1. ChatInit => ChatInv /\ AnswersGoHome
  <2> SUFFICES ASSUME ChatInit PROVE ChatInv /\ AnswersGoHome
    OBVIOUS
  <2>1. /\ received = 0 /\ heard = <<>> /\ last = Missing
        /\ routes = [a \in Accounts |-> <<>>] /\ queued = [a \in Accounts |-> <<>>]
        /\ issued = [a \in Accounts |-> <<>>]
    BY DEF ChatInit
  <2>2. \A S : <<>> \in Seq(S)
    OBVIOUS
  <2>3. ChatShape
    BY <2>1, <2>2 DEF ChatShape
  <2>4. Known = {}
    BY <2>1 DEF Known, ToSet
  <2>5. Follows(<<>>, <<>>)
    BY RouteAssumption DEF Follows
  <2>6. RoutesFollow
    BY <2>1, <2>5 DEF RoutesFollow
  <2>7. TokensOwned
    BY <2>1 DEF TokensOwned
  <2> QED BY <2>1, <2>3, <2>4, <2>6, <2>7 DEF ChatInv, Numbered, AnswersGoHome
<1>2. ChatInv /\ AnswersGoHome /\ [ChatNext]_chatVars => ChatInv' /\ AnswersGoHome'
  <2> SUFFICES ASSUME ChatInv, AnswersGoHome, [ChatNext]_chatVars
               PROVE  ChatInv' /\ AnswersGoHome'
    OBVIOUS
  <2>1. CASE UNCHANGED chatVars
    <3>1. Known' = Known
      BY <2>1 DEF chatVars, Known
    <3>2. ChatInv'
      BY <2>1, <3>1 DEF chatVars, ChatInv, ChatShape, Numbered, TokensOwned, RoutesFollow
    <3>3. AnswersGoHome'
      BY <2>1 DEF chatVars, AnswersGoHome, StaysHome, Answerable
    <3> QED BY <3>2, <3>3
  <2>2. ASSUME last = Missing, UNCHANGED last PROVE AnswersGoHome'
    BY <2>2 DEF AnswersGoHome
  <2>3. ASSUME ChatNext, NEW a \in Accounts, NEW p \in Payloads, Consume(a, p)
        PROVE  ChatInv' /\ AnswersGoHome'
    BY <2>2, <2>3, ConsumeKeeps DEF ChatNext, Consume
  <2>4. ASSUME ChatNext, NEW a \in Accounts, Publish(a) \/ Connect(a) \/ Disconnect(a)
        PROVE  ChatInv' /\ AnswersGoHome'
    BY <2>2, <2>4, PublishKeeps, LinksKeep DEF ChatNext, Publish, Connect, Disconnect
  <2> QED BY <2>1, <2>3, <2>4, ActKeeps DEF ChatNext
<1> QED BY <1>1, <1>2, PTL DEF ChatSpec

-----------------------------------------------------------------------------
(* Lists, and what is known of them by their first term and their step. *)

\* A set of naturals that goes on from 0 has them all.
LEMMA Counting ==
  ASSUME NEW T, T \subseteq Nat, 0 \in T, \A n \in T : n + 1 \in T
  PROVE  T = Nat
<1> SUFFICES ASSUME Nat \ T # {} PROVE FALSE
  OBVIOUS
<1>1. PICK m \in Nat \ T : \A k \in Nat \ T : m <= k
  <2> DEFINE U == Nat \ T
  <2>1. U \subseteq Nat /\ U # {}
    OBVIOUS
  <2> HIDE DEF U
  <2>2. \E m \in U : \A k \in U : m <= k
    BY <2>1, Least
  <2> QED BY <2>2 DEF U
<1>2. m - 1 \in Nat /\ ~(m <= m - 1)
  OBVIOUS
<1>3. m - 1 \in T
  BY <1>1, <1>2
<1>4. m \in T
  BY <1>2, <1>3
<1> QED BY <1>4

\* A set of indexes has a greatest element.
LEMMA Greatest ==
  ASSUME NEW n \in Nat, NEW T, T \subseteq 1 .. n, T # {}
  PROVE  \E m \in T : \A k \in T : k <= m
<1> DEFINE U == {j \in Nat : n - j \in T}
<1>1. U \subseteq Nat
  OBVIOUS
<1>2. U # {}
  <2>1. PICK k \in T : TRUE
    OBVIOUS
  <2>2. n - k \in Nat /\ n - (n - k) = k
    OBVIOUS
  <2> QED BY <2>2
<1>3. PICK m \in U : \A k \in U : m <= k
  <2> HIDE DEF U
  <2> QED BY <1>1, <1>2, Least
<1>4. m \in Nat /\ n - m \in T
  OBVIOUS
<1>5. ASSUME NEW k \in T PROVE k <= n - m
  <2>1. k \in 1 .. n /\ n - k \in Nat /\ n - (n - k) = k
    OBVIOUS
  <2>2. n - k \in U
    BY <2>1
  <2>3. m <= n - k
    BY <1>3, <2>2
  <2> QED BY <1>4, <2>1, <2>3
<1> QED BY <1>4, <1>5

IsList(s) == s \in Seq(ToSet(s))

LEMMA ListProperties ==
  ASSUME NEW s, IsList(s)
  PROVE  Len(s) \in Nat /\ DOMAIN s = 1 .. Len(s)
BY DEF IsList

LEMMA EmptyIsList == IsList(<<>>) /\ Len(<<>>) = 0
BY DEF IsList

LEMMA AppendIsList ==
  ASSUME NEW s, NEW x, IsList(s)
  PROVE  /\ IsList(Append(s, x)) /\ Len(Append(s, x)) = Len(s) + 1
         /\ \A i \in 1 .. Len(s) : Append(s, x)[i] = s[i]
         /\ Append(s, x)[Len(s) + 1] = x
<1> DEFINE S == ToSet(s) \cup {x}
<1>1. s \in Seq(S) /\ x \in S
  BY DEF IsList
<1> HIDE DEF S
<1>2. /\ Append(s, x) \in Seq(S) /\ Len(Append(s, x)) = Len(s) + 1
      /\ \A i \in 1 .. Len(s) : Append(s, x)[i] = s[i]
      /\ Append(s, x)[Len(s) + 1] = x
  BY <1>1
<1>3. IsList(Append(s, x))
  BY <1>2 DEF IsList, ToSet
<1> QED BY <1>2, <1>3

LEMMA FunctionIsList ==
  ASSUME NEW n \in Nat, NEW s, s = [i \in 1 .. n |-> s[i]]
  PROVE  IsList(s) /\ Len(s) = n
<1> DEFINE S == {s[i] : i \in 1 .. n}
<1>1. DOMAIN s = 1 .. n /\ s \in [1 .. n -> S]
  OBVIOUS
<1>2. s \in Seq(S) /\ Len(s) = n
  <2> HIDE DEF S
  <2> QED BY <1>1
<1>3. IsList(s)
  BY <1>1, <1>2 DEF IsList, ToSet
<1> QED BY <1>2, <1>3

-----------------------------------------------------------------------------
(* Dictionaries updated in turn. *)

\* f[i] is a dictionary after the first i of these updates.
Updates(f, s, n) ==
  /\ f[0] = <<>>
  /\ \A i \in 1 .. n : f[i] = Update(f[i - 1], s[i])

LEMMA UpdatesExist ==
  ASSUME NEW s, NEW n \in Nat
  PROVE  \E f : Updates(f, s, n)
<1> DEFINE T == {k \in Nat : \E f : Updates(f, s, k)}
<1>1. 0 \in T
  <2>1. Updates([i \in 0 .. 0 |-> <<>>], s, 0)
    BY DEF Updates
  <2> QED BY <2>1
<1>2. ASSUME NEW k \in T PROVE k + 1 \in T
  <2>1. PICK f : Updates(f, s, k)
    OBVIOUS
  <2>2. k \in Nat
    OBVIOUS
  <2> DEFINE g == [i \in 0 .. k + 1 |-> IF i = k + 1 THEN Update(f[k], s[k + 1]) ELSE f[i]]
  <2>3. g[0] = <<>>
    BY <2>1, <2>2 DEF Updates
  <2>4. ASSUME NEW i \in 1 .. k + 1 PROVE g[i] = Update(g[i - 1], s[i])
    <3>1. i - 1 \in 0 .. k + 1 /\ i \in 0 .. k + 1 /\ i - 1 # k + 1
      BY <2>2
    <3>2. CASE i = k + 1
      BY <2>2, <3>1, <3>2
    <3>3. CASE i # k + 1
      <4>1. i \in 1 .. k
        BY <2>2, <3>3
      <4> QED BY <2>1, <3>1, <3>3, <4>1 DEF Updates
    <3> QED BY <3>2, <3>3
  <2>5. Updates(g, s, k + 1)
    <3> HIDE DEF g
    <3> QED BY <2>3, <2>4 DEF Updates
  <2> QED BY <2>2, <2>5
<1>3. T = Nat
  <2>1. T \subseteq Nat
    OBVIOUS
  <2> HIDE DEF T
  <2> QED BY <1>1, <1>2, <2>1, Counting
<1> QED BY <1>3

LEMMA UpdatedIs ==
  ASSUME NEW s, Len(s) \in Nat
  PROVE  \E f : Updates(f, s, Len(s)) /\ Updated(s) = f[Len(s)]
<1> DEFINE Step(h) == [i \in 0 .. Len(s) |-> IF i = 0 THEN <<>> ELSE Update(h[i - 1], s[i])]
           result == CHOOSE h : h = Step(h)
<1>1. PICK f : Updates(f, s, Len(s))
  BY UpdatesExist
<1>2. PICK h : h = [i \in 0 .. Len(s) |-> f[i]]
  OBVIOUS
<1>3. h = Step(h)
  <2>1. ASSUME NEW i \in 0 .. Len(s)
        PROVE  f[i] = IF i = 0 THEN <<>> ELSE Update(h[i - 1], s[i])
    <3>1. CASE i = 0
      BY <1>1, <3>1 DEF Updates
    <3>2. CASE i # 0
      <4>1. i \in 1 .. Len(s) /\ i - 1 \in 0 .. Len(s)
        BY <3>2
      <4> QED BY <1>1, <1>2, <3>2, <4>1 DEF Updates
    <3> QED BY <3>1, <3>2
  <2> QED BY <1>2, <2>1
<1>4. result = Step(result)
  <2> HIDE DEF Step
  <2> QED BY <1>3
<1>5. Updated(s) = result[Len(s)]
  BY DEF Updated
<1>6. PICK r : r = result
  OBVIOUS
<1>7. r = Step(r) /\ Updated(s) = r[Len(s)]
  <2> HIDE DEF Step
  <2> QED BY <1>4, <1>5, <1>6
<1> HIDE DEF result
<1>8. r[0] = <<>>
  <2>1. 0 \in 0 .. Len(s)
    OBVIOUS
  <2> QED BY <1>7, <2>1
<1>9. ASSUME NEW i \in 1 .. Len(s) PROVE r[i] = Update(r[i - 1], s[i])
  <2>1. i \in 0 .. Len(s) /\ i # 0
    OBVIOUS
  <2> HIDE DEF Step
  <2>2. r = [j \in 0 .. Len(s) |-> IF j = 0 THEN <<>> ELSE Update(r[j - 1], s[j])]
    BY <1>7 DEF Step
  <2> QED BY <2>1, <2>2
<1> QED BY <1>7, <1>8, <1>9 DEF Updates

\* A dictionary has the keys of all updates, ...
\* ... and the last update of a key decides.
LEMMA UpdatedProperties ==
  ASSUME NEW s, Len(s) \in Nat, NEW x
  PROVE  /\ x \in DOMAIN Updated(s) <=> \E i \in 1 .. Len(s) : x \in DOMAIN s[i]
         /\ \A i \in 1 .. Len(s) :
              x \in DOMAIN s[i] /\ (\A j \in i + 1 .. Len(s) : x \notin DOMAIN s[j])
                => Updated(s)[x] = s[i][x]
<1>1. PICK f : Updates(f, s, Len(s)) /\ Updated(s) = f[Len(s)]
  BY UpdatedIs
<1> DEFINE Has(n) == x \in DOMAIN f[n] <=> \E i \in 1 .. n : x \in DOMAIN s[i]
           Latest(n) == \A i \in 1 .. n :
                        x \in DOMAIN s[i] /\ (\A j \in i + 1 .. n : x \notin DOMAIN s[j])
                          => f[n][x] = s[i][x]
           T == {n \in Nat : n <= Len(s) => Has(n) /\ Latest(n)}
<1>2. 0 \in T
  <2>1. f[0] = <<>>
    BY <1>1 DEF Updates
  <2>2. x \notin DOMAIN f[0]
    BY <2>1
  <2> QED BY <2>2
<1>3. ASSUME NEW m \in T PROVE m + 1 \in T
  <2> SUFFICES ASSUME m + 1 <= Len(s) PROVE Has(m + 1) /\ Latest(m + 1)
    OBVIOUS
  <2>1. m \in Nat /\ Has(m) /\ Latest(m)
    <3> HIDE DEF Has, Latest
    <3>1. m \in Nat
      OBVIOUS
    <3>2. m <= Len(s)
      BY <3>1
    <3> QED BY <3>1, <3>2
  <2> HIDE DEF T
  <2>2. f[m + 1] = Update(f[m], s[m + 1])
    BY <1>1, <2>1 DEF Updates
  <2>3. /\ DOMAIN f[m + 1] = DOMAIN s[m + 1] \cup DOMAIN f[m]
        /\ x \in DOMAIN f[m + 1] => f[m + 1][x] = IF x \in DOMAIN s[m + 1] THEN s[m + 1][x] ELSE f[m][x]
    BY <2>2 DEF Update
  <2>4. Has(m + 1)
    BY <2>1, <2>3
  <2>5. ASSUME NEW i \in 1 .. m + 1, x \in DOMAIN s[i], \A j \in i + 1 .. m + 1 : x \notin DOMAIN s[j]
        PROVE  f[m + 1][x] = s[i][x]
    <3>1. x \in DOMAIN f[m + 1]
      BY <2>4, <2>5
    <3>2. CASE i = m + 1
      BY <2>3, <2>5, <3>1, <3>2
    <3>3. CASE i # m + 1
      <4>1. i \in 1 .. m /\ m + 1 \in i + 1 .. m + 1
        BY <2>1, <3>3
      <4>2. \A j \in i + 1 .. m : j \in i + 1 .. m + 1
        BY <2>1, <4>1
      <4>3. f[m][x] = s[i][x]
        BY <2>1, <2>5, <4>1, <4>2
      <4>4. x \notin DOMAIN s[m + 1]
        BY <2>5, <4>1
      <4> QED BY <2>3, <3>1, <4>3, <4>4
    <3> QED BY <3>2, <3>3
  <2> QED BY <2>4, <2>5
<1>4. T = Nat
  <2>1. T \subseteq Nat
    OBVIOUS
  <2> HIDE DEF T
  <2> QED BY <1>2, <1>3, <2>1, Counting
<1>5. Has(Len(s)) /\ Latest(Len(s))
  <2>1. Len(s) \in T /\ Len(s) <= Len(s)
    BY <1>4
  <2> QED BY <2>1
<1> QED BY <1>1, <1>5

-----------------------------------------------------------------------------
(* The bytes of packs. *)

\* f[i] are the bytes of the first i of these packs.
Totals(f, packs, n) ==
  /\ f[0] = 0
  /\ \A i \in 1 .. n : f[i] = f[i - 1] + Bytes(packs[i].files)

LEMMA TotalsExist ==
  ASSUME NEW packs, NEW n \in Nat
  PROVE  \E f : Totals(f, packs, n)
<1> DEFINE T == {k \in Nat : \E f : Totals(f, packs, k)}
<1>1. 0 \in T
  <2>1. Totals([i \in 0 .. 0 |-> 0], packs, 0)
    BY DEF Totals
  <2> QED BY <2>1
<1>2. ASSUME NEW k \in T PROVE k + 1 \in T
  <2>1. PICK f : Totals(f, packs, k)
    OBVIOUS
  <2>2. k \in Nat
    OBVIOUS
  <2> DEFINE g == [i \in 0 .. k + 1 |-> IF i = k + 1 THEN f[k] + Bytes(packs[k + 1].files) ELSE f[i]]
  <2>3. g[0] = 0
    BY <2>1, <2>2 DEF Totals
  <2>4. ASSUME NEW i \in 1 .. k + 1 PROVE g[i] = g[i - 1] + Bytes(packs[i].files)
    <3>1. i - 1 \in 0 .. k + 1 /\ i \in 0 .. k + 1 /\ i - 1 # k + 1
      BY <2>2
    <3>2. CASE i = k + 1
      BY <2>2, <3>1, <3>2
    <3>3. CASE i # k + 1
      <4>1. i \in 1 .. k
        BY <2>2, <3>3
      <4> QED BY <2>1, <3>1, <3>3, <4>1 DEF Totals
    <3> QED BY <3>2, <3>3
  <2>5. Totals(g, packs, k + 1)
    <3> HIDE DEF g
    <3> QED BY <2>3, <2>4 DEF Totals
  <2> QED BY <2>2, <2>5
<1>3. T = Nat
  <2>1. T \subseteq Nat
    OBVIOUS
  <2> HIDE DEF T
  <2> QED BY <1>1, <1>2, <2>1, Counting
<1> QED BY <1>3

\* They depend on nothing but the files of the packs.
LEMMA TotalsAgree ==
  ASSUME NEW n \in Nat, NEW f, NEW g, NEW p, NEW q, Totals(f, p, n), Totals(g, q, n),
         \A i \in 1 .. n : p[i].files = q[i].files
  PROVE  f[n] = g[n]
<1> DEFINE T == {k \in Nat : k <= n => f[k] = g[k]}
<1>1. 0 \in T
  BY DEF Totals
<1>2. ASSUME NEW k \in T PROVE k + 1 \in T
  <2> SUFFICES ASSUME k + 1 <= n PROVE f[k + 1] = g[k + 1]
    OBVIOUS
  <2>1. k \in Nat /\ k <= n /\ f[k] = g[k]
    OBVIOUS
  <2>2. k + 1 \in 1 .. n /\ (k + 1) - 1 = k
    BY <2>1
  <2> HIDE DEF T
  <2>3. /\ f[k + 1] = f[(k + 1) - 1] + Bytes(p[k + 1].files)
        /\ g[k + 1] = g[(k + 1) - 1] + Bytes(q[k + 1].files)
    BY <2>2 DEF Totals
  <2> QED BY <2>1, <2>2, <2>3
<1>3. T = Nat
  <2>1. T \subseteq Nat
    OBVIOUS
  <2> HIDE DEF T
  <2> QED BY <1>1, <1>2, <2>1, Counting
<1>4. n \in T
  BY <1>3
<1> QED BY <1>4

LEMMA TotalBytesIs ==
  ASSUME NEW packs, Len(packs) \in Nat
  PROVE  \E f : Totals(f, packs, Len(packs)) /\ TotalBytes(packs) = f[Len(packs)]
<1> DEFINE Step(h) == [i \in 0 .. Len(packs) |-> IF i = 0 THEN 0 ELSE h[i - 1] + Bytes(packs[i].files)]
           total == CHOOSE h : h = Step(h)
<1>1. PICK f : Totals(f, packs, Len(packs))
  BY TotalsExist
<1>2. PICK h : h = [i \in 0 .. Len(packs) |-> f[i]]
  OBVIOUS
<1>3. h = Step(h)
  <2>1. ASSUME NEW i \in 0 .. Len(packs)
        PROVE  f[i] = IF i = 0 THEN 0 ELSE h[i - 1] + Bytes(packs[i].files)
    <3>1. CASE i = 0
      BY <1>1, <3>1 DEF Totals
    <3>2. CASE i # 0
      <4>1. i \in 1 .. Len(packs) /\ i - 1 \in 0 .. Len(packs)
        BY <3>2
      <4> QED BY <1>1, <1>2, <3>2, <4>1 DEF Totals
    <3> QED BY <3>1, <3>2
  <2> QED BY <1>2, <2>1
<1>4. total = Step(total)
  <2> HIDE DEF Step
  <2> QED BY <1>3
<1>5. TotalBytes(packs) = total[Len(packs)]
  BY DEF TotalBytes
<1>6. PICK t : t = total
  OBVIOUS
<1>7. t = Step(t) /\ TotalBytes(packs) = t[Len(packs)]
  <2> HIDE DEF Step
  <2> QED BY <1>4, <1>5, <1>6
<1> HIDE DEF total
<1>8. t[0] = 0
  <2>1. 0 \in 0 .. Len(packs)
    OBVIOUS
  <2> QED BY <1>7, <2>1
<1>9. ASSUME NEW i \in 1 .. Len(packs) PROVE t[i] = t[i - 1] + Bytes(packs[i].files)
  <2>1. i \in 0 .. Len(packs) /\ i # 0
    OBVIOUS
  <2> HIDE DEF Step
  <2>2. t = [j \in 0 .. Len(packs) |-> IF j = 0 THEN 0 ELSE t[j - 1] + Bytes(packs[j].files)]
    BY <1>7 DEF Step
  <2> QED BY <2>1, <2>2
<1> QED BY <1>7, <1>8, <1>9 DEF Totals

\* No pack has no bytes, ...
LEMMA TotalOfNone == TotalBytes(<<>>) = 0
<1>1. Len(<<>>) = 0
  BY EmptyIsList
<1> QED BY <1>1, TotalBytesIs DEF Totals

\* ... a pack more adds its own, ...
LEMMA TotalOfAppend ==
  ASSUME NEW packs, IsList(packs), NEW pack
  PROVE  TotalBytes(Append(packs, pack)) = TotalBytes(packs) + Bytes(pack.files)
<1>1. PICK l, more : l = Len(packs) /\ more = Append(packs, pack)
  OBVIOUS
<1>2. /\ l \in Nat /\ Len(more) = l + 1 /\ more[l + 1] = pack
      /\ \A i \in 1 .. l : more[i] = packs[i]
  BY <1>1, ListProperties, AppendIsList
<1>3. PICK f : Totals(f, packs, l) /\ TotalBytes(packs) = f[l]
  BY <1>1, <1>2, TotalBytesIs
<1>4. PICK g : Totals(g, more, l + 1) /\ TotalBytes(more) = g[l + 1]
  <2>1. Len(more) \in Nat
    BY <1>2
  <2> QED BY <1>2, <2>1, TotalBytesIs
<1>5. Totals(g, more, l)
  BY <1>2, <1>4 DEF Totals
<1>6. f[l] = g[l]
  BY <1>2, <1>3, <1>5, TotalsAgree
<1>7. g[l + 1] = g[(l + 1) - 1] + Bytes(more[l + 1].files) /\ (l + 1) - 1 = l
  BY <1>2, <1>4 DEF Totals
<1> QED BY <1>1, <1>2, <1>3, <1>4, <1>6, <1>7

\* ... and packs of the same files have the same bytes.
LEMMA TotalOfSame ==
  ASSUME NEW p, NEW q, Len(p) \in Nat, Len(q) = Len(p), \A i \in 1 .. Len(p) : p[i].files = q[i].files
  PROVE  TotalBytes(p) = TotalBytes(q)
BY TotalBytesIs, TotalsAgree

-----------------------------------------------------------------------------
(* Catalogues whose packs are as a manifest was written for them. *)

\* A manifest that passes _verify_manifest was written for a tree of this pack.
Vouched(pack, manifest) ==
  manifest # Gone /\ manifest.sealed => manifest.digests \in published[pack]

Genuine(packs) ==
  \A i \in DOMAIN packs :
    /\ packs[i].origin \in Packs => packs[i].files \in published[packs[i].origin]
    /\ Bytes(packs[i].files) <= MaxPackBytes

Whole(packs) == IsList(packs) /\ Genuine(packs) /\ TotalBytes(packs) <= MaxCatalogBytes

TreesSound ==
  /\ trees = [p \in Packs |-> trees[p]]
  /\ \A p \in Packs : IsFunction(trees[p])

ManifestsSound ==
  /\ manifests = [p \in Packs |-> manifests[p]] /\ published = [p \in Packs |-> published[p]]
  /\ \A p \in Packs : Vouched(p, manifests[p]) /\ \A files \in published[p] : IsFunction(files)

WriterSound ==
  writer # Gone =>
    /\ writer = [pack |-> writer.pack, todo |-> writer.todo, files |-> writer.files]
    /\ writer.pack \in Packs /\ IsFunction(writer.files)

LoaderSound ==
  /\ loader = [pc |-> loader.pc, packs |-> loader.packs, names |-> loader.names,
               metadata |-> loader.metadata, todo |-> loader.todo, files |-> loader.files,
               manifest |-> loader.manifest]
  /\ Whole(loader.packs) /\ IsFunction(loader.files)
  /\ loader.pc # "walk" => loader.manifest = Gone
  /\ loader.pc = "walk" => Head(loader.names) \in Packs /\ Vouched(Head(loader.names), loader.manifest)

CatalogSound == catalog # Gone => Whole(catalog) /\ DistinctIds(catalog)

PackInv == TreesSound /\ ManifestsSound /\ WriterSound /\ LoaderSound /\ CatalogSound

LEMMA WithIsFunction ==
  ASSUME NEW files, NEW path, NEW content
  PROVE  IsFunction(With(files, path, content))
BY DEF With, Update, IsFunction

LEMMA WholeOfNone == Whole(<<>>)
BY EmptyIsList, TotalOfNone, PackAssumption DEF Whole, Genuine

\* What is loaded of the packs that come with the program.
LEMMA ShippedIsWhole ==
  ASSUME \A i \in DOMAIN Shipped :
           Sound(Shipped[i]) /\ Fits(SubSeq(Shipped, 1, i - 1), Shipped[i].files)
  PROVE  Whole(ShippedPacks)
<1>1. PICK n : n = Len(Shipped)
  OBVIOUS
<1>2. n \in Nat /\ DOMAIN Shipped = 1 .. n
  BY <1>1, ListProperties, PackAssumption DEF IsList
<1>3. /\ ShippedPacks = [i \in 1 .. n |-> ShippedPacks[i]]
      /\ \A i \in 1 .. n : ShippedPacks[i].origin = Shipped[i].origin /\ ShippedPacks[i].files = Shipped[i].files
  BY <1>2 DEF ShippedPacks, Pack
<1>4. IsList(ShippedPacks) /\ Len(ShippedPacks) = n /\ DOMAIN ShippedPacks = 1 .. n
  BY <1>2, <1>3, FunctionIsList
<1>5. Genuine(ShippedPacks)
  BY <1>2, <1>3, <1>4, PackAssumption DEF Genuine, Sound, Acceptable, WithinBudget
<1>6. TotalBytes(ShippedPacks) <= MaxCatalogBytes
  <2>1. CASE n = 0
    <3>1. TotalBytes(ShippedPacks) = TotalBytes(<<>>)
      BY <1>4, <2>1, EmptyIsList, TotalOfSame
    <3> QED BY <3>1, TotalOfNone, PackAssumption
  <2>2. CASE n # 0
    <3>1. PICK first : first = SubSeq(Shipped, 1, n - 1)
      OBVIOUS
    <3>2. /\ IsList(first) /\ Len(first) = n - 1
          /\ \A i \in 1 .. n - 1 : first[i] = Shipped[i]
      <4>1. /\ Len(first) = n - 1 /\ first \in Seq(ToSet(Shipped))
            /\ first = [i \in 1 .. n - 1 |-> Shipped[i]]
        BY <1>1, <1>2, <2>2, <3>1, PackAssumption
      <4> QED BY <1>2, <2>2, <4>1, FunctionIsList
    <3>3. PICK all : all = Append(first, Shipped[n])
      OBVIOUS
    <3>4. /\ IsList(all) /\ Len(all) = n
          /\ \A i \in 1 .. n : all[i] = Shipped[i]
      BY <1>2, <2>2, <3>2, <3>3, AppendIsList
    <3>5. TotalBytes(all) = TotalBytes(first) + Bytes(Shipped[n].files)
      BY <3>2, <3>3, TotalOfAppend
    <3>6. TotalBytes(all) = TotalBytes(ShippedPacks)
      BY <1>2, <1>3, <1>4, <3>4, TotalOfSame
    <3>7. n \in DOMAIN Shipped /\ Fits(first, Shipped[n].files)
      BY <1>2, <2>2, <3>1
    <3> QED BY <3>5, <3>6, <3>7 DEF Fits
  <2> QED BY <2>1, <2>2
<1> QED BY <1>4, <1>5, <1>6 DEF Whole

\* A pack that was read joins the others only if a manifest was written for what was read.
LEMMA PackReadKeeps ==
  ASSUME PackInv, NEW name \in Packs, NEW metadata, NEW files, NEW manifest,
         IsFunction(files), Vouched(name, manifest), PackRead(name, metadata, files, manifest),
         UNCHANGED <<trees, manifests, writer, published>>
  PROVE  PackInv'
<1>1. CASE Acceptable(metadata, files, manifest) /\ Fits(loader.packs, files)
  <2>1. files = manifest.digests /\ files \in published[name]
    <3>1. /\ manifest.digests \in published[name] /\ DOMAIN manifest.digests = DOMAIN files
          /\ \A p \in DOMAIN files : files[p] = manifest.digests[p]
      BY <1>1 DEF Acceptable, VerifyManifest, Vouched
    <3>2. IsFunction(manifest.digests)
      BY <3>1 DEF PackInv, ManifestsSound
    <3> QED BY <3>1, <3>2 DEF IsFunction
  <2>2. PICK pack : pack = Pack(name, metadata, files)
    OBVIOUS
  <2>3. pack.origin = name /\ pack.files = files
    BY <2>2 DEF Pack
  <2>4. PICK more : more = Append(loader.packs, pack)
    OBVIOUS
  <2>5. Whole(loader.packs)
    BY DEF PackInv, LoaderSound
  <2>6. /\ IsList(more) /\ DOMAIN more = 1 .. Len(loader.packs) + 1 /\ Len(loader.packs) \in Nat
        /\ \A i \in 1 .. Len(loader.packs) : more[i] = loader.packs[i]
        /\ more[Len(loader.packs) + 1] = pack
        /\ DOMAIN loader.packs = 1 .. Len(loader.packs)
    BY <2>4, <2>5, AppendIsList, ListProperties DEF Whole
  <2>7. Genuine(more)
    <3>1. Bytes(files) <= MaxPackBytes
      BY <1>1 DEF Acceptable, WithinBudget
    <3> QED BY <2>1, <2>3, <2>5, <2>6, <3>1 DEF Whole, Genuine
  <2>8. TotalBytes(more) <= MaxCatalogBytes
    BY <1>1, <2>3, <2>4, <2>5, TotalOfAppend DEF Fits, Whole
  <2>9. Whole(more)
    BY <2>6, <2>7, <2>8 DEF Whole
  <2>10. /\ loader' = [loader EXCEPT !.pc = "open", !.names = Tail(@), !.metadata = Gone,
                                     !.todo = {}, !.files = <<>>, !.manifest = Gone, !.packs = more]
         /\ catalog' = catalog
    BY <1>1, <2>2, <2>4 DEF PackRead
  <2>11. LoaderSound'
    <3>1. /\ loader' = [pc |-> "open", packs |-> more, names |-> Tail(loader.names),
                        metadata |-> Gone, todo |-> {}, files |-> <<>>, manifest |-> Gone]
      BY <2>10 DEF PackInv, LoaderSound
    <3>2. IsFunction(<<>>)
      BY DEF IsFunction
    <3> QED BY <2>9, <3>1, <3>2 DEF LoaderSound, Whole, Genuine
  <2> QED BY <2>10, <2>11 DEF PackInv, TreesSound, ManifestsSound, WriterSound, CatalogSound,
                              Vouched, Whole, Genuine
<1>2. CASE ~(Acceptable(metadata, files, manifest) /\ Fits(loader.packs, files))
  <2>1. loader' = Idle /\ catalog' = catalog
    BY <1>2 DEF PackRead, LoadFailed
  <2>2. LoaderSound'
    <3>1. Whole(<<>>)' /\ IsFunction(<<>>)
      BY WholeOfNone DEF Whole, Genuine, IsFunction
    <3> QED BY <2>1, <3>1 DEF LoaderSound, Idle
  <2> QED BY <2>1, <2>2 DEF PackInv, TreesSound, ManifestsSound, WriterSound, CatalogSound,
                            Vouched, Whole, Genuine
<1> QED BY <1>1, <1>2

\* A load that fails leaves the catalogue in use.
LEMMA LoadFailedKeeps ==
  ASSUME PackInv, LoadFailed, UNCHANGED <<trees, manifests, writer, published>>
  PROVE  PackInv'
<1>1. loader' = Idle /\ catalog' = catalog
  BY DEF LoadFailed
<1>2. LoaderSound'
  <2>1. Whole(<<>>)' /\ IsFunction(<<>>)
    BY WholeOfNone DEF Whole, Genuine, IsFunction
  <2> QED BY <1>1, <2>1 DEF LoaderSound, Idle
<1> QED BY <1>1, <1>2 DEF PackInv, TreesSound, ManifestsSound, WriterSound, CatalogSound,
                          Vouched, Whole, Genuine

\* Steps of the load that read no pack to its end.
LEMMA LoaderMoves ==
  ASSUME PackInv, LoaderSound', UNCHANGED <<trees, manifests, writer, published, catalog>>
  PROVE  PackInv'
BY DEF PackInv, TreesSound, ManifestsSound, WriterSound, CatalogSound, Vouched, Whole, Genuine

LEMMA WholeStays ==
  ASSUME NEW packs, Whole(packs), published' = published
  PROVE  Whole(packs)'
BY DEF Whole, Genuine

LEMMA StartLoadKeeps ==
  ASSUME PackInv, StartLoad
  PROVE  PackInv'
<1>1. CASE \A i \in DOMAIN Shipped :
             Sound(Shipped[i]) /\ Fits(SubSeq(Shipped, 1, i - 1), Shipped[i].files)
  <2>1. loader' = [Idle EXCEPT !.pc = "index", !.packs = ShippedPacks] /\ catalog' = catalog
    BY <1>1 DEF StartLoad
  <2>2. PICK packs : packs = ShippedPacks
    OBVIOUS
  <2>3. Whole(packs)'
    BY <1>1, <2>2, ShippedIsWhole, WholeStays DEF StartLoad
  <2>4. loader' = [pc |-> "index", packs |-> packs, names |-> <<>>, metadata |-> Gone,
                   todo |-> {}, files |-> <<>>, manifest |-> Gone]
    BY <2>1, <2>2 DEF Idle
  <2>5. IsFunction(<<>>)
    BY DEF IsFunction
  <2>6. LoaderSound'
    BY <2>3, <2>4, <2>5 DEF LoaderSound
  <2> QED BY <2>1, <2>6, LoaderMoves DEF StartLoad
<1>2. CASE ~\A i \in DOMAIN Shipped :
             Sound(Shipped[i]) /\ Fits(SubSeq(Shipped, 1, i - 1), Shipped[i].files)
  BY <1>2, LoadFailedKeeps DEF StartLoad
<1> QED BY <1>1, <1>2

LEMMA ReadIndexKeeps ==
  ASSUME PackInv, ReadIndex
  PROVE  PackInv'
<1>1. CASE LoadFailed
  BY <1>1, LoadFailedKeeps DEF ReadIndex
<1>2. CASE ~LoadFailed
  <2>1. loader' = [loader EXCEPT !.pc = "open", !.names = index.names] /\ catalog' = catalog
    BY <1>2 DEF ReadIndex
  <2>2. PICK packs : packs = loader.packs /\ Whole(packs)'
    BY WholeStays DEF PackInv, LoaderSound, ReadIndex
  <2>3. loader' = [pc |-> "open", packs |-> packs, names |-> index.names,
                   metadata |-> loader.metadata, todo |-> loader.todo, files |-> loader.files,
                   manifest |-> loader.manifest]
    BY <2>1, <2>2 DEF PackInv, LoaderSound
  <2>4. IsFunction(loader.files) /\ loader.manifest = Gone
    BY DEF PackInv, LoaderSound, ReadIndex
  <2>5. LoaderSound'
    BY <2>2, <2>3, <2>4 DEF LoaderSound
  <2> QED BY <2>1, <2>5, LoaderMoves DEF ReadIndex
<1> QED BY <1>1, <1>2

LEMMA OpenDirectoryKeeps ==
  ASSUME PackInv, OpenDirectory
  PROVE  PackInv'
<1>1. CASE LoadFailed
  BY <1>1, LoadFailedKeeps DEF OpenDirectory
<1>2. CASE ~LoadFailed
  <2>1. PICK m, t : loader' = [loader EXCEPT !.pc = "walk", !.metadata = m, !.todo = t]
    BY <1>2 DEF OpenDirectory
  <2>2. PICK packs : packs = loader.packs /\ Whole(packs)'
    BY WholeStays DEF PackInv, LoaderSound, OpenDirectory
  <2>3. loader' = [pc |-> "walk", packs |-> packs, names |-> loader.names, metadata |-> m,
                   todo |-> t, files |-> loader.files, manifest |-> loader.manifest]
    BY <2>1, <2>2 DEF PackInv, LoaderSound
  <2>4. IsFunction(loader.files) /\ loader.manifest = Gone /\ Head(loader.names) \in Packs
    BY DEF PackInv, LoaderSound, OpenDirectory
  <2>5. LoaderSound'
    BY <2>2, <2>3, <2>4 DEF LoaderSound, Vouched
  <2>6. catalog' = catalog
    BY <1>2 DEF OpenDirectory
  <2> QED BY <2>5, <2>6, LoaderMoves DEF OpenDirectory
<1> QED BY <1>1, <1>2

LEMMA ReadFileKeeps ==
  ASSUME PackInv, NEW path, ReadFile(path)
  PROVE  PackInv'
<1>1. CASE LoadFailed
  BY <1>1, LoadFailedKeeps DEF ReadFile
<1>2. CASE ~LoadFailed
  <2>1. PICK packs : packs = loader.packs /\ Whole(packs)'
    BY WholeStays DEF PackInv, LoaderSound, ReadFile
  <2>2. PICK name : name = Head(loader.names)
    OBVIOUS
  <2>3. /\ name \in Packs /\ loader.pc = "walk" /\ published' = published
        /\ IsFunction(loader.files) /\ Vouched(name, loader.manifest) /\ Vouched(name, manifests[name])
    BY <2>2 DEF PackInv, LoaderSound, ManifestsSound, ReadFile
  <2>4. PICK files, manifest :
          /\ loader' = [pc |-> "walk", packs |-> packs, names |-> loader.names,
                        metadata |-> loader.metadata, todo |-> loader.todo \ {path},
                        files |-> files, manifest |-> manifest]
          /\ IsFunction(files) /\ Vouched(name, manifest)
    <3>1. PICK names, metadata, todo, files, manifest :
            /\ names = loader.names /\ metadata = loader.metadata /\ todo = loader.todo
            /\ files = loader.files /\ manifest = loader.manifest
      OBVIOUS
    <3>2. loader = [pc |-> "walk", packs |-> packs, names |-> names, metadata |-> metadata,
                    todo |-> todo, files |-> files, manifest |-> manifest]
      BY <2>1, <2>3, <3>1 DEF PackInv, LoaderSound
    <3>3. CASE path = "manifest"
      <4>1. loader' = [loader EXCEPT !.todo = @ \ {path}, !.manifest = manifests[name]]
        BY <2>2, <3>3 DEF ReadFile
      <4>2. loader' = [pc |-> "walk", packs |-> packs, names |-> names, metadata |-> metadata,
                       todo |-> todo \ {path}, files |-> files, manifest |-> manifests[name]]
        BY <3>2, <4>1
      <4> QED BY <2>3, <3>1, <4>2
    <3>4. CASE path # "manifest"
      <4>1. PICK more : /\ loader' = [loader EXCEPT !.todo = @ \ {path}, !.files = more]
                        /\ IsFunction(more)
        BY <1>2, <3>4, WithIsFunction DEF ReadFile
      <4>2. loader' = [pc |-> "walk", packs |-> packs, names |-> names, metadata |-> metadata,
                       todo |-> todo \ {path}, files |-> more, manifest |-> manifest]
        BY <3>2, <4>1
      <4> QED BY <2>3, <3>1, <4>1, <4>2
    <3> QED BY <3>3, <3>4
  <2>5. LoaderSound'
    BY <2>1, <2>2, <2>3, <2>4 DEF LoaderSound, Vouched
  <2>6. catalog' = catalog
    BY <1>2 DEF ReadFile
  <2> QED BY <2>5, <2>6, LoaderMoves DEF ReadFile
<1> QED BY <1>1, <1>2

LEMMA CloseDirectoryKeeps ==
  ASSUME PackInv, CloseDirectory
  PROVE  PackInv'
<1>1. /\ Head(loader.names) \in Packs /\ IsFunction(loader.files)
      /\ Vouched(Head(loader.names), loader.manifest)
  BY DEF CloseDirectory, PackInv, LoaderSound
<1> QED BY <1>1, PackReadKeeps DEF CloseDirectory

LEMMA ReadZipKeeps ==
  ASSUME PackInv, ReadZip
  PROVE  PackInv'
<1>1. CASE LoadFailed
  BY <1>1, LoadFailedKeeps DEF ReadZip
<1>2. CASE ~LoadFailed
  <2>1. PICK name : name = Head(loader.names)
    OBVIOUS
  <2>2. name \in Packs
    BY <2>1, PackAssumption DEF ReadZip
  <2>3. IsFunction(trees[name]) /\ Vouched(name, manifests[name])
    BY <2>2 DEF PackInv, TreesSound, ManifestsSound
  <2>4. PackRead(name, trees[name][Metadata], trees[name], manifests[name])
    BY <1>2, <2>1 DEF ReadZip
  <2> QED BY <2>2, <2>3, <2>4, PackReadKeeps DEF ReadZip
<1> QED BY <1>1, <1>2

LEMMA FinishLoadKeeps ==
  ASSUME PackInv, FinishLoad
  PROVE  PackInv'
<1>1. LoaderSound'
  <2>1. Whole(<<>>)' /\ IsFunction(<<>>)
    BY WholeOfNone DEF Whole, Genuine, IsFunction
  <2> QED BY <2>1 DEF FinishLoad, LoaderSound, Idle
<1>2. CatalogSound'
  <2>1. Whole(loader.packs)
    BY DEF PackInv, LoaderSound
  <2> QED BY <2>1 DEF FinishLoad, PackInv, CatalogSound, Whole, Genuine
<1> QED BY <1>1, <1>2 DEF FinishLoad, PackInv, TreesSound, ManifestsSound, WriterSound, Vouched

\* What an editor does to a pack does nothing to what was written for it.
LEMMA EditKeeps ==
  ASSUME PackInv, NEW pack \in Packs, NEW path, NEW content, Edit(pack, path, content)
  PROVE  PackInv'
<1>1. TreesSound'
  <2>1. PICK tree : trees' = [trees EXCEPT ![pack] = tree] /\ IsFunction(tree)
    <3>1. CASE content = Gone
      <4>1. IsFunction([p \in DOMAIN trees[pack] \ {path} |-> trees[pack][p]])
        BY DEF IsFunction
      <4> QED BY <3>1, <4>1 DEF Edit
    <3>2. CASE content # Gone
      BY <3>2, WithIsFunction DEF Edit
    <3> QED BY <3>1, <3>2
  <2> QED BY <2>1 DEF PackInv, TreesSound
<1> QED BY <1>1 DEF Edit, PackInv, ManifestsSound, WriterSound, LoaderSound, CatalogSound,
                    Vouched, Whole, Genuine

LEMMA TamperKeeps ==
  ASSUME PackInv, NEW pack \in Packs, NEW path, NEW content, Tamper(pack, path, content)
  PROVE  PackInv'
<1>1. ManifestsSound'
  <2>1. PICK m : manifests' = [manifests EXCEPT ![pack] = m] /\ ~m.sealed
    <3>1. PICK m : m = [digests |-> With(manifests[pack].digests, path, content), sealed |-> FALSE]
      OBVIOUS
    <3>2. ~m.sealed
      BY <3>1
    <3> QED BY <3>1, <3>2 DEF Tamper
  <2> QED BY <2>1 DEF PackInv, ManifestsSound, Tamper, Vouched
<1> QED BY <1>1 DEF Tamper, PackInv, TreesSound, WriterSound, LoaderSound, CatalogSound,
                    Vouched, Whole, Genuine

LEMMA BeginManifestKeeps ==
  ASSUME PackInv, NEW pack \in Packs, BeginManifest(pack)
  PROVE  PackInv'
<1>1. WriterSound'
  BY DEF BeginManifest, WriterSound, IsFunction
<1> QED BY <1>1 DEF BeginManifest, PackInv, TreesSound, ManifestsSound, LoaderSound, CatalogSound,
                    Vouched, Whole, Genuine

LEMMA ListFileKeeps ==
  ASSUME PackInv, NEW path, ListFile(path)
  PROVE  PackInv'
<1>1. WriterSound'
  <2>1. \/ writer' = Gone
        \/ \E c : writer' = [writer EXCEPT !.todo = @ \ {path}, !.files = With(writer.files, path, c)]
    BY DEF ListFile
  <2> QED BY <2>1, WithIsFunction DEF ListFile, PackInv, WriterSound
<1> QED BY <1>1 DEF ListFile, PackInv, TreesSound, ManifestsSound, LoaderSound, CatalogSound,
                    Vouched, Whole, Genuine

\* A manifest vouches for the tree it was written for, and older ones are not forgotten.
LEMMA WriteManifestKeeps ==
  ASSUME PackInv, WriteManifest
  PROVE  PackInv'
<1>1. PICK pack, files : /\ pack = writer.pack /\ files = writer.files
                         /\ pack \in Packs /\ IsFunction(files)
  BY DEF WriteManifest, PackInv, WriterSound
<1>2. /\ manifests' = [manifests EXCEPT ![pack] = Sealed(files)]
      /\ published' = [published EXCEPT ![pack] = @ \cup {files}]
      /\ writer' = Gone /\ UNCHANGED <<trees, loader, catalog>>
  BY <1>1 DEF WriteManifest
<1>3. /\ published' = [p \in Packs |-> published'[p]] /\ manifests' = [p \in Packs |-> manifests'[p]]
      /\ published'[pack] = published[pack] \cup {files} /\ manifests'[pack] = Sealed(files)
      /\ \A p \in Packs \ {pack} : published'[p] = published[p] /\ manifests'[p] = manifests[p]
  BY <1>1, <1>2 DEF PackInv, ManifestsSound
<1>4. \A p \in Packs : published[p] \subseteq published'[p]
  BY <1>3
<1>5. ManifestsSound'
  BY <1>1, <1>3 DEF PackInv, ManifestsSound, Vouched, Sealed
<1>6. ASSUME NEW packs, Genuine(packs) PROVE Genuine(packs)'
  BY <1>4, <1>6 DEF Genuine
<1>7. LoaderSound'
  BY <1>2, <1>4, <1>6 DEF PackInv, LoaderSound, Vouched, Whole
<1>8. CatalogSound'
  BY <1>2, <1>6 DEF PackInv, CatalogSound, Whole
<1> QED BY <1>2, <1>5, <1>7, <1>8 DEF PackInv, TreesSound, WriterSound

-----------------------------------------------------------------------------
(* What a translator says. *)

LEMMA LocalesAreSelected == Selected \subseteq SupportedLocales
BY DEF Selected, SelectLocale, SystemLocale, NormalizeLocale, SupportedLocales, DefaultLocale

\* A pack has a key if one of its language files has it, and the last of these decides.
LEMMA EntriesOfPackAre ==
  ASSUME NEW files, NEW l, NEW key, NEW n, n = Len(LanguageFiles)
  PROVE  /\ n \in Nat /\ DOMAIN LanguageFiles = 1 .. n
         /\ key \in DOMAIN EntriesOfPack(files, l)
              <=> \E k \in 1 .. n : key \in DOMAIN EntriesOf(files, l, k)
         /\ \A k \in 1 .. n :
              key \in DOMAIN EntriesOf(files, l, k)
                /\ (\A j \in k + 1 .. n : key \notin DOMAIN EntriesOf(files, l, j))
              => EntriesOfPack(files, l)[key] = EntriesOf(files, l, k)[key]
<1>1. n \in Nat /\ DOMAIN LanguageFiles = 1 .. n
  BY ListProperties, PackAssumption DEF IsList
<1>2. PICK s : s = [k \in 1 .. n |-> EntriesOf(files, l, k)]
  OBVIOUS
<1>3. Len(s) = n /\ \A k \in 1 .. n : s[k] = EntriesOf(files, l, k)
  <2>1. s = [k \in 1 .. n |-> s[k]]
    BY <1>2
  <2> QED BY <1>1, <1>2, <2>1, FunctionIsList
<1>4. EntriesOfPack(files, l) = Updated(s)
  BY <1>1, <1>2 DEF EntriesOfPack
<1>5. /\ key \in DOMAIN Updated(s) <=> \E k \in 1 .. n : key \in DOMAIN s[k]
      /\ \A k \in 1 .. n : key \in DOMAIN s[k] /\ (\A j \in k + 1 .. n : key \notin DOMAIN s[j])
           => Updated(s)[key] = s[k][key]
  BY <1>1, <1>3, UpdatedProperties
<1>6. \A k \in 1 .. n : \A j \in k + 1 .. n : j \in 1 .. n
  BY <1>1
<1> QED BY <1>1, <1>3, <1>4, <1>5, <1>6

\* A language has a key if a file of it has, and says what the last of these does.
LEMMA CatalogsSpeak ==
  ASSUME NEW packs, IsList(packs), NEW l \in SupportedLocales, NEW key
  PROVE  /\ key \in DOMAIN Catalogs(packs)[l] <=> Speaking(packs, l, key) # {}
         /\ Speaking(packs, l, key) # {} => Catalogs(packs)[l][key] = Spoken(packs, l, key)
<1>1. PICK n, m : n = Len(packs) /\ m = Len(LanguageFiles)
  OBVIOUS
<1>2. n \in Nat /\ DOMAIN packs = 1 .. n
  BY <1>1, ListProperties
<1>3. m \in Nat /\ DOMAIN LanguageFiles = 1 .. m
  BY <1>1, EntriesOfPackAre
<1> DEFINE E(i) == EntriesOfPack(packs[i].files, l)
           F(i, k) == EntriesOf(packs[i].files, l, k)
           all == Speaking(packs, l, key)
<1>4. \A i \in 1 .. n, k \in 1 .. m : <<i, k>> \in all <=> key \in DOMAIN F(i, k)
  BY <1>2, <1>3 DEF Speaking, EntriesOf
<1>5. all \subseteq (1 .. n) \X (1 .. m)
  BY <1>2, <1>3 DEF Speaking
<1>6. \A i \in 1 .. n : key \in DOMAIN E(i) <=> \E k \in 1 .. m : key \in DOMAIN F(i, k)
  BY <1>1, EntriesOfPackAre
<1>7. PICK s : s = [i \in 1 .. n |-> E(i)]
  OBVIOUS
<1>8. Len(s) = n /\ \A i \in 1 .. n : s[i] = E(i)
  <2>1. s = [i \in 1 .. n |-> s[i]]
    BY <1>7
  <2> QED BY <1>2, <1>7, <2>1, FunctionIsList
<1>9. PICK c : c = Catalogs(packs)[l] /\ c = Updated(s)
  BY <1>2, <1>7 DEF Catalogs
<1>10. /\ key \in DOMAIN c <=> \E i \in 1 .. n : key \in DOMAIN E(i)
       /\ \A i \in 1 .. n : key \in DOMAIN E(i) /\ (\A j \in i + 1 .. n : key \notin DOMAIN E(j))
            => c[key] = E(i)[key]
  <2>1. /\ key \in DOMAIN c <=> \E i \in 1 .. n : key \in DOMAIN s[i]
        /\ \A i \in 1 .. n : key \in DOMAIN s[i] /\ (\A j \in i + 1 .. n : key \notin DOMAIN s[j])
             => c[key] = s[i][key]
    BY <1>2, <1>8, <1>9, UpdatedProperties
  <2>2. \A i \in 1 .. n : \A j \in i + 1 .. n : j \in 1 .. n
    BY <1>2
  <2> HIDE DEF E
  <2> QED BY <1>8, <2>1, <2>2
<1> HIDE DEF E, F, all
<1>11. key \in DOMAIN c <=> all # {}
  <2>1. ASSUME all # {} PROVE key \in DOMAIN c
    <3>1. PICK i \in 1 .. n, k \in 1 .. m : <<i, k>> \in all
      BY <1>5, <2>1
    <3> QED BY <1>4, <1>6, <1>10, <3>1
  <2>2. ASSUME key \in DOMAIN c PROVE all # {}
    BY <1>4, <1>6, <1>10, <2>2
  <2> QED BY <2>1, <2>2
<1>12. ASSUME all # {} PROVE c[key] = Spoken(packs, l, key)
  <2>1. PICK i \in 1 .. n : key \in DOMAIN E(i) /\ \A j \in 1 .. n : key \in DOMAIN E(j) => j <= i
    <3> DEFINE I == {j \in 1 .. n : key \in DOMAIN E(j)}
    <3>1. I \subseteq 1 .. n /\ I # {}
      BY <1>10, <1>11, <1>12
    <3>2. PICK i \in I : \A j \in I : j <= i
      <4> HIDE DEF I
      <4> QED BY <1>2, <3>1, Greatest
    <3> QED BY <3>2
  <2>2. PICK k \in 1 .. m : key \in DOMAIN F(i, k) /\ \A j \in 1 .. m : key \in DOMAIN F(i, j) => j <= k
    <3> DEFINE K == {j \in 1 .. m : key \in DOMAIN F(i, j)}
    <3>1. K \subseteq 1 .. m /\ K # {}
      BY <1>6, <2>1
    <3>2. PICK k \in K : \A j \in K : j <= k
      <4> HIDE DEF K
      <4> QED BY <1>3, <3>1, Greatest
    <3> QED BY <3>2
  <2>3. c[key] = E(i)[key]
    <3>1. \A j \in i + 1 .. n : j \in 1 .. n /\ ~(j <= i)
      BY <1>2
    <3> QED BY <1>10, <2>1, <3>1
  <2>4. E(i)[key] = F(i, k)[key]
    <3>1. \A j \in k + 1 .. m : j \in 1 .. m /\ ~(j <= k)
      BY <1>3
    <3>2. \A j \in k + 1 .. m : key \notin DOMAIN F(i, j)
      BY <2>2, <3>1
    <3>3. PICK files : files = packs[i].files
      OBVIOUS
    <3>4. /\ key \in DOMAIN EntriesOf(files, l, k)
          /\ \A j \in k + 1 .. m : key \notin DOMAIN EntriesOf(files, l, j)
      BY <2>2, <3>2, <3>3 DEF F
    <3>5. EntriesOfPack(files, l)[key] = EntriesOf(files, l, k)[key]
      BY <1>1, <3>4, EntriesOfPackAre
    <3> QED BY <3>3, <3>5 DEF E, F
  <2>5. F(i, k)[key] = Entries[packs[i].files[LanguageFiles[k].path]][key]
    <3>1. F(i, k) = Entries[packs[i].files[LanguageFiles[k].path]] \/ F(i, k) = <<>>
      BY DEF F, EntriesOf
    <3>2. F(i, k) # <<>>
      BY <2>2
    <3> QED BY <3>1, <3>2
  <2>6. <<i, k>> \in all
    BY <1>4, <2>2
  <2>7. ASSUME NEW y \in all
        PROVE  y[1] \in 1 .. n /\ y[2] \in 1 .. m /\ y = <<y[1], y[2]>>
               /\ (i > y[1] \/ (i = y[1] /\ k >= y[2]))
    <3>1. PICK a \in 1 .. n, b \in 1 .. m : y = <<a, b>>
      BY <1>5
    <3>2. key \in DOMAIN F(a, b) /\ key \in DOMAIN E(a)
      BY <1>4, <1>6, <3>1
    <3>3. a <= i
      BY <2>1, <3>2
    <3>4. CASE a = i
      <4>1. b <= k
        BY <2>2, <3>2, <3>4
      <4> QED BY <1>3, <3>1, <3>4, <4>1
    <3>5. CASE a # i
      <4>1. i > a
        BY <1>2, <3>3, <3>5
      <4> QED BY <3>1, <4>1
    <3> QED BY <3>4, <3>5
  <2> DEFINE Top(x) == \A y \in all : x[1] > y[1] \/ (x[1] = y[1] /\ x[2] >= y[2])
  <2>8. Top(<<i, k>>)
    BY <2>7
  <2>9. ASSUME NEW x \in all, Top(x) PROVE x = <<i, k>>
    <3>1. PICK a \in 1 .. n, b \in 1 .. m : x = <<a, b>>
      BY <1>5
    <3>2. a > i \/ (a = i /\ b >= k)
      BY <2>6, <2>9, <3>1
    <3>3. i > a \/ (i = a /\ k >= b)
      BY <2>7, <2>9, <3>1
    <3>4. a = i /\ b = k
      BY <1>2, <1>3, <3>2, <3>3
    <3> QED BY <3>1, <3>4
  <2>10. (CHOOSE x \in all : Top(x)) = <<i, k>>
    <3> HIDE DEF Top
    <3> QED BY <2>6, <2>8, <2>9
  <2>11. Spoken(packs, l, key) = Entries[packs[i].files[LanguageFiles[k].path]][key]
    <3>1. PICK x : x = CHOOSE y \in all : Top(y)
      OBVIOUS
    <3>2. Spoken(packs, l, key) = Entries[packs[x[1]].files[LanguageFiles[x[2]].path]][key]
      BY <3>1 DEF Spoken, all
    <3>3. x = <<i, k>>
      <4> HIDE DEF Top
      <4> QED BY <2>10, <3>1
    <3> QED BY <3>2, <3>3
  <2> QED BY <2>3, <2>4, <2>5, <2>11
<1> QED BY <1>9, <1>11, <1>12 DEF all

TranslatorSound ==
  translator \notin {Gone, Malformed} =>
    \E packs, l : /\ translator = [locale |-> l, catalogs |-> Catalogs(packs), packs |-> packs]
                  /\ IsList(packs) /\ l \in SupportedLocales

LEMMA TranslatorSpeaks ==
  ASSUME TranslatorSound, translator \notin {Gone, Malformed}, NEW key, NEW locale
  PROVE  TextFor(translator, locale, key)
           = SpeaksFor(translator.packs, translator.locale, locale, key)
<1>1. PICK packs, own : /\ translator = [locale |-> own, catalogs |-> Catalogs(packs), packs |-> packs]
                        /\ IsList(packs) /\ own \in SupportedLocales
  BY DEF TranslatorSound
<1>2. translator.locale = own /\ translator.catalogs = Catalogs(packs) /\ translator.packs = packs
  BY <1>1
<1>3. PICK l : l = IF NormalizeLocale(locale) \in SupportedLocales THEN NormalizeLocale(locale) ELSE own
  OBVIOUS
<1>4. l \in SupportedLocales /\ DefaultLocale \in SupportedLocales
  BY <1>1, <1>3 DEF SupportedLocales, DefaultLocale
<1>5. \A m \in SupportedLocales :
        /\ key \in DOMAIN Catalogs(packs)[m] <=> Speaking(packs, m, key) # {}
        /\ Speaking(packs, m, key) # {} => Catalogs(packs)[m][key] = Spoken(packs, m, key)
  BY <1>1, CatalogsSpeak
<1> QED BY <1>2, <1>3, <1>4, <1>5 DEF TextFor, SpeaksFor

\* The file of a path is that of the last pack that has one.
LEMMA FileAtIs ==
  ASSUME NEW packs, IsList(packs), NEW i \in DOMAIN packs, NEW path \in DOMAIN packs[i].files,
         \A j \in i + 1 .. Len(packs) : path \notin DOMAIN packs[j].files
  PROVE  FileAt(packs, path) = packs[i].files[path]
<1>1. PICK n : n = Len(packs)
  OBVIOUS
<1>2. n \in Nat /\ DOMAIN packs = 1 .. n
  BY <1>1, ListProperties
<1>3. PICK s : s = [j \in 1 .. n |-> packs[j].files]
  OBVIOUS
<1>4. Len(s) = n /\ \A j \in 1 .. n : s[j] = packs[j].files
  <2>1. s = [j \in 1 .. n |-> s[j]]
    BY <1>3
  <2> QED BY <1>2, <1>3, <2>1, FunctionIsList
<1>5. \A j \in i + 1 .. n : j \in 1 .. n
  BY <1>2
<1>6. path \in DOMAIN Updated(s) /\ Updated(s)[path] = s[i][path]
  <2>1. path \in DOMAIN s[i] /\ \A j \in i + 1 .. n : path \notin DOMAIN s[j]
    BY <1>1, <1>2, <1>4, <1>5
  <2> QED BY <1>2, <1>4, <2>1, UpdatedProperties
<1>7. FileAt(packs, path) = IF path \in DOMAIN Updated(s) THEN Updated(s)[path] ELSE Gone
  BY <1>2, <1>3 DEF FileAt
<1> QED BY <1>2, <1>4, <1>6, <1>7

-----------------------------------------------------------------------------
\* What a manifest was not written for never comes into use, whoever edits a pack or writes its
\* manifest anew while it is read; nor do two packs of one id or more than the budgets allow; a
\* path and a translation come from the last pack that has them; for any packs, files, sizes
\* and language files.  (_load_directory, _load_zip, _verify_manifest, reload, from_resources.)
THEOREM CataloguesAreWhole == PackSpec => []CatalogueIsWhole
<1> DEFINE Inv == PackInv /\ TranslatorSound
<1>1. ASSUME NEW w \in Workspaces, PackInit(w) PROVE Inv
  <2>1. w.trees = [p \in Packs |-> w.trees[p]] /\ \A p \in Packs : IsFunction(w.trees[p])
    BY PackAssumption
  <2>2. TreesSound
    BY <1>1, <2>1 DEF PackInit, TreesSound
  <2>3. ManifestsSound
    BY <1>1, <2>1 DEF PackInit, ManifestsSound, Vouched, Sealed
  <2>4. LoaderSound
    BY <1>1, WholeOfNone DEF PackInit, LoaderSound, Idle, IsFunction
  <2> QED BY <1>1, <2>2, <2>3, <2>4 DEF PackInit, PackInv, WriterSound, CatalogSound, TranslatorSound
<1>2. ASSUME Inv, [PackNext]_packVars PROVE Inv'
  <2>1. CASE UNCHANGED packVars
    BY <1>2, <2>1 DEF packVars, PackInv, TreesSound, ManifestsSound, WriterSound, LoaderSound,
                      CatalogSound, Vouched, Whole, Genuine, TranslatorSound
  <2>2. ASSUME NEW locale \in Selected, Translate(locale) PROVE Inv'
    <3>1. PackInv'
      BY <1>2, <2>2 DEF Translate, PackInv, TreesSound, ManifestsSound, WriterSound, LoaderSound,
                        CatalogSound, Vouched, Whole, Genuine
    <3>2. IsList(catalog) /\ locale \in SupportedLocales
      BY <1>2, <2>2, LocalesAreSelected DEF Translate, PackInv, CatalogSound, Whole
    <3>3. TranslatorSound'
      BY <2>2, <3>2 DEF Translate, TranslatorSound
    <3> QED BY <3>1, <3>3
  <2>3. CASE StartLoad
    BY <1>2, <2>3, StartLoadKeeps DEF StartLoad, TranslatorSound
  <2>4. CASE ReadIndex
    BY <1>2, <2>4, ReadIndexKeeps DEF ReadIndex, TranslatorSound
  <2>5. CASE OpenDirectory
    BY <1>2, <2>5, OpenDirectoryKeeps DEF OpenDirectory, TranslatorSound
  <2>6. ASSUME NEW path, ReadFile(path) PROVE Inv'
    BY <1>2, <2>6, ReadFileKeeps DEF ReadFile, TranslatorSound
  <2>7. CASE CloseDirectory
    BY <1>2, <2>7, CloseDirectoryKeeps DEF CloseDirectory, TranslatorSound
  <2>8. CASE ReadZip
    BY <1>2, <2>8, ReadZipKeeps DEF ReadZip, TranslatorSound
  <2>9. CASE UnknownName
    BY <1>2, <2>9, LoadFailedKeeps DEF UnknownName, TranslatorSound
  <2>10. CASE FinishLoad
    BY <1>2, <2>10, FinishLoadKeeps DEF FinishLoad, TranslatorSound
  <2>11. ASSUME NEW pack \in Packs, NEW path, NEW content, Edit(pack, path, content) PROVE Inv'
    BY <1>2, <2>11, EditKeeps DEF Edit, TranslatorSound
  <2>12. ASSUME NEW pack \in Packs, NEW path, NEW content, Tamper(pack, path, content) PROVE Inv'
    BY <1>2, <2>12, TamperKeeps DEF Tamper, TranslatorSound
  <2>13. ASSUME NEW pack \in Packs, BeginManifest(pack) PROVE Inv'
    BY <1>2, <2>13, BeginManifestKeeps DEF BeginManifest, TranslatorSound
  <2>14. ASSUME NEW path, ListFile(path) PROVE Inv'
    BY <1>2, <2>14, ListFileKeeps DEF ListFile, TranslatorSound
  <2>15. CASE WriteManifest
    BY <1>2, <2>15, WriteManifestKeeps DEF WriteManifest, TranslatorSound
  <2> HIDE DEF Inv
  <2> QED BY <1>2, <2>1, <2>2, <2>3, <2>4, <2>5, <2>6, <2>7, <2>8, <2>9, <2>10, <2>11, <2>12,
             <2>13, <2>14, <2>15 DEF PackNext
<1>3. ASSUME Inv PROVE CatalogueIsWhole
  <2>1. ASSUME catalog # Gone
        PROVE  /\ \A i \in DOMAIN catalog :
                    /\ catalog[i].origin \in Packs => catalog[i].files \in published[catalog[i].origin]
                    /\ Bytes(catalog[i].files) <= MaxPackBytes
                    /\ \A j \in DOMAIN catalog : i # j => catalog[i].id # catalog[j].id
                    /\ \A path \in DOMAIN catalog[i].files :
                         (\A j \in i + 1 .. Len(catalog) : path \notin DOMAIN catalog[j].files) =>
                           FileAt(catalog, path) = catalog[i].files[path]
               /\ TotalBytes(catalog) <= MaxCatalogBytes
    <3>1. Whole(catalog) /\ DistinctIds(catalog)
      BY <1>3, <2>1 DEF PackInv, CatalogSound
    <3>2. \A i, j \in DOMAIN catalog : i # j => catalog[i].id # catalog[j].id
      BY <3>1 DEF DistinctIds, IsInjective
    <3> QED BY <3>1, <3>2, FileAtIs DEF Whole, Genuine
  <2> QED BY <1>3, <2>1, TranslatorSpeaks DEF CatalogueIsWhole
<1> HIDE DEF Inv
<1>4. (\E w \in Workspaces : PackInit(w)) => Inv
  BY <1>1
<1>5. Inv /\ [PackNext]_packVars => Inv'
  BY <1>2
<1>6. Inv => CatalogueIsWhole
  BY <1>3
<1> QED BY <1>4, <1>5, <1>6, PTL DEF PackSpec
=============================================================================
