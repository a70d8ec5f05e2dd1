------------------------- MODULE CordisScopeProofs --------------------------
(***************************************************************************)
(* Proofs about CordisScope for any tree of scopes, any keys, providers    *)
(* and disposers, and any number of users and closers.                     *)
(***************************************************************************)
EXTENDS CordisScope, SequenceTheorems, TLAPS

-----------------------------------------------------------------------------
(* Lists. *)

LEMMA AppendRange ==
  ASSUME NEW S, NEW s \in Seq(S), NEW x \in S
  PROVE  /\ Append(s, x) \in Seq(S)
         /\ Range(Append(s, x)) = Range(s) \cup {x}
         /\ IsInjective(s) /\ x \notin Range(s) => IsInjective(Append(s, x))
<1>1. /\ Append(s, x) \in Seq(S) /\ DOMAIN Append(s, x) = 1..(Len(s) + 1)
      /\ \A i \in 1..Len(s) : Append(s, x)[i] = s[i]
      /\ Append(s, x)[Len(s) + 1] = x
      /\ DOMAIN s = 1..Len(s) /\ Len(s) \in Nat
  BY AppendProperties, LenProperties
<1>2. /\ \A i \in DOMAIN Append(s, x) : i \in 1..Len(s) \/ i = Len(s) + 1
      /\ \A i \in DOMAIN s : i \in DOMAIN Append(s, x)
      /\ Len(s) + 1 \in DOMAIN Append(s, x)
  BY <1>1
<1>3. Range(Append(s, x)) = Range(s) \cup {x}
  BY <1>1, <1>2 DEF Range
<1>4. ASSUME IsInjective(s), x \notin Range(s) PROVE IsInjective(Append(s, x))
  BY <1>1, <1>2, <1>4 DEF Range, IsInjective
<1> QED BY <1>1, <1>3, <1>4

\* list.remove on a list without duplicates: what follows moves up by one place.
LEMMA RemoveShape ==
  ASSUME NEW S, NEW s \in Seq(S), NEW x \in Range(s), IsInjective(s)
  PROVE  \E i \in 1..Len(s), t \in Seq(S) :
           /\ s[i] = x /\ t = RemoveFirst(s, x)
           /\ DOMAIN t = 1..(Len(s) - 1)
           /\ \A j \in 1..(Len(s) - 1) : t[j] = IF j < i THEN s[j] ELSE s[j + 1]
<1>0. DOMAIN s = 1..Len(s) /\ Len(s) \in Nat
  BY LenProperties
<1>1. PICK i \in 1..Len(s) : s[i] = x
  BY <1>0 DEF Range
<1>2. {j \in 1..Len(s) : s[j] = x} = {i}
  BY <1>0, <1>1 DEF IsInjective
<1>3. SelectInSeq(s, LAMBDA v : v = x) = i
  <2>1. Min({i}) = i
    BY DEF Min
  <2> DEFINE J == {j \in 1..Len(s) : s[j] = x}
  <2>2. SelectInSeq(s, LAMBDA v : v = x) = IF J # {} THEN Min(J) ELSE 0
    BY Zenon DEF SelectInSeq
  <2>3. J = {i}
    BY <1>2
  <2> HIDE DEF J
  <2> QED BY <2>1, <2>2, <2>3
<1>4. RemoveFirst(s, x) = RemoveAt(s, i)
  BY <1>1, <1>3 DEF RemoveFirst
<1> DEFINE a == SubSeq(s, 1, i - 1)
           b == SubSeq(s, i + 1, Len(s))
<1>5. /\ a \in Seq(S) /\ Len(a) = i - 1 /\ \A j \in 1..(i - 1) : a[j] = s[j]
  BY <1>1, <1>0, SubSeqProperties
<1>6. /\ b \in Seq(S) /\ Len(b) = Len(s) - i /\ \A j \in 1..(Len(s) - i) : b[j] = s[i + j]
  <2>1. i + 1 \in Int /\ Len(s) \in Int /\ \A j \in i + 1..Len(s) : s[j] \in S
    BY <1>0, <1>1
  <2>2. /\ b \in Seq(S) /\ Len(b) = IF i + 1 <= Len(s) THEN Len(s) - (i + 1) + 1 ELSE 0
        /\ \A j \in 1..Len(s) - (i + 1) + 1 : b[j] = s[i + 1 + j - 1]
    BY <2>1, SubSeqProperties
  <2> HIDE DEF b
  <2>3. ASSUME NEW n \in Nat, NEW m \in 1..n
        PROVE  /\ (IF m + 1 <= n THEN n - (m + 1) + 1 ELSE 0) = n - m
               /\ \A j \in 1..n - m : j \in 1..n - (m + 1) + 1 /\ m + 1 + j - 1 = m + j
    OBVIOUS
  <2>4. /\ (IF i + 1 <= Len(s) THEN Len(s) - (i + 1) + 1 ELSE 0) = Len(s) - i
        /\ \A j \in 1..Len(s) - i : j \in 1..Len(s) - (i + 1) + 1 /\ i + 1 + j - 1 = i + j
    BY <1>0, <2>3
  <2>5. ASSUME NEW j \in 1..Len(s) - i PROVE b[j] = s[i + j]
    BY <2>2, <2>4
  <2>6. Len(b) = Len(s) - i
    BY <2>2, <2>4
  <2> QED BY <2>2, <2>5, <2>6
<1> DEFINE t == a \o b
<1>7. RemoveFirst(s, x) = t
  BY <1>4 DEF RemoveAt
<1> HIDE DEF a, b
<1>8. /\ t \in Seq(S) /\ Len(t) = Len(a) + Len(b)
      /\ \A j \in 1..(Len(a) + Len(b)) : t[j] = IF j <= Len(a) THEN a[j] ELSE b[j - Len(a)]
  BY <1>5, <1>6, ConcatProperties
<1> HIDE DEF t
<1>9. /\ DOMAIN t = 1..(Len(s) - 1)
      /\ \A j \in 1..(Len(s) - 1) : t[j] = IF j < i THEN s[j] ELSE s[j + 1]
  <2>1. Len(t) = Len(s) - 1
    BY <1>0, <1>5, <1>6, <1>8
  <2>2. ASSUME NEW j \in 1..(Len(s) - 1), j < i PROVE t[j] = s[j]
    <3>1. j \in 1..(i - 1) /\ j \in 1..(Len(a) + Len(b)) /\ j <= Len(a)
      BY <1>0, <1>1, <1>5, <1>6, <2>2
    <3> QED BY <1>5, <1>8, <3>1
  <2>3. ASSUME NEW j \in 1..(Len(s) - 1), ~(j < i) PROVE t[j] = s[j + 1]
    <3>1. /\ j - (i - 1) \in 1..(Len(s) - i) /\ j \in 1..(Len(a) + Len(b)) /\ ~(j <= Len(a))
          /\ i + (j - (i - 1)) = j + 1 /\ j - Len(a) = j - (i - 1)
      BY <1>0, <1>1, <1>5, <1>6, <2>3
    <3> QED BY <1>6, <1>8, <3>1
  <2> QED BY <1>8, <2>1, <2>2, <2>3, LenProperties
<1> QED BY <1>1, <1>7, <1>8, <1>9

LEMMA RemoveRange ==
  ASSUME NEW S, NEW s \in Seq(S), NEW x, IsInjective(s)
  PROVE  /\ RemoveFirst(s, x) \in Seq(S)
         /\ IsInjective(RemoveFirst(s, x))
         /\ Range(RemoveFirst(s, x)) = Range(s) \ {x}
<1>0. DOMAIN s = 1..Len(s) /\ Len(s) \in Nat
  BY LenProperties
<1>1. CASE x \notin Range(s)
  <2>1. RemoveFirst(s, x) = s
    BY <1>0, <1>1 DEF RemoveFirst, Range
  <2> QED BY <1>1, <2>1
<1>2. CASE x \in Range(s)
  <2>1. PICK i \in 1..Len(s), t \in Seq(S) :
          /\ s[i] = x /\ RemoveFirst(s, x) = t
          /\ DOMAIN t = 1..(Len(s) - 1)
          /\ \A j \in 1..(Len(s) - 1) : t[j] = IF j < i THEN s[j] ELSE s[j + 1]
    BY <1>2, RemoveShape
  <2>2. IsInjective(t)
    <3> DEFINE from(j) == IF j < i THEN j ELSE j + 1
    <3>1. SUFFICES ASSUME NEW m \in DOMAIN t, NEW n \in DOMAIN t, t[m] = t[n]
                   PROVE  m = n
      BY Zenon DEF IsInjective
    <3>2. /\ m \in Int /\ n \in Int /\ from(m) \in 1..Len(s) /\ from(n) \in 1..Len(s)
          /\ t[m] = s[from(m)] /\ t[n] = s[from(n)]
      BY <1>0, <2>1
    <3>3. from(m) = from(n)
      <4> HIDE DEF from
      <4> QED BY <1>0, <3>1, <3>2 DEF IsInjective
    <3> QED BY <2>1, <3>2, <3>3
  <2>3. ASSUME NEW j \in DOMAIN t PROVE t[j] \in Range(s) \ {x}
    BY <1>0, <2>1 DEF IsInjective, Range
  <2>4. ASSUME NEW j \in 1..Len(s), s[j] # x PROVE s[j] \in Range(t)
    <3>1. CASE j < i
      <4>1. j \in DOMAIN t /\ t[j] = s[j]
        BY <1>0, <2>1, <3>1
      <4> QED BY <4>1 DEF Range
    <3>2. CASE j > i
      <4>1. j - 1 \in DOMAIN t /\ t[j - 1] = s[j]
        BY <1>0, <2>1, <3>2
      <4> QED BY <4>1 DEF Range
    <3> QED BY <2>1, <2>4, <3>1, <3>2
  <2> QED BY <1>0, <2>1, <2>2, <2>3, <2>4 DEF Range
<1> QED BY <1>1, <1>2

LEMMA EmptyRange ==
  ASSUME NEW S, NEW s \in Seq(S)
  PROVE  s = <<>> <=> Range(s) = {}
<1>1. DOMAIN s = 1..Len(s) /\ Len(s) \in Nat /\ (s = <<>> <=> Len(s) = 0)
  BY LenProperties, EmptySeq
<1>2. s # <<>> => 1 \in DOMAIN s
  BY <1>1
<1>3. s = <<>> => DOMAIN s = {}
  BY <1>1
<1> QED BY <1>2, <1>3 DEF Range

LEMMA FrontAndLast ==
  ASSUME NEW S, NEW s \in Seq(S), s # <<>>
  PROVE  /\ Front(s) \in Seq(S) /\ Last(s) \in Range(s) /\ Last(s) \in S
         /\ Range(s) = Range(Front(s)) \cup {Last(s)}
<1>1. DOMAIN s = 1..Len(s) /\ Len(s) \in Nat /\ Len(s) >= 1
  BY LenProperties, EmptySeq
<1>2. /\ Front(s) \in Seq(S) /\ Len(Front(s)) = Len(s) - 1
      /\ \A j \in 1..(Len(s) - 1) : Front(s)[j] = s[j]
  BY <1>1 DEF Front
<1>3. DOMAIN Front(s) = 1..(Len(s) - 1)
  BY <1>1, <1>2, LenProperties
<1>4. ASSUME NEW i \in 1..Len(s), i # Len(s) PROVE i \in 1..(Len(s) - 1)
  <2>1. ASSUME NEW n \in Nat, NEW j \in 1..n, j # n PROVE j \in 1..(n - 1)
    BY <2>1
  <2> QED BY <1>1, <1>4, <2>1
<1>5. Len(s) \in DOMAIN s /\ \A j \in 1..(Len(s) - 1) : j \in DOMAIN s
  BY <1>1
<1>6. ASSUME NEW y \in Range(s) PROVE y = Last(s) \/ y \in Range(Front(s))
  BY <1>1, <1>2, <1>3, <1>4 DEF Range, Last
<1>7. ASSUME NEW y \in Range(Front(s)) PROVE y \in Range(s)
  BY <1>2, <1>3, <1>5 DEF Range
<1>8. Last(s) \in Range(s) /\ Last(s) \in S
  BY <1>1, <1>5 DEF Range, Last
<1> QED BY <1>2, <1>6, <1>7, <1>8

\* A stack with another frame on top, in place of its top or above it.
LEMMA OnTop ==
  ASSUME NEW S, NEW f \in S, NEW rest \in Seq(S)
  PROVE  /\ <<f>> \o rest \in Seq(S) /\ <<f>> \o rest # <<>>
         /\ Len(<<f>> \o rest) = Len(rest) + 1
         /\ Head(<<f>> \o rest) = f /\ (<<f>> \o rest)[1] = f
         /\ \A i \in 1..Len(rest) : (<<f>> \o rest)[i + 1] = rest[i]
         /\ Tail(<<f>> \o rest) = rest
<1>1. /\ <<f>> \o rest \in Seq(S) /\ Len(<<f>> \o rest) = Len(rest) + 1
      /\ (<<f>> \o rest)[1] = f
      /\ \A i \in 1..Len(rest) : (<<f>> \o rest)[i + 1] = rest[i]
  OBVIOUS
<1> QED BY <1>1

-----------------------------------------------------------------------------
(* The invariant. *)

Item == Scopes \cup Keys \cup Things

Frames ==
  [scope : Scopes, pc : {"enter", "gather", "abort", "children", "dispose", "await"},
   todo : Seq(Item), failed : BOOLEAN]

Shapes ==
  /\ Root \in exists /\ exists \subseteq Scopes /\ closed \subseteq exists /\ complete \subseteq closed
  /\ children \in [Scopes -> Seq(Scopes)]
  /\ disposers \in [Scopes -> Seq(Keys \cup Things)]
  /\ instances \in [Scopes -> SUBSET Keys]
  /\ DOMAIN task = Provider
  /\ \A p \in Provider : DOMAIN task[p] = {"pc", "got", "stack", "on"}
  /\ made \subseteq Provider

\* A scope that was created is complete, or a child of the scope it was created in.
Family ==
  /\ \A s \in Scopes : IsInjective(children[s])
  /\ \A s \in Scopes : \A t \in Range(children[s]) :
       t \in exists /\ t # Root /\ Parent[t] = s /\ t \notin complete
  /\ \A t \in exists \ {Root} : t \in complete \/ t \in Range(children[Parent[t]])

\* A resource is owned until its disposer succeeds, and known until its scope is complete.
Resources ==
  /\ \A s \in Scopes : IsInjective(disposers[s])
  /\ \A s \in Scopes : \A x \in Range(disposers[s]) :
       <<s, x>> \notin gone /\ (x \in Keys => <<s, x>> \in made)
  /\ \A s \in Scopes, k \in Keys : <<s, k>> \in gone => <<s, k>> \in made
  /\ \A s \in Scopes, k \in Keys : <<s, k>> \in made =>
       /\ <<s, k>> \in gone \/ k \in Range(disposers[s])
       /\ s \in complete \/ k \in instances[s]
       /\ ~Running(<<s, k>>)

\* No provider of s runs.
Still(s) == \A k \in Keys : ~Running(<<s, k>>)

Emptied == \A s \in complete : Still(s) /\ Range(children[s]) = {} /\ Range(disposers[s]) = {}

World == Shapes /\ Family /\ Resources /\ Emptied

\* What a call of aclose relies on, wherever it is suspended.
FrameOK(f) ==
  /\ f.scope \in exists
  /\ f.pc # "enter" => f.scope \in closed
  /\ f.pc \in {"children", "dispose", "await"} => Still(f.scope)
  /\ f.pc = "children" => Range(f.todo) \subseteq exists
  /\ f.pc \in {"dispose", "await"} =>
       /\ Range(children[f.scope]) = {}
       /\ IsInjective(f.todo)
       /\ f.failed \/ Range(disposers[f.scope]) \subseteq Range(f.todo)
  /\ f.pc = "await" =>
       /\ f.todo # <<>>
       /\ Last(f.todo) \in Range(disposers[f.scope]) \/ <<f.scope, Last(f.todo)>> \in gone

\* No child is forgotten: it is still to be closed, or among those being closed now.
Covered(f, now) ==
  f.pc = "children" /\ ~f.failed => Range(children[f.scope]) \subseteq Range(f.todo) \cup now

Above(stack, i) == IF i = 1 THEN {} ELSE {stack[i - 1].scope}

StackOK(stack) ==
  \A i \in 1..Len(stack) :
    /\ FrameOK(stack[i]) /\ Covered(stack[i], Above(stack, i))
    /\ i # 1 => stack[i].pc = "children"

Stacks ==
  /\ closer \in [Closers -> Seq(Frames)]
  /\ \A c \in Closers : StackOK(closer[c])

ScopeInv == World /\ Stacks

-----------------------------------------------------------------------------
(* What others do to the scopes of a call of aclose. *)

\* A closed scope gets nothing new, and a disposer leaves the list when it has succeeded.
Stable ==
  /\ exists \subseteq exists' /\ closed \subseteq closed' /\ gone \subseteq gone'
  /\ \A s \in closed : Still(s) => Still(s)'
  /\ \A s \in closed : Range(children'[s]) \subseteq Range(children[s])
  /\ \A s \in closed : Still(s) => Range(disposers'[s]) \subseteq Range(disposers[s])
  /\ \A s \in Scopes : \A x \in Range(disposers[s]) :
       x \in Range(disposers'[s]) \/ <<s, x>> \in gone'

worldVars == <<exists, closed, complete, children, instances, disposers, task, made, gone>>

LEMMA WorldSame ==
  ASSUME World, UNCHANGED worldVars
  PROVE  World' /\ Stable
<1>1. Stable
  BY DEF worldVars, Stable, Still, Running
<1>2. Shapes' /\ Family'
  BY DEF worldVars, World, Shapes, Family
<1>3. Resources' /\ Emptied'
  BY DEF worldVars, World, Resources, Emptied, Still, Running
<1> QED BY <1>1, <1>2, <1>3 DEF World

LEMMA StableFrames ==
  ASSUME Shapes, Stable
  PROVE  /\ \A f : FrameOK(f) => FrameOK(f)'
         /\ \A f, now : FrameOK(f) /\ Covered(f, now) => Covered(f, now)'
         /\ \A stack : StackOK(stack) => StackOK(stack)'
<1>1. ASSUME NEW f, FrameOK(f) PROVE FrameOK(f)'
  BY <1>1 DEF Shapes, Stable, FrameOK
<1>2. ASSUME NEW f, NEW now, FrameOK(f), Covered(f, now) PROVE Covered(f, now)'
  BY <1>2 DEF Shapes, Stable, FrameOK, Covered
<1>3. ASSUME NEW stack, StackOK(stack) PROVE StackOK(stack)'
  BY <1>1, <1>2, <1>3 DEF StackOK, Above
<1> QED BY <1>1, <1>2, <1>3

LEMMA StacksKept ==
  ASSUME World, Stacks, Stable, UNCHANGED closer
  PROVE  Stacks'
BY StableFrames DEF World, Stacks

LEMMA StacksStep ==
  ASSUME World, Stacks, Stable, NEW c \in Closers, NEW stack \in Seq(Frames),
         closer' = [closer EXCEPT ![c] = stack], StackOK(stack)'
  PROVE  Stacks'
<1>1. closer' \in [Closers -> Seq(Frames)]
  BY DEF Stacks
<1>2. ASSUME NEW d \in Closers PROVE StackOK(closer[d])'
  <2>1. CASE d = c
    BY <2>1 DEF Stacks
  <2>2. CASE d # c
    <3>1. closer'[d] = closer[d]
      BY <2>2 DEF Stacks
    <3> QED BY <3>1, StableFrames DEF World, Stacks
  <2> QED BY <2>1, <2>2
<1> QED BY <1>1, <1>2 DEF Stacks

LEMMA GoToStacks ==
  ASSUME World, Stacks, Stable, NEW c \in Closers, closer[c] # <<>>, NEW f \in Frames,
         GoTo(c, f), f.scope = Top(c).scope, FrameOK(f)', Covered(f, {})'
  PROVE  Stacks'
<1>1. PICK old \in Seq(Frames) : old = closer[c]
  BY DEF Stacks
<1>2. PICK rest \in Seq(Frames) : rest = Tail(old)
  BY <1>1, HeadTailProperties
<1>3. PICK stack : stack = <<f>> \o rest
  OBVIOUS
<1>4. /\ stack \in Seq(Frames) /\ Len(stack) = Len(rest) + 1 /\ stack[1] = f
      /\ \A i \in 1..Len(rest) : stack[i + 1] = rest[i]
  BY <1>3, OnTop
<1>5. /\ old[1] = Top(c) /\ Len(old) = Len(rest) + 1 /\ Len(rest) \in Nat
      /\ \A i \in 1..Len(rest) : old[i + 1] = rest[i]
  BY <1>1, <1>2, HeadTailProperties, LenProperties DEF Top
<1>6. StackOK(old)'
  BY <1>1, StableFrames DEF World, Stacks
<1>7. StackOK(stack)'
  <2>1. SUFFICES ASSUME NEW i \in 1..Len(stack)
                 PROVE  /\ FrameOK(stack[i])' /\ Covered(stack[i], Above(stack, i))'
                        /\ i # 1 => stack[i].pc = "children"
    BY DEF StackOK
  <2>2. CASE i = 1
    BY <1>4, <2>2 DEF Above
  <2>3. CASE i # 1
    <3>1. i \in 1..Len(old) /\ stack[i] = old[i]
      <4>1. i - 1 \in 1..Len(rest) /\ i - 1 + 1 = i /\ i \in 1..Len(old)
        BY <1>4, <1>5, <2>3
      <4> QED BY <1>4, <1>5, <4>1
    <3>2. Above(stack, i) = Above(old, i)
      <4>1. CASE i = 2
        BY <1>4, <1>5, <2>3, <4>1 DEF Above
      <4>2. CASE i # 2
        <5>1. i - 2 \in 1..Len(rest) /\ i - 2 + 1 = i - 1
          BY <1>4, <1>5, <2>3, <4>2
        <5>2. stack[i - 1] = old[i - 1]
          BY <1>4, <1>5, <5>1
        <5> QED BY <2>3, <5>2 DEF Above
      <4> QED BY <4>1, <4>2
    <3>3. FrameOK(old[i])' /\ Covered(old[i], Above(old, i))' /\ old[i].pc = "children"
      BY <1>6, <2>3, <3>1 DEF StackOK
    <3> QED BY <2>3, <3>1, <3>2, <3>3
  <2> QED BY <2>2, <2>3
<1>8. closer' = [closer EXCEPT ![c] = stack]
  BY <1>1, <1>2, <1>3 DEF GoTo, Stacks
<1> QED BY <1>4, <1>7, <1>8, StacksStep

LEMMA ReturnStacks ==
  ASSUME World, Stacks, Stable, NEW c \in Closers, closer[c] # <<>>, NEW failed \in BOOLEAN,
         Return(c, failed),
         failed \/ \A s \in Scopes : Top(c).scope \notin Range(children'[s])
  PROVE  Stacks'
<1>1. PICK old \in Seq(Frames) : old = closer[c]
  BY DEF Stacks
<1>2. PICK rest \in Seq(Frames) : rest = Tail(old)
  BY <1>1, HeadTailProperties
<1>3. /\ old[1] = Top(c) /\ Len(old) = Len(rest) + 1 /\ Len(rest) \in Nat
      /\ \A i \in 1..Len(rest) : old[i + 1] = rest[i]
  BY <1>1, <1>2, HeadTailProperties, LenProperties DEF Top
<1>7. PICK ended : ended = Top(c).scope
  OBVIOUS
<1>4. StackOK(old)'
  BY <1>1, StableFrames DEF World, Stacks
<1>5. CASE rest = <<>>
  <2>1. closer' = [closer EXCEPT ![c] = <<>>] /\ <<>> \in Seq(Frames)
    BY <1>1, <1>2, <1>5 DEF Return
  <2>2. PICK stack \in Seq(Frames) : stack = <<>>
    BY <2>1
  <2>3. StackOK(stack)'
    BY <2>2 DEF StackOK
  <2> QED BY <2>1, <2>2, <2>3, StacksStep
<1>6. CASE rest # <<>>
  <2>1. PICK f \in Frames : f = [Head(rest) EXCEPT !.failed = @ \/ failed]
    <3>1. Head(rest) \in Frames
      BY <1>6, HeadTailProperties
    <3> QED BY <3>1 DEF Frames
  <2>2. PICK more \in Seq(Frames) : more = Tail(rest)
    BY <1>6, HeadTailProperties
  <2>3. PICK stack : stack = <<f>> \o more
    OBVIOUS
  <2>4. /\ stack \in Seq(Frames) /\ Len(stack) = Len(more) + 1 /\ stack[1] = f
        /\ \A i \in 1..Len(more) : stack[i + 1] = more[i]
    BY <2>3, OnTop
  <2>5. /\ Len(rest) = Len(more) + 1 /\ Len(more) \in Nat /\ rest[1] = Head(rest)
        /\ \A i \in 1..Len(more) : more[i] = rest[i + 1]
    BY <1>6, <2>2, HeadTailProperties, LenProperties
  <2>6. /\ f.scope = rest[1].scope /\ f.pc = rest[1].pc /\ f.todo = rest[1].todo
        /\ ~f.failed => ~rest[1].failed /\ ~failed
    <3>1. rest[1] \in Frames
      BY <1>6, <2>5
    <3> QED BY <2>1, <2>5, <3>1 DEF Frames
  <2>7. /\ FrameOK(rest[1])' /\ Covered(rest[1], {ended})' /\ rest[1].pc = "children"
    <3>1. 2 \in 1..Len(old) /\ old[2] = rest[1] /\ Above(old, 2) = {ended}
      BY <1>3, <1>7, <2>5 DEF Above
    <3>2. PICK i \in 1..Len(old) : i = 2
      BY <3>1
    <3>3. FrameOK(old[i])' /\ Covered(old[i], Above(old, i))' /\ old[i].pc = "children"
      BY <1>4, <3>2 DEF StackOK
    <3> QED BY <3>1, <3>2, <3>3
  <2>8. FrameOK(f)' /\ Covered(f, {})'
    <3>1. FrameOK(f)'
      BY <2>6, <2>7 DEF FrameOK
    <3>2. ASSUME ~f.failed PROVE Range(children'[f.scope]) \subseteq Range(f.todo)
      <4>1. /\ Range(children'[f.scope]) \subseteq Range(f.todo) \cup {ended}
        BY <2>6, <2>7, <3>2 DEF Covered
      <4>2. f.scope \in Scopes
        BY <2>1 DEF Frames
      <4> QED BY <1>7, <2>6, <3>2, <4>1, <4>2
    <3> QED BY <3>1, <3>2 DEF Covered
  <2>9. StackOK(stack)'
    <3>1. SUFFICES ASSUME NEW i \in 1..Len(stack)
                   PROVE  /\ FrameOK(stack[i])' /\ Covered(stack[i], Above(stack, i))'
                          /\ i # 1 => stack[i].pc = "children"
      BY DEF StackOK
    <3>2. CASE i = 1
      BY <2>4, <2>8, <3>2 DEF Above
    <3>3. CASE i # 1
      <4>1. i + 1 \in 1..Len(old) /\ stack[i] = old[i + 1] /\ i + 1 # 1
        <5>1. i - 1 \in 1..Len(more) /\ i - 1 + 1 = i /\ i \in 1..Len(rest) /\ i + 1 \in 1..Len(old)
          BY <1>3, <2>4, <2>5, <3>3
        <5>2. stack[i] = more[i - 1]
          BY <2>4, <5>1
        <5>3. more[i - 1] = rest[i]
          BY <2>5, <5>1
        <5>4. rest[i] = old[i + 1]
          BY <1>3, <5>1
        <5> QED BY <3>3, <5>1, <5>2, <5>3, <5>4
      <4>2. stack[i - 1].scope = old[i].scope
        <5>1. CASE i = 2
          BY <1>3, <2>4, <2>5, <2>6, <5>1
        <5>2. CASE i # 2
          <6>1. i - 2 \in 1..Len(more) /\ i - 2 + 1 = i - 1 /\ i - 1 \in 1..Len(rest) /\ i - 1 + 1 = i
            BY <1>3, <2>4, <2>5, <3>3, <5>2
          <6> QED BY <1>3, <2>4, <2>5, <6>1
        <5> QED BY <5>1, <5>2
      <4>3. Above(stack, i) = Above(old, i + 1)
        <5>1. i + 1 - 1 = i
          OBVIOUS
        <5> QED BY <3>3, <4>1, <4>2, <5>1 DEF Above
      <4>4. FrameOK(old[i + 1])' /\ Covered(old[i + 1], Above(old, i + 1))'
              /\ old[i + 1].pc = "children"
        BY <1>4, <4>1 DEF StackOK
      <4> QED BY <3>3, <4>1, <4>3, <4>4
    <3> QED BY <3>2, <3>3
  <2>10. closer' = [closer EXCEPT ![c] = stack]
    BY <1>1, <1>2, <1>6, <2>1, <2>2, <2>3 DEF Return
  <2> QED BY <2>4, <2>9, <2>10, StacksStep
<1> QED BY <1>5, <1>6

-----------------------------------------------------------------------------
(* Steps of users and providers. *)

ShapeOfTask ==
  /\ DOMAIN task = Provider
  /\ \A p \in Provider : DOMAIN task[p] = {"pc", "got", "stack", "on"}

\* A provider starts only while its scope is open and its instance is unknown.
StartsRightly ==
  \A s \in Scopes, k \in Keys :
    Running(<<s, k>>)' => Running(<<s, k>>) \/ (s \notin closed /\ k \notin instances[s])

Kept == <<treeVars, instances, disposers, made, gone, closer>>

LEMMA TasksMove ==
  ASSUME World, Stacks, UNCHANGED Kept, ShapeOfTask', StartsRightly
  PROVE  World' /\ Stacks'
<1>1. Stable
  <2>1. ASSUME NEW s \in closed, Still(s) PROVE Still(s)'
    BY <2>1 DEF World, Shapes, StartsRightly, Still
  <2> QED BY <2>1 DEF Stable, Kept, treeVars
<1>2. Shapes' /\ Family'
  BY DEF World, Shapes, Family, Kept, treeVars, ShapeOfTask
<1>3. Resources'
  <2>1. ASSUME NEW s \in Scopes, NEW k \in Keys, <<s, k>> \in made PROVE ~Running(<<s, k>>)'
    BY <2>1 DEF World, Shapes, Resources, StartsRightly
  <2> QED BY <2>1 DEF World, Resources, Kept, treeVars
<1>4. Emptied'
  BY DEF World, Shapes, Emptied, Still, StartsRightly, Kept, treeVars
<1>5. Stacks'
  BY <1>1, StacksKept DEF Kept
<1> QED BY <1>2, <1>3, <1>4, <1>5 DEF World

LEMMA JoinedTask ==
  ASSUME Shapes, NEW s, NEW k, NEW stack, Awaited(s, k, stack), NEW p,
         p = <<Owner(s, k), k>>
  PROVE  /\ DOMAIN Joined(task, p, stack) = Provider
         /\ \A q \in Provider :
              /\ DOMAIN Joined(task, p, stack)[q] = {"pc", "got", "stack", "on"}
              /\ Joined(task, p, stack)[q].pc # "none" =>
                   Running(q) \/ (q[1] \notin closed /\ q[2] \notin instances[q[1]])
<1>1. p[1] \notin closed /\ p[2] \notin instances[p[1]]
  BY DEF Awaited, Refused, Cached
<1>2. CASE task[p].pc = "none"
  <2>1. Joined(task, p, stack) = [task EXCEPT ![p] = [NoTask EXCEPT !.pc = "created",
                                                      !.stack = stack \cup {p[2]}]]
    BY <1>2 DEF Joined
  <2>2. DOMAIN [NoTask EXCEPT !.pc = "created", !.stack = stack \cup {p[2]}]
          = {"pc", "got", "stack", "on"}
    BY DEF NoTask
  <2>3. PICK new : new = [NoTask EXCEPT !.pc = "created", !.stack = stack \cup {p[2]}]
    OBVIOUS
  <2> QED BY <1>1, <2>1, <2>2, <2>3 DEF Shapes, Running
<1>3. CASE task[p].pc # "none"
  BY <1>3 DEF Joined, Shapes, Running
<1> QED BY <1>2, <1>3

LEMMA UseIsGood ==
  ASSUME World, Stacks, NEW u \in Users, NEW k \in Keys, Use(u, k)
  PROVE  World' /\ Stacks'
<1>1. UNCHANGED Kept
  BY DEF Use, Kept, treeVars, disposeVars, closeVars
<1>2. CASE UNCHANGED task
  BY <1>1, <1>2, TasksMove DEF ShapeOfTask, StartsRightly, Running, World, Shapes
<1>3. CASE ~UNCHANGED task
  <2>1. PICK p : /\ Awaited(From[u], k, {}) /\ p = <<Owner(From[u], k), k>>
                 /\ task' = Joined(task, p, {})
    BY <1>3 DEF Use
  <2>2. ShapeOfTask'
    BY <2>1, JoinedTask DEF ShapeOfTask, World
  <2>3. StartsRightly
    BY <2>1, JoinedTask DEF StartsRightly, World, Running, Provider
  <2> QED BY <1>1, <2>2, <2>3, TasksMove
<1> QED BY <1>2, <1>3

LEMMA UseNeedIsGood ==
  ASSUME World, Stacks, NEW p \in Provider, NEW k \in Keys, UseNeed(p, k)
  PROVE  World' /\ Stacks'
<1>1. UNCHANGED Kept
  BY DEF UseNeed, Kept, treeVars, disposeVars, closeVars
<1>2. Running(p)
  BY DEF UseNeed, Active, Running
<1>3. CASE Awaited(p[1], k, task[p].stack) /\ task'[p].pc = "wait"
  <2>1. PICK q : /\ q = <<Owner(p[1], k), k>>
                 /\ task' = [Joined(task, q, task[p].stack) EXCEPT ![p].pc = "wait", ![p].on = q]
    <3>1. CASE task' = [task EXCEPT ![p].pc = "run",
                                    ![p].got = @ \cup {<<Owner(p[1], k), k>>}]
      BY <1>3, <3>1 DEF World, Shapes
    <3>2. CASE task' = [task EXCEPT ![p].pc = "raise"]
      BY <1>3, <3>2 DEF World, Shapes
    <3> QED BY <3>1, <3>2 DEF UseNeed
  <2>2. PICK j : j = Joined(task, q, task[p].stack)
    OBVIOUS
  <2>3. /\ DOMAIN j = Provider
        /\ \A r \in Provider :
             /\ DOMAIN j[r] = {"pc", "got", "stack", "on"}
             /\ j[r].pc # "none" => Running(r) \/ (r[1] \notin closed /\ r[2] \notin instances[r[1]])
    BY <1>3, <2>1, <2>2, JoinedTask DEF World
  <2>4. /\ DOMAIN task' = Provider
        /\ \A r \in Provider : /\ DOMAIN task'[r] = {"pc", "got", "stack", "on"}
                               /\ r # p => task'[r] = j[r]
    BY <2>1, <2>2, <2>3
  <2>5. StartsRightly
    BY <1>2, <2>3, <2>4 DEF StartsRightly, Running, Provider
  <2> QED BY <1>1, <2>4, <2>5, TasksMove DEF ShapeOfTask
<1>4. CASE ~(Awaited(p[1], k, task[p].stack) /\ task'[p].pc = "wait")
  <2>1. \/ task' = [task EXCEPT ![p].pc = "run", ![p].got = @ \cup {<<Owner(p[1], k), k>>}]
        \/ task' = [task EXCEPT ![p].pc = "raise"]
    <3>1. ASSUME NEW q, Awaited(p[1], k, task[p].stack), q = <<Owner(p[1], k), k>>,
                 task' = [Joined(task, q, task[p].stack) EXCEPT ![p].pc = "wait", ![p].on = q]
          PROVE  FALSE
      <4>1. PICK j : j = Joined(task, q, task[p].stack)
        OBVIOUS
      <4>2. DOMAIN j = Provider /\ DOMAIN j[p] = {"pc", "got", "stack", "on"}
        BY <3>1, <4>1, JoinedTask DEF World
      <4>3. task'[p].pc = "wait"
        BY <3>1, <4>1, <4>2
      <4> QED BY <1>4, <3>1, <4>3
    <3> QED BY <3>1 DEF UseNeed
  <2>2. ShapeOfTask' /\ StartsRightly
    BY <1>2, <2>1 DEF World, Shapes, ShapeOfTask, StartsRightly, Running, Provider
  <2> QED BY <1>1, <2>2, TasksMove
<1> QED BY <1>3, <1>4

LEMMA EndsEffect ==
  ASSUME Shapes, NEW p \in Provider, NEW success \in BOOLEAN, Ends(p, success)
  PROVE  /\ ShapeOfTask' /\ ~Running(p)'
         /\ \A q \in Provider : Running(q)' => Running(q)
<1>1. ASSUME NEW q \in Provider
      PROVE  /\ DOMAIN task'[q] = {"pc", "got", "stack", "on"}
             /\ Running(q)' => Running(q)
             /\ q = p => ~Running(q)'
  <2>1. CASE q = p
    BY <2>1 DEF Ends, NoTask, Running
  <2>2. CASE q # p /\ task[q].pc = "wait" /\ task[q].on = p
    <3>1. task'[q] = [task[q] EXCEPT !.pc = IF success THEN "run" ELSE "raise",
                                     !.got = IF success THEN @ \cup {p} ELSE @, !.on = <<>>]
      BY <2>2 DEF Ends
    <3> QED BY <2>2, <3>1 DEF Shapes, Running
  <2>3. CASE q # p /\ ~(task[q].pc = "wait" /\ task[q].on = p)
    BY <2>3 DEF Ends, Shapes, Running
  <2> QED BY <2>1, <2>2, <2>3
<1>2. DOMAIN task' = Provider
  BY DEF Ends
<1> QED BY <1>1, <1>2 DEF ShapeOfTask

LEMMA ProviderEndsIsGood ==
  ASSUME World, Stacks, NEW p \in Provider, ProviderFails(p) \/ ProviderCancelled(p)
  PROVE  World' /\ Stacks'
<1>1. UNCHANGED Kept
  BY DEF ProviderFails, ProviderCancelled, Kept, treeVars, disposeVars, closeVars
<1>2. CASE Ends(p, FALSE)
  <2>1. ShapeOfTask' /\ StartsRightly
    BY <1>2, EndsEffect DEF World, StartsRightly, Provider
  <2> QED BY <1>1, <2>1, TasksMove
<1>3. CASE ~Ends(p, FALSE)
  <2>1. /\ task[p].pc \in {"run", "wait", "raise"}
        /\ task' = [task EXCEPT ![p].pc = "run", ![p].on = <<>>]
    BY <1>3 DEF ProviderFails, ProviderCancelled
  <2>2. ShapeOfTask' /\ StartsRightly
    BY <2>1 DEF World, Shapes, ShapeOfTask, StartsRightly, Running, Provider
  <2> QED BY <1>1, <2>2, TasksMove
<1> QED BY <1>2, <1>3

LEMMA InList ==
  ASSUME NEW S, NEW s \in Seq(S), NEW x
  PROVE  Contains(s, x) <=> x \in Range(s)
BY LenProperties DEF Contains, Range

\* A provider that returns is the only one that ever runs for its key in its scope.
LEMMA ProviderReturnsIsGood ==
  ASSUME World, Stacks, NEW p \in Provider, ProviderReturns(p)
  PROVE  World' /\ Stacks'
<1>1. PICK s \in Scopes, k \in Keys : p = <<s, k>>
  BY DEF Provider
<1>2. /\ UNCHANGED <<exists, closed, complete, children, gone, closer>>
      /\ instances' = [instances EXCEPT ![s] = @ \cup {k}]
      /\ disposers' = [disposers EXCEPT ![s] = Append(@, k)]
      /\ made' = made \cup {<<s, k>>}
      /\ Running(<<s, k>>)
  BY <1>1 DEF ProviderReturns, Active, Running, treeVars, closeVars
<1>3. /\ ShapeOfTask' /\ ~Running(<<s, k>>)'
      /\ \A q \in Provider : Running(q)' => Running(q)
  BY <1>1, EndsEffect DEF ProviderReturns, World
<1>4. <<s, k>> \notin made /\ <<s, k>> \notin gone /\ s \notin complete /\ ~Still(s)
      /\ k \notin Range(disposers[s])
  BY <1>2 DEF World, Resources, Emptied, Still
<1>5. /\ disposers[s] \in Seq(Keys \cup Things)
      /\ Append(disposers[s], k) \in Seq(Keys \cup Things)
      /\ Range(Append(disposers[s], k)) = Range(disposers[s]) \cup {k}
      /\ IsInjective(Append(disposers[s], k))
  <2>1. disposers[s] \in Seq(Keys \cup Things) /\ k \in Keys \cup Things
    BY DEF World, Shapes
  <2> QED BY <1>4, <2>1, AppendRange DEF World, Resources
<1>6. /\ disposers' \in [Scopes -> Seq(Keys \cup Things)]
      /\ disposers'[s] = Append(disposers[s], k)
      /\ \A t \in Scopes : t # s => disposers'[t] = disposers[t]
      /\ instances' \in [Scopes -> SUBSET Keys]
      /\ instances'[s] = instances[s] \cup {k}
      /\ \A t \in Scopes : t # s => instances'[t] = instances[t]
  BY <1>2, <1>5 DEF World, Shapes
<1>7. Shapes' /\ Family'
  BY <1>2, <1>3, <1>6 DEF World, Shapes, Family, ShapeOfTask, Provider
<1>8. Stable
  <2>1. ASSUME NEW t \in closed, Still(t)
        PROVE  Still(t)' /\ Range(disposers'[t]) \subseteq Range(disposers[t])
    BY <1>3, <1>4, <1>6, <2>1 DEF World, Shapes, Still, Provider
  <2>2. ASSUME NEW t \in Scopes PROVE Range(disposers[t]) \subseteq Range(disposers'[t])
    BY <1>5, <1>6
  <2> QED BY <1>2, <2>1, <2>2 DEF Stable
<1>9. Resources'
  <2>1. ASSUME NEW t \in Scopes PROVE IsInjective(disposers'[t])
    BY <1>5, <1>6 DEF World, Resources
  <2>2. ASSUME NEW t \in Scopes, NEW x \in Range(disposers'[t])
        PROVE  <<t, x>> \notin gone' /\ (x \in Keys => <<t, x>> \in made')
    BY <1>2, <1>4, <1>5, <1>6 DEF World, Resources
  <2>3. ASSUME NEW t \in Scopes, NEW l \in Keys, <<t, l>> \in gone' PROVE <<t, l>> \in made'
    BY <1>2, <2>3 DEF World, Resources
  <2>4. ASSUME NEW t \in Scopes, NEW l \in Keys, <<t, l>> \in made'
        PROVE  /\ <<t, l>> \in gone' \/ l \in Range(disposers'[t])
               /\ t \in complete' \/ l \in instances'[t]
               /\ ~Running(<<t, l>>)'
    <3>1. CASE t = s /\ l = k
      BY <1>3, <1>5, <1>6, <3>1
    <3>2. CASE ~(t = s /\ l = k)
      <4>1. <<t, l>> \in made
        BY <1>2, <2>4, <3>2
      <4> QED BY <1>2, <1>3, <1>5, <1>6, <4>1 DEF World, Resources, Provider
    <3> QED BY <3>1, <3>2
  <2> QED BY <2>1, <2>2, <2>3, <2>4 DEF Resources
<1>10. Emptied'
  BY <1>2, <1>3, <1>4, <1>6 DEF World, Shapes, Emptied, Still, Provider
<1>11. Stacks'
  BY <1>2, <1>8, StacksKept
<1> QED BY <1>7, <1>9, <1>10, <1>11 DEF World

LEMMA ProvideIsGood ==
  ASSUME World, Stacks, NEW s \in Scopes, NEW k \in Keys, Provide(s, k)
  PROVE  World' /\ Stacks'
<1>1. UNCHANGED worldVars /\ UNCHANGED closer
  BY DEF Provide, worldVars, treeVars, disposeVars, closeVars
<1> QED BY <1>1, WorldSame, StacksKept

LEMMA OwnIsGood ==
  ASSUME World, Stacks, NEW s \in Scopes, NEW x \in Things, Own(s, x)
  PROVE  World' /\ Stacks'
<1>1. /\ UNCHANGED <<exists, closed, complete, children, instances, task, made, gone, closer>>
      /\ disposers' = [disposers EXCEPT ![s] = Append(@, x)]
      /\ <<s, x>> \notin gone /\ s \notin closed /\ x \notin Keys
  BY TreeAssumption DEF Own, treeVars, resolveVars, closeVars
<1>2. /\ disposers[s] \in Seq(Keys \cup Things)
      /\ Append(disposers[s], x) \in Seq(Keys \cup Things)
      /\ Range(Append(disposers[s], x)) = Range(disposers[s]) \cup {x}
      /\ IsInjective(Append(disposers[s], x))
  <2>1. disposers[s] \in Seq(Keys \cup Things) /\ x \in Keys \cup Things
    BY DEF World, Shapes
  <2>2. x \notin Range(disposers[s])
    BY <2>1, InList DEF Own
  <2> QED BY <2>1, <2>2, AppendRange DEF World, Resources
<1>3. /\ disposers' \in [Scopes -> Seq(Keys \cup Things)]
      /\ disposers'[s] = Append(disposers[s], x)
      /\ \A t \in Scopes : t # s => disposers'[t] = disposers[t]
  BY <1>1, <1>2 DEF World, Shapes
<1>4. Shapes' /\ Family'
  BY <1>1, <1>3 DEF World, Shapes, Family
<1>5. Stable
  <2>1. ASSUME NEW t \in Scopes PROVE Range(disposers[t]) \subseteq Range(disposers'[t])
    BY <1>2, <1>3
  <2> QED BY <1>1, <1>3, <2>1 DEF World, Shapes, Stable, Still, Running
<1>6. Resources'
  <2>1. ASSUME NEW t \in Scopes PROVE IsInjective(disposers'[t])
    BY <1>2, <1>3 DEF World, Resources
  <2>2. ASSUME NEW t \in Scopes, NEW y \in Range(disposers'[t])
        PROVE  <<t, y>> \notin gone' /\ (y \in Keys => <<t, y>> \in made')
    BY <1>1, <1>2, <1>3 DEF World, Resources
  <2>3. ASSUME NEW t \in Scopes, NEW l \in Keys, <<t, l>> \in made'
        PROVE  /\ <<t, l>> \in gone' \/ l \in Range(disposers'[t])
               /\ t \in complete' \/ l \in instances'[t]
               /\ ~Running(<<t, l>>)'
    BY <1>1, <1>2, <1>3, <2>3 DEF World, Resources, Running
  <2>4. ASSUME NEW t \in Scopes, NEW l \in Keys, <<t, l>> \in gone' PROVE <<t, l>> \in made'
    BY <1>1, <2>4 DEF World, Resources
  <2> QED BY <2>1, <2>2, <2>3, <2>4 DEF Resources
<1>7. Emptied'
  BY <1>1, <1>3 DEF World, Shapes, Emptied, Still, Running
<1> QED BY <1>1, <1>4, <1>5, <1>6, <1>7, StacksKept DEF World

LEMMA ChildIsGood ==
  ASSUME World, Stacks, NEW s \in Scopes, Child(s)
  PROVE  World' /\ Stacks'
<1>1. /\ UNCHANGED <<closed, complete, instances, disposers, task, made, gone, closer>>
      /\ s \notin exists /\ s # Root /\ exists' = exists \cup {s}
      /\ Parent[s] \in exists /\ Parent[s] \notin closed
      /\ children' = [children EXCEPT ![Parent[s]] = Append(@, s)]
  <2>1. Root \in exists
    BY DEF World, Shapes
  <2> QED BY <2>1 DEF Child, resolveVars, disposeVars, closeVars
<1>2. PICK r \in Scopes : r = Parent[s]
  BY <1>1, TreeAssumption
<1>3. /\ children[r] \in Seq(Scopes) /\ s \notin Range(children[r])
      /\ Append(children[r], s) \in Seq(Scopes)
      /\ Range(Append(children[r], s)) = Range(children[r]) \cup {s}
      /\ IsInjective(Append(children[r], s))
  <2>1. children[r] \in Seq(Scopes) /\ s \notin Range(children[r])
    BY <1>1 DEF World, Shapes, Family
  <2> QED BY <2>1, AppendRange DEF World, Family
<1>4. /\ children' \in [Scopes -> Seq(Scopes)]
      /\ children'[r] = Append(children[r], s)
      /\ \A t \in Scopes : t # r => children'[t] = children[t]
  BY <1>1, <1>2, <1>3 DEF World, Shapes
<1>5. Shapes'
  BY <1>1, <1>4 DEF World, Shapes
<1>6. Family'
  <2>1. ASSUME NEW t \in Scopes PROVE IsInjective(children'[t])
    BY <1>3, <1>4 DEF World, Family
  <2>2. ASSUME NEW t \in Scopes, NEW u \in Range(children'[t])
        PROVE  u \in exists' /\ u # Root /\ Parent[u] = t /\ u \notin complete'
    BY <1>1, <1>2, <1>3, <1>4 DEF World, Shapes, Family
  <2>3. ASSUME NEW t \in exists' \ {Root}
        PROVE  t \in complete' \/ t \in Range(children'[Parent[t]])
    <3>1. CASE t = s
      BY <1>2, <1>3, <1>4, <3>1
    <3>2. CASE t # s
      <4>1. t \in exists \ {Root} /\ Parent[t] \in Scopes
        BY <1>1, <2>3, <3>2, TreeAssumption DEF World, Shapes
      <4> QED BY <1>1, <1>3, <1>4, <4>1 DEF World, Family
    <3> QED BY <3>1, <3>2
  <2> QED BY <2>1, <2>2, <2>3 DEF Family
<1>7. Stable
  BY <1>1, <1>2, <1>4 DEF World, Shapes, Stable, Still, Running
<1>8. Resources'
  BY <1>1 DEF World, Resources, Running
<1>9. Emptied'
  <2>1. ASSUME NEW t \in complete
        PROVE  Still(t)' /\ children'[t] = children[t] /\ disposers'[t] = disposers[t]
    <3>1. t \in Scopes /\ t # r
      BY <1>1, <1>2 DEF World, Shapes
    <3> QED BY <1>1, <1>4, <3>1 DEF World, Emptied, Still, Running
  <2> QED BY <1>1, <2>1 DEF World, Emptied
<1> QED BY <1>1, <1>5, <1>6, <1>7, <1>8, <1>9, StacksKept DEF World

-----------------------------------------------------------------------------
(* Steps of closers. *)

LEMMA TopFrame ==
  ASSUME Stacks, NEW c \in Closers, closer[c] # <<>>
  PROVE  Top(c) \in Frames /\ FrameOK(Top(c)) /\ Covered(Top(c), {})
<1>1. PICK stack \in Seq(Frames) : stack = closer[c]
  BY DEF Stacks
<1>2. stack[1] = Top(c) /\ Top(c) \in Frames /\ 1 \in 1..Len(stack)
  BY <1>1, HeadTailProperties, LenProperties DEF Top
<1>3. PICK i \in 1..Len(stack) : i = 1
  BY <1>2
<1>4. FrameOK(stack[i]) /\ Covered(stack[i], Above(stack, i)) /\ Above(stack, i) = {}
  BY <1>1, <1>3 DEF Stacks, StackOK, Above
<1> QED BY <1>2, <1>3, <1>4

LEMMA TopOfGoTo ==
  ASSUME Stacks, NEW c \in Closers, closer[c] # <<>>, NEW f \in Frames, GoTo(c, f)
  PROVE  Top(c)' = f
<1>1. PICK rest \in Seq(Frames) : rest = Tail(closer[c])
  BY HeadTailProperties DEF Stacks
<1>2. PICK stack : stack = <<f>> \o rest
  OBVIOUS
<1>3. Head(stack) = f
  BY <1>2, OnTop
<1>4. closer'[c] = stack
  BY <1>1, <1>2 DEF GoTo, Stacks
<1> QED BY <1>3, <1>4 DEF Top

\* After an aclose returns, its caller goes on with its next child.
LEMMA TopOfReturn ==
  ASSUME Stacks, NEW c \in Closers, closer[c] # <<>>, NEW failed \in BOOLEAN,
         Return(c, failed), closer'[c] # <<>>
  PROVE  Top(c)'.pc = "children"
<1>1. PICK old \in Seq(Frames) : old = closer[c] /\ StackOK(old)
  BY DEF Stacks
<1>2. PICK rest \in Seq(Frames) : rest = Tail(old)
  BY <1>1, HeadTailProperties
<1>3. rest # <<>>
  BY <1>1, <1>2 DEF Return, Stacks
<1>4. PICK more \in Seq(Frames) : more = Tail(rest)
  BY <1>3, HeadTailProperties
<1>5. PICK next \in Frames : next = Head(rest) /\ next.pc = "children"
  <2>1. /\ Len(old) = Len(rest) + 1 /\ Len(rest) \in Nat /\ Len(rest) # 0
        /\ Head(rest) = rest[1] /\ Head(rest) \in Frames
        /\ \A i \in 1..Len(rest) : old[i + 1] = rest[i]
    BY <1>1, <1>2, <1>3, HeadTailProperties, LenProperties, EmptySeq
  <2>2. 1 \in 1..Len(rest) /\ 2 \in 1..Len(old) /\ 1 + 1 = 2
    BY <2>1
  <2>3. old[2] = Head(rest)
    BY <2>1, <2>2
  <2>4. PICK i \in 1..Len(old) : i = 2
    BY <2>2
  <2>5. old[i].pc = "children"
    BY <1>1, <2>4 DEF StackOK
  <2> QED BY <2>1, <2>3, <2>4, <2>5
<1>6. PICK f : f = [next EXCEPT !.failed = @ \/ failed]
  OBVIOUS
<1>10. f \in Frames /\ f.pc = "children"
  BY <1>5, <1>6 DEF Frames
<1>7. PICK stack : stack = <<f>> \o more
  OBVIOUS
<1>8. Head(stack) = f
  BY <1>10, <1>7, OnTop
<1>9. closer'[c] = stack
  BY <1>1, <1>2, <1>3, <1>4, <1>5, <1>6, <1>7 DEF Return, Stacks
<1> QED BY <1>8, <1>9, <1>10 DEF Top

LEMMA CloseIsGood ==
  ASSUME World, Stacks, NEW c \in Closers, NEW s \in Scopes, Close(c, s)
  PROVE  World' /\ Stacks'
<1>1. UNCHANGED worldVars /\ s \in exists
      /\ closer' = [closer EXCEPT ![c] = <<[NoFrame EXCEPT !.scope = s]>>]
  BY DEF Close, worldVars, treeVars, resolveVars, disposeVars
<1>2. World' /\ Stable
  BY <1>1, WorldSame
<1>3. PICK f : f = [NoFrame EXCEPT !.scope = s]
  OBVIOUS
<1>7. f.scope = s /\ f.pc = "enter" /\ f \in Frames
  <2>1. PICK none : none \in Seq(Item) /\ none = <<>>
    BY EmptySeq
  <2> QED BY <1>3, <2>1 DEF NoFrame, Frames
<1>4. FrameOK(f)' /\ Covered(f, {})'
  BY <1>1, <1>7 DEF FrameOK, Covered, worldVars
<1>5. PICK stack : stack = <<f>>
  OBVIOUS
<1>8. stack \in Seq(Frames)
  BY <1>5, <1>7
<1>6. StackOK(stack)'
  <2>1. Len(stack) = 1 /\ stack[1] = f /\ \A i \in 1..Len(stack) : i = 1
    BY <1>5
  <2> QED BY <1>4, <2>1 DEF StackOK, Above
<1> QED BY <1>1, <1>2, <1>3, <1>5, <1>6, <1>8, StacksStep

LEMMA AlreadyCompleteIsGood ==
  ASSUME World, Stacks, NEW c \in Closers, AlreadyComplete(c)
  PROVE  World' /\ Stacks'
<1>1. UNCHANGED worldVars /\ closer[c] # <<>> /\ Top(c).scope \in complete /\ Return(c, FALSE)
  BY DEF AlreadyComplete, Runs, At, worldVars, treeVars, resolveVars, disposeVars
<1>2. World' /\ Stable
  BY <1>1, WorldSame
<1>3. \A s \in Scopes : Top(c).scope \notin Range(children'[s])
  BY <1>1 DEF World, Family, worldVars
<1> QED BY <1>1, <1>2, <1>3, ReturnStacks

\* The ways an aclose ends that fails.
LEMMA FailingIsGood ==
  ASSUME World, Stacks, NEW c \in Closers, UNCHANGED worldVars, closer[c] # <<>>, Return(c, TRUE)
  PROVE  World' /\ Stacks'
BY WorldSame, ReturnStacks

\* The ways aclose reaches the children, or waits for its providers.
LEMMA EnteredIsGood ==
  ASSUME World, Stacks, NEW c \in Closers, closer[c] # <<>>,
         UNCHANGED <<exists, complete, children, instances, disposers, task, made, gone>>,
         closed' \in {closed, closed \cup {Top(c).scope}}, Top(c).scope \in closed',
         \/ /\ TasksOf(Top(c).scope) = {}
            /\ GoTo(c, [Top(c) EXCEPT !.pc = "children", !.todo = children[Top(c).scope]])
         \/ GoTo(c, [Top(c) EXCEPT !.pc = "gather"])
         \/ GoTo(c, [Top(c) EXCEPT !.pc = "abort"])
  PROVE  World' /\ Stacks'
<1>1. PICK old \in Frames : old = Top(c)
  BY TopFrame
<1>2. old.scope \in exists /\ old.scope \in Scopes /\ old.scope \in closed'
  BY <1>1, TopFrame DEF FrameOK, Frames
<1>3. World'
  <2>1. Shapes' /\ Family'
    BY <1>1, <1>2 DEF World, Shapes, Family
  <2>2. Resources' /\ Emptied'
    BY DEF World, Resources, Emptied, Still, Running
  <2> QED BY <2>1, <2>2 DEF World
<1>4. Stable
  BY DEF Stable, Still, Running
<1>5. CASE /\ TasksOf(Top(c).scope) = {}
           /\ GoTo(c, [Top(c) EXCEPT !.pc = "children", !.todo = children[Top(c).scope]])
  <2>1. PICK f : f = [old EXCEPT !.pc = "children", !.todo = children[old.scope]]
    OBVIOUS
  <2>2. /\ f \in Frames /\ f.scope = old.scope /\ f.pc = "children"
        /\ f.todo = children[old.scope]
    <3>1. children[old.scope] \in Seq(Scopes)
      BY <1>2 DEF World, Shapes
    <3>2. children[old.scope] \in Seq(Item)
      BY <3>1 DEF Item
    <3> QED BY <1>1, <2>1, <3>2 DEF Frames
  <2>3. FrameOK(f)' /\ Covered(f, {})'
    <3>1. Still(old.scope)'
      BY <1>1, <1>2, <1>5 DEF Still, TasksOf, Running, Provider
    <3>2. Range(children[old.scope]) \subseteq exists
      BY <1>2 DEF World, Family
    <3> QED BY <1>2, <2>2, <3>1, <3>2 DEF FrameOK, Covered
  <2> QED BY <1>1, <1>3, <1>4, <1>5, <2>1, <2>2, <2>3, GoToStacks
<1>6. ASSUME NEW pc \in {"gather", "abort"}, GoTo(c, [Top(c) EXCEPT !.pc = pc])
      PROVE  Stacks'
  <2>1. PICK f : f = [old EXCEPT !.pc = pc]
    OBVIOUS
  <2>2. f \in Frames /\ f.scope = old.scope /\ f.pc = pc
    BY <1>1, <2>1 DEF Frames
  <2>3. FrameOK(f)' /\ Covered(f, {})'
    BY <1>2, <1>6, <2>2 DEF FrameOK, Covered
  <2> QED BY <1>1, <1>3, <1>4, <1>6, <2>1, <2>2, <2>3, GoToStacks
<1> QED BY <1>3, <1>5, <1>6

LEMMA EnterIsGood ==
  ASSUME World, Stacks, NEW c \in Closers, Enter(c)
  PROVE  World' /\ Stacks'
<1>1. /\ UNCHANGED <<exists, complete, children, instances, disposers, task, made, gone>>
      /\ closer[c] # <<>> /\ closed' = closed \cup {Top(c).scope}
  BY DEF Enter, Marked, Runs, At, disposeVars
<1>2. \/ /\ TasksOf(Top(c).scope) = {}
         /\ GoTo(c, [Top(c) EXCEPT !.pc = "children", !.todo = children[Top(c).scope]])
      \/ GoTo(c, [Top(c) EXCEPT !.pc = "gather"])
  BY DEF Enter
<1> QED BY <1>1, <1>2, EnteredIsGood

LEMMA GatherIsGood ==
  ASSUME World, Stacks, NEW c \in Closers, GatherDone(c) \/ GatherCancelled(c)
  PROVE  World' /\ Stacks'
<1>1. /\ UNCHANGED <<exists, closed, complete, children, instances, disposers, task, made, gone>>
      /\ closer[c] # <<>> /\ Top(c).pc = "gather"
  BY DEF GatherDone, GatherCancelled, WakesUp, At, treeVars, resolveVars, disposeVars
<1>2. Top(c).scope \in closed
  BY <1>1, TopFrame DEF FrameOK
<1>3. \/ /\ TasksOf(Top(c).scope) = {}
         /\ GoTo(c, [Top(c) EXCEPT !.pc = "children", !.todo = children[Top(c).scope]])
      \/ GoTo(c, [Top(c) EXCEPT !.pc = "abort"])
  BY DEF GatherDone, GatherCancelled, Gathered
<1> QED BY <1>1, <1>2, <1>3, EnteredIsGood

LEMMA CloseChildIsGood ==
  ASSUME World, Stacks, NEW c \in Closers, CloseChild(c)
  PROVE  World' /\ Stacks'
<1>1. /\ UNCHANGED worldVars /\ closer[c] # <<>> /\ Top(c).pc = "children" /\ Top(c).todo # <<>>
  BY DEF CloseChild, Runs, At, worldVars, treeVars, resolveVars, disposeVars
<1>2. World' /\ Stable
  BY <1>1, WorldSame
<1>3. PICK old \in Seq(Frames) : old = closer[c]
  BY DEF Stacks
<1>4. PICK rest \in Seq(Frames) : rest = Tail(old)
  BY <1>1, <1>3, HeadTailProperties
<1>5. PICK f \in Frames : f = Top(c) /\ FrameOK(f) /\ Covered(f, {})
  BY <1>1, TopFrame
<1>6. PICK g : g = [NoFrame EXCEPT !.scope = Last(f.todo)]
  OBVIOUS
<1>7. PICK h : h = [f EXCEPT !.todo = Front(@)]
  OBVIOUS
<1>8. /\ Range(f.todo) \subseteq exists
      /\ Front(f.todo) \in Seq(Item) /\ Last(f.todo) \in Range(f.todo)
      /\ Range(f.todo) = Range(Front(f.todo)) \cup {Last(f.todo)}
  BY <1>1, <1>5, FrontAndLast DEF FrameOK, Frames
<1>9. g \in Frames /\ g.scope = Last(f.todo) /\ g.pc = "enter"
  <2>1. Last(f.todo) \in Scopes
    BY <1>8 DEF World, Shapes
  <2>2. PICK none : none \in Seq(Item) /\ none = <<>>
    BY EmptySeq
  <2> QED BY <1>6, <2>1, <2>2 DEF NoFrame, Frames
<1>10. /\ h \in Frames /\ h.scope = f.scope /\ h.pc = "children" /\ h.todo = Front(f.todo)
       /\ h.failed = f.failed
  BY <1>1, <1>5, <1>7, <1>8 DEF Frames
<1>11. FrameOK(g)' /\ Covered(g, {})'
  BY <1>1, <1>8, <1>9 DEF FrameOK, Covered, worldVars
<1>12. FrameOK(h)' /\ Covered(h, {g.scope})'
  <2>1. FrameOK(h)
    BY <1>1, <1>5, <1>8, <1>10 DEF FrameOK
  <2>2. Covered(h, {g.scope})
    BY <1>1, <1>5, <1>8, <1>9, <1>10 DEF Covered
  <2> QED BY <1>2, <2>1, <2>2, StableFrames DEF World
<1>13. PICK low : low = <<h>> \o rest
  OBVIOUS
<1>14. /\ low \in Seq(Frames) /\ Len(low) = Len(rest) + 1 /\ low[1] = h
       /\ \A i \in 1..Len(rest) : low[i + 1] = rest[i]
  BY <1>10, <1>13, OnTop
<1>15. PICK stack : stack = <<g>> \o low
  OBVIOUS
<1>16. /\ stack \in Seq(Frames) /\ Len(stack) = Len(low) + 1 /\ stack[1] = g
       /\ \A i \in 1..Len(low) : stack[i + 1] = low[i]
  BY <1>9, <1>14, <1>15, OnTop
<1>17. /\ old[1] = f /\ Len(old) = Len(rest) + 1 /\ Len(rest) \in Nat
       /\ \A i \in 1..Len(rest) : old[i + 1] = rest[i]
  BY <1>1, <1>3, <1>4, <1>5, HeadTailProperties, LenProperties DEF Top
<1>18. StackOK(old)'
  BY <1>2, <1>3, StableFrames DEF World, Stacks
<1>19. StackOK(stack)'
  <2>1. SUFFICES ASSUME NEW i \in 1..Len(stack)
                 PROVE  /\ FrameOK(stack[i])' /\ Covered(stack[i], Above(stack, i))'
                        /\ i # 1 => stack[i].pc = "children"
    BY DEF StackOK
  <2>2. CASE i = 1
    BY <1>11, <1>16, <2>2 DEF Above
  <2>3. CASE i = 2
    <3>1. stack[i] = h /\ stack[i - 1] = g
      <4>1. 1 \in 1..Len(low) /\ 1 + 1 = i /\ i - 1 = 1
        BY <1>14, <1>17, <2>3
      <4> QED BY <1>14, <1>16, <4>1
    <3>2. Above(stack, i) = {g.scope}
      BY <2>3, <3>1 DEF Above
    <3> QED BY <1>10, <1>12, <3>1, <3>2
  <2>4. CASE i # 1 /\ i # 2
    <3>1. /\ i - 1 \in 1..Len(old) /\ i - 1 # 1 /\ i - 1 \in 1..Len(low) /\ i - 1 + 1 = i
          /\ i - 2 \in 1..Len(rest) /\ i - 2 + 1 = i - 1 /\ i - 2 \in 1..Len(low)
      BY <1>14, <1>16, <1>17, <2>4
    <3>2. stack[i] = old[i - 1]
      BY <1>14, <1>16, <1>17, <3>1
    <3>3. stack[i - 1] = low[i - 2]
      BY <1>16, <3>1
    <3>4. low[i - 2].scope = old[i - 2].scope
      <4>1. CASE i = 3
        BY <1>10, <1>14, <1>17, <4>1
      <4>2. CASE i # 3
        <5>1. i - 3 \in 1..Len(rest) /\ i - 3 + 1 = i - 2
          BY <1>14, <1>16, <1>17, <2>4, <4>2
        <5> QED BY <1>14, <1>17, <5>1
      <4> QED BY <4>1, <4>2
    <3>5. Above(stack, i) = Above(old, i - 1)
      <4>1. i - 1 - 1 = i - 2
        BY <3>1
      <4> QED BY <2>4, <3>1, <3>3, <3>4, <4>1 DEF Above
    <3>6. FrameOK(old[i - 1])' /\ Covered(old[i - 1], Above(old, i - 1))'
            /\ old[i - 1].pc = "children"
      BY <1>18, <3>1 DEF StackOK
    <3> QED BY <3>2, <3>5, <3>6
  <2> QED BY <2>2, <2>3, <2>4
<1>20. closer' = [closer EXCEPT ![c] = stack]
  <2>1. <<g, h>> \o rest = <<g>> \o (<<h>> \o rest)
    <3>1. /\ <<g, h>> \o rest \in Seq(Frames) /\ Len(<<g, h>> \o rest) = Len(rest) + 2
          /\ (<<g, h>> \o rest)[1] = g /\ (<<g, h>> \o rest)[2] = h
          /\ \A i \in 1..Len(rest) : (<<g, h>> \o rest)[i + 2] = rest[i]
      BY <1>9, <1>10
    <3>2. PICK both \in Seq(Frames) : both = <<g, h>> \o rest
      BY <3>1
    <3>3. Len(both) = Len(stack)
      BY <1>14, <1>16, <1>17, <3>1, <3>2
    <3>4. ASSUME NEW i \in 1..Len(both) PROVE both[i] = stack[i]
      <4>1. CASE i = 1
        BY <1>16, <3>1, <3>2, <4>1
      <4>2. CASE i = 2
        BY <1>14, <1>16, <1>17, <3>1, <3>2, <4>2
      <4>3. CASE i # 1 /\ i # 2
        <5>1. i - 2 \in 1..Len(rest) /\ i - 2 + 2 = i /\ i - 2 + 1 = i - 1
                /\ i - 1 \in 1..Len(low) /\ i - 1 + 1 = i
          BY <1>14, <1>17, <3>1, <3>2, <4>3
        <5> QED BY <1>14, <1>16, <3>1, <3>2, <5>1
      <4> QED BY <4>1, <4>2, <4>3
    <3>5. both = stack
      BY <1>16, <3>3, <3>4, SeqEqual
    <3> QED BY <1>13, <1>15, <3>2, <3>5
  <2> QED BY <1>3, <1>4, <1>5, <1>6, <1>7, <1>13, <1>15, <2>1 DEF CloseChild
<1> QED BY <1>2, <1>16, <1>19, <1>20, StacksStep

LEMMA ChildrenDoneIsGood ==
  ASSUME World, Stacks, NEW c \in Closers, ChildrenDone(c)
  PROVE  World' /\ Stacks'
<1>1. UNCHANGED worldVars /\ closer[c] # <<>> /\ Top(c).pc = "children" /\ Top(c).todo = <<>>
  BY DEF ChildrenDone, Runs, At, worldVars, treeVars, resolveVars, disposeVars
<1>2. CASE Top(c).failed
  BY <1>1, <1>2, FailingIsGood DEF ChildrenDone, ChildrenFailed
<1>3. CASE ~Top(c).failed
  <2>1. PICK old \in Frames : old = Top(c) /\ FrameOK(old) /\ Covered(old, {})
    BY <1>1, TopFrame
  <2>2. PICK f : f = [old EXCEPT !.pc = "dispose", !.todo = disposers[old.scope]]
    OBVIOUS
  <2>3. /\ f \in Frames /\ f.scope = old.scope /\ f.pc = "dispose"
        /\ f.todo = disposers[old.scope]
    <3>1. disposers[old.scope] \in Seq(Keys \cup Things)
      BY <2>1 DEF World, Shapes, Frames
    <3>2. disposers[old.scope] \in Seq(Item)
      BY <3>1 DEF Item
    <3> QED BY <2>1, <2>2, <3>2 DEF Frames
  <2>4. Range(children[old.scope]) = {}
    BY <1>1, <1>3, <2>1, EmptyRange DEF Covered, Frames
  <2>5. FrameOK(f) /\ Covered(f, {})
    BY <1>1, <2>1, <2>3, <2>4 DEF FrameOK, Covered, World, Resources, Frames
  <2>6. World' /\ Stable /\ FrameOK(f)' /\ Covered(f, {})'
    BY <1>1, <2>5, WorldSame, StableFrames DEF World
  <2> QED BY <1>1, <1>3, <2>1, <2>2, <2>3, <2>6, GoToStacks DEF ChildrenDone, ChildrenFailed
<1> QED BY <1>2, <1>3

LEMMA SkipDisposerIsGood ==
  ASSUME World, Stacks, NEW c \in Closers, SkipDisposer(c)
  PROVE  World' /\ Stacks'
<1>1. /\ UNCHANGED worldVars /\ closer[c] # <<>> /\ Top(c).pc = "dispose" /\ Top(c).todo # <<>>
      /\ ~StillListed(Top(c).scope, Due(Top(c).todo))
      /\ GoTo(c, [Top(c) EXCEPT !.todo = RemoveFirst(@, Due(@))])
  BY DEF SkipDisposer, Runs, At, worldVars, treeVars, resolveVars, disposeVars
<1>2. PICK old \in Frames : old = Top(c) /\ FrameOK(old)
  BY <1>1, TopFrame
<1>3. PICK f : f = [old EXCEPT !.todo = RemoveFirst(@, Due(@))]
  OBVIOUS
<1>4. /\ RemoveFirst(old.todo, Due(old.todo)) \in Seq(Item)
      /\ IsInjective(RemoveFirst(old.todo, Due(old.todo)))
      /\ Range(RemoveFirst(old.todo, Due(old.todo))) = Range(old.todo) \ {Due(old.todo)}
  BY <1>1, <1>2, RemoveRange DEF FrameOK, Frames
<1>5. /\ f \in Frames /\ f.scope = old.scope /\ f.pc = "dispose" /\ f.failed = old.failed
      /\ f.todo = RemoveFirst(old.todo, Due(old.todo))
  BY <1>1, <1>2, <1>3, <1>4 DEF Frames
<1>6. Due(old.todo) \notin Range(disposers[old.scope])
  <2>1. disposers[old.scope] \in Seq(Keys \cup Things)
    BY <1>2 DEF World, Shapes, Frames
  <2> QED BY <1>1, <1>2, <2>1, InList DEF StillListed
<1>7. FrameOK(f) /\ Covered(f, {})
  BY <1>1, <1>2, <1>4, <1>5, <1>6 DEF FrameOK, Covered
<1>8. World' /\ Stable /\ FrameOK(f)' /\ Covered(f, {})'
  BY <1>1, <1>7, WorldSame, StableFrames DEF World
<1> QED BY <1>1, <1>2, <1>3, <1>5, <1>8, GoToStacks

LEMMA CallDisposerIsGood ==
  ASSUME World, Stacks, NEW c \in Closers, CallDisposer(c)
  PROVE  World' /\ Stacks'
<1>1. /\ UNCHANGED worldVars /\ closer[c] # <<>> /\ Top(c).pc = "dispose" /\ Top(c).todo # <<>>
      /\ StillListed(Top(c).scope, Due(Top(c).todo))
      /\ GoTo(c, [Top(c) EXCEPT !.pc = "await"])
  BY DEF CallDisposer, Runs, At, worldVars, treeVars, resolveVars, disposeVars
<1>2. PICK old \in Frames : old = Top(c) /\ FrameOK(old)
  BY <1>1, TopFrame
<1>3. PICK f : f = [old EXCEPT !.pc = "await"]
  OBVIOUS
<1>4. /\ f \in Frames /\ f.scope = old.scope /\ f.pc = "await" /\ f.failed = old.failed
      /\ f.todo = old.todo
  BY <1>2, <1>3 DEF Frames
<1>5. Last(old.todo) \in Range(disposers[old.scope])
  <2>1. disposers[old.scope] \in Seq(Keys \cup Things)
    BY <1>2 DEF World, Shapes, Frames
  <2> QED BY <1>1, <1>2, <2>1, InList DEF StillListed, Due
<1>6. FrameOK(f) /\ Covered(f, {})
  BY <1>1, <1>2, <1>4, <1>5 DEF FrameOK, Covered
<1>7. World' /\ Stable /\ FrameOK(f)' /\ Covered(f, {})'
  BY <1>1, <1>6, WorldSame, StableFrames DEF World
<1> QED BY <1>1, <1>2, <1>3, <1>4, <1>7, GoToStacks

LEMMA DisposerEndsIsGood ==
  ASSUME World, Stacks, NEW c \in Closers, NEW success \in BOOLEAN, DisposerEnds(c, success)
  PROVE  World' /\ Stacks'
<1>1. /\ UNCHANGED <<exists, closed, complete, children, instances, task, made>>
      /\ closer[c] # <<>> /\ Top(c).pc = "await"
      /\ GoTo(c, [Top(c) EXCEPT !.pc = "dispose", !.todo = RemoveFirst(@, Due(Top(c).todo)),
                                !.failed = @ \/ ~success])
  BY DEF DisposerEnds, WakesUp, At, treeVars, resolveVars
<1>2. PICK old \in Frames : old = Top(c) /\ FrameOK(old)
  BY <1>1, TopFrame
<1>9. PICK x : x = Due(old.todo)
  OBVIOUS
<1>10. PICK s \in Scopes : s = old.scope
  BY <1>2 DEF Frames
<1>3. s = old.scope /\ x = Due(old.todo)
  BY <1>9, <1>10
<1>4. PICK f : f = [old EXCEPT !.pc = "dispose", !.todo = RemoveFirst(@, x),
                               !.failed = @ \/ ~success]
  OBVIOUS
<1>5. /\ RemoveFirst(old.todo, x) \in Seq(Item) /\ IsInjective(RemoveFirst(old.todo, x))
      /\ Range(RemoveFirst(old.todo, x)) = Range(old.todo) \ {x}
  BY <1>1, <1>2, RemoveRange DEF FrameOK, Frames
<1>6. /\ f \in Frames /\ f.scope = s /\ f.pc = "dispose" /\ f.todo = RemoveFirst(old.todo, x)
      /\ f.failed <=> old.failed \/ ~success
  BY <1>2, <1>3, <1>4, <1>5 DEF Frames
<1>7. CASE ~success
  <2>1. UNCHANGED worldVars
    BY <1>1, <1>7 DEF DisposerEnds, worldVars
  <2>2. FrameOK(f) /\ Covered(f, {})
    BY <1>1, <1>2, <1>3, <1>5, <1>6, <1>7 DEF FrameOK, Covered
  <2>3. World' /\ Stable /\ FrameOK(f)' /\ Covered(f, {})'
    BY <2>1, <2>2, WorldSame, StableFrames DEF World
  <2> QED BY <1>1, <1>2, <1>3, <1>4, <1>6, <2>3, GoToStacks
<1>8. CASE success
  <2>1. /\ disposers' = [disposers EXCEPT ![s] = RemoveFirst(@, x)]
        /\ gone' = gone \cup {<<s, x>>}
    BY <1>2, <1>3, <1>8 DEF DisposerEnds
  <2>2. disposers[s] \in Seq(Keys \cup Things) /\ IsInjective(disposers[s])
    BY DEF World, Shapes, Resources
  <2>3. /\ RemoveFirst(disposers[s], x) \in Seq(Keys \cup Things)
        /\ IsInjective(RemoveFirst(disposers[s], x))
        /\ Range(RemoveFirst(disposers[s], x)) = Range(disposers[s]) \ {x}
    BY <2>2, RemoveRange
  <2>4. /\ disposers' \in [Scopes -> Seq(Keys \cup Things)]
        /\ disposers'[s] = RemoveFirst(disposers[s], x)
        /\ \A t \in Scopes : t # s => disposers'[t] = disposers[t]
    BY <2>1, <2>3 DEF World, Shapes
  <2>5. x \in Range(disposers[s]) \/ <<s, x>> \in gone
    BY <1>1, <1>2, <1>3 DEF FrameOK, Due
  <2>6. Shapes' /\ Family'
    BY <1>1, <2>4 DEF World, Shapes, Family
  <2>7. Resources'
    <3>1. ASSUME NEW t \in Scopes PROVE IsInjective(disposers'[t])
      BY <2>3, <2>4 DEF World, Resources
    <3>2. ASSUME NEW t \in Scopes, NEW y \in Range(disposers'[t])
          PROVE  <<t, y>> \notin gone' /\ (y \in Keys => <<t, y>> \in made')
      BY <1>1, <2>1, <2>3, <2>4 DEF World, Resources
    <3>3. ASSUME NEW t \in Scopes, NEW k \in Keys, <<t, k>> \in gone' PROVE <<t, k>> \in made'
      BY <1>1, <2>1, <2>5, <3>3 DEF World, Resources
    <3>4. ASSUME NEW t \in Scopes, NEW k \in Keys, <<t, k>> \in made'
          PROVE  /\ <<t, k>> \in gone' \/ k \in Range(disposers'[t])
                 /\ t \in complete' \/ k \in instances'[t]
                 /\ ~Running(<<t, k>>)'
      BY <1>1, <2>1, <2>3, <2>4, <3>4 DEF World, Resources, Running
    <3> QED BY <3>1, <3>2, <3>3, <3>4 DEF Resources
  <2>8. Emptied'
    <3>1. ASSUME NEW t \in complete
          PROVE  Still(t)' /\ children'[t] = children[t]
                 /\ Range(disposers'[t]) \subseteq Range(disposers[t])
      <4>1. t \in Scopes
        BY DEF World, Shapes
      <4> QED BY <1>1, <2>3, <2>4, <4>1 DEF World, Emptied, Still, Running
    <3> QED BY <1>1, <3>1 DEF World, Emptied
  <2>9. Stable
    <3>1. ASSUME NEW t \in Scopes, NEW y \in Range(disposers[t])
          PROVE  y \in Range(disposers'[t]) \/ <<t, y>> \in gone'
      BY <2>1, <2>3, <2>4
    <3>2. ASSUME NEW t \in closed PROVE Range(disposers'[t]) \subseteq Range(disposers[t])
      <4>1. t \in Scopes
        BY DEF World, Shapes
      <4> QED BY <2>3, <2>4, <4>1
    <3> QED BY <1>1, <2>1, <3>1, <3>2 DEF Stable, Still, Running
  <2>10. FrameOK(f)' /\ Covered(f, {})'
    <3>1. s \in exists /\ s \in closed /\ Still(s)' /\ Range(children'[s]) = {}
      BY <1>1, <1>2, <1>3 DEF FrameOK, Still, Running
    <3>2. f.failed \/ Range(disposers'[s]) \subseteq Range(f.todo)
      BY <1>1, <1>2, <1>3, <1>5, <1>6, <2>3, <2>4 DEF FrameOK
    <3> QED BY <1>1, <1>5, <1>6, <3>1, <3>2 DEF FrameOK, Covered
  <2>11. Stacks'
    BY <1>1, <1>2, <1>3, <1>4, <1>6, <2>9, <2>10, GoToStacks
  <2> QED BY <2>6, <2>7, <2>8, <2>11 DEF World
<1> QED BY <1>7, <1>8

LEMMA CompleteIsGood ==
  ASSUME World, Stacks, NEW c \in Closers, Complete(c)
  PROVE  World' /\ Stacks'
<1>1. /\ UNCHANGED <<exists, closed, task, made, disposers, gone>>
      /\ closer[c] # <<>> /\ Top(c).pc = "dispose" /\ Top(c).todo = <<>> /\ ~Top(c).failed
      /\ Return(c, FALSE)
  BY DEF Complete, Runs, At, disposeVars
<1>2. PICK old \in Frames : old = Top(c) /\ FrameOK(old)
  BY <1>1, TopFrame
<1>3. PICK s \in Scopes : s = old.scope
  BY <1>2 DEF Frames
<1>4. /\ s \in exists /\ s \in closed /\ Still(s) /\ Range(children[s]) = {}
      /\ Range(disposers[s]) = {}
  <2>1. Range(old.todo) = {}
    BY <1>1, <1>2, EmptyRange DEF Frames
  <2> QED BY <1>1, <1>2, <1>3, <2>1 DEF FrameOK
<1>5. /\ complete' = complete \cup {s} /\ instances' = [instances EXCEPT ![s] = {}]
      /\ s = Root => children' = children
      /\ s # Root => children' = [children EXCEPT ![Parent[s]] = RemoveFirst(@, s)]
  BY <1>2, <1>3 DEF Complete
<1>6. ASSUME NEW t \in Scopes
      PROVE  /\ children'[t] \in Seq(Scopes) /\ IsInjective(children'[t])
             /\ Range(children'[t]) = Range(children[t]) \ {s}
  <2>1. children[t] \in Seq(Scopes) /\ IsInjective(children[t])
    BY DEF World, Shapes, Family
  <2>2. /\ RemoveFirst(children[t], s) \in Seq(Scopes)
        /\ IsInjective(RemoveFirst(children[t], s))
        /\ Range(RemoveFirst(children[t], s)) = Range(children[t]) \ {s}
    BY <2>1, RemoveRange
  <2>3. CASE s # Root /\ t = Parent[s]
    BY <1>5, <2>2, <2>3 DEF World, Shapes
  <2>4. CASE ~(s # Root /\ t = Parent[s])
    <3>1. children'[t] = children[t]
      BY <1>5, <2>4 DEF World, Shapes
    <3>2. s \notin Range(children[t])
      BY <2>4 DEF World, Family
    <3> QED BY <2>1, <3>1, <3>2
  <2> QED BY <2>3, <2>4
<1>7. Shapes'
  <2>1. DOMAIN children' = Scopes
    BY <1>5 DEF World, Shapes
  <2>2. children' \in [Scopes -> Seq(Scopes)]
    <3>1. children' = [t \in Scopes |-> children'[t]]
      BY <1>5, <2>1 DEF World, Shapes
    <3> QED BY <1>6, <3>1
  <2>3. instances' \in [Scopes -> SUBSET Keys]
    BY <1>5 DEF World, Shapes
  <2> QED BY <1>1, <1>4, <1>5, <2>2, <2>3 DEF World, Shapes
<1>8. Family'
  <2>1. ASSUME NEW t \in Scopes, NEW u \in Range(children'[t])
        PROVE  u \in exists' /\ u # Root /\ Parent[u] = t /\ u \notin complete'
    <3>1. u \in Range(children[t]) /\ u # s
      BY <1>6, <2>1
    <3> QED BY <1>1, <1>5, <3>1 DEF World, Family
  <2>2. ASSUME NEW t \in exists' \ {Root}
        PROVE  t \in complete' \/ t \in Range(children'[Parent[t]])
    <3>1. t \in exists /\ Parent[t] \in Scopes
      BY <1>1, <2>2, TreeAssumption DEF World, Shapes
    <3> QED BY <1>5, <1>6, <2>2, <3>1 DEF World, Family
  <2> QED BY <1>6, <2>1, <2>2 DEF Family
<1>9. Resources'
  <2>1. ASSUME NEW t \in Scopes, t # s PROVE instances'[t] = instances[t]
    BY <1>5, <2>1 DEF World, Shapes
  <2> QED BY <1>1, <1>5, <2>1 DEF World, Resources, Running
<1>10. Emptied'
  <2>1. ASSUME NEW t \in complete'
        PROVE  Still(t)' /\ Range(children'[t]) = {} /\ Range(disposers'[t]) = {}
    <3>1. t \in Scopes
      BY <1>7 DEF Shapes
    <3>2. Still(t) /\ Range(children[t]) = {} /\ Range(disposers[t]) = {}
      BY <1>4, <1>5, <2>1 DEF World, Emptied
    <3> QED BY <1>1, <1>6, <3>1, <3>2 DEF Still, Running
  <2> QED BY <2>1 DEF Emptied
<1>11. Stable
  <2>1. ASSUME NEW t \in closed PROVE Range(children'[t]) \subseteq Range(children[t])
    BY <1>6 DEF World, Shapes
  <2> QED BY <1>1, <2>1 DEF Stable, Still, Running
<1>12. \A t \in Scopes : Top(c).scope \notin Range(children'[t])
  BY <1>2, <1>3, <1>6
<1>13. Stacks'
  BY <1>1, <1>11, <1>12, ReturnStacks
<1> QED BY <1>7, <1>8, <1>9, <1>10, <1>13 DEF World

-----------------------------------------------------------------------------
(* The invariant holds. *)

LEMMA InitGood == ASSUME Init PROVE ScopeInv
<1>1. Range(<<>>) = {} /\ IsInjective(<<>>)
  <2>1. DOMAIN <<>> = {}
    OBVIOUS
  <2> QED BY <2>1 DEF Range, IsInjective
<1>2. Shapes
  <2>1. <<>> \in Seq(Scopes) /\ <<>> \in Seq(Keys \cup Things)
    BY EmptySeq
  <2> QED BY <2>1, TreeAssumption DEF Init, Shapes, NoTask
<1>3. Family /\ Resources /\ Emptied
  BY <1>1, TreeAssumption DEF Init, Family, Resources, Emptied
<1>4. Stacks
  <2>1. <<>> \in Seq(Frames) /\ Len(<<>>) = 0
    BY EmptySeq
  <2>2. StackOK(<<>>)
    BY DEF StackOK
  <2> QED BY <2>1, <2>2 DEF Init, Stacks
<1> QED BY <1>2, <1>3, <1>4 DEF ScopeInv, World

LEMMA NextKeeps ==
  ASSUME World, Stacks, [Next]_vars
  PROVE  World' /\ Stacks'
<1>1. ASSUME NEW s \in Scopes,
             Child(s) \/ (\E k \in Keys : Provide(s, k)) \/ (\E x \in Things : Own(s, x))
      PROVE  World' /\ Stacks'
  BY <1>1, ChildIsGood, ProvideIsGood, OwnIsGood
<1>2. ASSUME NEW p \in Provider, ProviderStep(p)
      PROVE  World' /\ Stacks'
  BY <1>2, UseNeedIsGood, ProviderReturnsIsGood, ProviderEndsIsGood DEF ProviderStep
<1>3. ASSUME NEW c \in Closers, CloserStep(c)
      PROVE  World' /\ Stacks'
  <2>1. ASSUME GatherRaises(c) \/ DisposersFailed(c) PROVE World' /\ Stacks'
    <3>1. UNCHANGED worldVars /\ closer[c] # <<>> /\ Return(c, TRUE)
      BY <2>1 DEF GatherRaises, DisposersFailed, Runs, WakesUp, At, worldVars, treeVars,
                  resolveVars, disposeVars
    <3> QED BY <3>1, FailingIsGood
  <2>2. ASSUME NEW success \in BOOLEAN, DisposerEnds(c, success) PROVE World' /\ Stacks'
    BY <2>2, DisposerEndsIsGood
  <2> QED BY <1>3, <2>1, <2>2, AlreadyCompleteIsGood, EnterIsGood, GatherIsGood, CloseChildIsGood,
             ChildrenDoneIsGood, SkipDisposerIsGood, CallDisposerIsGood, CompleteIsGood
          DEF CloserStep
<1>4. CASE UNCHANGED vars
  <2>1. UNCHANGED worldVars /\ UNCHANGED closer
    BY <1>4 DEF vars, worldVars
  <2> QED BY <2>1, WorldSame, StacksKept
<1>5. CASE Building
  BY <1>1, <1>5 DEF Building
<1>6. ASSUME NEW u \in Users, NEW k \in Keys, Use(u, k) PROVE World' /\ Stacks'
  BY <1>6, UseIsGood
<1>7. ASSUME NEW c \in Closers, (\E s \in Scopes : Close(c, s)) \/ GatherCancelled(c)
      PROVE  World' /\ Stacks'
  BY <1>7, CloseIsGood, GatherIsGood
<1> QED BY <1>2, <1>3, <1>4, <1>5, <1>6, <1>7 DEF Next

\* The bookkeeping of the scopes and the suspended calls of aclose fit together in every
\* state: a call that waits for something finds the scope still closed, its resources owned
\* or closed, and no child forgotten, whatever the other tasks did meanwhile.
THEOREM Invariance == Spec => []ScopeInv
<1>1. Init => ScopeInv
  BY InitGood
<1>2. ScopeInv /\ [Next]_vars => ScopeInv'
  BY NextKeeps DEF ScopeInv
<1> QED BY <1>1, <1>2, PTL DEF Spec

\* Of a provider that returned there is one instance, and it is never run again.
THEOREM OneInstanceHolds == Spec => []OneInstance
<1>1. ScopeInv => OneInstance
  BY DEF ScopeInv, World, Resources, OneInstance, Provider
<1> QED BY <1>1, Invariance, PTL

\* A scope whose cleanup completed has no running provider, no child and no open resource.
THEOREM DisposedWhenComplete == Spec => []CompleteMeansDisposed
<1>1. ScopeInv => CompleteMeansDisposed
  <2>1. SUFFICES ASSUME ScopeInv, NEW s \in complete
                 PROVE  /\ TasksOf(s) = {} /\ children[s] = <<>> /\ disposers[s] = <<>>
                        /\ \A p \in made : p[1] = s => p \in gone
    BY DEF CompleteMeansDisposed
  <2>2. s \in Scopes /\ Still(s) /\ Range(children[s]) = {} /\ Range(disposers[s]) = {}
    BY <2>1 DEF ScopeInv, World, Shapes, Emptied
  <2>3. TasksOf(s) = {}
    BY <2>2 DEF Still, TasksOf, Provider
  <2>4. children[s] = <<>> /\ disposers[s] = <<>>
    <3>1. children[s] \in Seq(Scopes) /\ disposers[s] \in Seq(Keys \cup Things)
      BY <2>1, <2>2 DEF ScopeInv, World, Shapes
    <3> QED BY <2>2, <3>1, EmptyRange
  <2>5. ASSUME NEW p \in made, p[1] = s PROVE p \in gone
    <3>1. PICK k \in Keys : p = <<s, k>>
      BY <2>1, <2>5 DEF ScopeInv, World, Shapes, Provider
    <3> QED BY <2>1, <2>2, <2>5, <3>1 DEF ScopeInv, World, Resources
  <2> QED BY <2>3, <2>4, <2>5
<1> QED BY <1>1, Invariance, PTL

\* A disposer that succeeded is not called again, by a retry or by another closer.
THEOREM ClosedOnce == Spec => NotClosedTwice
<1>1. ASSUME ScopeInv, [Next]_vars, NEW c \in Closers, Runs(c, "dispose"), At(c, "await")'
      PROVE  Awaits(c)' \notin gone
  <2>1. PICK old \in Frames : old = Top(c) /\ FrameOK(old) /\ old.pc = "dispose"
    BY <1>1, TopFrame DEF ScopeInv, Runs, At
  <2>2. closer[c] # <<>> /\ loop = c /\ loop # Nobody
    BY <1>1, TreeAssumption DEF Runs, At
  <2>3. CASE CallDisposer(c)
    <3>1. PICK f : f = [old EXCEPT !.pc = "await"]
      OBVIOUS
    <3>2. f \in Frames /\ f.scope = old.scope /\ f.todo = old.todo
      BY <2>1, <3>1 DEF Frames
    <3>3. Top(c)' = f
      BY <1>1, <2>1, <2>2, <2>3, <3>1, <3>2, TopOfGoTo DEF CallDisposer, ScopeInv
    <3>4. Due(old.todo) \in Range(disposers[old.scope])
      <4>1. disposers[old.scope] \in Seq(Keys \cup Things)
        BY <1>1, <2>1 DEF ScopeInv, World, Shapes, Frames
      <4> QED BY <2>1, <2>3, <4>1, InList DEF CallDisposer, StillListed
    <3>5. Awaits(c)' = <<old.scope, Due(old.todo)>>
      BY <3>2, <3>3 DEF Awaits, Due
    <3> QED BY <1>1, <2>1, <3>4, <3>5 DEF ScopeInv, World, Resources, Frames
  <2>4. CASE SkipDisposer(c)
    <3>1. PICK f : f = [old EXCEPT !.todo = RemoveFirst(@, Due(@))]
      OBVIOUS
    <3>2. RemoveFirst(old.todo, Due(old.todo)) \in Seq(Item)
      BY <2>1, RemoveRange DEF FrameOK, Frames
    <3>3. f \in Frames /\ f.pc = "dispose"
      BY <2>1, <3>1, <3>2 DEF Frames
    <3>4. Top(c)' = f
      BY <1>1, <2>1, <2>2, <2>4, <3>1, <3>3, TopOfGoTo DEF SkipDisposer, ScopeInv
    <3> QED BY <1>1, <3>3, <3>4 DEF At
  <2>5. CASE DisposersFailed(c) \/ Complete(c)
    <3>1. PICK failed \in BOOLEAN : Return(c, failed)
      BY <2>5 DEF DisposersFailed, Complete
    <3>2. Top(c)'.pc = "children"
      BY <1>1, <2>2, <3>1, TopOfReturn DEF At, ScopeInv
    <3> QED BY <1>1, <3>2 DEF At
  <2>6. CASE closer'[c] = closer[c]
    BY <1>1, <2>1, <2>6 DEF At, Top
  <2>7. \/ CallDisposer(c) \/ SkipDisposer(c) \/ DisposersFailed(c) \/ Complete(c)
        \/ closer'[c] = closer[c]
    <3>1. CASE UNCHANGED vars
      BY <3>1 DEF vars
    <3>2. ASSUME NEW d \in Closers, CloserStep(d)
          PROVE  d = c /\ (CallDisposer(c) \/ SkipDisposer(c) \/ DisposersFailed(c) \/ Complete(c))
      BY <2>1, <2>2, <3>2 DEF CloserStep, AlreadyComplete, Enter, GatherDone, GatherRaises,
         CloseChild, ChildrenDone, SkipDisposer, CallDisposer, DisposerEnds, DisposersFailed,
         Complete, Runs, WakesUp, At
    <3>3. ASSUME NEW s \in Scopes,
                 \/ Child(s) \/ (\E k \in Keys : Provide(s, k)) \/ (\E x \in Things : Own(s, x))
          PROVE  FALSE
      BY <2>2, <3>3 DEF Child, Provide, Own
    <3>4. ASSUME NEW d \in Closers, (\E s \in Scopes : Close(d, s)) \/ GatherCancelled(d)
          PROVE  FALSE
      BY <2>2, <3>4 DEF Close, GatherCancelled, WakesUp
    <3>5. ASSUME NEW p \in Provider, ProviderStep(p) PROVE FALSE
      BY <2>2, <3>5 DEF ProviderStep, UseNeed, Active, ProviderReturns, ProviderFails,
         ProviderCancelled
    <3>6. ASSUME NEW u \in Users, NEW k \in Keys, Use(u, k) PROVE FALSE
      BY <2>2, <3>6 DEF Use
    <3> QED BY <1>1, <3>1, <3>2, <3>3, <3>4, <3>5, <3>6 DEF Next, Building
  <2> QED BY <2>3, <2>4, <2>5, <2>6, <2>7
<1>2. ScopeInv /\ [Next]_vars
        => [\A c \in Closers : Runs(c, "dispose") /\ At(c, "await")' => Awaits(c)' \notin gone]_vars
  BY <1>1
<1> QED BY <1>2, Invariance, PTL DEF Spec, NotClosedTwice
-----------------------------------------------------------------------------
(* What is in sight of a scope. *)

LEMMA AncestorsGoUp ==
  ASSUME NEW s \in Scopes
  PROVE  /\ s \in Ancestors[s] /\ Ancestors[s] \subseteq Scopes /\ Upward(Ancestors[s])
         /\ \A S \in SUBSET Scopes : s \in S /\ Upward(S) => Ancestors[s] \subseteq S
<1>1. Ancestors[s] = {t \in Scopes : \A S \in SUBSET Scopes : s \in S /\ Upward(S) => t \in S}
  BY DEF Ancestors
<1>2. ASSUME NEW t \in Ancestors[s], t # Root PROVE Parent[t] \in Ancestors[s]
  <2>1. t \in Scopes /\ Parent[t] \in Scopes
    BY <1>1, <1>2, TreeAssumption
  <2>2. ASSUME NEW S \in SUBSET Scopes, s \in S, Upward(S) PROVE Parent[t] \in S
    BY <1>1, <1>2, <2>2 DEF Upward
  <2> QED BY <1>1, <2>1, <2>2
<1>3. Upward(Ancestors[s])
  BY <1>2 DEF Upward
<1> QED BY <1>1, <1>3

LEMMA AboveTheParent ==
  ASSUME NEW s \in Scopes, s # Root
  PROVE  Ancestors[s] \subseteq {s} \cup Ancestors[Parent[s]]
<1>1. PICK r \in Scopes : r = Parent[s]
  BY TreeAssumption
<1>2. r \in Ancestors[r] /\ Ancestors[r] \subseteq Scopes /\ Upward(Ancestors[r])
  BY AncestorsGoUp
<1>3. PICK S : S = {s} \cup Ancestors[r]
  OBVIOUS
<1>4. S \in SUBSET Scopes /\ s \in S /\ Upward(S)
  BY <1>1, <1>2, <1>3 DEF Upward
<1> QED BY <1>1, <1>3, <1>4, AncestorsGoUp

LEMMA AboveTheRoot == Ancestors[Root] = {Root}
<1>1. Root \in Scopes /\ {Root} \in SUBSET Scopes /\ Upward({Root})
  BY TreeAssumption DEF Upward
<1> QED BY <1>1, AncestorsGoUp

\* _find_provider_owner finds a provider when there is one on the way up.
LEMMA OwnerFound ==
  ASSUME NEW s \in Scopes, NEW k, ~Unavailable(s, k)
  PROVE  Owner(s, k) \in Ancestors[s] /\ k \in providers[Owner(s, k)]
<1> DEFINE O == Owners(s, k)
           S == {t \in Scopes : O \subseteq Ancestors[t]}
<1>1. O # {} /\ O \subseteq Ancestors[s]
  BY DEF Unavailable, Owners
<1>2. S \in SUBSET Scopes /\ s \in S
  BY <1>1
<1>3. \E t \in O : t \in S
  <2>1. SUFFICES ASSUME \A t \in O : t \notin S PROVE FALSE
    OBVIOUS
  <2>2. ASSUME NEW t \in S, t # Root PROVE Parent[t] \in S
    <3>1. t \in Scopes /\ O \subseteq Ancestors[t] /\ t \notin O /\ Parent[t] \in Scopes
      BY <2>1, <2>2, TreeAssumption
    <3>2. Ancestors[t] \subseteq {t} \cup Ancestors[Parent[t]]
      BY <2>2, <3>1, AboveTheParent
    <3> QED BY <3>1, <3>2
  <2>3. Upward(S)
    BY <2>2 DEF Upward
  <2>4. Ancestors[s] \subseteq S
    BY <1>2, <2>3, AncestorsGoUp
  <2> QED BY <1>1, <2>1, <2>4
<1>4. \E t \in Owners(s, k) : Owners(s, k) \subseteq Ancestors[t]
  BY <1>3
<1>5. Owner(s, k) \in Owners(s, k)
  BY <1>4 DEF Owner
<1> QED BY <1>5 DEF Owners

-----------------------------------------------------------------------------
(* What providers hold on to. *)

\* What the task t of provider p has got, or waits for, is in sight of p's scope.
Holds(p, t) ==
  /\ \A q \in t.got : q \in made /\ q[1] \in Ancestors[p[1]]
  /\ t.pc = "wait" => t.on \in Provider /\ t.on[1] \in Ancestors[p[1]]
  /\ t.pc # "none" => p[1] \in exists

Links ==
  /\ DOMAIN uses = Provider /\ DOMAIN providers = Scopes /\ DOMAIN instances = Scopes
  /\ \A s \in exists \ {Root} : Parent[s] \in exists
  /\ \A s \in Scopes : providers[s] # {} => s \in exists
  /\ \A s \in Scopes : \A k \in instances[s] : <<s, k>> \in made
  /\ \A p \in Provider : Holds(p, task[p])
  /\ \A p \in made : p[1] \in exists /\ \A q \in uses[p] : q \in made /\ q[1] \in Ancestors[p[1]]

LEMMA LinksSame ==
  ASSUME Links, UNCHANGED <<exists, providers, instances, task, made, uses>>
  PROVE  Links'
BY DEF Links, Holds

LEMMA TaskLinks ==
  ASSUME Links, UNCHANGED <<exists, providers, instances, made, uses>>,
         \A p \in Provider : Holds(p, task[p])'
  PROVE  Links'
BY DEF Links

LEMMA JoinedHolds ==
  ASSUME Shapes, Links, NEW s \in Scopes, NEW k \in Keys, NEW stack, Awaited(s, k, stack),
         NEW p, p = <<Owner(s, k), k>>
  PROVE  /\ p \in Provider /\ p[1] \in Ancestors[s]
         /\ DOMAIN Joined(task, p, stack) = Provider
         /\ \A q \in Provider : /\ Holds(q, Joined(task, p, stack)[q])
                                /\ DOMAIN Joined(task, p, stack)[q] = {"pc", "got", "stack", "on"}
                                /\ task[q].pc # "none" => Joined(task, p, stack)[q] = task[q]
<1>1. Owner(s, k) \in Ancestors[s] /\ Owner(s, k) \in Scopes /\ Owner(s, k) \in exists
  <2>1. ~Unavailable(s, k)
    BY DEF Awaited, Refused
  <2>2. Owner(s, k) \in Ancestors[s] /\ k \in providers[Owner(s, k)]
    BY <2>1, OwnerFound
  <2>3. Owner(s, k) \in Scopes
    BY <2>2, AncestorsGoUp
  <2> QED BY <2>2, <2>3 DEF Links
<1>2. p \in Provider /\ p[1] = Owner(s, k)
  BY <1>1 DEF Provider
<1>3. CASE task[p].pc = "none"
  <2>1. PICK new : new = [NoTask EXCEPT !.pc = "created", !.stack = stack \cup {p[2]}]
    OBVIOUS
  <2>2. new.pc = "created" /\ new.got = {} /\ DOMAIN new = {"pc", "got", "stack", "on"}
    BY <2>1 DEF NoTask
  <2>3. Joined(task, p, stack) = [task EXCEPT ![p] = new]
    BY <1>3, <2>1 DEF Joined
  <2>4. Holds(p, new)
    BY <1>1, <1>2, <2>2 DEF Holds
  <2> QED BY <1>1, <1>2, <1>3, <2>2, <2>3, <2>4 DEF Shapes, Links
<1>4. CASE task[p].pc # "none"
  BY <1>1, <1>2, <1>4 DEF Joined, Shapes, Links
<1> QED BY <1>3, <1>4

LEMMA UseLinks ==
  ASSUME Shapes, Links, NEW u \in Users, NEW k \in Keys, Use(u, k)
  PROVE  Links'
<1>1. UNCHANGED <<exists, providers, instances, made, uses>>
  BY DEF Use, treeVars
<1>2. CASE UNCHANGED task
  BY <1>1, <1>2, LinksSame
<1>3. CASE ~UNCHANGED task
  <2>1. PICK s \in Scopes : s = From[u]
    BY TreeAssumption
  <2>2. PICK p : /\ Awaited(s, k, {}) /\ p = <<Owner(s, k), k>> /\ task' = Joined(task, p, {})
    BY <1>3, <2>1 DEF Use
  <2>3. \A q \in Provider : Holds(q, task'[q])
    BY <2>2, JoinedHolds
  <2>4. \A q \in Provider : Holds(q, task[q])'
    BY <1>1, <2>3 DEF Holds
  <2> QED BY <1>1, <2>4, TaskLinks
<1> QED BY <1>2, <1>3

LEMMA UseNeedLinks ==
  ASSUME Shapes, Links, NEW p \in Provider, NEW k \in Keys, UseNeed(p, k)
  PROVE  Links'
<1>1. UNCHANGED <<exists, providers, instances, made, uses>>
  BY DEF UseNeed, treeVars
<1>2. PICK s \in Scopes : s = p[1]
  BY DEF Provider
<1>3. Holds(p, task[p]) /\ task[p].pc # "none" /\ DOMAIN task[p] = {"pc", "got", "stack", "on"}
  BY DEF Links, UseNeed, Active, Shapes
<1>4. SUFFICES \A q \in Provider : Holds(q, task'[q])
  BY <1>1, TaskLinks DEF Holds
<1>5. CASE Cached(s, k) /\ task' = [task EXCEPT ![p].pc = "run",
                                                ![p].got = @ \cup {<<Owner(s, k), k>>}]
  <2>1. Owner(s, k) \in Ancestors[s] /\ <<Owner(s, k), k>> \in made
    <3>1. ~Unavailable(s, k) /\ k \in instances[Owner(s, k)]
      BY <1>5 DEF Cached
    <3>2. Owner(s, k) \in Ancestors[s] /\ Owner(s, k) \in Scopes
      BY <3>1, OwnerFound, AncestorsGoUp
    <3> QED BY <3>1, <3>2 DEF Links
  <2>2. PICK new : /\ task' = [task EXCEPT ![p] = new]
                   /\ new = [task[p] EXCEPT !.pc = "run", !.got = @ \cup {<<Owner(s, k), k>>}]
    BY <1>5 DEF Shapes
  <2>3. new.pc = "run" /\ new.got = task[p].got \cup {<<Owner(s, k), k>>}
    BY <1>3, <2>2
  <2>4. Holds(p, new)
    BY <1>2, <1>3, <2>1, <2>3 DEF Holds
  <2> QED BY <2>2, <2>4 DEF Shapes, Links
<1>6. CASE task' = [task EXCEPT ![p].pc = "raise"]
  <2>1. task'[p].got = task[p].got /\ task'[p].pc = "raise"
    BY <1>3, <1>6 DEF Shapes
  <2>2. Holds(p, task'[p])
    BY <1>3, <2>1 DEF Holds
  <2> QED BY <1>6, <2>2 DEF Shapes, Links
<1>7. ASSUME NEW q, Awaited(s, k, task[p].stack), q = <<Owner(s, k), k>>,
             task' = [Joined(task, q, task[p].stack) EXCEPT ![p].pc = "wait", ![p].on = q]
      PROVE  \A r \in Provider : Holds(r, task'[r])
  <2>1. PICK j : j = Joined(task, q, task[p].stack)
    OBVIOUS
  <2>2. /\ q \in Provider /\ q[1] \in Ancestors[s] /\ DOMAIN j = Provider
        /\ \A r \in Provider : Holds(r, j[r])
        /\ j[p] = task[p]
    BY <1>3, <1>7, <2>1, JoinedHolds
  <2>3. PICK new : task' = [j EXCEPT ![p] = new] /\ new = [task[p] EXCEPT !.pc = "wait", !.on = q]
    BY <1>7, <2>1, <2>2
  <2>4. new.pc = "wait" /\ new.on = q /\ new.got = task[p].got
    BY <1>3, <2>3
  <2>5. Holds(p, new)
    BY <1>2, <1>3, <2>2, <2>4 DEF Holds
  <2> QED BY <2>2, <2>3, <2>5
<1> QED BY <1>2, <1>5, <1>6, <1>7 DEF UseNeed

LEMMA EndsHolds ==
  ASSUME Shapes, Links, NEW p \in Provider, NEW success \in BOOLEAN, Ends(p, success),
         UNCHANGED exists, made \subseteq made', success => p \in made'
  PROVE  \A q \in Provider : Holds(q, task[q])'
<1>1. SUFFICES ASSUME NEW q \in Provider PROVE Holds(q, task[q])'
  OBVIOUS
<1>2. Holds(q, task[q]) /\ DOMAIN task[q] = {"pc", "got", "stack", "on"}
  BY DEF Links, Shapes
<1>6. PICK t : t = task'[q]
  OBVIOUS
<1>7. SUFFICES /\ \A r \in t.got : r \in made' /\ r[1] \in Ancestors[q[1]]
               /\ t.pc = "wait" => t.on \in Provider /\ t.on[1] \in Ancestors[q[1]]
               /\ t.pc # "none" => q[1] \in exists
  BY <1>6 DEF Holds
<1>3. CASE q = p
  <2>1. t = NoTask
    BY <1>3, <1>6 DEF Ends
  <2> QED BY <2>1 DEF NoTask
<1>4. CASE q # p /\ task[q].pc = "wait" /\ task[q].on = p
  <2>1. t = [task[q] EXCEPT !.pc = IF success THEN "run" ELSE "raise",
                            !.got = IF success THEN @ \cup {p} ELSE @,
                            !.on = <<>>]
    BY <1>4, <1>6 DEF Ends
  <2>2. /\ t.pc \in {"run", "raise"}
        /\ t.got \subseteq IF success THEN task[q].got \cup {p} ELSE task[q].got
    BY <1>2, <2>1
  <2> QED BY <1>2, <1>4, <2>2 DEF Holds
<1>5. CASE q # p /\ ~(task[q].pc = "wait" /\ task[q].on = p)
  <2>1. t = task[q]
    BY <1>5, <1>6 DEF Ends
  <2> QED BY <1>2, <2>1 DEF Holds
<1> QED BY <1>3, <1>4, <1>5

LEMMA ProviderReturnsLinks ==
  ASSUME Shapes, Links, NEW p \in Provider, ProviderReturns(p)
  PROVE  Links'
<1>1. /\ UNCHANGED <<exists, providers>> /\ Ends(p, TRUE) /\ made' = made \cup {p}
      /\ instances' = [instances EXCEPT ![p[1]] = @ \cup {p[2]}]
      /\ uses' = [uses EXCEPT ![p] = task[p].got]
      /\ task[p].pc # "none"
  BY DEF ProviderReturns, Active, treeVars
<1>2. \A q \in Provider : Holds(q, task[q])'
  BY <1>1, EndsHolds
<1>3. ASSUME NEW s \in Scopes, NEW k \in instances'[s] PROVE <<s, k>> \in made'
  BY <1>1 DEF Links, Provider
<1>4. ASSUME NEW q \in made'
      PROVE  q[1] \in exists /\ \A r \in uses'[q] : r \in made' /\ r[1] \in Ancestors[q[1]]
  <2>1. CASE q = p
    <3>1. Holds(p, task[p]) /\ uses'[p] = task[p].got
      BY <1>1 DEF Links
    <3> QED BY <1>1, <2>1, <3>1 DEF Holds
  <2>2. CASE q # p
    <3>1. uses'[q] = uses[q] /\ q \in made
      BY <1>1, <2>2 DEF Links, Shapes
    <3> QED BY <1>1, <3>1 DEF Links
  <2> QED BY <2>1, <2>2
<1> QED BY <1>1, <1>2, <1>3, <1>4 DEF Links

LEMMA ProviderEndsLinks ==
  ASSUME Shapes, Links, NEW p \in Provider, ProviderFails(p) \/ ProviderCancelled(p)
  PROVE  Links'
<1>1. UNCHANGED <<exists, providers, instances, made, uses>>
  BY DEF ProviderFails, ProviderCancelled, treeVars
<1>2. CASE Ends(p, FALSE)
  BY <1>1, <1>2, EndsHolds, TaskLinks
<1>3. CASE ~Ends(p, FALSE)
  <2>1. /\ task[p].pc \in {"run", "wait", "raise"}
        /\ task' = [task EXCEPT ![p].pc = "run", ![p].on = <<>>]
    BY <1>3 DEF ProviderFails, ProviderCancelled
  <2>2. Holds(p, task[p]) /\ task'[p].pc = "run" /\ task'[p].got = task[p].got
    BY <2>1 DEF Links, Shapes
  <2>3. \A q \in Provider : Holds(q, task'[q])
    BY <2>1, <2>2 DEF Links, Shapes, Holds
  <2>4. \A q \in Provider : Holds(q, task[q])'
    BY <1>1, <2>3 DEF Holds
  <2> QED BY <1>1, <2>4, TaskLinks
<1> QED BY <1>2, <1>3

LEMMA ChildLinks ==
  ASSUME Links, NEW s \in Scopes, Child(s)
  PROVE  Links'
<1>1. /\ UNCHANGED <<providers, instances, task, made, uses>>
      /\ exists' = exists \cup {s} /\ Parent[s] \in exists
  BY DEF Child, resolveVars
<1> QED BY <1>1 DEF Links, Holds

LEMMA ProvideLinks ==
  ASSUME Links, NEW s \in Scopes, NEW k \in Keys, Provide(s, k)
  PROVE  Links'
<1>1. /\ UNCHANGED <<exists, instances, task, made, uses>>
      /\ providers' = [providers EXCEPT ![s] = @ \cup {k}] /\ s \in exists
  BY DEF Provide, treeVars
<1>2. \A p \in Provider : Holds(p, task[p])'
  BY <1>1 DEF Links, Holds
<1> QED BY <1>1, <1>2 DEF Links

LEMMA CompleteLinks ==
  ASSUME Links, NEW c \in Closers, Complete(c)
  PROVE  Links'
<1>1. /\ UNCHANGED <<exists, task, made, uses>>
      /\ instances' = [instances EXCEPT ![Top(c).scope] = {}]
      /\ providers' = [providers EXCEPT ![Top(c).scope] = {}]
  BY DEF Complete
<1>2. \A p \in Provider : Holds(p, task[p])'
  BY <1>1 DEF Links, Holds
<1>3. \A s \in Scopes : instances'[s] \subseteq instances[s] /\ (providers'[s] # {} => providers[s] # {})
  BY <1>1 DEF Links
<1> QED BY <1>1, <1>2, <1>3 DEF Links

LEMMA NextLinks ==
  ASSUME Shapes, Links, [Next]_vars
  PROVE  Links'
<1>1. ASSUME NEW s \in Scopes,
             Child(s) \/ (\E k \in Keys : Provide(s, k)) \/ (\E x \in Things : Own(s, x))
      PROVE  Links'
  <2>1. ASSUME NEW x \in Things, Own(s, x) PROVE Links'
    BY <2>1, LinksSame DEF Own, treeVars, resolveVars
  <2> QED BY <1>1, <2>1, ChildLinks, ProvideLinks
<1>2. ASSUME NEW p \in Provider, ProviderStep(p) PROVE Links'
  BY <1>2, UseNeedLinks, ProviderReturnsLinks, ProviderEndsLinks DEF ProviderStep
<1>3. ASSUME NEW c \in Closers,
             (\E s \in Scopes : Close(c, s)) \/ CloserStep(c) \/ GatherCancelled(c)
      PROVE  Links'
  <2>1. CASE Complete(c)
    BY <2>1, CompleteLinks
  <2>2. CASE ~Complete(c)
    <3>1. UNCHANGED <<exists, providers, instances, task, made, uses>>
      BY <1>3, <2>2 DEF Close, CloserStep, AlreadyComplete, Enter, GatherDone, GatherRaises,
         GatherCancelled, CloseChild, ChildrenDone, SkipDisposer, CallDisposer, DisposerEnds,
         DisposersFailed, treeVars, resolveVars
    <3> QED BY <3>1, LinksSame
  <2> QED BY <2>1, <2>2
<1>4. CASE UNCHANGED vars
  BY <1>4, LinksSame DEF vars
<1>5. ASSUME NEW u \in Users, NEW k \in Keys, Use(u, k) PROVE Links'
  BY <1>5, UseLinks
<1>6. CASE Building
  BY <1>1, <1>6 DEF Building
<1> QED BY <1>2, <1>3, <1>4, <1>5, <1>6 DEF Next

-----------------------------------------------------------------------------
(* The order of the disposers. *)

Before(list, x, y) == \E m, n \in DOMAIN list : m < n /\ list[m] = x /\ list[n] = y

\* Behind a resource in the list stands each resource of the scope whose provider had
\* resolved it, if it was not tried yet.
Ordered(s, list) ==
  \A k, j \in Keys :
    <<s, k>> \in made /\ <<s, j>> \in uses[<<s, k>>] /\ j \in Range(list) =>
      <<s, k>> \in tried \/ j = k \/ Before(list, j, k)

Lists == \A s \in Scopes : Ordered(s, disposers[s])

\* What is left of its snapshot is ordered where the aclose of c disposes.
DisposesInOrder(c) ==
  closer[c] # <<>> /\ Top(c).pc \in {"dispose", "await"} =>
    /\ Ordered(Top(c).scope, Top(c).todo)
    /\ Top(c).pc = "await" => Awaits(c) \in tried

Disposing == \A c \in Closers : DisposesInOrder(c)

Called == gone \subseteq tried

OrderInv == Called /\ Lists /\ Disposing

LEMMA BeforeAppend ==
  ASSUME NEW S, NEW list \in Seq(S), NEW z
  PROVE  /\ \A x, y : Before(list, x, y) => Before(Append(list, z), x, y)
         /\ \A x \in Range(list) : Before(Append(list, z), x, z)
<1>1. PICK new : new = Append(list, z)
  OBVIOUS
<1>2. /\ DOMAIN list = 1..Len(list) /\ Len(list) \in Nat
      /\ DOMAIN new = 1..Len(list) + 1
      /\ \A i \in 1..Len(list) : new[i] = list[i]
      /\ new[Len(list) + 1] = z
  BY <1>1, LenProperties
<1>3. \A i \in DOMAIN list : i \in DOMAIN new /\ i < Len(list) + 1 /\ new[i] = list[i]
  BY <1>2
<1>4. Len(list) + 1 \in DOMAIN new
  BY <1>2
<1>5. ASSUME NEW x, NEW y, Before(list, x, y) PROVE Before(new, x, y)
  BY <1>3, <1>5 DEF Before
<1>6. ASSUME NEW x \in Range(list) PROVE Before(new, x, z)
  BY <1>2, <1>3, <1>4 DEF Before, Range
<1> QED BY <1>1, <1>5, <1>6

LEMMA NothingAfterLast ==
  ASSUME NEW S, NEW list \in Seq(S), list # <<>>, IsInjective(list), NEW y
  PROVE  ~Before(list, Last(list), y)
<1>1. DOMAIN list = 1..Len(list) /\ Len(list) \in Nat /\ Len(list) \in DOMAIN list
  BY LenProperties, EmptySeq
<1>2. SUFFICES ASSUME NEW m \in DOMAIN list, NEW n \in DOMAIN list, m < n, list[m] = list[Len(list)]
               PROVE  FALSE
  BY DEF Before, Last
<1>3. m = Len(list)
  BY <1>1, <1>2 DEF IsInjective
<1> QED BY <1>1, <1>2, <1>3

\* list.remove keeps the order of what stays.
LEMMA BeforeRemove ==
  ASSUME NEW S, NEW list \in Seq(S), NEW z, IsInjective(list), NEW x, NEW y,
         Before(list, x, y), x # z, y # z
  PROVE  Before(RemoveFirst(list, z), x, y)
<1>0. DOMAIN list = 1..Len(list) /\ Len(list) \in Nat
  BY LenProperties
<1>1. CASE z \notin Range(list)
  <2>1. RemoveFirst(list, z) = list
    BY <1>0, <1>1 DEF RemoveFirst, Range
  <2> QED BY <2>1
<1>2. CASE z \in Range(list)
  <2>1. PICK i \in 1..Len(list), t \in Seq(S) :
          /\ list[i] = z /\ t = RemoveFirst(list, z)
          /\ DOMAIN t = 1..(Len(list) - 1)
          /\ \A j \in 1..(Len(list) - 1) : t[j] = IF j < i THEN list[j] ELSE list[j + 1]
    BY <1>2, RemoveShape
  <2>2. PICK m \in 1..Len(list), n \in 1..Len(list) : m < n /\ list[m] = x /\ list[n] = y
    BY <1>0 DEF Before
  <2>3. m # i /\ n # i
    BY <2>1, <2>2
  <2> DEFINE at(j) == IF j < i THEN j ELSE j - 1
  <2>4. /\ at(m) \in DOMAIN t /\ at(n) \in DOMAIN t /\ at(m) < at(n)
        /\ t[at(m)] = list[m] /\ t[at(n)] = list[n]
    <3>1. ASSUME NEW j \in 1..Len(list), j # i PROVE at(j) \in DOMAIN t /\ t[at(j)] = list[j]
      <4>1. CASE j < i
        <5>1. j \in 1..(Len(list) - 1)
          BY <1>0, <2>1, <4>1
        <5> QED BY <2>1, <4>1, <5>1
      <4>2. CASE ~(j < i)
        <5>1. j - 1 \in 1..(Len(list) - 1) /\ ~(j - 1 < i) /\ j - 1 + 1 = j
          BY <1>0, <2>1, <3>1, <4>2
        <5> QED BY <2>1, <4>2, <5>1
      <4> QED BY <4>1, <4>2
    <3>2. at(m) < at(n)
      BY <1>0, <2>2, <2>3
    <3> QED BY <2>3, <3>1, <3>2
  <2>5. Before(t, x, y)
    <3> HIDE DEF at
    <3> QED BY <2>2, <2>4 DEF Before
  <2> QED BY <2>1, <2>5
<1> QED BY <1>1, <1>2

\* No resource of the scopes that are being closed is new.
NothingNew ==
  \A s \in Scopes, k \in Keys :
    Still(s) /\ <<s, k>> \in made' => <<s, k>> \in made /\ uses'[<<s, k>>] = uses[<<s, k>>]

LEMMA OrderedKept ==
  ASSUME NEW s \in Scopes, NEW list, Ordered(s, list), tried \subseteq tried',
         \A k \in Keys : <<s, k>> \in made' =>
           <<s, k>> \in made /\ uses'[<<s, k>>] = uses[<<s, k>>]
  PROVE  Ordered(s, list)'
BY DEF Ordered

LEMMA OrderedAppend ==
  ASSUME NEW s, NEW S, NEW list \in Seq(S), NEW z \in S, z \notin Keys, Ordered(s, list)
  PROVE  Ordered(s, Append(list, z))
<1>1. Range(Append(list, z)) = Range(list) \cup {z}
  BY AppendRange
<1>2. \A x, y : Before(list, x, y) => Before(Append(list, z), x, y)
  BY BeforeAppend
<1> QED BY <1>1, <1>2 DEF Ordered

LEMMA OrderedRemove ==
  ASSUME NEW s, NEW S, NEW list \in Seq(S), IsInjective(list), Ordered(s, list), NEW z,
         z \in Keys /\ <<s, z>> \in made => <<s, z>> \in tried
  PROVE  Ordered(s, RemoveFirst(list, z))
<1>1. Range(RemoveFirst(list, z)) = Range(list) \ {z}
  BY RemoveRange
<1>2. ASSUME NEW x, NEW y, Before(list, x, y), x # z, y # z
      PROVE  Before(RemoveFirst(list, z), x, y)
  BY <1>2, BeforeRemove
<1>3. SUFFICES ASSUME NEW k \in Keys, NEW j \in Keys, <<s, k>> \in made,
                      <<s, j>> \in uses[<<s, k>>], j \in Range(list), j # z, j # k,
                      <<s, k>> \notin tried
               PROVE  Before(RemoveFirst(list, z), j, k)
  BY <1>1 DEF Ordered
<1>4. Before(list, j, k) /\ k # z
  BY <1>3 DEF Ordered
<1> QED BY <1>2, <1>3, <1>4

LEMMA OthersInOrder ==
  ASSUME World, Stacks, NEW d \in Closers, DisposesInOrder(d), closer'[d] = closer[d],
         tried \subseteq tried', NothingNew
  PROVE  DisposesInOrder(d)'
<1>1. SUFFICES ASSUME closer[d] # <<>>, Top(d).pc \in {"dispose", "await"}
               PROVE  DisposesInOrder(d)'
  BY DEF DisposesInOrder, Top
<1>2. PICK f \in Frames : f = Top(d) /\ FrameOK(f)
  BY <1>1, TopFrame
<1>3. Top(d)' = f
  BY <1>2 DEF Top
<1>4. f.scope \in Scopes /\ Still(f.scope)
  BY <1>1, <1>2 DEF FrameOK, Frames
<1>5. /\ Ordered(f.scope, f.todo)
      /\ f.pc = "await" => <<f.scope, Due(f.todo)>> \in tried
  BY <1>1, <1>2 DEF DisposesInOrder, Awaits
<1>6. Ordered(f.scope, f.todo)'
  BY <1>4, <1>5, OrderedKept DEF NothingNew
<1> QED BY <1>3, <1>5, <1>6 DEF DisposesInOrder, Awaits

\* Steps that do not concern the disposers.
LEMMA OrderSame ==
  ASSUME World, Stacks, OrderInv, UNCHANGED <<made, uses, disposers, tried, gone, closer>>
  PROVE  OrderInv'
<1>1. NothingNew
  BY DEF NothingNew
<1>2. Disposing'
  BY <1>1, OthersInOrder DEF OrderInv, Disposing
<1>3. Lists'
  BY OrderedKept DEF OrderInv, Lists
<1> QED BY <1>2, <1>3 DEF OrderInv, Called

LEMMA OwnOrder ==
  ASSUME World, Stacks, OrderInv, NEW s \in Scopes, NEW x \in Things, Own(s, x)
  PROVE  OrderInv'
<1>1. /\ UNCHANGED <<made, uses, tried, gone, closer>>
      /\ disposers' = [disposers EXCEPT ![s] = Append(@, x)] /\ x \notin Keys
  BY TreeAssumption DEF Own, resolveVars, closeVars
<1>2. Disposing'
  <2>1. NothingNew
    BY <1>1 DEF NothingNew
  <2> QED BY <1>1, <2>1, OthersInOrder DEF OrderInv, Disposing
<1>3. ASSUME NEW t \in Scopes PROVE Ordered(t, disposers[t])'
  <2>1. disposers[t] \in Seq(Keys \cup Things) /\ Ordered(t, disposers[t])
    BY DEF World, Shapes, OrderInv, Lists
  <2>2. PICK list : list = disposers'[t] /\ Ordered(t, list)
    <3>1. CASE t = s
      <4>1. disposers'[t] = Append(disposers[t], x)
        BY <1>1, <3>1 DEF World, Shapes
      <4> QED BY <1>1, <2>1, <4>1, OrderedAppend
    <3>2. CASE t # s
      BY <1>1, <2>1, <3>2 DEF World, Shapes
    <3> QED BY <3>1, <3>2
  <2>3. Ordered(t, list)'
    BY <1>1, <2>2, OrderedKept
  <2> QED BY <2>2, <2>3
<1> QED BY <1>1, <1>2, <1>3 DEF OrderInv, Called, Lists

\* The disposer of a new resource goes behind those of the resources its provider had got.
LEMMA ProviderReturnsOrder ==
  ASSUME World, Stacks, Links, OrderInv, NEW p \in Provider, ProviderReturns(p)
  PROVE  OrderInv'
<1>1. PICK s \in Scopes, k \in Keys : p = <<s, k>>
  BY DEF Provider
<1>2. /\ UNCHANGED <<tried, gone, closer>>
      /\ disposers' = [disposers EXCEPT ![s] = Append(@, k)]
      /\ made' = made \cup {<<s, k>>}
      /\ uses' = [uses EXCEPT ![<<s, k>>] = task[<<s, k>>].got]
      /\ Running(<<s, k>>)
  BY <1>1 DEF ProviderReturns, Active, Running, closeVars
<1>3. <<s, k>> \notin made /\ ~Still(s)
  BY <1>2 DEF World, Resources, Still
<1>4. /\ uses'[<<s, k>>] = task[<<s, k>>].got
      /\ \A q \in Provider : q # <<s, k>> => uses'[q] = uses[q]
  BY <1>1, <1>2 DEF Links
<1>5. Disposing'
  <2>1. NothingNew
    BY <1>2, <1>3, <1>4 DEF NothingNew, Provider
  <2> QED BY <1>2, <2>1, OthersInOrder DEF OrderInv, Disposing
<1>6. ASSUME NEW t \in Scopes PROVE Ordered(t, disposers[t])'
  <2>1. disposers[t] \in Seq(Keys \cup Things) /\ Ordered(t, disposers[t])
    BY DEF World, Shapes, OrderInv, Lists
  <2>2. CASE t # s
    <3>1. PICK list : list = disposers[t]
      OBVIOUS
    <3>2. disposers'[t] = list
      BY <1>2, <2>2, <3>1 DEF World, Shapes
    <3>3. \A l \in Keys : <<t, l>> \in made' =>
            <<t, l>> \in made /\ uses'[<<t, l>>] = uses[<<t, l>>]
      BY <1>2, <1>4, <2>2 DEF Provider
    <3>4. Ordered(t, list)'
      BY <1>2, <2>1, <3>1, <3>3, OrderedKept
    <3> QED BY <3>2, <3>4
  <2>3. CASE t = s
    <3>1. PICK list \in Seq(Keys \cup Things) : list = disposers[s] /\ Ordered(s, list)
      BY <2>1, <2>3
    <3>2. PICK new : new = Append(list, k) /\ new = disposers'[s]
      BY <1>2, <3>1 DEF World, Shapes
    <3>3. /\ Range(new) = Range(list) \cup {k}
          /\ \A x, y : Before(list, x, y) => Before(new, x, y)
          /\ \A x \in Range(list) : Before(new, x, k)
      <4>1. k \in Keys \cup Things
        OBVIOUS
      <4>2. Range(Append(list, k)) = Range(list) \cup {k}
        BY <4>1, AppendRange
      <4>3. /\ \A x, y : Before(list, x, y) => Before(Append(list, k), x, y)
            /\ \A x \in Range(list) : Before(Append(list, k), x, k)
        BY BeforeAppend
      <4> QED BY <3>2, <4>2, <4>3
    <3>4. SUFFICES ASSUME NEW m \in Keys, NEW j \in Keys, <<s, m>> \in made',
                          <<s, j>> \in uses'[<<s, m>>], j \in Range(new), j # m,
                          <<s, m>> \notin tried
                   PROVE  Before(new, j, m)
      BY <1>2, <2>3, <3>2 DEF Ordered
    <3>5. CASE m = k
      BY <3>3, <3>4, <3>5
    <3>6. CASE m # k
      <4>1. <<s, m>> \in made /\ <<s, j>> \in uses[<<s, m>>]
        BY <1>2, <1>4, <3>4, <3>6 DEF Provider
      <4>2. <<s, j>> \in made
        BY <4>1 DEF Links
      <4>3. j \in Range(list)
        BY <1>3, <3>3, <3>4, <4>2
      <4> QED BY <3>1, <3>3, <3>4, <4>1, <4>3 DEF Ordered
    <3> QED BY <3>5, <3>6
  <2> QED BY <2>2, <2>3
<1> QED BY <1>2, <1>5, <1>6 DEF OrderInv, Called, Lists

\* A step of closer c, when the disposers of no scope change.
LEMMA CloserOrder ==
  ASSUME World, Stacks, OrderInv, NEW c \in Closers,
         UNCHANGED <<made, uses, disposers, gone>>, tried \subseteq tried',
         \A d \in Closers : d # c => closer'[d] = closer[d],
         DisposesInOrder(c)'
  PROVE  OrderInv'
<1>1. NothingNew
  BY DEF NothingNew
<1>2. ASSUME NEW d \in Closers PROVE DisposesInOrder(d)'
  <2>1. CASE d = c
    BY <2>1
  <2>2. CASE d # c
    BY <1>1, <2>2, OthersInOrder DEF OrderInv, Disposing
  <2> QED BY <2>1, <2>2
<1>3. ASSUME NEW s \in Scopes PROVE Ordered(s, disposers[s])'
  <2>1. PICK list : list = disposers[s] /\ Ordered(s, list)
    BY DEF OrderInv, Lists
  <2>2. Ordered(s, list)'
    BY <2>1, OrderedKept
  <2> QED BY <2>1, <2>2
<1> QED BY <1>2, <1>3 DEF OrderInv, Called, Lists, Disposing

LEMMA GoToOrder ==
  ASSUME Stacks, NEW c \in Closers, closer[c] # <<>>, NEW f \in Frames, GoTo(c, f),
         f.pc \in {"dispose", "await"} => Ordered(f.scope, f.todo)',
         f.pc = "await" => <<f.scope, Due(f.todo)>> \in tried'
  PROVE  DisposesInOrder(c)' /\ \A d \in Closers : d # c => closer'[d] = closer[d]
<1>1. Top(c)' = f
  BY TopOfGoTo
<1>2. \A d \in Closers : d # c => closer'[d] = closer[d]
  BY DEF GoTo, Stacks
<1> QED BY <1>1, <1>2 DEF DisposesInOrder, Awaits

LEMMA ReturnOrder ==
  ASSUME Stacks, NEW c \in Closers, closer[c] # <<>>, NEW failed \in BOOLEAN, Return(c, failed)
  PROVE  DisposesInOrder(c)' /\ \A d \in Closers : d # c => closer'[d] = closer[d]
<1>1. closer'[c] # <<>> => Top(c)'.pc = "children"
  BY TopOfReturn
<1>2. \A d \in Closers : d # c => closer'[d] = closer[d]
  BY DEF Return, Stacks
<1> QED BY <1>1, <1>2 DEF DisposesInOrder

LEMMA CloseOrderStep ==
  ASSUME World, Stacks, OrderInv, NEW c \in Closers, NEW s \in Scopes, Close(c, s)
  PROVE  OrderInv'
<1>1. /\ UNCHANGED <<made, uses, disposers, gone, tried>>
      /\ closer' = [closer EXCEPT ![c] = <<[NoFrame EXCEPT !.scope = s]>>]
  BY DEF Close, resolveVars, disposeVars
<1>2. PICK f : f = [NoFrame EXCEPT !.scope = s]
  OBVIOUS
<1>3. Top(c)'.pc = "enter"
  <2>1. f.pc = "enter"
    BY <1>2 DEF NoFrame
  <2>2. closer'[c] = <<f>> /\ Head(<<f>>) = f
    BY <1>1, <1>2 DEF Stacks
  <2> QED BY <2>1, <2>2 DEF Top
<1>4. DisposesInOrder(c)' /\ \A d \in Closers : d # c => closer'[d] = closer[d]
  BY <1>1, <1>3 DEF DisposesInOrder, Stacks
<1> QED BY <1>1, <1>4, CloserOrder

\* Steps of aclose that end it, or go on before it disposes.
LEMMA EarlyOrder ==
  ASSUME World, Stacks, OrderInv, NEW c \in Closers, closer[c] # <<>>,
         UNCHANGED <<made, uses, disposers, gone, tried>>,
         \/ \E failed \in BOOLEAN : Return(c, failed)
         \/ GoTo(c, [Top(c) EXCEPT !.pc = "children", !.todo = children[Top(c).scope]])
         \/ \E pc \in {"gather", "abort"} : GoTo(c, [Top(c) EXCEPT !.pc = pc])
  PROVE  OrderInv'
<1>1. PICK old \in Frames : old = Top(c)
  BY TopFrame
<1>2. CASE \E failed \in BOOLEAN : Return(c, failed)
  BY <1>2, ReturnOrder, CloserOrder
<1>3. CASE GoTo(c, [Top(c) EXCEPT !.pc = "children", !.todo = children[Top(c).scope]])
  <2>1. PICK f : f = [old EXCEPT !.pc = "children", !.todo = children[old.scope]]
    OBVIOUS
  <2>2. children[old.scope] \in Seq(Item)
    <3>1. children[old.scope] \in Seq(Scopes)
      BY <1>1 DEF World, Shapes, Frames
    <3> QED BY <3>1 DEF Item
  <2>3. f \in Frames /\ f.pc = "children"
    BY <1>1, <2>1, <2>2 DEF Frames
  <2>4. GoTo(c, f)
    BY <1>1, <1>3, <2>1
  <2> QED BY <2>3, <2>4, GoToOrder, CloserOrder
<1>4. ASSUME NEW pc \in {"gather", "abort"}, GoTo(c, [Top(c) EXCEPT !.pc = pc])
      PROVE  OrderInv'
  <2>1. PICK f : f = [old EXCEPT !.pc = pc]
    OBVIOUS
  <2>2. f \in Frames /\ f.pc = pc
    BY <1>1, <2>1 DEF Frames
  <2>3. GoTo(c, f)
    BY <1>1, <1>4, <2>1
  <2> QED BY <2>2, <2>3, GoToOrder, CloserOrder
<1> QED BY <1>2, <1>3, <1>4

LEMMA CloseChildOrder ==
  ASSUME World, Stacks, OrderInv, NEW c \in Closers, CloseChild(c)
  PROVE  OrderInv'
<1>1. UNCHANGED <<made, uses, disposers, gone, tried>> /\ closer[c] # <<>>
  BY DEF CloseChild, Runs, At, resolveVars, disposeVars
<1>2. PICK g, h : closer' = [closer EXCEPT ![c] = <<g, h>> \o Tail(@)] /\ g.pc = "enter"
  <2>1. PICK g : g = [NoFrame EXCEPT !.scope = Last(Top(c).todo)]
    OBVIOUS
  <2>2. PICK h : h = [Top(c) EXCEPT !.todo = Front(@)]
    OBVIOUS
  <2>3. g.pc = "enter"
    BY <2>1 DEF NoFrame
  <2>4. closer' = [closer EXCEPT ![c] = <<g, h>> \o Tail(@)]
    BY <2>1, <2>2 DEF CloseChild
  <2> QED BY <2>3, <2>4
<1>3. PICK rest \in Seq(Frames) : rest = Tail(closer[c])
  BY <1>1, HeadTailProperties DEF Stacks
<1>4. PICK stack : stack = <<g, h>> \o rest
  OBVIOUS
<1>5. Head(stack) = g
  BY <1>4
<1>6. closer'[c] = stack /\ \A d \in Closers : d # c => closer'[d] = closer[d]
  BY <1>2, <1>3, <1>4 DEF Stacks
<1>7. DisposesInOrder(c)'
  BY <1>2, <1>5, <1>6 DEF DisposesInOrder, Top
<1> QED BY <1>1, <1>6, <1>7, CloserOrder

LEMMA ChildrenDoneOrder ==
  ASSUME World, Stacks, OrderInv, NEW c \in Closers, ChildrenDone(c), ~Top(c).failed
  PROVE  OrderInv'
<1>1. /\ UNCHANGED <<made, uses, disposers, gone, tried>> /\ closer[c] # <<>>
      /\ GoTo(c, [Top(c) EXCEPT !.pc = "dispose", !.todo = disposers[Top(c).scope]])
  BY DEF ChildrenDone, ChildrenFailed, Runs, At, resolveVars, disposeVars
<1>2. PICK old \in Frames : old = Top(c)
  BY <1>1, TopFrame
<1>3. PICK list : list = disposers[old.scope]
  OBVIOUS
<1>4. list \in Seq(Item) /\ Ordered(old.scope, list)
  <2>1. disposers[old.scope] \in Seq(Keys \cup Things) /\ Ordered(old.scope, list)
    BY <1>2, <1>3 DEF World, Shapes, Frames, OrderInv, Lists
  <2> QED BY <1>3, <2>1 DEF Item
<1>5. PICK f : f = [old EXCEPT !.pc = "dispose", !.todo = list]
  OBVIOUS
<1>6. f \in Frames /\ f.pc = "dispose" /\ f.scope = old.scope /\ f.todo = list
  BY <1>2, <1>4, <1>5 DEF Frames
<1>7. GoTo(c, f)
  BY <1>1, <1>2, <1>3, <1>5
<1>8. Ordered(f.scope, f.todo)'
  BY <1>1, <1>2, <1>4, <1>6, OrderedKept DEF Frames
<1> QED BY <1>1, <1>6, <1>7, <1>8, GoToOrder, CloserOrder

\* A disposer that another aclose finished is skipped: it was tried.
LEMMA SkipDisposerOrder ==
  ASSUME World, Stacks, OrderInv, NEW c \in Closers, SkipDisposer(c)
  PROVE  OrderInv'
<1>1. /\ UNCHANGED <<made, uses, disposers, gone, tried>> /\ closer[c] # <<>>
      /\ Top(c).pc = "dispose" /\ Top(c).todo # <<>>
      /\ ~StillListed(Top(c).scope, Due(Top(c).todo))
      /\ GoTo(c, [Top(c) EXCEPT !.todo = RemoveFirst(@, Due(@))])
  BY DEF SkipDisposer, Runs, At, resolveVars, disposeVars
<1>2. PICK old \in Frames : old = Top(c) /\ FrameOK(old)
  BY <1>1, TopFrame
<1>0. PICK s \in Scopes, todo \in Seq(Item) : s = old.scope /\ todo = old.todo
  BY <1>2 DEF Frames
<1>3. PICK x : s = old.scope /\ todo = old.todo /\ x = Due(todo)
  BY <1>0
<1>4. IsInjective(todo) /\ Ordered(s, todo)
  BY <1>1, <1>2, <1>3 DEF FrameOK, OrderInv, Disposing, DisposesInOrder
<1>5. x \in Keys /\ <<s, x>> \in made => <<s, x>> \in tried
  <2>1. x \notin Range(disposers[s])
    <3>1. disposers[s] \in Seq(Keys \cup Things)
      BY DEF World, Shapes
    <3> QED BY <1>1, <1>2, <1>3, <3>1, InList DEF StillListed
  <2> QED BY <2>1 DEF World, Resources, OrderInv, Called
<1>6. PICK left : left = RemoveFirst(todo, x)
  OBVIOUS
<1>7. left \in Seq(Item) /\ Ordered(s, left)
  BY <1>4, <1>5, <1>6, RemoveRange, OrderedRemove
<1>8. PICK f : f = [old EXCEPT !.todo = left]
  OBVIOUS
<1>9. f \in Frames /\ f.pc = "dispose" /\ f.scope = s /\ f.todo = left
  BY <1>1, <1>2, <1>3, <1>7, <1>8 DEF Frames
<1>10. GoTo(c, f)
  <2>1. [old EXCEPT !.todo = RemoveFirst(@, Due(@))] = f
    BY <1>3, <1>6, <1>8
  <2> QED BY <1>1, <1>2, <2>1
<1>11. Ordered(f.scope, f.todo)'
  BY <1>1, <1>7, <1>9, OrderedKept
<1> QED BY <1>1, <1>9, <1>10, <1>11, GoToOrder, CloserOrder

LEMMA CallDisposerOrder ==
  ASSUME World, Stacks, OrderInv, NEW c \in Closers, CallDisposer(c)
  PROVE  OrderInv'
<1>1. /\ UNCHANGED <<made, uses, disposers, gone>> /\ closer[c] # <<>>
      /\ Top(c).pc = "dispose"
      /\ GoTo(c, [Top(c) EXCEPT !.pc = "await"])
      /\ tried' = tried \cup {<<Top(c).scope, Due(Top(c).todo)>>}
  BY DEF CallDisposer, Runs, At, resolveVars
<1>2. PICK old \in Frames : old = Top(c) /\ Ordered(old.scope, old.todo)
  BY <1>1, TopFrame DEF OrderInv, Disposing, DisposesInOrder
<1>3. PICK f : f = [old EXCEPT !.pc = "await"]
  OBVIOUS
<1>4. f \in Frames /\ f.pc = "await" /\ f.scope = old.scope /\ f.todo = old.todo
  BY <1>2, <1>3 DEF Frames
<1>5. GoTo(c, f)
  BY <1>1, <1>2, <1>3
<1>6. Ordered(f.scope, f.todo)'
  BY <1>1, <1>2, <1>4, OrderedKept DEF Frames
<1>7. <<f.scope, Due(f.todo)>> \in tried'
  BY <1>1, <1>2, <1>4
<1> QED BY <1>1, <1>4, <1>5, <1>6, <1>7, GoToOrder, CloserOrder

LEMMA DisposerEndsOrder ==
  ASSUME World, Stacks, OrderInv, NEW c \in Closers, NEW success \in BOOLEAN,
         DisposerEnds(c, success)
  PROVE  OrderInv'
<1>1. /\ UNCHANGED <<made, uses, tried>> /\ closer[c] # <<>>
      /\ Top(c).pc = "await"
      /\ GoTo(c, [Top(c) EXCEPT !.pc = "dispose", !.todo = RemoveFirst(@, Due(Top(c).todo)),
                                !.failed = @ \/ ~success])
  BY DEF DisposerEnds, WakesUp, At, resolveVars
<1>2. PICK old \in Frames : old = Top(c) /\ FrameOK(old)
  BY <1>1, TopFrame
<1>0. PICK s \in Scopes, todo \in Seq(Item) : s = old.scope /\ todo = old.todo
  BY <1>2 DEF Frames
<1>3. PICK x : s = old.scope /\ todo = old.todo /\ x = Due(todo)
  BY <1>0
<1>4. IsInjective(todo) /\ Ordered(s, todo) /\ <<s, x>> \in tried
  BY <1>1, <1>2, <1>3 DEF FrameOK, OrderInv, Disposing, DisposesInOrder, Awaits
<1>5. PICK left : left = RemoveFirst(todo, x)
  OBVIOUS
<1>6. left \in Seq(Item) /\ Ordered(s, left)
  BY <1>4, <1>5, RemoveRange, OrderedRemove
<1>7. PICK f : f = [old EXCEPT !.pc = "dispose", !.todo = left, !.failed = @ \/ ~success]
  OBVIOUS
<1>8. f \in Frames /\ f.pc = "dispose" /\ f.scope = s /\ f.todo = left
  BY <1>2, <1>3, <1>6, <1>7 DEF Frames
<1>9. GoTo(c, f)
  BY <1>1, <1>2, <1>3, <1>5, <1>7
<1>10. Ordered(f.scope, f.todo)'
  BY <1>1, <1>6, <1>8, OrderedKept
<1>11. DisposesInOrder(c)' /\ \A d \in Closers : d # c => closer'[d] = closer[d]
  BY <1>1, <1>8, <1>9, <1>10, GoToOrder
<1>12. Disposing'
  <2>1. NothingNew
    BY <1>1 DEF NothingNew
  <2>2. ASSUME NEW d \in Closers PROVE DisposesInOrder(d)'
    <3>1. CASE d = c
      BY <1>11, <3>1
    <3>2. CASE d # c
      BY <1>1, <1>11, <2>1, <3>2, OthersInOrder DEF OrderInv, Disposing
    <3> QED BY <3>1, <3>2
  <2> QED BY <2>2 DEF Disposing
<1>13. /\ gone' \subseteq gone \cup {<<s, x>>}
       /\ disposers' \in {disposers, [disposers EXCEPT ![s] = RemoveFirst(@, x)]}
  BY <1>2, <1>3 DEF DisposerEnds
<1>14. ASSUME NEW t \in Scopes PROVE Ordered(t, disposers[t])'
  <2>1. PICK list \in Seq(Keys \cup Things) :
          list = disposers[t] /\ IsInjective(list) /\ Ordered(t, list)
    BY DEF World, Shapes, Resources, OrderInv, Lists
  <2>2. PICK next : next = disposers'[t] /\ Ordered(t, next)
    <3>1. CASE disposers'[t] = list
      BY <2>1, <3>1
    <3>2. CASE t = s /\ disposers'[t] = RemoveFirst(list, x)
      BY <1>4, <2>1, <3>2, OrderedRemove
    <3> QED BY <1>13, <2>1, <3>1, <3>2 DEF World, Shapes
  <2>3. Ordered(t, next)'
    BY <1>1, <2>2, OrderedKept
  <2> QED BY <2>2, <2>3
<1> QED BY <1>1, <1>4, <1>12, <1>13, <1>14 DEF OrderInv, Called, Lists

LEMMA NextOrder ==
  ASSUME World, Stacks, Links, OrderInv, [Next]_vars
  PROVE  OrderInv'
<1>1. ASSUME NEW s \in Scopes,
             Child(s) \/ (\E k \in Keys : Provide(s, k)) \/ (\E x \in Things : Own(s, x))
      PROVE  OrderInv'
  <2>1. CASE Child(s) \/ \E k \in Keys : Provide(s, k)
    BY <2>1, OrderSame DEF Child, Provide, resolveVars, disposeVars, closeVars
  <2> QED BY <1>1, <2>1, OwnOrder
<1>2. ASSUME NEW p \in Provider, ProviderStep(p) PROVE OrderInv'
  <2>1. CASE (\E k \in Keys : UseNeed(p, k)) \/ ProviderFails(p) \/ ProviderCancelled(p)
    BY <2>1, OrderSame DEF UseNeed, ProviderFails, ProviderCancelled, disposeVars, closeVars
  <2> QED BY <1>2, <2>1, ProviderReturnsOrder DEF ProviderStep
<1>3. ASSUME NEW c \in Closers,
             (\E s \in Scopes : Close(c, s)) \/ CloserStep(c) \/ GatherCancelled(c)
      PROVE  OrderInv'
  <2>1. CASE \E s \in Scopes : Close(c, s)
    BY <2>1, CloseOrderStep
  <2>2. CASE \/ AlreadyComplete(c) \/ Enter(c) \/ GatherDone(c) \/ GatherRaises(c)
             \/ GatherCancelled(c) \/ DisposersFailed(c) \/ Complete(c)
             \/ ChildrenDone(c) /\ Top(c).failed
    <3>1. UNCHANGED <<made, uses, disposers, gone, tried>> /\ closer[c] # <<>>
      BY <2>2 DEF AlreadyComplete, Enter, GatherDone, GatherRaises, GatherCancelled,
         DisposersFailed, Complete, ChildrenDone, Runs, WakesUp, At, resolveVars, disposeVars
    <3>2. \/ \E failed \in BOOLEAN : Return(c, failed)
          \/ GoTo(c, [Top(c) EXCEPT !.pc = "children", !.todo = children[Top(c).scope]])
          \/ \E pc \in {"gather", "abort"} : GoTo(c, [Top(c) EXCEPT !.pc = pc])
      BY <2>2 DEF AlreadyComplete, Enter, GatherDone, GatherRaises, GatherCancelled,
         DisposersFailed, Complete, ChildrenDone, ChildrenFailed
    <3> QED BY <3>1, <3>2, EarlyOrder
  <2>3. ASSUME NEW success \in BOOLEAN, DisposerEnds(c, success) PROVE OrderInv'
    BY <2>3, DisposerEndsOrder
  <2> QED BY <1>3, <2>1, <2>2, <2>3, CloseChildOrder, ChildrenDoneOrder, SkipDisposerOrder,
             CallDisposerOrder DEF CloserStep
<1>4. CASE UNCHANGED vars
  BY <1>4, OrderSame DEF vars
<1>5. ASSUME NEW u \in Users, NEW k \in Keys, Use(u, k) PROVE OrderInv'
  BY <1>5, OrderSame DEF Use, disposeVars, closeVars
<1>6. CASE Building
  BY <1>1, <1>6 DEF Building
<1> QED BY <1>2, <1>3, <1>4, <1>5, <1>6 DEF Next

\* What providers hold on to lies in sight of their scope, and in every list of disposers,
\* also in what is left of the snapshots of suspended calls of aclose, a resource comes
\* before those whose providers had resolved it, which are closed first.
THEOREM OrderInvariance == Spec => [](Links /\ OrderInv)
<1>1. Init => Links /\ OrderInv
  <2>1. SUFFICES ASSUME Init PROVE Links /\ OrderInv
    OBVIOUS
  <2>2. Links
    BY <2>1, TreeAssumption DEF Init, Links, Holds, NoTask, Provider
  <2>3. Range(<<>>) = {}
    <3>1. DOMAIN <<>> = {}
      OBVIOUS
    <3> QED BY <3>1 DEF Range
  <2> QED BY <2>1, <2>2, <2>3 DEF Init, OrderInv, Called, Lists, Ordered, Disposing, DisposesInOrder
<1>2. ScopeInv /\ Links /\ OrderInv /\ [Next]_vars => Links' /\ OrderInv'
  BY NextLinks, NextOrder DEF ScopeInv, World
<1> QED BY <1>1, <1>2, Invariance, PTL DEF Spec

\* A scope whose children are all complete has no scope below it that is not.
LEMMA NothingOpenBelow ==
  ASSUME ScopeInv, Links, NEW t \in Scopes, NEW s \in exists, s # t, t \in Ancestors[s],
         \A r \in exists \ {Root} : Parent[r] = t => r \in complete
  PROVE  s \in complete
<1>1. SUFFICES ASSUME s \notin complete PROVE FALSE
  OBVIOUS
<1>2. PICK S : S = {r \in exists : r \notin complete /\ r # t}
  OBVIOUS
<1>3. S \in SUBSET Scopes /\ s \in Scopes /\ s \in S
  BY <1>1, <1>2 DEF ScopeInv, World, Shapes
<1>4. ASSUME NEW r \in S, r # Root PROVE Parent[r] \in S
  <2>1. r \in exists /\ r \notin complete /\ Parent[r] \in exists /\ Parent[r] # t
    BY <1>2, <1>4 DEF Links
  <2>2. r \in Range(children[Parent[r]])
    BY <1>4, <2>1 DEF ScopeInv, World, Family
  <2>3. Parent[r] \notin complete
    BY <2>2 DEF ScopeInv, World, Emptied
  <2> QED BY <1>2, <2>1, <2>3
<1>5. Upward(S)
  BY <1>4 DEF Upward
<1>6. t \in S
  BY <1>3, <1>5, AncestorsGoUp
<1> QED BY <1>2, <1>6

\* A scope's disposers wait for all its children, and a resource waits for every resource
\* whose provider had resolved it, in its own scope or below, whatever failed, was cancelled
\* or was closed by another call of aclose meanwhile.
THEOREM ClosedInOrder == Spec => []CloseOrder
<1>1. ASSUME ScopeInv, Links, OrderInv, NEW c \in Closers, At(c, "await")
      PROVE  /\ \A s \in exists \ {Root} : Top(c).scope = Parent[s] => s \in complete
             /\ \A p \in made : Awaits(c) \in uses[p] => p \in tried
  <2>1. PICK f \in Frames : f = Top(c) /\ FrameOK(f) /\ closer[c] # <<>>
    BY <1>1, TopFrame DEF At, ScopeInv
  <2>2. PICK t \in Scopes, todo \in Seq(Item) : t = f.scope /\ todo = f.todo
    BY <2>1 DEF Frames
  <2>3. /\ f.pc = "await" /\ todo # <<>> /\ IsInjective(todo) /\ Range(children[t]) = {}
        /\ Ordered(t, todo) /\ <<t, Last(todo)>> \in tried
        /\ Awaits(c) = <<t, Last(todo)>>
    BY <1>1, <2>1, <2>2 DEF At, FrameOK, OrderInv, Disposing, DisposesInOrder, Awaits, Due
  <2>4. \A s \in exists \ {Root} : Parent[s] = t => s \in complete
    BY <1>1, <2>3 DEF ScopeInv, World, Family
  <2>5. ASSUME NEW p \in made, Awaits(c) \in uses[p] PROVE p \in tried
    <3>1. PICK s \in Scopes, k \in Keys : p = <<s, k>>
      BY <1>1 DEF ScopeInv, World, Shapes, Provider
    <3>2. s \in exists /\ <<t, Last(todo)>> \in made /\ t \in Ancestors[s]
      <4>1. PICK q : q = <<t, Last(todo)>>
        OBVIOUS
      <4>2. p[1] = s /\ q[1] = t
        BY <3>1, <4>1
      <4> QED BY <1>1, <2>3, <2>5, <4>1, <4>2 DEF Links
    <3>3. CASE s # t
      <4>1. s \in complete
        BY <1>1, <2>4, <3>2, <3>3, NothingOpenBelow
      <4>2. p \in gone
        BY <1>1, <3>1, <4>1 DEF ScopeInv, World, Resources, Emptied
      <4> QED BY <1>1, <4>2 DEF OrderInv, Called
    <3>4. CASE s = t
      <4>1. Last(todo) \in Keys /\ Last(todo) \in Range(todo)
        <5>1. Last(todo) \in Keys
          BY <1>1, <3>2 DEF ScopeInv, World, Shapes, Provider
        <5> QED BY <2>3, <5>1, FrontAndLast
      <4>2. <<t, k>> \in tried \/ Last(todo) = k \/ Before(todo, Last(todo), k)
        BY <2>3, <2>5, <3>1, <3>4, <4>1 DEF Ordered
      <4>3. ~Before(todo, Last(todo), k)
        BY <2>3, NothingAfterLast
      <4> QED BY <2>3, <3>1, <3>4, <4>2, <4>3
    <3> QED BY <3>3, <3>4
  <2> QED BY <2>1, <2>2, <2>4, <2>5
<1>2. ScopeInv /\ Links /\ OrderInv => CloseOrder
  BY <1>1 DEF CloseOrder
<1> QED BY <1>2, Invariance, OrderInvariance, PTL
=============================================================================
