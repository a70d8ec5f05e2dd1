------------------------- MODULE CommandLineProofs --------------------------
(***************************************************************************)
(* Proofs about CommandLine for any number of processes, directories and   *)
(* nicknames, any history of commands and any points at which processes    *)
(* are killed: the registry implements AtomicRegistry, and no command      *)
(* spoils a workspace for the others.                                      *)
(***************************************************************************)
EXTENDS CommandLine, TLAPS

-----------------------------------------------------------------------------
(* The registry. *)

\* What the argument parser lets through for a change of the registry.
Change(op) ==
  \/ op.kind = "add" /\ op.name \in Names /\ op.path \in Dirs /\ op.force \in BOOLEAN
  \/ op.kind \in {"use", "remove"} /\ op.name \in Names

\* Who is where in its change: the lock has one holder at most, and what it is going to write
\* is its change of what the file still says.
CallOK(p) ==
  /\ call[p] = [pc |-> call[p].pc, op |-> call[p].op, save |-> call[p].save]
  /\ call[p].pc \in {"none", "locking", "locked", "written"}
  /\ call[p].pc \in {"locked", "written"} <=> holder = p
  /\ call[p].pc # "none" => Change(call[p].op)
  /\ call[p].pc = "written" =>
       Legal(registry, call[p].op) /\ call[p].save = Changed(registry, call[p].op)

RegistryInv ==
  /\ Book(registry)
  /\ holder \in Processes \cup {None}
  /\ call = [p \in Processes |-> call[p]]
  /\ \A p \in Processes : CallOK(p)

NamesOf(book) == {book.records[k].name : k \in DOMAIN book.records}

LEMMA NamesOfBook ==
  ASSUME NEW book, Book(book)
  PROVE  \A n : n \in NamesOf(book) <=> /\ n \in Names /\ Key[n] \in DOMAIN book.records
                                        /\ book.records[Key[n]].name = n
BY DEF Book, NamesOf

\* A nickname is known by any spelling of it.
LEMMA KnownNames ==
  ASSUME NEW book, Book(book), NEW n \in Names
  PROVE  Known(book, n) <=> NamesOf(book) \cap Atomic!Same(n) # {}
<1>1. ASSUME Known(book, n) PROVE NamesOf(book) \cap Atomic!Same(n) # {}
  <2>1. book.records[Key[n]].name \in NamesOf(book) \cap Atomic!Same(n)
    BY <1>1 DEF Book, Known, NamesOf, Atomic!Same
  <2> QED BY <2>1
<1>2. ASSUME NEW m \in NamesOf(book) \cap Atomic!Same(n) PROVE Known(book, n)
  BY <1>2, NamesOfBook DEF Known, Atomic!Same
<1> QED BY <1>1, <1>2

LEMMA RegisteredIsBook ==
  ASSUME NEW book, Book(book), NEW op, op.name \in Names, op.path \in Dirs
  PROVE  /\ Book(Registered(book, op))
         /\ NamesOf(Registered(book, op))
              = (NamesOf(book) \ Atomic!Same(op.name)) \cup {op.name}
<1> DEFINE b2 == Registered(book, op)
           k == Key[op.name]
<1>1. /\ b2 = [records |-> b2.records, default |-> b2.default]
      /\ b2.records = [j \in DOMAIN book.records \cup {k} |->
                         IF j = k THEN [name |-> op.name, path |-> op.path] ELSE book.records[j]]
      /\ b2.default = IF IsDefault(book, op.name) THEN op.name ELSE book.default
  BY DEF Registered
<1> HIDE DEF b2
<1>2. Book(b2)
  <2>1. ASSUME NEW j \in DOMAIN b2.records
        PROVE  /\ b2.records[j] = [name |-> b2.records[j].name, path |-> b2.records[j].path]
               /\ b2.records[j].name \in Names /\ Key[b2.records[j].name] = j
               /\ b2.records[j].path \in Dirs
    BY <1>1 DEF Book
  <2>2. b2.default # None => b2.default \in Names /\ Key[b2.default] \in DOMAIN b2.records
    BY <1>1 DEF Book, IsDefault
  <2>3. b2.records = [j \in DOMAIN b2.records |-> b2.records[j]]
    BY <1>1
  <2> QED BY <1>1, <2>1, <2>2, <2>3 DEF Book
<1>3. ASSUME NEW n
      PROVE  n \in NamesOf(b2) <=> n \in (NamesOf(book) \ Atomic!Same(op.name)) \cup {op.name}
  BY <1>1, <1>2, NamesOfBook DEF Atomic!Same
<1> QED BY <1>2, <1>3 DEF b2

LEMMA RemovedIsBook ==
  ASSUME NEW book, Book(book), NEW op, op.name \in Names
  PROVE  /\ Book(Removed(book, op))
         /\ NamesOf(Removed(book, op)) = NamesOf(book) \ Atomic!Same(op.name)
<1> DEFINE b2 == Removed(book, op)
           k == Key[op.name]
<1>1. /\ b2 = [records |-> b2.records, default |-> b2.default]
      /\ b2.records = [j \in DOMAIN book.records \ {k} |-> book.records[j]]
      /\ b2.default = IF IsDefault(book, op.name) THEN None ELSE book.default
  BY DEF Removed, Restrict
<1> HIDE DEF b2
<1>2. Book(b2)
  <2>1. ASSUME NEW j \in DOMAIN b2.records
        PROVE  /\ b2.records[j] = [name |-> b2.records[j].name, path |-> b2.records[j].path]
               /\ b2.records[j].name \in Names /\ Key[b2.records[j].name] = j
               /\ b2.records[j].path \in Dirs
    BY <1>1 DEF Book
  <2>2. b2.default # None => b2.default \in Names /\ Key[b2.default] \in DOMAIN b2.records
    BY <1>1 DEF Book, IsDefault
  <2>3. b2.records = [j \in DOMAIN b2.records |-> b2.records[j]]
    BY <1>1
  <2> QED BY <1>1, <2>1, <2>2, <2>3 DEF Book
<1>3. ASSUME NEW n
      PROVE  n \in NamesOf(b2) <=> n \in NamesOf(book) \ Atomic!Same(op.name)
  BY <1>1, <1>2, NamesOfBook DEF Atomic!Same
<1> QED BY <1>2, <1>3 DEF b2

\* A change of the file by a legal operation is one step of the abstract registry.
LEMMA ChangeIsAtomic ==
  ASSUME Book(registry), NEW op, Change(op), Legal(registry, op),
         registry' = Changed(registry, op)
  PROVE  /\ Book(registry')
         /\ \E n \in Names : \/ \E d \in Dirs, force \in BOOLEAN : Atomic!Add(n, d, force)
                             \/ Atomic!Use(n)
                             \/ Atomic!Remove(n)
<1> DEFINE n == op.name
<1>0. /\ n \in Names
      /\ Place = [m \in NamesOf(registry) |-> registry.records[Key[m]].path]
      /\ Place' = [m \in NamesOf(registry') |-> registry'.records[Key[m]].path]
      /\ DOMAIN Place = NamesOf(registry)
  BY DEF Change, Place, NamesOf
<1>1. Atomic!Registered(n) <=> Known(registry, n)
  BY <1>0, KnownNames DEF Atomic!Registered
<1>2. registry.default \in Atomic!Same(n) <=> IsDefault(registry, n)
  BY <1>0, RegistryAssumption DEF Atomic!Same, IsDefault, Book
<1>3. CASE op.kind = "add"
  <2>1. /\ registry' = Registered(registry, op)
        /\ op.path \in Dirs /\ op.force \in BOOLEAN
        /\ op.force \/ ~Known(registry, n)
    BY <1>3 DEF Changed, Change, Legal
  <2>2. /\ Book(registry')
        /\ NamesOf(registry') = (NamesOf(registry) \ Atomic!Same(n)) \cup {n}
    BY <1>0, <2>1, RegisteredIsBook
  <2>3. Atomic!Others(n) \cup {n} = NamesOf(registry')
    BY <1>0, <2>2 DEF Atomic!Others
  <2>4. ASSUME NEW m \in NamesOf(registry')
        PROVE  registry'.records[Key[m]].path = IF m = n THEN op.path ELSE Place[m]
    <3>1. Key[m] \in DOMAIN registry.records \cup {Key[n]} /\ m \in Names
      BY <1>0, <2>2, NamesOfBook
    <3>2. registry'.records[Key[m]]
            = IF Key[m] = Key[n] THEN [name |-> n, path |-> op.path] ELSE registry.records[Key[m]]
      BY <2>1, <3>1 DEF Registered
    <3>3. m # n => m \in NamesOf(registry) /\ Key[m] # Key[n]
      BY <2>2, <3>1 DEF Atomic!Same
    <3> QED BY <1>0, <3>2, <3>3
  <2>5. Place' = [m \in Atomic!Others(n) \cup {n} |-> IF m = n THEN op.path ELSE Place[m]]
    BY <1>0, <2>3, <2>4
  <2>6. registry'.default = IF registry.default \in Atomic!Same(n) THEN n ELSE registry.default
    BY <1>2, <2>1 DEF Registered
  <2>7. Atomic!Add(n, op.path, op.force)
    BY <1>1, <2>1, <2>5, <2>6 DEF Atomic!Add
  <2> QED BY <1>0, <2>1, <2>2, <2>7
<1>4. CASE op.kind = "use"
  <2>1. /\ registry' = [registry EXCEPT !.default = Record(registry, n).name]
        /\ Known(registry, n)
    BY <1>4 DEF Changed, Legal
  <2>2. /\ registry'.records = registry.records
        /\ registry'.default = registry.records[Key[n]].name
        /\ registry' = [records |-> registry'.records, default |-> registry'.default]
    BY <2>1 DEF Record, Book
  <2>3. registry'.default \in NamesOf(registry) \cap Atomic!Same(n)
    BY <2>1, <2>2 DEF Book, Known, NamesOf, Atomic!Same
  <2>4. Book(registry')
    BY <2>1, <2>2, <2>3 DEF Book, Known
  <2>5. Place' = Place
    BY <2>2 DEF Place
  <2>6. Atomic!Use(n)
    BY <1>0, <2>3, <2>5 DEF Atomic!Use
  <2> QED BY <1>0, <2>4, <2>6
<1>5. CASE op.kind = "remove"
  <2>1. registry' = Removed(registry, op) /\ Known(registry, n)
    BY <1>5 DEF Changed, Legal
  <2>2. Book(registry') /\ NamesOf(registry') = NamesOf(registry) \ Atomic!Same(n)
    BY <1>0, <2>1, RemovedIsBook
  <2>3. Atomic!Others(n) = NamesOf(registry')
    BY <1>0, <2>2 DEF Atomic!Others
  <2>4. ASSUME NEW m \in NamesOf(registry')
        PROVE  registry'.records[Key[m]].path = Place[m]
    <3>1. Key[m] \in DOMAIN registry'.records /\ m \in NamesOf(registry)
      BY <2>2, NamesOfBook
    <3>2. registry'.records[Key[m]] = registry.records[Key[m]]
      BY <2>1, <3>1 DEF Removed, Restrict
    <3> QED BY <1>0, <3>1, <3>2
  <2>5. Place' = [m \in Atomic!Others(n) |-> Place[m]]
    BY <1>0, <2>3, <2>4
  <2>6. registry'.default = IF registry.default \in Atomic!Same(n) THEN None ELSE registry.default
    BY <1>2, <2>1 DEF Removed
  <2>7. Atomic!Remove(n)
    BY <1>1, <2>1, <2>5, <2>6 DEF Atomic!Remove
  <2> QED BY <1>0, <2>2, <2>7
<1> QED BY <1>3, <1>4, <1>5 DEF Change

-----------------------------------------------------------------------------
(* What the steps of a process do to the registry. *)

\* What the abstract registry sees of a step.
Shown == <<Place, registry.default, told>>

AbstractStep == Atomic!Next \/ UNCHANGED Shown

\* Process p changes its call and leaves the file alone; it may take or give back the lock.
CallStep(p, c) ==
  /\ call' = [call EXCEPT ![p] = c]
  /\ registry' = registry
  /\ \/ holder' = holder
     \/ holder = None /\ holder' = p
     \/ holder = p /\ holder' = None
  /\ CallOK(p)'

LEMMA CallStepKeepsInv ==
  ASSUME RegistryInv, NEW p \in Processes, NEW c, CallStep(p, c)
  PROVE  RegistryInv'
<1>1. None \notin Processes
  BY RegistryAssumption
<1>2. call' = [q \in Processes |-> call'[q]] /\ \A q \in Processes \ {p} : call'[q] = call[q]
  BY DEF RegistryInv, CallStep
<1>3. holder' \in Processes \cup {None} /\ Book(registry')
  BY DEF RegistryInv, CallStep
<1>4. ASSUME NEW q \in Processes \ {p} PROVE CallOK(q)'
  <2>1. CallOK(q) /\ call'[q] = call[q] /\ registry' = registry
    BY <1>2 DEF RegistryInv, CallStep
  <2>2. holder' = q <=> holder = q
    BY <1>1 DEF CallStep
  <2> QED BY <2>1, <2>2 DEF CallOK
<1> QED BY <1>2, <1>3, <1>4 DEF RegistryInv, CallStep

LEMMA NoCall ==
  ASSUME NEW p \in Processes, call'[p] = NoRegistryCall, holder' # p
  PROVE  CallOK(p)'
BY DEF CallOK, NoRegistryCall

\* A step that leaves the file alone and tells process p something, or nothing to anybody.
LEMMA FileUntouched ==
  ASSUME registry' = registry, NEW p \in Processes,
         \/ told' = told
         \/ told' = [told EXCEPT ![p] = "refused"]
         \/ told' = [told EXCEPT ![p] = None]
  PROVE  AbstractStep
<1>1. Place' = Place /\ registry'.default = registry.default
  BY DEF Place
<1>2. CASE told' = told
  BY <1>1, <1>2 DEF AbstractStep, Shown
<1>3. CASE told' = [told EXCEPT ![p] = "refused"]
  BY <1>1, <1>3 DEF AbstractStep, Atomic!Next, Atomic!Refused
<1>4. CASE told' = [told EXCEPT ![p] = None]
  BY <1>1, <1>4 DEF AbstractStep, Atomic!Next, Atomic!Forgets
<1> QED BY <1>2, <1>3, <1>4

RegistryGood == RegistryInv' /\ AbstractStep

LEMMA StartChangeIsGood ==
  ASSUME RegistryInv, NEW p \in Processes, NEW op, Change(op), StartChange(p, op)
  PROVE  RegistryGood
<1>1. registry' = registry /\ holder' = holder /\ holder # p /\ call[p] = NoRegistryCall
  BY DEF StartChange, RegistryInv, CallOK, NoRegistryCall
<1>2. CASE Acceptable(op)
  <2> DEFINE c == [NoRegistryCall EXCEPT !.pc = "locking", !.op = op]
  <2>1. call' = [call EXCEPT ![p] = c] /\ told' = [told EXCEPT ![p] = None]
    BY <1>2 DEF StartChange
  <2>2. c = [pc |-> "locking", op |-> op, save |-> NoRegistry]
    <3> DEFINE r == [NoRegistryCall EXCEPT !.pc = "locking"]
    <3>1. r = [pc |-> "locking", op |-> NoChange, save |-> NoRegistry]
      BY DEF NoRegistryCall
    <3> HIDE DEF r
    <3>2. [r EXCEPT !.op = op] = [pc |-> "locking", op |-> op, save |-> NoRegistry]
      BY <3>1
    <3> QED BY <3>2 DEF r
  <2> HIDE DEF c
  <2>3. call'[p] = c
    BY <2>1 DEF RegistryInv
  <2>4. CallOK(p)'
    BY <1>1, <2>2, <2>3 DEF CallOK, Change
  <2> QED BY <1>1, <2>1, <2>4, CallStepKeepsInv, FileUntouched DEF CallStep, RegistryGood
<1>3. CASE Refuse(p)
  <2>1. call' = [call EXCEPT ![p] = NoRegistryCall] /\ told' = [told EXCEPT ![p] = "refused"]
    BY <1>3 DEF Refuse
  <2>2. CallOK(p)'
    BY <1>1, <2>1, NoCall DEF RegistryInv
  <2> QED BY <1>1, <2>1, <2>2, CallStepKeepsInv, FileUntouched DEF CallStep, RegistryGood
<1> QED BY <1>2, <1>3 DEF StartChange

LEMMA LockIsGood ==
  ASSUME RegistryInv, NEW p \in Processes, Lock(p)
  PROVE  RegistryGood
<1> DEFINE c == [call[p] EXCEPT !.pc = "locked"]
<1>1. /\ registry' = registry /\ told' = told /\ holder = None /\ holder' = p
      /\ call' = [call EXCEPT ![p] = c]
  BY DEF Lock, LockIsFree
<1>2. c = [pc |-> "locked", op |-> call[p].op, save |-> call[p].save] /\ Change(call[p].op)
  BY DEF Lock, RegistryInv, CallOK
<1> HIDE DEF c
<1>3. call'[p] = c
  BY <1>1 DEF RegistryInv
<1>4. CallOK(p)'
  BY <1>1, <1>2, <1>3 DEF CallOK, Change
<1> QED BY <1>1, <1>4, CallStepKeepsInv, FileUntouched DEF CallStep, RegistryGood

LEMMA ReadLockedIsGood ==
  ASSUME RegistryInv, NEW p \in Processes, ReadLocked(p)
  PROVE  RegistryGood
<1>1. registry' = registry /\ holder = p /\ None # p
  BY RegistryAssumption DEF ReadLocked, RegistryInv, CallOK
<1>2. CASE /\ Legal(registry, call[p].op)
           /\ call' = [call EXCEPT ![p].pc = "written", ![p].save = Changed(registry, call[p].op)]
           /\ UNCHANGED <<holder, told>>
  <2> DEFINE c == [pc |-> "written", op |-> call[p].op, save |-> Changed(registry, call[p].op)]
  <2>1. [[call[p] EXCEPT !.pc = "written"] EXCEPT !.save = Changed(registry, call[p].op)] = c
    <3> DEFINE r == [call[p] EXCEPT !.pc = "written"]
    <3>1. r = [pc |-> "written", op |-> call[p].op, save |-> call[p].save]
      BY DEF RegistryInv, CallOK
    <3> HIDE DEF r
    <3>2. [r EXCEPT !.save = Changed(registry, call[p].op)] = c
      BY <3>1
    <3> QED BY <3>2 DEF r
  <2>2. call' = [call EXCEPT ![p] = c]
    BY <1>2, <2>1 DEF RegistryInv
  <2>3. /\ c = [pc |-> c.pc, op |-> c.op, save |-> c.save]
        /\ c.pc = "written" /\ c.op = call[p].op /\ c.save = Changed(registry, c.op)
    OBVIOUS
  <2> HIDE DEF c
  <2>4. call'[p] = c
    BY <2>2 DEF RegistryInv
  <2>5. Change(c.op) /\ Legal(registry', c.op) /\ c.save = Changed(registry', c.op)
    BY <1>1, <1>2, <2>3 DEF RegistryInv, CallOK, ReadLocked
  <2>6. CallOK(p)'
    BY <1>1, <1>2, <2>3, <2>4, <2>5 DEF CallOK, Change
  <2> QED BY <1>1, <1>2, <2>2, <2>6, CallStepKeepsInv, FileUntouched DEF CallStep, RegistryGood
<1>3. CASE Refuse(p) /\ holder' = None
  <2>1. call' = [call EXCEPT ![p] = NoRegistryCall] /\ told' = [told EXCEPT ![p] = "refused"]
    BY <1>3 DEF Refuse
  <2>2. CallOK(p)'
    BY <1>1, <1>3, <2>1, NoCall DEF RegistryInv
  <2> QED BY <1>1, <1>3, <2>1, <2>2, CallStepKeepsInv, FileUntouched DEF CallStep, RegistryGood
<1> QED BY <1>2, <1>3 DEF ReadLocked

\* The file still is what the process has read, for nobody else had the lock since.
LEMMA ReplaceIsGood ==
  ASSUME RegistryInv, NEW p \in Processes, Replace(p)
  PROVE  RegistryGood
<1> DEFINE op == call[p].op
<1>1. /\ Book(registry) /\ Change(op) /\ Legal(registry, op) /\ holder = p
      /\ registry' = Changed(registry, op)
  BY DEF Replace, RegistryInv, CallOK
<1>2. /\ Book(registry')
      /\ \E n \in Names : \/ \E d \in Dirs, force \in BOOLEAN : Atomic!Add(n, d, force)
                          \/ Atomic!Use(n)
                          \/ Atomic!Remove(n)
  BY <1>1, ChangeIsAtomic
<1>3. Atomic!Done(p)
  BY <1>2 DEF Replace, Atomic!Done
<1>4. /\ call' = [q \in Processes |-> call'[q]] /\ call'[p] = NoRegistryCall
      /\ \A q \in Processes \ {p} : call'[q] = call[q] /\ call[q].pc \notin {"locked", "written"}
      /\ holder' = None /\ None \notin Processes
  BY <1>1, RegistryAssumption DEF Replace, RegistryInv, CallOK
<1>5. ASSUME NEW q \in Processes PROVE CallOK(q)'
  <2>1. CASE q = p
    BY <1>4, <2>1, NoCall
  <2>2. CASE q # p
    BY <1>4, <2>2 DEF RegistryInv, CallOK
  <2> QED BY <2>1, <2>2
<1> QED BY <1>2, <1>3, <1>4, <1>5 DEF RegistryInv, RegistryGood, AbstractStep, Atomic!Next

LEMMA GiveUpIsGood ==
  ASSUME RegistryInv, NEW p \in Processes, registry' = registry,
         call' = [call EXCEPT ![p] = NoRegistryCall],
         holder' = (IF holder = p THEN None ELSE holder),
         told' = [told EXCEPT ![p] = "refused"] \/ told' = [told EXCEPT ![p] = None]
  PROVE  RegistryGood
<1>1. None # p
  BY RegistryAssumption
<1>2. CallOK(p)'
  BY <1>1, NoCall DEF RegistryInv
<1> QED BY <1>2, CallStepKeepsInv, FileUntouched DEF CallStep, RegistryGood

LEMMA ChangeStepIsGood ==
  ASSUME RegistryInv, NEW p \in Processes, ChangeStep(p)
  PROVE  RegistryGood
<1>1. ASSUME ChangeFails(p) PROVE RegistryGood
  BY <1>1, GiveUpIsGood DEF ChangeFails, Refuse
<1> QED BY <1>1, LockIsGood, ReadLockedIsGood, ReplaceIsGood DEF ChangeStep

\* Steps of workspaces and users do not touch the registry.
LEMMA OtherStepIsGood ==
  ASSUME RegistryInv, UNCHANGED <<registry, holder, call, told>>
  PROVE  RegistryGood
<1>1. AbstractStep
  BY DEF AbstractStep, Shown, Place
<1>2. RegistryInv'
  BY DEF RegistryInv, CallOK
<1> QED BY <1>1, <1>2 DEF RegistryGood

-----------------------------------------------------------------------------
(* The workspaces. *)

WorkPCs == {"none", "init", "create", "write", "resources", "index", "prepare", "upgrade",
            "material", "backup", "template"}

Results == {"none", "raised", "prepared", "initialized", "upgrade required"}

Works == [pc : WorkPCs, dir : Dirs \cup {"none"}, refresh : BOOLEAN,
          result : Results]

\* The process has created the configuration of its directory.
Owner(w) == w.pc \in {"write", "resources", "index"} \/ w.result = "initialized"

\* What a process with local state w relies on in its directory, whose state is s.
Relies(w, s) ==
  /\ w.pc = "write" => s.config \in {"partial", "current"}
  /\ w.pc \in {"resources", "index"} \/ w.result = "initialized" => s.config = "current"
  /\ w.pc = "index" \/ w.result = "initialized" => s.resources = "folder"
  /\ w.result = "initialized" => s.index = "file"
  /\ w.pc \in {"material", "backup", "template"} => s.config # "absent"
  /\ w.pc = "template" /\ s.config \in Outdated => s.config \in s.backups

WorkOK(w) ==
  /\ w \in Works
  /\ w.pc # "none" => w.result = "none"
  /\ w.pc # "none" \/ w.result # "none" => w.dir \in Dirs

DirOK(s) ==
  /\ s = [config |-> s.config, resources |-> s.resources, index |-> s.index,
          backups |-> s.backups, template |-> s.template]
  /\ s.config \in Configurations
  /\ s.template => s.config # "absent"
  /\ s.template /\ s.config \in Outdated => s.config \in s.backups

WorkspaceInv ==
  /\ files = [d \in Dirs |-> files[d]] /\ \A d \in Dirs : DirOK(files[d])
  /\ work = [p \in Processes |-> work[p]] /\ \A p \in Processes : WorkOK(work[p])
  /\ \A p \in Processes : work[p].dir \in Dirs => Relies(work[p], Here(p))
  /\ \A p, q \in Processes :
       Owner(work[p]) /\ Owner(work[q]) /\ work[p].dir = work[q].dir => p = q

\* What any step may do to a directory: it never takes away what others rely on.
Later(s, s2) ==
  /\ s.config # "absent" => s2.config # "absent"
  /\ s.config \in {"partial", "current"} => s2.config \in {"partial", "current"}
  /\ s.config = "current" => s2.config = "current"
  /\ s2.config \in Outdated => s2.config = s.config \/ s.config = "absent"
  /\ s.resources = "folder" => s2.resources = "folder"
  /\ s.index = "file" => s2.index = "file"
  /\ s.backups \subseteq s2.backups

LEMMA LaterKeepsRelies ==
  ASSUME NEW w, NEW s, NEW s2, WorkOK(w), Relies(w, s), Later(s, s2)
  PROVE  Relies(w, s2)
BY DEF Relies, Later

\* Directory d becomes s2, and nothing else changes.
DirStep(d, s2) ==
  /\ files' = [files EXCEPT ![d] = s2]
  /\ DirOK(s2) /\ Later(files[d], s2)

LEMMA DirStepKeeps ==
  ASSUME WorkspaceInv, NEW d \in Dirs, NEW s2, DirStep(d, s2)
  PROVE  /\ files' = [e \in Dirs |-> files'[e]] /\ files'[d] = s2
         /\ \A e \in Dirs : DirOK(files'[e]) /\ Later(files[e], files'[e])
<1>1. files'[d] = s2 /\ \A e \in Dirs \ {d} : files'[e] = files[e]
  BY DEF WorkspaceInv, DirStep
<1>2. \A s : Later(s, s)
  BY DEF Later
<1> QED BY <1>1, <1>2 DEF WorkspaceInv, DirStep

\* Process p becomes w2 in directory d, which becomes s2.
LEMMA StepKeepsInv ==
  ASSUME WorkspaceInv, NEW p \in Processes, NEW w2, work' = [work EXCEPT ![p] = w2], WorkOK(w2),
         NEW d \in Dirs, NEW s2, DirStep(d, s2), w2.dir = d, Relies(w2, s2),
         Owner(w2) => files[d].config = "absent" \/ (Owner(work[p]) /\ work[p].dir = d)
  PROVE  WorkspaceInv'
<1>1. /\ files' = [e \in Dirs |-> files'[e]] /\ files'[d] = s2
      /\ \A e \in Dirs : DirOK(files'[e]) /\ Later(files[e], files'[e])
  BY DirStepKeeps
<1>2. /\ work' = [q \in Processes |-> work'[q]] /\ work'[p] = w2
      /\ \A q \in Processes \ {p} : work'[q] = work[q]
  BY DEF WorkspaceInv
<1>3. ASSUME NEW q \in Processes, work'[q].dir \in Dirs
      PROVE  Relies(work'[q], files'[work'[q].dir])
  <2>1. CASE q = p
    BY <1>1, <1>2, <2>1
  <2>2. CASE q # p
    BY <1>1, <1>2, <1>3, <2>2, LaterKeepsRelies DEF WorkspaceInv, Here
  <2> QED BY <2>1, <2>2
<1>4. ASSUME NEW q \in Processes \ {p}, Owner(work[q]), work[q].dir = d
      PROVE  ~Owner(w2)
  <2>1. files[d].config # "absent"
    BY <1>4 DEF WorkspaceInv, Here, Relies, Owner
  <2> QED BY <1>4, <2>1 DEF WorkspaceInv
<1>5. ASSUME NEW q \in Processes, NEW r \in Processes, Owner(work'[q]), Owner(work'[r]),
             work'[q].dir = work'[r].dir
      PROVE  q = r
  BY <1>2, <1>4, <1>5 DEF WorkspaceInv
<1>6. \A q \in Processes : WorkOK(work'[q])
  BY <1>2 DEF WorkspaceInv
<1> QED BY <1>1, <1>2, <1>3, <1>5, <1>6 DEF WorkspaceInv, Here

\* The process forgets what it did, and no directory changes.
LEMMA KillKeepsInv ==
  ASSUME WorkspaceInv, NEW p \in Processes, KillWork(p), files' = files
  PROVE  WorkspaceInv'
<1>1. /\ WorkOK(NoWork) /\ ~Owner(NoWork) /\ \A s : Relies(NoWork, s)
  BY DEF NoWork, WorkOK, Works, WorkPCs, Results, Owner, Relies
<1>2. /\ work' = [q \in Processes |-> work'[q]] /\ work'[p] = NoWork
      /\ \A q \in Processes \ {p} : work'[q] = work[q]
  BY DEF WorkspaceInv, KillWork
<1> QED BY <1>1, <1>2 DEF WorkspaceInv, Here

LEMMA MergeKeepsInv ==
  ASSUME WorkspaceInv, NEW d \in Dirs, Merge(d)
  PROVE  WorkspaceInv'
<1> DEFINE s2 == [files[d] EXCEPT !.config = "current"]
<1>1. DirOK(files[d]) /\ files[d].config \in Outdated /\ work' = work
  BY DEF Merge, WorkspaceInv
<1>2. s2 = [config |-> "current", resources |-> files[d].resources, index |-> files[d].index,
            backups |-> files[d].backups, template |-> files[d].template]
  BY <1>1 DEF DirOK
<1>3. files' = [files EXCEPT ![d] = s2]
  BY DEF Merge
<1> HIDE DEF s2
<1>4. DirStep(d, s2)
  BY <1>1, <1>2, <1>3 DEF DirStep, DirOK, Later, Outdated, Configurations
<1>5. /\ files' = [e \in Dirs |-> files'[e]]
      /\ \A e \in Dirs : DirOK(files'[e]) /\ Later(files[e], files'[e])
  BY <1>4, DirStepKeeps
<1> QED BY <1>1, <1>5, LaterKeepsRelies DEF WorkspaceInv, Here

\* The local states that the steps of a process lead to.
LEMMA WorkForms ==
  ASSUME WorkspaceInv, NEW p \in Processes, work[p].pc # "none"
  PROVE  /\ work[p].dir \in Dirs /\ Relies(work[p], Here(p)) /\ DirOK(Here(p))
         /\ work[p].result = "none"
         /\ Here(p) = files[work[p].dir]
         /\ \A pc \in WorkPCs : Goes(p, pc) => work' = [work EXCEPT ![p] =
              [pc |-> pc, dir |-> work[p].dir, refresh |-> work[p].refresh, result |-> "none"]]
         /\ \A r \in Results : Ends(p, r) => work' = [work EXCEPT ![p] =
              [pc |-> "none", dir |-> work[p].dir, refresh |-> FALSE, result |-> r]]
<1>1. work[p].dir \in Dirs /\ work[p].result = "none" /\ work[p] \in Works
  BY DEF WorkspaceInv, WorkOK
<1>2. ASSUME NEW pc \in WorkPCs, Goes(p, pc)
      PROVE  work' = [work EXCEPT ![p] =
               [pc |-> pc, dir |-> work[p].dir, refresh |-> work[p].refresh, result |-> "none"]]
  <2>1. [work[p] EXCEPT !.pc = pc]
          = [pc |-> pc, dir |-> work[p].dir, refresh |-> work[p].refresh, result |-> "none"]
    BY <1>1, [work[p] EXCEPT !.pc = pc] \in Works DEF Works
  <2> QED BY <1>2, <2>1 DEF Goes
<1>3. ASSUME NEW r \in Results, Ends(p, r)
      PROVE  work' = [work EXCEPT ![p] =
               [pc |-> "none", dir |-> work[p].dir, refresh |-> FALSE, result |-> r]]
  <2> DEFINE w == [NoWork EXCEPT !.dir = work[p].dir]
             v == [w EXCEPT !.result = r]
  <2>1. NoWork \in Works
    BY DEF NoWork, Works, WorkPCs, Results
  <2>2. w \in Works /\ w.pc = "none" /\ w.dir = work[p].dir /\ w.refresh = FALSE
    BY <1>1, <2>1 DEF NoWork, Works
  <2> HIDE DEF w
  <2>3. v \in Works /\ v.pc = "none" /\ v.dir = work[p].dir /\ v.refresh = FALSE /\ v.result = r
    BY <2>2 DEF Works
  <2> HIDE DEF v
  <2>4. v = [pc |-> "none", dir |-> work[p].dir, refresh |-> FALSE, result |-> r]
    BY <2>3 DEF Works
  <2> QED BY <1>3, <2>4 DEF Ends, v, w
<1> QED BY <1>1, <1>2, <1>3 DEF WorkspaceInv, Here

-----------------------------------------------------------------------------
(* The steps in a workspace. *)

\* What FilesKept says of one step.
FilesStay ==
  \A d \in Dirs :
    /\ files'[d].config # files[d].config =>
         \/ files[d].config = "absent"
         \/ \E p \in Processes : WriteConfig(p) /\ work[p].dir = d
         \/ Merge(d)
    /\ files[d].index # "absent" => files'[d].index = files[d].index
    /\ files[d].template => files'[d].template

WorkGood == WorkspaceInv' /\ FilesStay

\* A step that changes only where the process is.
LEMMA MoveIsGood ==
  ASSUME WorkspaceInv, NEW p \in Processes, NEW w2, work' = [work EXCEPT ![p] = w2],
         files' = files, WorkOK(w2), w2.dir = work[p].dir, work[p].dir \in Dirs,
         Relies(w2, Here(p)), Owner(w2) => Owner(work[p])
  PROVE  WorkGood
<1>1. DirStep(work[p].dir, files[work[p].dir])
  BY DEF WorkspaceInv, DirStep, Later
<1>2. WorkspaceInv'
  BY <1>1, StepKeepsInv DEF Here
<1> QED BY <1>2 DEF WorkGood, FilesStay

LEMMA GoesIsGood ==
  ASSUME WorkspaceInv, NEW p \in Processes, work[p].pc # "none", files' = files,
         NEW pc \in {"init", "create", "backup"}, Goes(p, pc),
         pc = "backup" => Here(p).config # "absent"
  PROVE  WorkGood
<1> DEFINE w2 == [pc |-> pc, dir |-> work[p].dir, refresh |-> work[p].refresh, result |-> "none"]
<1>1. pc \in WorkPCs /\ work[p] \in Works
  BY DEF WorkPCs, WorkspaceInv, WorkOK
<1>2. work' = [work EXCEPT ![p] = w2] /\ work[p].dir \in Dirs
  BY <1>1, WorkForms
<1>3. WorkOK(w2) /\ w2.dir = work[p].dir /\ Relies(w2, Here(p)) /\ ~Owner(w2)
  BY <1>1, <1>2 DEF WorkOK, Works, Results, Relies, Owner
<1> HIDE DEF w2
<1> QED BY <1>2, <1>3, MoveIsGood

LEMMA EndsIsGood ==
  ASSUME WorkspaceInv, NEW p \in Processes, work[p].pc # "none", files' = files,
         NEW r \in {"raised", "prepared", "upgrade required"}, Ends(p, r)
  PROVE  WorkGood
<1> DEFINE w2 == [pc |-> "none", dir |-> work[p].dir, refresh |-> FALSE, result |-> r]
<1>1. r \in Results
  BY DEF Results
<1>2. work' = [work EXCEPT ![p] = w2] /\ work[p].dir \in Dirs
  BY <1>1, WorkForms
<1>3. WorkOK(w2) /\ w2.dir = work[p].dir /\ Relies(w2, Here(p)) /\ ~Owner(w2)
  BY <1>1, <1>2 DEF WorkOK, Works, WorkPCs, Relies, Owner
<1> HIDE DEF w2
<1> QED BY <1>2, <1>3, MoveIsGood

LEMMA CreateConfigIsGood ==
  ASSUME WorkspaceInv, NEW p \in Processes, CreateConfig(p)
  PROVE  WorkGood
<1> DEFINE d == work[p].dir
           s2 == [files[d] EXCEPT !.config = "partial"]
           w2 == [pc |-> "write", dir |-> d, refresh |-> work[p].refresh, result |-> "none"]
<1>1. /\ work[p].pc = "create" /\ d \in Dirs /\ DirOK(files[d]) /\ work[p] \in Works
      /\ Here(p) = files[d] /\ "write" \in WorkPCs
  BY WorkForms DEF CreateConfig, WorkspaceInv, WorkOK, WorkPCs
<1>2. CASE CreatedByUs(p)
  <2>1. s2 = [config |-> "partial", resources |-> files[d].resources, index |-> files[d].index,
              backups |-> files[d].backups, template |-> files[d].template]
    BY <1>1 DEF DirOK
  <2>2. files' = [files EXCEPT ![d] = s2] /\ Goes(p, "write") /\ files[d].config = "absent"
    BY <1>1, <1>2 DEF CreateConfig, CreatedByUs
  <2>3. work' = [work EXCEPT ![p] = w2]
    BY <1>1, <2>2, WorkForms
  <2> HIDE DEF s2
  <2>4. DirStep(d, s2)
    BY <1>1, <2>1, <2>2 DEF DirStep, DirOK, Later, Outdated, Configurations
  <2>5. WorkOK(w2) /\ w2.dir = d /\ Relies(w2, s2)
    BY <1>1, <2>1 DEF WorkOK, Works, Results, Relies
  <2> HIDE DEF w2
  <2>6. WorkspaceInv'
    BY <1>1, <2>2, <2>3, <2>4, <2>5, StepKeepsInv
  <2>7. FilesStay
    BY <1>1, <2>1, <2>2 DEF FilesStay, WorkspaceInv
  <2> QED BY <2>6, <2>7 DEF WorkGood
<1>3. CASE ~CreatedByUs(p)
  BY <1>1, <1>3, EndsIsGood DEF CreateConfig
<1> QED BY <1>2, <1>3

LEMMA WriteConfigIsGood ==
  ASSUME WorkspaceInv, NEW p \in Processes, WriteConfig(p)
  PROVE  WorkGood
<1> DEFINE d == work[p].dir
           s2 == [files[d] EXCEPT !.config = "current"]
           w2 == [pc |-> "resources", dir |-> d, refresh |-> work[p].refresh, result |-> "none"]
<1>1. /\ work[p].pc = "write" /\ d \in Dirs /\ DirOK(files[d]) /\ work[p] \in Works
      /\ Here(p) = files[d] /\ "resources" \in WorkPCs
  BY WorkForms DEF WriteConfig, WorkspaceInv, WorkOK, WorkPCs
<1>2. s2 = [config |-> "current", resources |-> files[d].resources, index |-> files[d].index,
            backups |-> files[d].backups, template |-> files[d].template]
  BY <1>1 DEF DirOK
<1>3. files' = [files EXCEPT ![d] = s2] /\ Goes(p, "resources")
  BY DEF WriteConfig
<1>4. work' = [work EXCEPT ![p] = w2]
  BY <1>1, <1>3, WorkForms
<1> HIDE DEF s2
<1>5. DirStep(d, s2)
  BY <1>1, <1>2, <1>3 DEF DirStep, DirOK, Later, Outdated, Configurations
<1>6. WorkOK(w2) /\ w2.dir = d /\ Relies(w2, s2) /\ Owner(work[p])
  BY <1>1, <1>2 DEF WorkOK, Works, Results, Relies, Owner
<1> HIDE DEF w2
<1>7. WorkspaceInv'
  BY <1>1, <1>3, <1>4, <1>5, <1>6, StepKeepsInv
<1>8. FilesStay
  BY <1>1, <1>2, <1>3 DEF FilesStay, WorkspaceInv
<1> QED BY <1>7, <1>8 DEF WorkGood

LEMMA MakeResourcesIsGood ==
  ASSUME WorkspaceInv, NEW p \in Processes, MakeResources(p)
  PROVE  WorkGood
<1> DEFINE d == work[p].dir
           r2 == IF files[d].resources = "absent" THEN "folder" ELSE files[d].resources
           s2 == [files[d] EXCEPT !.resources = r2]
           going == [pc |-> "index", dir |-> d, refresh |-> work[p].refresh, result |-> "none"]
           ended == [pc |-> "none", dir |-> d, refresh |-> FALSE, result |-> "raised"]
<1>1. /\ work[p].pc = "resources" /\ d \in Dirs /\ DirOK(files[d]) /\ work[p] \in Works
      /\ Here(p) = files[d] /\ "index" \in WorkPCs /\ "raised" \in Results
      /\ Relies(work[p], files[d])
  BY WorkForms DEF MakeResources, WorkspaceInv, WorkOK, WorkPCs, Results
<1>2. s2 = [config |-> files[d].config, resources |-> r2, index |-> files[d].index,
            backups |-> files[d].backups, template |-> files[d].template]
  BY <1>1 DEF DirOK
<1>3. files' = [files EXCEPT ![d] = s2]
  BY DEF MakeResources
<1> HIDE DEF s2
<1>4. DirStep(d, s2)
  BY <1>1, <1>2, <1>3 DEF DirStep, DirOK, Later
<1>5. FilesStay
  BY <1>1, <1>2, <1>3 DEF FilesStay, WorkspaceInv
<1>6. CASE files[d].resources \in {"absent", "folder"}
  <2>1. work' = [work EXCEPT ![p] = going]
    BY <1>1, <1>6, WorkForms DEF MakeResources
  <2>2. WorkOK(going) /\ going.dir = d /\ Relies(going, s2) /\ Owner(work[p])
    BY <1>1, <1>2, <1>6 DEF WorkOK, Works, Results, Relies, Owner
  <2> HIDE DEF going
  <2> QED BY <1>1, <1>4, <1>5, <2>1, <2>2, StepKeepsInv DEF WorkGood
<1>7. CASE files[d].resources \notin {"absent", "folder"}
  <2>1. work' = [work EXCEPT ![p] = ended]
    BY <1>1, <1>7, WorkForms DEF MakeResources
  <2>2. WorkOK(ended) /\ ended.dir = d /\ Relies(ended, s2) /\ ~Owner(ended)
    BY <1>1, <1>2 DEF WorkOK, Works, WorkPCs, Results, Relies, Owner
  <2> HIDE DEF ended
  <2> QED BY <1>1, <1>4, <1>5, <2>1, <2>2, StepKeepsInv DEF WorkGood
<1> QED BY <1>6, <1>7

LEMMA CreateIndexIsGood ==
  ASSUME WorkspaceInv, NEW p \in Processes, CreateIndex(p)
  PROVE  WorkGood
<1> DEFINE d == work[p].dir
           i2 == IF files[d].index = "absent" THEN "file" ELSE files[d].index
           s2 == [files[d] EXCEPT !.index = i2]
           r == IF files[d].index \in {"absent", "file"} THEN "initialized" ELSE "raised"
           w2 == [pc |-> "none", dir |-> d, refresh |-> FALSE, result |-> r]
<1>1. /\ work[p].pc = "index" /\ d \in Dirs /\ DirOK(files[d])
      /\ Here(p) = files[d] /\ r \in Results /\ Relies(work[p], files[d])
  BY WorkForms DEF CreateIndex, WorkspaceInv, WorkOK, Results
<1>2. s2 = [config |-> files[d].config, resources |-> files[d].resources, index |-> i2,
            backups |-> files[d].backups, template |-> files[d].template]
  BY <1>1 DEF DirOK
<1>3. files' = [files EXCEPT ![d] = s2] /\ Ends(p, r)
  BY <1>1 DEF CreateIndex
<1> HIDE DEF s2
<1>4. DirStep(d, s2)
  BY <1>1, <1>2, <1>3 DEF DirStep, DirOK, Later
<1>5. FilesStay
  BY <1>1, <1>2, <1>3 DEF FilesStay, WorkspaceInv
<1>6. work' = [work EXCEPT ![p] = w2]
  BY <1>1, <1>3, WorkForms
<1>7. WorkOK(w2) /\ w2.dir = d /\ Relies(w2, s2) /\ Owner(work[p])
  BY <1>1, <1>2 DEF WorkOK, Works, WorkPCs, Results, Relies, Owner
<1> HIDE DEF w2
<1> QED BY <1>1, <1>4, <1>5, <1>6, <1>7, StepKeepsInv DEF WorkGood

LEMMA BackupIsGood ==
  ASSUME WorkspaceInv, NEW p \in Processes, Backup(p)
  PROVE  WorkGood
<1> DEFINE d == work[p].dir
           b2 == files[d].backups \cup {files[d].config}
           s2 == [files[d] EXCEPT !.backups = b2]
           w2 == [pc |-> "template", dir |-> d, refresh |-> work[p].refresh, result |-> "none"]
<1>1. /\ work[p].pc = "backup" /\ d \in Dirs /\ DirOK(files[d]) /\ work[p] \in Works
      /\ Here(p) = files[d] /\ "template" \in WorkPCs /\ Relies(work[p], files[d])
  BY WorkForms DEF Backup, WorkspaceInv, WorkOK, WorkPCs
<1>2. s2 = [config |-> files[d].config, resources |-> files[d].resources,
            index |-> files[d].index, backups |-> b2, template |-> files[d].template]
  BY <1>1 DEF DirOK
<1>3. files' = [files EXCEPT ![d] = s2] /\ Goes(p, "template")
  BY <1>1 DEF Backup, Copied
<1> HIDE DEF s2
<1>4. DirStep(d, s2)
  BY <1>1, <1>2, <1>3 DEF DirStep, DirOK, Later
<1>5. FilesStay
  BY <1>1, <1>2, <1>3 DEF FilesStay, WorkspaceInv
<1>6. work' = [work EXCEPT ![p] = w2]
  BY <1>1, <1>3, WorkForms
<1>7. WorkOK(w2) /\ w2.dir = d /\ Relies(w2, s2) /\ ~Owner(w2)
  BY <1>1, <1>2 DEF WorkOK, Works, Results, Relies, Owner
<1> HIDE DEF w2
<1> QED BY <1>1, <1>4, <1>5, <1>6, <1>7, StepKeepsInv DEF WorkGood

LEMMA TemplateField ==
  ASSUME NEW s, NEW x,
         s = [config |-> s.config, resources |-> s.resources, index |-> s.index,
              backups |-> s.backups, template |-> s.template]
  PROVE  [s EXCEPT !.template = x]
           = [config |-> s.config, resources |-> s.resources, index |-> s.index,
              backups |-> s.backups, template |-> x]
OBVIOUS

LEMMA WriteTemplateIsGood ==
  ASSUME WorkspaceInv, NEW p \in Processes, WriteTemplate(p)
  PROVE  WorkGood
<1> DEFINE d == work[p].dir
           s2 == [files[d] EXCEPT !.template = TRUE]
           w2 == [pc |-> "none", dir |-> d, refresh |-> FALSE, result |-> "upgrade required"]
<1>1. /\ work[p].pc = "template" /\ d \in Dirs /\ DirOK(files[d])
      /\ Here(p) = files[d] /\ "upgrade required" \in Results /\ Relies(work[p], files[d])
  BY WorkForms DEF WriteTemplate, WorkspaceInv, WorkOK, Results
<1>2. s2 = [config |-> files[d].config, resources |-> files[d].resources,
            index |-> files[d].index, backups |-> files[d].backups, template |-> TRUE]
  <2>1. files[d] = [config |-> files[d].config, resources |-> files[d].resources,
                    index |-> files[d].index, backups |-> files[d].backups,
                    template |-> files[d].template]
    BY <1>1 DEF DirOK
  <2>2. PICK yes : yes = TRUE
    OBVIOUS
  <2>3. [files[d] EXCEPT !.template = yes]
          = [config |-> files[d].config, resources |-> files[d].resources,
             index |-> files[d].index, backups |-> files[d].backups, template |-> yes]
    BY <2>1, TemplateField
  <2> QED BY <2>2, <2>3
<1>3. files' = [files EXCEPT ![d] = s2] /\ Ends(p, "upgrade required")
  BY <1>1 DEF WriteTemplate
<1> HIDE DEF s2
<1>4. DirStep(d, s2)
  BY <1>1, <1>2, <1>3 DEF DirStep, DirOK, Later, Relies
<1>5. FilesStay
  BY <1>1, <1>2, <1>3 DEF FilesStay, WorkspaceInv
<1>6. work' = [work EXCEPT ![p] = w2]
  BY <1>1, <1>3, WorkForms
<1>7. WorkOK(w2) /\ w2.dir = d /\ Relies(w2, s2) /\ ~Owner(w2)
  BY <1>1, <1>2 DEF WorkOK, Works, WorkPCs, Results, Relies, Owner
<1> HIDE DEF w2
<1> QED BY <1>1, <1>4, <1>5, <1>6, <1>7, StepKeepsInv DEF WorkGood

LEMMA InspectIsGood ==
  ASSUME WorkspaceInv, NEW p \in Processes, Inspect(p)
  PROVE  WorkGood
<1>1. work[p].pc \in {"prepare", "upgrade"} /\ files' = files
  BY DEF Inspect
<1>2. CASE Ends(p, "prepared") \/ Ends(p, "raised")
  BY <1>1, <1>2, EndsIsGood
<1>3. CASE Goes(p, "init")
  BY <1>1, <1>3, GoesIsGood
<1>4. CASE /\ Here(p).config \in Outdated
           /\ work' = [work EXCEPT ![p].pc = "material", ![p].refresh = work[p].pc = "upgrade"]
  <2> DEFINE w1 == [work[p] EXCEPT !.pc = "material"]
             w2 == [w1 EXCEPT !.refresh = (work[p].pc = "upgrade")]
  <2>1. work[p] \in Works /\ work[p].dir \in Dirs /\ work[p].result = "none"
    BY <1>1 DEF WorkspaceInv, WorkOK
  <2>2. w1 \in Works /\ w1.pc = "material" /\ w1.dir = work[p].dir /\ w1.result = "none"
    BY <2>1 DEF Works, WorkPCs
  <2>3. work' = [work EXCEPT ![p] = w2]
    BY <1>4 DEF WorkspaceInv
  <2> HIDE DEF w1
  <2>4. w2 \in Works /\ w2.pc = "material" /\ w2.dir = work[p].dir /\ w2.result = "none"
    BY <2>2 DEF Works
  <2> HIDE DEF w2
  <2>5. WorkOK(w2) /\ Relies(w2, Here(p)) /\ ~Owner(w2)
    BY <1>4, <2>1, <2>4 DEF WorkOK, Relies, Owner, Outdated
  <2> QED BY <1>1, <2>1, <2>3, <2>4, <2>5, MoveIsGood
<1> QED BY <1>2, <1>3, <1>4 DEF Inspect

LEMMA WorkStepIsGood ==
  ASSUME WorkspaceInv, NEW p \in Processes, WorkStep(p)
  PROVE  WorkGood
<1>1. CASE InitCheck(p)
  BY <1>1, GoesIsGood, EndsIsGood DEF InitCheck
<1>2. CASE Material(p)
  <2>1. Here(p).config # "absent"
    BY <1>2, WorkForms DEF Material, Relies
  <2> QED BY <1>2, <2>1, GoesIsGood, EndsIsGood DEF Material
<1>3. CASE WorkFails(p)
  BY <1>3, EndsIsGood DEF WorkFails
<1> QED BY <1>1, <1>2, <1>3, CreateConfigIsGood, WriteConfigIsGood, MakeResourcesIsGood,
           CreateIndexIsGood, BackupIsGood, WriteTemplateIsGood, InspectIsGood DEF WorkStep

-----------------------------------------------------------------------------
(* The commands. *)

\* What the argument parser lets through for a command on a workspace.
WorkOp(op) ==
  /\ op.kind \in {"init", "check", "upgrade"} /\ op.path \in Dirs
  /\ op.by \in {"instance", "word"} => op.name \in Names

CliInv ==
  /\ cli = [p \in Processes |-> cli[p]]
  /\ \A p \in Processes : /\ cli[p] = [pc |-> cli[p].pc, op |-> cli[p].op]
                          /\ cli[p].pc = "resolving" => WorkOp(cli[p].op)

Inv == RegistryInv /\ WorkspaceInv /\ CliInv

Good == Inv' /\ AbstractStep /\ FilesStay

LEMMA CliMoves ==
  ASSUME CliInv, NEW p \in Processes, NEW c, cli' = [cli EXCEPT ![p] = c],
         c = [pc |-> c.pc, op |-> c.op], c.pc = "resolving" => WorkOp(c.op)
  PROVE  CliInv'
<1>1. /\ cli' = [q \in Processes |-> cli'[q]] /\ cli'[p] = c
      /\ \A q \in Processes \ {p} : cli'[q] = cli[q]
  BY DEF CliInv
<1> QED BY <1>1 DEF CliInv, WorkOp

LEMMA CliAnswered ==
  ASSUME CliInv, NEW p \in Processes, Answered(p)
  PROVE  CliInv'
<1>1. Idle = [pc |-> Idle.pc, op |-> Idle.op] /\ Idle.pc = "idle"
  BY DEF Idle
<1> QED BY <1>1, CliMoves DEF Answered

LEMMA CliGoes ==
  ASSUME CliInv, NEW p \in Processes, NEW pc \in {"working", "loading"},
         cli' = [cli EXCEPT ![p].pc = pc]
  PROVE  CliInv'
<1> DEFINE c == [cli[p] EXCEPT !.pc = pc]
<1>1. c = [pc |-> pc, op |-> cli[p].op]
  BY DEF CliInv
<1>2. cli' = [cli EXCEPT ![p] = c]
  OBVIOUS
<1> HIDE DEF c
<1> QED BY <1>1, <1>2, CliMoves

LEMMA WorkspaceUntouched ==
  ASSUME WorkspaceInv, UNCHANGED workspaceVars
  PROVE  WorkspaceInv' /\ FilesStay
BY DEF WorkspaceInv, FilesStay, workspaceVars, Here

\* _resolve_workspace returns a directory.
LEMMA ResolvedIsDirectory ==
  ASSUME RegistryInv, NEW op, WorkOp(op)
  PROVE  Resolved(op) \in Dirs
<1>1. CASE op.by \in {"instance", "word"} /\ Known(registry, op.name)
  <2>1. Resolved(op) = Record(registry, op.name).path
    BY <1>1 DEF Resolved
  <2> QED BY <1>1, <2>1 DEF RegistryInv, Book, Known, Record
<1>2. CASE op.by = "nothing" /\ registry.default # None /\ Resolved(op) = Record(registry, registry.default).path
  BY <1>2 DEF RegistryInv, Book, Record
<1>3. CASE Resolved(op) = op.path
  BY <1>3 DEF WorkOp
<1> QED BY <1>1, <1>2, <1>3 DEF Resolved

LEMMA BeginsIsGood ==
  ASSUME WorkspaceInv, NEW p \in Processes, NEW d \in Dirs,
         NEW pc \in {"init", "prepare", "upgrade"}, Begins(p, d, pc)
  PROVE  WorkspaceInv' /\ FilesStay
<1> DEFINE w1 == [NoWork EXCEPT !.pc = pc]
           w2 == [w1 EXCEPT !.dir = d]
<1>1. w1 \in Works /\ w1.pc = pc /\ w1.result = "none" /\ pc \in WorkPCs
  BY DEF NoWork, Works, WorkPCs, Results
<1>2. work' = [work EXCEPT ![p] = w2] /\ files' = files
  BY DEF Begins
<1> HIDE DEF w1
<1>3. w2 \in Works /\ w2.pc = pc /\ w2.result = "none" /\ w2.dir = d
  BY <1>1 DEF Works
<1> HIDE DEF w2
<1>4. WorkOK(w2) /\ Relies(w2, files[d]) /\ ~Owner(w2)
  BY <1>3 DEF WorkOK, Relies, Owner
<1>5. DirStep(d, files[d])
  BY <1>2 DEF WorkspaceInv, DirStep, Later
<1>6. WorkspaceInv'
  BY <1>2, <1>3, <1>4, <1>5, StepKeepsInv
<1> QED BY <1>2, <1>6 DEF FilesStay

LEMMA StartIsGood ==
  ASSUME Inv, NEW p \in Processes, NEW op \in Commands, Start(p, op)
  PROVE  Good
<1>1. WorkspaceInv' /\ FilesStay
  BY WorkspaceUntouched DEF Start, Inv
<1>2. CASE /\ op.kind \in {"add", "use", "remove"}
           /\ StartChange(p, op)
           /\ cli' = [cli EXCEPT ![p] = [pc |-> "changing", op |-> op]]
  <2>1. Change(op)
    BY <1>2, CommandAssumption DEF Change
  <2>2. RegistryGood
    BY <1>2, <2>1, StartChangeIsGood DEF Inv
  <2>3. CliInv'
    BY <1>2, CliMoves DEF Inv
  <2> QED BY <1>1, <2>2, <2>3 DEF Good, Inv, RegistryGood
<1>3. CASE /\ op.kind \in {"init", "check", "upgrade"}
           /\ cli' = [cli EXCEPT ![p] = [pc |-> "resolving", op |-> op]]
           /\ UNCHANGED registryVars
  <2>1. WorkOp(op)
    BY <1>3, CommandAssumption DEF WorkOp
  <2>2. CliInv'
    BY <1>3, <2>1, CliMoves DEF Inv
  <2>3. RegistryGood
    BY <1>3, OtherStepIsGood DEF Inv, registryVars
  <2> QED BY <1>1, <2>2, <2>3 DEF Good, Inv, RegistryGood
<1> QED BY <1>2, <1>3 DEF Start

LEMMA ResolveIsGood ==
  ASSUME Inv, NEW p \in Processes, Resolve(p)
  PROVE  Good
<1>1. RegistryGood
  BY OtherStepIsGood DEF Resolve, Inv, registryVars
<1> DEFINE op == cli[p].op
<1>2. WorkOp(op)
  BY DEF Resolve, Inv, CliInv
<1>3. CASE Answered(p) /\ UNCHANGED workspaceVars
  BY <1>1, <1>3, CliAnswered, WorkspaceUntouched DEF Good, Inv, RegistryGood
<1>4. CASE /\ Begins(p, Resolved(op), IF op.kind = "check" THEN "prepare" ELSE op.kind)
           /\ cli' = [cli EXCEPT ![p].pc = "working"]
  <2>1. Resolved(op) \in Dirs
    BY <1>2, ResolvedIsDirectory DEF Inv
  <2>2. (IF op.kind = "check" THEN "prepare" ELSE op.kind) \in {"init", "prepare", "upgrade"}
    BY <1>2 DEF WorkOp
  <2>3. WorkspaceInv' /\ FilesStay
    BY <1>4, <2>1, <2>2, BeginsIsGood DEF Inv
  <2>4. CliInv'
    BY <1>4, CliGoes DEF Inv
  <2> QED BY <1>1, <2>3, <2>4 DEF Good, Inv, RegistryGood
<1> QED BY <1>3, <1>4 DEF Resolve

LEMMA WorkDoneIsGood ==
  ASSUME Inv, NEW p \in Processes, WorkDone(p)
  PROVE  Good
<1>1. RegistryGood
  BY OtherStepIsGood DEF WorkDone, Inv, registryVars
<1>2. CASE Answered(p) /\ UNCHANGED workspaceVars
  BY <1>1, <1>2, CliAnswered, WorkspaceUntouched DEF Good, Inv, RegistryGood
<1>3. CASE /\ work[p].result \in {"prepared", "initialized"}
           /\ Begins(p, work[p].dir, "prepare")
           /\ cli' = [cli EXCEPT ![p].pc = "loading"]
  <2>1. work[p].dir \in Dirs
    BY <1>3 DEF Inv, WorkspaceInv, WorkOK
  <2>2. WorkspaceInv' /\ FilesStay
    BY <1>3, <2>1, BeginsIsGood DEF Inv
  <2>3. CliInv'
    BY <1>3, CliGoes DEF Inv
  <2> QED BY <1>1, <2>2, <2>3 DEF Good, Inv, RegistryGood
<1> QED BY <1>2, <1>3 DEF WorkDone

LEMMA ChangeDoneIsGood ==
  ASSUME Inv, NEW p \in Processes, ChangeDone(p)
  PROVE  Good
<1>1. RegistryGood
  BY OtherStepIsGood DEF ChangeDone, Inv, registryVars
<1>2. CliInv' /\ WorkspaceInv' /\ FilesStay
  BY CliAnswered, WorkspaceUntouched DEF ChangeDone, Inv
<1> QED BY <1>1, <1>2 DEF Good, Inv, RegistryGood

LEMMA KillIsGood ==
  ASSUME Inv, NEW p \in Processes, Kill(p)
  PROVE  Good
<1>1. RegistryGood
  BY GiveUpIsGood DEF Kill, KillChange, Inv
<1>2. CliInv' /\ WorkspaceInv'
  BY CliAnswered, KillKeepsInv DEF Kill, Inv
<1>3. FilesStay
  BY DEF Kill, FilesStay
<1> QED BY <1>1, <1>2, <1>3 DEF Good, Inv, RegistryGood

LEMMA NextIsGood ==
  ASSUME Inv, Next
  PROVE  Good
<1>1. ASSUME UNCHANGED cli PROVE CliInv'
  BY <1>1 DEF Inv, CliInv, WorkOp
<1>2. ASSUME NEW p \in Processes, ChangeStep(p), UNCHANGED <<workspaceVars, cli, counts>>
      PROVE  Good
  BY <1>1, <1>2, ChangeStepIsGood, WorkspaceUntouched DEF Good, Inv, RegistryGood
<1>3. ASSUME UNCHANGED <<registryVars, cli, counts>> PROVE RegistryGood /\ CliInv'
  BY <1>1, <1>3, OtherStepIsGood DEF Inv, registryVars
<1>4. ASSUME NEW p \in Processes, WorkStep(p), UNCHANGED <<registryVars, cli, counts>>
      PROVE  Good
  BY <1>3, <1>4, WorkStepIsGood DEF Good, Inv, RegistryGood, WorkGood
<1>5. ASSUME NEW d \in Dirs, Break(d), UNCHANGED <<workspaceVars, cli, counts>>
      PROVE  Good
  <2>1. RegistryGood
    BY <1>5, OtherStepIsGood DEF Inv, Break
  <2> QED BY <1>1, <1>5, <2>1, WorkspaceUntouched DEF Good, Inv, RegistryGood
<1>6. ASSUME NEW d \in Dirs, Merge(d), UNCHANGED <<registryVars, cli, counts>>
      PROVE  Good
  <2>1. WorkspaceInv'
    BY <1>6, MergeKeepsInv DEF Inv
  <2>2. FilesStay
    <3>1. DirOK(files[d]) /\ files = [e \in Dirs |-> files[e]]
      BY <1>6 DEF Inv, WorkspaceInv
    <3>2. /\ [files[d] EXCEPT !.config = "current"].index = files[d].index
          /\ [files[d] EXCEPT !.config = "current"].template = files[d].template
      BY <3>1 DEF DirOK
    <3>3. \A e \in Dirs : /\ e # d => files'[e] = files[e]
                          /\ files'[d] = [files[d] EXCEPT !.config = "current"]
      BY <1>6, <3>1 DEF Merge
    <3> QED BY <1>6, <3>2, <3>3 DEF FilesStay
  <2> QED BY <1>3, <1>6, <2>1, <2>2 DEF Good, Inv, RegistryGood
<1> QED BY <1>2, <1>4, <1>5, <1>6, StartIsGood, ResolveIsGood, WorkDoneIsGood, ChangeDoneIsGood,
           KillIsGood DEF Next

LEMMA InitIsGood ==
  ASSUME Init
  PROVE  Inv /\ Atomic!Init
<1>1. registry \in Books /\ Book(registry)
  BY CommandAssumption DEF Init, InitRegistry
<1>2. RegistryInv
  BY <1>1, RegistryAssumption DEF Init, InitRegistry, RegistryInv, CallOK, NoRegistryCall
<1>3. CliInv
  BY DEF Init, CliInv, Idle
<1>4. WorkspaceInv
  <2>1. /\ files \in [Dirs -> Situations] /\ work = [p \in Processes |-> NoWork]
    BY DEF Init, InitWorkspace
  <2>2. ASSUME NEW d \in Dirs PROVE DirOK(files[d])
    <3>1. files[d] \in Situations
      BY <2>1
    <3>2. /\ files[d] = Fresh(files[d].config, files[d].resources, files[d].index)
          /\ files[d].config \in Configurations
      BY <3>1, CommandAssumption
    <3>3. files[d].template = FALSE /\ files[d].backups = {}
      BY <3>2 DEF Fresh
    <3> QED BY <3>2, <3>3 DEF DirOK, Fresh
  <2>3. WorkOK(NoWork) /\ ~Owner(NoWork) /\ \A s : Relies(NoWork, s)
    BY DEF NoWork, WorkOK, Works, WorkPCs, Results, Owner, Relies
  <2> QED BY <2>1, <2>2, <2>3 DEF WorkspaceInv
<1>5. Atomic!Init
  <2>1. NamesOf(registry) \subseteq Names /\ Place = [n \in NamesOf(registry) |-> registry.records[Key[n]].path]
    BY <1>1, NamesOfBook DEF Place, NamesOf
  <2>2. Place \in [NamesOf(registry) -> Dirs]
    BY <1>1, <2>1, NamesOfBook DEF Book
  <2>3. registry.default \in {n \in Names : Atomic!Registered(n)} \cup {None}
    BY <1>1, <2>1, KnownNames DEF Book, Known, Atomic!Registered
  <2> QED BY <2>1, <2>2, <2>3 DEF Atomic!Init, Init, InitRegistry
<1> QED BY <1>2, <1>3, <1>4, <1>5 DEF Inv

LEMMA StutterIsGood ==
  ASSUME Inv, UNCHANGED vars
  PROVE  Good
<1>1. CliInv'
  BY DEF Inv, CliInv, WorkOp, vars
<1> QED BY <1>1, OtherStepIsGood, WorkspaceUntouched
        DEF vars, registryVars, Inv, Good, RegistryGood

-----------------------------------------------------------------------------
(* The theorems. *)

\* The inductive invariant: the registry is a book that _read accepts, the lock has one holder,
\* who is about to write its change of what the file still says, and every process finds in its
\* workspace what its step relies on.
THEOREM Invariance == Spec => []Inv
<1>1. Inv /\ [Next]_vars => Inv'
  BY NextIsGood, StutterIsGood DEF Good
<1> QED BY <1>1, InitIsGood, PTL DEF Spec

\* register, set_default and remove: whatever the number of processes that change the registry
\* at once, and wherever they are killed or fail, each change takes effect at one moment and as
\* a whole or not at all, and no update is lost.
THEOREM RegistryImplementsAtomic == Spec => RegistryIsAtomic
<1>1. Init => Atomic!Init
  BY InitIsGood
<1>2. Inv /\ [Next]_vars => [Atomic!Next]_<<Place, registry.default, told>>
  BY NextIsGood, StutterIsGood DEF Good, AbstractStep, Shown
<1> QED BY <1>1, <1>2, Invariance, PTL DEF Spec, RegistryIsAtomic, Atomic!Spec

\* initialize: of any number of processes that initialise a directory, and users who merge
\* templates meanwhile, one is told that it succeeded, and then everything is there.
THEOREM OneInitialises == Spec => []InitialisedOnce
<1>1. Inv => InitialisedOnce
  <2>1. ASSUME Inv, NEW p \in Processes, work[p].result = "initialized"
        PROVE  /\ Here(p).config = "current" /\ Here(p).resources = "folder"
               /\ Here(p).index = "file"
               /\ Owner(work[p])
    BY <2>1 DEF Inv, WorkspaceInv, WorkOK, Relies, Owner
  <2> QED BY <2>1 DEF Inv, WorkspaceInv, InitialisedOnce
<1> QED BY <1>1, Invariance, PTL

\* _write_upgrade_material: a template never stands without a backup of the configuration it is
\* to be compared with, wherever a process is killed.
THEOREM BackupsComeFirst == Spec => []BackupFirst
<1>1. Inv => BackupFirst
  BY DEF Inv, WorkspaceInv, DirOK, BackupFirst
<1> QED BY <1>1, Invariance, PTL

\* No command changes a configuration that it has not created, or takes an index or a template
\* away.
THEOREM FilesAreKept == Spec => FilesKept
<1>1. Inv /\ [Next]_vars => [FilesStay]_vars
  BY NextIsGood DEF Good
<1> QED BY <1>1, Invariance, PTL DEF Spec, FilesKept, FilesStay
=============================================================================
