-------------------------- MODULE InstanceRegistry --------------------------
(***************************************************************************)
(* The registry of instance nicknames (instances.py): one JSON file that   *)
(* the commands of several processes read, and change under a file lock by *)
(* writing a temporary file that then replaces it.  An action is what a    *)
(* process does up to its next change of a file; a process may be killed   *)
(* between two of them, which releases the lock and leaves the temporary   *)
(* file behind.                                                            *)
(***************************************************************************)
EXTENDS Machine, Functions

CONSTANTS
  Names, Key,  \* spellings of nicknames, and what casefold makes of each
  Valid,       \* the spellings that the pattern allows
  Fragile,     \* those that may turn into a file
  None

ASSUME RegistryAssumption ==
  /\ Valid \subseteq Names /\ Fragile \subseteq Dirs /\ DOMAIN Key = Names
  /\ None \notin Names \cup Processes

VARIABLES
  registry,    \* instances.json; an absent file reads like an empty one
  broken,      \* the directories that are files by now
  holder,      \* the process that holds the file lock
  call,        \* where each process is in its change of the registry
  told         \* how its last change ended

registryVars == <<registry, broken, holder, call, told>>

NoRegistry == [records |-> <<>>, default |-> None]
NoChange == [kind |-> "none"]
NoRegistryCall == [pc |-> "none", op |-> NoChange, save |-> NoRegistry]

InitRegistry(books) ==
  /\ registry \in books /\ broken = {}
  /\ holder = None
  /\ call = [p \in Processes |-> NoRegistryCall]
  /\ told = [p \in Processes |-> None]

\* A book that _read accepts: every record is found by its own name, which a default has too,
\* in some spelling.
Book(book) ==
  /\ book = [records |-> book.records, default |-> book.default]
  /\ book.records = [k \in DOMAIN book.records |-> book.records[k]]
  /\ \A k \in DOMAIN book.records :
       /\ book.records[k] = [name |-> book.records[k].name, path |-> book.records[k].path]
       /\ book.records[k].name \in Names /\ Key[book.records[k].name] = k
       /\ book.records[k].path \in Dirs
  /\ book.default # None => book.default \in Names /\ Key[book.default] \in DOMAIN book.records

-----------------------------------------------------------------------------
(* What commands find in the file, and make of it. *)

\* _read: a record whose path is no directory makes the whole file unreadable.
Readable == \A k \in DOMAIN registry.records : registry.records[k].path \notin broken

Known(book, n) == Key[n] \in DOMAIN book.records
Record(book, n) == book.records[Key[n]]
IsDefault(book, n) == book.default # None /\ Key[book.default] = Key[n]

Legal(book, op) == IF op.kind = "add" THEN op.force \/ ~Known(book, op.name)
                   ELSE Known(book, op.name)

Registered(book, op) ==
  [records |-> [k \in DOMAIN book.records \cup {Key[op.name]} |->
                  IF k = Key[op.name] THEN [name |-> op.name, path |-> op.path] ELSE book.records[k]],
   default |-> IF IsDefault(book, op.name) THEN op.name ELSE book.default]

Removed(book, op) ==
  [records |-> Restrict(book.records, DOMAIN book.records \ {Key[op.name]}),
   default |-> IF IsDefault(book, op.name) THEN None ELSE book.default]

Changed(book, op) ==
  CASE op.kind = "add" -> Registered(book, op)
    [] op.kind = "use" -> [book EXCEPT !.default = Record(book, op.name).name]
    [] op.kind = "remove" -> Removed(book, op)

-----------------------------------------------------------------------------
(* A change. *)

\* register, set_default and remove look at their arguments before they take the lock.
Acceptable(op) == op.name \in Valid /\ (op.kind = "add" => op.path \notin broken)

Refuse(p) ==
  /\ told' = [told EXCEPT ![p] = "refused"]
  /\ call' = [call EXCEPT ![p] = NoRegistryCall]

StartChange(p, op) ==
  /\ call[p] = NoRegistryCall
  /\ IF Acceptable(op)
     THEN /\ call' = [call EXCEPT ![p] = [NoRegistryCall EXCEPT !.pc = "locking", !.op = op]]
          /\ told' = [told EXCEPT ![p] = None]
     ELSE Refuse(p)
  /\ UNCHANGED <<registry, broken, holder>>

\* Mutant: nobody is kept out.
NoLock == TRUE

LockIsFree == holder = None

Lock(p) ==
  /\ call[p].pc = "locking" /\ LockIsFree
  /\ holder' = p
  /\ call' = [call EXCEPT ![p].pc = "locked"]
  /\ UNCHANGED <<registry, broken, told>>

\* Under the lock: the file is read and the new contents go to a temporary file.
ReadLocked(p) ==
  /\ call[p].pc = "locked"
  /\ IF Readable /\ Legal(registry, call[p].op)
     THEN /\ call' = [call EXCEPT ![p].pc = "written", ![p].save = Changed(registry, call[p].op)]
          /\ UNCHANGED <<holder, told>>
     ELSE Refuse(p) /\ holder' = None
  /\ UNCHANGED <<registry, broken>>

\* os.replace, and the lock is given back.
Replace(p) ==
  /\ call[p].pc = "written"
  /\ registry' = call[p].save
  /\ told' = [told EXCEPT ![p] = "done"]
  /\ call' = [call EXCEPT ![p] = NoRegistryCall]
  /\ holder' = None
  /\ UNCHANGED broken

\* The lock or the temporary file cannot be had.
ChangeFails(p) ==
  /\ call[p].pc \in {"locking", "written"}
  /\ Refuse(p)
  /\ holder' = IF holder = p THEN None ELSE holder
  /\ UNCHANGED <<registry, broken>>

KillChange(p) ==
  /\ call' = [call EXCEPT ![p] = NoRegistryCall]
  /\ told' = [told EXCEPT ![p] = None]
  /\ holder' = IF holder = p THEN None ELSE holder

\* Somebody puts a file in the place of a directory.
Break(d) ==
  /\ d \in Fragile \ broken
  /\ broken' = broken \cup {d}
  /\ UNCHANGED <<registry, holder, call, told>>

ChangeStep(p) == Lock(p) \/ ReadLocked(p) \/ Replace(p) \/ ChangeFails(p)
=============================================================================
