----------------------------- MODULE VaultNotes -----------------------------
(***************************************************************************)
(* Concurrent note operations (internal/files: WriteMarkdown, Create,      *)
(* Move, MoveToTrash) under the mutex of a Repository object, while the    *)
(* server switches vaults (internal/app/handler.go).                       *)
(*                                                                         *)
(* A Repository is a root directory and its mutexes.  Every activation of  *)
(* a vault makes a NEW Repository, also for the vault that is already      *)
(* active, and a request keeps the object it picked up when it began.  The *)
(* mutex therefore excludes requests of one object, not of one vault.      *)
(*                                                                         *)
(* A content version is the SHA-256 of the file, so a version is as good   *)
(* as the content.  moveMu and trashMu are taken directly before contentMu *)
(* and their holders exclude each other through contentMu already.         *)
(***************************************************************************)
EXTENDS Naturals

CONSTANTS
  Vault, Path, Content, Absent, Blank, Heading,
  Request,      \* slots for requests in flight
  Nobody,       \* the mutex is free
  MaxObjects    \* bound: Repository objects made between two restarts

ASSUME VaultAssumption ==
  /\ Absent \notin Content
  /\ {Blank, Heading} \subseteq Content
  /\ Nobody \notin Request
  /\ Path # {}
  /\ MaxObjects \in Nat \ {0}

Object == 1..MaxObjects

VARIABLES
  files,      \* vault -> path -> content or Absent
  root,       \* object -> the vault it was made for
  current,    \* the object that requests pick up
  contentMu,  \* object -> the request that holds its mutex, or Nobody
  req,        \* requests in flight
  disturbed   \* history: requests holding a mutex whose paths were changed
              \* meanwhile through another Repository object

vars == <<files, root, current, contentMu, req, disturbed>>

-----------------------------------------------------------------------------
Op == {"none", "save", "create", "move", "trash"}

\* queued: decoded, waiting for the mutex.  checked: holds the mutex and has
\* seen that the operation applies.  created: an empty file awaits its heading.
Req == [pc: {"idle", "queued", "checked", "created"}, op: Op, obj: Object,
        path: Path, to: Path, base: Content, new: Content]

TypeOK ==
  /\ files \in [Vault -> [Path -> Content \cup {Absent}]]
  /\ root \in [Object -> Vault]
  /\ current \in Object
  /\ contentMu \in [Object -> Request \cup {Nobody}]
  /\ req \in [Request -> Req]
  /\ disturbed \subseteq Request

SomePath == CHOOSE p \in Path : TRUE

IdleReq == [pc |-> "idle", op |-> "none", obj |-> 1, path |-> SomePath, to |-> SomePath,
            base |-> Blank, new |-> Blank]

Init ==
  /\ files \in [Vault -> [Path -> {Absent, Heading}]]
  /\ \E v \in Vault : root = [o \in Object |-> v]
  /\ current = 1
  /\ contentMu = [o \in Object |-> Nobody]
  /\ req = [r \in Request |-> IdleReq]
  /\ disturbed = {}

-----------------------------------------------------------------------------
\* The vault and the file a request works on.
Home(r) == root[req[r].obj]

File(r, p) == files[Home(r)][p]

Begin(r, op, p, q, base, new) ==
  /\ req[r].pc = "idle"
  /\ req' = [req EXCEPT ![r] = [pc |-> "queued", op |-> op, obj |-> current, path |-> p,
                                to |-> q, base |-> base, new |-> new]]
  /\ UNCHANGED <<files, root, current, contentMu, disturbed>>

\* PUT file and POST resolve-conflict; new content differs from its base.
BeginSave(r, p, base, new) == base # new /\ Begin(r, "save", p, p, base, new)

BeginCreate(r, p) == Begin(r, "create", p, p, Blank, Heading)

BeginMove(r, p, q) == p # q /\ Begin(r, "move", p, q, Blank, Blank)

BeginTrash(r, p) == Begin(r, "trash", p, p, Blank, Blank)

\* Mutant of Applies: a save does not compare the version it names.
MutApplies(r) ==
  \/ req[r].op = "save"   /\ File(r, req[r].path) # Absent
  \/ req[r].op = "create" /\ File(r, req[r].path) = Absent
  \/ req[r].op = "move"   /\ File(r, req[r].path) # Absent /\ File(r, req[r].to) = Absent
  \/ req[r].op = "trash"  /\ File(r, req[r].path) # Absent

\* The preconditions each operation reads from the directory.
Applies(r) ==
  \/ req[r].op = "save"   /\ File(r, req[r].path) = req[r].base
  \/ req[r].op = "create" /\ File(r, req[r].path) = Absent
  \/ req[r].op = "move"   /\ File(r, req[r].path) # Absent /\ File(r, req[r].to) = Absent
  \/ req[r].op = "trash"  /\ File(r, req[r].path) # Absent

Finish(r) == req' = [req EXCEPT ![r] = IdleReq]

\* Mutant of Check: the reads happen before the mutex is taken.
MutCheck(r) ==
  /\ req[r].pc = "queued"
  /\ Applies(r)
  /\ contentMu' = [contentMu EXCEPT ![req[r].obj] = r]
  /\ req' = [req EXCEPT ![r].pc = "checked"]
  /\ UNCHANGED <<files, root, current, disturbed>>

\* contentMu.Lock() and the reads that follow it.
Check(r) ==
  /\ req[r].pc = "queued"
  /\ contentMu[req[r].obj] = Nobody
  /\ Applies(r)
  /\ contentMu' = [contentMu EXCEPT ![req[r].obj] = r]
  /\ req' = [req EXCEPT ![r].pc = "checked"]
  /\ UNCHANGED <<files, root, current, disturbed>>

\* Conflict, not found or already exists: nothing is written.
Refuse(r) ==
  /\ req[r].pc = "queued"
  /\ contentMu[req[r].obj] = Nobody
  /\ ~Applies(r)
  /\ Finish(r)
  /\ UNCHANGED <<files, root, current, contentMu, disturbed>>

-----------------------------------------------------------------------------
(* The file system calls, each at one instant, and the unlock.             *)

Touches(q) == {req[q].path, req[q].to}

Holding(q) == req[q].pc \in {"checked", "created"}

\* The files in changes take their new content in the vault of r.
Put(r, changes) ==
  /\ files' = [files EXCEPT ![Home(r)] =
                 [p \in Path |-> IF p \in DOMAIN changes THEN changes[p] ELSE files[Home(r)][p]]]
  /\ disturbed' = (disturbed \ {r}) \cup
       {q \in Request : /\ Holding(q) /\ req[q].obj # req[r].obj /\ Home(q) = Home(r)
                        /\ Touches(q) \cap DOMAIN changes # {}}

\* Deferred unlock, on every way out of an operation that holds the mutex.
Leave(r) ==
  /\ contentMu' = [contentMu EXCEPT ![req[r].obj] = Nobody]
  /\ Finish(r)

Applying(r, op) == req[r].pc = "checked" /\ req[r].op = op /\ UNCHANGED <<root, current>>

\* The temporary file is renamed over the note.
ApplySave(r) ==
  /\ Applying(r, "save")
  /\ Put(r, [p \in {req[r].path} |-> req[r].new])
  /\ Leave(r)

\* Mutant of ApplyCreate: the mutex is released once the file exists.
MutApplyCreate(r) ==
  /\ Applying(r, "create")
  /\ File(r, req[r].path) = Absent
  /\ Put(r, [p \in {req[r].path} |-> Blank])
  /\ req' = [req EXCEPT ![r].pc = "created"]
  /\ contentMu' = [contentMu EXCEPT ![req[r].obj] = Nobody]

\* O_CREATE|O_EXCL
ApplyCreate(r) ==
  /\ Applying(r, "create")
  /\ File(r, req[r].path) = Absent
  /\ Put(r, [p \in {req[r].path} |-> Blank])
  /\ req' = [req EXCEPT ![r].pc = "created"]
  /\ UNCHANGED contentMu

\* The heading goes to the open file: it shows at the path, or wherever
\* another object moved the file; it is lost if the file was replaced.
ApplyHeading(r) ==
  LET blank == {p \in Path : File(r, p) = Blank}
      found == IF req[r].path \in blank THEN {req[r].path} ELSE blank
  IN
  /\ req[r].pc = "created"
  /\ \/ \E p \in found : Put(r, [q \in {p} |-> Heading])
     \/ found = {} /\ disturbed' = disturbed \ {r} /\ UNCHANGED files
  /\ Leave(r)
  /\ UNCHANGED <<root, current>>

\* The heading cannot be written or synced: create removes what is at the path,
\* and ignores it when that fails too.
CreateFails(r) ==
  /\ req[r].pc = "created"
  /\ \/ Put(r, [p \in {req[r].path} |-> Absent])
     \/ disturbed' = disturbed \ {r} /\ UNCHANGED files
  /\ Leave(r)
  /\ UNCHANGED <<root, current>>

\* os.Rename replaces a file that appeared at the target since the check.
ApplyMove(r) ==
  /\ Applying(r, "move")
  /\ File(r, req[r].path) # Absent
  /\ Put(r, [p \in {req[r].path, req[r].to} |->
               IF p = req[r].to THEN File(r, req[r].path) ELSE Absent])
  /\ Leave(r)

\* The note leaves its path for the trash.
ApplyTrash(r) ==
  /\ Applying(r, "trash")
  /\ File(r, req[r].path) # Absent
  /\ Put(r, [p \in {req[r].path} |-> Absent])
  /\ Leave(r)

\* Mutant of ApplyFails: the error path returns without the unlock.
MutApplyFails(r) ==
  /\ req[r].pc = "checked"
  /\ Finish(r)
  /\ disturbed' = disturbed \ {r}
  /\ UNCHANGED <<files, root, current, contentMu>>

\* The call reports that the source is gone, that the target exists, or any
\* other error.
ApplyFails(r) ==
  /\ req[r].pc = "checked"
  /\ Leave(r)
  /\ disturbed' = disturbed \ {r}
  /\ UNCHANGED <<files, root, current>>

-----------------------------------------------------------------------------
\* POST activate: a new object becomes current; requests in flight keep theirs.
Activate(v) ==
  /\ current < MaxObjects
  /\ root' = [root EXCEPT ![current + 1] = v]
  /\ current' = current + 1
  /\ UNCHANGED <<files, contentMu, req, disturbed>>

\* Mutant of Restart: no vault is loaded.
MutRestart ==
  /\ current' = 0
  /\ contentMu' = [o \in Object |-> Nobody]
  /\ req' = [r \in Request |-> IdleReq]
  /\ disturbed' = {}
  /\ UNCHANGED <<files, root>>

\* The process stops and starts again with the vault that was active.
Restart ==
  /\ root' = [o \in Object |-> root[current]]
  /\ current' = 1
  /\ contentMu' = [o \in Object |-> Nobody]
  /\ req' = [r \in Request |-> IdleReq]
  /\ disturbed' = {}
  /\ UNCHANGED files

Begins(r) ==
  \E p \in Path :
    \/ \E base, new \in Content : BeginSave(r, p, base, new)
    \/ BeginCreate(r, p) \/ BeginTrash(r, p)
    \/ \E q \in Path : BeginMove(r, p, q)

Acts(r) ==
  \/ ApplySave(r) \/ ApplyCreate(r) \/ ApplyHeading(r) \/ CreateFails(r)
  \/ ApplyMove(r) \/ ApplyTrash(r) \/ ApplyFails(r)

Next ==
  \/ \E r \in Request : Begins(r) \/ Check(r) \/ Refuse(r) \/ Acts(r)
  \/ \E v \in Vault : Activate(v)
  \/ Restart

Spec == Init /\ [][Next]_vars

\* A handler that runs goes on to its end, and Go's mutex hands itself to a
\* goroutine that has waited (starvation mode), so nobody waits for ever.
Fairness == \A r \in Request : SF_vars(Check(r) \/ Refuse(r)) /\ WF_vars(Acts(r))

FairSpec == Spec /\ Fairness

-----------------------------------------------------------------------------
(* Properties.                                                             *)

\* What an operation saw when it took the mutex (the version the save names,
\* the free target, the existing note) still holds when it acts, unless
\* another Repository object changed its files meanwhile: requests of one
\* object never interfere (contentMu around check and rename).
UndisturbedStillApplies ==
  \A r \in Request :
    /\ req[r].pc = "checked" /\ r \notin disturbed => Applies(r)
    /\ req[r].pc = "created" /\ r \notin disturbed => File(r, req[r].path) = Blank

\* Every operation ends: no way out of a handler keeps the mutex.
EveryRequestEnds == \A r \in Request : req[r].pc = "queued" ~> req[r].pc = "idle"

\* docs/architecture.md:13: "a stale version returns a conflict".  A save that
\* succeeds replaces the content whose version it named (writeMarkdown compares
\* the version under the mutex; only one Repository object keeps that promise).
SaveReplacesWhatItNames ==
  [][\A r \in Request : ApplySave(r) => File(r, req[r].path) = req[r].base]_vars

-----------------------------------------------------------------------------
\* No vault is activated again while it has a Repository object: the bound under
\* which operations are as good as atomic.
OneObjectPerVault == \A k, l \in 1..current : root[k] = root[l] => k = l

\* Without a second Repository object the operations are as good as atomic.
Promise == INSTANCE NoteSpace WITH
  notes <- files,
  fresh <- {<<Home(r), req[r].path>> : r \in {q \in Request : req[q].pc = "created"}}

OperationsAreAtomic == Promise!NSSpec
=============================================================================
