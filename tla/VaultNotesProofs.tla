-------------------------- MODULE VaultNotesProofs --------------------------
(***************************************************************************)
(* Theorems about VaultNotes, for any vaults, paths, contents and requests *)
(* and any number of Repository objects.                                   *)
(***************************************************************************)
EXTENDS VaultNotes, TLAPS

\* A request that acts holds the mutex of its object, so two requests of one
\* object never both act.
MutexInv == \A r \in Request : Holding(r) => contentMu[req[r].obj] = r

\* No request works on an object that has not been made yet, so activating a
\* vault never changes the root of one in use.
ObjectsExist == \A r \in Request : req[r].obj <= current

OnlyCreateIsCreated == \A r \in Request : req[r].pc = "created" => req[r].op = "create"

IInv ==
  /\ TypeOK
  /\ MutexInv
  /\ ObjectsExist
  /\ OnlyCreateIsCreated
  /\ UndisturbedStillApplies

-----------------------------------------------------------------------------
LEMMA IdleReqFact ==
  IdleReq \in Req /\ IdleReq.pc = "idle" /\ IdleReq.obj = 1
<1>1. SomePath \in Path
  BY VaultAssumption DEF SomePath
<1> QED BY <1>1, VaultAssumption DEF IdleReq, Req, Op, Object

\* The types of what Put and Leave write.
LEMMA PutType ==
  ASSUME TypeOK, NEW r \in Request, NEW D \in SUBSET Path,
         NEW changes \in [D -> Content \cup {Absent}], Put(r, changes)
  PROVE  files' \in [Vault -> [Path -> Content \cup {Absent}]] /\ disturbed' \subseteq Request
<1>1. [p \in Path |-> IF p \in DOMAIN changes THEN changes[p] ELSE files[Home(r)][p]]
        \in [Path -> Content \cup {Absent}]
  <2>1. Home(r) \in Vault
    BY DEF TypeOK, Home, Req
  <2> QED BY <2>1 DEF TypeOK
<1> QED BY <1>1 DEF TypeOK, Put

LEMMA LeaveType ==
  ASSUME TypeOK, NEW r \in Request, Leave(r)
  PROVE  /\ contentMu' \in [Object -> Request \cup {Nobody}]
         /\ req' \in [Request -> Req]
  BY IdleReqFact DEF TypeOK, Leave, Finish

\* Leaving frees the mutex of one object and idles one request.
LEMMA LeaveMutex ==
  ASSUME IInv, NEW r \in Request, Holding(r), Leave(r), UNCHANGED current
  PROVE  /\ MutexInv' /\ ObjectsExist' /\ OnlyCreateIsCreated'
         /\ ~Holding(r)'
         /\ \A q \in Request \ {r} : req'[q] = req[q]
<1>1. /\ TypeOK /\ MutexInv /\ ObjectsExist /\ OnlyCreateIsCreated
  BY DEF IInv
<1>2. /\ req'[r] = IdleReq
      /\ \A q \in Request \ {r} : req'[q] = req[q]
  BY <1>1 DEF Leave, Finish, TypeOK
<1>3. ~Holding(r)'
  BY <1>2, IdleReqFact DEF Holding
<1>4. ASSUME NEW q \in Request, Holding(q)' PROVE contentMu'[req'[q].obj] = q
  <2>1. q # r /\ Holding(q) /\ req'[q] = req[q]
    BY <1>2, <1>3, <1>4 DEF Holding
  <2>2. req[q].obj # req[r].obj
    BY <1>1, <2>1 DEF MutexInv
  <2>3. req[q].obj \in Object /\ req[r].obj \in Object
    BY <1>1 DEF TypeOK, Req
  <2> QED BY <1>1, <2>1, <2>2, <2>3 DEF Leave, TypeOK, MutexInv
<1>5. ObjectsExist'
  BY <1>1, <1>2, IdleReqFact DEF ObjectsExist, TypeOK, Object
<1>6. OnlyCreateIsCreated'
  BY <1>1, <1>2, IdleReqFact DEF OnlyCreateIsCreated
<1> QED BY <1>2, <1>3, <1>4, <1>5, <1>6 DEF MutexInv

\* The heart of the argument: what r writes through its object leaves the
\* files of every other acting, undisturbed request as they are.
LEMMA PutSpares ==
  ASSUME IInv, NEW r \in Request, NEW changes, Holding(r), Put(r, changes),
         UNCHANGED root,
         NEW q \in Request \ {r}, Holding(q), req'[q] = req[q], q \notin disturbed'
  PROVE  /\ q \notin disturbed
         /\ Home(q)' = Home(q)
         /\ files'[Home(q)][req[q].path] = File(q, req[q].path)
         /\ files'[Home(q)][req[q].to] = File(q, req[q].to)
<1>1. TypeOK /\ MutexInv
  BY DEF IInv
<1>2. req[q].obj # req[r].obj
  BY <1>1 DEF MutexInv
<1>3. \/ Home(q) # Home(r)
      \/ Touches(q) \cap DOMAIN changes = {}
  BY <1>2 DEF Put
<1>4. Home(q)' = Home(q) /\ Home(q) \in Vault /\ req[q].path \in Path /\ req[q].to \in Path
  BY <1>1 DEF Home, TypeOK, Req
<1>5. ASSUME NEW p \in {req[q].path, req[q].to} PROVE files'[Home(q)][p] = files[Home(q)][p]
  <2>1. CASE Home(q) # Home(r)
    BY <1>1, <1>4, <2>1 DEF Put, TypeOK
  <2>2. CASE Home(q) = Home(r) /\ Touches(q) \cap DOMAIN changes = {}
    <3>1. p \notin DOMAIN changes
      BY <1>5, <2>2 DEF Touches
    <3> QED BY <1>1, <1>4, <1>5, <2>2, <3>1 DEF Put, TypeOK
  <2> QED BY <1>3, <2>1, <2>2
<1>6. q \notin disturbed
  BY DEF Put
<1> QED BY <1>4, <1>5, <1>6 DEF File

\* So they still apply.
LEMMA OthersStillApply ==
  ASSUME IInv, NEW r \in Request, NEW changes, Holding(r), Put(r, changes),
         UNCHANGED root,
         NEW q \in Request \ {r}, Holding(q), req'[q] = req[q], q \notin disturbed'
  PROVE  /\ req'[q].pc = "checked" => Applies(q)'
         /\ req'[q].pc = "created" => File(q, req[q].path)' = Blank
<1>1. /\ q \notin disturbed
      /\ Home(q)' = Home(q)
      /\ files'[Home(q)][req[q].path] = File(q, req[q].path)
      /\ files'[Home(q)][req[q].to] = File(q, req[q].to)
  BY PutSpares
<1>2. UndisturbedStillApplies
  BY DEF IInv
<1>3. /\ req[q].pc = "created" => File(q, req[q].path) = Blank
      /\ req[q].pc = "checked" => Applies(q)
  BY <1>1, <1>2 DEF UndisturbedStillApplies
<1> QED BY <1>1, <1>3 DEF Applies, File

\* A request that a step leaves alone keeps what it saw, when the step writes
\* no file and does not move the root of its object.
LEMMA Frame ==
  ASSUME IInv, NEW q \in Request, req'[q] = req[q], files' = files,
         root'[req[q].obj] = root[req[q].obj], q \notin disturbed
  PROVE  /\ req'[q].pc = "checked" => Applies(q)'
         /\ req'[q].pc = "created" => File(q, req[q].path)' = Blank
<1>1. /\ req[q].pc = "created" => File(q, req[q].path) = Blank
      /\ req[q].pc = "checked" => Applies(q)
  BY DEF IInv, UndisturbedStillApplies
<1>2. Home(q)' = Home(q)
  BY DEF Home
<1> QED BY <1>1, <1>2 DEF Applies, File

-----------------------------------------------------------------------------
(* One lemma per kind of step.                                             *)

\* A request that begins only queues.
LEMMA BeginStep ==
  ASSUME IInv, NEW r \in Request, Begins(r)
  PROVE  IInv'
<1>1. PICK op \in Op, p \in Path, q \in Path, base \in Content, new \in Content :
        Begin(r, op, p, q, base, new)
  BY VaultAssumption DEF Begins, BeginSave, BeginCreate, BeginMove, BeginTrash, Op
<1>2. TypeOK /\ MutexInv /\ ObjectsExist /\ OnlyCreateIsCreated
  BY DEF IInv
<1> DEFINE new_req == [pc |-> "queued", op |-> op, obj |-> current, path |-> p,
                       to |-> q, base |-> base, new |-> new]
<1>3. new_req \in Req
  BY <1>2 DEF Req, TypeOK
<1>4. /\ req'[r] = new_req /\ \A s \in Request \ {r} : req'[s] = req[s]
      /\ req' \in [Request -> Req]
  BY <1>1, <1>2, <1>3 DEF Begin, TypeOK
<1>5. UNCHANGED <<files, root, current, contentMu, disturbed>>
  BY <1>1 DEF Begin
<1>6. TypeOK'
  BY <1>2, <1>4, <1>5 DEF TypeOK
<1>7. MutexInv' /\ OnlyCreateIsCreated'
  BY <1>2, <1>4, <1>5 DEF MutexInv, OnlyCreateIsCreated, Holding
<1>8. ObjectsExist'
  BY <1>2, <1>4, <1>5 DEF ObjectsExist, TypeOK, Object
<1>9. UndisturbedStillApplies'
  <2>1. ASSUME NEW s \in Request, s \notin disturbed', Holding(s)'
        PROVE  /\ req'[s].pc = "checked" => Applies(s)'
               /\ req'[s].pc = "created" => File(s, req[s].path)' = Blank
    <3>1. s # r
      BY <1>4, <2>1 DEF Holding
    <3> QED BY <1>4, <1>5, <2>1, <3>1, Frame
  <2> QED BY <2>1 DEF UndisturbedStillApplies, Holding
<1> QED BY <1>6, <1>7, <1>8, <1>9 DEF IInv

\* Taking the free mutex records what holds at that instant.
LEMMA CheckStep ==
  ASSUME IInv, NEW r \in Request, Check(r)
  PROVE  IInv'
<1>1. TypeOK /\ MutexInv /\ ObjectsExist /\ OnlyCreateIsCreated
  BY DEF IInv
<1>2. /\ req'[r] = [req[r] EXCEPT !.pc = "checked"]
      /\ \A s \in Request \ {r} : req'[s] = req[s]
      /\ UNCHANGED <<files, root, current, disturbed>>
  BY <1>1 DEF Check, TypeOK
<1>3. req[r] \in Req /\ req[r].obj \in Object
  BY <1>1 DEF TypeOK, Req
<1>4. req'[r] \in Req /\ req'[r].obj = req[r].obj /\ req'[r].pc = "checked"
  BY <1>2, <1>3 DEF Req
<1>5. TypeOK'
  <2>1. req' \in [Request -> Req]
    BY <1>1, <1>2, <1>4 DEF TypeOK, Check
  <2> QED BY <1>1, <1>2, <1>3, <2>1 DEF TypeOK, Check
<1>6. MutexInv'
  <2>1. ASSUME NEW s \in Request, Holding(s)' PROVE contentMu'[req'[s].obj] = s
    <3>1. CASE s = r
      BY <1>1, <1>3, <1>4, <3>1 DEF TypeOK, Check
    <3>2. CASE s # r
      <4>1. Holding(s) /\ req'[s] = req[s] /\ req[s].obj \in Object
        BY <1>1, <1>2, <2>1, <3>2 DEF Holding, TypeOK, Req
      <4>2. req[s].obj # req[r].obj
        BY <1>1, <4>1, VaultAssumption DEF MutexInv, Check
      <4> QED BY <1>1, <1>3, <4>1, <4>2 DEF MutexInv, TypeOK, Check
    <3> QED BY <3>1, <3>2
  <2> QED BY <2>1 DEF MutexInv
<1>7. ObjectsExist' /\ OnlyCreateIsCreated'
  BY <1>1, <1>2, <1>4 DEF ObjectsExist, OnlyCreateIsCreated
<1>8. UndisturbedStillApplies'
  <2>1. ASSUME NEW s \in Request, s \notin disturbed'
        PROVE  /\ req'[s].pc = "checked" => Applies(s)'
               /\ req'[s].pc = "created" => File(s, req[s].path)' = Blank
    <3>1. CASE s = r
      <4>1. /\ req'[r].op = req[r].op /\ req'[r].path = req[r].path
            /\ req'[r].to = req[r].to /\ req'[r].base = req[r].base
        BY <1>2, <1>3 DEF Req
      <4>2. Home(r)' = Home(r)
        BY <1>2, <1>4 DEF Home
      <4> QED BY <1>2, <1>4, <3>1, <4>1, <4>2 DEF Applies, File, Check
    <3>2. CASE s # r
      BY <1>2, <2>1, <3>2, Frame
    <3> QED BY <3>1, <3>2
  <2>2. \A s \in Request : req'[s].path = req[s].path
    BY <1>2, <1>3 DEF Req
  <2> QED BY <2>1, <2>2 DEF UndisturbedStillApplies, File
<1> QED BY <1>5, <1>6, <1>7, <1>8 DEF IInv

\* A step of r that writes no file and ends r, whether r never took the mutex
\* (Refuse) or gives it back (ApplyFails, or a heading written nowhere).
LEMMA EndStep ==
  ASSUME IInv, NEW r \in Request, UNCHANGED <<files, root, current>>,
         disturbed' \in {disturbed, disturbed \ {r}},
         \/ ~Holding(r) /\ Finish(r) /\ UNCHANGED contentMu
         \/ Holding(r) /\ Leave(r)
  PROVE  IInv'
<1>1. TypeOK /\ MutexInv /\ ObjectsExist /\ OnlyCreateIsCreated
  BY DEF IInv
<1>2. /\ req'[r] = IdleReq
      /\ \A s \in Request \ {r} : req'[s] = req[s]
  BY <1>1 DEF Leave, Finish, TypeOK
<1>3. TypeOK'
  <2>1. req' \in [Request -> Req]
    BY <1>1, IdleReqFact DEF Leave, Finish, TypeOK
  <2>2. contentMu' \in [Object -> Request \cup {Nobody}]
    BY <1>1 DEF Leave, TypeOK
  <2> QED BY <1>1, <2>1, <2>2 DEF TypeOK
<1>4. MutexInv' /\ ObjectsExist' /\ OnlyCreateIsCreated'
  <2>1. CASE Holding(r) /\ Leave(r)
    BY <2>1, LeaveMutex
  <2>2. CASE ~Holding(r) /\ Finish(r) /\ UNCHANGED contentMu
    <3>1. MutexInv' /\ OnlyCreateIsCreated'
      BY <1>1, <1>2, <2>2, IdleReqFact DEF MutexInv, OnlyCreateIsCreated, Holding
    <3>2. ObjectsExist'
      BY <1>1, <1>2, IdleReqFact DEF ObjectsExist, TypeOK, Object
    <3> QED BY <3>1, <3>2
  <2> QED BY <2>1, <2>2
<1>5. UndisturbedStillApplies'
  <2>1. ASSUME NEW s \in Request, s \notin disturbed', Holding(s)'
        PROVE  /\ req'[s].pc = "checked" => Applies(s)'
               /\ req'[s].pc = "created" => File(s, req[s].path)' = Blank
    <3>1. s # r
      BY <1>2, <2>1, IdleReqFact DEF Holding
    <3>2. req'[s] = req[s] /\ s \notin disturbed
      BY <1>2, <2>1, <3>1
    <3> QED BY <3>2, Frame
  <2> QED BY <2>1 DEF UndisturbedStillApplies, Holding
<1> QED BY <1>3, <1>4, <1>5 DEF IInv

\* A step of r that writes files and ends r (save, move, trash, heading).
LEMMA WriteStep ==
  ASSUME IInv, NEW r \in Request, Holding(r),
         NEW D \in SUBSET Path, NEW changes \in [D -> Content \cup {Absent}],
         Put(r, changes), Leave(r), UNCHANGED <<root, current>>
  PROVE  IInv'
<1>1. TypeOK
  BY DEF IInv
<1>2. /\ MutexInv' /\ ObjectsExist' /\ OnlyCreateIsCreated'
      /\ ~Holding(r)'
      /\ \A s \in Request \ {r} : req'[s] = req[s]
  BY LeaveMutex
<1>3. TypeOK'
  <2>1. files' \in [Vault -> [Path -> Content \cup {Absent}]] /\ disturbed' \subseteq Request
    BY <1>1, PutType
  <2>2. contentMu' \in [Object -> Request \cup {Nobody}] /\ req' \in [Request -> Req]
    BY <1>1, LeaveType
  <2> QED BY <1>1, <2>1, <2>2 DEF TypeOK
<1>4. UndisturbedStillApplies'
  <2>1. ASSUME NEW s \in Request, s \notin disturbed', Holding(s)'
        PROVE  /\ req'[s].pc = "checked" => Applies(s)'
               /\ req'[s].pc = "created" => File(s, req[s].path)' = Blank
    <3>1. s # r
      BY <1>2, <2>1
    <3>2. req'[s] = req[s] /\ Holding(s)
      BY <1>2, <2>1, <3>1 DEF Holding
    <3> QED BY <2>1, <3>1, <3>2, OthersStillApply
  <2> QED BY <2>1 DEF UndisturbedStillApplies, Holding
<1> QED BY <1>2, <1>3, <1>4 DEF IInv

\* Creating writes the empty file and keeps the mutex for the heading.
LEMMA CreateStep ==
  ASSUME IInv, NEW r \in Request, ApplyCreate(r)
  PROVE  IInv'
<1> DEFINE changes == [p \in {req[r].path} |-> Blank]
<1>1. TypeOK /\ MutexInv /\ ObjectsExist /\ OnlyCreateIsCreated
  BY DEF IInv
<1>2. /\ Holding(r) /\ req[r].op = "create" /\ Put(r, changes)
      /\ UNCHANGED <<root, current, contentMu>>
  BY DEF ApplyCreate, Applying, Holding
<1>3. req[r] \in Req /\ req[r].path \in Path /\ Home(r) \in Vault
  BY <1>1 DEF TypeOK, Req, Home
<1>4. /\ req'[r] = [req[r] EXCEPT !.pc = "created"]
      /\ \A s \in Request \ {r} : req'[s] = req[s]
  BY <1>1 DEF ApplyCreate, TypeOK
<1>5. /\ req'[r] \in Req /\ req'[r].obj = req[r].obj /\ req'[r].pc = "created"
      /\ req'[r].op = "create" /\ req'[r].path = req[r].path
  BY <1>2, <1>3, <1>4 DEF Req
<1>6. TypeOK'
  <2>1. {req[r].path} \in SUBSET Path /\ changes \in [{req[r].path} -> Content \cup {Absent}]
    BY <1>3, VaultAssumption
  <2>2. files' \in [Vault -> [Path -> Content \cup {Absent}]] /\ disturbed' \subseteq Request
    BY <1>1, <1>2, <2>1, PutType
  <2>3. req' \in [Request -> Req]
    BY <1>1, <1>4, <1>5 DEF TypeOK, ApplyCreate
  <2> QED BY <1>1, <1>2, <2>2, <2>3 DEF TypeOK
<1>7. MutexInv' /\ ObjectsExist' /\ OnlyCreateIsCreated'
  <2>1. \A s \in Request : (Holding(s)' => Holding(s)) /\ req'[s].obj = req[s].obj
    BY <1>2, <1>4, <1>5 DEF Holding
  <2>2. MutexInv' /\ ObjectsExist'
    BY <1>1, <1>2, <2>1 DEF MutexInv, ObjectsExist
  <2>3. OnlyCreateIsCreated'
    BY <1>1, <1>4, <1>5 DEF OnlyCreateIsCreated
  <2> QED BY <2>2, <2>3
<1>8. UndisturbedStillApplies'
  <2>1. ASSUME NEW s \in Request, s \notin disturbed', Holding(s)'
        PROVE  /\ req'[s].pc = "checked" => Applies(s)'
               /\ req'[s].pc = "created" => File(s, req[s].path)' = Blank
    <3>1. CASE s = r
      <4>1. files'[Home(r)][req[r].path] = Blank
        BY <1>1, <1>2, <1>3 DEF Put, TypeOK
      <4>2. Home(r)' = Home(r)
        BY <1>2, <1>5 DEF Home
      <4> QED BY <1>5, <3>1, <4>1, <4>2 DEF File
    <3>2. CASE s # r
      <4>1. req'[s] = req[s] /\ Holding(s)
        BY <1>4, <2>1, <3>2 DEF Holding
      <4> QED BY <1>2, <2>1, <3>2, <4>1, OthersStillApply
    <3> QED BY <3>1, <3>2
  <2> QED BY <2>1 DEF UndisturbedStillApplies, Holding
<1> QED BY <1>6, <1>7, <1>8 DEF IInv

\* Every way an operation that holds the mutex goes on.
LEMMA ActStep ==
  ASSUME IInv, NEW r \in Request, Acts(r)
  PROVE  IInv'
<1>1. TypeOK
  BY DEF IInv
<1>2. req[r] \in Req /\ req[r].path \in Path /\ req[r].to \in Path /\ req[r].new \in Content
      /\ Home(r) \in Vault /\ \A p \in Path : File(r, p) \in Content \cup {Absent}
  BY <1>1 DEF TypeOK, Req, Home, File
<1>3. CASE ApplySave(r)
  <2> DEFINE changes == [p \in {req[r].path} |-> req[r].new]
  <2>1. {req[r].path} \in SUBSET Path /\ changes \in [{req[r].path} -> Content \cup {Absent}]
    BY <1>2
  <2>2. Holding(r) /\ Put(r, changes) /\ Leave(r) /\ UNCHANGED <<root, current>>
    BY <1>3 DEF ApplySave, Applying, Holding
  <2> QED BY <2>1, <2>2, WriteStep
<1>4. CASE ApplyCreate(r)
  BY <1>4, CreateStep
<1>5. CASE ApplyHeading(r)
  <2>1. Holding(r) /\ Leave(r) /\ UNCHANGED <<root, current>>
    BY <1>5 DEF ApplyHeading, Holding
  <2>2. CASE UNCHANGED files /\ disturbed' = disturbed \ {r}
    BY <2>1, <2>2, EndStep
  <2>3. CASE \E p \in Path : Put(r, [q \in {p} |-> Heading])
    <3>1. PICK p \in Path : Put(r, [q \in {p} |-> Heading])
      BY <2>3
    <3>2. {p} \in SUBSET Path /\ [q \in {p} |-> Heading] \in [{p} -> Content \cup {Absent}]
      BY VaultAssumption
    <3> QED BY <2>1, <3>1, <3>2, WriteStep
  <2> QED BY <1>2, <1>5, <2>2, <2>3 DEF ApplyHeading
<1>6. CASE CreateFails(r)
  <2>1. Holding(r) /\ Leave(r) /\ UNCHANGED <<root, current>>
    BY <1>6 DEF CreateFails, Holding
  <2>2. CASE UNCHANGED files /\ disturbed' = disturbed \ {r}
    BY <2>1, <2>2, EndStep
  <2>3. CASE Put(r, [x \in {req[r].path} |-> Absent])
    <3>1. /\ {req[r].path} \in SUBSET Path
          /\ [p \in {req[r].path} |-> Absent] \in [{req[r].path} -> Content \cup {Absent}]
      BY <1>2
    <3> QED BY <2>1, <2>3, <3>1, WriteStep
  <2> QED BY <1>6, <2>2, <2>3 DEF CreateFails
<1>7. CASE ApplyMove(r)
  <2> DEFINE changes == [p \in {req[r].path, req[r].to} |->
                           IF p = req[r].to THEN File(r, req[r].path) ELSE Absent]
  <2>1. /\ {req[r].path, req[r].to} \in SUBSET Path
        /\ changes \in [{req[r].path, req[r].to} -> Content \cup {Absent}]
    BY <1>2
  <2>2. Holding(r) /\ Put(r, changes) /\ Leave(r) /\ UNCHANGED <<root, current>>
    BY <1>7 DEF ApplyMove, Applying, Holding
  <2> QED BY <2>1, <2>2, WriteStep
<1>8. CASE ApplyTrash(r)
  <2> DEFINE changes == [p \in {req[r].path} |-> Absent]
  <2>1. {req[r].path} \in SUBSET Path /\ changes \in [{req[r].path} -> Content \cup {Absent}]
    BY <1>2
  <2>2. Holding(r) /\ Put(r, changes) /\ Leave(r) /\ UNCHANGED <<root, current>>
    BY <1>8 DEF ApplyTrash, Applying, Holding
  <2> QED BY <2>1, <2>2, WriteStep
<1>9. CASE ApplyFails(r)
  <2>1. Holding(r) /\ Leave(r) /\ UNCHANGED <<files, root, current>> /\ disturbed' = disturbed \ {r}
    BY <1>9 DEF ApplyFails, Holding
  <2> QED BY <2>1, EndStep
<1> QED BY <1>3, <1>4, <1>5, <1>6, <1>7, <1>8, <1>9 DEF Acts

\* A new Repository object: nobody works on it yet, so nobody's root moves.
LEMMA ActivateStep ==
  ASSUME IInv, NEW v \in Vault, Activate(v)
  PROVE  IInv'
<1>1. TypeOK /\ MutexInv /\ ObjectsExist /\ OnlyCreateIsCreated
  BY DEF IInv
<1>2. /\ UNCHANGED <<files, contentMu, req, disturbed>>
      /\ current' = current + 1 /\ current \in Nat /\ current + 1 \in Object
  BY <1>1, VaultAssumption DEF Activate, TypeOK, Object
<1>3. TypeOK'
  BY <1>1, <1>2 DEF TypeOK, Activate
<1>4. MutexInv' /\ OnlyCreateIsCreated'
  BY <1>1, <1>2 DEF MutexInv, OnlyCreateIsCreated, Holding
<1>5. \A s \in Request : req[s].obj \in Nat /\ req[s].obj <= current
  BY <1>1 DEF TypeOK, Req, Object, ObjectsExist
<1>6. ObjectsExist'
  BY <1>2, <1>5 DEF ObjectsExist
<1>7. \A s \in Request : root'[req[s].obj] = root[req[s].obj]
  BY <1>1, <1>2, <1>5 DEF Activate, TypeOK, Req
<1>8. UndisturbedStillApplies'
  <2>1. ASSUME NEW s \in Request, s \notin disturbed'
        PROVE  /\ req'[s].pc = "checked" => Applies(s)'
               /\ req'[s].pc = "created" => File(s, req[s].path)' = Blank
    BY <1>2, <1>7, <2>1, Frame
  <2> QED BY <2>1 DEF UndisturbedStillApplies
<1> QED BY <1>3, <1>4, <1>6, <1>8 DEF IInv

\* After a restart nobody is in flight.
LEMMA RestartStep ==
  ASSUME IInv, Restart
  PROVE  IInv'
<1>1. TypeOK
  BY DEF IInv
<1>2. \A s \in Request : req'[s] = IdleReq
  BY DEF Restart
<1>3. TypeOK'
  <2>1. 1 \in Object
    BY VaultAssumption DEF Object
  <2> QED BY <1>1, <2>1, IdleReqFact DEF Restart, TypeOK
<1>4. MutexInv' /\ ObjectsExist' /\ OnlyCreateIsCreated' /\ UndisturbedStillApplies'
  BY <1>2, IdleReqFact
  DEF Restart, MutexInv, ObjectsExist, OnlyCreateIsCreated, UndisturbedStillApplies, Holding
<1> QED BY <1>3, <1>4 DEF IInv

\* The inductive invariant holds in every reachable state.
THEOREM Invariant == Spec => []IInv
<1>1. Init => IInv
  <2> SUFFICES ASSUME Init PROVE IInv
    OBVIOUS
  <2>1. 1 \in Object
    BY VaultAssumption DEF Object
  <2>2. TypeOK
    BY <2>1, IdleReqFact, VaultAssumption DEF Init, TypeOK
  <2>3. \A r \in Request : req[r] = IdleReq
    BY DEF Init
  <2> QED BY <2>2, <2>3, IdleReqFact
      DEF Init, IInv, MutexInv, ObjectsExist, OnlyCreateIsCreated, UndisturbedStillApplies, Holding
<1>2. IInv /\ [Next]_vars => IInv'
  <2> SUFFICES ASSUME IInv, [Next]_vars PROVE IInv'
    OBVIOUS
  <2>1. ASSUME NEW r \in Request, Begins(r) PROVE IInv'
    BY <2>1, BeginStep
  <2>2. ASSUME NEW r \in Request, Check(r) PROVE IInv'
    BY <2>2, CheckStep
  <2>3. ASSUME NEW r \in Request, Refuse(r) PROVE IInv'
    <3>1. ~Holding(r) /\ Finish(r) /\ UNCHANGED <<files, root, current, contentMu, disturbed>>
      BY <2>3 DEF Refuse, Holding
    <3> QED BY <3>1, EndStep
  <2>4. ASSUME NEW r \in Request, Acts(r) PROVE IInv'
    BY <2>4, ActStep
  <2>5. ASSUME NEW v \in Vault, Activate(v) PROVE IInv'
    BY <2>5, ActivateStep
  <2>6. CASE Restart
    BY <2>6, RestartStep
  <2>7. CASE UNCHANGED vars
    BY <2>7 DEF vars, IInv, TypeOK, MutexInv, ObjectsExist, OnlyCreateIsCreated,
                UndisturbedStillApplies, Applies, File, Home, Holding
  <2> QED BY <2>1, <2>2, <2>3, <2>4, <2>5, <2>6, <2>7 DEF Next
<1> QED BY <1>1, <1>2, PTL DEF Spec

-----------------------------------------------------------------------------
\* The types of VaultNotes, in every reachable state.
THEOREM TypeCorrect == Spec => []TypeOK
<1>1. IInv => TypeOK
  BY DEF IInv
<1> QED BY <1>1, Invariant, PTL

\* What an operation saw when it took the mutex holds until it acts, unless
\* another Repository object changed its files: for every number of vaults,
\* paths, requests and objects.
THEOREM SameObjectNeverInterferes == Spec => []UndisturbedStillApplies
<1>1. IInv => UndisturbedStillApplies
  BY DEF IInv
<1> QED BY <1>1, Invariant, PTL

-----------------------------------------------------------------------------
(* The operations are as good as atomic (NoteSpace).                       *)

\* Nobody's files were changed through another object.
Undisturbed == disturbed = {}

\* A move has another target than its source.
MovesAway == \A r \in Request : req[r].op = "move" => req[r].path # req[r].to

\* Two notes that await their headings are not at one path, unless another object
\* interfered.
HeadingsApart ==
  \A q, r \in Request \ disturbed :
    /\ req[q].pc = "created" /\ req[r].pc = "created"
    /\ Home(q) = Home(r) /\ req[q].path = req[r].path
    => q = r

\* The requests that created a note and have not written its heading.
Created == {q \in Request : req[q].pc = "created"}

Fresh == {<<Home(r), req[r].path>> : r \in Created}

\* Both hold in every reachable state: only BeginMove starts a move, and
\* ApplyCreate finds nothing at its path.
LEMMA ApartStep ==
  ASSUME IInv, MovesAway, HeadingsApart, [Next]_vars
  PROVE  MovesAway' /\ HeadingsApart'
<1>0. TypeOK /\ ObjectsExist
  BY DEF IInv
<1>1. ASSUME \A r \in Request : req'[r].op = "move" => req'[r].path # req'[r].to,
             \A r \in Request : req'[r].pc = "created" => req'[r] = req[r] /\ Home(r)' = Home(r),
             \A r \in Request : req'[r].pc = "created" /\ r \in disturbed => r \in disturbed'
      PROVE  MovesAway' /\ HeadingsApart'
  BY <1>1 DEF MovesAway, HeadingsApart
<1>2. ASSUME NEW r \in Request, Begins(r) PROVE MovesAway' /\ HeadingsApart'
  <2>1. PICK op \in Op, p \in Path, q \in Path, base \in Content, new \in Content :
          Begin(r, op, p, q, base, new) /\ (op = "move" => p # q)
    BY <1>2, VaultAssumption DEF Begins, BeginSave, BeginCreate, BeginMove, BeginTrash, Op
  <2>2. /\ req'[r].op = op /\ req'[r].path = p /\ req'[r].to = q /\ req'[r].pc = "queued"
        /\ \A s \in Request \ {r} : req'[s] = req[s]
        /\ UNCHANGED <<root, disturbed>>
    BY <1>0, <2>1 DEF Begin, TypeOK
  <2> QED BY <1>1, <2>1, <2>2 DEF MovesAway, Home
<1>3. ASSUME NEW r \in Request, Check(r) PROVE MovesAway' /\ HeadingsApart'
  <2>1. /\ req'[r].op = req[r].op /\ req'[r].path = req[r].path /\ req'[r].to = req[r].to
        /\ req'[r].pc = "checked"
        /\ \A s \in Request \ {r} : req'[s] = req[s]
        /\ UNCHANGED <<root, disturbed>>
    BY <1>0, <1>3 DEF Check, TypeOK, Req
  <2> QED BY <1>1, <2>1 DEF MovesAway, Home
<1>4. ASSUME NEW r \in Request, Finish(r), UNCHANGED root, disturbed \ {r} \subseteq disturbed'
      PROVE  MovesAway' /\ HeadingsApart'
  <2>1. /\ req'[r].op = "none" /\ req'[r].pc = "idle"
        /\ \A s \in Request \ {r} : req'[s] = req[s]
    BY <1>0, <1>4 DEF Finish, IdleReq, TypeOK
  <2> QED BY <1>1, <1>4, <2>1 DEF MovesAway, Home
<1>5. ASSUME NEW r \in Request, ApplyCreate(r) PROVE MovesAway' /\ HeadingsApart'
  <2> DEFINE changes == [p \in {req[r].path} |-> Blank]
  <2>1. /\ req[r].pc = "checked" /\ req[r].op = "create" /\ File(r, req[r].path) = Absent
        /\ Put(r, changes) /\ UNCHANGED root
    BY <1>5 DEF ApplyCreate, Applying
  <2>2. /\ req'[r].op = "create" /\ req'[r].path = req[r].path /\ req'[r].to = req[r].to
        /\ req'[r].pc = "created" /\ req'[r].obj = req[r].obj
        /\ \A s \in Request \ {r} : req'[s] = req[s]
    BY <1>0, <1>5, <2>1 DEF ApplyCreate, TypeOK, Req
  <2>3. MovesAway'
    BY <2>2 DEF MovesAway
  <2>4. \A s \in Request : Home(s)' = Home(s)
    BY <2>1, <2>2 DEF Home
  <2>5. ASSUME NEW q \in Request \ disturbed', q # r, req[q].pc = "created",
               Home(q) = Home(r), req[q].path = req[r].path
        PROVE  FALSE
    <3>1. q \notin disturbed
      BY <2>1, <2>5 DEF Put
    <3>2. File(q, req[q].path) = Blank
      BY <2>5, <3>1 DEF IInv, UndisturbedStillApplies
    <3> QED BY <2>1, <2>5, <3>2, VaultAssumption DEF File
  <2>6. disturbed \ {r} \subseteq disturbed'
    BY <2>1 DEF Put
  <2>7. HeadingsApart'
    <3> SUFFICES ASSUME NEW q \in Request \ disturbed', NEW s \in Request \ disturbed',
                        req'[q].pc = "created", req'[s].pc = "created",
                        Home(q) = Home(s), req'[q].path = req'[s].path, q # s
                 PROVE  FALSE
      BY <2>4 DEF HeadingsApart
    <3>1. q # r /\ s # r
      BY <2>2, <2>5
    <3> QED BY <2>2, <2>6, <3>1 DEF HeadingsApart
  <2> QED BY <2>3, <2>7
<1>6. ASSUME NEW r \in Request, Acts(r) PROVE MovesAway' /\ HeadingsApart'
  <2>1. CASE ApplyCreate(r)
    BY <1>5, <2>1
  <2>2. CASE ~ApplyCreate(r)
    <3>1. Finish(r) /\ UNCHANGED root /\ disturbed \ {r} \subseteq disturbed'
      BY <1>6, <2>2 DEF Acts, ApplySave, ApplyHeading, CreateFails, ApplyMove, ApplyTrash, ApplyFails,
                        Applying, Leave, Put
    <3> QED BY <1>4, <3>1
  <2> QED BY <2>1, <2>2
<1>7. ASSUME NEW r \in Request, Refuse(r) PROVE MovesAway' /\ HeadingsApart'
  BY <1>4, <1>7 DEF Refuse
<1>8. ASSUME NEW v \in Vault, Activate(v) PROVE MovesAway' /\ HeadingsApart'
  <2>1. \A s \in Request : Home(s)' = Home(s)
    <3>1. current \in Nat /\ \A s \in Request : req[s].obj \in Nat /\ req[s].obj <= current
      BY <1>0 DEF TypeOK, Req, Object, ObjectsExist
    <3> QED BY <1>0, <1>8, <3>1 DEF Activate, TypeOK, Home, Req
  <2> QED BY <1>1, <1>8, <2>1 DEF Activate, MovesAway
<1>9. ASSUME Restart PROVE MovesAway' /\ HeadingsApart'
  <2>1. \A s \in Request : req'[s].op = "none" /\ req'[s].pc = "idle"
    BY <1>9 DEF Restart, IdleReq
  <2> QED BY <2>1 DEF MovesAway, HeadingsApart
<1>10. CASE UNCHANGED vars
  BY <1>1, <1>10 DEF vars, MovesAway, Home
<1> QED BY <1>2, <1>3, <1>6, <1>7, <1>8, <1>9, <1>10 DEF Next

\* What Put does to the files of its vault, for one path and for two.
LEMMA PutOne ==
  ASSUME TypeOK, NEW r \in Request, NEW p \in Path, NEW c, Put(r, [q \in {p} |-> c])
  PROVE  files' = [files EXCEPT ![Home(r)][p] = c]
<1>1. Home(r) \in Vault
  BY DEF TypeOK, Home, Req
<1> DEFINE changes == [q \in {p} |-> c]
           g == [x \in Path |-> IF x \in DOMAIN changes THEN changes[x] ELSE files[Home(r)][x]]
<1>2. files' = [files EXCEPT ![Home(r)] = g]
  BY DEF Put
<1>3. g = [files[Home(r)] EXCEPT ![p] = c]
  BY <1>1 DEF TypeOK
<1> QED BY <1>1, <1>2, <1>3 DEF TypeOK

\* Whoever acts on the path of a note that awaits its heading disturbs it.
LEMMA ActsOnStable ==
  ASSUME IInv, NEW r \in Request, req[r].pc = "checked", NEW changes, Put(r, changes),
         req[r].path \in DOMAIN changes, Undisturbed'
  PROVE  <<Home(r), req[r].path>> \notin Fresh
<1> SUFFICES ASSUME NEW q \in Request, req[q].pc = "created",
                    Home(q) = Home(r), req[q].path = req[r].path
             PROVE  FALSE
  BY DEF Fresh, Created
<1>1. req[q].obj # req[r].obj
  BY DEF IInv, MutexInv, Holding
<1>2. q \in disturbed'
  BY <1>1 DEF Put, Holding, Touches
<1> QED BY <1>2 DEF Undisturbed

\* A note whose heading is written, or whose creation fails, leaves Fresh; the
\* others stay.
LEMMA FreshLeaves ==
  ASSUME TypeOK, HeadingsApart, Undisturbed, NEW r \in Request, req[r].pc = "created",
         Leave(r), UNCHANGED root
  PROVE  /\ Fresh' = Fresh \ {<<Home(r), req[r].path>>}
         /\ <<Home(r), req[r].path>> \in Fresh
<1>1. /\ req'[r].pc = "idle"
      /\ \A s \in Request \ {r} : req'[s] = req[s] /\ Home(s)' = Home(s)
  BY DEF Leave, Finish, IdleReq, TypeOK, Home
<1>2. Created' = Created \ {r} /\ r \in Created
  BY <1>1 DEF Created
<1>3. \A s \in Created \ {r} : <<Home(s), req[s].path>> # <<Home(r), req[r].path>>
  BY DEF HeadingsApart, Undisturbed, Created
<1>4. Fresh' = {<<Home(s), req[s].path>> : s \in Created \ {r}}
  BY <1>1, <1>2 DEF Fresh, Created
<1> QED BY <1>2, <1>3, <1>4 DEF Fresh

\* Steps in which no request starts or stops awaiting its heading.
LEMMA FreshStays ==
  ASSUME \A s \in Request :
           \/ req'[s].pc # "created" /\ req[s].pc # "created"
           \/ req'[s] = req[s] /\ Home(s)' = Home(s)
  PROVE  Fresh' = Fresh
<1>1. Created' = Created
  BY DEF Created
<1>2. \A s \in Created : <<Home(s)', req'[s].path>> = <<Home(s), req[s].path>>
  BY <1>1 DEF Created
<1> QED BY <1>1, <1>2 DEF Fresh

\* An operation that acts on what it checked ends, and no heading is awaited or
\* written by it.
LEMMA FreshOfEnd ==
  ASSUME TypeOK, NEW r \in Request, req[r].pc # "created", Finish(r), UNCHANGED root
  PROVE  Fresh' = Fresh
<1>1. /\ req'[r].pc = "idle"
      /\ \A s \in Request \ {r} : req'[s] = req[s] /\ Home(s)' = Home(s)
  BY DEF Finish, IdleReq, TypeOK, Home
<1> QED BY <1>1, FreshStays

-----------------------------------------------------------------------------
(* Each operation, one lemma each.                                         *)

\* A save replaces the content it names.
LEMMA SaveIsAtomic ==
  ASSUME IInv, Undisturbed, Undisturbed', NEW r \in Request, ApplySave(r),
         NEW v \in Vault, v = Home(r), NEW p \in Path, p = req[r].path
  PROVE  Promise!SaveNote(v, p, req[r].base, req[r].new)
<1>1. /\ req[r].pc = "checked" /\ req[r].op = "save" /\ UNCHANGED root /\ Finish(r)
      /\ Put(r, [x \in {req[r].path} |-> req[r].new])
  BY DEF ApplySave, Applying, Leave
<1>2. TypeOK /\ req[r].path \in Path /\ req[r].base \in Content
  BY DEF IInv, TypeOK, Req
<1>3. File(r, req[r].path) = req[r].base
  BY <1>1 DEF IInv, UndisturbedStillApplies, Undisturbed, Applies
<1>4. <<Home(r), req[r].path>> \notin Fresh
  BY <1>1, ActsOnStable
<1>5. files' = [files EXCEPT ![Home(r)][req[r].path] = req[r].new]
  BY <1>1, <1>2, PutOne
<1>6. Fresh' = Fresh
  BY <1>1, <1>2, FreshOfEnd
<1> QED BY <1>2, <1>3, <1>4, <1>5, <1>6, VaultAssumption
        DEF Promise!SaveNote, Promise!Stable, Fresh, Created, File

\* A note is created where none is.
LEMMA CreateIsAtomic ==
  ASSUME IInv, NEW r \in Request, ApplyCreate(r),
         NEW v \in Vault, v = Home(r), NEW p \in Path, p = req[r].path
  PROVE  Promise!CreateNote(v, p)
<1>1. /\ req[r].pc = "checked" /\ req[r].op = "create" /\ UNCHANGED root
      /\ File(r, req[r].path) = Absent
      /\ Put(r, [x \in {req[r].path} |-> Blank])
      /\ req' = [req EXCEPT ![r].pc = "created"]
  BY DEF ApplyCreate, Applying
<1>2. TypeOK /\ req[r].path \in Path
  BY DEF IInv, TypeOK, Req
<1>3. files' = [files EXCEPT ![Home(r)][req[r].path] = Blank]
  BY <1>1, <1>2, PutOne
<1>4. /\ req'[r].pc = "created" /\ req'[r].path = req[r].path /\ req'[r].obj = req[r].obj
      /\ \A s \in Request \ {r} : req'[s] = req[s]
  BY <1>1, <1>2 DEF TypeOK, Req
<1>5. Created' = Created \cup {r} /\ r \notin Created
  BY <1>1, <1>4 DEF Created
<1>6. \A s \in Request : <<Home(s)', req'[s].path>> = <<Home(s), req[s].path>>
  BY <1>1, <1>4 DEF Home
<1>7. Fresh' = Fresh \cup {<<Home(r), req[r].path>>}
  BY <1>5, <1>6 DEF Fresh, Created
<1> QED BY <1>1, <1>3, <1>7 DEF Promise!CreateNote, Fresh, Created, File

\* The heading goes to the note that awaits it.
LEMMA HeadingIsAtomic ==
  ASSUME IInv, HeadingsApart, Undisturbed, NEW r \in Request, ApplyHeading(r),
         NEW v \in Vault, v = Home(r), NEW p \in Path, p = req[r].path
  PROVE  Promise!WriteHeading(v, p)
<1>1. req[r].pc = "created" /\ Leave(r) /\ UNCHANGED root
  BY DEF ApplyHeading
<1>2. TypeOK /\ req[r].path \in Path
  BY DEF IInv, TypeOK, Req
<1>3. File(r, req[r].path) = Blank
  BY <1>1 DEF IInv, UndisturbedStillApplies, Undisturbed
<1>4. Put(r, [q \in {req[r].path} |-> Heading])
  BY <1>2, <1>3 DEF ApplyHeading
<1>5. files' = [files EXCEPT ![Home(r)][req[r].path] = Heading]
  BY <1>2, <1>4, PutOne
<1>6. Fresh' = Fresh \ {<<Home(r), req[r].path>>} /\ <<Home(r), req[r].path>> \in Fresh
  BY <1>1, <1>2, FreshLeaves
<1> QED BY <1>5, <1>6 DEF Promise!WriteHeading, Promise!Stable, Fresh, Created

\* A creation that fails takes its own note away, or leaves it.
LEMMA FailureIsAtomic ==
  ASSUME IInv, HeadingsApart, Undisturbed, NEW r \in Request, CreateFails(r),
         NEW v \in Vault, v = Home(r), NEW p \in Path, p = req[r].path
  PROVE  Promise!AbandonNote(v, p)
<1>1. req[r].pc = "created" /\ Leave(r) /\ UNCHANGED root
  BY DEF CreateFails
<1>2. TypeOK /\ req[r].path \in Path
  BY DEF IInv, TypeOK, Req
<1>3. files' \in {files, [files EXCEPT ![Home(r)][req[r].path] = Absent]}
  BY <1>2, PutOne DEF CreateFails
<1>4. Fresh' = Fresh \ {<<Home(r), req[r].path>>} /\ <<Home(r), req[r].path>> \in Fresh
  BY <1>1, <1>2, FreshLeaves
<1> QED BY <1>3, <1>4 DEF Promise!AbandonNote, Promise!Stable, Fresh, Created

\* A move takes a note to where none is.
LEMMA MoveIsAtomic ==
  ASSUME IInv, MovesAway, Undisturbed, Undisturbed', NEW r \in Request, ApplyMove(r),
         NEW v \in Vault, v = Home(r), NEW p \in Path, p = req[r].path, NEW q \in Path, q = req[r].to
  PROVE  Promise!MoveNote(v, p, q)
<1> DEFINE changes == [x \in {p, q} |-> IF x = q THEN File(r, p) ELSE Absent]
<1>1. /\ req[r].pc = "checked" /\ req[r].op = "move" /\ UNCHANGED root /\ Finish(r)
      /\ Put(r, changes)
  BY DEF ApplyMove, Applying, Leave
<1>2. TypeOK /\ p \in Path /\ q \in Path /\ p # q /\ Home(r) \in Vault
  BY <1>1 DEF IInv, TypeOK, Req, MovesAway, Home
<1>3. File(r, p) # Absent /\ File(r, q) = Absent
  BY <1>1 DEF IInv, UndisturbedStillApplies, Undisturbed, Applies
<1>4. <<Home(r), p>> \notin Fresh
  BY <1>1, ActsOnStable
<1>5. files' = [files EXCEPT ![Home(r)][q] = files[Home(r)][p], ![Home(r)][p] = Absent]
  <2> DEFINE g == [x \in Path |-> IF x \in DOMAIN changes THEN changes[x] ELSE files[Home(r)][x]]
             h == [files[Home(r)] EXCEPT ![q] = files[Home(r)][p], ![p] = Absent]
  <2>1. files' = [files EXCEPT ![Home(r)] = g]
    BY <1>1 DEF Put
  <2>2. g = h
    BY <1>2 DEF File, TypeOK
  <2>3. [files EXCEPT ![Home(r)][q] = files[Home(r)][p], ![Home(r)][p] = Absent]
        = [files EXCEPT ![Home(r)] = h]
    BY <1>2 DEF TypeOK
  <2> QED BY <2>1, <2>2, <2>3
<1>6. Fresh' = Fresh
  BY <1>1, <1>2, FreshOfEnd
<1> QED BY <1>2, <1>3, <1>4, <1>5, <1>6
        DEF Promise!MoveNote, Promise!Stable, Fresh, Created, File

\* A note goes to the trash.
LEMMA TrashIsAtomic ==
  ASSUME IInv, Undisturbed', NEW r \in Request, ApplyTrash(r),
         NEW v \in Vault, v = Home(r), NEW p \in Path, p = req[r].path
  PROVE  Promise!RemoveNote(v, p)
<1>1. /\ req[r].pc = "checked" /\ UNCHANGED root /\ Finish(r)
      /\ File(r, req[r].path) # Absent
      /\ Put(r, [x \in {req[r].path} |-> Absent])
  BY DEF ApplyTrash, Applying, Leave
<1>2. TypeOK /\ req[r].path \in Path
  BY DEF IInv, TypeOK, Req
<1>3. <<Home(r), req[r].path>> \notin Fresh
  BY <1>1, ActsOnStable
<1>4. files' = [files EXCEPT ![Home(r)][req[r].path] = Absent]
  BY <1>1, <1>2, PutOne
<1>5. Fresh' = Fresh
  BY <1>1, <1>2, FreshOfEnd
<1> QED BY <1>1, <1>3, <1>4, <1>5 DEF Promise!RemoveNote, Promise!Stable, Fresh, Created, File

\* Every step that leaves nobody disturbed is a step of NoteSpace, or none.
LEMMA AtomicStep ==
  ASSUME IInv, MovesAway, HeadingsApart, Undisturbed, Undisturbed', [Next]_vars
  PROVE  [Promise!NSNext]_(Promise!nsVars)
<1>0. TypeOK
  BY DEF IInv
<1>1. \A r \in Request : /\ Home(r) \in Vault /\ req[r].path \in Path /\ req[r].to \in Path
                         /\ req[r].base \in Content /\ req[r].new \in Content
  BY <1>0 DEF TypeOK, Req, Home
<1>2. ASSUME files' = files, Fresh' = Fresh PROVE [Promise!NSNext]_(Promise!nsVars)
  BY <1>2 DEF Promise!nsVars, Fresh, Created
<1>3. ASSUME NEW r \in Request, Begins(r) \/ Check(r) PROVE [Promise!NSNext]_(Promise!nsVars)
  <2>1. req[r].pc # "created" /\ files' = files /\ root' = root
    BY <1>3 DEF Begins, BeginSave, BeginCreate, BeginMove, BeginTrash, Begin, Check
  <2>2. req'[r].pc # "created" /\ \A s \in Request \ {r} : req'[s] = req[s]
    BY <1>0, <1>3 DEF Begins, BeginSave, BeginCreate, BeginMove, BeginTrash, Begin, Check,
                      TypeOK, Req
  <2>3. Fresh' = Fresh
    BY <2>1, <2>2, FreshStays DEF Home
  <2> QED BY <1>2, <2>1, <2>3
<1>4. ASSUME NEW r \in Request, Refuse(r) \/ ApplyFails(r) PROVE [Promise!NSNext]_(Promise!nsVars)
  <2>1. req[r].pc # "created" /\ files' = files /\ root' = root /\ Finish(r)
    BY <1>4 DEF Refuse, ApplyFails, Leave
  <2> QED BY <1>0, <1>2, <2>1, FreshOfEnd
<1>5. ASSUME NEW r \in Request,
             ApplySave(r) \/ ApplyCreate(r) \/ ApplyHeading(r) \/ CreateFails(r) \/ ApplyMove(r)
               \/ ApplyTrash(r)
      PROVE  [Promise!NSNext]_(Promise!nsVars)
  <2>1. PICK v \in Vault, p \in Path, q \in Path : v = Home(r) /\ p = req[r].path /\ q = req[r].to
    BY <1>1
  <2>2. ApplySave(r) => Promise!SaveNote(v, p, req[r].base, req[r].new)
    BY <2>1, SaveIsAtomic
  <2>3. /\ ApplyCreate(r) => Promise!CreateNote(v, p)
        /\ ApplyHeading(r) => Promise!WriteHeading(v, p)
        /\ CreateFails(r) => Promise!AbandonNote(v, p)
        /\ ApplyTrash(r) => Promise!RemoveNote(v, p)
    BY <2>1, CreateIsAtomic, HeadingIsAtomic, FailureIsAtomic, TrashIsAtomic
  <2>4. ApplyMove(r) => Promise!MoveNote(v, p, q)
    BY <2>1, MoveIsAtomic
  <2> QED BY <1>1, <1>5, <2>2, <2>3, <2>4 DEF Promise!NSNext
<1>6. ASSUME NEW v \in Vault, Activate(v) PROVE [Promise!NSNext]_(Promise!nsVars)
  <2>1. current \in Nat /\ \A s \in Request : req[s].obj \in Nat /\ req[s].obj <= current
    BY <1>0 DEF IInv, TypeOK, Req, Object, ObjectsExist
  <2>2. \A s \in Request : Home(s)' = Home(s) /\ req'[s] = req[s]
    BY <1>0, <1>6, <2>1 DEF Activate, TypeOK, Home, Req
  <2>3. Fresh' = Fresh
    BY <2>2, FreshStays
  <2> QED BY <1>2, <1>6, <2>3 DEF Activate
<1>7. CASE Restart
  <2>1. files' = files /\ \A s \in Request : req'[s].pc = "idle"
    BY <1>7 DEF Restart, IdleReq
  <2>2. Fresh' = {}
    BY <2>1 DEF Fresh, Created
  <2> QED BY <2>1, <2>2 DEF Promise!NSNext, Promise!Crash, Fresh, Created
<1>8. CASE UNCHANGED vars
  <2>1. Fresh' = Fresh
    BY <1>8, FreshStays DEF vars, Home
  <2> QED BY <1>2, <1>8, <2>1 DEF vars
<1> QED BY <1>3, <1>4, <1>5, <1>6, <1>7, <1>8 DEF Next, Acts

\* MovesAway and HeadingsApart hold in every reachable state.
LEMMA Apart == Spec => [](MovesAway /\ HeadingsApart)
<1>1. Init => MovesAway /\ HeadingsApart
  BY DEF Init, MovesAway, HeadingsApart, IdleReq
<1>2. IInv /\ (MovesAway /\ HeadingsApart) /\ [Next]_vars => (MovesAway /\ HeadingsApart)'
  BY ApartStep
<1> QED BY <1>1, <1>2, Invariant, PTL DEF Spec

\* As long as no request is disturbed through another object, every operation of
\* every vault happens at one instant: the code implements NoteSpace.
THEOREM UndisturbedIsAtomic == Spec /\ []Undisturbed => OperationsAreAtomic
<1>1. Init => Promise!NSInit
  BY DEF Init, Promise!NSInit, IdleReq
<1>2. /\ IInv /\ (MovesAway /\ HeadingsApart) /\ Undisturbed /\ Undisturbed' /\ [Next]_vars
      => [Promise!NSNext]_(Promise!nsVars)
  BY AtomicStep
<1> QED BY <1>1, <1>2, Invariant, Apart, PTL DEF Spec, OperationsAreAtomic, Promise!NSSpec

\* While no vault has two objects, nobody is disturbed.
LEMMA OneObjectDisturbsNobody == Spec /\ []OneObjectPerVault => []Undisturbed
<1>1. Init => Undisturbed
  BY DEF Init, Undisturbed
<1>2. IInv /\ OneObjectPerVault /\ Undisturbed /\ [Next]_vars => Undisturbed'
  <2> SUFFICES ASSUME IInv, OneObjectPerVault, Undisturbed, [Next]_vars PROVE Undisturbed'
    OBVIOUS
  <2>1. \A q, r \in Request : Home(q) = Home(r) => req[q].obj = req[r].obj
    <3>1. \A r \in Request : req[r].obj \in 1..current
      BY DEF IInv, TypeOK, Req, Object, ObjectsExist
    <3> QED BY <3>1 DEF OneObjectPerVault, Home
  <2>2. ASSUME NEW r \in Request, NEW changes, Put(r, changes) PROVE Undisturbed'
    BY <2>1, <2>2 DEF Put, Undisturbed
  <2>3. ASSUME disturbed' \subseteq disturbed PROVE Undisturbed'
    BY <2>3 DEF Undisturbed
  <2>4. ASSUME NEW r \in Request, Begins(r) \/ Check(r) \/ Refuse(r) PROVE Undisturbed'
    BY <2>3, <2>4
    DEF Begins, BeginSave, BeginCreate, BeginMove, BeginTrash, Begin, Check, Refuse
  <2>5. ASSUME NEW r \in Request, Acts(r) PROVE Undisturbed'
    <3>1. disturbed' \subseteq disturbed \/ \E changes : Put(r, changes)
      BY <2>5 DEF Acts, ApplySave, ApplyCreate, ApplyHeading, CreateFails, ApplyMove, ApplyTrash,
                  ApplyFails
    <3> QED BY <2>2, <2>3, <3>1
  <2>6. CASE Restart \/ (\E v \in Vault : Activate(v)) \/ UNCHANGED vars
    BY <2>6 DEF Restart, Activate, vars, Undisturbed
  <2> QED BY <2>4, <2>5, <2>6 DEF Next
<1> QED BY <1>1, <1>2, Invariant, PTL DEF Spec

\* With one Repository object a vault, the code implements NoteSpace: for any
\* number of vaults, notes and requests, across restarts.
THEOREM OneObjectIsAtomic == Spec /\ []OneObjectPerVault => OperationsAreAtomic
  BY OneObjectDisturbsNobody, UndisturbedIsAtomic, PTL

\* And then a save that succeeds replaces the content whose version it named.
THEOREM SavesReplaceWhatTheyName == Spec /\ []OneObjectPerVault => SaveReplacesWhatItNames
<1> DEFINE Named == \A r \in Request : ApplySave(r) => File(r, req[r].path) = req[r].base
<1>1. IInv /\ Undisturbed => Named
  BY DEF IInv, UndisturbedStillApplies, Undisturbed, Applies, ApplySave, Applying
<1>2. IInv /\ Undisturbed => [Named]_vars
  BY <1>1
<1> QED BY <1>2, Invariant, OneObjectDisturbsNobody, PTL DEF SaveReplacesWhatItNames
=============================================================================
