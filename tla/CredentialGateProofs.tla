------------------------ MODULE CredentialGateProofs ------------------------
(***************************************************************************)
(* Theorems about CredentialGate, for any sessions, passwords, secrets,    *)
(* codes and requests: the slot keeps the routes apart, so a password      *)
(* alone never signs in past MFA and an unproven secret is never enabled.  *)
(***************************************************************************)
EXTENDS CredentialGate, TLAPS

\* A request is past the slot exactly when it has it.
SlotHeld == \A r \in Request : slot = r <=> req[r].pc \notin {"idle", "begin"}

\* A confirmation goes from the slot to the pending secret to its transaction,
\* and only to those.
ConfirmPath ==
  \A r \in Request : req[r].op = "confirm" =>
    req[r].pc \in {"begin", "enrollment", "write", "establish"}

\* What a confirmation is about to enable is what it matched its code with,
\* unless the enrolment is gone.
ConfirmedIsProven ==
  \A r \in Request :
    req[r].op = "confirm" /\ req[r].pc = "write" /\ pending.secret # NoSecret
      => pending.secret \in proven

Control ==
  /\ SlotHeld
  /\ ConfirmPath
  /\ ConfirmedIsProven
  /\ PasswordAloneOnlyWithoutMFA
  /\ EnabledSecretIsProven

IInv == TypeOK /\ Control

-----------------------------------------------------------------------------
\* The slot excludes: of two requests, one has not taken it.
LEMMA OnlyOnePast ==
  ASSUME SlotHeld, NEW r \in Request, NEW q \in Request, q # r,
         req[r].pc \notin {"idle", "begin"}
  PROVE  req[q].pc \in {"idle", "begin"}
  BY DEF SlotHeld

\* The record of an idle request is one, and is idle.
LEMMA IdleReqFact ==
  /\ IdleReq \in Req
  /\ IdleReq.pc = "idle" /\ IdleReq.op = "login"
  BY GateAssumption DEF IdleReq, Req, PC, Op, Mark

\* The absent session, the absent code and the absent enrolment have their types.
LEMMA RowFact ==
  /\ NoRow \in SessionRow
  /\ NoCode \in CodeRow
  /\ NoPending.secret = NoSecret
  BY DEF NoRow, SessionRow, NoCode, CodeRow, NoPending, Level, Mark

\* The two ways a request's record changes.
LEMMA GotoFact ==
  ASSUME TypeOK, NEW r \in Request, NEW pc \in PC, Goto(r, pc)
  PROVE  /\ req' \in [Request -> Req]
         /\ req'[r].pc = pc /\ req'[r].op = req[r].op
         /\ \A q \in Request \ {r} : req'[q] = req[q]
  BY DEF Goto, TypeOK, Req

\* A return idles the request and frees the slot if it has it.
LEMMA DoneFact ==
  ASSUME TypeOK, NEW r \in Request, Done(r)
  PROVE  /\ req' \in [Request -> Req]
         /\ req'[r].pc = "idle" /\ req'[r].op = "login"
         /\ \A q \in Request \ {r} : req'[q] = req[q]
         /\ slot' \in Request \cup {Nobody}
         /\ \A q \in Request : slot' = q <=> q # r /\ slot = q
  BY IdleReqFact, GateAssumption DEF Done, TypeOK
-----------------------------------------------------------------------------
(* The part of the invariant that is not types, per kind of step.          *)

\* A request with the slot goes on, and enables nothing.
LEMMA MoveControl ==
  ASSUME Control, NEW r \in Request, req[r].pc \notin {"idle", "begin"},
         req'[r].pc \notin {"idle", "begin"}, req'[r].op = req[r].op,
         \A q \in Request \ {r} : req'[q] = req[q],
         UNCHANGED <<slot, mfa, pending>>, proven \subseteq proven',
         req[r].op = "confirm" => req'[r].pc \in {"enrollment", "write", "establish"},
         req[r].op = "confirm" /\ req'[r].pc = "write" => pending.secret \in proven',
         req[r].op = "login" /\ req'[r].pc = "establish" => mfa = NoSecret
  PROVE  Control'
<1>1. SlotHeld'
  BY DEF Control, SlotHeld
<1>2. ConfirmPath'
  BY DEF Control, ConfirmPath
<1>3. ConfirmedIsProven'
  BY DEF Control, ConfirmedIsProven
<1>4. PasswordAloneOnlyWithoutMFA' /\ EnabledSecretIsProven'
  BY DEF Control, PasswordAloneOnlyWithoutMFA, EnabledSecretIsProven
<1> QED BY <1>1, <1>2, <1>3, <1>4 DEF Control

\* A request with the slot returns: nobody is left past the slot, so whatever
\* it did to the enrolment is seen by no other route in its middle.
LEMMA ReturnControl ==
  ASSUME TypeOK, Control, NEW r \in Request, req[r].pc \notin {"idle", "begin"}, Done(r),
         EnabledSecretIsProven'
  PROVE  Control'
<1>1. /\ req'[r].pc = "idle" /\ req'[r].op = "login"
      /\ \A q \in Request \ {r} : req'[q] = req[q]
      /\ \A q \in Request : slot' = q <=> q # r /\ slot = q
  BY DoneFact
<1>2. \A q \in Request : req'[q].pc \in {"idle", "begin"}
  BY <1>1, OnlyOnePast DEF Control
<1>3. SlotHeld'
  BY <1>1 DEF Control, SlotHeld
<1>4. ConfirmPath'
  BY <1>1 DEF Control, ConfirmPath
<1>5. ConfirmedIsProven' /\ PasswordAloneOnlyWithoutMFA'
  BY <1>2 DEF ConfirmedIsProven, PasswordAloneOnlyWithoutMFA
<1> QED BY <1>3, <1>4, <1>5 DEF Control

\* Steps that leave requests where they are, and at most cancel an enrolment or
\* switch MFA off.
LEMMA OutsideControl ==
  ASSUME Control, slot' = slot, proven' = proven,
         \A q \in Request : req'[q].pc = req[q].pc /\ req'[q].op = req[q].op,
         mfa' \in {mfa, NoSecret}, pending'.secret \in {pending.secret, NoSecret}
  PROVE  Control'
<1>1. SlotHeld' /\ ConfirmPath'
  BY DEF Control, SlotHeld, ConfirmPath
<1>2. ConfirmedIsProven'
  BY DEF Control, ConfirmedIsProven
<1>3. PasswordAloneOnlyWithoutMFA' /\ EnabledSecretIsProven'
  BY DEF Control, PasswordAloneOnlyWithoutMFA, EnabledSecretIsProven
<1> QED BY <1>1, <1>2, <1>3 DEF Control

\* What a new value of req must satisfy for TypeOK when nothing else changes.
LEMMA OnlyReqChanges ==
  ASSUME TypeOK, req' \in [Request -> Req], slot' \in Request \cup {Nobody},
         UNCHANGED <<now, db, history>>
  PROVE  TypeOK'
  BY DEF TypeOK, db, history

-----------------------------------------------------------------------------
(* Asking for the slot.                                                    *)

\* A new request is not past the slot and confirms nothing yet.
LEMMA ArriveStep ==
  ASSUME IInv, NEW r \in Request, NEW op \in Op, NEW s \in Session \cup {NoSession},
         Arrive(r, op, s)
  PROVE  IInv'
<1> DEFINE row == IF s = NoSession THEN NoRow ELSE sess[s]
           new == [pc |-> "begin", op |-> op, sess |-> s, by |-> row.by,
                   mark |-> row.mark, secret |-> NoSecret, step |-> 0]
<1>1. row \in SessionRow
  BY RowFact DEF IInv, TypeOK
<1>2. new \in Req /\ new.pc = "begin" /\ new.op = op
  BY <1>1, GateAssumption DEF SessionRow, Req, PC
<1>3. req[r].pc = "idle" /\ req' = [req EXCEPT ![r] = new] /\ UNCHANGED <<now, db, slot, history>>
  BY DEF Arrive
<1> HIDE DEF new
<1>4. req' \in [Request -> Req] /\ req'[r] = new /\ \A q \in Request \ {r} : req'[q] = req[q]
  BY <1>2, <1>3 DEF IInv, TypeOK
<1>5. TypeOK'
  BY <1>3, <1>4, OnlyReqChanges DEF IInv, TypeOK
<1>6. SlotHeld' /\ ConfirmPath'
  BY <1>2, <1>3, <1>4 DEF IInv, Control, SlotHeld, ConfirmPath
<1>7. ConfirmedIsProven' /\ PasswordAloneOnlyWithoutMFA' /\ EnabledSecretIsProven'
  BY <1>2, <1>3, <1>4
  DEF IInv, Control, ConfirmedIsProven, PasswordAloneOnlyWithoutMFA, EnabledSecretIsProven,
      db, history
<1> QED BY <1>5, <1>6, <1>7 DEF IInv, Control

\* Where a route begins.
LEMMA FirstFact ==
  ASSUME NEW op
  PROVE  /\ First(op) \in {"mode", "secret", "enrollment", "password"}
         /\ op = "confirm" => First(op) = "enrollment"
<1>1. op = "change" => First(op) = "mode"
  BY ZenonT(20) DEF First
<1>2. op = "second" => First(op) = "secret"
  BY ZenonT(20) DEF First
<1>3. op = "confirm" => First(op) = "enrollment"
  BY ZenonT(20) DEF First
<1>4. op \notin {"change", "second", "confirm"} => First(op) = "password"
  BY ZenonT(20) DEF First
<1> QED BY <1>1, <1>2, <1>3, <1>4

\* Whoever takes the slot was preceded by nobody.
LEMMA TakeSlotStep ==
  ASSUME IInv, NEW r \in Request, TakeSlot(r)
  PROVE  IInv'
<1> DEFINE pc == First(req[r].op)
<1>1. pc \in PC \ {"idle", "begin", "write", "establish"}
      /\ (req[r].op = "confirm" => pc = "enrollment")
  BY FirstFact DEF PC
<1>2. slot = Nobody /\ slot' = r /\ req[r].pc = "begin" /\ Goto(r, pc)
      /\ UNCHANGED <<now, db, history>>
  BY DEF TakeSlot
<1> HIDE DEF pc
<1>3. /\ req' \in [Request -> Req]
      /\ req'[r].pc = pc /\ req'[r].op = req[r].op
      /\ \A q \in Request \ {r} : req'[q] = req[q]
  BY <1>1, <1>2, GotoFact DEF IInv
<1>4. TypeOK'
  BY <1>2, <1>3, OnlyReqChanges DEF IInv
<1>5. SlotHeld'
  BY <1>1, <1>2, <1>3, GateAssumption DEF IInv, Control, SlotHeld
<1>6. ConfirmPath'
  BY <1>1, <1>3 DEF IInv, Control, ConfirmPath
<1>7. ConfirmedIsProven' /\ PasswordAloneOnlyWithoutMFA' /\ EnabledSecretIsProven'
  BY <1>1, <1>2, <1>3
  DEF IInv, Control, ConfirmedIsProven, PasswordAloneOnlyWithoutMFA, EnabledSecretIsProven,
      db, history
<1> QED BY <1>4, <1>5, <1>6, <1>7 DEF IInv, Control

\* A refused request frees no slot: it has none.
LEMMA ThrottledStep ==
  ASSUME IInv, NEW r \in Request, Throttled(r)
  PROVE  IInv'
<1>1. req[r].pc = "begin" /\ Done(r) /\ UNCHANGED <<now, db, history>>
  BY DEF Throttled
<1>2. /\ req' \in [Request -> Req]
      /\ req'[r].pc = "idle" /\ req'[r].op = "login"
      /\ \A q \in Request \ {r} : req'[q] = req[q]
      /\ slot' \in Request \cup {Nobody}
      /\ \A q \in Request : slot' = q <=> q # r /\ slot = q
  BY <1>1, DoneFact DEF IInv
<1>3. TypeOK'
  BY <1>1, <1>2, OnlyReqChanges DEF IInv
<1>4. SlotHeld' /\ ConfirmPath'
  BY <1>1, <1>2 DEF IInv, Control, SlotHeld, ConfirmPath
<1>5. ConfirmedIsProven' /\ PasswordAloneOnlyWithoutMFA' /\ EnabledSecretIsProven'
  BY <1>1, <1>2
  DEF IInv, Control, ConfirmedIsProven, PasswordAloneOnlyWithoutMFA, EnabledSecretIsProven,
      db, history
<1> QED BY <1>3, <1>4, <1>5 DEF IInv, Control

-----------------------------------------------------------------------------
(* Reading and checking.                                                   *)

\* An error returns with the slot.
LEMMA FailStep ==
  ASSUME IInv, NEW r \in Request, Fail(r)
  PROVE  IInv'
<1>1. req[r].pc \notin {"idle", "begin"} /\ Done(r) /\ UNCHANGED <<now, db, history>>
  BY DEF Fail
<1>2. TypeOK'
  BY <1>1, DoneFact, OnlyReqChanges DEF IInv
<1>3. EnabledSecretIsProven'
  BY <1>1 DEF IInv, Control, EnabledSecretIsProven, db, history
<1> QED BY <1>1, <1>2, <1>3, ReturnControl DEF IInv

\* Checking a password enables nothing and is no part of a confirmation.
LEMMA CheckPasswordStep ==
  ASSUME IInv, NEW r \in Request, CheckPassword(r)
  PROVE  IInv'
<1> DEFINE by == IF req[r].op = "login" THEN password ELSE req[r].by
           pc == IF req[r].pc = "recheck" THEN "write"
                 ELSE IF req[r].op \in {"login", "enroll", "settings"} THEN "mode" ELSE "secret"
           new == [req[r] EXCEPT !.by = by, !.pc = pc]
<1>1. /\ req[r].pc \in {"password", "recheck"}
      /\ req' = [req EXCEPT ![r] = new]
      /\ UNCHANGED <<now, db, slot, history>>
  BY DEF CheckPassword, IInv, TypeOK, Req
<1>2. req[r] \in Req /\ by \in Password \cup {NoPassword} /\ pc \in {"write", "mode", "secret"}
  BY DEF IInv, TypeOK, Req
<1> HIDE DEF by, pc
<1>3. new \in Req /\ new.pc = pc /\ new.op = req[r].op
  BY <1>2 DEF Req, PC
<1> HIDE DEF new
<1>4. /\ req' \in [Request -> Req]
      /\ req'[r] = new /\ \A q \in Request \ {r} : req'[q] = req[q]
  BY <1>1, <1>3 DEF IInv, TypeOK
<1>5. TypeOK'
  BY <1>1, <1>4, OnlyReqChanges DEF IInv, TypeOK
<1>6. req[r].op # "confirm"
  BY <1>1 DEF IInv, Control, ConfirmPath
<1>7. Control'
  BY <1>1, <1>2, <1>3, <1>4, <1>6, MoveControl DEF IInv, db, history
<1> QED BY <1>5, <1>7 DEF IInv

\* MFAEnabled sends a login on to a session only while MFA is off.
LEMMA ModeFact ==
  ASSUME NEW op, NEW on \in BOOLEAN, NEW pc,
         pc = CASE op = "login"  -> IF on THEN "challenge" ELSE "establish"
                [] op = "change" -> IF on THEN "password" ELSE "recheck"
                [] OTHER         -> IF on THEN "secret" ELSE "write"
  PROVE  /\ pc \in PC \ {"idle", "begin"}
         /\ op = "login" /\ pc = "establish" => ~on
<1>1. op = "login" => pc = IF on THEN "challenge" ELSE "establish"
  BY ZenonT(20)
<1>2. op = "change" => pc = IF on THEN "password" ELSE "recheck"
  BY ZenonT(20)
<1>3. op \notin {"login", "change"} => pc = IF on THEN "secret" ELSE "write"
  BY ZenonT(20)
<1> QED BY <1>1, <1>2, <1>3 DEF PC

\* Reading whether MFA is on sends a login on only while it is off.
LEMMA ReadModeStep ==
  ASSUME IInv, NEW r \in Request, ReadMode(r)
  PROVE  IInv'
<1> DEFINE on == mfa # NoSecret
           pc == CASE req[r].op = "login"  -> IF on THEN "challenge" ELSE "establish"
                   [] req[r].op = "change" -> IF on THEN "password" ELSE "recheck"
                   [] OTHER                -> IF on THEN "secret" ELSE "write"
<1>1. req[r].pc = "mode" /\ Goto(r, pc) /\ UNCHANGED <<now, db, slot, history>>
  BY DEF ReadMode
<1>2. on \in BOOLEAN
  OBVIOUS
<1>3. pc \in PC \ {"idle", "begin"} /\ (req[r].op = "login" /\ pc = "establish" => ~on)
  <2> HIDE DEF on
  <2> QED BY <1>2, ModeFact
<1> HIDE DEF pc
<1>4. /\ req' \in [Request -> Req]
      /\ req'[r].pc = pc /\ req'[r].op = req[r].op
      /\ \A q \in Request \ {r} : req'[q] = req[q]
  BY <1>1, <1>3, GotoFact DEF IInv
<1>5. TypeOK'
  BY <1>1, <1>4, OnlyReqChanges DEF IInv, TypeOK
<1>6. req[r].op # "confirm"
  BY <1>1 DEF IInv, Control, ConfirmPath
<1>7. Control'
  BY <1>1, <1>3, <1>4, <1>6, MoveControl DEF IInv, db, history
<1> QED BY <1>5, <1>7 DEF IInv

\* Reading the enabled secret changes nothing others rely on.
LEMMA ReadSecretStep ==
  ASSUME IInv, NEW r \in Request, ReadSecret(r)
  PROVE  IInv'
<1> DEFINE new == [req[r] EXCEPT !.pc = "factor", !.secret = mfa]
<1>1. /\ req[r].pc = "secret" /\ req' = [req EXCEPT ![r] = new]
      /\ UNCHANGED <<now, db, slot, history>>
  BY DEF ReadSecret, IInv, TypeOK, Req
<1>2. req[r] \in Req /\ mfa \in Secret \cup {NoSecret}
  BY DEF IInv, TypeOK
<1>3. new \in Req /\ new.pc = "factor" /\ new.op = req[r].op
  BY <1>2 DEF Req, PC
<1> HIDE DEF new
<1>4. /\ req' \in [Request -> Req]
      /\ req'[r] = new /\ \A q \in Request \ {r} : req'[q] = req[q]
  BY <1>1, <1>3 DEF IInv, TypeOK
<1>5. TypeOK'
  BY <1>1, <1>4, OnlyReqChanges DEF IInv, TypeOK
<1>6. req[r].op # "confirm"
  BY <1>1 DEF IInv, Control, ConfirmPath
<1>7. Control'
  BY <1>1, <1>3, <1>4, <1>6, MoveControl DEF IInv, db, history
<1> QED BY <1>5, <1>7 DEF IInv

\* Where a route goes on after its second factor.
LEMMA AfterFactorFact ==
  ASSUME NEW op
  PROVE  /\ AfterFactor(op) \in {"establish", "recheck", "write"}
         /\ AfterFactor(op) = "establish" => op = "second"
<1>1. op = "second" => AfterFactor(op) = "establish"
  BY ZenonT(20) DEF AfterFactor
<1>2. op = "change" => AfterFactor(op) = "recheck"
  BY ZenonT(20) DEF AfterFactor
<1>3. op \notin {"second", "change"} => AfterFactor(op) = "write"
  BY ZenonT(20) DEF AfterFactor
<1> QED BY <1>1, <1>2, <1>3

\* A request whose second factor was accepted goes on.
LEMMA FactorAccepted ==
  ASSUME IInv, NEW r \in Request, req[r].pc = "factor", Goto(r, AfterFactor(req[r].op)),
         UNCHANGED <<slot, mfa, pending, proven>>
  PROVE  req' \in [Request -> Req] /\ Control'
<1> DEFINE pc == AfterFactor(req[r].op)
<1>1. pc \in PC \ {"idle", "begin"} /\ (pc = "establish" => req[r].op = "second")
  BY AfterFactorFact DEF PC
<1> HIDE DEF pc
<1>2. Goto(r, pc)
  BY DEF pc
<1>3. /\ req' \in [Request -> Req]
      /\ req'[r].pc = pc /\ req'[r].op = req[r].op
      /\ \A q \in Request \ {r} : req'[q] = req[q]
  BY <1>1, <1>2, GotoFact DEF IInv
<1>4. req[r].op # "confirm"
  BY DEF IInv, Control, ConfirmPath
<1> QED BY <1>1, <1>3, <1>4, MoveControl DEF IInv

\* Accepting a TOTP code moves last_totp_step within its range.
LEMMA AcceptTOTPStep ==
  ASSUME IInv, NEW r \in Request, NEW n \in 0..MaxStep, AcceptTOTP(r, n)
  PROVE  IInv'
<1>1. req' \in [Request -> Req] /\ Control'
  BY FactorAccepted DEF AcceptTOTP
<1>2. last' \in -1..MaxStep
  BY GateAssumption DEF AcceptTOTP
<1>3. used' \subseteq (Secret \cup {NoSecret}) \X (0..MaxStep)
  <2>1. req[r].secret \in Secret \cup {NoSecret}
    BY DEF IInv, TypeOK, Req
  <2> QED BY <2>1 DEF IInv, TypeOK, AcceptTOTP
<1> QED BY <1>1, <1>2, <1>3 DEF IInv, TypeOK, AcceptTOTP

\* Accepting a recovery code marks it.
LEMMA AcceptCodeStep ==
  ASSUME IInv, NEW r \in Request, NEW c \in Code, AcceptCode(r, c)
  PROVE  IInv'
<1>1. req' \in [Request -> Req] /\ Control'
  BY FactorAccepted DEF AcceptCode, history
<1>2. [codes[c] EXCEPT !.state = "used"] \in CodeRow
  BY DEF IInv, TypeOK, CodeRow
<1>3. codes' \in [Code -> CodeRow]
  BY <1>2 DEF IInv, TypeOK, AcceptCode
<1> QED BY <1>1, <1>3 DEF IInv, TypeOK, AcceptCode, history

\* Matching a code proves the secret the confirmation read.
LEMMA ReadEnrollmentStep ==
  ASSUME IInv, NEW r \in Request, NEW n \in 0..MaxStep, ReadEnrollment(r, n)
  PROVE  IInv'
<1> DEFINE new == [req[r] EXCEPT !.pc = "write", !.secret = pending.secret, !.step = n]
<1>1. /\ req[r].pc = "enrollment" /\ req' = [req EXCEPT ![r] = new]
      /\ pending.secret # NoSecret
      /\ proven' = proven \cup {pending.secret}
      /\ UNCHANGED <<now, db, slot, used>>
  BY DEF ReadEnrollment, IInv, TypeOK, Req
<1>2. req[r] \in Req /\ pending.secret \in Secret
  BY <1>1, RowFact DEF IInv, TypeOK
<1>3. new \in Req /\ new.pc = "write" /\ new.op = req[r].op
  BY <1>2 DEF Req, PC
<1> HIDE DEF new
<1>4. /\ req' \in [Request -> Req]
      /\ req'[r] = new /\ \A q \in Request \ {r} : req'[q] = req[q]
  BY <1>1, <1>3 DEF IInv, TypeOK
<1>5. TypeOK'
  BY <1>1, <1>2, <1>4 DEF IInv, TypeOK, db
<1>6. Control'
  BY <1>1, <1>3, <1>4, MoveControl DEF IInv, db
<1> QED BY <1>5, <1>6 DEF IInv

-----------------------------------------------------------------------------
(* Writing.                                                                *)

\* Returns that leave the enrolment alone.
LEMMA ReturnStep ==
  ASSUME IInv, NEW r \in Request, req[r].pc \notin {"idle", "begin"}, Done(r),
         sess' \in [Session -> SessionRow], codes' \in [Code -> CodeRow],
         UNCHANGED <<now, password, mfa, last, pending, history>>
  PROVE  IInv'
<1>1. TypeOK'
  BY DoneFact DEF IInv, TypeOK, history
<1>2. EnabledSecretIsProven'
  BY DEF IInv, Control, EnabledSecretIsProven, history
<1> QED BY <1>1, <1>2, ReturnControl DEF IInv

\* Establishing a session, pending or not, ends the request.
LEMMA SignStep ==
  ASSUME IInv, NEW r \in Request, NEW u \in Session, NEW level \in Level,
         req[r].pc \notin {"idle", "begin"}, Sign(r, u, level)
  PROVE  IInv'
<1>1. [level |-> level, by |-> req[r].by, mark |-> req[r].mark] \in SessionRow
  BY DEF IInv, TypeOK, Req, SessionRow
<1>2. sess' \in [Session -> SessionRow]
  BY <1>1, RowFact DEF Sign, IInv, TypeOK
<1>3. codes' \in [Code -> CodeRow]
  BY DEF Sign, IInv, TypeOK
<1> QED BY <1>2, <1>3, ReturnStep DEF Sign

\* A rotation that fails ends the request.
LEMMA EstablishFailsStep ==
  ASSUME IInv, NEW r \in Request, EstablishFails(r)
  PROVE  IInv'
<1>1. sess' \in [Session -> SessionRow]
  BY RowFact DEF EstablishFails, IInv, TypeOK
<1>2. codes' \in [Code -> CodeRow] /\ req[r].pc \notin {"idle", "begin"} /\ Done(r)
      /\ UNCHANGED <<now, password, mfa, last, pending, history>>
  BY DEF EstablishFails, IInv, TypeOK
<1> QED BY <1>1, <1>2, ReturnStep

\* New recovery codes leave the enrolment alone.
LEMMA RegenerateCodesStep ==
  ASSUME IInv, NEW r \in Request, NEW c \in Code, RegenerateCodes(r, c)
  PROVE  IInv'
<1>1. [state |-> "active", secret |-> req[r].secret] \in CodeRow
  BY DEF IInv, TypeOK, Req, CodeRow
<1>2. codes' \in [Code -> CodeRow]
  BY <1>1, RowFact DEF RegenerateCodes, DropCodes, IInv, TypeOK
<1>3. sess' \in [Session -> SessionRow] /\ req[r].pc \notin {"idle", "begin"} /\ Done(r)
      /\ UNCHANGED <<now, password, mfa, last, pending, history>>
  BY DEF RegenerateCodes, Writing, IInv, TypeOK
<1> QED BY <1>2, <1>3, ReturnStep

\* Session settings leave everything here alone.
LEMMA UpdateSettingsStep ==
  ASSUME IInv, NEW r \in Request, UpdateSettings(r)
  PROVE  IInv'
<1>1. sess' \in [Session -> SessionRow] /\ codes' \in [Code -> CodeRow]
      /\ req[r].pc \notin {"idle", "begin"} /\ Done(r)
      /\ UNCHANGED <<now, password, mfa, last, pending, history>>
  BY DEF UpdateSettings, Writing, IInv, TypeOK, db
<1> QED BY <1>1, ReturnStep

\* A password change goes on to rotate its session, whatever it marks.
LEMMA ReplacePasswordStep ==
  ASSUME IInv, NEW r \in Request, NEW p \in Password, ReplacePassword(r, p)
  PROVE  IInv'
<1> DEFINE over == Overtaken(req[r].sess)
           new == [req[r] EXCEPT !.pc = "establish", !.by = p, !.mark = "none"]
<1>1. /\ req[r].pc = "write" /\ req[r].op = "change"
      /\ req' = [over EXCEPT ![r] = new]
      /\ UNCHANGED <<now, mfa, last, pending, codes, slot, history>>
  BY DEF ReplacePassword, Writing
<1>2. ASSUME NEW q \in Request
      PROVE  over[q] \in Req /\ over[q].pc = req[q].pc /\ over[q].op = req[q].op
  <2>1. req[q] \in Req
    BY DEF IInv, TypeOK
  <2>2. ASSUME NEW m \in Mark
        PROVE  LET x == [req[q] EXCEPT !.mark = m]
               IN  x \in Req /\ x.pc = req[q].pc /\ x.op = req[q].op
    BY <2>1 DEF Req
  <2>3. over[q] = req[q] \/ \E m \in Mark : over[q] = [req[q] EXCEPT !.mark = m]
    BY DEF Overtaken, Mark
  <2> QED BY <2>1, <2>2, <2>3
<1>3. req[r] \in Req
  BY DEF IInv, TypeOK
<1>4. new \in Req /\ new.pc = "establish" /\ new.op = "change"
  BY <1>1, <1>3 DEF Req, PC, Mark
<1>5. over = [q \in Request |-> over[q]]
  BY DEF Overtaken
<1> HIDE DEF over, new
<1>6. /\ req' \in [Request -> Req]
      /\ req'[r].pc = "establish" /\ req'[r].op = "change"
      /\ \A q \in Request \ {r} : req'[q].pc = req[q].pc /\ req'[q].op = req[q].op
  BY <1>1, <1>2, <1>4, <1>5
<1>7. sess' \in [Session -> SessionRow]
  <2>1. ASSUME NEW s \in Session PROVE [sess[s] EXCEPT !.mark = "kept"] \in SessionRow
    BY DEF IInv, TypeOK, SessionRow, Mark
  <2> QED BY <2>1, RowFact DEF ReplacePassword
<1>8. password' \in Password
  BY DEF ReplacePassword
<1>9. TypeOK'
  BY <1>1, <1>6, <1>7, <1>8 DEF IInv, TypeOK, history
<1>10. SlotHeld' /\ ConfirmPath'
  BY <1>1, <1>6 DEF IInv, Control, SlotHeld, ConfirmPath
<1>11. ConfirmedIsProven' /\ PasswordAloneOnlyWithoutMFA' /\ EnabledSecretIsProven'
  BY <1>1, <1>6
  DEF IInv, Control, ConfirmedIsProven, PasswordAloneOnlyWithoutMFA, EnabledSecretIsProven, history
<1> QED BY <1>9, <1>10, <1>11 DEF IInv, Control

\* A new pending secret is proven by nobody, and by then nobody confirms.
LEMMA BeginEnrollmentStep ==
  ASSUME IInv, NEW r \in Request, NEW s \in Secret, NEW c \in Code, BeginEnrollment(r, s, c)
  PROVE  IInv'
<1>1. Done(r) /\ req[r].pc \notin {"idle", "begin"} /\ s # mfa
      /\ proven' = proven \ {s} /\ used' \subseteq used
      /\ UNCHANGED <<now, password, mfa, last, sess>>
  BY DEF BeginEnrollment, Writing, FreshSecret
<1>2. codes' \in [Code -> CodeRow]
  <2>1. [state |-> "pending", secret |-> s] \in CodeRow
    BY DEF CodeRow
  <2> QED BY <2>1, RowFact DEF BeginEnrollment, DropCodes, IInv, TypeOK
<1>3. pending' \in [secret: Secret, sess: Session \cup {NoSession}]
  BY DEF BeginEnrollment, IInv, TypeOK, Req
<1>4. TypeOK'
  BY <1>1, <1>2, <1>3, DoneFact DEF IInv, TypeOK
<1>5. EnabledSecretIsProven'
  BY <1>1 DEF IInv, Control, EnabledSecretIsProven
<1> QED BY <1>1, <1>4, <1>5, ReturnControl DEF IInv

\* The secret that is enabled is proven, and no login is about to end.
LEMMA EnableMFAStep ==
  ASSUME IInv, NEW r \in Request, EnableMFA(r)
  PROVE  IInv'
<1>1. /\ req[r].pc = "write" /\ req[r].op = "confirm"
      /\ pending.secret # NoSecret
      /\ mfa' = pending.secret /\ pending' = NoPending /\ last' = req[r].step
      /\ used' = used \cup {<<req[r].secret, req[r].step>>}
      /\ Goto(r, "establish")
      /\ UNCHANGED <<now, password, sess, slot, proven>>
  BY DEF EnableMFA, Writing
<1>2. /\ req' \in [Request -> Req]
      /\ req'[r].pc = "establish" /\ req'[r].op = "confirm"
      /\ \A q \in Request \ {r} : req'[q] = req[q]
  BY <1>1, GotoFact DEF IInv, PC
<1>3. req[r].step \in 0..MaxStep /\ req[r].secret \in Secret \cup {NoSecret}
  BY DEF IInv, TypeOK, Req
<1>4. pending.secret \in proven
  BY <1>1 DEF IInv, Control, ConfirmedIsProven
<1>5. codes' \in [Code -> CodeRow]
  <2>1. ASSUME NEW c \in Code PROVE [codes[c] EXCEPT !.state = "active"] \in CodeRow
    BY DEF IInv, TypeOK, CodeRow
  <2> QED BY <2>1, RowFact DEF EnableMFA
<1>6. TypeOK'
  <2>1. last' \in -1..MaxStep
    BY <1>1, <1>3, GateAssumption
  <2>2. used' \subseteq (Secret \cup {NoSecret}) \X (0..MaxStep)
    BY <1>1, <1>3 DEF IInv, TypeOK
  <2>3. mfa' \in Secret
    BY <1>1, <1>4 DEF IInv, TypeOK
  <2> QED BY <1>1, <1>2, <1>5, <2>1, <2>2, <2>3 DEF IInv, TypeOK
<1>7. \A q \in Request \ {r} : req'[q].pc \in {"idle", "begin"}
  BY <1>1, <1>2, OnlyOnePast DEF IInv, Control
<1>8. SlotHeld' /\ ConfirmPath'
  BY <1>1, <1>2 DEF IInv, Control, SlotHeld, ConfirmPath
<1>9. ConfirmedIsProven' /\ PasswordAloneOnlyWithoutMFA' /\ EnabledSecretIsProven'
  BY <1>1, <1>2, <1>4, <1>7, RowFact
  DEF ConfirmedIsProven, PasswordAloneOnlyWithoutMFA, EnabledSecretIsProven
<1> QED BY <1>6, <1>8, <1>9 DEF IInv, Control

\* Without MFA nothing is left to be proven.
LEMMA DisableMFAStep ==
  ASSUME IInv, NEW r \in Request, DisableMFA(r)
  PROVE  IInv'
<1>1. Done(r) /\ req[r].pc \notin {"idle", "begin"} /\ ClearMFA
  BY DEF DisableMFA, Writing
<1>2. TypeOK'
  BY <1>1, DoneFact, RowFact, GateAssumption DEF ClearMFA, RevokeAll, IInv, TypeOK, history
<1>3. EnabledSecretIsProven'
  BY <1>1 DEF ClearMFA, EnabledSecretIsProven
<1> QED BY <1>1, <1>2, <1>3, ReturnControl DEF IInv

-----------------------------------------------------------------------------
(* Without the slot.                                                       *)

\* A cancelled enrolment leaves a confirmation nothing to enable.
LEMMA CancelEnrollmentStep ==
  ASSUME IInv, NEW s \in Session, CancelEnrollment(s)
  PROVE  IInv'
<1>1. codes' \in [Code -> CodeRow]
  BY RowFact DEF CancelEnrollment, DropCodes, IInv, TypeOK
<1>2. TypeOK'
  BY <1>1 DEF CancelEnrollment, IInv, TypeOK, history
<1>3. Control'
  BY RowFact, OutsideControl DEF CancelEnrollment, IInv, history
<1> QED BY <1>2, <1>3 DEF IInv

\* A new password from the terminal moves no request.
LEMMA RecoverPasswordStep ==
  ASSUME IInv, NEW p \in Password, RecoverPassword(p)
  PROVE  IInv'
<1>1. /\ req' = Overtaken(NoSession) /\ password' = p
      /\ sess' = [s \in Session |-> NoRow]
      /\ UNCHANGED <<now, mfa, last, pending, codes, slot, history>>
  BY DEF RecoverPassword, RevokeAll
<1>2. ASSUME NEW q \in Request
      PROVE  req'[q] \in Req /\ req'[q].pc = req[q].pc /\ req'[q].op = req[q].op
  <2>1. req[q] \in Req
    BY DEF IInv, TypeOK
  <2>2. LET x == [req[q] EXCEPT !.mark = "late"]
        IN  x \in Req /\ x.pc = req[q].pc /\ x.op = req[q].op
    BY <2>1 DEF Req, Mark
  <2>3. req'[q] = req[q] \/ req'[q] = [req[q] EXCEPT !.mark = "late"]
    BY <1>1 DEF Overtaken
  <2> QED BY <2>1, <2>2, <2>3
<1>3. req' \in [Request -> Req]
  BY <1>1, <1>2 DEF Overtaken
<1>4. TypeOK'
  BY <1>1, <1>3, RowFact DEF IInv, TypeOK, history
<1>5. Control'
  BY <1>1, <1>2, OutsideControl DEF IInv, history
<1> QED BY <1>4, <1>5 DEF IInv

\* A reset of MFA from the terminal moves no request.
LEMMA ResetMFAStep ==
  ASSUME IInv, ResetMFA
  PROVE  IInv'
<1>1. TypeOK'
  BY RowFact, GateAssumption DEF ResetMFA, ClearMFA, RevokeAll, IInv, TypeOK, history
<1>2. Control'
  BY RowFact, OutsideControl DEF ResetMFA, ClearMFA, IInv, history
<1> QED BY <1>1, <1>2 DEF IInv

\* A session that ends moves no request.
LEMMA EndSessionStep ==
  ASSUME IInv, NEW s \in Session, EndSession(s)
  PROVE  IInv'
<1>1. TypeOK'
  BY RowFact DEF EndSession, IInv, TypeOK, history
<1>2. Control'
  BY OutsideControl DEF EndSession, IInv, history
<1> QED BY <1>1, <1>2 DEF IInv

\* Time moves no request.
LEMMA TickStep ==
  ASSUME IInv, Tick
  PROVE  IInv'
<1>1. now' \in 0..MaxStep
  BY GateAssumption DEF Tick, IInv, TypeOK
<1>2. TypeOK'
  BY <1>1 DEF Tick, IInv, TypeOK, db, history
<1>3. Control'
  BY OutsideControl DEF Tick, IInv, db, history
<1> QED BY <1>2, <1>3 DEF IInv

-----------------------------------------------------------------------------
\* A request that reads or checks.
LEMMA ReadsStep ==
  ASSUME IInv, NEW r \in Request, Reads(r)
  PROVE  IInv'
  BY CheckPasswordStep, ReadModeStep, ReadSecretStep, AcceptTOTPStep, ReadEnrollmentStep,
     AcceptCodeStep DEF Reads

\* A request that writes.
LEMMA WritesStep ==
  ASSUME IInv, NEW r \in Request, Writes(r)
  PROVE  IInv'
<1>1. ASSUME NEW u \in Session, Challenge(r, u) \/ Establish(r, u) PROVE IInv'
  <2>1. \E level \in Level : Sign(r, u, level)
    BY <1>1 DEF Challenge, Establish, Level
  <2>2. req[r].pc \notin {"idle", "begin"}
    BY <1>1 DEF Challenge, Establish
  <2> QED BY <2>1, <2>2, SignStep
<1> QED BY <1>1, EstablishFailsStep, ReplacePasswordStep, BeginEnrollmentStep, EnableMFAStep,
           DisableMFAStep, RegenerateCodesStep, UpdateSettingsStep DEF Writes

\* The inductive invariant holds in every reachable state.
THEOREM Invariant == Spec => []IInv
<1>1. Init => IInv
  <2> SUFFICES ASSUME Init PROVE IInv
    OBVIOUS
  <2>1. TypeOK
    BY IdleReqFact, RowFact, GateAssumption DEF Init, TypeOK
  <2>2. \A r \in Request : req[r].pc = "idle" /\ req[r].op = "login"
    BY IdleReqFact DEF Init
  <2>3. Control
    BY <2>2, GateAssumption
    DEF Init, Control, SlotHeld, ConfirmPath, ConfirmedIsProven, PasswordAloneOnlyWithoutMFA,
        EnabledSecretIsProven
  <2> QED BY <2>1, <2>3 DEF IInv
<1>2. IInv /\ [Next]_vars => IInv'
  <2> SUFFICES ASSUME IInv, [Next]_vars PROVE IInv'
    OBVIOUS
  <2>1. ASSUME NEW r \in Request, NEW op \in Op, NEW s \in Session \cup {NoSession},
               Arrive(r, op, s) PROVE IInv'
    BY <2>1, ArriveStep
  <2>2. ASSUME NEW r \in Request, TakeSlot(r) \/ Throttled(r) PROVE IInv'
    BY <2>2, TakeSlotStep, ThrottledStep
  <2>3. ASSUME NEW r \in Request, Proceeds(r) PROVE IInv'
    BY <2>3, ReadsStep, WritesStep, FailStep DEF Proceeds
  <2>4. ASSUME NEW s \in Session, CancelEnrollment(s) \/ EndSession(s) PROVE IInv'
    BY <2>4, CancelEnrollmentStep, EndSessionStep
  <2>5. ASSUME NEW p \in Password, RecoverPassword(p) PROVE IInv'
    BY <2>5, RecoverPasswordStep
  <2>6. CASE ResetMFA
    BY <2>6, ResetMFAStep
  <2>7. CASE Tick
    BY <2>7, TickStep
  <2>8. CASE UNCHANGED vars
    <3>1. TypeOK'
      BY <2>8 DEF vars, IInv, TypeOK
    <3>2. Control'
      BY <2>8, OutsideControl DEF vars, IInv
    <3> QED BY <3>1, <3>2 DEF IInv
  <2> QED BY <2>1, <2>2, <2>3, <2>4, <2>5, <2>6, <2>7, <2>8 DEF Next
<1> QED BY <1>1, <1>2, PTL DEF Spec

-----------------------------------------------------------------------------
\* The types of CredentialGate, in every reachable state.
THEOREM TypeCorrect == Spec => []TypeOK
<1>1. IInv => TypeOK
  BY DEF IInv
<1> QED BY <1>1, Invariant, PTL

\* A login that found MFA off is never overtaken by the confirmation of an
\* enrolment: for any number of requests and terminal commands.
THEOREM PasswordAloneNeedsNoMFA == Spec => []PasswordAloneOnlyWithoutMFA
<1>1. IInv => PasswordAloneOnlyWithoutMFA
  BY DEF IInv, Control
<1> QED BY <1>1, Invariant, PTL

\* The secret sign-in asks for is one the owner has shown a code of.
THEOREM OnlyProvenSecrets == Spec => []EnabledSecretIsProven
<1>1. IInv => EnabledSecretIsProven
  BY DEF IInv, Control
<1> QED BY <1>1, Invariant, PTL

-----------------------------------------------------------------------------
(* The password a request or a session stands on.                          *)

\* The request x acts on a password it was told: by its session, or because it
\* checked it; and the password was not replaced meanwhile.
StandsOn(x) ==
  /\ x.pc # "idle" /\ x.mark = "none"
  /\ ~(x.op = "login" /\ x.pc \in {"begin", "password"})

CarriesThePassword == \A r \in Request : StandsOn(req[r]) => req[r].by = password

PasswordInv == CarriesThePassword /\ OnlyLateSessionsOutliveThePassword

\* Steps that replace no password and establish no session.
LEMMA SamePassword ==
  ASSUME PasswordInv, NEW r \in Request, password' = password,
         \A q \in Request \ {r} : req'[q] = req[q],
         StandsOn(req'[r]) => req'[r].by = password,
         \A s \in Session : sess'[s] \in {sess[s], NoRow}
  PROVE  PasswordInv'
<1>1. CarriesThePassword'
  BY DEF PasswordInv, CarriesThePassword, StandsOn
<1>2. OnlyLateSessionsOutliveThePassword'
  BY DEF PasswordInv, OnlyLateSessionsOutliveThePassword, NoRow
<1> QED BY <1>1, <1>2 DEF PasswordInv

\* A request that is past the check of its password keeps what it stands on.
LEMMA GoesOn ==
  ASSUME TypeOK, PasswordInv, NEW r \in Request, NEW pc, Goto(r, pc),
         req[r].pc \notin {"idle", "begin", "password"},
         UNCHANGED <<password, sess>>
  PROVE  PasswordInv'
<1>1. /\ req'[r].by = req[r].by /\ req'[r].mark = req[r].mark /\ req'[r].op = req[r].op
      /\ \A q \in Request \ {r} : req'[q] = req[q]
  BY DEF Goto, TypeOK, Req
<1>2. StandsOn(req'[r]) => req'[r].by = password
  BY <1>1 DEF PasswordInv, CarriesThePassword, StandsOn
<1>3. \A s \in Session : sess'[s] \in {sess[s], NoRow}
  OBVIOUS
<1> QED BY <1>1, <1>2, <1>3, SamePassword

\* A return without a session.
LEMMA Returns ==
  ASSUME TypeOK, PasswordInv, NEW r \in Request, Done(r), password' = password,
         \A s \in Session : sess'[s] \in {sess[s], NoRow}
  PROVE  PasswordInv'
<1>1. req'[r].pc = "idle" /\ \A q \in Request \ {r} : req'[q] = req[q]
  BY DoneFact
<1>2. ~StandsOn(req'[r])
  BY <1>1 DEF StandsOn
<1> QED BY <1>1, <1>2, SamePassword

\* A new request has what its session was signed in with; a login has nothing.
LEMMA ArrivePassword ==
  ASSUME TypeOK, PasswordInv, NEW r \in Request, NEW op \in Op,
         NEW s \in Session \cup {NoSession}, Arrive(r, op, s)
  PROVE  PasswordInv'
<1> DEFINE row == IF s = NoSession THEN NoRow ELSE sess[s]
           new == [pc |-> "begin", op |-> op, sess |-> s, by |-> row.by,
                   mark |-> row.mark, secret |-> NoSecret, step |-> 0]
<1>1. Admits(op, row.level) /\ req' = [req EXCEPT ![r] = new] /\ UNCHANGED <<password, sess>>
  BY DEF Arrive, db
<1>2. req'[r] = new /\ \A q \in Request \ {r} : req'[q] = req[q]
  BY <1>1 DEF TypeOK
<1>3. StandsOn(new) => new.by = password
  <2> SUFFICES ASSUME StandsOn(new) PROVE row.by = password
    OBVIOUS
  <2>1. op # "login" /\ row.mark = "none"
    BY DEF StandsOn
  <2>2. row.level \in {"pending", "owner"}
    BY <1>1, <2>1 DEF Admits
  <2>3. s \in Session /\ row = sess[s]
    BY <2>2 DEF NoRow
  <2> QED BY <2>1, <2>2, <2>3 DEF PasswordInv, OnlyLateSessionsOutliveThePassword
<1>4. \A u \in Session : sess'[u] \in {sess[u], NoRow}
  BY <1>1
<1> HIDE DEF new
<1> QED BY <1>1, <1>2, <1>3, <1>4, SamePassword

\* A login takes the slot to check its password, and no other request loses
\* what it stands on.
LEMMA TakeSlotPassword ==
  ASSUME TypeOK, PasswordInv, NEW r \in Request, TakeSlot(r)
  PROVE  PasswordInv'
<1> DEFINE pc == First(req[r].op)
<1>1. req[r].op = "login" => pc = "password"
  <2>1. ASSUME NEW op, op = "login" PROVE First(op) = "password"
    BY <2>1, ZenonT(20) DEF First
  <2> QED BY <2>1
<1>2. Goto(r, pc) /\ req[r].pc = "begin" /\ UNCHANGED <<password, sess>>
  BY DEF TakeSlot, db
<1> HIDE DEF pc
<1>3. /\ req'[r].by = req[r].by /\ req'[r].mark = req[r].mark /\ req'[r].op = req[r].op
      /\ req'[r].pc = pc
      /\ \A q \in Request \ {r} : req'[q] = req[q]
  BY <1>2 DEF Goto, TypeOK, Req
<1>4. StandsOn(req'[r]) => req'[r].by = password
  BY <1>1, <1>2, <1>3 DEF PasswordInv, CarriesThePassword, StandsOn
<1>5. \A u \in Session : sess'[u] \in {sess[u], NoRow}
  BY <1>2
<1> QED BY <1>2, <1>3, <1>4, <1>5, SamePassword

\* A login that checked its password stands on the one that is stored.
LEMMA CheckPasswordPassword ==
  ASSUME TypeOK, PasswordInv, NEW r \in Request, CheckPassword(r)
  PROVE  PasswordInv'
<1> DEFINE pc == IF req[r].pc = "recheck" THEN "write"
                 ELSE IF req[r].op \in {"login", "enroll", "settings"} THEN "mode" ELSE "secret"
<1>1. /\ req' = [req EXCEPT ![r] = [req[r] EXCEPT
                   !.by = IF req[r].op = "login" THEN password ELSE req[r].by, !.pc = pc]]
      /\ req[r].pc \in {"password", "recheck"}
      /\ UNCHANGED <<password, sess>>
  BY DEF CheckPassword, TypeOK, Req, db
<1>2. /\ req'[r].by = IF req[r].op = "login" THEN password ELSE req[r].by
      /\ req'[r].mark = req[r].mark /\ req'[r].op = req[r].op
      /\ \A q \in Request \ {r} : req'[q] = req[q]
  BY <1>1 DEF TypeOK, Req
<1>3. StandsOn(req'[r]) => req'[r].by = password
  BY <1>1, <1>2 DEF PasswordInv, CarriesThePassword, StandsOn
<1>4. \A u \in Session : sess'[u] \in {sess[u], NoRow}
  BY <1>1
<1> QED BY <1>1, <1>2, <1>3, <1>4, SamePassword

\* Reading a secret or an enrolment changes neither.
LEMMA ReadSecretPassword ==
  ASSUME TypeOK, PasswordInv, NEW r \in Request,
         ReadSecret(r) \/ \E n \in 0..MaxStep : ReadEnrollment(r, n)
  PROVE  PasswordInv'
<1>1. /\ req'[r].by = req[r].by /\ req'[r].mark = req[r].mark /\ req'[r].op = req[r].op
      /\ \A q \in Request \ {r} : req'[q] = req[q]
  BY DEF ReadSecret, ReadEnrollment, TypeOK, Req
<1>2. req[r].pc \in {"secret", "enrollment"} /\ UNCHANGED <<password, sess>>
  BY DEF ReadSecret, ReadEnrollment, db
<1>3. StandsOn(req'[r]) => req'[r].by = password
  BY <1>1, <1>2 DEF PasswordInv, CarriesThePassword, StandsOn
<1>4. \A u \in Session : sess'[u] \in {sess[u], NoRow}
  BY <1>2
<1> QED BY <1>1, <1>2, <1>3, <1>4, SamePassword

\* The session that is established has what its request stands on.
LEMMA SignPassword ==
  ASSUME TypeOK, PasswordInv, NEW r \in Request, NEW u \in Session, NEW level \in Level,
         req[r].pc \in {"challenge", "establish"}, Sign(r, u, level)
  PROVE  PasswordInv'
<1>1. req'[r].pc = "idle" /\ \A q \in Request \ {r} : req'[q] = req[q]
  BY DoneFact DEF Sign
<1>2. CarriesThePassword'
  BY <1>1 DEF Sign, PasswordInv, CarriesThePassword, StandsOn
<1>3. ASSUME NEW s \in Session, sess'[s].level # "none", sess'[s].mark = "none"
      PROVE  sess'[s].by = password
  <2>1. CASE s = u
    <3>1. sess'[s] = [level |-> level, by |-> req[r].by, mark |-> req[r].mark]
      BY <2>1 DEF Sign
    <3>2. StandsOn(req[r])
      BY <3>1, <1>3 DEF StandsOn
    <3> QED BY <3>1, <3>2 DEF PasswordInv, CarriesThePassword
  <2>2. CASE s # u
    BY <2>2, <1>3 DEF Sign, NoRow, PasswordInv, OnlyLateSessionsOutliveThePassword
  <2> QED BY <2>1, <2>2
<1>4. password' = password
  BY DEF Sign
<1> QED BY <1>2, <1>3, <1>4 DEF PasswordInv, OnlyLateSessionsOutliveThePassword

\* A replaced password leaves sessions that are over or kept, and requests that
\* are late or kept, save the one that replaced it.
LEMMA ReplacePasswordPassword ==
  ASSUME TypeOK, PasswordInv, NEW r \in Request, NEW p \in Password, ReplacePassword(r, p)
  PROVE  PasswordInv'
<1> DEFINE over == Overtaken(req[r].sess)
           new == [req[r] EXCEPT !.pc = "establish", !.by = p, !.mark = "none"]
<1>1. req' = [over EXCEPT ![r] = new] /\ password' = p
  BY DEF ReplacePassword
<1>2. new.by = p
  BY DEF TypeOK, Req
<1>3. ASSUME NEW q \in Request PROVE ~StandsOn(over[q])
  <2>1. req[q] \in Req
    BY DEF TypeOK
  <2>2. ASSUME NEW m \in {"kept", "late"} PROVE [req[q] EXCEPT !.mark = m].mark = m
    BY <2>1 DEF Req
  <2>3. \/ over[q] = req[q] /\ req[q].pc = "idle"
        \/ \E m \in {"kept", "late"} : over[q] = [req[q] EXCEPT !.mark = m]
    BY DEF Overtaken
  <2> QED BY <2>2, <2>3 DEF StandsOn
<1>4. over = [q \in Request |-> over[q]]
  BY DEF Overtaken
<1> HIDE DEF over, new
<1>5. req'[r] = new /\ \A q \in Request \ {r} : req'[q] = over[q]
  BY <1>1, <1>4
<1>6. CarriesThePassword'
  BY <1>1, <1>2, <1>3, <1>5 DEF CarriesThePassword
<1>7. ASSUME NEW s \in Session PROVE ~(sess'[s].level # "none" /\ sess'[s].mark = "none")
  <2>1. [sess[s] EXCEPT !.mark = "kept"].mark = "kept"
    BY DEF TypeOK, SessionRow
  <2> QED BY <2>1 DEF ReplacePassword, NoRow
<1> QED BY <1>6, <1>7 DEF PasswordInv, OnlyLateSessionsOutliveThePassword

\* A recovered password leaves no session, and no request that is not late.
LEMMA RecoverPasswordPassword ==
  ASSUME TypeOK, NEW p \in Password, RecoverPassword(p)
  PROVE  PasswordInv'
<1>1. ASSUME NEW q \in Request PROVE ~StandsOn(req'[q])
  <2>1. [req[q] EXCEPT !.mark = "late"].mark = "late"
    BY DEF TypeOK, Req
  <2>2. (req'[q] = req[q] /\ req[q].pc = "idle") \/ req'[q] = [req[q] EXCEPT !.mark = "late"]
    BY DEF RecoverPassword, Overtaken
  <2> QED BY <2>1, <2>2 DEF StandsOn
<1>2. \A s \in Session : sess'[s].level = "none"
  BY DEF RecoverPassword, RevokeAll, NoRow
<1> QED BY <1>1, <1>2 DEF PasswordInv, CarriesThePassword, OnlyLateSessionsOutliveThePassword

\* Steps that move no request and replace no password.
LEMMA OutsidePassword ==
  ASSUME PasswordInv, password' = password, req' = req,
         \A s \in Session : sess'[s] \in {sess[s], NoRow}
  PROVE  PasswordInv'
<1>1. CarriesThePassword'
  BY DEF PasswordInv, CarriesThePassword
<1>2. OnlyLateSessionsOutliveThePassword'
  BY DEF PasswordInv, OnlyLateSessionsOutliveThePassword, NoRow
<1> QED BY <1>1, <1>2 DEF PasswordInv

\* A session, signed in or halfway, stands on the password that is valid now,
\* unless its request was overtaken by a new password or changed it: whoever
\* else is in flight, and whenever the terminal steps in.
THEOREM OnlyLateSessions == Spec => []OnlyLateSessionsOutliveThePassword
<1>1. Init => PasswordInv
  BY IdleReqFact DEF Init, PasswordInv, CarriesThePassword, StandsOn, NoRow,
                     OnlyLateSessionsOutliveThePassword
<1>2. TypeOK /\ PasswordInv /\ [Next]_vars => PasswordInv'
  <2> SUFFICES ASSUME TypeOK, PasswordInv, [Next]_vars PROVE PasswordInv'
    OBVIOUS
  <2>1. ASSUME NEW r \in Request, NEW op \in Op, NEW s \in Session \cup {NoSession},
               Arrive(r, op, s) PROVE PasswordInv'
    BY <2>1, ArrivePassword
  <2>2. ASSUME NEW r \in Request, TakeSlot(r) PROVE PasswordInv'
    BY <2>2, TakeSlotPassword
  <2>3. ASSUME NEW r \in Request,
               Throttled(r) \/ Fail(r) \/ UpdateSettings(r) \/ EstablishFails(r)
                 \/ DisableMFA(r) \/ (\E s \in Secret, c \in Code : BeginEnrollment(r, s, c))
                 \/ (\E c \in Code : RegenerateCodes(r, c))
        PROVE  PasswordInv'
    <3>1. Done(r) /\ password' = password
      BY <2>3 DEF Throttled, Fail, UpdateSettings, EstablishFails, DisableMFA, ClearMFA,
                  BeginEnrollment, RegenerateCodes, db
    <3>2. \A s \in Session : sess'[s] \in {sess[s], NoRow}
      BY <2>3 DEF Throttled, Fail, UpdateSettings, EstablishFails, DisableMFA, ClearMFA, RevokeAll,
                  BeginEnrollment, RegenerateCodes, db, TypeOK
    <3> QED BY <3>1, <3>2, Returns
  <2>4. ASSUME NEW r \in Request, CheckPassword(r) PROVE PasswordInv'
    BY <2>4, CheckPasswordPassword
  <2>5. ASSUME NEW r \in Request,
               ReadMode(r) \/ EnableMFA(r) \/ (\E n \in 0..MaxStep : AcceptTOTP(r, n))
                 \/ (\E c \in Code : AcceptCode(r, c))
        PROVE  PasswordInv'
    <3>1. /\ \E pc : Goto(r, pc)
          /\ req[r].pc \notin {"idle", "begin", "password"}
          /\ UNCHANGED <<password, sess>>
      BY <2>5 DEF ReadMode, EnableMFA, Writing, AcceptTOTP, AcceptCode, db
    <3> QED BY <3>1, GoesOn
  <2>6. ASSUME NEW r \in Request,
               ReadSecret(r) \/ \E n \in 0..MaxStep : ReadEnrollment(r, n)
        PROVE  PasswordInv'
    BY <2>6, ReadSecretPassword
  <2>7. ASSUME NEW r \in Request, NEW u \in Session, Challenge(r, u) \/ Establish(r, u)
        PROVE  PasswordInv'
    BY <2>7, SignPassword DEF Challenge, Establish, Level
  <2>8. ASSUME NEW r \in Request, NEW p \in Password, ReplacePassword(r, p) PROVE PasswordInv'
    BY <2>8, ReplacePasswordPassword
  <2>9. ASSUME NEW p \in Password, RecoverPassword(p) PROVE PasswordInv'
    BY <2>9, RecoverPasswordPassword
  <2>10. CASE \/ \E s \in Session : CancelEnrollment(s) \/ EndSession(s)
              \/ ResetMFA
              \/ Tick
              \/ UNCHANGED vars
    <3>1. password' = password /\ req' = req
      BY <2>10 DEF CancelEnrollment, EndSession, ResetMFA, ClearMFA, Tick, vars, db
    <3>2. \A s \in Session : sess'[s] \in {sess[s], NoRow}
      BY <2>10 DEF CancelEnrollment, EndSession, ResetMFA, ClearMFA, RevokeAll, Tick, vars, db, TypeOK
    <3> QED BY <3>1, <3>2, OutsidePassword
  <2> QED BY <2>1, <2>2, <2>3, <2>4, <2>5, <2>6, <2>7, <2>8, <2>9, <2>10
          DEF Next, Proceeds, Reads, Writes
<1>3. PasswordInv => OnlyLateSessionsOutliveThePassword
  BY DEF PasswordInv
<1> QED BY <1>1, <1>2, <1>3, TypeCorrect, PTL DEF Spec

-----------------------------------------------------------------------------
(* The enabled secret, what was accepted for it, and its recovery codes.   *)

\* What a request at pc, for op, has read as the enabled secret is m, unless MFA
\* was switched off: the factor is checked against it, and regenerated codes are
\* stored under it.
Follows(x, m) ==
  /\ x.op = "regenerate" => x.pc \in {"begin", "password", "secret", "factor", "write"}
  /\ x.pc = "factor" /\ m # NoSecret => x.secret = m
  /\ x.pc = "write" /\ x.op = "regenerate" /\ m # NoSecret => x.secret = m

RequestsFollow == \A r \in Request : Follows(req[r], mfa)

\* The codes of an enrolment that is not confirmed are those of the pending secret.
PendingCodes ==
  \A c \in Code : codes[c].state = "pending" =>
    pending.secret # NoSecret /\ codes[c].secret = pending.secret

\* A pending secret is another than the enabled one, and no code of it was accepted.
PendingIsUnused ==
  pending.secret # NoSecret => pending.secret # mfa /\ \A f \in used : f[1] # pending.secret

\* last_totp_step is no earlier than any code accepted for the enabled secret.
UsedUpToLast ==
  mfa # NoSecret => \A f \in used : f[1] = mfa => f[2] <= last

Stored == PendingCodes /\ PendingIsUnused /\ UsedUpToLast /\ CodesBelongToSecret

EnrolmentInv == RequestsFollow /\ Stored

\* Steps of one request that enable no secret.
LEMMA OneFollows ==
  ASSUME RequestsFollow, NEW r \in Request, mfa' \in {mfa, NoSecret},
         \A q \in Request \ {r} : req'[q] = req[q], Follows(req'[r], mfa')
  PROVE  RequestsFollow'
  BY DEF RequestsFollow, Follows

\* A request that returned follows nothing.
LEMMA DoneFollows ==
  ASSUME TypeOK, RequestsFollow, NEW r \in Request, mfa' \in {mfa, NoSecret}, Done(r)
  PROVE  RequestsFollow'
<1>1. /\ req'[r].pc = "idle" /\ req'[r].op = "login"
      /\ \A q \in Request \ {r} : req'[q] = req[q]
  BY DoneFact
<1>2. Follows(req'[r], mfa')
  BY <1>1 DEF Follows
<1> QED BY <1>1, <1>2, OneFollows

\* Where requests go from the slot, and from the second factor.
LEMMA RegenerateFact ==
  /\ First("regenerate") = "password"
  /\ AfterFactor("regenerate") = "write"
<1>1. First("regenerate") = "password"
  BY ZenonT(20) DEF First
<1>2. AfterFactor("regenerate") = "write"
  BY ZenonT(20) DEF AfterFactor
<1> QED BY <1>1, <1>2

\* Asking for the slot, getting it and being refused.
LEMMA BeginFollows ==
  ASSUME TypeOK, RequestsFollow, NEW r \in Request,
         \/ \E op \in Op, s \in Session \cup {NoSession} : Arrive(r, op, s)
         \/ TakeSlot(r)
  PROVE  RequestsFollow'
<1>1. CASE \E op \in Op, s \in Session \cup {NoSession} : Arrive(r, op, s)
  <2>1. /\ req'[r].pc = "begin" /\ mfa' = mfa
        /\ \A q \in Request \ {r} : req'[q] = req[q]
    BY <1>1 DEF Arrive, TypeOK, db
  <2>2. Follows(req'[r], mfa')
    BY <2>1 DEF Follows
  <2> QED BY <2>1, <2>2, OneFollows
<1>2. CASE TakeSlot(r)
  <2> DEFINE pc == First(req[r].op)
  <2>1. pc \in {"mode", "secret", "enrollment", "password"}
        /\ (req[r].op = "regenerate" => pc = "password")
    BY FirstFact, RegenerateFact
  <2>2. Goto(r, pc) /\ mfa' = mfa
    BY <1>2 DEF TakeSlot, db
  <2> HIDE DEF pc
  <2>3. /\ req'[r].pc = pc /\ req'[r].op = req[r].op
        /\ \A q \in Request \ {r} : req'[q] = req[q]
    BY <2>2 DEF Goto, TypeOK, Req
  <2>4. Follows(req'[r], mfa')
    BY <2>1, <2>3 DEF Follows
  <2> QED BY <2>2, <2>3, <2>4, OneFollows
<1> QED BY <1>1, <1>2

\* Checking a password and reading whether MFA is on lead to no factor, and a
\* regeneration passes by neither the mode nor a second check.
LEMMA CheckFollows ==
  ASSUME TypeOK, RequestsFollow, NEW r \in Request, CheckPassword(r) \/ ReadMode(r)
  PROVE  RequestsFollow'
<1>1. CASE CheckPassword(r)
  <2> DEFINE pc == IF req[r].pc = "recheck" THEN "write"
                   ELSE IF req[r].op \in {"login", "enroll", "settings"} THEN "mode" ELSE "secret"
  <2>1. /\ req[r].pc \in {"password", "recheck"}
        /\ req' = [req EXCEPT ![r] = [req[r] EXCEPT
                    !.by = IF req[r].op = "login" THEN password ELSE req[r].by, !.pc = pc]]
        /\ mfa' = mfa
    BY <1>1 DEF CheckPassword, TypeOK, Req, db
  <2>2. /\ req'[r].pc = pc /\ req'[r].op = req[r].op
        /\ \A q \in Request \ {r} : req'[q] = req[q]
    BY <2>1 DEF TypeOK, Req
  <2>3. Follows(req[r], mfa)
    BY DEF RequestsFollow
  <2>4. Follows(req'[r], mfa')
    BY <2>1, <2>2, <2>3 DEF Follows
  <2> QED BY <2>1, <2>2, <2>4, OneFollows
<1>2. CASE ReadMode(r)
  <2> DEFINE on == mfa # NoSecret
             pc == CASE req[r].op = "login"  -> IF on THEN "challenge" ELSE "establish"
                     [] req[r].op = "change" -> IF on THEN "password" ELSE "recheck"
                     [] OTHER                -> IF on THEN "secret" ELSE "write"
  <2>1. req[r].pc = "mode" /\ Goto(r, pc) /\ mfa' = mfa
    BY <1>2 DEF ReadMode, db
  <2>2. pc # "factor"
    <3>1. req[r].op = "login" => pc = IF on THEN "challenge" ELSE "establish"
      BY ZenonT(20)
    <3>2. req[r].op = "change" => pc = IF on THEN "password" ELSE "recheck"
      BY ZenonT(20)
    <3>3. req[r].op \notin {"login", "change"} => pc = IF on THEN "secret" ELSE "write"
      BY ZenonT(20)
    <3> HIDE DEF pc
    <3> QED BY <3>1, <3>2, <3>3
  <2> HIDE DEF pc
  <2>3. req[r].op # "regenerate"
    BY <2>1 DEF RequestsFollow, Follows
  <2>4. /\ req'[r].pc = pc /\ req'[r].op = req[r].op
        /\ \A q \in Request \ {r} : req'[q] = req[q]
    BY <2>1 DEF Goto, TypeOK, Req
  <2>5. Follows(req'[r], mfa')
    BY <2>2, <2>3, <2>4 DEF Follows
  <2> QED BY <2>1, <2>4, <2>5, OneFollows
<1> QED BY <1>1, <1>2

\* The enabled secret is read; a pending one is read by a confirmation.
LEMMA ReadFollows ==
  ASSUME TypeOK, RequestsFollow, NEW r \in Request,
         ReadSecret(r) \/ \E n \in 0..MaxStep : ReadEnrollment(r, n)
  PROVE  RequestsFollow'
<1>1. mfa' = mfa /\ \A q \in Request \ {r} : req'[q] = req[q]
  BY DEF ReadSecret, ReadEnrollment, TypeOK, Req, db
<1>2. Follows(req[r], mfa)
  BY DEF RequestsFollow
<1>3. CASE ReadSecret(r)
  <2>1. req'[r].pc = "factor" /\ req'[r].op = req[r].op /\ req'[r].secret = mfa
        /\ req[r].pc = "secret"
    BY <1>3 DEF ReadSecret, TypeOK, Req
  <2>2. Follows(req'[r], mfa')
    BY <1>1, <1>2, <2>1 DEF Follows
  <2> QED BY <1>1, <2>2, OneFollows
<1>4. CASE \E n \in 0..MaxStep : ReadEnrollment(r, n)
  <2> PICK n \in 0..MaxStep : ReadEnrollment(r, n)
    BY <1>4
  <2> DEFINE new == [req[r] EXCEPT !.pc = "write", !.secret = pending.secret, !.step = n]
  <2>0. req[r].pc = "enrollment" /\ req' = [req EXCEPT ![r] = new]
    BY DEF ReadEnrollment, TypeOK, Req
  <2>1. req'[r].pc = "write" /\ req'[r].op = req[r].op /\ req[r].pc = "enrollment"
    BY <2>0 DEF TypeOK, Req
  <2>2. Follows(req'[r], mfa')
    BY <1>1, <1>2, <2>1 DEF Follows
  <2> QED BY <1>1, <2>2, OneFollows
<1> QED BY <1>3, <1>4

\* A regeneration whose factor was accepted is about to store its codes under
\* the secret the factor was checked against.
LEMMA FactorFollows ==
  ASSUME TypeOK, RequestsFollow, NEW r \in Request, req[r].pc = "factor",
         Goto(r, AfterFactor(req[r].op)), mfa' = mfa
  PROVE  RequestsFollow'
<1> DEFINE pc == AfterFactor(req[r].op)
<1>1. pc \in {"establish", "recheck", "write"} /\ (req[r].op = "regenerate" => pc = "write")
  BY AfterFactorFact, RegenerateFact
<1>2. Goto(r, pc)
  OBVIOUS
<1> HIDE DEF pc
<1>3. /\ req'[r].pc = pc /\ req'[r].op = req[r].op /\ req'[r].secret = req[r].secret
      /\ \A q \in Request \ {r} : req'[q] = req[q]
  BY <1>2 DEF Goto, TypeOK, Req
<1>4. Follows(req[r], mfa)
  BY DEF RequestsFollow
<1>5. Follows(req'[r], mfa')
  BY <1>1, <1>3, <1>4 DEF Follows
<1> QED BY <1>3, <1>5, OneFollows

\* A confirmation enables its secret while nobody is at a factor or about to
\* store codes: the slot again.
LEMMA EnableFollows ==
  ASSUME TypeOK, SlotHeld, RequestsFollow, NEW r \in Request, EnableMFA(r)
  PROVE  RequestsFollow'
<1>1. req[r].pc = "write" /\ req[r].op = "confirm" /\ Goto(r, "establish")
  BY DEF EnableMFA, Writing
<1>2. /\ req'[r].pc = "establish" /\ req'[r].op = "confirm"
      /\ \A q \in Request \ {r} : req'[q] = req[q]
  BY <1>1, GotoFact DEF PC
<1>3. \A q \in Request \ {r} : req'[q].pc \in {"idle", "begin"}
  BY <1>1, <1>2, OnlyOnePast
<1>4. \A q \in Request : Follows(req[q], mfa)
  BY DEF RequestsFollow
<1> QED BY <1>2, <1>3, <1>4 DEF RequestsFollow, Follows

\* Marks do not matter here.
LEMMA PasswordFollows ==
  ASSUME TypeOK, RequestsFollow,
         \/ \E r \in Request, p \in Password : ReplacePassword(r, p)
         \/ \E p \in Password : RecoverPassword(p)
  PROVE  RequestsFollow'
<1>1. mfa' = mfa
  BY DEF ReplacePassword, RecoverPassword
<1>2. ASSUME NEW s, NEW q \in Request
      PROVE  LET x == Overtaken(s)[q]
             IN  x.pc = req[q].pc /\ x.op = req[q].op /\ x.secret = req[q].secret
  <2>1. ASSUME NEW m
        PROVE  LET x == [req[q] EXCEPT !.mark = m]
               IN  x.pc = req[q].pc /\ x.op = req[q].op /\ x.secret = req[q].secret
    BY DEF TypeOK, Req
  <2>2. Overtaken(s)[q] = req[q] \/ \E m : Overtaken(s)[q] = [req[q] EXCEPT !.mark = m]
    BY DEF Overtaken
  <2> QED BY <2>1, <2>2
<1>3. ASSUME NEW q \in Request PROVE Follows(req'[q], mfa)
  <2>1. Follows(req[q], mfa)
    BY DEF RequestsFollow
  <2>2. CASE \E p \in Password : RecoverPassword(p)
    <3>1. req'[q] = Overtaken(NoSession)[q]
      BY <2>2 DEF RecoverPassword
    <3> QED BY <2>1, <3>1, <1>2 DEF Follows
  <2>3. ASSUME NEW r \in Request, NEW p \in Password, ReplacePassword(r, p)
        PROVE  Follows(req'[q], mfa)
    <3> DEFINE over == Overtaken(req[r].sess)
               new == [req[r] EXCEPT !.pc = "establish", !.by = p, !.mark = "none"]
    <3>1. req' = [over EXCEPT ![r] = new] /\ req[r].op = "change"
      BY <2>3 DEF ReplacePassword, Writing
    <3>2. over = [x \in Request |-> over[x]]
      BY DEF Overtaken
    <3>3. new.pc = "establish" /\ new.op = "change"
      BY <3>1 DEF TypeOK, Req
    <3>4. over[q].pc = req[q].pc /\ over[q].op = req[q].op /\ over[q].secret = req[q].secret
      BY <1>2
    <3> HIDE DEF over, new
    <3>5. req'[q] = IF q = r THEN new ELSE over[q]
      BY <3>1, <3>2
    <3> QED BY <2>1, <3>3, <3>4, <3>5 DEF Follows
  <2> QED BY <2>2, <2>3
<1> QED BY <1>1, <1>3 DEF RequestsFollow

\* A code that is accepted is the last one accepted for the enabled secret.
LEMMA AcceptTOTPStored ==
  ASSUME TypeOK, EnrolmentInv, NEW r \in Request, NEW n \in 0..MaxStep, AcceptTOTP(r, n)
  PROVE  Stored'
<1>1. /\ req[r].pc = "factor" /\ mfa # NoSecret /\ last < n /\ last' = n
      /\ used' = used \cup {<<req[r].secret, n>>}
      /\ UNCHANGED <<mfa, pending, codes>>
  BY DEF AcceptTOTP
<1>2. req[r].secret = mfa
  BY <1>1 DEF EnrolmentInv, RequestsFollow, Follows
<1>3. PendingCodes' /\ CodesBelongToSecret'
  BY <1>1 DEF EnrolmentInv, Stored, PendingCodes, CodesBelongToSecret
<1>4. PendingIsUnused'
  BY <1>1, <1>2 DEF EnrolmentInv, Stored, PendingIsUnused
<1>5. UsedUpToLast'
  <2> SUFFICES ASSUME NEW f \in used', f[1] = mfa PROVE f[2] <= n
    BY <1>1 DEF UsedUpToLast
  <2>1. CASE f \in used
    <3>1. f[2] <= last /\ f[2] \in Int /\ last \in Int
      BY <1>1, <2>1, GateAssumption DEF EnrolmentInv, Stored, UsedUpToLast, TypeOK
    <3> QED BY <1>1, <3>1
  <2>2. CASE f = <<req[r].secret, n>>
    BY <2>2
  <2> QED BY <1>1, <2>1, <2>2
<1> QED BY <1>3, <1>4, <1>5 DEF Stored

\* A code that was used is no longer one that works.
LEMMA AcceptCodeStored ==
  ASSUME TypeOK, EnrolmentInv, NEW r \in Request, NEW c \in Code, AcceptCode(r, c)
  PROVE  Stored'
<1>1. /\ codes[c].state = "active" /\ codes' = [codes EXCEPT ![c].state = "used"]
      /\ UNCHANGED <<mfa, last, pending, used>>
  BY DEF AcceptCode, history
<1>2. /\ codes'[c].state = "used"
      /\ \A d \in Code \ {c} : codes'[d] = codes[d]
  BY <1>1 DEF TypeOK, CodeRow
<1>3. PendingCodes' /\ CodesBelongToSecret'
  BY <1>1, <1>2 DEF EnrolmentInv, Stored, PendingCodes, CodesBelongToSecret
<1>4. PendingIsUnused' /\ UsedUpToLast'
  BY <1>1 DEF EnrolmentInv, Stored, PendingIsUnused, UsedUpToLast
<1> QED BY <1>3, <1>4 DEF Stored

\* A new enrolment drops what the one before left, and its secret is fresh.
LEMMA BeginEnrollmentStored ==
  ASSUME TypeOK, EnrolmentInv, NEW r \in Request, NEW s \in Secret, NEW c \in Code,
         BeginEnrollment(r, s, c)
  PROVE  Stored'
<1>1. /\ s # mfa /\ codes[c].state = "none"
      /\ pending' = [secret |-> s, sess |-> req[r].sess]
      /\ codes' = [DropCodes({"pending"}) EXCEPT ![c] = [state |-> "pending", secret |-> s]]
      /\ used' = {f \in used : f[1] # s}
      /\ UNCHANGED <<mfa, last>>
  BY DEF BeginEnrollment, FreshSecret
<1>2. s # NoSecret
  BY GateAssumption
<1>3. /\ codes'[c] = [state |-> "pending", secret |-> s]
      /\ \A d \in Code \ {c} :
           codes'[d] = IF codes[d].state = "pending" THEN NoCode ELSE codes[d]
  BY <1>1 DEF DropCodes
<1>4. PendingCodes' /\ CodesBelongToSecret'
  BY <1>1, <1>2, <1>3 DEF EnrolmentInv, Stored, PendingCodes, CodesBelongToSecret, NoCode
<1>5. PendingIsUnused' /\ UsedUpToLast'
  BY <1>1 DEF EnrolmentInv, Stored, PendingIsUnused, UsedUpToLast
<1> QED BY <1>4, <1>5 DEF Stored

\* The codes that start to work with an enrolment are its own, and no code of its
\* secret was accepted before the one that confirms it.
LEMMA EnableMFAStored ==
  ASSUME TypeOK, EnrolmentInv, NEW r \in Request, EnableMFA(r)
  PROVE  Stored'
<1>1. /\ pending.secret # NoSecret
      /\ mfa' = pending.secret /\ pending' = NoPending /\ last' = req[r].step
      /\ used' = used \cup {<<req[r].secret, req[r].step>>}
      /\ codes' = [c \in Code |-> IF codes[c].state = "pending"
                                  THEN [codes[c] EXCEPT !.state = "active"] ELSE NoCode]
  BY DEF EnableMFA
<1>2. ASSUME NEW c \in Code
      PROVE  \/ codes'[c] = NoCode
             \/ /\ codes[c].state = "pending" /\ codes'[c].state = "active"
                /\ codes'[c].secret = codes[c].secret
  <2>1. [codes[c] EXCEPT !.state = "active"].state = "active"
        /\ [codes[c] EXCEPT !.state = "active"].secret = codes[c].secret
    BY DEF TypeOK, CodeRow
  <2> QED BY <1>1, <2>1
<1>3. PendingCodes' /\ CodesBelongToSecret'
  BY <1>1, <1>2 DEF EnrolmentInv, Stored, PendingCodes, CodesBelongToSecret, NoCode
<1>4. PendingIsUnused'
  BY <1>1, RowFact DEF PendingIsUnused
<1>5. UsedUpToLast'
  <2> SUFFICES ASSUME NEW f \in used', f[1] = pending.secret PROVE f[2] <= req[r].step
    BY <1>1 DEF UsedUpToLast
  <2>1. f \notin used
    BY <1>1 DEF EnrolmentInv, Stored, PendingIsUnused
  <2>2. f = <<req[r].secret, req[r].step>> /\ req[r].step \in 0..MaxStep
    BY <1>1, <2>1 DEF TypeOK, Req
  <2> QED BY <2>2, GateAssumption
<1> QED BY <1>3, <1>4, <1>5 DEF Stored

\* Regenerated codes take the place of the others, under the enabled secret.
LEMMA RegenerateCodesStored ==
  ASSUME TypeOK, EnrolmentInv, NEW r \in Request, NEW c \in Code, RegenerateCodes(r, c)
  PROVE  Stored'
<1>1. /\ req[r].pc = "write" /\ req[r].op = "regenerate" /\ codes[c].state = "none"
      /\ codes' = [DropCodes({"active", "used"}) EXCEPT
                     ![c] = [state |-> "active", secret |-> req[r].secret]]
      /\ UNCHANGED <<mfa, last, pending, used>>
  BY DEF RegenerateCodes, Writing, history
<1>2. mfa # NoSecret => req[r].secret = mfa
  BY <1>1 DEF EnrolmentInv, RequestsFollow, Follows
<1>3. /\ codes'[c] = [state |-> "active", secret |-> req[r].secret]
      /\ \A d \in Code \ {c} :
           codes'[d] = IF codes[d].state \in {"active", "used"} THEN NoCode ELSE codes[d]
  BY <1>1 DEF DropCodes
<1>4. PendingCodes' /\ CodesBelongToSecret'
  BY <1>1, <1>2, <1>3 DEF EnrolmentInv, Stored, PendingCodes, CodesBelongToSecret, NoCode
<1>5. PendingIsUnused' /\ UsedUpToLast'
  BY <1>1 DEF EnrolmentInv, Stored, PendingIsUnused, UsedUpToLast
<1> QED BY <1>4, <1>5 DEF Stored

\* What ends an enrolment, or MFA, takes its codes along.
LEMMA DropStored ==
  ASSUME TypeOK, EnrolmentInv,
         ClearMFA \/ \E s \in Session : CancelEnrollment(s)
  PROVE  Stored'
<1>1. CASE ClearMFA
  <2>1. /\ mfa' = NoSecret /\ pending' = NoPending
        /\ \A c \in Code : codes'[c] = NoCode
    BY <1>1 DEF ClearMFA
  <2> QED BY <2>1, RowFact
          DEF Stored, PendingCodes, PendingIsUnused, UsedUpToLast, CodesBelongToSecret, NoCode
<1>2. CASE \E s \in Session : CancelEnrollment(s)
  <2>1. /\ pending' = NoPending
        /\ \A c \in Code : codes'[c] = IF codes[c].state = "pending" THEN NoCode ELSE codes[c]
        /\ UNCHANGED <<mfa, last, used>>
    BY <1>2 DEF CancelEnrollment, DropCodes, history
  <2>2. PendingCodes' /\ CodesBelongToSecret'
    BY <2>1 DEF EnrolmentInv, Stored, PendingCodes, CodesBelongToSecret, NoCode
  <2>3. PendingIsUnused' /\ UsedUpToLast'
    BY <2>1, RowFact DEF EnrolmentInv, Stored, PendingIsUnused, UsedUpToLast
  <2> QED BY <2>2, <2>3 DEF Stored
<1> QED BY <1>1, <1>2

\* Everything else leaves the configuration and the codes alone.
LEMMA SameStored ==
  ASSUME EnrolmentInv, UNCHANGED <<mfa, last, pending, codes, used>>
  PROVE  Stored'
  BY DEF EnrolmentInv, Stored, PendingCodes, PendingIsUnused, UsedUpToLast, CodesBelongToSecret

\* EnrolmentInv holds in every reachable state.
THEOREM Enrolment == Spec => []EnrolmentInv
<1>1. Init => EnrolmentInv
  <2> SUFFICES ASSUME Init PROVE EnrolmentInv
    OBVIOUS
  <2>1. \A r \in Request : req[r].pc = "idle" /\ req[r].op = "login"
    BY IdleReqFact DEF Init
  <2>2. RequestsFollow
    BY <2>1 DEF RequestsFollow, Follows
  <2>3. Stored
    BY RowFact DEF Init, Stored, PendingCodes, PendingIsUnused, UsedUpToLast,
                   CodesBelongToSecret, NoCode
  <2> QED BY <2>2, <2>3 DEF EnrolmentInv
<1>2. IInv /\ EnrolmentInv /\ [Next]_vars => EnrolmentInv'
  <2> SUFFICES ASSUME IInv, EnrolmentInv, [Next]_vars PROVE EnrolmentInv'
    OBVIOUS
  <2> USE DEF EnrolmentInv
  <2>0. TypeOK /\ SlotHeld
    BY DEF IInv, Control
  <2>1. ASSUME NEW r \in Request,
               \/ \E op \in Op, s \in Session \cup {NoSession} : Arrive(r, op, s)
               \/ TakeSlot(r)
        PROVE  EnrolmentInv'
    <3>1. UNCHANGED <<mfa, last, pending, codes, used>>
      BY <2>1 DEF Arrive, TakeSlot, db, history
    <3> QED BY <2>0, <2>1, <3>1, BeginFollows, SameStored
  <2>2. ASSUME NEW r \in Request, Throttled(r) \/ Fail(r) \/ UpdateSettings(r) \/ EstablishFails(r)
                 \/ \E u \in Session : Challenge(r, u) \/ Establish(r, u)
        PROVE  EnrolmentInv'
    <3>1. Done(r) /\ UNCHANGED <<mfa, last, pending, codes, used>>
      BY <2>2 DEF Throttled, Fail, UpdateSettings, EstablishFails, Challenge, Establish, Sign,
                  db, history
    <3> QED BY <2>0, <3>1, DoneFollows, SameStored
  <2>3. ASSUME NEW r \in Request, CheckPassword(r) \/ ReadMode(r) PROVE EnrolmentInv'
    <3>1. UNCHANGED <<mfa, last, pending, codes, used>>
      BY <2>3 DEF CheckPassword, ReadMode, db, history
    <3> QED BY <2>0, <2>3, <3>1, CheckFollows, SameStored
  <2>4. ASSUME NEW r \in Request, ReadSecret(r) \/ \E n \in 0..MaxStep : ReadEnrollment(r, n)
        PROVE  EnrolmentInv'
    <3>1. UNCHANGED <<mfa, last, pending, codes, used>>
      BY <2>4 DEF ReadSecret, ReadEnrollment, db, history
    <3> QED BY <2>0, <2>4, <3>1, ReadFollows, SameStored
  <2>5. ASSUME NEW r \in Request,
               \/ \E n \in 0..MaxStep : AcceptTOTP(r, n)
               \/ \E c \in Code : AcceptCode(r, c)
        PROVE  EnrolmentInv'
    <3>1. req[r].pc = "factor" /\ Goto(r, AfterFactor(req[r].op)) /\ mfa' = mfa
      BY <2>5 DEF AcceptTOTP, AcceptCode
    <3> QED BY <2>0, <2>5, <3>1, FactorFollows, AcceptTOTPStored, AcceptCodeStored
  <2>6. ASSUME NEW r \in Request, NEW p \in Password, ReplacePassword(r, p) PROVE EnrolmentInv'
    <3>1. UNCHANGED <<mfa, last, pending, codes, used>>
      BY <2>6 DEF ReplacePassword, history
    <3> QED BY <2>0, <2>6, <3>1, PasswordFollows, SameStored
  <2>7. ASSUME NEW r \in Request, NEW s \in Secret, NEW c \in Code, BeginEnrollment(r, s, c)
        PROVE  EnrolmentInv'
    <3>1. Done(r) /\ mfa' = mfa
      BY <2>7 DEF BeginEnrollment
    <3> QED BY <2>0, <2>7, <3>1, DoneFollows, BeginEnrollmentStored
  <2>8. ASSUME NEW r \in Request, EnableMFA(r) PROVE EnrolmentInv'
    BY <2>0, <2>8, EnableFollows, EnableMFAStored
  <2>9. ASSUME NEW r \in Request, DisableMFA(r) PROVE EnrolmentInv'
    <3>1. Done(r) /\ ClearMFA /\ mfa' = NoSecret
      BY <2>9 DEF DisableMFA, ClearMFA
    <3> QED BY <2>0, <3>1, DoneFollows, DropStored
  <2>10. ASSUME NEW r \in Request, NEW c \in Code, RegenerateCodes(r, c) PROVE EnrolmentInv'
    <3>1. Done(r) /\ mfa' = mfa
      BY <2>10 DEF RegenerateCodes
    <3> QED BY <2>0, <2>10, <3>1, DoneFollows, RegenerateCodesStored
  <2>11. ASSUME NEW p \in Password, RecoverPassword(p) PROVE EnrolmentInv'
    <3>1. UNCHANGED <<mfa, last, pending, codes, used>>
      BY <2>11 DEF RecoverPassword, history
    <3> QED BY <2>0, <2>11, <3>1, PasswordFollows, SameStored
  <2>12. ASSUME ResetMFA \/ \E s \in Session : CancelEnrollment(s) PROVE EnrolmentInv'
    <3>1. req' = req /\ mfa' \in {mfa, NoSecret}
      BY <2>12 DEF ResetMFA, ClearMFA, CancelEnrollment
    <3>2. RequestsFollow'
      BY <3>1 DEF RequestsFollow, Follows
    <3>3. Stored'
      BY <2>0, <2>12, DropStored DEF ResetMFA
    <3> QED BY <3>2, <3>3
  <2>13. ASSUME Tick \/ UNCHANGED vars \/ \E s \in Session : EndSession(s) PROVE EnrolmentInv'
    <3>1. UNCHANGED <<mfa, last, pending, codes, used, req>>
      BY <2>13 DEF Tick, vars, EndSession, db, history
    <3>2. RequestsFollow'
      BY <3>1 DEF RequestsFollow
    <3> QED BY <3>1, <3>2, SameStored
  <2> HIDE DEF EnrolmentInv
  <2> QED BY <2>1, <2>2, <2>3, <2>4, <2>5, <2>6, <2>7, <2>8, <2>9, <2>10, <2>11, <2>12, <2>13
          DEF Next, Proceeds, Reads, Writes
<1> QED BY <1>1, <1>2, Invariant, PTL DEF Spec

\* Recovery codes that work belong to the enabled secret: however cancelling, the
\* terminal and other routes fall between the statements of an enrolment.
THEOREM CodesOfTheEnabled == Spec => []CodesBelongToSecret
<1>1. EnrolmentInv => CodesBelongToSecret
  BY DEF EnrolmentInv, Stored
<1> QED BY <1>1, Enrolment, PTL

\* No TOTP code is accepted twice for an enrolment, not even the one that
\* confirmed it.
THEOREM CodesAreUsedOnce == Spec => TOTPIsSingleUse
<1> DEFINE Once == \A r \in Request, n \in 0..MaxStep :
                     AcceptTOTP(r, n) => <<req[r].secret, n>> \notin used
<1>1. IInv /\ EnrolmentInv => Once
  <2> SUFFICES ASSUME IInv, EnrolmentInv, NEW r \in Request, NEW n \in 0..MaxStep,
                      AcceptTOTP(r, n), <<req[r].secret, n>> \in used
               PROVE  FALSE
    OBVIOUS
  <2>1. req[r].secret = mfa /\ mfa # NoSecret /\ last < n
    BY DEF AcceptTOTP, EnrolmentInv, RequestsFollow, Follows
  <2>2. n <= last /\ last \in Int
    BY <2>1 DEF EnrolmentInv, Stored, UsedUpToLast, IInv, TypeOK
  <2> QED BY <2>1, <2>2
<1>2. IInv /\ EnrolmentInv => [Once]_vars
  BY <1>1
<1> QED BY <1>2, Invariant, Enrolment, PTL DEF TOTPIsSingleUse
=============================================================================
