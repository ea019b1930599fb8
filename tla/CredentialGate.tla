---------------------------- MODULE CredentialGate ----------------------------
(***************************************************************************)
(* Proving who one is: password, second factor and the operations that     *)
(* change them (internal/auth/credentials.go, mfa.go, administration.go,   *)
(* the routes of internal/app/handler.go), for an owner who is set up.     *)
(*                                                                         *)
(* Each of these routes is a series of SQL statements with slow hashing in *)
(* between.  What keeps two of them apart is the single slot of the login  *)
(* throttle, which a route takes or is refused (429) and holds to its end. *)
(* The terminal commands are another process and take no slot, cancelling  *)
(* an enrolment takes none either, and the session data a request works on *)
(* was loaded before it asked for the slot.                                *)
(*                                                                         *)
(* SessionStore has the statements on auth_sessions one by one; here a     *)
(* session is in the table from the step that establishes it.              *)
(***************************************************************************)
EXTENDS Integers

CONSTANTS
  Session,    \* session tokens
  NoSession,
  Password, NoPassword, Secret, NoSecret,
  Code,       \* recovery codes; one stands for the ten of an enrolment
  Request,    \* slots for requests in flight
  Nobody,     \* the throttle's slot is free
  Terminal,   \* whether commands at the terminal run
  MaxStep     \* bound: TOTP steps of 30 s

ASSUME GateAssumption ==
  /\ NoSession \notin Session
  /\ NoSecret \notin Secret
  /\ Nobody \notin Request
  /\ NoPassword \notin Password
  /\ Terminal \in BOOLEAN
  /\ MaxStep \in Nat

VARIABLES
  now,       \* the TOTP step of the wall clock
  password,  \* auth_password_credentials
  mfa,       \* auth_mfa_configuration: the enabled secret or NoSecret
  last,      \* last_totp_step; -1 at first
  pending,   \* the pending secret and the session that asked for it
  codes,     \* auth_recovery_artifacts
  sess,      \* auth_sessions: level, and (history) the password it was signed
             \* in with and how it stands to later passwords
  slot,      \* the throttle's slot
  req,
  proven,    \* history: secrets some code was checked against
  used       \* history: TOTP codes accepted, as <<secret, step>>

vars == <<now, password, mfa, last, pending, codes, sess, slot, req, proven, used>>

db == <<password, mfa, last, pending, codes, sess>>
history == <<proven, used>>

-----------------------------------------------------------------------------
Level == {"none", "pending", "owner"}

Op == {"login", "second", "change", "enroll", "confirm", "disable", "regenerate", "settings"}

\* What a route does next: ask for the slot, check the password, read whether
\* MFA is on, read the secret, check the factor, check the password again,
\* read the pending secret, write, establish a session.
PC == {"idle", "begin", "password", "mode", "secret", "factor", "recheck", "enrollment",
       "write", "challenge", "establish"}

\* "late": the request was in flight when the password was replaced; "kept":
\* the password was replaced from its session; both pass on to the session it
\* establishes.
Mark == {"none", "late", "kept"}

Req == [pc: PC, op: Op, sess: Session \cup {NoSession},
        by: Password \cup {NoPassword}, mark: Mark, secret: Secret \cup {NoSecret}, step: 0..MaxStep]

SessionRow == [level: Level, by: Password \cup {NoPassword}, mark: Mark]

CodeRow == [state: {"none", "pending", "active", "used"}, secret: Secret \cup {NoSecret}]

NoPending == [secret |-> NoSecret, sess |-> NoSession]

TypeOK ==
  /\ now \in 0..MaxStep /\ last \in -1..MaxStep
  /\ password \in Password
  /\ mfa \in Secret \cup {NoSecret}
  /\ pending \in [secret: Secret, sess: Session \cup {NoSession}] \cup {NoPending}
  /\ codes \in [Code -> CodeRow]
  /\ sess \in [Session -> SessionRow]
  /\ slot \in Request \cup {Nobody}
  /\ req \in [Request -> Req]
  /\ proven \subseteq Secret
  /\ used \subseteq (Secret \cup {NoSecret}) \X (0..MaxStep)

NoRow == [level |-> "none", by |-> NoPassword, mark |-> "none"]

NoCode == [state |-> "none", secret |-> NoSecret]

IdleReq == [pc |-> "idle", op |-> "login", sess |-> NoSession,
            by |-> NoPassword, mark |-> "none", secret |-> NoSecret, step |-> 0]

Init ==
  /\ now = 0
  /\ password \in Password
  /\ mfa = NoSecret /\ last = -1 /\ pending = NoPending
  /\ codes = [c \in Code |-> NoCode]
  /\ sess = [s \in Session |-> NoRow]
  /\ slot = Nobody
  /\ req = [r \in Request |-> IdleReq]
  /\ proven = {} /\ used = {}

-----------------------------------------------------------------------------
(* A request and the slot.                                                 *)

Goto(r, pc) == req' = [req EXCEPT ![r].pc = pc]

\* Every return of a route that has the slot runs the deferred release.
Done(r) ==
  /\ req' = [req EXCEPT ![r] = IdleReq]
  /\ slot' = IF slot = r THEN Nobody ELSE slot

\* What authenticationBoundary and the route ask of the loaded session.
Admits(op, level) ==
  \/ op = "login"
  \/ op = "second" /\ level = "pending"
  \/ op \notin {"login", "second"} /\ level = "owner"

\* The session is loaded before the route runs, and not again.
Arrive(r, op, s) ==
  LET row == IF s = NoSession THEN NoRow ELSE sess[s] IN
  /\ req[r].pc = "idle"
  /\ Admits(op, row.level)
  /\ req' = [req EXCEPT ![r] = [pc |-> "begin", op |-> op, sess |-> s, by |-> row.by,
                                mark |-> row.mark, secret |-> NoSecret, step |-> 0]]
  /\ UNCHANGED <<now, db, slot, history>>

First(op) ==
  CASE op = "change"  -> "mode"
    [] op = "second"  -> "secret"
    [] op = "confirm" -> "enrollment"
    [] OTHER          -> "password"

\* Mutant: Begin does not look whether the slot is taken.
MutTakeSlot(r) ==
  /\ req[r].pc = "begin"
  /\ slot' = r
  /\ Goto(r, First(req[r].op))
  /\ UNCHANGED <<now, db, history>>

\* Begin: the slot is taken if it is free.
TakeSlot(r) ==
  /\ req[r].pc = "begin"
  /\ slot = Nobody
  /\ slot' = r
  /\ Goto(r, First(req[r].op))
  /\ UNCHANGED <<now, db, history>>

\* Mutant: a refused request runs the release as well.
MutThrottled(r) ==
  /\ req[r].pc = "begin"
  /\ req' = [req EXCEPT ![r] = IdleReq]
  /\ slot' = Nobody
  /\ UNCHANGED <<now, db, history>>

\* 429: the slot is taken, or the progressive delay is not over.
Throttled(r) ==
  /\ req[r].pc = "begin"
  /\ Done(r)
  /\ UNCHANGED <<now, db, history>>

\* Mutant: an error return without the release.
MutFail(r) ==
  /\ req[r].pc \notin {"idle", "begin", "establish"}
  /\ req' = [req EXCEPT ![r] = IdleReq]
  /\ UNCHANGED <<now, db, slot, history>>

\* Wrong password or factor, nothing to confirm, or an error of a statement.
Fail(r) ==
  /\ req[r].pc \notin {"idle", "begin", "establish"}
  /\ Done(r)
  /\ UNCHANGED <<now, db, history>>

-----------------------------------------------------------------------------
(* Reading and checking.                                                   *)

\* VerifyPassword accepts the password that is stored at its SELECT.
CheckPassword(r) ==
  /\ req[r].pc \in {"password", "recheck"}
  /\ req' = [req EXCEPT
       ![r].by = IF req[r].op = "login" THEN password ELSE @,
       ![r].pc = IF @ = "recheck" THEN "write"
                 ELSE IF req[r].op \in {"login", "enroll", "settings"} THEN "mode" ELSE "secret"]
  /\ UNCHANGED <<now, db, slot, history>>

\* MFAEnabled
ReadMode(r) ==
  LET on == mfa # NoSecret IN
  /\ req[r].pc = "mode"
  /\ Goto(r, CASE req[r].op = "login"  -> IF on THEN "challenge" ELSE "establish"
               [] req[r].op = "change" -> IF on THEN "password" ELSE "recheck"
               [] OTHER                -> IF on THEN "secret" ELSE "write")
  /\ UNCHANGED <<now, db, slot, history>>

\* VerifySecondFactor: the enabled secret is read and decrypted.
ReadSecret(r) ==
  /\ req[r].pc = "secret"
  /\ mfa # NoSecret
  /\ req' = [req EXCEPT ![r].pc = "factor", ![r].secret = mfa]
  /\ UNCHANGED <<now, db, slot, history>>

AfterFactor(op) ==
  CASE op = "second" -> "establish"
    [] op = "change" -> "recheck"
    [] OTHER         -> "write"

\* matchingTOTPStep: the code of this step or of one of its neighbours.
InWindow(n) == now - 1 <= n /\ n <= now + 1

\* Mutant: last_totp_step<=?
MutAcceptTOTP(r, n) ==
  /\ req[r].pc = "factor"
  /\ InWindow(n)
  /\ mfa # NoSecret /\ last <= n
  /\ last' = n
  /\ used' = used \cup {<<req[r].secret, n>>}
  /\ Goto(r, AfterFactor(req[r].op))
  /\ UNCHANGED <<now, password, mfa, pending, codes, sess, slot, proven>>

\* consumeTOTP: UPDATE ... WHERE enabled=1 AND last_totp_step<?
AcceptTOTP(r, n) ==
  /\ req[r].pc = "factor"
  /\ InWindow(n)
  /\ mfa # NoSecret /\ last < n
  /\ last' = n
  /\ used' = used \cup {<<req[r].secret, n>>}
  /\ Goto(r, AfterFactor(req[r].op))
  /\ UNCHANGED <<now, password, mfa, pending, codes, sess, slot, proven>>

\* A recovery code: the UPDATE repeats consumed_at IS NULL, so the SELECT that
\* finds the row is part of the same step.
AcceptCode(r, c) ==
  /\ req[r].pc = "factor"
  /\ codes[c].state = "active"
  /\ codes' = [codes EXCEPT ![c].state = "used"]
  /\ Goto(r, AfterFactor(req[r].op))
  /\ UNCHANGED <<now, password, mfa, last, pending, sess, slot, history>>

\* ConfirmMFAEnrollment reads the pending secret of its session and matches
\* the code against it.
ReadEnrollment(r, n) ==
  /\ req[r].pc = "enrollment"
  /\ pending.secret # NoSecret /\ pending.sess = req[r].sess
  /\ InWindow(n)
  /\ req' = [req EXCEPT ![r].pc = "write", ![r].secret = pending.secret, ![r].step = n]
  /\ proven' = proven \cup {pending.secret}
  /\ UNCHANGED <<now, db, slot, used>>

-----------------------------------------------------------------------------
(* Writing.                                                                *)

\* A token nothing refers to any more stands for a new random one.
FreshSession(u) ==
  /\ sess[u].level = "none"
  /\ pending.sess # u
  /\ \A r \in Request : req[r].sess # u

FreshSecret(s) == s # mfa /\ s # pending.secret /\ \A r \in Request : req[r].secret # s

\* RenewToken and the commit: the old session is revoked, u takes its place.
Sign(r, u, level) ==
  /\ FreshSession(u)
  /\ sess' = [s \in Session |->
       IF s = u THEN [level |-> level, by |-> req[r].by, mark |-> req[r].mark]
       ELSE IF s = req[r].sess THEN NoRow ELSE sess[s]]
  /\ Done(r)
  /\ UNCHANGED <<now, password, mfa, last, pending, codes, history>>

\* Login with MFA on ends in a pending session.
Challenge(r, u) == req[r].pc = "challenge" /\ Sign(r, u, "pending")

Establish(r, u) == req[r].pc = "establish" /\ Sign(r, u, "owner")

\* An error of establish.  After RenewToken, or when CompleteMFA or ChangePassword
\* still reach the table, the old session has ended; when the request is
\* cancelled, Destroy and the commit fail as RenewToken did.  (Data that had
\* moved to a new token is followed in SessionStore, not here.)
EstablishFails(r) ==
  /\ req[r].pc = "establish"
  /\ \/ UNCHANGED sess
     \/ /\ req[r].sess # NoSession
        /\ sess' = [sess EXCEPT ![req[r].sess] = NoRow]
  /\ Done(r)
  /\ UNCHANGED <<now, password, mfa, last, pending, codes, history>>

Writing(r, op) == req[r].pc = "write" /\ req[r].op = op

\* Mutant: only sessions that are signed in are revoked.
MutRevokeAll == sess' = [s \in Session |-> IF sess[s].level = "owner" THEN NoRow ELSE sess[s]]

\* UPDATE auth_sessions SET revoked_at=? WHERE revoked_at IS NULL
RevokeAll == sess' = [s \in Session |-> NoRow]

\* The requests in flight when the password is replaced from session s.
Overtaken(s) ==
  [q \in Request |->
     IF req[q].pc = "idle" THEN req[q]
     ELSE [req[q] EXCEPT !.mark = IF s # NoSession /\ req[q].sess = s THEN "kept" ELSE "late"]]

\* replacePassword, on behalf of the session r carries, which is rotated next.
ReplacePassword(r, p) ==
  /\ Writing(r, "change")
  /\ password' = p
  /\ sess' = [s \in Session |-> IF s = req[r].sess /\ sess[s].level # "none"
                                THEN [sess[s] EXCEPT !.mark = "kept"] ELSE NoRow]
  /\ req' = [Overtaken(req[r].sess) EXCEPT
              ![r] = [req[r] EXCEPT !.pc = "establish", !.by = p, !.mark = "none"]]
  /\ UNCHANGED <<now, mfa, last, pending, codes, slot, history>>

DropCodes(states) ==
  [c \in Code |-> IF codes[c].state \in states THEN NoCode ELSE codes[c]]

\* BeginMFAEnrollment stores a new pending secret and its recovery codes.
BeginEnrollment(r, s, c) ==
  /\ Writing(r, "enroll")
  /\ FreshSecret(s)
  /\ codes[c].state = "none"
  /\ pending' = [secret |-> s, sess |-> req[r].sess]
  /\ codes' = [DropCodes({"pending"}) EXCEPT ![c] = [state |-> "pending", secret |-> s]]
  /\ proven' = proven \ {s}
  /\ used' = {f \in used : f[1] # s}
  /\ Done(r)
  /\ UNCHANGED <<now, password, mfa, last, sess>>

\* Mutant: the recovery codes of the earlier enrolment are not deleted.
MutEnableMFA(r) ==
  /\ Writing(r, "confirm")
  /\ pending.secret # NoSecret /\ pending.sess = req[r].sess
  /\ mfa' = pending.secret
  /\ last' = req[r].step
  /\ used' = used \cup {<<req[r].secret, req[r].step>>}
  /\ pending' = NoPending
  /\ codes' = [c \in Code |-> IF codes[c].state = "pending"
                              THEN [codes[c] EXCEPT !.state = "active"] ELSE codes[c]]
  /\ Goto(r, "establish")
  /\ UNCHANGED <<now, password, sess, slot, proven>>

\* ConfirmMFAEnrollment's transaction enables whatever secret is pending for
\* the session by now; the session is rotated next.
EnableMFA(r) ==
  /\ Writing(r, "confirm")
  /\ pending.secret # NoSecret /\ pending.sess = req[r].sess
  /\ mfa' = pending.secret
  /\ last' = req[r].step
  /\ used' = used \cup {<<req[r].secret, req[r].step>>}
  /\ pending' = NoPending
  /\ codes' = [c \in Code |-> IF codes[c].state = "pending"
                              THEN [codes[c] EXCEPT !.state = "active"] ELSE NoCode]
  /\ Goto(r, "establish")
  /\ UNCHANGED <<now, password, sess, slot, proven>>

\* Mutant: pending_session_hash stays.
MutCancelEnrollment(s) ==
  /\ pending.sess = s
  /\ pending' = [pending EXCEPT !.secret = NoSecret]
  /\ codes' = DropCodes({"pending"})
  /\ UNCHANGED <<now, password, mfa, last, sess, slot, req, history>>

\* CancelMFAEnrollment: one transaction, no slot.
CancelEnrollment(s) ==
  /\ pending.sess = s
  /\ pending' = NoPending
  /\ codes' = DropCodes({"pending"})
  /\ UNCHANGED <<now, password, mfa, last, sess, slot, req, history>>

\* The configuration and every code are deleted, every session is revoked.
ClearMFA ==
  /\ mfa' = NoSecret /\ last' = -1 /\ pending' = NoPending
  /\ codes' = [c \in Code |-> NoCode]
  /\ RevokeAll
  /\ UNCHANGED <<now, password, history>>

DisableMFA(r) == Writing(r, "disable") /\ ClearMFA /\ Done(r)

RegenerateCodes(r, c) ==
  /\ Writing(r, "regenerate")
  /\ codes[c].state = "none"
  /\ codes' = [DropCodes({"active", "used"}) EXCEPT
                 ![c] = [state |-> "active", secret |-> req[r].secret]]
  /\ Done(r)
  /\ UNCHANGED <<now, password, mfa, last, pending, sess, history>>

\* Session durations only matter to sessions established later.
UpdateSettings(r) ==
  /\ Writing(r, "settings")
  /\ Done(r)
  /\ UNCHANGED <<now, db, history>>

-----------------------------------------------------------------------------
(* Without the slot: the terminal, and routes that only end sessions.      *)

RecoverPassword(p) ==
  /\ Terminal
  /\ password' = p
  /\ RevokeAll
  /\ req' = Overtaken(NoSession)
  /\ UNCHANGED <<now, mfa, last, pending, codes, slot, history>>

ResetMFA == Terminal /\ ClearMFA /\ UNCHANGED <<slot, req>>

\* Logout, revocation of one session or of the others, expiry.
EndSession(s) ==
  /\ sess[s].level # "none"
  /\ sess' = [sess EXCEPT ![s] = NoRow]
  /\ UNCHANGED <<now, password, mfa, last, pending, codes, slot, req, history>>

Tick ==
  /\ now < MaxStep
  /\ now' = now + 1
  /\ UNCHANGED <<db, slot, req, history>>

-----------------------------------------------------------------------------
Reads(r) ==
  \/ CheckPassword(r) \/ ReadMode(r) \/ ReadSecret(r)
  \/ \E n \in 0..MaxStep : AcceptTOTP(r, n) \/ ReadEnrollment(r, n)
  \/ \E c \in Code : AcceptCode(r, c)

Writes(r) ==
  \/ \E u \in Session : Challenge(r, u) \/ Establish(r, u)
  \/ EstablishFails(r)
  \/ \E p \in Password : ReplacePassword(r, p)
  \/ \E s \in Secret, c \in Code : BeginEnrollment(r, s, c)
  \/ EnableMFA(r)
  \/ DisableMFA(r)
  \/ \E c \in Code : RegenerateCodes(r, c)
  \/ UpdateSettings(r)

\* What a route with the slot may do next.
Proceeds(r) == Reads(r) \/ Writes(r) \/ Fail(r)

Next ==
  \/ \E r \in Request :
       \/ \E op \in Op, s \in Session \cup {NoSession} : Arrive(r, op, s)
       \/ TakeSlot(r) \/ Throttled(r)
       \/ Proceeds(r)
  \/ \E s \in Session : CancelEnrollment(s) \/ EndSession(s)
  \/ \E p \in Password : RecoverPassword(p)
  \/ ResetMFA
  \/ Tick

Spec == Init /\ [][Next]_vars

\* A running handler goes on: it takes its slot or is refused, and reaches a
\* return.
Fairness == \A r \in Request : WF_vars(TakeSlot(r) \/ Throttled(r)) /\ WF_vars(Proceeds(r))

FairSpec == Spec /\ Fairness

-----------------------------------------------------------------------------
(* Properties.                                                             *)

\* The password alone signs nobody in once MFA is on: a login that read "MFA
\* is off" and is about to establish a session is never overtaken by the
\* confirmation of an enrolment (the slot in beginCredentialAttempt).
PasswordAloneOnlyWithoutMFA ==
  \A r \in Request : req[r].pc = "establish" /\ req[r].op = "login" => mfa = NoSecret

\* The secret that is enabled is one the owner has shown a code of, so a device
\* without it is never what sign-in asks for (ConfirmMFAEnrollment enables
\* whatever is pending in a later statement than the one that read it).
EnabledSecretIsProven == mfa # NoSecret => mfa \in proven

\* Recovery codes that work belong to the secret that is enabled, not to an
\* earlier enrolment or one that was never confirmed.
CodesBelongToSecret ==
  mfa # NoSecret => \A c \in Code : codes[c].state = "active" => codes[c].secret = mfa

\* No TOTP code is accepted twice, neither to confirm and then to sign in, nor
\* across clock steps and re-enrolment (last_totp_step).
TOTPIsSingleUse ==
  [][\A r \in Request, n \in 0..MaxStep : AcceptTOTP(r, n) => <<req[r].secret, n>> \notin used]_vars

\* A session, signed in or halfway, began with the password that is valid now,
\* unless the request that established it was in flight when the password was
\* replaced, or the password was changed from it (replacePassword,
\* RecoverPassword; both revoke in the transaction that writes the password).
OnlyLateSessionsOutliveThePassword ==
  \A s \in Session :
    sess[s].level # "none" /\ sess[s].mark = "none" => sess[s].by = password

\* docs/security/local-authentication-setup.md:71: a password change "revokes
\* all other sessions by default".  A request whose session was loaded before the
\* change and that gets the slot after it still establishes a session: CompleteMFA
\* and RotateCurrent look at the loaded data only.
PasswordChangeEndsOtherSessions ==
  \A s \in Session :
    sess[s].level = "owner" /\ sess[s].mark # "kept" => sess[s].by = password

\* internal/auth/sessions.go:162: "Do not leave the old session alive if rotating
\* it unexpectedly fails."  Destroy works with the context whose cancellation
\* made RenewToken fail.
ChangedSessionIsRotated ==
  \A s \in Session : sess[s].mark = "kept" =>
    \E r \in Request : req[r].sess = s /\ req[r].op = "change" /\ req[r].pc = "establish"

\* The slot comes back: no return of a route keeps it, so credential checks are
\* refused only while one is running.
SlotComesBack == \A r \in Request : slot = r ~> slot # r
=============================================================================
