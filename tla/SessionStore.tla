---------------------------- MODULE SessionStore ----------------------------
(***************************************************************************)
(* The browser sessions of the Go backend: the SQLite table auth_sessions, *)
(* the session store over it (internal/auth/sessions.go), the              *)
(* administrative statements that revoke sessions                          *)
(* (internal/auth/administration.go), and the session manager (scs) that   *)
(* loads a session when a request arrives and commits it when the response *)
(* is written.                                                             *)
(*                                                                         *)
(* The database has one connection, so statements run one at a time, but   *)
(* nothing holds it between two statements of a request: every SQL         *)
(* statement is one action, and requests interleave between them.  A       *)
(* session token is as good as its SHA-256 hash, the table's key.          *)
(***************************************************************************)
EXTENDS Naturals

CONSTANTS
  Token,            \* random session tokens the process may ever draw
  NoToken,          \* the request carries no usable session
  Request,          \* slots for requests in flight
  IdleWindow,       \* idle expiry, in clock units (idle_hours)
  ActivityInterval, \* sessionActivityWriteInterval, in clock units
  Lifetime,         \* absolute lifetime of a session, by level; the one of "none"
                    \* is the manager's, which RenewToken sets first
  MaxClock          \* bound: the clock stops here

Level == {"none", "pending", "owner"}

ASSUME SessionAssumption ==
  /\ NoToken \notin Token
  /\ IdleWindow \in Nat \ {0}
  /\ ActivityInterval \in Nat \ {0}
  /\ Lifetime \in [Level -> Nat \ {0}]
  /\ MaxClock \in Nat

VARIABLES
  now,    \* the wall clock
  rows,   \* auth_sessions: token -> row
  req,    \* requests in flight
  birth,  \* what was fixed when a token was drawn; NoBirth before that
  ended   \* history: tokens some statement has revoked

vars == <<now, rows, req, birth, ended>>

-----------------------------------------------------------------------------
Row == [state: {"absent", "live", "revoked"},
        level: Level, active: Nat, idle: Nat, abs: Nat]

NoRow == [state |-> "absent", level |-> "none", active |-> 0, idle |-> 0, abs |-> 0]

\* Where a request is: between requests, between the SELECT and the UPDATE of
\* FindCtx, in its handler, between the two halves of a handler that first
\* revokes and then renews or destroys, before the commit, and between the
\* DELETE and the INSERT of CommitCtx.
PC == {"idle", "touch", "serving", "rotating", "destroying", "commit", "upsert"}

\* tok, level and deadline are the session data scs keeps for the request; it
\* is marked modified exactly when there is a token.  at is the time a
\* two-statement store operation read on entry, 0 outside of one.
Req == [pc: PC, tok: Token \cup {NoToken}, level: Level, deadline: Nat, at: Nat]

IdleReq == [pc |-> "idle", tok |-> NoToken, level |-> "none", deadline |-> 0, at |-> 0]

NoBirth == [drawn |-> FALSE, level |-> "none", deadline |-> 0]

Birth == [drawn: BOOLEAN, level: Level, deadline: Nat]

TypeOK ==
  /\ now \in 0..MaxClock
  /\ rows \in [Token -> Row]
  /\ req \in [Request -> Req]
  /\ birth \in [Token -> Birth]
  /\ ended \subseteq Token

Init ==
  /\ now = 0
  /\ rows = [t \in Token |-> NoRow]
  /\ req = [r \in Request |-> IdleReq]
  /\ birth = [t \in Token |-> NoBirth]
  /\ ended = {}

-----------------------------------------------------------------------------
Lesser(a, b) == IF a < b THEN a ELSE b

\* The conditions every lookup repeats: idle_expires_at > ? AND absolute_expires_at > ?
Unexpired(row, time) == time < row.idle /\ time < row.abs

\* Mutant of Usable: AND revoked_at IS NULL is missing.
MutUsable(row, time) == row.state # "absent" /\ Unexpired(row, time)

Usable(row, time) == row.state = "live" /\ Unexpired(row, time)

Live(t) == Usable(rows[t], now)

\* Mutant of Revoke: the wrong column.
MutRevoke(S) ==
  /\ rows' = [t \in Token |-> IF t \in S /\ rows[t].state = "live"
                              THEN [rows[t] EXCEPT !.level = "revoked"]
                              ELSE rows[t]]
  /\ ended' = ended \cup {t \in S : rows[t].state = "live"}

\* UPDATE auth_sessions SET revoked_at=? over the tokens in S.
Revoke(S) ==
  /\ rows' = [t \in Token |-> IF t \in S /\ rows[t].state = "live"
                              THEN [rows[t] EXCEPT !.state = "revoked"]
                              ELSE rows[t]]
  /\ ended' = ended \cup {t \in S : rows[t].state = "live"}

Goto(r, pc) == req' = [req EXCEPT ![r].pc = pc]

Finish(r) == req' = [req EXCEPT ![r] = IdleReq]

\* The empty session scs hands out when FindCtx finds nothing.
EmptySession ==
  [pc |-> "serving", tok |-> NoToken, level |-> "none",
   deadline |-> now + Lifetime["none"], at |-> 0]

Anonymous(r) == req' = [req EXCEPT ![r] = EmptySession]

-----------------------------------------------------------------------------
(* Loading: SessionManager.Load and FindCtx.                               *)

\* A request arrives with the cookie of a token that was handed out, or
\* without one, and FindCtx runs its SELECT.
Arrive(r, t) ==
  /\ req[r].pc = "idle"
  /\ IF t # NoToken /\ birth[t].drawn /\ Live(t)
     THEN LET fresh == now < rows[t].active + ActivityInterval IN
          req' = [req EXCEPT ![r] =
            [pc |-> IF fresh THEN "serving" ELSE "touch", tok |-> t,
             level |-> rows[t].level, deadline |-> rows[t].abs,
             at |-> IF fresh THEN 0 ELSE now]]
     ELSE Anonymous(r)
  /\ UNCHANGED <<now, rows, birth, ended>>

\* FindCtx, second statement: refresh the activity of a session that was
\* last used an interval ago.  No matching row means no session.
Touch(r) ==
  LET t == req[r].tok IN
  /\ req[r].pc = "touch"
  /\ IF Usable(rows[t], req[r].at)
     THEN /\ rows' = [rows EXCEPT ![t].active = req[r].at,
                                  ![t].idle = Lesser(req[r].at + IdleWindow, rows[t].abs)]
          /\ req' = [req EXCEPT ![r].pc = "serving", ![r].at = 0]
     ELSE Anonymous(r) /\ UNCHANGED rows
  /\ UNCHANGED <<now, birth, ended>>

-----------------------------------------------------------------------------
(* Handlers.                                                               *)

\* A handler that reads, or writes elsewhere.  Loading a session marked it
\* modified (the manager has an idle timeout), so it is committed all the same.
Serve(r) ==
  /\ req[r].pc = "serving"
  /\ Goto(r, "commit")
  /\ UNCHANGED <<now, rows, birth, ended>>

\* Mutant of Renew: the session is promoted under the token it already has.
MutRenew(r, u, level, deadline) ==
  LET t == IF req[r].tok = NoToken THEN u ELSE req[r].tok IN
  /\ ~birth[u].drawn
  /\ req' = [req EXCEPT ![r] = [pc |-> "commit", tok |-> t, level |-> level,
                                deadline |-> deadline, at |-> 0]]
  /\ birth' = IF t # u THEN birth
              ELSE [birth EXCEPT ![u] = [drawn |-> TRUE, level |-> level, deadline |-> deadline]]
  /\ UNCHANGED <<now, rows, ended>>

\* RenewToken: the old row is revoked and the session goes on under token u.
Renew(r, u, level, deadline) ==
  /\ ~birth[u].drawn
  /\ Revoke({req[r].tok} \ {NoToken})
  /\ req' = [req EXCEPT ![r] = [pc |-> "commit", tok |-> u, level |-> level,
                                deadline |-> deadline, at |-> 0]]
  /\ birth' = [birth EXCEPT ![u] = [drawn |-> TRUE, level |-> level, deadline |-> deadline]]
  /\ UNCHANGED now

\* Password accepted while MFA is on: a short-lived pending session.
StartMFA(r, u) ==
  /\ req[r].pc = "serving"
  /\ Renew(r, u, "pending", now + Lifetime["pending"])

\* establish: login, setup, the second factor, rotation, and the second half
\* of a password change all end here.
Establish(r, u) ==
  /\ req[r].pc \in {"serving", "rotating"}
  /\ Renew(r, u, "owner", now + Lifetime["owner"])

\* establish fails reading the session settings: the token and the lifetime are
\* already renewed and the old contents are committed with the error response
\* (CompleteMFA has removed the pending mark by then, Login has not).
EstablishFails(r, u) ==
  /\ req[r].pc = "serving"
  /\ \E level \in Level :
       /\ level \in {req[r].level, IF req[r].level = "pending" THEN "none" ELSE req[r].level}
       /\ Renew(r, u, level, now + Lifetime["none"])

\* Destroy: logout, "revoke current", the second half of RevokeAll, and a
\* password change whose rotation failed.
Destroy(r) ==
  /\ \/ req[r].pc = "serving" /\ req[r].level = "owner"
     \/ req[r].pc \in {"rotating", "destroying"}
  /\ Revoke({req[r].tok} \ {NoToken})
  /\ Finish(r)
  /\ UNCHANGED <<now, birth>>

RevokeSession(r, t) ==
  /\ req[r].pc = "serving" /\ req[r].level = "owner"
  /\ t # req[r].tok
  /\ Revoke({t})
  /\ Goto(r, "commit")
  /\ UNCHANGED <<now, birth>>

RevokeOtherSessions(r) ==
  /\ req[r].pc = "serving" /\ req[r].level = "owner"
  /\ Revoke(Token \ {req[r].tok})
  /\ Goto(r, "commit")
  /\ UNCHANGED <<now, birth>>

RevokeAll(r) ==
  /\ req[r].pc = "serving" /\ req[r].level = "owner"
  /\ Revoke(Token)
  /\ Goto(r, "destroying")
  /\ UNCHANGED <<now, birth>>

\* replacePassword's transaction on behalf of a signed-in request.
ReplacePassword(r) ==
  /\ req[r].pc = "serving" /\ req[r].level = "owner"
  /\ Revoke(Token \ {req[r].tok})
  /\ Goto(r, "rotating")
  /\ UNCHANGED <<now, birth>>

\* reset-password and reset-mfa at the terminal: another process.
RecoverCredentials ==
  /\ Revoke(Token)
  /\ UNCHANGED <<now, req, birth>>

-----------------------------------------------------------------------------
(* Committing: SessionManager.Commit and CommitCtx.                        *)

\* An unmodified session is not written.
SkipCommit(r) ==
  /\ req[r].pc = "commit" /\ req[r].tok = NoToken
  /\ Finish(r)
  /\ UNCHANGED <<now, rows, birth, ended>>

\* Mutant of CommitPrune: idle expiry compared with the wrong sign of the
\* window, so sessions that merely went unused for a while are deleted.
MutCommitPrune(r) ==
  /\ req[r].pc = "commit" /\ req[r].tok # NoToken
  /\ rows' = [t \in Token |->
                IF t = req[r].tok \/ (Usable(rows[t], now) /\ now <= rows[t].active)
                THEN rows[t] ELSE NoRow]
  /\ req' = [req EXCEPT ![r].pc = "upsert", ![r].at = now]
  /\ UNCHANGED <<now, birth, ended>>

\* CommitCtx, first statement: delete every other row that no longer grants
\* access.
CommitPrune(r) ==
  /\ req[r].pc = "commit" /\ req[r].tok # NoToken
  /\ rows' = [t \in Token |->
                IF t = req[r].tok \/ Usable(rows[t], now) THEN rows[t] ELSE NoRow]
  /\ req' = [req EXCEPT ![r].pc = "upsert", ![r].at = now]
  /\ UNCHANGED <<now, birth, ended>>

\* CommitCtx, second statement: INSERT ... ON CONFLICT DO UPDATE ... WHERE.
\* A row that fails the WHERE makes the commit fail with errSessionInactive.
CommitUpsert(r) ==
  LET t == req[r].tok
      committed == [state |-> "live", level |-> req[r].level, active |-> req[r].at,
                    idle |-> Lesser(req[r].at + IdleWindow, req[r].deadline),
                    abs |-> req[r].deadline]
  IN
  /\ req[r].pc = "upsert"
  /\ rows' = IF rows[t].state = "absent" \/ Usable(rows[t], req[r].at)
             THEN [rows EXCEPT ![t] = committed] ELSE rows
  /\ Finish(r)
  /\ UNCHANGED <<now, birth, ended>>

\* The client goes away, the process stops or a statement fails: the request
\* ends where it is, and no later statement of it runs.
Abort(r) ==
  /\ req[r].pc # "idle"
  /\ Finish(r)
  /\ UNCHANGED <<now, rows, birth, ended>>

Tick ==
  /\ now < MaxClock
  /\ now' = now + 1
  /\ UNCHANGED <<rows, req, birth, ended>>

-----------------------------------------------------------------------------
Step(r) ==
  \/ \E t \in Token \cup {NoToken} : Arrive(r, t)
  \/ Touch(r)
  \/ Serve(r)
  \/ \E u \in Token : StartMFA(r, u) \/ Establish(r, u) \/ EstablishFails(r, u)
  \/ Destroy(r)
  \/ \E t \in Token : RevokeSession(r, t)
  \/ RevokeOtherSessions(r)
  \/ RevokeAll(r)
  \/ ReplacePassword(r)
  \/ SkipCommit(r)
  \/ CommitPrune(r)
  \/ CommitUpsert(r)
  \/ Abort(r)

Next ==
  \/ \E r \in Request : Step(r)
  \/ RecoverCredentials
  \/ Tick

Spec == Init /\ [][Next]_vars

-----------------------------------------------------------------------------
(* Properties.                                                             *)

Carries(r, t) == req[r].tok = t

\* What a token grants is fixed when it is drawn.  No row and no request in
\* flight ever holds a token at another level or with another absolute
\* deadline, however stale the data a slow request commits: a token known
\* before sign-in never becomes a signed-in one, and activity never stretches
\* a session past its deadline (establish, FindCtx, CommitCtx).
FixedAtBirth ==
  /\ \A t \in Token : rows[t].state # "absent" =>
       /\ birth[t].drawn
       /\ rows[t].level = birth[t].level
       /\ rows[t].abs = birth[t].deadline
       /\ rows[t].idle <= birth[t].deadline
  /\ \A r \in Request : req[r].tok # NoToken =>
       /\ birth[req[r].tok].drawn
       /\ req[r].level = birth[req[r].tok].level
       /\ req[r].deadline = birth[req[r].tok].deadline

\* A revoked session that no request in flight still carries.
Dead(t) ==
  /\ t \in ended
  /\ rows[t].state # "live"
  /\ \A r \in Request : ~Carries(r, t)

\* Dead sessions stay dead: whatever later requests, commits, prunings and
\* revocations do, in any order, a revoked token that no request in flight
\* carries is never accepted again.
DeadStaysDead == [][\A t \in Token : Dead(t) => Dead(t)']_vars

\* A session that grants access stops doing so only because some statement
\* revoked it or because time passed: no commit, pruning or renewal of another
\* session, however stale, takes it away (CommitCtx, FindCtx).  The one other
\* way is a commit of the session itself that was held up for an idle window
\* and writes back the older idle expiry.
EndsOnlyByRevocation ==
  [][\A t \in Token : Live(t) /\ ~Live(t)' =>
       \/ t \in ended'
       \/ now' # now
       \/ \E r \in Request : Carries(r, t) /\ req[r].at + IdleWindow <= now]_vars

\* sessions.go:329-332: the upsert prevents "a stale request from recreating an
\* expired or revoked session".
NeverRecreated == \A t \in ended : ~Live(t)
=============================================================================
