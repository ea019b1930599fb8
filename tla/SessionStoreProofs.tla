------------------------- MODULE SessionStoreProofs -------------------------
(***************************************************************************)
(* Theorems about SessionStore, for any set of tokens and of requests, any *)
(* lifetimes and any idle window.                                          *)
(***************************************************************************)
EXTENDS SessionStore, TLAPS

-----------------------------------------------------------------------------
(* Facts about the building blocks of the actions.                         *)

\* The smaller of two numbers is one of them and at most either (the idle
\* expiry is capped by the absolute one).
LEMMA LesserFact ==
  ASSUME NEW a \in Nat, NEW b \in Nat
  PROVE  Lesser(a, b) \in Nat /\ Lesser(a, b) <= a /\ Lesser(a, b) <= b
  BY DEF Lesser

\* Revoking keeps every row well formed, changes nothing but its state, and
\* turns no row live.
LEMMA RevokeFact ==
  ASSUME TypeOK, NEW S \in SUBSET Token, Revoke(S)
  PROVE  /\ rows' \in [Token -> Row]
         /\ ended' \in SUBSET Token
         /\ \A t \in Token : /\ rows'[t].level = rows[t].level
                             /\ rows'[t].abs = rows[t].abs
                             /\ rows'[t].idle = rows[t].idle
                             /\ (rows'[t].state = "absent") <=> (rows[t].state = "absent")
                             /\ (rows'[t].state = "live") => (rows[t].state = "live")
         /\ ended \subseteq ended'
         /\ \A t \in ended' : t \in ended \/ rows[t].state = "live"
<1>1. \A t \in Token : /\ rows'[t] \in Row
                       /\ rows'[t].level = rows[t].level
                       /\ rows'[t].abs = rows[t].abs
                       /\ rows'[t].idle = rows[t].idle
                       /\ (rows'[t].state = "absent") <=> (rows[t].state = "absent")
                       /\ (rows'[t].state = "live") => (rows[t].state = "live")
  <2> TAKE t \in Token
  <2>1. rows[t] \in Row
    BY DEF TypeOK
  <2>2. \/ rows'[t] = rows[t]
        \/ rows[t].state = "live" /\ rows'[t] = [rows[t] EXCEPT !.state = "revoked"]
    BY DEF Revoke
  <2> QED BY <2>1, <2>2 DEF Row
<1>2. rows' \in [Token -> Row]
  BY <1>1 DEF Revoke
<1>3. /\ ended' \in SUBSET Token /\ ended \subseteq ended'
      /\ \A t \in ended' : t \in ended \/ rows[t].state = "live"
  BY DEF Revoke, TypeOK
<1> QED BY <1>1, <1>2, <1>3

\* The blank values are well formed.
LEMMA BlankFact == IdleReq \in Req /\ NoRow \in Row /\ NoBirth \in Birth
  BY DEF IdleReq, NoRow, NoBirth, Req, Row, Birth, PC, Level

\* A request that moves on, ends, or is handed an empty session keeps the
\* table of requests well formed.
LEMMA GotoType ==
  ASSUME TypeOK, NEW r \in Request, NEW pc \in PC, Goto(r, pc)
  PROVE  req' \in [Request -> Req]
  BY DEF TypeOK, Goto, Req

\* Ending a request keeps the table of requests well formed.
LEMMA FinishType ==
  ASSUME TypeOK, NEW r \in Request, Finish(r)
  PROVE  req' \in [Request -> Req]
  BY BlankFact DEF TypeOK, Finish

\* So does handing out the empty session.
LEMMA AnonymousType ==
  ASSUME TypeOK, NEW r \in Request, Anonymous(r)
  PROVE  req' \in [Request -> Req]
<1>1. now + Lifetime["none"] \in Nat
  BY SessionAssumption DEF TypeOK, Level
<1>2. EmptySession \in Req
  BY <1>1 DEF EmptySession, Req, PC, Level
<1> QED BY <1>2 DEF TypeOK, Anonymous

\* What renewing a token does to the types.
LEMMA RenewType ==
  ASSUME TypeOK, NEW r \in Request, NEW u \in Token, NEW level \in Level,
         NEW deadline \in Nat, Renew(r, u, level, deadline)
  PROVE  TypeOK'
<1>1. {req[r].tok} \ {NoToken} \in SUBSET Token
  BY DEF TypeOK, Req
<1>2. rows' \in [Token -> Row] /\ ended' \in SUBSET Token
  BY <1>1, RevokeFact DEF Renew
<1>3. req' \in [Request -> Req]
  BY DEF Renew, TypeOK, Req, PC
<1>4. birth' \in [Token -> Birth] /\ now' = now
  BY DEF Renew, TypeOK, Birth
<1> QED BY <1>2, <1>3, <1>4 DEF TypeOK

-----------------------------------------------------------------------------
(* Types.                                                                  *)

\* Every step keeps the types: one case per action.
LEMMA TypeStep == TypeOK /\ [Next]_vars => TypeOK'
<1> SUFFICES ASSUME TypeOK, [Next]_vars PROVE TypeOK'
  OBVIOUS
<1>1. ASSUME NEW r \in Request, NEW t \in Token \cup {NoToken}, Arrive(r, t)
      PROVE TypeOK'
  <2>1. CASE Anonymous(r)
    BY <1>1, <2>1, AnonymousType DEF Arrive, TypeOK
  <2>2. CASE t # NoToken /\ ~Anonymous(r)
    <3>1. t \in Token /\ rows[t] \in Row /\ now \in Nat
      BY <2>2 DEF TypeOK
    <3> QED BY <1>1, <2>2, <3>1 DEF Arrive, TypeOK, Row, Req, PC
  <2> QED BY <1>1, <2>1, <2>2 DEF Arrive
<1>2. ASSUME NEW r \in Request, Touch(r) PROVE TypeOK'
  <2>1. CASE Usable(rows[req[r].tok], req[r].at)
    <3>1. req[r].tok \in Token \cup {NoToken} /\ req[r].at + IdleWindow \in Nat /\ req[r].at \in Nat
      BY SessionAssumption DEF TypeOK, Req
    <3>2. ASSUME req[r].tok \in Token PROVE rows' \in [Token -> Row]
      <4>1. Lesser(req[r].at + IdleWindow, rows[req[r].tok].abs) \in Nat
        BY <3>1, <3>2, LesserFact DEF TypeOK, Row
      <4> QED BY <1>2, <2>1, <3>1, <3>2, <4>1 DEF Touch, TypeOK, Row
    <3>3. ASSUME req[r].tok \notin Token PROVE rows' \in [Token -> Row]
      BY <1>2, <2>1, <3>3 DEF Touch, TypeOK
    <3>4. req' \in [Request -> Req]
      BY <1>2, <2>1 DEF Touch, TypeOK, Req, PC
    <3> QED BY <1>2, <3>2, <3>3, <3>4 DEF Touch, TypeOK
  <2>2. CASE ~Usable(rows[req[r].tok], req[r].at)
    BY <1>2, <2>2, AnonymousType DEF Touch, TypeOK
  <2> QED BY <2>1, <2>2
<1>3. ASSUME NEW r \in Request, Serve(r) PROVE TypeOK'
  BY <1>3, GotoType DEF Serve, TypeOK, PC
<1>4. ASSUME NEW r \in Request, NEW u \in Token, StartMFA(r, u) \/ Establish(r, u)
      PROVE TypeOK'
  <2>1. now + Lifetime["pending"] \in Nat /\ now + Lifetime["owner"] \in Nat
    BY SessionAssumption DEF TypeOK, Level
  <2> QED BY <1>4, <2>1, RenewType DEF StartMFA, Establish, Level
<1>5. ASSUME NEW r \in Request, NEW u \in Token, EstablishFails(r, u)
      PROVE TypeOK'
  <2>1. now + Lifetime["none"] \in Nat
    BY SessionAssumption DEF TypeOK, Level
  <2> QED BY <1>5, <2>1, RenewType DEF EstablishFails
<1>6. ASSUME NEW r \in Request, Destroy(r) PROVE TypeOK'
  <2>1. {req[r].tok} \ {NoToken} \in SUBSET Token
    BY DEF TypeOK, Req
  <2> QED BY <1>6, <2>1, RevokeFact, FinishType DEF Destroy, TypeOK
<1>7. ASSUME NEW r \in Request,
             \/ \E t \in Token : RevokeSession(r, t)
             \/ RevokeOtherSessions(r) \/ RevokeAll(r) \/ ReplacePassword(r)
      PROVE TypeOK'
  <2>1. PICK S \in SUBSET Token, pc \in PC :
          Revoke(S) /\ Goto(r, pc) /\ UNCHANGED <<now, birth>>
    BY <1>7 DEF RevokeSession, RevokeOtherSessions, RevokeAll, ReplacePassword, PC
  <2> QED BY <2>1, RevokeFact, GotoType DEF TypeOK
<1>8. ASSUME NEW r \in Request, CommitPrune(r) PROVE TypeOK'
  <2>1. rows' \in [Token -> Row]
    BY <1>8, BlankFact DEF CommitPrune, TypeOK
  <2>2. now \in Nat /\ req[r] \in Req
    BY SessionAssumption DEF TypeOK
  <2>3. [req[r] EXCEPT !.pc = "upsert", !.at = now] \in Req
    BY <2>2 DEF Req, PC
  <2>4. req' = [req EXCEPT ![r] = [req[r] EXCEPT !.pc = "upsert", !.at = now]]
    BY <1>8 DEF CommitPrune
  <2>5. req' \in [Request -> Req]
    BY <2>3, <2>4 DEF TypeOK
  <2> QED BY <1>8, <2>1, <2>5 DEF CommitPrune, TypeOK
<1>9. ASSUME NEW r \in Request, CommitUpsert(r) PROVE TypeOK'
  <2>1. Lesser(req[r].at + IdleWindow, req[r].deadline) \in Nat
    BY SessionAssumption, LesserFact DEF TypeOK, Req
  <2>2. rows' \in [Token -> Row]
    BY <1>9, <2>1 DEF CommitUpsert, TypeOK, Row, Req
  <2> QED BY <1>9, <2>2, FinishType DEF CommitUpsert, TypeOK
<1>10. ASSUME NEW r \in Request, SkipCommit(r) \/ Abort(r) PROVE TypeOK'
  BY <1>10, FinishType DEF SkipCommit, Abort, TypeOK
<1>11. ASSUME RecoverCredentials PROVE TypeOK'
  BY <1>11, RevokeFact DEF RecoverCredentials, TypeOK
<1>12. ASSUME Tick PROVE TypeOK'
  BY <1>12, SessionAssumption DEF Tick, TypeOK
<1>13. CASE UNCHANGED vars
  BY <1>13 DEF vars, TypeOK
<1> QED
  BY <1>1, <1>2, <1>3, <1>4, <1>5, <1>6, <1>7, <1>8, <1>9, <1>10, <1>11, <1>12, <1>13
  DEF Next, Step

\* Every reachable state is well formed.
THEOREM TypeCorrect == Spec => []TypeOK
<1>1. Init => TypeOK
  BY BlankFact, SessionAssumption DEF Init, TypeOK
<1> QED BY <1>1, TypeStep, PTL DEF Spec

-----------------------------------------------------------------------------
(* What a token grants is fixed when it is drawn.                          *)

\* FixedAtBirth is preserved together with the types; the second conjunct,
\* that only drawn tokens were ever revoked, is what DeadStaysDead needs of
\* the history.
IInv ==
  /\ TypeOK
  /\ FixedAtBirth
  /\ \A t \in ended : birth[t].drawn

\* The part of IInv about one token and about one request.
RowFixed(t) ==
  rows[t].state # "absent" =>
    /\ birth[t].drawn
    /\ rows[t].level = birth[t].level
    /\ rows[t].abs = birth[t].deadline
    /\ rows[t].idle <= birth[t].deadline

ReqFixed(r) ==
  req[r].tok # NoToken =>
    /\ birth[req[r].tok].drawn
    /\ req[r].level = birth[req[r].tok].level
    /\ req[r].deadline = birth[req[r].tok].deadline

\* FixedAtBirth is a fact about each row and one about each request.
LEMMA FixedSplit ==
  FixedAtBirth <=> (\A t \in Token : RowFixed(t)) /\ (\A r \in Request : ReqFixed(r))
  BY DEF FixedAtBirth, RowFixed, ReqFixed

\* The same in the next state.
LEMMA FixedSplitPrime ==
  FixedAtBirth' <=> (\A t \in Token : RowFixed(t)') /\ (\A r \in Request : ReqFixed(r)')
  BY DEF FixedAtBirth, RowFixed, ReqFixed

\* Revoking rows disturbs neither part while births are kept.
LEMMA RevokeFixed ==
  ASSUME IInv, NEW S \in SUBSET Token, Revoke(S), birth' = birth
  PROVE  /\ \A t \in Token : RowFixed(t)'
         /\ \A t \in ended' : birth'[t].drawn
<1>1. \A t \in Token : RowFixed(t)
  BY FixedSplit DEF IInv
<1>2. TypeOK
  BY DEF IInv
<1>3. \A t \in Token : RowFixed(t)'
  BY <1>1, <1>2, RevokeFact DEF RowFixed
<1>4. \A t \in ended' : birth[t].drawn
  <2> SUFFICES ASSUME NEW t \in ended' PROVE birth[t].drawn
    OBVIOUS
  <2>1. t \in ended \/ (t \in Token /\ rows[t].state = "live")
    BY <1>2, RevokeFact
  <2> QED BY <2>1, <1>1 DEF RowFixed, IInv
<1> QED BY <1>3, <1>4

\* A request whose slot keeps its session data, or loses its token.
LEMMA SameSession ==
  ASSUME IInv, NEW r \in Request, birth' = birth,
         \/ \E pc \in PC : Goto(r, pc)
         \/ Finish(r)
         \/ Anonymous(r)
  PROVE  \A q \in Request : ReqFixed(q)'
<1>1. \A q \in Request : ReqFixed(q)
  BY FixedSplit DEF IInv
<1>2. \A q \in Request : \/ /\ req'[q].tok = req[q].tok
                             /\ req'[q].level = req[q].level
                             /\ req'[q].deadline = req[q].deadline
                          \/ req'[q].tok = NoToken
  <2> SUFFICES ASSUME NEW q \in Request
               PROVE  \/ /\ req'[q].tok = req[q].tok
                         /\ req'[q].level = req[q].level
                         /\ req'[q].deadline = req[q].deadline
                      \/ req'[q].tok = NoToken
    OBVIOUS
  <2>1. CASE \E pc \in PC : Goto(r, pc)
    BY <2>1 DEF Goto, IInv, TypeOK, Req
  <2>2. CASE Finish(r)
    BY <2>2 DEF Finish, IInv, TypeOK, IdleReq
  <2>3. CASE Anonymous(r)
    BY <2>3 DEF Anonymous, IInv, TypeOK, EmptySession
  <2> QED BY <2>1, <2>2, <2>3
<1> QED BY <1>1, <1>2 DEF ReqFixed

\* Renewing draws a token nobody holds and fixes what it grants.
LEMMA RenewFixed ==
  ASSUME IInv, NEW r \in Request, NEW u \in Token, NEW level \in Level,
         NEW deadline \in Nat, Renew(r, u, level, deadline)
  PROVE  FixedAtBirth' /\ \A t \in ended' : birth'[t].drawn
<1>1. \A t \in Token : RowFixed(t)
  BY FixedSplit DEF IInv
<1>2. \A q \in Request : ReqFixed(q)
  BY FixedSplit DEF IInv
<1>3. /\ TypeOK /\ ~birth[u].drawn
      /\ {req[r].tok} \ {NoToken} \in SUBSET Token
      /\ Revoke({req[r].tok} \ {NoToken})
  BY DEF IInv, TypeOK, Req, Renew
<1>4. /\ birth'[u] = [drawn |-> TRUE, level |-> level, deadline |-> deadline]
      /\ \A t \in Token \ {u} : birth'[t] = birth[t]
  BY <1>3 DEF Renew, TypeOK
<1>5. ASSUME NEW t \in Token PROVE RowFixed(t)'
  <2>1. CASE t = u
    BY <2>1, <1>1, <1>3, RevokeFact DEF RowFixed
  <2>2. CASE t # u
    BY <2>2, <1>1, <1>3, <1>4, RevokeFact DEF RowFixed
  <2> QED BY <2>1, <2>2
<1>6. ASSUME NEW q \in Request PROVE ReqFixed(q)'
  <2>1. CASE q = r
    BY <2>1, <1>3, <1>4 DEF ReqFixed, Renew, TypeOK
  <2>2. CASE q # r
    <3>1. req'[q] = req[q] /\ req[q].tok \in Token \cup {NoToken}
      BY <2>2 DEF Renew, IInv, TypeOK, Req
    <3>2. req[q].tok # u \/ req[q].tok = NoToken
      BY <1>2, <1>3 DEF ReqFixed
    <3> QED BY <1>2, <1>4, <3>1, <3>2 DEF ReqFixed
  <2> QED BY <2>1, <2>2
<1>7. ASSUME NEW t \in ended' PROVE birth'[t].drawn
  <2>1. t \in Token /\ (t \in ended \/ rows[t].state = "live")
    BY <1>3, <1>7, RevokeFact
  <2>2. birth[t].drawn
    BY <2>1, <1>1 DEF RowFixed, IInv
  <2> QED BY <2>1, <2>2, <1>3, <1>4
<1> QED BY <1>5, <1>6, <1>7, FixedSplitPrime

\* Every step keeps the inductive invariant: one case per action.
LEMMA FixedStep == IInv /\ [Next]_vars => IInv'
<1> SUFFICES ASSUME IInv, [Next]_vars
             PROVE  FixedAtBirth' /\ \A t \in ended' : birth'[t].drawn
  BY TypeStep DEF IInv
<1>1. /\ \A t \in Token : RowFixed(t)
      /\ \A q \in Request : ReqFixed(q)
      /\ TypeOK
      /\ \A t \in ended : birth[t].drawn
  BY FixedSplit DEF IInv
<1> DEFINE Goal == FixedAtBirth' /\ \A t \in ended' : birth'[t].drawn
<1>2. ASSUME NEW r \in Request, NEW t \in Token \cup {NoToken}, Arrive(r, t)
      PROVE Goal
  <2>1. UNCHANGED <<rows, birth, ended>>
    BY <1>2 DEF Arrive
  <2>2. \A q \in Request : ReqFixed(q)'
    <3>1. CASE Anonymous(r)
      BY <2>1, <3>1, SameSession
    <3>2. CASE ~Anonymous(r)
      <4>1. /\ t \in Token /\ rows[t].state = "live"
            /\ req'[r].tok = t /\ req'[r].level = rows[t].level
            /\ req'[r].deadline = rows[t].abs
            /\ \A q \in Request \ {r} : req'[q] = req[q]
        BY <1>1, <1>2, <3>2 DEF Arrive, TypeOK, Live, Usable
      <4> QED BY <1>1, <2>1, <4>1 DEF RowFixed, ReqFixed
    <3> QED BY <3>1, <3>2
  <2>3. \A s \in Token : RowFixed(s)'
    BY <1>1, <2>1 DEF RowFixed
  <2> QED BY <1>1, <2>1, <2>2, <2>3, FixedSplitPrime
<1>3. ASSUME NEW r \in Request, Touch(r) PROVE Goal
  <2>1. UNCHANGED <<birth, ended>>
    BY <1>3 DEF Touch
  <2>2. \A s \in Token : RowFixed(s)'
    <3>1. CASE Usable(rows[req[r].tok], req[r].at)
      <4> SUFFICES ASSUME NEW s \in Token PROVE RowFixed(s)'
        OBVIOUS
      <4>1. CASE s # req[r].tok
        BY <1>1, <1>3, <2>1, <3>1, <4>1 DEF Touch, TypeOK, RowFixed
      <4>2. CASE s = req[r].tok
        <5>1. /\ req[r].at + IdleWindow \in Nat /\ rows[s].abs \in Nat
              /\ birth[s].deadline \in Nat
          BY <1>1, SessionAssumption DEF TypeOK, Req, Row, Birth
        <5>2. /\ rows'[s].state = rows[s].state /\ rows'[s].level = rows[s].level
              /\ rows'[s].abs = rows[s].abs
              /\ rows'[s].idle = Lesser(req[r].at + IdleWindow, rows[s].abs)
          BY <1>1, <1>3, <3>1, <4>2 DEF Touch, TypeOK, Row
        <5>3. rows'[s].idle <= rows[s].abs
          BY <5>1, <5>2, LesserFact
        <5> QED BY <1>1, <2>1, <5>2, <5>3 DEF RowFixed
      <4> QED BY <4>1, <4>2
    <3>2. CASE ~Usable(rows[req[r].tok], req[r].at)
      BY <1>1, <1>3, <2>1, <3>2 DEF Touch, RowFixed
    <3> QED BY <3>1, <3>2
  <2>3. \A q \in Request : ReqFixed(q)'
    <3>1. CASE Usable(rows[req[r].tok], req[r].at)
      <4>1. \A q \in Request : /\ req'[q].tok = req[q].tok
                               /\ req'[q].level = req[q].level
                               /\ req'[q].deadline = req[q].deadline
        BY <1>1, <1>3, <3>1 DEF Touch, TypeOK, Req
      <4> QED BY <1>1, <2>1, <4>1 DEF ReqFixed
    <3>2. CASE ~Usable(rows[req[r].tok], req[r].at)
      BY <1>3, <2>1, <3>2, SameSession DEF Touch
    <3> QED BY <3>1, <3>2
  <2> QED BY <1>1, <2>1, <2>2, <2>3, FixedSplitPrime
<1>4. ASSUME NEW r \in Request, Serve(r) \/ SkipCommit(r) \/ Abort(r) PROVE Goal
  <2>1. UNCHANGED <<rows, birth, ended>> /\ (Goto(r, "commit") \/ Finish(r))
    BY <1>4 DEF Serve, SkipCommit, Abort
  <2>2. \A q \in Request : ReqFixed(q)'
    BY <2>1, SameSession DEF PC
  <2>3. \A s \in Token : RowFixed(s)'
    BY <1>1, <2>1 DEF RowFixed
  <2> QED BY <1>1, <2>1, <2>2, <2>3, FixedSplitPrime
<1>5. ASSUME NEW r \in Request, NEW u \in Token,
             StartMFA(r, u) \/ Establish(r, u) \/ EstablishFails(r, u)
      PROVE Goal
  <2>1. /\ now + Lifetime["pending"] \in Nat /\ now + Lifetime["owner"] \in Nat
        /\ now + Lifetime["none"] \in Nat
    BY <1>1, SessionAssumption DEF TypeOK, Level
  <2> QED BY <1>5, <2>1, RenewFixed DEF StartMFA, Establish, EstablishFails, Level
<1>6. ASSUME NEW r \in Request,
             \/ Destroy(r) \/ \E t \in Token : RevokeSession(r, t)
             \/ RevokeOtherSessions(r) \/ RevokeAll(r) \/ ReplacePassword(r)
      PROVE Goal
  <2>1. {req[r].tok} \ {NoToken} \in SUBSET Token
    BY <1>1 DEF TypeOK, Req
  <2>2. /\ birth' = birth
        /\ \E S \in SUBSET Token : Revoke(S)
        /\ Finish(r) \/ \E pc \in PC : Goto(r, pc)
    BY <1>6, <2>1 DEF Destroy, RevokeSession, RevokeOtherSessions, RevokeAll, ReplacePassword, PC
  <2>3. \A q \in Request : ReqFixed(q)'
    BY <2>2, SameSession
  <2> QED BY <2>2, <2>3, RevokeFixed, FixedSplitPrime
<1>7. ASSUME RecoverCredentials PROVE Goal
  <2>1. (\A t \in Token : RowFixed(t)') /\ \A t \in ended' : birth'[t].drawn
    BY <1>7, RevokeFixed DEF RecoverCredentials
  <2>2. \A q \in Request : ReqFixed(q)'
    BY <1>1, <1>7 DEF RecoverCredentials, ReqFixed
  <2> QED BY <2>1, <2>2, FixedSplitPrime
<1>8. ASSUME NEW r \in Request, CommitPrune(r) PROVE Goal
  <2>1. UNCHANGED <<birth, ended>>
    BY <1>8 DEF CommitPrune
  <2>2. \A s \in Token : rows'[s] = rows[s] \/ rows'[s].state = "absent"
    BY <1>8 DEF CommitPrune, NoRow
  <2>3. \A s \in Token : RowFixed(s)'
    BY <1>1, <2>1, <2>2 DEF RowFixed
  <2>4. \A q \in Request : /\ req'[q].tok = req[q].tok
                           /\ req'[q].level = req[q].level
                           /\ req'[q].deadline = req[q].deadline
    BY <1>1, <1>8 DEF CommitPrune, TypeOK, Req
  <2>5. \A q \in Request : ReqFixed(q)'
    BY <1>1, <2>1, <2>4 DEF ReqFixed
  <2> QED BY <1>1, <2>1, <2>3, <2>5, FixedSplitPrime
<1>9. ASSUME NEW r \in Request, CommitUpsert(r) PROVE Goal
  <2>1. UNCHANGED <<birth, ended>> /\ Finish(r)
    BY <1>9 DEF CommitUpsert
  <2>2. \A q \in Request : ReqFixed(q)'
    BY <2>1, SameSession
  <2>3. ASSUME NEW s \in Token PROVE RowFixed(s)'
    <3>1. CASE rows'[s] = rows[s]
      BY <1>1, <2>1, <3>1 DEF RowFixed
    <3>2. CASE rows'[s] # rows[s]
      <4>1. /\ s = req[r].tok
            /\ rows'[s] = [state |-> "live", level |-> req[r].level, active |-> req[r].at,
                    idle |-> Lesser(req[r].at + IdleWindow, req[r].deadline),
                    abs |-> req[r].deadline]
        BY <1>1, <1>9, <3>2 DEF CommitUpsert, TypeOK
      <4>2. req[r].at + IdleWindow \in Nat /\ req[r].deadline \in Nat
        BY <1>1, SessionAssumption DEF TypeOK, Req
      <4>3. rows'[s].idle <= req[r].deadline
        BY <4>1, <4>2, LesserFact
      <4>4. s # NoToken
        BY SessionAssumption
      <4> QED BY <1>1, <2>1, <4>1, <4>3, <4>4 DEF RowFixed, ReqFixed
    <3> QED BY <3>1, <3>2
  <2> QED BY <1>1, <2>1, <2>2, <2>3, FixedSplitPrime
<1>10. CASE Tick \/ UNCHANGED vars
  BY <1>1, <1>10, FixedSplitPrime DEF Tick, vars, RowFixed, ReqFixed
<1> QED
  BY <1>2, <1>3, <1>4, <1>5, <1>6, <1>7, <1>8, <1>9, <1>10 DEF Next, Step

\* The inductive invariant holds in every reachable state.
LEMMA Inductive == Spec => []IInv
<1>1. Init => IInv
  BY BlankFact, SessionAssumption
  DEF Init, IInv, TypeOK, FixedAtBirth, NoRow, IdleReq
<1> QED BY <1>1, FixedStep, PTL DEF Spec

\* For any number of concurrent requests, tokens and clock readings, a token
\* never grants more, nor longer, than what was fixed when it was drawn.
THEOREM PrivilegeAndDeadlineFixed == Spec => []FixedAtBirth
<1>1. IInv => FixedAtBirth
  BY DEF IInv
<1> QED BY <1>1, Inductive, PTL

-----------------------------------------------------------------------------
(* Dead sessions stay dead.                                                *)

\* One step keeps a revoked, uncarried session revoked and uncarried: it is
\* not accepted on arrival, not drawn again, and only a request that carries
\* it could write its row.
LEMMA DeadStep ==
  ASSUME IInv, Next, NEW t \in Token, Dead(t)
  PROVE  Dead(t)'
<1>1. /\ t \in ended /\ rows[t].state # "live" /\ t # NoToken /\ birth[t].drawn
      /\ \A q \in Request : req[q].tok # t
      /\ TypeOK
  BY SessionAssumption DEF Dead, Carries, IInv
<1> DEFINE Gone == t \in ended' /\ rows'[t].state # "live"
           Free == \A q \in Request : req'[q].tok # t
<1>2. ASSUME NEW S \in SUBSET Token, Revoke(S) PROVE Gone
  BY <1>1, <1>2, RevokeFact
<1>3. ASSUME NEW r \in Request,
             (\E pc \in PC : Goto(r, pc)) \/ Finish(r) \/ Anonymous(r)
      PROVE Free
  <2> SUFFICES ASSUME NEW q \in Request PROVE req'[q].tok # t
    OBVIOUS
  <2>1. CASE \E pc \in PC : Goto(r, pc)
    BY <1>1, <2>1 DEF Goto, TypeOK, Req
  <2>2. CASE Finish(r)
    BY <1>1, <2>2 DEF Finish, TypeOK, IdleReq
  <2>3. CASE Anonymous(r)
    BY <1>1, <2>3 DEF Anonymous, TypeOK, EmptySession
  <2> QED BY <1>3, <2>1, <2>2, <2>3
<1>4. ASSUME NEW r \in Request, NEW s \in Token \cup {NoToken}, Arrive(r, s)
      PROVE Gone /\ Free
  <2>1. Gone
    BY <1>1, <1>4 DEF Arrive
  <2>2. CASE Anonymous(r)
    BY <1>3, <2>1, <2>2
  <2>3. CASE ~Anonymous(r)
    <3>1. s # t
      BY <1>1, <1>4, <2>3 DEF Arrive, Live, Usable
    <3> QED BY <1>1, <1>4, <2>1, <2>3, <3>1 DEF Arrive, TypeOK
  <2> QED BY <2>2, <2>3
<1>5. ASSUME NEW r \in Request, Touch(r) PROVE Gone /\ Free
  <2>1. req[r].tok # t
    BY <1>1
  <2>2. CASE Usable(rows[req[r].tok], req[r].at)
    BY <1>1, <1>5, <2>1, <2>2 DEF Touch, TypeOK, Req
  <2>3. CASE ~Usable(rows[req[r].tok], req[r].at)
    BY <1>1, <1>3, <1>5, <2>3 DEF Touch
  <2> QED BY <2>2, <2>3
<1>6. ASSUME NEW r \in Request, Serve(r) \/ SkipCommit(r) \/ Abort(r) PROVE Gone /\ Free
  BY <1>1, <1>3, <1>6 DEF Serve, SkipCommit, Abort, PC
<1>7. ASSUME NEW r \in Request, NEW u \in Token,
             StartMFA(r, u) \/ Establish(r, u) \/ EstablishFails(r, u)
      PROVE Gone /\ Free
  <2>1. PICK level, deadline : Renew(r, u, level, deadline)
    BY <1>7 DEF StartMFA, Establish, EstablishFails
  <2>2. {req[r].tok} \ {NoToken} \in SUBSET Token
    BY <1>1 DEF TypeOK, Req
  <2>3. Gone
    BY <1>2, <2>1, <2>2 DEF Renew
  <2>4. u # t
    BY <1>1, <2>1 DEF Renew
  <2>5. Free
    BY <1>1, <2>1, <2>4 DEF Renew, TypeOK
  <2> QED BY <2>3, <2>5
<1>8. ASSUME NEW r \in Request,
             \/ Destroy(r) \/ \E s \in Token : RevokeSession(r, s)
             \/ RevokeOtherSessions(r) \/ RevokeAll(r) \/ ReplacePassword(r)
      PROVE Gone /\ Free
  <2>1. {req[r].tok} \ {NoToken} \in SUBSET Token
    BY <1>1 DEF TypeOK, Req
  <2>2. /\ \E S \in SUBSET Token : Revoke(S)
        /\ Finish(r) \/ \E pc \in PC : Goto(r, pc)
    BY <1>8, <2>1 DEF Destroy, RevokeSession, RevokeOtherSessions, RevokeAll, ReplacePassword, PC
  <2> QED BY <1>2, <1>3, <2>2
<1>9. ASSUME RecoverCredentials PROVE Gone /\ Free
  BY <1>1, <1>2, <1>9 DEF RecoverCredentials
<1>10. ASSUME NEW r \in Request, CommitPrune(r) PROVE Gone /\ Free
  <2>1. Gone
    BY <1>1, <1>10 DEF CommitPrune, NoRow
  <2>2. Free
    BY <1>1, <1>10 DEF CommitPrune, TypeOK, Req
  <2> QED BY <2>1, <2>2
<1>11. ASSUME NEW r \in Request, CommitUpsert(r) PROVE Gone /\ Free
  <2>1. req[r].tok # t
    BY <1>1
  <2>2. Gone
    BY <1>1, <1>11, <2>1 DEF CommitUpsert, TypeOK
  <2> QED BY <1>3, <1>11, <2>2 DEF CommitUpsert
<1>12. ASSUME Tick PROVE Gone /\ Free
  BY <1>1, <1>12 DEF Tick
<1> QED
  BY <1>4, <1>5, <1>6, <1>7, <1>8, <1>9, <1>10, <1>11, <1>12
  DEF Next, Step, Dead, Carries

\* Revocation is final for every session no request in flight carries,
\* however requests, commits and prunings interleave.
THEOREM RevocationIsFinal == Spec => DeadStaysDead
<1>1. IInv /\ [Next]_vars => [\A t \in Token : Dead(t) => Dead(t)']_vars
  BY DeadStep
<1> QED BY <1>1, Inductive, PTL DEF Spec, DeadStaysDead

-----------------------------------------------------------------------------
(* Access ends by revocation and time alone.                               *)

\* A step that leaves the clock and the row of a live token alone, or revokes.
LEMMA RevokeEnds ==
  ASSUME NEW t \in Token, NEW S \in SUBSET Token, Revoke(S), TypeOK, Live(t), now' = now
  PROVE  Live(t)' \/ t \in ended'
<1>1. CASE t \in S
  BY <1>1 DEF Revoke, Live, Usable
<1>2. CASE t \notin S
  BY <1>2 DEF Revoke, Live, Usable, Unexpired, TypeOK
<1> QED
  BY <1>1, <1>2

\* One step: a token that granted access still does, or was revoked, or time
\* passed, or a commit of its own wrote back an idle expiry that was over.
LEMMA EndsStep ==
  ASSUME IInv, [Next]_vars, NEW t \in Token, Live(t), ~Live(t)', now' = now, t \notin ended'
  PROVE  \E r \in Request : Carries(r, t) /\ req[r].at + IdleWindow <= now
<1>0. /\ TypeOK /\ FixedAtBirth
      /\ rows[t].state = "live" /\ now < rows[t].idle /\ now < rows[t].abs
      /\ now \in Nat
  BY SessionAssumption DEF IInv, Live, Usable, Unexpired, TypeOK
<1>1. rows # rows'
  BY DEF Live, Usable, Unexpired
<1>2. ASSUME NEW S \in SUBSET Token, Revoke(S) PROVE FALSE
  BY <1>0, <1>2, RevokeEnds
<1>3. ASSUME NEW r \in Request, Touch(r) PROVE \E q \in Request : Carries(q, t) /\ req[q].at + IdleWindow <= now
  <2> DEFINE idle == Lesser(req[r].at + IdleWindow, rows[t].abs)
  <2>1. req[r].tok = t /\ rows' = [rows EXCEPT ![t].active = req[r].at, ![t].idle = idle]
    BY <1>0, <1>1, <1>3 DEF Touch, Live, Usable, Unexpired, TypeOK
  <2>2. rows'[t].state = "live" /\ rows'[t].abs = rows[t].abs /\ rows'[t].idle = idle
    BY <1>0, <2>1 DEF TypeOK, Row
  <2>3. ~(now < idle)
    BY <1>0, <2>2 DEF Live, Usable, Unexpired
  <2>4. req[r].at \in Nat /\ rows[t].abs \in Nat /\ IdleWindow \in Nat
    BY <1>0, SessionAssumption DEF TypeOK, Req, Row
  <2>5. req[r].at + IdleWindow <= now
    BY <1>0, <2>3, <2>4 DEF Lesser
  <2> QED
    BY <2>1, <2>5 DEF Carries
<1>4. ASSUME NEW r \in Request, CommitPrune(r) PROVE FALSE
  <2>1. rows'[t] = rows[t]
    BY <1>0, <1>4 DEF CommitPrune, Live
  <2> QED
    BY <1>0, <2>1 DEF Live, Usable, Unexpired
<1>5. ASSUME NEW r \in Request, CommitUpsert(r) PROVE \E q \in Request : Carries(q, t) /\ req[q].at + IdleWindow <= now
  <2> DEFINE idle == Lesser(req[r].at + IdleWindow, req[r].deadline)
             committed == [state |-> "live", level |-> req[r].level, active |-> req[r].at,
                           idle |-> idle, abs |-> req[r].deadline]
  <2>1. req[r].tok = t /\ rows' = [rows EXCEPT ![t] = committed]
    BY <1>0, <1>1, <1>5 DEF CommitUpsert, Live, Usable, Unexpired, TypeOK
  <2>2. rows'[t] = committed
    BY <1>0, <2>1 DEF TypeOK
  <2>3. rows'[t].state = "live" /\ rows'[t].abs = req[r].deadline /\ rows'[t].idle = idle
    BY <2>2
  <2>4. req[r].deadline = rows[t].abs
    BY <1>0, <2>1, SessionAssumption DEF FixedAtBirth
  <2>5. ~(now < idle)
    BY <1>0, <2>3, <2>4 DEF Live, Usable, Unexpired
  <2>6. req[r].at \in Nat /\ req[r].deadline \in Nat /\ IdleWindow \in Nat
    BY <1>0, SessionAssumption DEF TypeOK, Req
  <2>7. req[r].at + IdleWindow <= now
    BY <1>0, <2>4, <2>5, <2>6 DEF Lesser
  <2> QED
    BY <2>1, <2>7 DEF Carries
<1>6. ASSUME NEW r \in Request, NEW u \in Token, StartMFA(r, u) \/ Establish(r, u) \/ EstablishFails(r, u) PROVE FALSE
  <2>1. PICK level, deadline : Renew(r, u, level, deadline)
    BY <1>6 DEF StartMFA, Establish, EstablishFails
  <2>2. {req[r].tok} \ {NoToken} \in SUBSET Token
    BY <1>0 DEF TypeOK, Req
  <2> QED
    BY <1>2, <2>1, <2>2 DEF Renew
<1>7. ASSUME NEW r \in Request,
             \/ Destroy(r) \/ \E s \in Token : RevokeSession(r, s)
             \/ RevokeOtherSessions(r) \/ RevokeAll(r) \/ ReplacePassword(r)
      PROVE FALSE
  <2>1. {req[r].tok} \ {NoToken} \in SUBSET Token
    BY <1>0 DEF TypeOK, Req
  <2>2. \E S \in SUBSET Token : Revoke(S)
    BY <1>7, <2>1 DEF Destroy, RevokeSession, RevokeOtherSessions, RevokeAll, ReplacePassword
  <2> QED BY <1>2, <2>2
<1>8. ASSUME RecoverCredentials PROVE FALSE
  BY <1>2, <1>8 DEF RecoverCredentials
<1>9. ~Tick
  BY <1>0 DEF Tick
<1>10. ASSUME NEW r \in Request, (\E s \in Token \cup {NoToken} : Arrive(r, s)) \/ Serve(r) \/ SkipCommit(r) \/ Abort(r)
       PROVE  FALSE
  BY <1>1, <1>10 DEF Arrive, Serve, SkipCommit, Abort
<1>11. ~UNCHANGED vars
  BY <1>1 DEF vars
<1> QED
  BY <1>3, <1>4, <1>5, <1>6, <1>7, <1>8, <1>9, <1>10, <1>11 DEF Next, Step

\* No commit, pruning or renewal of another session, however stale, ends the
\* access of a session: a statement that revokes it does, or time, or a commit of
\* its own that was held up for an idle window.
THEOREM AccessEndsByRevocation == Spec => EndsOnlyByRevocation
<1> DEFINE Ends(t) ==
      Live(t) /\ ~Live(t)' =>
        \/ t \in ended'
        \/ now' # now
        \/ \E r \in Request : Carries(r, t) /\ req[r].at + IdleWindow <= now
<1>1. IInv /\ [Next]_vars => [\A t \in Token : Ends(t)]_vars
  BY EndsStep
<1> QED BY <1>1, Inductive, PTL DEF Spec, EndsOnlyByRevocation
=============================================================================
