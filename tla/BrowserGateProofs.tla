-------------------------- MODULE BrowserGateProofs --------------------------
(***************************************************************************)
(* Theorems about BrowserGate, for any number of windows, sessions and     *)
(* events: what a window shows and the token it holds keep their types,    *)
(* and a window that shows the application has a token.                    *)
(***************************************************************************)
EXTENDS BrowserGate, TLAPS

WindowSpec == GateInit /\ [][GateNext]_gateVars

\* What ReadyHasToken rests on: a check is told what to show, and an answer that makes a window ready, or that
\* says a sign-in or a new password was accepted, comes with a session.
AnswersBringSessions ==
  \A w \in Window :
    /\ check[w].at = "told" => check[w].told \in Shown
    /\ check[w].told = "ready" => check[w].got # NoCookie
    /\ form[w].told = "ok" => form[w].got # NoCookie
    /\ call[w].told = "ok" /\ call[w].what = "password" => call[w].got # NoCookie

GateInv == GateTypeOK /\ AnswersBringSessions /\ \A w \in Window : gate[w] = "ready" => token[w] # NoCookie

Token == Cookie \cup {NoCookie}
What == {"none", "setup", "login", "mfa", "note", "logout", "password"}
Answers == {"none", "ok", "401", "expired", "refused", "pending", "broken"} \cup Shown

-----------------------------------------------------------------------------
(* Requests and answers. *)
LEMMA NoExchangeTyped == NoExchange \in Exchange /\ NoExchange.at = "no" /\ NoExchange.told = "none"
<1>1. NoExchange.at = "no" /\ NoExchange.told = "none"
  BY DEF NoExchange
<1>2. NoExchange \in Exchange
  BY DEF NoExchange, Exchange
<1> QED
  BY <1>1, <1>2

LEMMA AskTyped == ASSUME GateTypeOK PROVE Ask \in Exchange /\ Ask.at = "asked" /\ Ask.told = "none"
<1>1. cookie \in Cookie \cup {NoCookie}
  BY DEF GateTypeOK
<1>2. Ask.at = "asked" /\ Ask.told = "none"
  BY DEF Ask, NoExchange
<1>3. Ask \in Exchange
  BY <1>1 DEF Ask, NoExchange, Exchange
<1> QED
  BY <1>2, <1>3

LEMMA TellTyped ==
  ASSUME NEW request \in Exchange, NEW what \in Answers, NEW id \in Token
  PROVE  /\ Tell(request, what, id) \in Exchange
         /\ Tell(request, what, id).told = what /\ Tell(request, what, id).got = id
         /\ Tell(request, what, id).what = request.what
<1>1. Tell(request, what, id) \in Exchange
  BY DEF Tell, Exchange, Answers, Token
<1>2. /\ Tell(request, what, id).told = what /\ Tell(request, what, id).got = id
      /\ Tell(request, what, id).what = request.what
  BY DEF Tell, Exchange
<1> QED
  BY <1>1, <1>2

LEMMA SendTyped ==
  ASSUME NEW w, NEW what \in What, GateTypeOK
  PROVE  Send(w, what) \in Exchange /\ Send(w, what).told = "none"
<1>1. (token[w] = cookie) \in BOOLEAN
  OBVIOUS
<1>2. Send(w, what) \in Exchange
  BY <1>1, AskTyped DEF Send, Exchange, What
<1>3. Send(w, what).told = "none"
  BY AskTyped DEF Send, Exchange
<1> QED
  BY <1>2, <1>3

LEMMA StatusTyped == \A id : StatusOf(id) \in Shown /\ (StatusOf(id) = "ready" => id # NoCookie)
  BY DEF StatusOf, Shown, Grants

-----------------------------------------------------------------------------
(* The check of the status. *)
LEMMA StatusAnsweredKeeps == ASSUME NEW w \in Window, GateInv, StatusAnswered(w) PROVE GateInv'
<1> DEFINE answer == Tell(check[w], StatusOf(check[w].carry), check[w].carry)
<1>1. check' = [check EXCEPT ![w] = answer]
  BY DEF StatusAnswered
<1>2. UNCHANGED <<open, owner, row, drawn, cookie, gate, token, deaf, news, form, call, events>>
  BY DEF StatusAnswered, Quiet, server
<1>3. check[w] \in Exchange /\ check[w].carry \in Token
  BY DEF GateInv, GateTypeOK, Exchange, Token
<1>4. StatusOf(check[w].carry) \in Answers
  BY StatusTyped DEF Answers
<1>5. answer \in Exchange /\ answer.told \in Shown /\ (answer.told = "ready" => answer.got # NoCookie)
  BY <1>3, <1>4, TellTyped, StatusTyped
<1> HIDE DEF answer
<1>6. GateTypeOK'
  BY <1>1, <1>2, <1>5 DEF GateInv, GateTypeOK
<1>7. AnswersBringSessions'
  BY <1>1, <1>2, <1>5 DEF GateInv, GateTypeOK, AnswersBringSessions
<1> QED
  BY <1>2, <1>6, <1>7 DEF GateInv

\* check returns.
LEMMA CheckEndsKeeps ==
  ASSUME NEW w \in Window, GateInv, CheckEnds(w)
  PROVE  /\ \A v \in Window : check'[v].at = "told" => check'[v].told \in Shown
         /\ check' \in [Window -> Exchange] /\ form' \in [Window -> Exchange]
         /\ \A v \in Window : check'[v].told = "ready" => check'[v].got # NoCookie
         /\ \A v \in Window : form'[v].told = "ok" => form'[v].got # NoCookie
  BY NoExchangeTyped DEF CheckEnds, GateInv, GateTypeOK, AnswersBringSessions

LEMMA StatusBrokenKeeps == ASSUME NEW w \in Window, GateInv, StatusBroken(w) PROVE GateInv'
<1>1. PICK shown \in {"unreachable", "update"} : gate' = [gate EXCEPT ![w] = shown]
  BY DEF StatusBroken
<1>2. UNCHANGED <<open, owner, row, drawn, cookie, token, deaf, news, call>>
  BY DEF StatusBroken, server
<1>3. events' \in Nat
  BY DEF StatusBroken, Counted, GateInv, GateTypeOK
<1>4. GateTypeOK'
  BY <1>1, <1>2, <1>3, CheckEndsKeeps DEF StatusBroken, GateInv, GateTypeOK, Shown
<1>5. AnswersBringSessions'
  BY <1>2, CheckEndsKeeps DEF StatusBroken, GateInv, AnswersBringSessions
<1>6. \A v \in Window : gate'[v] = "ready" => token'[v] # NoCookie
  BY <1>1, <1>2 DEF GateInv, GateTypeOK
<1> QED
  BY <1>4, <1>5, <1>6 DEF GateInv

LEMMA StatusHeardKeeps == ASSUME NEW w \in Window, GateInv, StatusHeard(w) PROVE GateInv'
<1> DEFINE health == [NoExchange EXCEPT !.at = "health"]
           held == IF check[w].told = "ready" THEN check[w].got ELSE NoCookie
<1>1. token' = [token EXCEPT ![w] = held] /\ gate' = [gate EXCEPT ![w] = check[w].told] /\ check' = [check EXCEPT ![w] = health]
  BY DEF StatusHeard
<1>2. UNCHANGED <<open, owner, row, drawn, cookie, deaf, news, form, call, events>>
  BY DEF StatusHeard, Quiet, server
<1>3. health \in Exchange /\ health.at = "health" /\ health.told = "none"
  BY DEF NoExchange, Exchange
<1>8. check[w].told \in Shown
  BY DEF StatusHeard, GateInv, AnswersBringSessions
<1>4. held \in Token /\ (check[w].told = "ready" => held # NoCookie)
  BY DEF GateInv, GateTypeOK, Exchange, Token, AnswersBringSessions
<1> HIDE DEF health, held
<1>5. GateTypeOK'
  BY <1>1, <1>2, <1>3, <1>4, <1>8 DEF GateInv, GateTypeOK, Token
<1>6. AnswersBringSessions'
  BY <1>1, <1>2, <1>3 DEF GateInv, GateTypeOK, AnswersBringSessions
<1>7. \A v \in Window : gate'[v] = "ready" => token'[v] # NoCookie
  BY <1>1, <1>4 DEF GateInv, GateTypeOK
<1> QED
  BY <1>5, <1>6, <1>7 DEF GateInv

LEMMA HealthHeardKeeps == ASSUME NEW w \in Window, GateInv, HealthHeard(w) PROVE GateInv'
<1>1. UNCHANGED <<open, owner, row, drawn, cookie, gate, token, deaf, news, call, events>> /\ CheckEnds(w)
  BY DEF HealthHeard, Quiet, server
<1> QED
  BY <1>1, CheckEndsKeeps DEF GateInv, GateTypeOK, AnswersBringSessions

\* check is called: dropped while another one is in flight.
LEMMA CheckedKeeps ==
  ASSUME NEW w \in Window, GateInv, check' = Checked(w)
  PROVE  /\ check' \in [Window -> Exchange]
         /\ \A v \in Window : check'[v].at = "told" => check'[v].told \in Shown
         /\ \A v \in Window : check'[v].told = "ready" => check'[v].got # NoCookie
<1>1. CASE check[w].at = "no"
  <2>1. check' = [check EXCEPT ![w] = Ask]
    BY <1>1 DEF Checked
  <2> QED
    BY <2>1, AskTyped DEF GateInv, GateTypeOK, AnswersBringSessions
<1>2. CASE check[w].at # "no"
  BY <1>2 DEF Checked, GateInv, GateTypeOK, AnswersBringSessions
<1> QED
  BY <1>1, <1>2

LEMMA TryAgainKeeps == ASSUME NEW w \in Window, GateInv, TryAgain(w) PROVE GateInv'
<1>1. UNCHANGED <<open, owner, row, drawn, cookie, gate, token, deaf, news, form, call, events>> /\ check' = Checked(w)
  BY DEF TryAgain, Quiet, server
<1> QED
  BY <1>1, CheckedKeeps DEF GateInv, GateTypeOK, AnswersBringSessions

LEMMA ReloadKeeps == ASSUME NEW w \in Window, GateInv, Reload(w) PROVE GateInv'
<1>1. /\ gate' = [gate EXCEPT ![w] = "checking"] /\ token' = [token EXCEPT ![w] = NoCookie]
      /\ check' = [check EXCEPT ![w] = Ask]
      /\ form' = [form EXCEPT ![w] = NoExchange] /\ call' = [call EXCEPT ![w] = NoExchange]
  BY DEF Reload
<1>2. UNCHANGED <<open, owner, row, drawn, cookie, deaf, news, events>>
  BY DEF Reload, Quiet, server
<1>3. GateTypeOK'
  BY <1>1, <1>2, AskTyped, NoExchangeTyped DEF GateInv, GateTypeOK, Shown
<1>4. AnswersBringSessions'
  BY <1>1, AskTyped, NoExchangeTyped DEF GateInv, GateTypeOK, AnswersBringSessions
<1>5. \A v \in Window : gate'[v] = "ready" => token'[v] # NoCookie
  BY <1>1 DEF GateInv, GateTypeOK
<1> QED
  BY <1>3, <1>4, <1>5 DEF GateInv

-----------------------------------------------------------------------------
(* The user comes back, another window tells, time passes. *)
LEMMA RetryKeeps ==
  ASSUME NEW w \in Window, GateInv, Retry(w), news' \in [Window -> Nat],
         UNCHANGED <<open, owner, row, drawn, cookie, gate, token, form, call, events>>
  PROVE  GateInv'
<1>1. CASE deaf[w]
  BY <1>1 DEF Retry, GateInv, GateTypeOK, AnswersBringSessions
<1>2. CASE ~deaf[w]
  <2>1. deaf' = [deaf EXCEPT ![w] = TRUE] /\ check' = Checked(w)
    BY <1>2 DEF Retry
  <2>2. deaf' \in [Window -> BOOLEAN]
    BY <2>1 DEF GateInv, GateTypeOK
  <2> QED
    BY <2>1, <2>2, CheckedKeeps DEF GateInv, GateTypeOK, AnswersBringSessions
<1> QED
  BY <1>1, <1>2

LEMMA UserReturnsKeeps == ASSUME NEW w \in Window, GateInv, UserReturns(w) PROVE GateInv'
  BY RetryKeeps DEF UserReturns, Quiet, server, GateInv, GateTypeOK

LEMMA NewsArrivesKeeps == ASSUME NEW w \in Window, GateInv, NewsArrives(w) PROVE GateInv'
<1>1. news' \in [Window -> Nat]
  BY DEF NewsArrives, GateInv, GateTypeOK
<1> QED
  BY <1>1, RetryKeeps DEF NewsArrives, Quiet, server

LEMMA DeafKeeps ==
  ASSUME NEW w \in Window, GateInv, UserHides(w) \/ SecondPasses(w)
  PROVE  GateInv'
<1>1. UNCHANGED <<open, owner, row, drawn, cookie, gate, token, news, check, form, call, events>>
  BY DEF UserHides, SecondPasses, Quiet, server
<1>2. deaf' \in [Window -> BOOLEAN]
  BY DEF UserHides, SecondPasses, GateInv, GateTypeOK
<1> QED
  BY <1>1, <1>2 DEF GateInv, GateTypeOK, AnswersBringSessions

\* A window without its token shows the form.
LEMMA EndBrowserSessionKeeps ==
  ASSUME NEW w \in Window, GateInv, EndBrowserSession(w)
  PROVE  /\ token' \in [Window -> Cookie \cup {NoCookie}] /\ gate' \in [Window -> Shown]
         /\ \A v \in Window : gate'[v] = "ready" => token'[v] # NoCookie
  BY DEF EndBrowserSession, GateInv, GateTypeOK, Shown

LEMMA NotifyTyped == ASSUME GateInv, NotifyAuthChanged PROVE news' \in [Window -> Nat]
  BY DEF NotifyAuthChanged, GateInv, GateTypeOK

-----------------------------------------------------------------------------
(* The form. *)
LEMMA DrawTyped ==
  ASSUME NEW carry, NEW level \in {"pending", "in"}, GateInv, Draw(carry, level)
  PROVE  /\ drawn' = drawn + 1 /\ drawn' \in Cookie /\ drawn' \in 0..MaxSessions /\ drawn + 1 # NoCookie
         /\ row' \in [Cookie -> {"none", "pending", "in"}]
<1>1. drawn \in 0..MaxSessions /\ drawn < MaxSessions /\ drawn' = drawn + 1 /\ MaxSessions \in Nat
  BY WindowAssumption DEF Draw, GateInv, GateTypeOK
<1>2. drawn' \in Cookie /\ drawn' \in 0..MaxSessions /\ drawn + 1 # NoCookie
  BY <1>1 DEF Cookie, NoCookie
<1>3. row' = [id \in Cookie |-> CASE id = drawn + 1 -> level [] id = carry /\ id # drawn + 1 -> "none" [] OTHER -> row[id]]
  BY DEF Draw
<1>4. row \in [Cookie -> {"none", "pending", "in"}]
  BY DEF GateInv, GateTypeOK
<1>5. ASSUME NEW id \in Cookie
      PROVE  (CASE id = drawn + 1 -> level [] id = carry /\ id # drawn + 1 -> "none" [] OTHER -> row[id])
               \in {"none", "pending", "in"}
  <2>1. CASE id = drawn + 1
    BY <2>1
  <2>2. CASE id = carry /\ id # drawn + 1
    BY <2>2
  <2>3. CASE id # drawn + 1 /\ id # carry
    BY <1>4, <2>3
  <2> QED
    BY <2>1, <2>2, <2>3
<1>6. row' \in [Cookie -> {"none", "pending", "in"}]
  BY <1>3, <1>5
<1> QED
  BY <1>1, <1>2, <1>6

LEMMA SubmitKeeps == ASSUME NEW w \in Window, GateInv, Submit(w) PROVE GateInv'
<1>1. UNCHANGED <<open, owner, row, drawn, cookie, gate, token, deaf, news, check, call>>
  BY DEF Submit, server
<1>2. events' \in Nat
  BY DEF Submit, Counted, GateInv, GateTypeOK
<1>3. gate[w] \in What /\ form' = [form EXCEPT ![w] = Send(w, gate[w])]
  BY DEF Submit, What
<1>4. Send(w, gate[w]) \in Exchange /\ Send(w, gate[w]).told = "none"
  BY <1>3, SendTyped DEF GateInv
<1>5. GateTypeOK'
  BY <1>1, <1>2, <1>3, <1>4 DEF GateInv, GateTypeOK
<1>6. AnswersBringSessions'
  BY <1>1, <1>3, <1>4 DEF GateInv, GateTypeOK, AnswersBringSessions
<1> QED
  BY <1>1, <1>5, <1>6 DEF GateInv

\* The form is answered.
LEMMA FormTold ==
  ASSUME NEW w \in Window, NEW what \in Answers, NEW id \in Token, GateInv,
         what = "ok" => id # NoCookie,
         form' = [form EXCEPT ![w] = Tell(@, what, id)]
  PROVE  form' \in [Window -> Exchange] /\ \A v \in Window : form'[v].told = "ok" => form'[v].got # NoCookie
<1> DEFINE answer == Tell(form[w], what, id)
<1>1. form' = [form EXCEPT ![w] = answer] /\ form \in [Window -> Exchange]
  BY DEF GateInv, GateTypeOK
<1>2. answer \in Exchange /\ (answer.told = "ok" => answer.got # NoCookie)
  BY <1>1, TellTyped
<1> HIDE DEF answer
<1> QED
  BY <1>1, <1>2 DEF GateInv, AnswersBringSessions

LEMMA FormServedKeeps == ASSUME NEW w \in Window, GateInv, FormServed(w) PROVE GateInv'
<1>1. UNCHANGED <<open, cookie, gate, token, deaf, news, check, call, events>>
  BY DEF FormServed, server
<1>2. owner' \in BOOLEAN
  BY DEF FormServed, server, GateInv, GateTypeOK
<1>3. form[w].carry \in Token
  BY DEF GateInv, GateTypeOK, Exchange, Token
<1>4. /\ form' \in [Window -> Exchange] /\ \A v \in Window : form'[v].told = "ok" => form'[v].got # NoCookie
      /\ drawn' \in 0..MaxSessions /\ row' \in [Cookie -> {"none", "pending", "in"}]
  <2>1. ASSUME NEW level \in {"pending", "in"}, NEW what \in {"ok", "pending"}, Draw(form[w].carry, level),
               form' = [form EXCEPT ![w] = Tell(@, what, drawn + 1)]
        PROVE  <1>4!:
    <3> DEFINE id == drawn + 1
    <3>1. id \in Token /\ id # NoCookie /\ what \in Answers
      BY <2>1, DrawTyped DEF Token, Answers
    <3>2. drawn' \in 0..MaxSessions /\ row' \in [Cookie -> {"none", "pending", "in"}]
      BY <2>1, DrawTyped
    <3>3. form' = [form EXCEPT ![w] = Tell(@, what, id)]
      BY <2>1
    <3> HIDE DEF id
    <3>4. form' \in [Window -> Exchange] /\ \A v \in Window : form'[v].told = "ok" => form'[v].got # NoCookie
      BY <3>1, <3>3, FormTold
    <3> QED
      BY <3>2, <3>4
  <2>2. ASSUME NEW what \in {"refused", "expired", "401"}, UNCHANGED server,
               form' = [form EXCEPT ![w] = Tell(@, what, form[w].carry)]
        PROVE  <1>4!:
    <3>1. what \in Answers /\ what # "ok"
      BY DEF Answers
    <3> QED
      BY <1>3, <2>2, <3>1, FormTold DEF server, GateInv, GateTypeOK
  <2> QED
    BY <2>1, <2>2 DEF FormServed
<1>5. GateTypeOK'
  BY <1>1, <1>2, <1>4 DEF GateInv, GateTypeOK
<1>6. AnswersBringSessions'
  BY <1>1, <1>4 DEF GateInv, AnswersBringSessions
<1> QED
  BY <1>1, <1>5, <1>6 DEF GateInv

LEMMA FormRefusedKeeps == ASSUME NEW w \in Window, GateInv, FormRefused(w) PROVE GateInv'
<1>1. UNCHANGED <<open, owner, row, drawn, cookie, deaf, news, check, call, events>>
  BY DEF FormRefused, Quiet, server
<1>2. form' = [form EXCEPT ![w] = NoExchange]
  BY DEF FormRefused
<1>3. /\ token' \in [Window -> Cookie \cup {NoCookie}] /\ gate' \in [Window -> Shown]
      /\ \A v \in Window : gate'[v] = "ready" => token'[v] # NoCookie
  BY EndBrowserSessionKeeps DEF FormRefused, GateInv, GateTypeOK, Shown
<1> QED
  BY <1>1, <1>2, <1>3, NoExchangeTyped DEF GateInv, GateTypeOK, AnswersBringSessions

LEMMA FormHalfwayKeeps == ASSUME NEW w \in Window, GateInv, FormHalfway(w) PROVE GateInv'
<1>1. /\ cookie' = form[w].got /\ gate' = [gate EXCEPT ![w] = "mfa"] /\ form' = [form EXCEPT ![w] = NoExchange]
      /\ UNCHANGED <<open, owner, row, drawn, token, deaf, news, check, call, events>>
  BY DEF FormHalfway, server
<1>2. cookie' \in Cookie \cup {NoCookie}
  BY <1>1 DEF GateInv, GateTypeOK, Exchange
<1> QED
  BY <1>1, <1>2, NoExchangeTyped DEF GateInv, GateTypeOK, AnswersBringSessions, Shown

LEMMA FormAcceptedKeeps == ASSUME NEW w \in Window, GateInv, FormAccepted(w) PROVE GateInv'
<1> DEFINE own == [Ask EXCEPT !.carry = form[w].got]
           waits == [NoExchange EXCEPT !.at = "recheck"]
<1>1. /\ cookie' = form[w].got /\ token' = [token EXCEPT ![w] = form[w].got]
      /\ UNCHANGED <<open, owner, row, drawn, gate, deaf, call, events>>
  BY DEF FormAccepted, server
<1>2. form[w].got \in Cookie \cup {NoCookie} /\ form[w].got # NoCookie
  BY DEF FormAccepted, GateInv, GateTypeOK, Exchange, AnswersBringSessions
<1>3. news' \in [Window -> Nat]
  BY NotifyTyped DEF FormAccepted
<1>4. own \in Exchange /\ own.at = "asked" /\ own.told = "none"
  BY <1>2, AskTyped DEF GateInv, Exchange
<1>5. waits \in Exchange /\ waits.told = "none"
  BY DEF NoExchange, Exchange
<1>6. \/ check' = [check EXCEPT ![w] = own] /\ form' = [form EXCEPT ![w] = waits]
      \/ UNCHANGED check /\ form' = [form EXCEPT ![w] = NoExchange]
  BY DEF FormAccepted
<1> HIDE DEF own, waits
<1>7. GateTypeOK'
  BY <1>1, <1>2, <1>3, <1>4, <1>5, <1>6, NoExchangeTyped DEF GateInv, GateTypeOK
<1>8. AnswersBringSessions'
  BY <1>1, <1>4, <1>5, <1>6, NoExchangeTyped DEF GateInv, GateTypeOK, AnswersBringSessions
<1>9. \A v \in Window : gate'[v] = "ready" => token'[v] # NoCookie
  BY <1>1, <1>2 DEF GateInv, GateTypeOK
<1> QED
  BY <1>7, <1>8, <1>9 DEF GateInv

-----------------------------------------------------------------------------
(* Requests of App. *)
LEMMA AppRequestsKeeps == ASSUME NEW w \in Window, GateInv, AppRequests(w) PROVE GateInv'
<1>1. UNCHANGED <<open, owner, row, drawn, cookie, gate, token, deaf, news, check, form>>
  BY DEF AppRequests, server
<1>2. events' \in Nat
  BY DEF AppRequests, Counted, GateInv, GateTypeOK
<1>3. PICK what \in {"note", "logout", "password"} : call' = [call EXCEPT ![w] = Send(w, what)]
  BY DEF AppRequests
<1>4. Send(w, what) \in Exchange /\ Send(w, what).told = "none"
  BY SendTyped DEF GateInv, What
<1>5. GateTypeOK'
  BY <1>1, <1>2, <1>3, <1>4 DEF GateInv, GateTypeOK
<1>6. AnswersBringSessions'
  BY <1>1, <1>3, <1>4 DEF GateInv, GateTypeOK, AnswersBringSessions
<1> QED
  BY <1>1, <1>5, <1>6 DEF GateInv

\* A request of App is answered; only a new password brings a session.
LEMMA CallTold ==
  ASSUME NEW w \in Window, NEW what \in Answers, NEW id \in Token, GateInv,
         what = "ok" /\ call[w].what = "password" => id # NoCookie,
         call' = [call EXCEPT ![w] = Tell(@, what, id)]
  PROVE  /\ call' \in [Window -> Exchange]
         /\ \A v \in Window : call'[v].told = "ok" /\ call'[v].what = "password" => call'[v].got # NoCookie
<1> DEFINE answer == Tell(call[w], what, id)
<1>1. call' = [call EXCEPT ![w] = answer] /\ call \in [Window -> Exchange]
  BY DEF GateInv, GateTypeOK
<1>2. answer \in Exchange /\ (answer.told = "ok" /\ answer.what = "password" => answer.got # NoCookie)
  BY <1>1, TellTyped
<1> HIDE DEF answer
<1> QED
  BY <1>1, <1>2 DEF GateInv, AnswersBringSessions

LEMMA CallServedKeeps == ASSUME NEW w \in Window, GateInv, CallServed(w) PROVE GateInv'
<1>1. UNCHANGED <<open, cookie, gate, token, deaf, news, check, form, events>>
  BY DEF CallServed, server
<1>2. call[w].carry \in Token /\ NoCookie \in Token /\ {"401", "ok", "refused"} \subseteq Answers
  BY DEF GateInv, GateTypeOK, Exchange, Token, Answers
<1>3. /\ owner' \in BOOLEAN
      /\ call' \in [Window -> Exchange]
      /\ \A v \in Window : call'[v].told = "ok" /\ call'[v].what = "password" => call'[v].got # NoCookie
      /\ drawn' \in 0..MaxSessions /\ row' \in [Cookie -> {"none", "pending", "in"}]
  <2>1. ASSUME NEW what \in {"401", "refused"}, UNCHANGED server,
               call' = [call EXCEPT ![w] = Tell(@, what, NoCookie)]
        PROVE  <1>3!:
    BY <1>2, <2>1, CallTold DEF server, GateInv, GateTypeOK
  <2>2. ASSUME call[w].what = "note", UNCHANGED server,
               call' = [call EXCEPT ![w] = Tell(@, "ok", call[w].carry)]
        PROVE  <1>3!:
    BY <1>2, <2>2, CallTold DEF server, GateInv, GateTypeOK
  <2>3. ASSUME call[w].what = "logout", UNCHANGED <<open, owner, drawn>>,
               row' = [row EXCEPT ![call[w].carry] = "none"],
               call' = [call EXCEPT ![w] = Tell(@, "ok", NoCookie)]
        PROVE  <1>3!:
    BY <1>2, <2>3, CallTold DEF GateInv, GateTypeOK
  <2>4. ASSUME Draw(call[w].carry, "in"), UNCHANGED <<open, owner>>,
               call' = [call EXCEPT ![w] = Tell(@, "ok", drawn + 1)]
        PROVE  <1>3!:
    <3> DEFINE id == drawn + 1
    <3>1. id \in Token /\ id # NoCookie
      BY <2>4, DrawTyped DEF Token
    <3>2. drawn' \in 0..MaxSessions /\ row' \in [Cookie -> {"none", "pending", "in"}]
      BY <2>4, DrawTyped
    <3>3. call' = [call EXCEPT ![w] = Tell(@, "ok", id)]
      BY <2>4
    <3> HIDE DEF id
    <3>4. /\ call' \in [Window -> Exchange]
          /\ \A v \in Window : call'[v].told = "ok" /\ call'[v].what = "password" => call'[v].got # NoCookie
      BY <1>2, <3>1, <3>3, CallTold
    <3> QED
      BY <2>4, <3>2, <3>4 DEF GateInv, GateTypeOK
  <2> QED
    BY <2>1, <2>2, <2>3, <2>4 DEF CallServed
<1>4. GateTypeOK'
  BY <1>1, <1>3 DEF GateInv, GateTypeOK
<1>5. AnswersBringSessions'
  BY <1>1, <1>3 DEF GateInv, AnswersBringSessions
<1> QED
  BY <1>1, <1>4, <1>5 DEF GateInv

LEMMA CallHeardKeeps == ASSUME NEW w \in Window, GateInv, CallHeard(w) PROVE GateInv'
<1>1. UNCHANGED <<open, owner, row, drawn, deaf, check, form, events>> /\ call' = [call EXCEPT ![w] = NoExchange]
  BY DEF CallHeard, server
<1>2. call[w].got \in Cookie \cup {NoCookie}
  BY DEF GateInv, GateTypeOK, Exchange
<1>3. news' \in [Window -> Nat] /\ cookie' \in Cookie \cup {NoCookie}
  BY <1>2, NotifyTyped DEF CallHeard, GateInv, GateTypeOK
<1>4. /\ token' \in [Window -> Cookie \cup {NoCookie}] /\ gate' \in [Window -> Shown]
      /\ \A v \in Window : gate'[v] = "ready" => token'[v] # NoCookie
  <2>1. CASE EndBrowserSession(w)
    BY <2>1, EndBrowserSessionKeeps
  <2>2. CASE call[w].told = "ok" /\ call[w].what = "password" /\ token' = [token EXCEPT ![w] = call[w].got] /\ UNCHANGED gate
    BY <1>2, <2>2 DEF GateInv, GateTypeOK, AnswersBringSessions
  <2>3. CASE UNCHANGED <<gate, token>>
    BY <2>3 DEF GateInv, GateTypeOK
  <2> QED
    BY <2>1, <2>2, <2>3 DEF CallHeard
<1>5. GateTypeOK'
  BY <1>1, <1>3, <1>4, NoExchangeTyped DEF GateInv, GateTypeOK
<1>6. AnswersBringSessions'
  BY <1>1, NoExchangeTyped DEF GateInv, GateTypeOK, AnswersBringSessions
<1> QED
  BY <1>4, <1>5, <1>6 DEF GateInv

LEMMA AnswerLostKeeps == ASSUME NEW w \in Window, GateInv, AnswerLost(w) PROVE GateInv'
<1>1. UNCHANGED <<open, owner, row, drawn, cookie, gate, token, deaf, news, check>>
  BY DEF AnswerLost, server
<1>2. events' \in Nat
  BY DEF AnswerLost, Counted, GateInv, GateTypeOK
<1>3. \/ form' = [form EXCEPT ![w] = NoExchange] /\ UNCHANGED call
      \/ call' = [call EXCEPT ![w] = NoExchange] /\ UNCHANGED form
  BY DEF AnswerLost
<1>4. GateTypeOK'
  BY <1>1, <1>2, <1>3, NoExchangeTyped DEF GateInv, GateTypeOK
<1>5. AnswersBringSessions'
  BY <1>1, <1>3, NoExchangeTyped DEF GateInv, GateTypeOK, AnswersBringSessions
<1> QED
  BY <1>1, <1>4, <1>5 DEF GateInv

LEMMA SessionEndsKeeps == ASSUME GateInv, SessionEnds PROVE GateInv'
<1>1. UNCHANGED <<open, owner, drawn, cookie, gate, token, deaf, news, check, form, call, events>>
  BY DEF SessionEnds
<1>2. row' \in [Cookie -> {"none", "pending", "in"}]
  BY DEF SessionEnds, GateInv, GateTypeOK
<1> QED
  BY <1>1, <1>2 DEF GateInv, GateTypeOK, AnswersBringSessions

-----------------------------------------------------------------------------
LEMMA GateAtFirst == GateInit => GateInv
<1> SUFFICES ASSUME GateInit PROVE GateInv
  OBVIOUS
<1>1. /\ open \subseteq Window /\ owner \in BOOLEAN
      /\ gate = [w \in Window |-> "checking"] /\ token = [w \in Window |-> NoCookie]
      /\ deaf = [w \in Window |-> w \notin open] /\ news = [w \in Window |-> 0]
      /\ form = [w \in Window |-> NoExchange] /\ call = [w \in Window |-> NoExchange] /\ events = 0
      /\ check = [w \in Window |-> IF w \in open THEN Ask ELSE NoExchange]
      /\ row = [id \in Cookie |-> IF id <= drawn THEN "in" ELSE "none"] /\ cookie = drawn
  BY DEF GateInit
<1>2. drawn \in 0..MaxSessions
  BY WindowAssumption DEF GateInit
<1>3. cookie \in Cookie \cup {NoCookie}
  BY <1>1, <1>2, WindowAssumption DEF Cookie, NoCookie
<1>4. Ask \in Exchange /\ Ask.at = "asked" /\ Ask.told = "none"
  BY <1>3 DEF Ask, NoExchange, Exchange
<1>5. deaf \in [Window -> BOOLEAN]
  BY <1>1
<1>6. gate \in [Window -> Shown]
  BY <1>1 DEF Shown
<1>7. GateTypeOK
  BY <1>1, <1>2, <1>3, <1>4, <1>5, <1>6, NoExchangeTyped DEF GateTypeOK
<1>8. AnswersBringSessions
  BY <1>1, <1>4, NoExchangeTyped DEF AnswersBringSessions
<1> QED
  BY <1>1, <1>7, <1>8 DEF GateInv

LEMMA GateStays == GateInv /\ [GateNext]_gateVars => GateInv'
<1> SUFFICES ASSUME GateInv, [GateNext]_gateVars PROVE GateInv'
  OBVIOUS
<1>1. ASSUME NEW w \in open, GateStep(w) PROVE GateInv'
  <2>1. w \in Window
    BY DEF GateInv, GateTypeOK
  <2> QED
    BY <1>1, <2>1, StatusAnsweredKeeps, StatusBrokenKeeps, StatusHeardKeeps, HealthHeardKeeps, TryAgainKeeps, ReloadKeeps,
       UserReturnsKeeps, NewsArrivesKeeps, DeafKeeps, SubmitKeeps, FormServedKeeps, FormRefusedKeeps, FormHalfwayKeeps,
       FormAcceptedKeeps, AppRequestsKeeps, CallServedKeeps, CallHeardKeeps, AnswerLostKeeps DEF GateStep
<1>2. CASE UNCHANGED gateVars
  BY <1>2 DEF gateVars, GateInv, GateTypeOK, AnswersBringSessions
<1> QED
  BY <1>1, <1>2, SessionEndsKeeps DEF GateNext

\* Everything keeps its type for any number of windows, sessions and events.
THEOREM TypeCorrect == WindowSpec => []GateTypeOK
<1>1. GateInv => GateTypeOK
  BY DEF GateInv
<1> QED
  BY <1>1, GateAtFirst, GateStays, PTL DEF WindowSpec

\* A window that shows the application has a token, whatever checks, forms,
\* refused requests and lost answers overlap.
THEOREM TokenWhenReady == WindowSpec => []ReadyHasToken
<1>1. GateInv => ReadyHasToken
  BY DEF GateInv, GateTypeOK, ReadyHasToken
<1> QED
  BY <1>1, GateAtFirst, GateStays, PTL DEF WindowSpec
=============================================================================
