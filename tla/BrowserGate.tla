----------------------------- MODULE BrowserGate -----------------------------
(***************************************************************************)
(* The authentication gate of the browser (frontend/src/AuthGate.tsx and   *)
(* api.ts) in several windows that share one session cookie: what a window *)
(* shows, its CSRF token, the check of the status, the form, and the       *)
(* requests of the application that sign in, sign out or are refused.      *)
(*                                                                         *)
(* A request carries the cookie of the moment it is sent; the answer sets  *)
(* the cookie when it arrives.  Local mode only: in the disabled mode the  *)
(* gate is always ready and there is neither session nor token.            *)
(***************************************************************************)
EXTENDS Naturals, FiniteSets

CONSTANTS
  Window,
  MaxSessions,   \* bound: sessions drawn
  MaxEvents      \* bound: forms and requests sent and answers lost, times the windows open

ASSUME WindowAssumption == MaxSessions \in Nat /\ MaxEvents \in Nat

VARIABLES
  open,     \* the windows of the browser
  owner,    \* the server: whether an owner is set up
  row,      \* the server: session -> what it grants
  drawn,    \* the last session drawn
  cookie,   \* the session the cookie of the browser names
  gate,     \* what the window shows (state)
  token,    \* csrfToken: the session it belongs to, or 0
  deaf,     \* retry would return: hidden, or within a second of the last one
  news,     \* 'changed' messages on their way to the window
  check,    \* the call of check in flight, if any (checking.current)
  form,     \* the submission in flight (busy)
  call,     \* a request of App in flight
  events    \* forms and requests sent and answers lost

gateVars == <<open, owner, row, drawn, cookie, gate, token, deaf, news, check, form, call, events>>

-----------------------------------------------------------------------------
Cookie == 1..MaxSessions
NoCookie == 0

Shown == {"checking", "ready", "setup", "login", "mfa", "unreachable", "update"}

\* "asked": the server has not answered.  "told": the answer is on its way.
\* "health": check awaits /api/health.  "recheck": submit awaits its own check.
Exchange ==
  [at: {"no", "asked", "told", "health", "recheck"}, what: {"none", "setup", "login", "mfa", "note", "logout", "password"},
   carry: Cookie \cup {NoCookie}, told: {"none", "ok", "401", "expired", "refused", "pending", "broken"} \cup Shown,
   got: Cookie \cup {NoCookie}, csrf: BOOLEAN]
NoExchange == [at |-> "no", what |-> "none", carry |-> NoCookie, told |-> "none", got |-> NoCookie, csrf |-> FALSE]

Ask == [NoExchange EXCEPT !.at = "asked", !.carry = cookie]

\* apiFetch: the token it sends is, or is not, that of the session it carries.
Send(w, what) == [Ask EXCEPT !.what = what, !.csrf = (token[w] = cookie)]
Tell(request, what, id) == [request EXCEPT !.at = "told", !.told = what, !.got = id]

Grants(id) == IF id = NoCookie THEN "none" ELSE row[id]

\* What GET /api/auth/status says to a request that carries the session.
StatusOf(id) ==
  CASE Grants(id) = "in" -> "ready"
    [] Grants(id) # "in" /\ ~owner -> "setup"
    [] Grants(id) = "pending" /\ owner -> "mfa"
    [] OTHER -> "login"

GateInit ==
  /\ open \in SUBSET Window
  /\ owner \in BOOLEAN
  /\ drawn \in IF owner /\ MaxSessions > 0 THEN {0, 1} ELSE {0}
  /\ row = [id \in Cookie |-> IF id <= drawn THEN "in" ELSE "none"]
  /\ cookie = drawn
  /\ gate = [w \in Window |-> "checking"]
  /\ token = [w \in Window |-> NoCookie]
  /\ deaf = [w \in Window |-> w \notin open]
  /\ news = [w \in Window |-> 0]
  /\ check = [w \in Window |-> IF w \in open THEN Ask ELSE NoExchange]
  /\ form = [w \in Window |-> NoExchange]
  /\ call = [w \in Window |-> NoExchange]
  /\ events = 0

server == <<open, owner, row, drawn>>
Counted == events * Cardinality(open) < MaxEvents /\ events' = events + 1
Quiet == UNCHANGED <<server, cookie, events>>

-----------------------------------------------------------------------------
(* check: dropped while another one is in flight. *)
Checked(w) == IF check[w].at = "no" THEN [check EXCEPT ![w] = Ask] ELSE check

\* Mutant: checking.current is not reset.
MutCheckEnds(w) ==
  /\ UNCHANGED check
  /\ form' = IF form[w].at = "recheck" THEN [form EXCEPT ![w] = NoExchange] ELSE form

\* check returns; the submission that awaited it ends.
CheckEnds(w) ==
  /\ check' = [check EXCEPT ![w] = NoExchange]
  /\ form' = IF form[w].at = "recheck" THEN [form EXCEPT ![w] = NoExchange] ELSE form

StatusAnswered(w) ==
  /\ check[w].at = "asked"
  /\ check' = [check EXCEPT ![w] = Tell(@, StatusOf(@.carry), @.carry)]
  /\ UNCHANGED <<gate, token, deaf, news, form, call>> /\ Quiet

\* The proxy or another version answers, or nobody does.
StatusBroken(w) ==
  /\ check[w].at \in {"asked", "health"}
  /\ Counted
  /\ \E shown \in {"unreachable", "update"} : gate' = [gate EXCEPT ![w] = shown]
  /\ CheckEnds(w)
  /\ UNCHANGED <<server, cookie, token, deaf, news, call>>

StatusHeard(w) ==
  /\ check[w].at = "told"
  /\ token' = [token EXCEPT ![w] = IF check[w].told = "ready" THEN check[w].got ELSE NoCookie]
  /\ gate' = [gate EXCEPT ![w] = check[w].told]
  /\ check' = [check EXCEPT ![w] = [NoExchange EXCEPT !.at = "health"]]
  /\ UNCHANGED <<deaf, news, form, call>> /\ Quiet

HealthHeard(w) ==
  /\ check[w].at = "health"
  /\ CheckEnds(w)
  /\ UNCHANGED <<gate, token, deaf, news, call>> /\ Quiet

\* "Try again": check without the limit of retry.
TryAgain(w) ==
  /\ gate[w] = "unreachable"
  /\ check[w].at = "no"
  /\ check' = Checked(w)
  /\ UNCHANGED <<gate, token, deaf, news, form, call>> /\ Quiet

\* The page is loaded again: what was in flight finds nobody.
Reload(w) ==
  /\ gate[w] = "update"
  /\ gate' = [gate EXCEPT ![w] = "checking"]
  /\ token' = [token EXCEPT ![w] = NoCookie]
  /\ check' = [check EXCEPT ![w] = Ask]
  /\ form' = [form EXCEPT ![w] = NoExchange]
  /\ call' = [call EXCEPT ![w] = NoExchange]
  /\ UNCHANGED <<deaf, news>> /\ Quiet

-----------------------------------------------------------------------------
(* retry: the window gets the focus, becomes visible or is online again,   *)
(* or another window says that the sign-in changed.                        *)
Retry(w) ==
  IF deaf[w] THEN UNCHANGED <<deaf, check>>
  ELSE deaf' = [deaf EXCEPT ![w] = TRUE] /\ check' = Checked(w)

UserReturns(w) ==
  /\ ~deaf[w]
  /\ Retry(w)
  /\ UNCHANGED <<gate, token, news, form, call>> /\ Quiet

NewsArrives(w) ==
  /\ news[w] > 0
  /\ news' = [news EXCEPT ![w] = @ - 1]
  /\ Retry(w)
  /\ UNCHANGED <<gate, token, form, call>> /\ Quiet

UserHides(w) ==
  /\ ~deaf[w]
  /\ deaf' = [deaf EXCEPT ![w] = TRUE]
  /\ UNCHANGED <<gate, token, news, check, form, call>> /\ Quiet

SecondPasses(w) ==
  /\ w \in open /\ deaf[w]
  /\ deaf' = [deaf EXCEPT ![w] = FALSE]
  /\ UNCHANGED <<gate, token, news, check, form, call>> /\ Quiet

\* Every channel of the browser hears it, the sender's own listener included.
NotifyAuthChanged == news' = [v \in Window |-> IF v \in open THEN news[v] + 1 ELSE 0]

\* Mutant: the token goes, the application stays.
MutEndBrowserSession(w) == token' = [token EXCEPT ![w] = NoCookie] /\ UNCHANGED gate

EndBrowserSession(w) ==
  /\ token' = [token EXCEPT ![w] = NoCookie]
  /\ gate' = [gate EXCEPT ![w] = "login"]

-----------------------------------------------------------------------------
(* The form. *)
Submit(w) ==
  /\ gate[w] \in {"setup", "login", "mfa"}
  /\ form[w].at = "no"
  /\ form' = [form EXCEPT ![w] = Send(w, gate[w])]
  /\ UNCHANGED <<gate, token, deaf, news, check, call>>
  /\ Counted
  /\ UNCHANGED <<server, cookie>>

\* A new session takes the place of the one the request carried.
Draw(carry, level) ==
  /\ drawn < MaxSessions
  /\ drawn' = drawn + 1
  /\ row' = [id \in Cookie |-> CASE id = drawn + 1 -> level [] id = carry /\ id # drawn + 1 -> "none" [] OTHER -> row[id]]

\* csrfProtection: without a session that is signed in, the form needs no token.
FormServed(w) ==
  LET sent == form[w]
      Answer(what, id) == form' = [form EXCEPT ![w] = Tell(@, what, id)]
      passes == sent.csrf \/ Grants(sent.carry) # "in"
      available == sent.what = "mfa" \/ (sent.what = "setup") = ~owner
  IN  /\ sent.at = "asked"
      /\ \/ /\ sent.what = "setup" /\ ~owner
            /\ Draw(sent.carry, "in")
            /\ owner' = TRUE /\ UNCHANGED open
            /\ Answer("ok", drawn + 1)
         \/ /\ sent.what = "login" /\ owner /\ passes
            /\ \/ Draw(sent.carry, "in") /\ Answer("ok", drawn + 1)
               \/ Draw(sent.carry, "pending") /\ Answer("pending", drawn + 1)
            /\ UNCHANGED <<open, owner>>
         \/ /\ sent.what = "mfa" /\ Grants(sent.carry) = "pending"
            /\ Draw(sent.carry, "in")
            /\ Answer("ok", drawn + 1)
            /\ UNCHANGED <<open, owner>>
         \/ /\ Answer(IF ~passes \/ ~available THEN "refused"
                      ELSE IF sent.what = "mfa" /\ Grants(sent.carry) # "pending" THEN "expired" ELSE "401", sent.carry)
            /\ UNCHANGED server
      /\ UNCHANGED <<cookie, gate, token, deaf, news, check, call, events>>

\* Neither login nor its second step counts as a lost session; setup does.
FormRefused(w) ==
  /\ form[w].at = "told" /\ form[w].told \in {"401", "expired", "refused"}
  /\ IF form[w].told = "401" /\ form[w].what = "setup" THEN EndBrowserSession(w)
     ELSE /\ gate' = IF form[w].told = "expired" THEN [gate EXCEPT ![w] = "login"] ELSE gate
          /\ UNCHANGED token
  /\ form' = [form EXCEPT ![w] = NoExchange]
  /\ UNCHANGED <<deaf, news, check, call>> /\ Quiet

FormHalfway(w) ==
  /\ form[w].at = "told" /\ form[w].told = "pending"
  /\ cookie' = form[w].got
  /\ gate' = [gate EXCEPT ![w] = "mfa"]
  /\ form' = [form EXCEPT ![w] = NoExchange]
  /\ UNCHANGED <<server, token, deaf, news, check, call, events>>

\* Its own check carries the new cookie, unless another check is in flight.
FormAccepted(w) ==
  /\ form[w].at = "told" /\ form[w].told = "ok"
  /\ cookie' = form[w].got
  /\ token' = [token EXCEPT ![w] = form[w].got]
  /\ NotifyAuthChanged
  /\ IF check[w].at = "no"
     THEN /\ check' = [check EXCEPT ![w] = [Ask EXCEPT !.carry = form[w].got]]
          /\ form' = [form EXCEPT ![w] = [NoExchange EXCEPT !.at = "recheck"]]
     ELSE form' = [form EXCEPT ![w] = NoExchange] /\ UNCHANGED check
  /\ UNCHANGED <<server, gate, deaf, call, events>>

-----------------------------------------------------------------------------
(* Requests of App: a note, signing out, a change of the password. *)
Request401(w) == call[w].told = "401"

AppRequests(w) ==
  /\ gate[w] = "ready"
  /\ call[w].at = "no"
  /\ \E what \in {"note", "logout", "password"} : call' = [call EXCEPT ![w] = Send(w, what)]
  /\ UNCHANGED <<gate, token, deaf, news, check, form>>
  /\ Counted
  /\ UNCHANGED <<server, cookie>>

\* authenticationBoundary, then csrfProtection, then the route.
CallServed(w) ==
  LET sent == call[w]
      Answer(what, id) == call' = [call EXCEPT ![w] = Tell(@, what, id)]
  IN  /\ sent.at = "asked"
      /\ \/ Grants(sent.carry) # "in" /\ Answer("401", NoCookie) /\ UNCHANGED server
         \/ /\ Grants(sent.carry) = "in"
            /\ \/ sent.what = "note" /\ Answer("ok", sent.carry) /\ UNCHANGED server
               \/ sent.what # "note" /\ ~sent.csrf /\ Answer("refused", NoCookie) /\ UNCHANGED server
               \/ /\ sent.what = "logout" /\ sent.csrf
                  /\ row' = [row EXCEPT ![sent.carry] = "none"]
                  /\ Answer("ok", NoCookie)
                  /\ UNCHANGED <<open, owner, drawn>>
               \/ /\ sent.what = "password" /\ sent.csrf
                  /\ Draw(sent.carry, "in")
                  /\ Answer("ok", drawn + 1)
                  /\ UNCHANGED <<open, owner>>
               \/ sent.what = "password" /\ sent.csrf /\ Answer("401", NoCookie) /\ UNCHANGED server
      /\ UNCHANGED <<cookie, gate, token, deaf, news, check, form, events>>

CallHeard(w) ==
  /\ call[w].at = "told"
  /\ call' = [call EXCEPT ![w] = NoExchange]
  /\ \/ Request401(w) /\ EndBrowserSession(w) /\ UNCHANGED <<cookie, news>>
     \/ call[w].told = "ok" /\ call[w].what = "logout" /\ EndBrowserSession(w) /\ NotifyAuthChanged /\ cookie' = NoCookie
     \/ /\ call[w].told = "ok" /\ call[w].what = "password"
        /\ token' = [token EXCEPT ![w] = call[w].got]
        /\ cookie' = call[w].got
        /\ NotifyAuthChanged
        /\ UNCHANGED gate
     \/ (call[w].told = "refused" \/ call[w].what = "note") /\ ~Request401(w) /\ UNCHANGED <<gate, token, cookie, news>>
  /\ UNCHANGED <<server, deaf, check, form, events>>

\* The answer to the form or to App is lost, before or after the server acted.
AnswerLost(w) ==
  /\ Counted
  /\ \/ form[w].at \in {"asked", "told"} /\ form' = [form EXCEPT ![w] = NoExchange] /\ UNCHANGED call
     \/ call[w].at \in {"asked", "told"} /\ call' = [call EXCEPT ![w] = NoExchange] /\ UNCHANGED form
  /\ UNCHANGED <<server, cookie, gate, token, deaf, news, check>>

\* A session expires or is revoked by another device.
SessionEnds ==
  /\ \E id \in Cookie : row[id] # "none" /\ row' = [row EXCEPT ![id] = "none"]
  /\ UNCHANGED <<open, owner, drawn, cookie, gate, token, deaf, news, check, form, call, events>>

-----------------------------------------------------------------------------
GateStep(w) ==
  \/ StatusAnswered(w) \/ StatusBroken(w) \/ StatusHeard(w) \/ HealthHeard(w)
  \/ TryAgain(w) \/ Reload(w)
  \/ UserReturns(w) \/ NewsArrives(w) \/ UserHides(w) \/ SecondPasses(w)
  \/ Submit(w) \/ FormServed(w) \/ FormRefused(w) \/ FormHalfway(w) \/ FormAccepted(w)
  \/ AppRequests(w) \/ CallServed(w) \/ CallHeard(w) \/ AnswerLost(w)

GateNext == SessionEnds \/ \E w \in open : GateStep(w)

\* The server answers, answers arrive, time passes, and the user comes back to
\* every window.
CheckGoesOn(w) == StatusAnswered(w) \/ StatusHeard(w) \/ HealthHeard(w)

GateFairness ==
  \A w \in Window : WF_gateVars(CheckGoesOn(w)) /\ WF_gateVars(SecondPasses(w)) /\ SF_gateVars(UserReturns(w))

-----------------------------------------------------------------------------
GateTypeOK ==
  /\ open \subseteq Window
  /\ owner \in BOOLEAN
  /\ row \in [Cookie -> {"none", "pending", "in"}]
  /\ drawn \in 0..MaxSessions /\ cookie \in Cookie \cup {NoCookie}
  /\ gate \in [Window -> Shown]
  /\ token \in [Window -> Cookie \cup {NoCookie}]
  /\ deaf \in [Window -> BOOLEAN] /\ news \in [Window -> Nat]
  /\ check \in [Window -> Exchange] /\ form \in [Window -> Exchange] /\ call \in [Window -> Exchange]
  /\ events \in Nat

\* A window that shows the application holds the token of a session: whatever
\* ends its session (a refused request, signing out, an answer to the form that
\* overtakes a check) takes both away together, and no late answer gives back
\* one of them only.
ReadyHasToken == \A w \in open : gate[w] = "ready" => token[w] # NoCookie

\* What the window shows, and the token it holds, are those of the session the
\* cookie names.
Agrees(w) ==
  /\ gate[w] = StatusOf(cookie)
  /\ gate[w] = "ready" => token[w] = cookie

\* Checks are dropped while one is in flight and messages while the window is
\* hidden or has just checked, answers overtake each other, and 401 answers
\* belong to sessions already replaced: a window may show the wrong thing for a
\* while, but as long as its user comes back it is right again and again.
GateFollowsServer == \A w \in Window : []<>(w \in open => Agrees(w))
=============================================================================
