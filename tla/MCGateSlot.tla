------------------------------ MODULE MCGateSlot ------------------------------
(***************************************************************************)
(* What must come back, on small instances for TLC: the slot of the login  *)
(* throttle (CredentialGate), and the right page in the windows of a       *)
(* browser (BrowserGate).  They share no state that is modelled: in a      *)
(* behaviour one of them runs and the other stays at rest.                 *)
(***************************************************************************)
EXTENDS CredentialGate, BrowserGate

VARIABLE part   \* the one that runs

SlotInit ==
  /\ part \in {"server", "browser"}
  /\ Init /\ GateInit
  /\ IF part = "browser" THEN open # {} ELSE open = {} /\ ~owner

\* A step of one part.
Server(A) == part = "server" /\ A /\ UNCHANGED <<part, gateVars>>
Browser(A) == part = "browser" /\ A /\ UNCHANGED <<part, vars>>
Page(w, A) == w \in open /\ Browser(A)

\* The operations of the browser by name: TLC counts the steps of each.
BrowserSteps ==
  \/ Browser(SessionEnds)
  \/ \E w \in Window :
       \/ Page(w, StatusAnswered(w)) \/ Page(w, StatusBroken(w))
       \/ Page(w, StatusHeard(w)) \/ Page(w, HealthHeard(w))
       \/ Page(w, TryAgain(w)) \/ Page(w, Reload(w))
       \/ Page(w, UserReturns(w)) \/ Page(w, NewsArrives(w))
       \/ Page(w, UserHides(w)) \/ Page(w, SecondPasses(w))
       \/ Page(w, Submit(w)) \/ Page(w, FormServed(w))
       \/ Page(w, FormRefused(w)) \/ Page(w, FormHalfway(w))
       \/ Page(w, FormAccepted(w)) \/ Page(w, AppRequests(w))
       \/ Page(w, CallServed(w)) \/ Page(w, CallHeard(w))
       \/ Page(w, AnswerLost(w))

SlotNext == Server(Next) \/ BrowserSteps

SlotSpec == SlotInit /\ [][SlotNext]_<<part, vars, gateVars>> /\ Fairness /\ GateFairness
=============================================================================
