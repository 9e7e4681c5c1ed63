---------------------------- MODULE SetterContract ----------------------------
(***************************************************************************)
(* What the confidential setter promises, whatever its handlers, transports *)
(* and clocks do: a run that serves an ensure request may land one setter  *)
(* of that request on the provider, at any time, even after it answered;   *)
(* it answers "held" or "confirmed" only after its setter has landed; and  *)
(* an event is published only for such a run.  Any other answer, and no    *)
(* answer at all, says nothing about the provider.                         *)
(***************************************************************************)

CONSTANTS Runs, Requests, NoRequest, Keys, Registration, Ensuring, Key, CanonicalBase

VARIABLES
  store,    \* the provider's registrations
  claim,    \* claim[h]: the request run h serves
  landed,   \* runs whose setter the provider accepted
  answer,   \* answer[h]: what run h concluded
  published \* <<request, answer>> pairs the core has heard of

vars == <<store, claim, landed, answer, published>>

Init ==
  /\ store \in [Keys -> Registration]
  /\ claim = [h \in Runs |-> NoRequest]
  /\ landed = {}
  /\ answer = [h \in Runs |-> "none"]
  /\ published = {}

\* A run takes a request up, and may refuse it at once.
Claim(h, r, a) ==
  /\ claim[h] = NoRequest
  /\ a \in {"none", "failed"}
  /\ claim' = [claim EXCEPT ![h] = r]
  /\ answer' = [answer EXCEPT ![h] = a]
  /\ UNCHANGED <<store, landed, published>>

Land(h) ==
  /\ claim[h] \in Ensuring
  /\ h \notin landed
  /\ landed' = landed \cup {h}
  /\ store' = [store EXCEPT ![Key[claim[h]]] = CanonicalBase[claim[h]]]
  /\ UNCHANGED <<claim, answer, published>>

Answer(h, a) ==
  /\ claim[h] # NoRequest
  /\ answer[h] = "none"
  /\ a \in {"failed", "observed", "held", "confirmed"}
  /\ a \in {"held", "confirmed"} => h \in landed
  /\ answer' = [answer EXCEPT ![h] = a]
  /\ UNCHANGED <<store, claim, landed, published>>

Publish(h) ==
  /\ answer[h] \in {"held", "confirmed"}
  /\ published' = published \cup {<<claim[h], answer[h]>>}
  /\ UNCHANGED <<store, claim, landed, answer>>

\* Another writer of the account.
Overwrite(k, registration) ==
  /\ store' = [store EXCEPT ![k] = registration]
  /\ UNCHANGED <<claim, landed, answer, published>>

Next ==
  \/ \E h \in Runs, r \in Requests, a \in {"none", "failed"} : Claim(h, r, a)
  \/ \E h \in Runs : Land(h) \/ Publish(h)
  \/ \E h \in Runs, a \in {"failed", "observed", "held", "confirmed"} : Answer(h, a)
  \/ \E k \in Keys, registration \in Registration : Overwrite(k, registration)

Spec == Init /\ [][Next]_vars
===============================================================================
