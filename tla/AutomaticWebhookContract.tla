----------------------- MODULE AutomaticWebhookContract -----------------------
(***************************************************************************)
(* What the automatic webhook capabilities promise.  A registration is one *)
(* register per kind.  An ensure may land its URL once, at any time, even  *)
(* after it has failed; it answers "ensured" at a moment the register      *)
(* holds its URL.  A gated observation answers "observed" at a moment the  *)
(* register holds the expected URL.  An event tells whether the run that   *)
(* it reports had changed the register.                                    *)
(***************************************************************************)

CONSTANTS Runs, Requests, NoRequest, Kinds, Registration, Ensuring, Kind, Wanted, Ungated

VARIABLES
  store,    \* the provider's registration of each kind
  claim,    \* claim[h]: the request run h serves
  landed,   \* runs whose PUT the provider accepted
  answer,   \* answer[h]: what run h concluded
  reported  \* <<run, changed>> pairs the core has heard of

vars == <<store, claim, landed, answer, reported>>

Init ==
  /\ store \in [Kinds -> Registration]
  /\ claim = [h \in Runs |-> NoRequest]
  /\ landed = {}
  /\ answer = [h \in Runs |-> "none"]
  /\ reported = {}

Claim(h, r) ==
  /\ claim[h] = NoRequest
  /\ claim' = [claim EXCEPT ![h] = r]
  /\ UNCHANGED <<store, landed, answer, reported>>

Land(h) ==
  /\ claim[h] \in Ensuring
  /\ h \notin landed
  /\ landed' = landed \cup {h}
  /\ store' = [store EXCEPT ![Kind[claim[h]]] = Wanted[claim[h]]]
  /\ UNCHANGED <<claim, answer, reported>>

\* The register holds what the request wants, or the request wants nothing.
Holds(r) == Wanted[r] = Ungated \/ store[Kind[r]] = Wanted[r]

Prove(h) ==
  /\ claim[h] # NoRequest
  /\ answer[h] = "none"
  /\ Kind[claim[h]] \in Kinds
  /\ Holds(claim[h])
  /\ answer' = [answer EXCEPT ![h] =
                  IF claim[h] \in Ensuring THEN "ensured" ELSE "observed"]
  /\ UNCHANGED <<store, claim, landed, reported>>

Fail(h) ==
  /\ claim[h] # NoRequest
  /\ answer[h] = "none"
  /\ answer' = [answer EXCEPT ![h] = "failed"]
  /\ UNCHANGED <<store, claim, landed, reported>>

Report(h) ==
  /\ answer[h] = "ensured"
  /\ reported' = reported \cup {<<h, h \in landed>>}
  /\ UNCHANGED <<store, claim, landed, answer>>

Overwrite(k, registration) ==
  /\ store' = [store EXCEPT ![k] = registration]
  /\ UNCHANGED <<claim, landed, answer, reported>>

Next ==
  \/ \E h \in Runs, r \in Requests : Claim(h, r)
  \/ \E h \in Runs : Land(h) \/ Prove(h) \/ Fail(h) \/ Report(h)
  \/ \E k \in Kinds, registration \in Registration : Overwrite(k, registration)

Spec == Init /\ [][Next]_vars
===============================================================================
