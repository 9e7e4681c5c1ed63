--------------------------- MODULE AutomaticWebhook ---------------------------
(***************************************************************************)
(* The Pix Automatico webhook capabilities: ensure reads the registration  *)
(* of one kind, PUTs its URL once if nothing or another URL is registered, *)
(* reads it back and posts one event; observe reads it, as a gate when an  *)
(* expected URL is given.  Runs are concurrent and a request may be served *)
(* again: the broker redelivers and callers retry.  The path runs without  *)
(* a handler deadline, so only the HTTP clients' timeouts end an exchange  *)
(* (the provider may still apply a PUT after that) and only the death of   *)
(* the process ends a run.                                                 *)
(*                                                                         *)
(* Abstracted: URL syntax (a request is well formed or not), redaction of  *)
(* the output, the settlement of the delivery (see ConfidentialEnsure).    *)
(***************************************************************************)
EXTENDS Naturals

CONSTANTS
  Runs,        \* invocations of the capability
  Requests,    \* requests: one immutable input each
  Kinds,       \* "rec" and "cobr": one registration each
  Urls,        \* receiver URLs
  Absent,      \* no registration
  NoRequest,   \* a run that serves nothing yet
  Ungated,     \* an observation without expected_webhook_url
  Ensuring,    \* the ensure requests; the others observe
  Kind,        \* Kind[r]: outside Kinds when the input is refused
  Wanted,      \* Wanted[r]: webhook_url, or expected_webhook_url
  MaxRetries,  \* times the emitter posts an event
  MaxForeign   \* bound: writes by other writers of the account

ASSUME InputsAssumption ==
  /\ Absent \notin Urls /\ Ungated \notin Urls \cup {Absent}
  /\ NoRequest \notin Requests
  /\ Ensuring \subseteq Requests
  /\ Wanted \in [Requests -> Urls \cup {Ungated}]
  /\ \A r \in Ensuring : Wanted[r] # Ungated
  /\ {MaxRetries, MaxForeign} \subseteq Nat /\ MaxRetries > 0

VARIABLES
  regs,     \* the provider's registration of each kind
  foreign,  \* writes other writers have made
  pc,       \* pc[h]: next step of run h
  req,      \* req[h]: request run h serves
  current,  \* current[h]: what its first GET returned
  wire,     \* wire[h]: its PUT, as the provider holds it
  changed,  \* changed[h]: it saw its PUT acknowledged
  answer,   \* answer[h]: what it concluded
  attempts, \* attempts[h]: posts of its event so far
  inbox     \* events the core has accepted

provider == <<regs, foreign>>
run == <<req, current, wire, changed>>
vars == <<provider, run, pc, answer, attempts, inbox>>

Registration == Urls \cup {Absent}
Registered(h) == regs[Kind[req[h]]]
Desired(h) == Wanted[req[h]]
Live(h) == pc[h] \notin {"idle", "done", "dead"}

Init ==
  /\ regs \in [Kinds -> Registration]
  /\ foreign = 0
  /\ pc = [h \in Runs |-> "idle"]
  /\ req = [h \in Runs |-> NoRequest]
  /\ current = [h \in Runs |-> Absent]
  /\ wire = [h \in Runs |-> "none"]
  /\ changed = [h \in Runs |-> FALSE]
  /\ answer = [h \in Runs |-> "none"]
  /\ attempts = [h \in Runs |-> 0]
  /\ inbox = {}

Goto(h, from, to) ==
  /\ pc[h] = from
  /\ pc' = [pc EXCEPT ![h] = to]
  /\ UNCHANGED <<answer, attempts, inbox>>

Conclude(h, from, to, a) ==
  /\ pc[h] = from
  /\ pc' = [pc EXCEPT ![h] = to]
  /\ answer' = [answer EXCEPT ![h] = a]
  /\ UNCHANGED <<attempts, inbox>>

\* TLS, OAuth, an exchange or an answer of the provider may fail at each step.
Fail(h, from) == Conclude(h, from, "reply", "failed") /\ UNCHANGED <<provider, run>>

------------------------------------------------------------------------------

Take(h, r) ==
  /\ Goto(h, "idle", "oauth")
  /\ req' = [req EXCEPT ![h] = r]
  /\ UNCHANGED <<provider, current, wire, changed>>

\* Mutant: the kind of the request is not checked.
AuthenticatedUnchecked(h) ==
  /\ Goto(h, "oauth", "get")
  /\ UNCHANGED <<provider, run>>

\* The input is checked once the client exists, before any call on the resource.
Authenticated(h) ==
  /\ Goto(h, "oauth", "get")
  /\ Kind[req[h]] \in Kinds
  /\ UNCHANGED <<provider, run>>

\* Mutant: the registration is written whether it matches or not.
ReadBeforeMutationAlwaysPut(h) ==
  /\ req[h] \in Ensuring
  /\ Goto(h, "get", "put")
  /\ current' = [current EXCEPT ![h] = Registered(h)]
  /\ UNCHANGED <<provider, req, wire, changed>>

\* The first GET of an ensure: a matching registration is adopted.
ReadBeforeMutation(h) ==
  /\ req[h] \in Ensuring
  /\ Goto(h, "get", IF Registered(h) = Desired(h) THEN "readback" ELSE "put")
  /\ current' = [current EXCEPT ![h] = Registered(h)]
  /\ UNCHANGED <<provider, req, wire, changed>>

ObserveAutomaticWebhooks(h) ==
  /\ Conclude(h, "get", "reply", "observed")
  /\ req[h] \notin Ensuring
  /\ Desired(h) \in {Ungated, Registered(h)}
  /\ UNCHANGED <<provider, run>>

SendPut(h) ==
  /\ Goto(h, "put", "wait")
  /\ wire' = [wire EXCEPT ![h] = "sent"]
  /\ UNCHANGED <<provider, req, current, changed>>

\* Mutant: a PUT the provider did not refuse is as good as acknowledged.
PutAcknowledgedUnanswered(h) ==
  /\ wire[h] # "refused"
  /\ Goto(h, "wait", "readback")
  /\ changed' = [changed EXCEPT ![h] = TRUE]
  /\ UNCHANGED <<provider, req, current, wire>>

PutAcknowledged(h) ==
  /\ wire[h] = "accepted"
  /\ Goto(h, "wait", "readback")
  /\ changed' = [changed EXCEPT ![h] = TRUE]
  /\ UNCHANGED <<provider, req, current, wire>>

\* Mutant: an acknowledged PUT needs no readback.
ReadBackTrusting(h) ==
  /\ Conclude(h, "readback", "emit", "ensured")
  /\ Registered(h) = Desired(h) \/ changed[h]
  /\ UNCHANGED <<provider, run>>

ReadBack(h) ==
  /\ Conclude(h, "readback", "emit", "ensured")
  /\ Registered(h) = Desired(h)
  /\ UNCHANGED <<provider, run>>

------------------------------------------------------------------------------
(* The event: posted up to MaxRetries times, whatever becomes of it *)

Post(h) ==
  /\ pc[h] = "emit"
  /\ attempts' = [attempts EXCEPT ![h] = @ + 1]

Event(h) == [run |-> h, resource |-> Kind[req[h]], url |-> Desired(h), changed |-> changed[h]]

\* 2xx, or a 4xx that is terminal: the emitter stops.
PostAnswered(h, accepted) ==
  /\ Post(h)
  /\ pc' = [pc EXCEPT ![h] = "reply"]
  /\ inbox' = IF accepted THEN inbox \cup {Event(h)} ELSE inbox
  /\ UNCHANGED <<provider, run, answer>>

\* Mutant: the emitter tries until the core answers; its count only wraps.
PostUnansweredForever(h, accepted) ==
  /\ pc[h] = "emit"
  /\ attempts' = [attempts EXCEPT ![h] = (@ + 1) % MaxRetries]
  /\ inbox' = IF accepted THEN inbox \cup {Event(h)} ELSE inbox
  /\ UNCHANGED <<provider, run, pc, answer>>

\* 5xx or no answer, and the core may have accepted it: tried again.
PostUnanswered(h, accepted) ==
  /\ Post(h)
  /\ pc' = [pc EXCEPT ![h] = IF attempts[h] + 1 < MaxRetries THEN "emit" ELSE "reply"]
  /\ inbox' = IF accepted THEN inbox \cup {Event(h)} ELSE inbox
  /\ UNCHANGED <<provider, run, answer>>

Reply(h) == Goto(h, "reply", "done") /\ UNCHANGED <<provider, run>>

------------------------------------------------------------------------------
(* What the runs do not control *)

ProviderAccepts(h) ==
  /\ wire[h] = "sent"
  /\ wire' = [wire EXCEPT ![h] = "accepted"]
  /\ regs' = [regs EXCEPT ![Kind[req[h]]] = Desired(h)]
  /\ UNCHANGED <<foreign, req, current, changed, pc, answer, attempts, inbox>>

ProviderRefuses(h) ==
  /\ wire[h] = "sent"
  /\ wire' = [wire EXCEPT ![h] = "refused"]
  /\ UNCHANGED <<provider, req, current, changed, pc, answer, attempts, inbox>>

ForeignWrite(k, registration) ==
  /\ foreign < MaxForeign
  /\ foreign' = foreign + 1
  /\ regs' = [regs EXCEPT ![k] = registration]
  /\ UNCHANGED <<run, pc, answer, attempts, inbox>>

\* The process dies with its runs, wherever they are.
Crash ==
  /\ \E h \in Runs : Live(h)
  /\ pc' = [h \in Runs |-> IF Live(h) THEN "dead" ELSE pc[h]]
  /\ UNCHANGED <<provider, run, answer, attempts, inbox>>

Step(h) ==
  \/ Authenticated(h) \/ ReadBeforeMutation(h) \/ ObserveAutomaticWebhooks(h)
  \/ SendPut(h) \/ PutAcknowledged(h) \/ ReadBack(h) \/ Reply(h)
  \/ \E from \in {"oauth", "get", "wait", "readback"} : Fail(h, from)
  \/ \E accepted \in BOOLEAN : PostAnswered(h, accepted) \/ PostUnanswered(h, accepted)

Environment ==
  \/ \E h \in Runs, r \in Requests : Take(h, r)
  \/ \E h \in Runs : ProviderAccepts(h) \/ ProviderRefuses(h)
  \/ \E k \in Kinds, registration \in Registration : ForeignWrite(k, registration)
  \/ Crash

\* Every run has been used up.
Quiescent == (\A h \in Runs : pc[h] \in {"done", "dead"}) /\ UNCHANGED vars

Next == (\E h \in Runs : Step(h)) \/ Environment \/ Quiescent

\* Both HTTP clients give up after their timeout, so a goroutine goes on even
\* when neither the provider nor the core ever answers.
Spec == Init /\ [][Next]_vars
FairSpec == Spec /\ \A h \in Runs : WF_vars(Step(h))
------------------------------------------------------------------------------
(* Properties *)

EventRecord == [run : Runs, resource : Kinds, url : Urls, changed : BOOLEAN]

\* Type invariant: only a run that serves an ensure has a PUT, and a run that
\* calls the provider serves an accepted input.
TypeOK ==
  /\ regs \in [Kinds -> Registration]
  /\ foreign \in Nat
  /\ pc \in [Runs -> {"idle", "oauth", "get", "put", "wait", "readback", "emit", "reply",
                      "done", "dead"}]
  /\ req \in [Runs -> Requests \cup {NoRequest}]
  /\ current \in [Runs -> Registration]
  /\ wire \in [Runs -> {"none", "sent", "accepted", "refused"}]
  /\ changed \in [Runs -> BOOLEAN]
  /\ answer \in [Runs -> {"none", "failed", "observed", "ensured"}]
  /\ attempts \in [Runs -> 0..MaxRetries]
  /\ inbox \subseteq EventRecord
  /\ \A h \in Runs :
       /\ pc[h] # "idle" => req[h] \in Requests
       /\ pc[h] \in {"get", "put", "wait", "readback", "emit"} => Kind[req[h]] \in Kinds
       /\ wire[h] # "none" => req[h] \in Ensuring /\ Kind[req[h]] \in Kinds

\* A registration that already matches is adopted: a PUT that lands on its own
\* URL does so only because another writer registered it after the run's GET.
MatchingIsAdopted ==
  [][\A h \in Runs : wire[h] = "sent" /\ wire'[h] = "accepted" /\ Registered(h) = Desired(h)
       => current[h] # Registered(h)]_vars

\* The core hears only of runs that proved their URL, and "changed" tells the
\* truth: TRUE if the provider accepted this run's PUT, FALSE if it sent none.
EventsTellWhoChanged ==
  \A e \in inbox :
    /\ answer[e.run] = "ensured"
    /\ e.url = Wanted[req[e.run]] /\ e.resource = Kind[req[e.run]]
    /\ IF e.changed THEN wire[e.run] = "accepted" ELSE wire[e.run] = "none"

\* A run ends, whatever the provider and the core never answer, unless its
\* process dies: nothing else bounds a run of the plaintext path.
EveryRunFinishes == \A h \in Runs : Live(h) ~> (pc[h] \in {"done", "dead"})

Contract ==
  INSTANCE AutomaticWebhookContract WITH
    store <- regs,
    claim <- req,
    landed <- {h \in Runs : wire[h] = "accepted"},
    reported <- {<<e.run, e.changed>> : e \in inbox}

\* GET, PUT, GET and post, interleaved and abandoned anywhere, behave as one
\* register per kind whose ensure and gate answer from its present value.
ImplementsContract == Contract!Spec
==============================================================================
