-------------------------- MODULE ConfidentialEnsure --------------------------
(***************************************************************************)
(* The confidential webhook operations of the EFI adapter: sealed requests *)
(* are delivered to concurrent handlers of one process, each of which      *)
(* proves a fresh complete LIST, PUTs the registration (v2, then v3 on a   *)
(* 404), reads it back, attempts one mutation event and replies.           *)
(*                                                                         *)
(* Around the handlers are the parts they do not control: the provider,    *)
(* which may apply a PUT after the client gave up on it; other writers of  *)
(* the same account; the clock that ends an authorization; the 30 second   *)
(* handler context; the broker, which redelivers what was not acknowledged;*)
(* and restarts, which rotate the receiver key.                            *)
(*                                                                         *)
(* Abstracted: ciphertexts, HMAC tags and JSON (a row is its key, its URL  *)
(* and the period it was created in), metrics and logging.  Whatever else  *)
(* can make an HTTP exchange, a strict decoding or a sealing fail is a     *)
(* failure that may happen at that step.                                   *)
(***************************************************************************)
EXTENDS Naturals, FiniteSets

CONSTANTS
  Runs,            \* handler invocations; each serves one delivery
  Requests,        \* sealed requests: one immutable invocation each
  Keys,            \* Pix keys of the account
  Urls,            \* receiver URLs a registration may point to
  Absent,          \* no registration
  Periods,         \* when the provider may have created a registration
  NoRequest,       \* a run that serves nothing yet
  Purpose,         \* Purpose[r]: "list", "single", "confirm" or "ensure"
  Key,             \* Key[r]: the Pix key of the request
  CanonicalBase,   \* CanonicalBase[r]: the URL of the request
  Window,          \* Window[r]: the periods from its inicio to its fim
  AuditResourceID, \* AuditResourceID[r]: its public identity in events
  IssuedAt,        \* IssuedAt[r], ExpiresAt[r]: its authorization times
  ExpiresAt,
  Skew,            \* how far ahead of the clock IssuedAt may lie (30 s)
  MaxLifetime,     \* the longest authorization (5 min)
  MaxGuardRows,    \* rows of a LIST that fit the encrypted result
  Concurrency,     \* handlers in flight at once
  MaxTime,         \* bound: last value of the clock
  MaxRestarts,     \* bound: restarts of the process
  MaxForeign       \* bound: writes by other writers of the account

ASSUME ConstantsAssumption ==
  /\ Absent \notin Urls
  /\ NoRequest \notin Requests
  /\ Purpose \in [Requests -> {"list", "single", "confirm", "ensure"}]
  /\ Key \in [Requests -> Keys]
  /\ CanonicalBase \in [Requests -> Urls]
  /\ Window \in [Requests -> SUBSET Periods]
  /\ IssuedAt \in [Requests -> Nat]
  /\ ExpiresAt \in [Requests -> Nat]
  /\ {Skew, MaxLifetime, MaxGuardRows, Concurrency} \subseteq Nat
  /\ {MaxTime, MaxRestarts, MaxForeign} \subseteq Nat

VARIABLES
  clock,       \* the wall clock the adapter reads
  generation,  \* number of the process, and so of its receiver key
  regs,        \* the provider's registrations, by key
  created,     \* created[k]: when the provider created that of k
  foreign,     \* writes other writers have made
  sealedTo,    \* sealedTo[r]: generation whose public key sealed r
  queue,       \* queue[r]: where the broker has the message of r
  pc,          \* pc[h]: next step of run h
  req,         \* req[h]: request run h serves
  alive,       \* alive[h]: its handler context is not cancelled
  guard,       \* guard[h]: registrations its own LIST returned
  stale,       \* stale[h]: its key was written since its LIST, or it has
               \* no LIST yet (history: no step reads it)
  wire,        \* wire[h]: its latest PUT, as the provider holds it
  readback,    \* readback[h]: what its confirming GET returned
  verdict,     \* verdict[h]: what it answers
  owns,        \* owns[h]: its delivery is still its own to acknowledge
  events       \* mutation events the core received

data == <<req, alive, guard, stale, wire, readback>>  \* what a run remembers
control == <<pc, verdict>>                            \* where a run is
provider == <<regs, created>>                         \* what the account holds
world == <<clock, generation, foreign, sealedTo, provider>>
broker == <<queue, owns>>
vars == <<world, broker, control, data, events>>

Registration == Urls \cup {Absent}
NoPut == [state |-> "none", endpoint |-> "v2", sentAt |-> 0]

Init ==
  /\ clock = 0
  /\ generation = 1
  /\ regs \in [Keys -> Registration]
  /\ created \in [Keys -> Periods]
  /\ foreign = 0
  /\ sealedTo = [r \in Requests |-> 0]
  /\ queue = [r \in Requests |-> "unposted"]
  /\ pc = [h \in Runs |-> "idle"]
  /\ req = [h \in Runs |-> NoRequest]
  /\ alive = [h \in Runs |-> TRUE]
  /\ guard = [h \in Runs |-> [k \in Keys |-> Absent]]
  /\ stale = [h \in Runs |-> TRUE]
  /\ wire = [h \in Runs |-> NoPut]
  /\ readback = [h \in Runs |-> Absent]
  /\ verdict = [h \in Runs |-> "none"]
  /\ owns = [h \in Runs |-> FALSE]
  /\ events = {}

Live == {h \in Runs : pc[h] \notin {"idle", "done", "dead"}}

\* The run takes its next step, from one pc value to another.
Goto(h, from, to) ==
  /\ pc[h] = from
  /\ pc' = [pc EXCEPT ![h] = to]
  /\ UNCHANGED verdict

\* The run has its answer and goes on to emit or to reply.
Conclude(h, from, to, v) ==
  /\ pc[h] = from
  /\ pc' = [pc EXCEPT ![h] = to]
  /\ verdict' = [verdict EXCEPT ![h] = v]

------------------------------------------------------------------------------
(* Authorization and proof *)

\* Is the authorization of r in force?  A separately bound confirm may be late.
ValidateTime(r, permitExpiredConfirm) ==
  /\ IssuedAt[r] < ExpiresAt[r]
  /\ ExpiresAt[r] <= IssuedAt[r] + MaxLifetime
  /\ IssuedAt[r] <= clock + Skew
  /\ \/ clock < ExpiresAt[r]
     \/ permitExpiredConfirm /\ Purpose[r] = "confirm"

\* Mutant: any process of the fleet opens the box.
PrepareConfidentialWithOldKey(r) ==
  /\ sealedTo[r] > 0
  /\ AuditResourceID[r] # Key[r]
  /\ ValidateTime(r, TRUE)

\* Opening the box with this process's key, then validating what it held.
PrepareConfidential(r) ==
  /\ sealedTo[r] = generation
  /\ AuditResourceID[r] # Key[r]
  /\ ValidateTime(r, TRUE)

\* Mutant: the window was checked before authenticating and not again.
MutationAllowedUnchecked(h) == alive[h]

\* The window a PUT may be sent in, checked immediately before every send.
MutationAllowed(h) ==
  /\ alive[h]
  /\ ValidateTime(req[h], FALSE)
  /\ ExpiresAt[req[h]] - clock <= MaxLifetime + Skew

Ensures(h) == Purpose[req[h]] = "ensure"

Rows(h) == {k \in Keys : guard[h][k] # Absent}

\* Mutant: the audit identity is not looked for in the LIST.
ListProofAnyAudit(h) == Rows(h) # {}

\* A complete LIST proves something: it has a row and none is the audit identity.
ListProof(h) ==
  /\ Rows(h) # {}
  /\ AuditResourceID[req[h]] \notin Rows(h)

\* Mutant: a registration that points elsewhere may be replaced.
GuardAdmitsAnyUrl(h) ==
  /\ ListProof(h)
  /\ Cardinality(Rows(h)) <= MaxGuardRows

\* The LIST shows the key absent or already canonical, and fits the result.
GuardAdmits(h) ==
  /\ ListProof(h)
  /\ guard[h][Key[req[h]]] \in {Absent, CanonicalBase[req[h]]}
  /\ Cardinality(Rows(h)) <= MaxGuardRows

------------------------------------------------------------------------------
(* Delivery and reply *)

Post(r) ==
  /\ queue[r] = "unposted"
  /\ queue' = [queue EXCEPT ![r] = "queued"]
  /\ sealedTo' = [sealedTo EXCEPT ![r] = generation]
  /\ UNCHANGED <<clock, generation, foreign, provider, owns, control, data, events>>

\* Handlers that hold a slot of the connection's semaphore.  A new connection
\* starts with an empty one, whatever handlers of the old one still do.
InFlight == {h \in Runs : owns[h]}

\* Mutant: the handler never binds the delivery to its request.
DeliverUnbound(h, r) ==
  /\ queue[r] = "queued"
  /\ Cardinality(InFlight) < Concurrency
  /\ queue' = [queue EXCEPT ![r] = "delivered"]
  /\ owns' = [owns EXCEPT ![h] = TRUE]
  /\ UNCHANGED <<world, req, alive, guard, stale, wire, readback, events>>

Deliver(h, r) ==
  /\ queue[r] = "queued"
  /\ Cardinality(InFlight) < Concurrency
  /\ queue' = [queue EXCEPT ![r] = "delivered"]
  /\ req' = [req EXCEPT ![h] = r]
  /\ owns' = [owns EXCEPT ![h] = TRUE]
  /\ UNCHANGED <<world, alive, guard, stale, wire, readback, events>>

PrepareAccepted(h, r) ==
  /\ PrepareConfidential(r)
  /\ Goto(h, "idle", IF Purpose[r] \in {"list", "ensure"} THEN "list" ELSE "read")
  /\ Deliver(h, r)

PrepareRefused(h, r) ==
  /\ ~PrepareConfidential(r)
  /\ Conclude(h, "idle", "reply", "failed")
  /\ Deliver(h, r)

\* Nothing is published under a context that has ended.
ReplyDelivered(h) ==
  /\ alive[h]
  /\ Goto(h, "reply", "ack")
  /\ UNCHANGED <<world, broker, data, events>>

\* Only the connection a delivery came on can settle it: once that is lost the
\* broker has taken the delivery back and the call has no effect.
Settle(h, outcome) ==
  /\ queue' = [queue EXCEPT ![req[h]] = IF owns[h] THEN outcome ELSE @]
  /\ owns' = [owns EXCEPT ![h] = FALSE]

\* Mutant: a failed reply is only logged.
ReplyLostUnsettled(h) ==
  /\ Goto(h, "reply", "done")
  /\ UNCHANGED <<world, broker, data, events>>

\* A failed reply requeues the delivery: Nack(true).
ReplyLost(h) ==
  /\ Goto(h, "reply", "done")
  /\ Settle(h, "queued")
  /\ UNCHANGED <<world, data, events>>

Ack(h) ==
  /\ Goto(h, "ack", "done")
  /\ Settle(h, "settled")
  /\ UNCHANGED <<world, data, events>>

------------------------------------------------------------------------------
(* LIST and PUT *)

\* What the provider shows to r: a LIST is asked for inicio..fim alone and holds
\* no row created outside; such a row proves nothing in a single GET either.
Shown(r) == [k \in Keys |-> IF created[k] \in Window[r] THEN regs[k] ELSE Absent]

ListAnswered(h) ==
  /\ alive[h]
  /\ Goto(h, "list", "check")
  /\ guard' = [guard EXCEPT ![h] = Shown(req[h])]
  /\ stale' = [stale EXCEPT ![h] = FALSE]
  /\ UNCHANGED <<world, broker, req, alive, wire, readback, events>>

ListFailed(h) ==
  /\ Conclude(h, "list", "reply", "failed")
  /\ UNCHANGED <<world, broker, data, events>>

\* An ensure that may go on: its LIST admits the PUT and its time has not run out.
GuardAccepted(h) ==
  /\ Goto(h, "check", "oauth")
  /\ Ensures(h)
  /\ GuardAdmits(h)
  /\ ValidateTime(req[h], FALSE)
  /\ UNCHANGED <<world, broker, data, events>>

GuardRefused(h) ==
  /\ Conclude(h, "check", "reply", "failed")
  /\ Ensures(h)
  /\ ~(GuardAdmits(h) /\ ValidateTime(req[h], FALSE))
  /\ UNCHANGED <<world, broker, data, events>>

ListObserved(h) ==
  /\ Conclude(h, "check", "reply", IF ListProof(h) THEN "observed" ELSE "failed")
  /\ ~Ensures(h)
  /\ UNCHANGED <<world, broker, data, events>>

\* The fresh token of the setter's own client; time passes while it is fetched.
Authenticated(h) ==
  /\ alive[h]
  /\ Goto(h, "oauth", "put_v2")
  /\ UNCHANGED <<world, broker, data, events>>

AuthenticationFailed(h) ==
  /\ Conclude(h, "oauth", "reply", "failed")
  /\ UNCHANGED <<world, broker, data, events>>

PutStep(endpoint) == IF endpoint = "v2" THEN "put_v2" ELSE "put_v3"

SendPut(h, endpoint) ==
  /\ Goto(h, PutStep(endpoint), "wait")
  /\ MutationAllowed(h)
  /\ wire' = [wire EXCEPT ![h] =
                [state |-> "sent", endpoint |-> endpoint, sentAt |-> clock]]
  /\ UNCHANGED <<world, broker, req, alive, guard, stale, readback, events>>

RefusePut(h, endpoint) ==
  /\ Conclude(h, PutStep(endpoint), "reply", "failed")
  /\ ~MutationAllowed(h)
  /\ UNCHANGED <<world, broker, data, events>>

\* The whole 2xx or 404 answer can be read: neither the handler's context nor
\* the request's own deadline, the end of the authorization, has cancelled it.
Readable(h) == alive[h] /\ clock < ExpiresAt[req[h]]

PutAcknowledged(h) ==
  /\ wire[h].state = "accepted"
  /\ Readable(h)
  /\ Goto(h, "wait", "read")
  /\ UNCHANGED <<world, broker, data, events>>

\* 2xx headers arrived and the body did not: accepted, but nothing is proved.
PutUnreadable(h) ==
  /\ wire[h].state = "accepted"
  /\ Conclude(h, "wait", "emit", "held")
  /\ UNCHANGED <<world, broker, data, events>>

\* Mutant: v3 is tried whenever v2 did not acknowledge.
PutNotAcknowledged(h) ==
  /\ wire[h].state # "accepted"
  /\ wire[h].endpoint = "v2"
  /\ Goto(h, "wait", "put_v3")
  /\ UNCHANGED <<world, broker, data, events>>

PutNotFound(h) ==
  /\ wire[h].state = "notfound"
  /\ wire[h].endpoint = "v2"
  /\ Readable(h)
  /\ Goto(h, "wait", "put_v3")
  /\ UNCHANGED <<world, broker, data, events>>

\* Mutant: a PUT without an answer is taken for one that was accepted.
PutFailedHeld(h) ==
  /\ Conclude(h, "wait", "emit", "held")
  /\ UNCHANGED <<world, broker, data, events>>

\* Refused, not found on v3, or no answer: whatever the provider makes of the
\* PUT later, the run reports a failure and emits nothing.
PutFailed(h) ==
  /\ Conclude(h, "wait", "reply", "failed")
  /\ UNCHANGED <<world, broker, data, events>>

------------------------------------------------------------------------------
(* Confirming GET, event *)

ReadAnswered(h) ==
  /\ alive[h]
  /\ Goto(h, "read", "verify")
  /\ readback' = [readback EXCEPT ![h] = Shown(req[h])[Key[req[h]]]]
  /\ UNCHANGED <<world, broker, req, alive, guard, stale, wire, events>>

\* A setter that was accepted but not proved is held; an observer just fails.
Unproved(h, from) ==
  Conclude(h, from, IF Ensures(h) THEN "emit" ELSE "reply",
                    IF Ensures(h) THEN "held" ELSE "failed")

\* Mutant: the GET is abandoned by nobody when the handler's context ends.
ReadFailedWhileAlive(h) ==
  /\ alive[h]
  /\ Unproved(h, "read")
  /\ UNCHANGED <<world, broker, data, events>>

ReadFailed(h) ==
  /\ Unproved(h, "read")
  /\ UNCHANGED <<world, broker, data, events>>

SingleProof(h) == readback[h] = CanonicalBase[req[h]]

Verified(h) ==
  /\ Conclude(h, "verify", IF Ensures(h) THEN "emit" ELSE "reply",
                           IF Ensures(h) THEN "confirmed" ELSE "observed")
  /\ SingleProof(h)
  /\ UNCHANGED <<world, broker, data, events>>

\* The readback differs, is outside the request's window or cannot be sealed.
NotVerified(h) ==
  /\ Unproved(h, "verify")
  /\ UNCHANGED <<world, broker, data, events>>

\* Mutant: the event claims the readback whatever became of it.
EventConfirmed(h) ==
  [intent |-> req[h], resource |-> AuditResourceID[req[h]], outcome |-> "confirmed"]

Event(h) ==
  [intent |-> req[h], resource |-> AuditResourceID[req[h]], outcome |-> verdict[h]]

EventDelivered(h) ==
  /\ alive[h]
  /\ Goto(h, "emit", "reply")
  /\ events' = events \cup {Event(h)}
  /\ UNCHANGED <<world, broker, data>>

EventLost(h) ==
  /\ Goto(h, "emit", "reply")
  /\ UNCHANGED <<world, broker, data, events>>

------------------------------------------------------------------------------
(* What the handlers do not control *)

\* The registration of k changes.  The provider stamps it: a new one with its own
\* clock, which is no clock of the adapter's, a replaced one anew or not at all.
Write(k, registration) ==
  /\ regs' = [regs EXCEPT ![k] = registration]
  /\ \E p \in Periods : created' = [created EXCEPT ![k] = p]
  /\ stale' = [h \in Runs |-> stale[h] \/ Key[req[h]] = k]

ProviderAccepts(h) ==
  /\ wire[h].state = "sent"
  /\ wire' = [wire EXCEPT ![h].state = "accepted"]
  /\ Write(Key[req[h]], CanonicalBase[req[h]])
  /\ UNCHANGED <<clock, generation, foreign, sealedTo, broker, control, req, alive, guard,
                 readback, events>>

ProviderRejects(h, state) ==
  /\ wire[h].state = "sent"
  /\ wire' = [wire EXCEPT ![h].state = state]
  /\ UNCHANGED <<world, broker, control, req, alive, guard, stale, readback, events>>

ForeignWrite(k, registration) ==
  /\ foreign < MaxForeign
  /\ foreign' = foreign + 1
  /\ Write(k, registration)
  /\ UNCHANGED <<clock, generation, sealedTo, broker, control, req, alive, guard, wire,
                 readback, events>>

\* Once a run has replied nothing more asks its context.
HandlerTimeout(h) ==
  /\ h \in Live /\ pc[h] # "ack"
  /\ alive[h]
  /\ alive' = [alive EXCEPT ![h] = FALSE]
  /\ UNCHANGED <<world, broker, control, req, guard, stale, wire, readback, events>>

Tick ==
  /\ clock < MaxTime
  /\ clock' = clock + 1
  /\ UNCHANGED <<generation, foreign, sealedTo, provider, broker, control, data, events>>

\* The broker takes back what this connection had not acknowledged.
Requeued == [r \in Requests |-> IF queue[r] = "delivered" THEN "queued" ELSE queue[r]]

ConnectionLost ==
  /\ \E r \in Requests : queue[r] = "delivered"
  /\ queue' = Requeued
  /\ owns' = [h \in Runs |-> FALSE]
  /\ UNCHANGED <<world, control, data, events>>

\* The process dies with its handlers and its key; a new one takes its place.
Restart ==
  /\ generation <= MaxRestarts
  /\ generation' = generation + 1
  /\ queue' = Requeued
  /\ pc' = [h \in Runs |-> IF h \in Live THEN "dead" ELSE pc[h]]
  /\ owns' = [h \in Runs |-> FALSE]
  /\ UNCHANGED <<clock, foreign, sealedTo, provider, verdict, data, events>>

------------------------------------------------------------------------------

ReplyStep(h) == ReplyDelivered(h) \/ ReplyLost(h) \/ Ack(h)

ListStep(h) ==
  \/ ListAnswered(h) \/ ListFailed(h)
  \/ GuardAccepted(h) \/ GuardRefused(h) \/ ListObserved(h)
  \/ Authenticated(h) \/ AuthenticationFailed(h)

SendStep(h) == \E endpoint \in {"v2", "v3"} : SendPut(h, endpoint) \/ RefusePut(h, endpoint)

WaitStep(h) == PutAcknowledged(h) \/ PutUnreadable(h) \/ PutNotFound(h) \/ PutFailed(h)

ReadStep(h) == ReadAnswered(h) \/ ReadFailed(h) \/ Verified(h) \/ NotVerified(h)

EventStep(h) == EventDelivered(h) \/ EventLost(h)

Step(h) ==
  \/ ReplyStep(h) \/ ListStep(h) \/ SendStep(h) \/ WaitStep(h) \/ ReadStep(h) \/ EventStep(h)

Environment ==
  \/ \E h \in Runs :
       \/ ProviderAccepts(h)
       \/ \E state \in {"notfound", "refused"} : ProviderRejects(h, state)
       \/ HandlerTimeout(h)
  \/ \E k \in Keys, registration \in Registration : ForeignWrite(k, registration)
  \/ \E r \in Requests : Post(r)
  \/ Tick \/ ConnectionLost \/ Restart

\* Every delivery taken up is finished and the clock has run to its bound.
Quiescent == Live = {} /\ clock = MaxTime /\ UNCHANGED vars

Next ==
  \/ \E h \in Runs, r \in Requests : PrepareAccepted(h, r) \/ PrepareRefused(h, r)
  \/ \E h \in Runs : Step(h)
  \/ Environment
  \/ Quiescent

Spec == Init /\ [][Next]_vars

\* A goroutine that can run does, and a request the provider never answers
\* ends at the HTTP client's 30 second timeout.  Nothing is asked of the
\* provider, the broker or the clock.
FairSpec == Spec /\ \A h \in Runs : WF_vars(Step(h))
------------------------------------------------------------------------------
(* Properties *)

PcValues == {"idle", "list", "check", "oauth", "put_v2", "put_v3", "wait", "read",
             "verify", "emit", "reply", "ack", "done", "dead"}
Verdicts == {"none", "failed", "observed", "held", "confirmed"}
PutRecord == [state : {"none", "sent", "accepted", "notfound", "refused"},
              endpoint : {"v2", "v3"}, sentAt : Nat]
EventRecord == [intent : Requests, resource : {AuditResourceID[r] : r \in Requests},
                outcome : {"held", "confirmed"}]

\* Type invariant: a run past "idle" serves a request, and only such a run can
\* hold a delivery, a PUT or a verdict.
TypeOK ==
  /\ clock \in Nat /\ generation \in Nat /\ foreign \in Nat
  /\ regs \in [Keys -> Registration]
  /\ created \in [Keys -> Periods]
  /\ sealedTo \in [Requests -> Nat]
  /\ queue \in [Requests -> {"unposted", "queued", "delivered", "settled"}]
  /\ pc \in [Runs -> PcValues]
  /\ req \in [Runs -> Requests \cup {NoRequest}]
  /\ alive \in [Runs -> BOOLEAN]
  /\ guard \in [Runs -> [Keys -> Registration]]
  /\ stale \in [Runs -> BOOLEAN]
  /\ wire \in [Runs -> PutRecord]
  /\ readback \in [Runs -> Registration]
  /\ verdict \in [Runs -> Verdicts]
  /\ owns \in [Runs -> BOOLEAN]
  /\ events \subseteq EventRecord
  /\ \A h \in Runs : req[h] = NoRequest =>
       pc[h] = "idle" /\ wire[h] = NoPut /\ verdict[h] = "none" /\ ~owns[h]

\* No PUT leaves the adapter, on v2 or v3 and however often the request is
\* redelivered, unless this very run has proved by its own LIST that the key is
\* absent or canonical, and the authorization is in force when it is sent.
EveryPutWasProved ==
  \A h \in Runs : wire[h].state # "none" =>
    /\ Ensures(h)
    /\ GuardAdmits(h)
    /\ wire[h].sentAt < ExpiresAt[req[h]]
    /\ IssuedAt[req[h]] <= wire[h].sentAt + Skew

\* "held" and "confirmed" are never invented: the provider accepted this run's
\* own PUT, and "confirmed" also read the canonical URL back.
VerdictsAreEarned ==
  \A h \in Runs :
    /\ verdict[h] \in {"held", "confirmed"} => wire[h].state = "accepted"
    /\ verdict[h] = "confirmed" => readback[h] = CanonicalBase[req[h]]

\* The core hears of a mutation only from a run whose PUT was accepted, under an
\* identity that is neither the requested Pix key nor a key of the run's LIST.
EventsAreEarnedAndOpaque ==
  \A e \in events : \E h \in Runs :
    /\ req[h] = e.intent
    /\ wire[h].state = "accepted"
    /\ verdict[h] = e.outcome
    /\ e.resource \notin Rows(h) \cup {Key[e.intent]}

\* A message the broker counts as delivered is held by exactly one live handler,
\* which will settle it: no crash, lost connection or lost reply orphans it.
NoOrphanDelivery ==
  \A r \in Requests : queue[r] = "delivered" =>
    \E h \in Live : owns[h] /\ req[h] = r /\ \A g \in Runs \ {h} : ~(owns[g] /\ req[g] = r)

\* A run puts a new PUT on the wire in this step.
Sends(h) == wire'[h] # wire[h] /\ wire'[h].state = "sent"

\* A request sealed to the key of an earlier process never reaches the provider.
OnlyCurrentReceiverWrites ==
  [][\A h \in Runs : Sends(h) => sealedTo[req[h]] = generation]_vars

\* A run sends a second PUT only on v3 and only once v2 has answered 404: it
\* never has two PUTs of unknown fate with the provider.
NoBlindResend ==
  [][\A h \in Runs : Sends(h) =>
       \/ wire[h] = NoPut /\ wire'[h].endpoint = "v2"
       \/ /\ wire[h].state = "notfound" /\ wire[h].endpoint = "v2"
          /\ wire'[h].endpoint = "v3"]_vars

\* A registration that points to a receiver is replaced, other writers apart, only
\* by a run whose LIST could not show it: it was written since that LIST, or it was
\* created outside the window the request asked for.  No run overwrites a
\* registration that stands as its LIST has shown it.
OverwritesAreUnseen ==
  [][\A k \in Keys : regs[k] \in Urls /\ regs'[k] # regs[k] =>
       \/ foreign' # foreign
       \/ \E h \in Runs : /\ wire[h].state = "sent" /\ wire'[h].state = "accepted"
                          /\ Key[req[h]] = k
                          /\ stale[h] \/ created[k] \notin Window[req[h]]]_vars

\* Every delivery a handler takes up is finished, or dies with its process: a run
\* serves one delivery, so none is left behind if always again no run is live.
EveryDeliveryFinishes == []<>(Live = {})

Contract ==
  INSTANCE SetterContract WITH
    Ensuring <- {r \in Requests : Purpose[r] = "ensure"},
    store <- regs,
    claim <- req,
    landed <- {h \in Runs : wire[h].state = "accepted"},
    answer <- verdict,
    published <- {<<e.intent, e.outcome>> : e \in events}

\* The handlers, with every failure, redelivery and restart, keep the setter's
\* contract: an answer other than "failed" is never more than what landed.
ImplementsContract == Contract!Spec
==============================================================================
