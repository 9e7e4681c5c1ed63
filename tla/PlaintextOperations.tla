-------------------------- MODULE PlaintextOperations --------------------------
(***************************************************************************)
(* The plaintext operations of the adapter: charges, due charges, webhook  *)
(* subscriptions, refunds and payouts.  The execute handler admits a       *)
(* request by its capability and dispatches it by its operation: the SDK's *)
(* reconcilers for the resource operations, which post a mutation event    *)
(* after success, the Execute switch for the rest.  Both end in a call of  *)
(* the provider.  The broker redelivers and callers retry, so a request is *)
(* served until it is answered ok; a call may be applied after its run     *)
(* gave up.                                                                *)
(*                                                                         *)
(* Abstracted: the body of an object beyond its required fields (a repeat  *)
(* PUT updates it in place), the rows of a list, the retries of the        *)
(* emitter (see AutomaticWebhook), settlement (see ConfidentialEnsure).    *)
(***************************************************************************)

CONSTANTS
  Runs,     \* invocations of the handler
  Requests, \* requests: one immutable input each
  Keys,     \* identities callers choose: txid, chave, idEnvio, refund id
  None,     \* no identity, no request, no object
  Input,    \* Input[r]: the fields of request r the handler looks at
  Setters   \* what accounts accept: "v2", or "v3" as the only webhook setter

\* Each collection has identities of its own; the txid the provider generates
\* for the POST of run h is named h.
Collections == {"cob", "webhook", "devolucao", "envio"}
Ids == Collections \X (Keys \cup Runs)

Fields ==
  {"txid", "inicio", "fim", "webhook_url", "valor", "valor.original", "chave", "calendario",
   "dataDeVencimento", "devedor", "cpf", "nome", "e2eId", "pagador", "pagador.chave",
   "favorecido", "favorecido.chave", "favorecido.cpf", "contaBanco"}

(***************************************************************************)
(* key is txid, chave, idEnvio or the refund's id; ref what a destroy is   *)
(* given as ref, id, <resource> or <resource>_id; given the fields present *)
(* with a value, blank those present and empty (txid: the field of key).   *)
(***************************************************************************)
InputRecord ==
  [operation : STRING, capability : STRING, key : Keys \cup {None}, ref : Keys \cup {None},
   given : SUBSET Fields, blank : SUBSET Fields]

ASSUME InputAssumption ==
  /\ None \notin Requests \cup Keys \cup Runs
  /\ None \notin [by : Requests, active : BOOLEAN]
  /\ Setters \subseteq {"v2", "v3"}
  /\ Keys \cap Runs = {}
  /\ Input \in [Requests -> InputRecord]
  /\ \A r \in Requests : Input[r].given \cap Input[r].blank = {}

VARIABLES
  setter,  \* the webhook setter of the account
  objects, \* objects[x]: the provider's object of identity x
  pc,      \* pc[h]: next step of run h
  req,     \* req[h]: request run h serves
  wire,    \* wire[h]: its call, as the provider holds it
  answer,  \* answer[h]: what it concluded
  posted,  \* mutation events handed to the core
  truths   \* history: runs during which what an ok of theirs says was true

vars == <<setter, objects, pc, req, wire, answer, posted, truths>>

------------------------------------------------------------------------------
(* Routing *)

LegacyOperationAliases ==
  [create_charge |-> "ensure_charge", create_due_charge |-> "ensure_due_charge",
   get_charge_status |-> "observe_charges", get_statement |-> "observe_charges",
   register_webhook_endpoint |-> "ensure_webhook_subscription",
   unregister_webhook_endpoint |-> "destroy_webhook_subscription"]

CanonicalOperationFor(op) ==
  IF op \in DOMAIN LegacyOperationAliases THEN LegacyOperationAliases[op] ELSE op

SupportedExecuteOperations ==
  {"ensure_charge", "ensure_due_charge", "observe_charges", "destroy_charge",
   "refund_charge", "create_payout", "ensure_webhook_subscription",
   "observe_webhook_subscriptions", "destroy_webhook_subscription"}

SDKOnlyOperations == {"observe_due_charges", "destroy_due_charge"}

NormalizeExecuteOperation(r) ==
  IF Input[r].operation = "" THEN Input[r].capability ELSE Input[r].operation

SupportsExecuteCapability(r) ==
  (IF Input[r].capability = "" THEN NormalizeExecuteOperation(r) ELSE Input[r].capability) \in
    SupportedExecuteOperations \cup SDKOnlyOperations \cup DOMAIN LegacyOperationAliases \cup {""}

Operation(r) == CanonicalOperationFor(NormalizeExecuteOperation(r))

Webhooks(r) == Operation(r) \in {"ensure_webhook_subscription", "observe_webhook_subscriptions",
                                 "destroy_webhook_subscription"}
Ensures(r) == Operation(r) \in {"ensure_charge", "ensure_due_charge", "ensure_webhook_subscription"}
Observes(r) == Operation(r) \in {"observe_charges", "observe_due_charges",
                                 "observe_webhook_subscriptions"}
Destroys(r) == Operation(r) \in {"destroy_charge", "destroy_due_charge",
                                 "destroy_webhook_subscription"}
Moves(r) == Operation(r) \in {"refund_charge", "create_payout"}

Resource(r) ==
  CASE Webhooks(r) -> "webhook_subscription"
    [] Operation(r) \in {"ensure_due_charge"} \cup SDKOnlyOperations -> "due_charge"
    [] OTHER -> "charge"

------------------------------------------------------------------------------
(* The checks of the capabilities *)

\* in[f].(string) # "", or in[f] is a non-nil object.
Has(r, f) == f \in Input[r].given

\* fmt.Sprint(m[f]) # "": a field that is absent is nil and prints as "<nil>".
Prints(r, f) == f \notin Input[r].blank

EnsureCharge(r) == Has(r, "valor") /\ Prints(r, "valor.original") /\ Has(r, "chave")

EnsureDueCharge(r) ==
  /\ Input[r].key # None
  /\ \A f \in {"valor", "chave", "calendario", "devedor"} : Has(r, f)
  /\ \A f \in {"valor.original", "dataDeVencimento", "cpf", "nome"} : Prints(r, f)

RefundCharge(r) == Input[r].key # None /\ Has(r, "e2eId") /\ Has(r, "valor")

CreatePayout(r) ==
  /\ Input[r].key # None
  /\ \A f \in {"valor", "pagador", "favorecido"} : Has(r, f)
  /\ Prints(r, "pagador.chave")
  /\ \/ Prints(r, "favorecido.chave")
     \/ Prints(r, "favorecido.cpf") /\ Has(r, "contaBanco")

EnsureWebhookSubscription(r) == Input[r].key # None /\ Has(r, "webhook_url")

\* One object by its key, or the list of a time range.
Observation(r) == Input[r].key # None \/ (Has(r, "inicio") /\ Has(r, "fim"))

\* A destroy is of its txid or chave; of the ref only when that field is absent.
DestroyWithDesired(r) ==
  IF Input[r].key # None \/ "txid" \in Input[r].blank THEN Input[r].key ELSE Input[r].ref

\* Mutant: a destroy of nothing is not refused.
DestroyUnchecked(r) == TRUE

Destroy(r) == DestroyWithDesired(r) # None

Checked(r) ==
  CASE Operation(r) = "ensure_charge" -> EnsureCharge(r)
    [] Operation(r) = "ensure_due_charge" -> EnsureDueCharge(r)
    [] Operation(r) = "ensure_webhook_subscription" -> EnsureWebhookSubscription(r)
    [] Operation(r) = "refund_charge" -> RefundCharge(r)
    [] Operation(r) = "create_payout" -> CreatePayout(r)
    [] Observes(r) -> Observation(r)
    [] Destroys(r) -> Destroy(r)
    [] OTHER -> FALSE

Collection(r) ==
  CASE Webhooks(r) -> "webhook"
    [] Operation(r) = "refund_charge" -> "devolucao"
    [] Operation(r) = "create_payout" -> "envio"
    [] OTHER -> "cob"

Named(r) == IF Destroys(r) THEN DestroyWithDesired(r) ELSE Input[r].key

\* Mutant: every ensure_charge is a POST.
TargetAlwaysPosted(h) ==
  <<Collection(req[h]), IF Operation(req[h]) = "ensure_charge" THEN h ELSE Named(req[h])>>

\* The identity the call of run h is about; a POST gets a generated one.
Target(h) ==
  <<Collection(req[h]),
    IF Named(req[h]) = None /\ ~ Destroys(req[h]) THEN h ELSE Named(req[h])>>

------------------------------------------------------------------------------

Live(h) == pc[h] \notin {"idle", "done", "dead"}

Init ==
  /\ setter \in Setters
  /\ objects = [x \in Ids |-> None]
  /\ pc = [h \in Runs |-> "idle"]
  /\ req = [h \in Runs |-> None]
  /\ wire = [h \in Runs |-> "none"]
  /\ answer = [h \in Runs |-> "none"]
  /\ posted = {}
  /\ truths = {}

Goto(h, from, to) == pc[h] = from /\ pc' = [pc EXCEPT ![h] = to]

AnsweredOk(r) == \E h \in Runs : req[h] = r /\ pc[h] = "done" /\ answer[h] = "ok"

\* The broker delivers what is not settled, a caller retries what failed.
Serve(h, r) ==
  /\ Goto(h, "idle", "admit")
  /\ ~ AnsweredOk(r)
  /\ req' = [req EXCEPT ![h] = r]
  /\ UNCHANGED <<objects, wire, answer, posted>>

Conclude(h, from, to, a) ==
  /\ Goto(h, from, to)
  /\ answer' = [answer EXCEPT ![h] = a]
  /\ UNCHANGED <<objects, req, wire, posted>>

(***************************************************************************)
(* Admitted by its capability and dispatched by its operation; mTLS and    *)
(* the token are got before the capability checks the input.               *)
(***************************************************************************)
Admitted(h) ==
  /\ Goto(h, "admit", "call")
  /\ SupportsExecuteCapability(req[h])
  /\ Checked(req[h])
  /\ UNCHANGED <<objects, req, wire, answer, posted>>

\* Not admitted; or mTLS, the token or the exchange failed; or the call was refused.
Failed(h, from) == Conclude(h, from, "reply", "failed")

SendCall(h) ==
  /\ Goto(h, "call", "wait")
  /\ wire' = [wire EXCEPT ![h] = "sent"]
  /\ UNCHANGED <<objects, req, answer, posted>>

NotFound(h) == wire[h] \in {"missing", "unrouted"}

\* The v3 setter, for accounts that have no other, after a 404 of the v2 one.
SendFallback(h) ==
  /\ Goto(h, "wait", "wait3")
  /\ NotFound(h) /\ Ensures(req[h]) /\ Webhooks(req[h])
  /\ wire' = [wire EXCEPT ![h] = "fallback"]
  /\ UNCHANGED <<objects, req, answer, posted>>

\* A resource operation that changes something goes on to its event.
AfterSuccess(r) == IF Ensures(r) \/ Destroys(r) THEN "emit" ELSE "reply"

\* Mutant: a call that was not refused is as good as accepted.
AcceptedUnanswered(h, from) ==
  /\ wire[h] \in {"sent", "accepted"}
  /\ Conclude(h, from, AfterSuccess(req[h]), "ok")

Accepted(h, from) ==
  /\ wire[h] = "accepted"
  /\ Conclude(h, from, AfterSuccess(req[h]), "ok")

\* A destroy takes any 404 for an object that is already absent.
AlreadyAbsent(h) ==
  /\ NotFound(h)
  /\ Destroys(req[h])
  /\ Conclude(h, "wait", "emit", "ok")

(***************************************************************************)
(* An ensure's event is named by the id, <resource>_id, full_name or       *)
(* <resource> of its result, which has none of these: a charge is known by *)
(* txid, a subscription by chave.  A destroy's is named by the ref alone.  *)
(***************************************************************************)
EventName(r) == IF Destroys(r) THEN Input[r].ref ELSE None

Event(h) ==
  [run |-> h, resource |-> Resource(req[h]), name |-> EventName(req[h]),
   verb |-> IF Destroys(req[h]) THEN "destroyed" ELSE "ensured"]

\* Posted, or lost: the run answers ok either way.
Emit(h, sent) ==
  /\ Goto(h, "emit", "reply")
  /\ posted' = IF sent THEN posted \cup {Event(h)} ELSE posted
  /\ UNCHANGED <<objects, req, wire, answer>>

Reply(h) == Goto(h, "reply", "done") /\ UNCHANGED <<objects, req, wire, answer, posted>>

------------------------------------------------------------------------------
(* The provider, which may apply a call long after its run gave up *)

OnTheWay(h) == wire[h] \in {"sent", "fallback"}

\* The v2 paths of a webhook, its only ones but for the setter.
Routed(h) == Webhooks(req[h]) => setter = (IF wire[h] = "sent" THEN "v2" ELSE "v3")

Answer(h, status) ==
  /\ wire' = [wire EXCEPT ![h] = status]
  /\ UNCHANGED <<pc, req, answer, posted>>

\* Who holds an identity keeps it: a PUT of an active object is an update, one
\* of a recorded payout or refund returns it, one of a removed charge fails.
ProviderCreates(h) ==
  LET x == Target(h) IN
  /\ OnTheWay(h) /\ Routed(h)
  /\ Ensures(req[h]) \/ Moves(req[h])
  /\ \/ objects[x] = None /\ objects' = [objects EXCEPT ![x] = [by |-> req[h], active |-> TRUE]]
     \/ objects[x] # None /\ objects[x].active /\ UNCHANGED objects
  /\ Answer(h, "accepted")

\* A removed charge remains, a deleted subscription does not.
ProviderRemoves(h) ==
  LET x == Target(h) IN
  /\ OnTheWay(h) /\ Routed(h)
  /\ Destroys(req[h])
  /\ objects[x] # None
  /\ objects' = [objects EXCEPT ![x] =
                   IF Webhooks(req[h]) THEN None ELSE [@ EXCEPT !.active = FALSE]]
  /\ Answer(h, "accepted")

ProviderReads(h) ==
  /\ OnTheWay(h) /\ Routed(h)
  /\ Observes(req[h])
  /\ Named(req[h]) = None \/ objects[Target(h)] # None
  /\ UNCHANGED objects
  /\ Answer(h, "accepted")

\* 404: no such object; of a setter, no such key of the account.
ProviderMisses(h) ==
  /\ OnTheWay(h) /\ Routed(h)
  /\ Destroys(req[h]) \/ Observes(req[h]) \/ (Ensures(req[h]) /\ Webhooks(req[h]))
  /\ Named(req[h]) # None /\ objects[Target(h)] = None
  /\ UNCHANGED objects
  /\ Answer(h, "missing")

\* 404 because the account has no such path, whatever is registered.
ProviderHasNoPath(h) ==
  /\ OnTheWay(h) /\ ~ Routed(h)
  /\ UNCHANGED objects
  /\ Answer(h, IF objects[Target(h)] = None THEN "missing" ELSE "unrouted")

ProviderRefuses(h) ==
  /\ OnTheWay(h)
  /\ UNCHANGED objects
  /\ Answer(h, "refused")

\* The process dies with its runs, wherever they are.
Crash ==
  /\ \E h \in Runs : Live(h)
  /\ pc' = [h \in Runs |-> IF Live(h) THEN "dead" ELSE pc[h]]
  /\ UNCHANGED <<objects, req, wire, answer, posted>>

Step(h) ==
  \/ Admitted(h) \/ SendCall(h) \/ SendFallback(h) \/ AlreadyAbsent(h) \/ Reply(h)
  \/ \E from \in {"wait", "wait3"} : Accepted(h, from)
  \/ \E from \in {"admit", "wait", "wait3"} : Failed(h, from)
  \/ \E sent \in BOOLEAN : Emit(h, sent)

Environment ==
  \/ \E h \in Runs, r \in Requests : Serve(h, r)
  \/ \E h \in Runs :
       \/ ProviderCreates(h) \/ ProviderRemoves(h) \/ ProviderReads(h)
       \/ ProviderMisses(h) \/ ProviderHasNoPath(h) \/ ProviderRefuses(h)
  \/ Crash

\* Every run has been used up, or every request is answered.
Quiescent ==
  /\ \A h \in Runs : ~ Live(h)
  /\ (\A h \in Runs : pc[h] # "idle") \/ (\A r \in Requests : AnsweredOk(r))
  /\ UNCHANGED <<objects, pc, req, wire, answer, posted>>

Exists(x) == objects[x] # None
Active(x) == Exists(x) /\ objects[x].active

\* What an ok answer of run h says of the provider.
Says(h) ==
  IF Destroys(req[h]) THEN ~ Active(Target(h))
  ELSE (Observes(req[h]) /\ Named(req[h]) = None) \/ Exists(Target(h))

\* The history takes no part in the behaviour.
Next ==
  /\ (\E h \in Runs : Step(h)) \/ Environment \/ Quiescent
  /\ UNCHANGED setter
  /\ truths' = truths \cup {h \in Runs : Live(h) /\ wire[h] # "none" /\ Says(h)}

Spec == Init /\ [][Next]_vars
------------------------------------------------------------------------------
(* Properties *)

\* Type invariant: a call is about one identity, and only calls make objects.
TypeOK ==
  /\ setter \in Setters
  /\ objects \in [Ids -> [by : Requests, active : BOOLEAN] \cup {None}]
  /\ pc \in [Runs -> {"idle", "admit", "call", "wait", "wait3", "emit", "reply", "done", "dead"}]
  /\ req \in [Runs -> Requests \cup {None}]
  /\ wire \in [Runs -> {"none", "sent", "fallback", "accepted", "missing", "unrouted", "refused"}]
  /\ answer \in [Runs -> {"none", "failed", "ok"}]
  /\ posted \subseteq [run : Runs, resource : {"charge", "due_charge", "webhook_subscription"},
                       name : Keys \cup {None}, verb : {"ensured", "destroyed"}]
  /\ truths \subseteq Runs
  /\ \A h \in Runs :
       /\ pc[h] # "idle" <=> req[h] \in Requests
       /\ wire[h] # "none" => Target(h) \in Ids

Made(r) == {x \in Ids : objects[x] # None /\ objects[x].by = r}

\* However often a request that names its object is redelivered, retried or
\* abandoned with its call on the way, it makes that object and no other: a
\* payout or refund moves money once (PUT by idEnvio, id or txid).
OneObjectPerIntent ==
  \A r \in Requests : Input[r].key # None =>
    \A x \in Made(r) : x = <<Collection(r), Input[r].key>>

\* "ok" is earned: what it says of the provider (the object exists, or is not
\* active any more) was true at a moment of the run after its call was sent,
\* whatever other runs and late calls do, if the account has the path that was
\* called (for the other case see DestroyedIsAbsent); and the core hears only of
\* runs that answer ok.
AnswersAreEarned ==
  /\ \A h \in Runs : answer[h] = "ok" /\ wire[h] # "unrouted" => h \in truths
  /\ \A e \in posted : answer[e.run] = "ok"

\* The documented meaning of a destroy's 404: the object did not exist.
DestroyedIsAbsent ==
  \A h \in Runs : answer[h] = "ok" /\ Destroys(req[h]) => h \in truths

\* The documented idempotency of ensure_charge: repeated, one request ensures one
\* charge, also when the provider generates its txid.
EnsureChargeIsIdempotent ==
  \A r \in Requests : Operation(r) = "ensure_charge" => \A x, y \in Made(r) : x = y

\* The documented meaning of resource_id: an event carries the identity of the
\* object its run ensured or destroyed.
EventsNameTheirObject == \A e \in posted : e.name = Target(e.run)[2]
==============================================================================
