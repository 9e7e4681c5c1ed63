# Verification of integration-efi

This directory holds the TLA+ models of the EFI Pix adapter, the TLC
configurations that check them on small instances, and the TLAPS proofs of the
properties that matter most. Source paths are relative to the repository
root; `sdk/` stands for
`vendor/github.com/dakasa-yggdrasil/yggdrasil-sdk-go/`, `efi/` for
`providers/efi/`.

## 1. The system and its parts

The adapter is one process behind a broker (or an HTTP listener). It takes
`execute` requests of the core, calls the EFI provider over mTLS and OAuth,
tells the core of mutations by best-effort events, and replies. It keeps no
database: its state is the queue it consumes, the requests in flight, a receiver
key that lives as long as the process, and whatever the provider has stored.

| Component | Code | State | Operations | Modelled by |
|---|---|---|---|---|
| Confidential setter and observers | `efi/adapter/confidential.go`, `efi/efiapi/confidential.go`, `efi/adapter/capabilities/ensure_webhook_subscription.go` | per run: request, own LIST, PUT, readback, outcome | list, single, confirm, ensure | `ConfidentialEnsure`, `SetterContract` |
| Confidential codec | `efi/confidential/codec.go` | receiver key pair | open, validate, seal | `ConfidentialEnsure` (times, key binding) |
| EFI HTTP client | `efi/efiapi/client.go` | token | authenticate, one exchange | inside every provider step |
| Automatic Pix webhook | `efi/adapter/capabilities/automatic_webhook.go`, `efi/adapter/automatic_webhook_events.go` | per run: first GET, PUT, readback | ensure, observe/gate, event | `AutomaticWebhook`, `AutomaticWebhookContract` |
| Publication and readiness | `cmd/adapter/main.go`, `public_runtime.go`, `health.go` | `runtime.json`, readiness | publish, read, ready, stop | `RuntimePublish` |
| Execute bridge, reconcilers | `efi/message/execute.go`, `efi/adapter/reconcile.go`, `adapter.go`, `spec.go` | none of its own | routing, reply, event choice | the module of the operation |
| SDK delivery | `sdk/rpc/amqp/amqp.go`, `sdk/adapter/adapter.go`, `sdk/adapter/transport.go` | connection, channels, semaphores, unacknowledged deliveries | consume, deliver, reply, settle, reconnect, close | `Consumer`, under any handler |
| SDK dispatch, events | `sdk/sdk/reconcile/*`, `sdk/sdk/events/http.go` | none | dispatch, post | inside the models of handlers |
| SDK HTTP transport | `sdk/rpc/http/http.go` | listener, `closed`, semaphore | accept, answer, shut down | not modelled, section 6 |
| Charges, payouts, refunds | `efi/adapter/capabilities/ensure_charge.go`, `ensure_due_charge.go`, `observe_charges.go`, `destroy_charge.go`, `refund_charge.go`, `create_payout.go` | at the provider | PUT/POST/PATCH/GET | `PlaintextOperations`; lists of charges `PagedListing` |
| Plaintext webhook subscription | `ensure_`/`observe_`/`destroy_webhook_subscription*.go` | at the provider | ensure, observe, destroy | `PlaintextOperations`; lists `PagedListing` |
| Page provenance | `webhook_page_provenance.go` | none | evidence of one page, cursor | `PagedListing` |
| Readiness probe | `observe_automatic_webhook_readiness.go` | per run: addresses found, addresses probed, the core's answer | DNS, TLS, core checks | `ReadinessProbe` |
| Surface queries | `efi/adapter/surface_query.go` | none | a page of rows and a cursor | `PagedListing` (webhook rows) |
| Inbound helpers, configuration, contract check, UI | see `PROJECT.json` | none that changes | | not modelled, reasons there |

**How they interact.** The broker delivers a message to one of five handlers of
the process (`main.go:75-81`). `ExecuteHandler` opens a sealed request with the
process's own key and runs the confidential path under the SDK's 30 s context,
or sends a plain request through the reconcile dispatch or the legacy switch.
The plain legacy path runs under `context.Background()` (`adapter.go:50-52`).
The path calls the provider through the client, and the provider's state is
shared by all handlers, all processes and every other writer of the account.
Events are posted to the core before the reply; the reply decides between Ack
and Nack(requeue); a lost connection gives all its deliveries back.

**What is hard, and what must hold.**

* Confidential setter. Two runs for one key interleave between LIST and PUT; the
  authorization may end between its check and the send; a PUT without an answer
  may still land; headers without a body prove acceptance and nothing else; a
  redelivery repeats everything; a restart rotates the key. It is correct when
  no PUT leaves without its run's own proof, when no answer or event claims more
  than what landed, and when no delivery is orphaned.
* Automatic webhook. The same races with no deadline and no LIST guard. It is
  correct when a matching registration is adopted, when the URL a run answers
  for was registered at the moment of its readback, and when its event tells the
  truth about who changed it.
* Publication. Readers run in other processes while the file is replaced, and a
  process may die at any step. It is correct when readers see whole files only,
  when a ready process has published its own key, and when failed starts leave
  nothing behind.
* Plaintext operations. Every request is served at least once and a call may be
  applied after its run gave up; the operations differ in method, in what names
  their object, in what they take a 404 for and in what their event says. They are
  correct when a request that names its object acts on it once however often it
  is served, and when an answer was true while its run lasted.
* Delivery. Several loops may find one connection dead at the same moment;
  handlers outlive the channel their delivery came by; a reply goes out on the
  channel of now and a settlement on the channel of then; Close runs while loops
  dial. It is correct when one socket is open, each delivery has one owner, nothing
  is acknowledged that was not answered, and after a loss every consumer comes back
  or Run ends loudly.
* Readiness probe. It reads names, servers and grants one after the other while they
  may change. It is correct when ready claims nothing that was not so during the
  run, and when a world that stands still is judged as it is.
* Pagination. Page, size, page count and total must agree at every boundary, the
  provider's numbers may be wrong one at a time, and the account may change
  between two pages. It is correct when evidence is true and a right page has it.

Every hazard, at its line, with the properties that would catch it, is listed
in `PROJECT.json` under `hazards`.

## 2. Modules and the code

### ConfidentialEnsure

One `Runs` element is one handler invocation, which serves one delivery. Its
`pc` walks through the code: `idle` -> `list` -> `check` -> `oauth` -> `put_v2`
(-> `wait` -> `put_v3`) -> `wait` -> `read` -> `verify` -> `emit` -> `reply` ->
`ack` -> `done`. Each arrow is an action named for what happened
(`ListAnswered`, `GuardRefused`, `PutUnreadable`, ...), and steps are split
exactly where another actor can come between: at each provider exchange, at the
token fetch between the guard and the send, at the event and at the settlement.

| Variable | Code |
|---|---|
| `clock` | `time.Now` as `ValidateTime` and `confidentialMutationAllowed` read it |
| `generation`, `sealedTo` | receiver key of the process; the key a request was sealed to |
| `regs`, `created`, `foreign` | registrations at the provider; the period each was created in (`criacao`); writes of other writers |
| `queue`, `owns` | the broker's view of a message; the run whose connection may still settle it |
| `guard` | what this run's own LIST returned (`ensureConfidential`) |
| `stale` | history: the run's key was written since that LIST |
| `wire` | the run's latest PUT as the provider holds it, with the version and the time sent |
| `readback`, `verdict` | the confirming GET; `failed`, `observed`, `held` or `confirmed` |
| `alive` | the handler context of `deliverLoop` |
| `events` | mutation events the core has received |

The environment acts at any time: the provider accepts or refuses a PUT that is
on the wire (even after the run has given up), another writer changes a
registration, the clock ticks, a handler's context ends, the connection drops,
the process restarts. Ciphertexts, tags, JSON and log lines are abstracted; any
failure they can cause is a failure action of the step they belong to.

A LIST asks for the caller's `inicio..fim` (`confidential.go:137`), and a row from outside
fails it (`:267`). Times of creation are a few `Periods`, and `Window` gives those a
request asks for: `Shown` is what a LIST of it shows, where a registration created
outside looks absent. The code claims no more (`docs/CAPABILITIES.md:213-214`).

`SetterContract` is the abstract specification: a run may land one setter of its
request, at any time; it answers `held` or `confirmed` only after that, and only
such an answer is published. `ImplementsContract` is the refinement mapping
(`landed` is the set of runs whose PUT the provider accepted).

### AutomaticWebhook

A run takes a request (`Take`), authenticates and then checks its input
(`Authenticated`: the client is built first, `adapter.go:78-86`), reads
(`ReadBeforeMutation`), PUTs when what it read is not what it wants (`SendPut`,
`PutAcknowledged`), reads back (`ReadBack`), posts the event up to `MaxRetries`
times (`Post*`), and replies. `ObserveAutomaticWebhooks` is the plain look and
the gate. `Fail` is any failing step; `Crash` stops every run where it is.
A request may be taken any number of times, as redelivery and retries do.
`AutomaticWebhookContract` is the abstract specification: one register per kind,
answers given at a moment the register holds the URL.

### RuntimePublish

One publisher at a time, numbered by `generation`, walks through `runAdapter` and
`publishPublicRuntime`: `Start` (key pair), `CreateTemp`, `WriteKeyID` and
`WritePublicKey` (a write is not atomic to a reader), `Rename`,
`DirectorySynced`, `BecomeReady`, `Signalled`, `Exit`; `Failed` at any step runs
the deferred removal, `Crash` runs nothing. Each reader takes one step per
system call of `readPublicRuntime` on the descriptor it opened. `linked` is the
file the path names; `content` is per file, so that a rename leaves open
descriptors on the old file; `writes` stands for size and time.

### PlaintextOperations

All plaintext operations in one machine, because they share the handler, the
provider and the collections. A run walks `idle` -> `admit` -> `call` -> `wait`
(-> `wait3`) -> `emit` -> `reply` -> `done`: `Serve` (delivery or retry, until the
request is answered ok), `Admitted` (capability of `message/execute.go`, dispatch
by operation with the legacy aliases of `adapter/spec.go`, then the checks of the
capability), `SendCall`, `SendFallback` (v3 after a 404 of v2), `Accepted`,
`AlreadyAbsent` (a destroy and a 404), `Emit` (posted or lost), `Reply`; `Failed`
is any failing step and `Crash` ends every run.

| Variable | Code |
|---|---|
| `setter` | whether the account accepts `/v2/webhook` or only the v3 setter |
| `objects` | per identity, the request that made the object and whether it is active |
| `wire` | the run's call as the provider holds it: sent, by v3, or how it was answered |
| `answer` | `ok` or `failed`, as it will be replied |
| `posted` | events the core has received: run, resource, name, verb |
| `truths` | history only: the runs whose ok was true at a moment since their call left |

An identity is a collection and a key; the txid the provider generates for a POST
is named by the run that sent it. The provider is external and modelled as its
documentation in the repository uses it: a PUT of an active object is an update,
of a removed charge a refusal; a payout or refund that is recorded is returned; a
removed charge stays, a deleted subscription does not; an account that has only
the v3 setter answers 404 on every v2 webhook path. Charges and due charges share
one collection, as the paths the code calls do. The checks of the capabilities
are modelled field by field, since an observation below is about them: `Has` is a
typed look at a field, `Prints` is `fmt.Sprint(...) != ""`, which an absent field
passes.

### PagedListing

One caller's walk: a first page (given or not), a page size (given or not, in
range or not), then the page its cursor names until the cursor is empty. The adapter
refuses a size out of range for webhooks (`Refuse`) and sends any for charges
(`observe_charges.go:64-66`), where the provider may refuse it (`ProviderRefuses`).
`Observe` is one call of `ObserveWebhookSubscriptions` (or of
`chargeReconciler.Observe`): `webhookPageProvenance` computes the evidence with the
comparisons of the code, `nextWebhookPageCursor` the cursor. The provider answers
honestly (`ObserveHonest`) or with any one thing wrong (`ObserveFaulty`): a counter
of any value and type, a row lost, repeated, replaced, unsound or outside the
window. `Register` and `Unregister` are other writers between two pages. `stable`
and `proved` are history: nobody changed the account since the first page; every
page so far was validated.

`surface_webhooks` is the same walk through `surfaceWebhookSubscriptions`: it hands on
the rows and the cursor and drops the evidence (`Provenance`).

### Consumer

The SDK's AMQP side, with any handler. A `Loops` element is a subscription's
goroutine (`Consume`, `setupConsumer`, `runWithReconnect`, `deliverLoop`) or the
transport's watchdog; its `pc` walks `look` -> `lock` -> `dial` -> `install` ->
`bind` -> `swap` -> `deliver` -> `backoff` -> `look`. `Run` consumes one capability after
the other, waits (`RunEnds`), closes every subscription and then the transport, in
the order its defers have. A handler is a record: its message, the channel the
delivery came by, its place in that channel's semaphore, its step.

| Variable | Code |
|---|---|
| `conn`, `open`, `dialled` | `t.conn`; the sockets the broker has open; how many there were |
| `closed`, `overtaken` | `t.closed`; history: a dial held `dialMu` when Close began |
| `pc`, `use` | where a loop is; the connection it goes on with |
| `opened`, `live`, `current` | channels of a subscription; whether the last is open; `s.ch` |
| `done`, `started`, `terminal` | `s.done`; what `Consume` returned; terminal errors reported |
| `state`, `buffer` | the broker's view of a message; delivered and not yet taken |
| `handlers`, `reply` | handlers in flight; whether the answer of a message was sent |

Steps are split at the locks (`connMu`, `dialMu`, `s.mu`), at every call to the broker,
and between reply, settlement and return. `ConnectionLost` and `ChannelLost` may come at
any moment, up to `MaxLosses` together.

A reconnect of a started subscription fails in two ways. An error whose AMQP code is
access refused, not found, locked or precondition failed is terminal (`amqp.go:737`): of a
bind (`BindRefused`), and also of a dial (`DialRefused`), since `setupConsumer` wraps the
error of the dial with `%w` (`:246`) and `amqp091.Dial` returns `ErrSASL`,
`ErrCredentials` and `ErrVhost` with the code of an access refused, the last two for
any failure in the rest of the handshake. Both report and end the loop (`ReportTerminal`),
and `Run` ends. Any other error is retried with backoff (`DialFailed`, `BindFailed`),
without a bound. The watchdog retries whatever the error is.

`DeliveryContract` is what a handler, and the sender of a request, may rely on: a queue
without loops, channels or connections. A message is delivered and may be taken back at any
moment; a delivery is executed once at most; an execution that has lost its delivery may
still answer and settles nothing; who has the delivery decides, acknowledges only what
was answered, and does not end before it has settled. `Consumer` implements it
(`ImplementsDelivery`) under a mapping of `state` to `place`, `buffer` to `pending`, the number of
handlers of a message to `running`, and what the handler at `settle` is about to say to
`verdict`.

### ReadinessProbe

One run of `observe_automatic_webhook_readiness`, from `Configured` (input and
configuration) over the two lookups, one `Probe` per address, `AskCore` and `Judge`
to `ready` or `failed`. `world` is what it asks: the addresses of both names, each
server's TLS version and what it does with a client without a certificate, the
grant of the core. The world changes and the clock ticks between any two steps; an
exchange may fail, or a handshake end for a wrong reason. `told` is the core's answer,
which is judged later, by the clock of then. `past` is history: every world and time since
the start, of which `ready` must have its witnesses.

### MC modules

`MCConfidentialEnsure`, `MCAutomaticWebhook`, `MCRuntimePublish`,
`MCPlaintextOperations`, `MCPagedListing`, `MCConsumer` and `MCReadinessProbe` give
the constants their values and the symmetry sets. The definitions that the comments
call `Mutant` are not part of any specification: each states a plausible defect of
the definition below it, and the property it is paired with in `PROJECT.json`
is violated once it takes that definition's place.

## 3. The runs

| Run | Properties | Instance | Shows |
|---|---|---|---|
| `ensure_rivals` | `TypeOK`, `EveryPutWasProved`, `VerdictsAreEarned`, `OverwritesAreUnseen` | 2 runs at once, of 2 ensures of one key for 2 URLs or of a late confirm and a list; the key has a registration older than the ensures' window, a second key a recent one; clock 0..1 (1.2 million states) | rivals: both LISTs may show the key absent and both write; a stale proof is possible, a missing one is not |
| `ensure_redelivery` | `EventsAreEarnedAndOpaque`, `NoOrphanDelivery`, `OnlyCurrentReceiverWrites`, `NoBlindResend`, `ImplementsContract`, `EveryDeliveryFinishes` | 2 runs of an ensure, 2 keys registered or not, 1 restart, 1 foreign write, fair handlers | lost replies, lost connections, key rotation; the handlers implement `SetterContract`; a taken delivery ends without any help of the provider |
| `automatic_webhook` | `TypeOK`, `EventsTellWhoChanged`, `MatchingIsAdopted`, `ImplementsContract`, `EveryRunFinishes` | 2 runs, 5 requests of 2 kinds, 2 URLs, 2 posts, 1 foreign write, crash | ensure and gate are a register per kind |
| `runtime_publish` | `TypeOK`, `PrintedIsOneKey`, `ReadyIsPublished`, `PrintedIsFresh`, `LeftoversAreCrashes` | 3 processes, 2 readers | whole files, fresh keys, no leftovers |
| `plaintext_operations` | `TypeOK`, `OneObjectPerIntent`, `AnswersAreEarned` | 2 runs, 15 requests, 2 keys, accounts with either setter | one object per named intent; what an ok says was true while its run lasted |
| `paged_listing` | `TypeOK`, `ProvedWalkIsComplete`, `EvidenceIsTrue`, `RightPageIsProved` | webhooks, their surface query and charges (1 million states); accounts of up to 3 rows, times 0..2 with window 1..2, page sizes none and 0..3 of at most 2, counters to 4 of at most 3, 1 change, 2 wrong answers | evidence is true, and no right page is denied it |
| `consumer` | `TypeOK`, `OneConnection`, `EachDeliveryHasOneOwner`, `SettledIsEarned`, `InFlightIsBounded`, `NoSilentEnd`, `CloseIsFinal`, `OnlyOwnersSettle`, `ConsumersComeBack`, `ImplementsDelivery` | 1 subscription and the watchdog, 1 message with or without `reply_to`, 1 loss, failed and refused dials and binds, shutdown (450 000 states) | deliveries, the connection and the shutdown under a loss at any moment; the whole implements `DeliveryContract` |
| `readiness_probe` | `TypeOK`, `ReadyIsEarned`, `SteadyWorldIsJudgedRight` | every world of 2 public addresses and a private one, clock 0..1, 1 change, 1 fault (5.3 million states) | ready is earned, and a steady world is judged rightly |
| `charge_twice` | `EnsureChargeIsIdempotent` (violated) | 2 runs, an `ensure_charge` without txid and two ensures of a txid | finding 1 |
| `event_unnamed` | `EventsNameTheirObject` (violated) | a charge made by txid, destroyed by txid or by reference | finding 2 |
| `webhook_remains` | `DestroyedIsAbsent` (violated) | an account with the v3 setter only | finding 3 |
| `charges_cut` | `EmptyCursorMeansComplete` (violated) | `observe_charges` with a page size, no fault, no change | finding 4 |

**Bounds, and why they are enough to be interesting.**

* Two runs are the smallest number that can race, and they also are one delivery
  and its redelivery. Every property of the setter relates one run to the shared
  state, so a third run adds another writer, which `ForeignWrite` is already.
* `MaxTime = 1` with `Skew = 1` and a lifetime of one tick lets an
  authorization begin, be ahead of the clock (that of the list), and end between any
  two steps, and a confirm come after its end.
* `MaxRestarts = 1` gives a request sealed to an old key; `MaxForeign = 1` gives a
  registration that changes between any two of a run's reads. The redelivery run keeps
  the clock still: the end of an authorization is the other run's, and a run whose
  authorization ended takes the failing step, which liveness has anyway.
* `ensure_rivals` begins with one account (`RivalsSpec`): the LIST proves something, as the
  second key is in the window, and shows the first key absent, as its registration is
  older. So a PUT may overwrite what its window left out, the rival's new registration
  that it could not have seen, or, after a LIST that came late, only its own URL. `Served`
  keeps one pair of requests a behaviour, the two ensures or the confirm and the list.
* `MaxGuardRows = 1` with two keys in `ensure_redelivery` makes the LIST too large to seal;
  the audit identity of its request is the second key, so a fresh LIST may reveal the
  collision. Its accounts are any; `created` is one period, as the window is not in question.
* `Concurrency = 1` in the redelivery run makes a second handler of one request
  appear only by a lost connection, as in the code.
* `MaxRetries = 2` has a first, a repeated and a last post; the code uses 3.
* Three generations have a current, a previous and an older file; a reader holds
  one descriptor, so a third reader sees nothing a second does not.
* In `plaintext_operations` two runs are a delivery and its redelivery, a retry, or
  two rivals of one identity; each pair of the fifteen requests is met. A third run
  with five of the requests (`post`, `put`, `drop`, `pay`, `refund`) was also checked, 417 000
  states, with nothing new; the theorems need no bound.
* Three rows and pages of one and two have an empty list, a partial page, a full last
  page and a walk of three pages. The window has times inside it, at both its ends
  and outside. `MaxInt32 = 3` lets a counter be at, and beyond, the largest that is
  believed. Two wrong answers may be on two pages, or one may follow the other.

* One loss, one message and one subscription beside the watchdog have the races of
  `consumer`: two loops that reconnect, a handler that outlives its channel, a
  redelivery beside it, a loss during the shutdown. Larger instances were checked by
  hand with the same result: two subscriptions without a message and 2 losses
  (886 000 states), one with 2 messages (11.5 million), one with a message and 2 losses (8
  million), the safety properties only. The theorems need no bound.
* Two public addresses have a probe between two probes and a set that differs in one
  member; the third is the private one; expiry may be at, before and after the
  clock. One change and one fault suffice to mix two moments or two reasons.

Symmetry is used for runs, readers, the public addresses and, in the walks, keys,
and in no run that checks liveness.
No configuration switches deadlock checking off: each module has a `Quiescent`
step for the state in which everything is used up, and a state that is neither
that nor able to move is reported.

**Fairness.** Of the handlers' modules, `FairSpec` adds `WF_vars(Step(h))` for each run
and nothing else. A
goroutine that can run does, and every exchange ends because `http.Client` has a
timeout (30 s for the provider; the emitter has its own), so a run always has a
step: the failing one. Nothing is assumed of the provider, the broker, the core
or the clock. `EveryDeliveryFinishes` and `EveryRunFinishes` therefore say that
no step waits for an answer that may never come; their mutants are a readback
that is abandoned by nobody and an emitter that retries for ever.

In `Consumer` weak fairness is that of goroutines: each loop, the watchdog, and `Run` once
a subscription has reported a terminal error, which its `select` receives. Strong fairness
of a dial and of a bind says that the broker does not fail them for ever in a way that
is retried; without it nothing comes back, and the code promises no more (it retries
with backoff). A dial or a bind that is refused for good needs no fairness: the
subscription reports it and `Run` ends, which `ConsumersComeBack` allows and
`NoSilentEnd` demands.
Handlers, messages and losses need no fairness for `ConsumersComeBack`.

## 4. What is proved

TLAPS checks the following for every value of the constants, under
the assumptions named in the modules (`ConstantsAssumption`, `BoundsAssumption`,
`InputAssumption`, `InputsAssumption`, `ListingAssumption`, `ConsumerAssumption`,
`ProbeAssumption`), which say that the inputs are of their types and that the placeholders
are none of them. `ListingAssumption` also says that the largest page size fits 32 bits, as
the code's own constant does, and that an account holds finitely many keys.

**`ConfidentialEnsureProofs`** rests on one inductive invariant, `IInv`. None of
the properties is inductive alone: `EveryPutWasProved` speaks of a PUT that is out,
and only the step of the run says what the guard had established before it. So
`IInv` adds, per `pc`, what the run already has: an idle run serves nothing
(`IdleServesNothing`); from `oauth` to `wait` it stands on a LIST that admits
the PUT (`GuardStands`); how far its PUT is (`PutFollowsPc`); that it has not
concluded while deciding (`VerdictFollowsPc`); and that the public identity is
not the Pix key (`IdentityIsOpaque`). One lemma per group of actions shows it is
kept. From it: `TypeCorrect`, `PutsAreProved`, `VerdictsEarned`, and, as step
properties, `NoResend` and `OverwriteUnseen`. The last needs a second invariant, `ListStands`
(`ListStandsUntilWritten`): as long as its key has not been written, what a run's LIST has
shown of it is what a LIST would show now. A run that reaches its PUT had seen its key
absent or at its own URL; so what it replaces was written since, or was not shown.

The second half of the module is about deliveries and events. `EventsEarned`: the events
grow only by that of a run at `emit`, and what that run had earned it keeps. `BrokerInvariance`,
`NoOrphan`: a message is delivered exactly when one live run owns it; needed
because settlement by a run that lost its connection must have no effect.
`CurrentReceiver`: a live run serves a request sealed to this generation, since
a restart ends every run of the last one. `Implementation`: every step of
`ConfidentialEnsure` is one of `SetterContract` or a stutter under the mapping.

**`RuntimePublishProofs`**: a file is written only under its temporary name, when
nobody can have opened it; so a file that the path names, or that a reader
holds, is finished and stays so (`LinkedIsFinished`, `ReaderFollowsFile`).
`DraftFollowsPc` and `FutureIsBlank` carry the draft from blank to finished.
From that: `TypeCorrect`, `PrintsOneKey`, `ReadyPublished`, `PrintsFreshKey`.
`LeftoversCounted` counts: the temporary files that nobody uses any more are at most
the crashes so far, for only a crash runs no removal (`LInv`, with the library's
facts on cardinality).

**`PlaintextOperationsProofs`**. `OneObjectPerIntent` needs to know that a call on the
wire is one that was admitted: a request without a key may make any object of its
own. `AnswersAreEarned` needs the moment of the answer to survive what others do
afterwards. So `IInv` adds: where a run is and what it has on the wire go together
(`CallFollowsPc`); what is called was checked (`CalledIsChecked`); when the provider
has answered a run that is still to conclude, what the answer says is true now or in
history (`ToldIsTrue`), and so is an ok that has been concluded (`OkIsTold`); events are of
runs that answered ok (`PostedIsOk`). The argument is about rivals: the step with which
another run makes a told answer false is the step that remembers it was true, since
the history takes the state before the step (`Remembering`). One lemma per kind of
step, `NextKeepsIInv` combines them; from it `TypeCorrect`, `IntentsActOnce` and
`AnswersEarned`, for any number of runs, requests, keys and inputs.

**`AutomaticWebhookProofs`**. `EventsTellWhoChanged` and the mapping need to know what a
run that is past its readback has seen; the invariant `Progress` says, per `pc`, what
the run has read (`Differs`: a run that PUT had read something else). From it
`TypeCorrect`, `EventsAreTrue`, `Adopts` and `Implements`: every step is a step of
`AutomaticWebhookContract` or a stutter.

**`PagedListingProofs`** proves what the evidence of one page and of a whole walk means,
for any window, page size, cursor and counters, without a bound. An induction over data
is used in the form of a least element (`LeastNatural`, `SetInduction`), which needs no
operator as a parameter. With it: the window of an account holds each row in the window
once and in its order (`InWindowOfAccount`), by the recursive function that defines it.
Of the cuts of a list into pages it is shown which pages exist (`PageExists`) and that
slices one after the other are a longer slice (`SliceProperties`, `NextSlice`), over products of
two unknowns. A fault of the provider shows in the rows or leaves them right
(`BadRowsShow`, `FaultyAnswer`); so a page that passes the check is the page the window
has there (`CheckedPage`), and a page that says complete is the whole window
(`CompletePage`); the converse, that a right page passes, is `RightAnswerChecked`. From
these: `EvidenceTrue` and `RightPagesProved`. For the walk, `WalkInv` adds to
the type what a walk is before its first page (`Fresh`) and what it has collected later:
if nobody changed the account and every page so far was validated, or none was wrong,
then exactly the pages of the list before the one it asks for next, and all of the
list when it has ended (`Prefix`). That gives `ProvedWalksComplete` and
`ProvedWalksMissNothing`. `CompletePage` does not need
the total the provider claims: one page counted, and a page that exists, are enough.

**`ConsumerProofs`** is about the loops. `OneSocket` needs that the dial lock has one
holder, that its holder found no live connection, and that an open socket is `conn`
or the one the holder has just dialled (`CInv`). `NoneEndsSilently` and `ClosedForGood` need
what is true as the shutdown goes on (`SInv`): `closed` and the step of `Run` go together,
and unless a dial was overtaken nobody dials any more (`Shut`); subscriptions start one
after the other, and the first that fails ends `Run` (`Start`); none is closed while `Run`
goes on (`Closing`). `Live` ties a live channel to its loop and to an open connection.

**`ConsumerDeliveryProofs`** is about the deliveries. `AckedMeansAnswered`: a handler that will
acknowledge has replied (`Answered`). `Bounded`: two handlers of one channel have two
places of its semaphore, so a channel has at most `Concurrency` (`Slots`, an injection
into channels times places). `OneOwner`: an unacknowledged message is in the buffer or
with one handler of the open channel; handlers of older channels exist beside it and
count for nothing, since the channel's number only grows (`Owned`). `OwnersSettle`
follows step by step. `Implementation` takes all of it together (`RInv`: `Owned`, `Slots`,
`Answered`, and finitely many handlers to count): every step of the loops, the watchdog,
the broker, the handlers and the shutdown is a step of `DeliveryContract` or none. Two
steps carry the argument: a new channel changes no verdict, since what the old one had
is lost by then (`BindImplements`), and a handler that returns is never the last one of a
delivery that is still out (`ReturnImplements`).

**`ReadinessProbeProofs`**. The invariant says of each step of the probe which worlds of
`past` witness what it has established (a lookup, a refusal, the grant), and that in a
world that stood still a failed probe had a reason. `TypeCorrect`, `ReadyEarned`
and `SteadyJudgedRight` follow for any sets of addresses and any number of changes.

**Only model-checked**: the liveness properties (`EveryDeliveryFinishes`,
`EveryRunFinishes`, `ConsumersComeBack`), as fairness is out of the prover's reach. Every
invariant and action property of the passing runs is a theorem. The four violated
properties are refuted by their runs and have none.

## 5. What the models say, beyond the properties

**Findings.** Four runs show code that does not do what the repository says of it.

1. `charge_twice`. `ensure_charge` without a txid is a POST; a redelivered or retried
   request makes a second charge. The capability is documented as idempotent.
2. `event_unnamed`. The results of EFI have none of the members from which the SDK takes
   a `resource_id`, so the event of an ensure, and of a destroy given by txid or
   chave, has none. With both a reference and a txid the event names the one
   and the other is destroyed.
3. `webhook_remains`. Ensure falls back to v3; destroy knows v2 only and takes its 404
   for "already absent", so on an account with the v3 setter only the subscription
   remains and destroy answers ok.
4. `charges_cut`. `observe_charges` and `observe_due_charges` return the empty cursor,
   which means "complete", after the first of several pages.

The passing properties of the same modules say how far these reach: a request
that names its object is safe from 1, and on an account with the v2 paths every ok
was true (3).

**Observations.**

* `OverwritesAreUnseen` is as strong as it gets. The LIST and the PUT are separate
  exchanges and the provider has no conditional PUT, so two rival intents can
  overwrite one another: the documented obligation of an exclusive writer. And a
  registration created outside the caller's window looks absent and is overwritten
  without any race: that the window covers the account's history is the caller's
  obligation, which the adapter does not prove (`docs/CAPABILITIES.md:213-214`).
  The model shows that there is no third way.
* A dial that the broker refuses in the AMQP handshake ends a started subscription, and with
  it `Run`, as a queue that is gone does (`amqp.go:246`, `:737`). A broker that goes down
  in the middle of a handshake looks the same: its `ErrCredentials` or `ErrVhost` ends a
  process that a retry would have brought back.
* `PrintedIsOneKey` does not need the reader's second `Stat`: the rename alone
  gives it, since a published file is never written again. The second check is a
  defence against publishers other than this one.
* `LeftoversAreCrashes`: a process killed between `CreateTemp` and `Rename`
  leaves its temporary file in the tmpfs, and no later start removes it.
* Readiness means "key published, TLS loaded", not "consuming": the consumers
  are bound afterwards, in `Run` (`main.go:130-134`).
* When the PUT of `ensure_automatic_webhook` is accepted and its readback
  fails, the call fails without an event, and the retry truthfully reports
  `changed = false`: no event ever reports that change. `EventsTellWhoChanged`
  holds; "each change is reported" does not and is not promised
  (the error says the registration may have been applied).
* A payout whose required nested fields are absent passes the check for emptiness,
  because `fmt.Sprint` of an absent field is `<nil>`; whether the provider refuses the
  call is not in this repository.
* `sdk/rpc/transport.go` calls `Concurrency` "the max number of handlers in flight at once";
  it is that of one channel. After n losses up to n + 1 times as many run
  (`InFlightIsBounded` has the exact bound), as the handlers of a lost channel go on.
* A handler's timeout only cancels a context, though the comment says the transport
  nacks. A handler that ignores it, as the plain path does (`adapter.go:50-52`), goes on; but
  its answer is then refused (`PublishWithContext` asks the context) and its delivery
  requeued, so an operation that takes longer than 30 s is executed again each time.
  `OneObjectPerIntent` says that this is harmless only for requests that name their
  object. `Subscription.Close` does not
  wait for handlers in flight, though its comment says so; `Exit` ends them.
* A dial that holds the lock when `Transport.Close` begins installs its connection
  afterwards; it stays open, with its consumers, until the process exits (`overtaken`).
* A delivery without `reply_to` is executed, cannot be answered, and is requeued, every
  time it succeeds. A reply may also go out on the new channel while its delivery was of the lost one:
  the caller is answered and the request is executed again.
* The readiness probe may claim that both names agree although they never did at one
  moment: each was looked up once, and the record of one changed in between.
* The surface's webhook query has a cursor, and the UI reads one page: its comments
  (`surface-ui/src/data/useWebhookSubscriptions.ts:14-15`, `:43`) speak of every
  subscription. With more than the page size, older ones are not shown.
* An empty list is validated, and proved complete only if the provider counts one
  empty page of it: with zero pages the evidence says validated and not complete.
* The cursor follows the page the answer claims, not the page that was asked for: one
  wrong `paginaAtual` can send a walk back or skip a page. `ProvedWalkIsComplete`
  holds because the evidence of that page is then not validated.

## 6. Abstracted or not modelled

* Cryptography, padding, JSON strictness, redaction, metrics, traces and logs.
* URL syntax: a request is well formed or it is refused.
* Retention and dead-lettering of the broker: a requeued message comes again.
* The response body limit (`efi/efiapi/confidential.go:128`): a cut document
  does not decode, which is the failure of the exchange.
* The SDK's HTTP transport, the one in use unless `YGGDRASIL_TRANSPORT=amqp`: one
  request, one handler, one answer, nothing kept or delivered again. The handler
  modules cover it as a delivery that is served once and whose caller retries. Its
  listener and shutdown have no module: it accepts before `Consume` has registered the
  handlers (a 404), an error of the listener after its first 25 ms is not read, a
  request that waits for the semaphore may start after Close, and shutdown waits 10 s for
  handlers that may take 30.
* The SDK's publish side, `RequestReply` and topology declaration: not used here.
* Deduplication of events by the core: it is not in this repository.
* Configuration parsing, `describe`, contract types, `contractcheck` and the
  React surface: no state that changes. Inbound webhook helpers: stateless, and
  nothing in the process feeds the reactor.

## 7. Plan

Done: the confidential setter with its contract, the automatic webhook with its
contract, publication, the plaintext operations, the paged lists with their surface
query, the consumer of the SDK with its contract, the readiness probe; proofs for all of
them. What remains, in order:

1. `Consumer` composed with one handler, so that the redelivery of `ConfidentialEnsure` is
   the one `DeliveryContract` allows and not an action of its own: the contract is the
   interface the composition needs.
2. The HTTP transport: its listener against `Consume`, its shutdown against requests
   in flight.
