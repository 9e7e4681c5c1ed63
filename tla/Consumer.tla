------------------------------- MODULE Consumer -------------------------------
(***************************************************************************)
(* The SDK's AMQP side under any handler: Adapter.Run, the transport with  *)
(* its one connection, its watchdog and its Close, the subscriptions with  *)
(* their reconnect loops, and what becomes of every delivery.              *)
(*                                                                         *)
(* Abstracted: the length of a backoff, the publish channel (this adapter  *)
(* publishes nothing), handlers (they end well or not), and the broker's   *)
(* order of delivery.  One message has one queue, one subscription each.   *)
(***************************************************************************)
EXTENDS Integers, FiniteSets

CONSTANTS
  Subs,        \* subscriptions, one for each registered capability
  Watchdog,    \* the transport's own loop
  Messages,    \* requests
  Queue,       \* the subscription whose queue holds a message
  Concurrency, \* prefetch, and handlers at once, of one channel
  MaxLosses    \* bound of the channels and connections lost

ASSUME ConsumerAssumption ==
  /\ Watchdog \notin Subs
  /\ Queue \in [Messages -> Subs]
  /\ Concurrency \in Nat \ {0} /\ MaxLosses \in Nat

Loops == Subs \cup {Watchdog}

VARIABLES
  \* the transport
  conn,      \* t.conn: number of the connection, 0 once closed
  open,      \* connections that are open
  dialled,   \* number of connections so far
  closed,    \* t.closed: Close has begun
  losses,    \* number of losses so far
  overtaken, \* history: a dial was under way when Close began
  \* the loops
  pc,        \* next step of each loop
  use,       \* connection a loop goes on with
  \* the subscriptions
  opened,    \* number of channels so far; only the latest can be open
  live,      \* the latest is
  current,   \* s.ch, by number
  done,      \* how far Close of the subscription is
  started,   \* subscriptions that Consume returned
  terminal,  \* subscriptions that reported a terminal error
  main,      \* next step of Run
  \* deliveries
  state,     \* where a message is, to the broker
  buffer,    \* delivered, not yet taken by deliverLoop
  handlers,  \* handlers in flight
  reply      \* the reply of a message: not asked for, wanted, or sent

transport == <<conn, open, dialled, closed, losses, overtaken>>
subscription == <<opened, live, current, done, started, terminal>>
delivery == <<state, buffer, handlers, reply>>
vars == <<transport, pc, use, subscription, main, delivery>>

Handler == [msg : Messages, ch : Nat \ {0}, slot : 1 .. Concurrency,
            step : {"work", "reply", "settle", "return"}, fate : {"acked", "ready", "dropped"}]

Goto(d, from, to) == pc[d] = from /\ pc' = [pc EXCEPT ![d] = to]

\* The channels of S are gone: the broker has back what they did not settle.
Die(S) ==
  /\ live' = [s \in Subs |-> live[s] /\ s \notin S]
  /\ state' = [m \in Messages |->
                 IF state[m] = "unacked" /\ Queue[m] \in S THEN "ready" ELSE state[m]]

On(c) == {s \in Subs : use[s] = c}

------------------------------------------------------------------------------
(* The connection: connectionForUse, reconnect, watchdogLoop *)

\* A pass of setup that fails: the loop retries, but a first Consume ends Run.
Fails(d, from) ==
  LET first == d \in Subs \ started IN
  /\ Goto(d, from, IF first THEN "ended" ELSE "backoff")
  /\ main' = IF first THEN "close" ELSE main
  /\ use' = [use EXCEPT ![d] = 0]

\* Mutant: a permanent refusal ends the loop and nobody is told.
EndSilently(s, from) ==
  /\ s \in started
  /\ Goto(s, from, "ended")
  /\ UNCHANGED <<transport, use, subscription, main, delivery>>

\* The broker refuses for good what the loop of a started subscription asks of it:
\* the loop reports that to Run and ends.
ReportTerminal(s, from) ==
  /\ s \in started
  /\ Goto(s, from, "ended")
  /\ terminal' = terminal \cup {s}
  /\ UNCHANGED <<transport, use, opened, live, current, done, started, main, delivery>>

HaveConnection(d) == IF d = Watchdog THEN "watch" ELSE "bind"

ConnectionFound(d) ==
  /\ conn \in open
  /\ d = Watchdog => ~closed
  /\ Goto(d, "look", HaveConnection(d))
  /\ use' = [use EXCEPT ![d] = conn]
  /\ UNCHANGED <<transport, subscription, main, delivery>>

ConnectionMissing(d) ==
  /\ conn \notin open /\ ~closed
  /\ Goto(d, "look", "lock")
  /\ UNCHANGED <<transport, use, subscription, main, delivery>>

ErrClosed(s) ==
  /\ conn \notin open /\ closed
  /\ Fails(s, "look")
  /\ UNCHANGED <<transport, subscription, delivery>>

\* dialMu
Dialling(d) == pc[d] \in {"dial", "install"}
Unlocked == \A d \in Loops : ~Dialling(d)

\* Another caller has reconnected meanwhile.
AlreadyReconnected(d) ==
  /\ Unlocked /\ conn \in open
  /\ Goto(d, "lock", IF d = Watchdog THEN "look" ELSE "bind")
  /\ use' = [use EXCEPT ![d] = conn]
  /\ UNCHANGED <<transport, subscription, main, delivery>>

\* Mutant: who waited for the lock does not look again.
LockBlindly(d) ==
  /\ Unlocked /\ ~closed
  /\ Goto(d, "lock", "dial")
  /\ UNCHANGED <<transport, use, subscription, main, delivery>>

\* Mutant: who waited for the lock does not ask whether Close has begun.
LockThoughClosed(d) ==
  /\ Unlocked /\ conn \notin open
  /\ Goto(d, "lock", "dial")
  /\ UNCHANGED <<transport, use, subscription, main, delivery>>

Lock(d) ==
  /\ Unlocked /\ conn \notin open /\ ~closed
  /\ Goto(d, "lock", "dial")
  /\ UNCHANGED <<transport, use, subscription, main, delivery>>

\* Close came while the loop waited.
LockClosed(d) ==
  /\ Unlocked /\ conn \notin open /\ closed
  /\ Fails(d, "lock")
  /\ UNCHANGED <<transport, subscription, delivery>>

Dialled(d) ==
  /\ Goto(d, "dial", "install")
  /\ dialled' = dialled + 1
  /\ open' = open \cup {dialled'}
  /\ use' = [use EXCEPT ![d] = dialled']
  /\ UNCHANGED <<conn, closed, losses, overtaken, subscription, main, delivery>>

\* No connection, or, to the watchdog and to a first Consume, a refused one.
DialFailed(d) ==
  /\ Fails(d, "dial")
  /\ UNCHANGED <<transport, subscription, delivery>>

\* Credentials, virtual host or handshake are refused: AccessRefused, as the code
\* of a queue that is not ours.
DialRefused(s) == ReportTerminal(s, "dial")

Install(d) ==
  /\ Goto(d, "install", IF d = Watchdog THEN "look" ELSE "bind")
  /\ open' = open \ {conn}
  /\ Die(On(conn))
  /\ conn' = use[d]
  /\ UNCHANGED <<dialled, closed, losses, overtaken, use, opened, current, done, started,
                 terminal, main, buffer, handlers, reply>>

\* The watchdog sees its connection end, or its backoff.
Watched ==
  /\ \/ Goto(Watchdog, "watch", "look") /\ use[Watchdog] \notin open
     \/ Goto(Watchdog, "backoff", "look")
  /\ ~closed
  /\ use' = [use EXCEPT ![Watchdog] = 0]
  /\ UNCHANGED <<transport, subscription, main, delivery>>

WatchdogEnds ==
  /\ closed /\ pc[Watchdog] \in {"look", "watch", "backoff"}
  /\ pc' = [pc EXCEPT ![Watchdog] = "ended"]
  /\ UNCHANGED <<transport, use, subscription, main, delivery>>

------------------------------------------------------------------------------
(* A subscription: Consume, setupConsumer, runWithReconnect *)

\* Run consumes one capability after the other.
Consume(s) ==
  /\ main = "start"
  /\ \A t \in Subs \ started : pc[t] = "new"
  /\ Goto(s, "new", "look")
  /\ UNCHANGED <<transport, use, subscription, main, delivery>>

\* Channel, passive declare, prefetch and consume on the connection at hand.
Bind(s) ==
  /\ use[s] \in open
  /\ Goto(s, "bind", "swap")
  /\ opened' = [opened EXCEPT ![s] = @ + 1]
  /\ live' = [live EXCEPT ![s] = TRUE]
  /\ UNCHANGED <<transport, use, current, done, started, terminal, main, delivery>>

BindFailed(s) ==
  /\ Fails(s, "bind")
  /\ UNCHANGED <<transport, subscription, delivery>>

\* The queue is missing, locked or not ours: whether or not the connection has
\* ended since the broker said so.
BindRefused(s) == ReportTerminal(s, "bind")

Swap(s) ==
  /\ Goto(s, "swap", "deliver")
  /\ current' = [current EXCEPT ![s] = opened[s]]
  /\ started' = started \cup {s}
  /\ main' = IF main = "start" /\ started' = Subs THEN "run" ELSE main
  /\ UNCHANGED <<transport, use, opened, live, done, terminal, delivery>>

\* Mutant: a channel that ends is taken for the end of the subscription.
LoopEndsForGood(s) ==
  /\ ~live[s]
  /\ Goto(s, "deliver", "ended")
  /\ buffer' = {m \in buffer : Queue[m] # s}
  /\ UNCHANGED <<transport, use, subscription, main, state, handlers, reply>>

\* Mutant: the deliveries of a lost channel wait for the next one.
LoopEndsKeeping(s) ==
  /\ ~live[s]
  /\ Goto(s, "deliver", IF done[s] = "done" THEN "ended" ELSE "backoff")
  /\ UNCHANGED <<transport, use, subscription, main, delivery>>

\* deliverLoop returns: its channel is closed.  What it had not taken is dropped.
LoopEnds(s) ==
  /\ ~live[s]
  /\ Goto(s, "deliver", IF done[s] = "done" THEN "ended" ELSE "backoff")
  /\ buffer' = {m \in buffer : Queue[m] # s}
  /\ UNCHANGED <<transport, use, subscription, main, state, handlers, reply>>

Retry(s) ==
  /\ done[s] # "done"
  /\ Goto(s, "backoff", "look")
  /\ UNCHANGED <<transport, use, subscription, main, delivery>>

SubscriptionEnds(s) ==
  /\ done[s] = "done"
  /\ Goto(s, "backoff", "ended")
  /\ UNCHANGED <<transport, use, subscription, main, delivery>>

------------------------------------------------------------------------------
(* Deliveries: the broker, deliverLoop, wrap *)

Push(m) ==
  LET s == Queue[m] IN
  /\ live[s] /\ state[m] = "ready"
  /\ Cardinality({n \in Messages : Queue[n] = s /\ state[n] = "unacked"}) < Concurrency
  /\ state' = [state EXCEPT ![m] = "unacked"]
  /\ buffer' = buffer \cup {m}
  /\ UNCHANGED <<transport, pc, use, subscription, main, handlers, reply>>

\* The handlers in flight of the channel that deliverLoop reads.
InFlight(s) == {x \in handlers : Queue[x.msg] = s /\ x.ch = current[s]}

TakeSlot(m, slots) ==
  LET s == Queue[m] IN
  /\ pc[s] = "deliver" /\ m \in buffer
  /\ \E n \in slots \ {x.slot : x \in InFlight(s)} :
       handlers' = handlers \cup
         {[msg |-> m, ch |-> current[s], slot |-> n, step |-> "work", fate |-> "acked"]}
  /\ buffer' = buffer \ {m}
  /\ UNCHANGED <<transport, pc, use, subscription, main, state, reply>>

\* Mutant: the semaphore has room for one more.
TakeOneMore(m) == TakeSlot(m, 1 .. Concurrency + 1)

\* Each deliverLoop has a semaphore of its own.  It may still take a delivery of
\* a channel that has just been lost.
Take(m) == TakeSlot(m, 1 .. Concurrency)

Becomes(x, y) == handlers' = (handlers \ {x}) \cup {y}

Work(x) ==
  /\ x.step = "work"
  /\ \E fate \in {"acked", "dropped"} :
       Becomes(x, [x EXCEPT !.step = "reply", !.fate = fate])
  /\ UNCHANGED <<transport, pc, use, subscription, main, state, buffer, reply>>

\* A reply goes out on the channel the subscription has now, if it has one.
CanReply(m) ==
  LET s == Queue[m] IN reply[m] # "none" /\ live[s] /\ current[s] = opened[s]

Replied(x) ==
  /\ x.step = "reply" /\ CanReply(x.msg)
  /\ reply' = [reply EXCEPT ![x.msg] = "sent"]
  /\ Becomes(x, [x EXCEPT !.step = "settle"])
  /\ UNCHANGED <<transport, pc, use, subscription, main, state, buffer>>

\* Mutant: a reply that cannot be sent leaves the delivery to itself.
NotRepliedUnsettled(x) ==
  /\ x.step = "reply"
  /\ handlers' = IF x.fate = "acked" THEN handlers \ {x}
                 ELSE (handlers \ {x}) \cup {[x EXCEPT !.step = "settle"]}
  /\ UNCHANGED <<transport, pc, use, subscription, main, state, buffer, reply>>

\* Mutant: a reply that cannot be sent is forgotten.
NotRepliedIgnored(x) ==
  /\ x.step = "reply"
  /\ Becomes(x, [x EXCEPT !.step = "settle"])
  /\ UNCHANGED <<transport, pc, use, subscription, main, state, buffer, reply>>

\* Publishing may fail on an open channel too, and does once the handler has
\* outlasted its context.  An answer that cannot be sent is for another attempt,
\* an error is dropped.
NotReplied(x) ==
  /\ x.step = "reply"
  /\ Becomes(x, [x EXCEPT !.step = "settle", !.fate = IF @ = "acked" THEN "ready" ELSE @])
  /\ UNCHANGED <<transport, pc, use, subscription, main, state, buffer, reply>>

\* Mutant: settled on the channel the subscription has now, as replies are.
SettleOnCurrent(x) ==
  LET s == Queue[x.msg] IN
  /\ x.step = "settle"
  /\ Becomes(x, [x EXCEPT !.step = "return", !.fate = "acked"])
  /\ state' = IF live[s] /\ current[s] = opened[s]
              THEN [state EXCEPT ![x.msg] = x.fate] ELSE state
  /\ UNCHANGED <<transport, pc, use, subscription, main, buffer, reply>>

\* Settled on the channel it came by: without effect once that is lost.
Settle(x) ==
  LET s == Queue[x.msg] IN
  /\ x.step = "settle"
  /\ Becomes(x, [x EXCEPT !.step = "return", !.fate = "acked"])
  /\ state' = IF live[s] /\ x.ch = opened[s]
              THEN [state EXCEPT ![x.msg] = x.fate] ELSE state
  /\ UNCHANGED <<transport, pc, use, subscription, main, buffer, reply>>

\* Its slot is free only now.
Return(x) ==
  /\ x.step = "return"
  /\ handlers' = handlers \ {x}
  /\ UNCHANGED <<transport, pc, use, subscription, main, state, buffer, reply>>

------------------------------------------------------------------------------
(* Losses; Run ends and closes *)

Lose ==
  /\ losses < MaxLosses
  /\ losses' = losses + 1
  /\ UNCHANGED <<conn, dialled, closed, overtaken, pc, use, opened, current, done, started,
                 terminal, main, buffer, handlers, reply>>

ConnectionLost(c) ==
  /\ c \in open
  /\ open' = open \ {c}
  /\ Die(On(c))
  /\ Lose

ChannelLost(s) ==
  /\ live[s]
  /\ Die({s})
  /\ Lose
  /\ UNCHANGED open

\* A signal, or a terminal error of a subscription.
RunEnds ==
  /\ main = "run"
  /\ main' = "close"
  /\ UNCHANGED <<transport, pc, use, subscription, delivery>>

\* Subscription.Close: the channel it has now, and only then s.done.
CloseChannel(s) ==
  /\ main = "close" /\ s \in started /\ done[s] = "no"
  /\ \A t \in started : done[t] # "channel"
  /\ done' = [done EXCEPT ![s] = "channel"]
  /\ Die(IF current[s] = opened[s] THEN {s} ELSE {})
  /\ UNCHANGED <<transport, pc, use, opened, current, started, terminal, main,
                 buffer, handlers, reply>>

CloseDone(s) ==
  /\ done[s] = "channel"
  /\ done' = [done EXCEPT ![s] = "done"]
  /\ UNCHANGED <<transport, pc, use, opened, live, current, started, terminal, main, delivery>>

\* Transport.Close, deferred by Run before the subscriptions' own.
CloseTransport ==
  /\ main = "close" /\ \A s \in started : done[s] = "done"
  /\ main' = "drop"
  /\ closed' = TRUE
  /\ overtaken' = ~Unlocked
  /\ UNCHANGED <<conn, open, dialled, losses, pc, use, subscription, delivery>>

CloseConnection ==
  /\ main = "drop"
  /\ main' = "returned"
  /\ conn' = 0
  /\ open' = open \ {conn}
  /\ Die(On(conn))
  /\ UNCHANGED <<dialled, closed, losses, overtaken, pc, use, opened, current, done, started,
                 terminal, buffer, handlers, reply>>

\* The process is gone, and its goroutines with it.
Exit ==
  /\ main = "returned"
  /\ main' = "exited"
  /\ open' = {}
  /\ Die(Subs)
  /\ pc' = [d \in Loops |-> "ended"]
  /\ buffer' = {} /\ handlers' = {}
  /\ UNCHANGED <<conn, dialled, closed, losses, overtaken, use, opened, current, done, started,
                 terminal, reply>>

Quiescent == main = "exited" /\ UNCHANGED vars

------------------------------------------------------------------------------

Init ==
  /\ conn = 1 /\ open = {1} /\ dialled = 1
  /\ closed = FALSE /\ losses = 0 /\ overtaken = FALSE
  /\ pc = [d \in Loops |-> IF d = Watchdog THEN "look" ELSE "new"]
  /\ use = [d \in Loops |-> 0]
  /\ opened = [s \in Subs |-> 0]
  /\ live = [s \in Subs |-> FALSE]
  /\ current = [s \in Subs |-> 0]
  /\ done = [s \in Subs |-> "no"]
  /\ started = {} /\ terminal = {}
  /\ main = "start"
  /\ state = [m \in Messages |-> "ready"]
  /\ buffer = {} /\ handlers = {}
  /\ reply \in [Messages -> {"none", "wanted"}]

Reconnect(d) ==
  \/ ConnectionFound(d) \/ ConnectionMissing(d) \/ AlreadyReconnected(d)
  \/ Lock(d) \/ LockClosed(d) \/ Dialled(d) \/ DialFailed(d) \/ Install(d)

Loop(s) ==
  \/ Reconnect(s) \/ ErrClosed(s) \/ Consume(s)
  \/ DialRefused(s) \/ Bind(s) \/ BindFailed(s) \/ BindRefused(s) \/ Swap(s)
  \/ LoopEnds(s) \/ Retry(s) \/ SubscriptionEnds(s)

Watch == Reconnect(Watchdog) \/ Watched \/ WatchdogEnds

Handle(x) == Work(x) \/ Replied(x) \/ NotReplied(x) \/ Settle(x) \/ Return(x)

Run ==
  \/ RunEnds \/ CloseTransport \/ CloseConnection \/ Exit
  \/ \E s \in Subs : CloseChannel(s) \/ CloseDone(s)

Broker ==
  \/ \E m \in Messages : Push(m)
  \/ \E c \in open : ConnectionLost(c)
  \/ \E s \in Subs : ChannelLost(s)

Next ==
  \/ \E s \in Subs : Loop(s)
  \/ Watch
  \/ \E m \in Messages : Take(m)
  \/ \E x \in handlers : Handle(x)
  \/ Run \/ Broker \/ Quiescent

Spec == Init /\ [][Next]_vars
------------------------------------------------------------------------------
(* Properties *)

Steps == {"new", "look", "lock", "dial", "install", "bind", "swap", "deliver",
          "backoff", "watch", "ended"}

\* Type invariant; and a channel is current only after it was opened.
TypeOK ==
  /\ conn \in Nat /\ dialled \in Nat /\ open \subseteq 1 .. dialled
  /\ closed \in BOOLEAN /\ losses \in 0 .. MaxLosses /\ overtaken \in BOOLEAN
  /\ pc \in [Loops -> Steps] /\ use \in [Loops -> Nat]
  /\ opened \in [Subs -> Nat] /\ current \in [Subs -> Nat]
  /\ \A s \in Subs : current[s] <= opened[s]
  /\ live \in [Subs -> BOOLEAN] /\ done \in [Subs -> {"no", "channel", "done"}]
  /\ started \subseteq Subs /\ terminal \subseteq started
  /\ main \in {"start", "run", "close", "drop", "returned", "exited"}
  /\ state \in [Messages -> {"ready", "unacked", "acked", "dropped"}]
  /\ buffer \subseteq Messages /\ handlers \subseteq Handler
  /\ reply \in [Messages -> {"none", "wanted", "sent"}]

\* However many loops find the connection dead, the broker sees one socket: a
\* live connection is never replaced (reconnect, dialMu).
OneConnection == \A c, e \in open : c = e

\* The handlers that may still settle a message: those of the latest channel.
Holding(m) ==
  {x \in handlers : x.msg = m /\ x.ch = opened[Queue[m]] /\ x.step # "return"}

\* What the broker counts as delivered, one handler or the loop will settle: it
\* is neither forgotten nor with two that could settle it (deliverLoop, wrap).
EachDeliveryHasOneOwner ==
  \A m \in Messages :
    state[m] = "unacked" =>
      /\ live[Queue[m]] /\ pc[Queue[m]] \in {"swap", "deliver"}
      /\ m \in buffer <=> Holding(m) = {}
      /\ \A x, y \in Holding(m) : x = y

\* A message leaves the queue for good only when its answer was sent, or when a
\* handler failed; without a reply queue it is never acknowledged (wrap).
SettledIsEarned ==
  \A m \in Messages : state[m] = "acked" => reply[m] = "sent"

\* A handler that has outlived its channel settles nothing, whoever has the
\* message now and on whichever channel it replied (Ack and Nack of deliverLoop).
OnlyOwnersSettle ==
  [][\A m \in Messages : state'[m] # state[m] /\ state'[m] \in {"acked", "dropped"} =>
       \E x \in handlers : x.msg = m /\ x.step = "settle" /\ x.ch = opened[Queue[m]]
                         /\ live[Queue[m]] /\ x.fate = state'[m]]_vars

\* Handlers of lost channels go on, and the new channel has a semaphore of its
\* own: Concurrency bounds what one channel has in flight, not the process.
InFlightIsBounded ==
  \A s \in Subs :
    Cardinality({x \in handlers : Queue[x.msg] = s}) <= Concurrency * opened[s]

\* While Run goes on, a subscription consumes, is on its way to, or has reported
\* why it never will: a queue, or a dial, refused (TerminalErrorSubscription).
NoSilentEnd == main \in {"start", "run"} => \A s \in Subs : pc[s] = "ended" => s \in terminal

\* Close leaves no connection behind, and so no consumer, unless a dial was under
\* way when it began (Transport.Close, reconnect).
CloseIsFinal == main = "returned" /\ ~overtaken => open = {} /\ \A s \in Subs : ~live[s]

\* What the handler that has the delivery is about to say to the broker.
Verdict ==
  [m \in Messages |->
     IF state[m] = "unacked" /\ \E x \in Holding(m) : x.step = "settle"
     THEN (CHOOSE x \in Holding(m) : x.step = "settle").fate
     ELSE "none"]

\* How many handlers execute a message, with or without its delivery.
Running == [m \in Messages |-> Cardinality({x \in handlers : x.msg = m})]

Contract ==
  INSTANCE DeliveryContract WITH
    place <- state,
    pending <- buffer,
    running <- Running,
    verdict <- Verdict

\* Loops, channels, locks and losses together behave as one queue whose deliveries
\* are each executed once at most and settled by their execution alone
\* (deliverLoop, wrap, runWithReconnect).
ImplementsDelivery == Contract!Spec

Ending == main \notin {"start", "run"}

\* With a broker that does not fail for ever: after any loss every subscription
\* consumes again, or Run ends, as a single refusal of a dial or a queue makes it
\* (runWithReconnect, watchdogLoop).
ConsumersComeBack == \A s \in Subs : []<>(Ending \/ (pc[s] = "deliver" /\ live[s]))

\* Loops and Run take their steps; of the dials and channels tried again and again,
\* some succeed.
Fairness ==
  /\ \A s \in Subs : WF_vars(Loop(s)) /\ SF_vars(Dialled(s)) /\ SF_vars(Bind(s))
  /\ WF_vars(Watch) /\ SF_vars(Dialled(Watchdog))
  /\ WF_vars(terminal # {} /\ RunEnds)

FairSpec == Spec /\ Fairness
===============================================================================
