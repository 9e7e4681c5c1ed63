---------------------------- MODULE ConsumerProofs ----------------------------
(***************************************************************************)
(* Proofs about Consumer: its connection and its shutdown.  The argument:  *)
(* only the holder of dialMu opens a connection, and while it does there   *)
(* is no other; a channel lives only while its loop is at it and its       *)
(* connection is open; and Close begins after every subscription's own.    *)
(***************************************************************************)
EXTENDS Consumer, TLAPS

USE ConsumerAssumption DEF Loops

\* Where a loop stands and which channels its subscription has had.
Channels ==
  \A s \in Subs :
    /\ pc[s] \in {"swap", "deliver"} => opened[s] > 0
    /\ pc[s] = "deliver" => current[s] = opened[s]

TInv == TypeOK /\ Channels

\* Initially the types hold.
LEMMA InitTInv == Init => TInv
<1> SUFFICES ASSUME Init PROVE TInv
  OBVIOUS
<1>1. /\ conn \in Nat /\ dialled \in Nat /\ open \subseteq 1 .. dialled
      /\ losses \in 0 .. MaxLosses
  BY DEF Init
<1>2. pc \in [Loops -> Steps] /\ use \in [Loops -> Nat]
  BY DEF Init, Steps
<1>3. reply \in [Messages -> {"none", "wanted", "sent"}]
  BY DEF Init
<1>4. /\ state \in [Messages -> {"ready", "unacked", "acked", "dropped"}]
      /\ live \in [Subs -> BOOLEAN] /\ done \in [Subs -> {"no", "channel", "done"}]
      /\ opened \in [Subs -> Nat] /\ current \in [Subs -> Nat]
      /\ \A s \in Subs : current[s] <= opened[s] /\ pc[s] = "new"
  BY DEF Init
<1>5. QED
  BY <1>1, <1>2, <1>3, <1>4 DEF Init, TInv, TypeOK, Channels

\* A handler goes on: what it holds stays.
LEMMA HandlerGoesOn ==
  ASSUME NEW x \in Handler, NEW t \in {"work", "reply", "settle", "return"},
         NEW f \in {"acked", "ready", "dropped"}
  PROVE  LET y == [x EXCEPT !.step = t, !.fate = f] IN
         /\ y \in Handler /\ y.step = t /\ y.fate = f
         /\ y.msg = x.msg /\ y.ch = x.ch /\ y.slot = x.slot
BY DEF Handler

\* The broker has back what lost channels did not settle: the types stay.
LEMMA DieKeepsType ==
  ASSUME TypeOK, NEW S, Die(S)
  PROVE  /\ live' \in [Subs -> BOOLEAN]
         /\ state' \in [Messages -> {"ready", "unacked", "acked", "dropped"}]
BY DEF TypeOK, Die

\* A failed pass of setup.
LEMMA FailsKeepsTInv ==
  ASSUME TInv, NEW d \in Loops, NEW from, Fails(d, from),
         UNCHANGED <<transport, subscription, delivery>>
  PROVE  TInv'
BY DEF TInv, TypeOK, Channels, Steps, Fails, Goto, transport, subscription, delivery

\* Steps towards a connection.
LEMMA ReconnectKeepsTInv ==
  ASSUME TInv, NEW d \in Loops, Reconnect(d)
  PROVE  TInv'
<1> USE DEF TInv, TypeOK, Channels, Steps, Goto, transport, subscription, delivery
<1>1. CASE ConnectionFound(d)
  BY <1>1 DEF ConnectionFound, HaveConnection
<1>2. CASE ConnectionMissing(d)
  BY <1>2 DEF ConnectionMissing
<1>3. CASE AlreadyReconnected(d)
  BY <1>3 DEF AlreadyReconnected
<1>4. CASE Lock(d)
  BY <1>4 DEF Lock
<1>5. CASE LockClosed(d)
  BY <1>5, FailsKeepsTInv DEF LockClosed
<1>6. CASE Dialled(d)
  BY <1>6 DEF Dialled
<1>7. CASE DialFailed(d)
  BY <1>7, FailsKeepsTInv DEF DialFailed
<1>8. CASE Install(d)
  BY <1>8, DieKeepsType DEF Install
<1>9. QED
  BY <1>1, <1>2, <1>3, <1>4, <1>5, <1>6, <1>7, <1>8 DEF Reconnect

\* Steps of a subscription's loop.
LEMMA LoopKeepsTInv ==
  ASSUME TInv, NEW s \in Subs, Loop(s)
  PROVE  TInv'
<1> USE DEF TInv, TypeOK, Channels, Steps, Goto, transport, subscription, delivery
<1>1. CASE Reconnect(s)
  BY <1>1, ReconnectKeepsTInv
<1>2. CASE ErrClosed(s)
  BY <1>2, FailsKeepsTInv DEF ErrClosed
<1>3. CASE Consume(s)
  BY <1>3 DEF Consume
<1>4. CASE Bind(s)
  BY <1>4 DEF Bind
<1>5. CASE BindFailed(s)
  BY <1>5, FailsKeepsTInv DEF BindFailed
<1>6. CASE BindRefused(s)
  BY <1>6 DEF BindRefused, ReportTerminal
<1>7. CASE Swap(s)
  BY <1>7 DEF Swap
<1>8. CASE LoopEnds(s)
  BY <1>8 DEF LoopEnds
<1>9. CASE Retry(s)
  BY <1>9 DEF Retry
<1>10. CASE SubscriptionEnds(s)
  BY <1>10 DEF SubscriptionEnds
<1>11. CASE DialRefused(s)
  BY <1>11 DEF DialRefused, ReportTerminal
<1>12. QED
  BY <1>1, <1>2, <1>3, <1>4, <1>5, <1>6, <1>7, <1>8, <1>9, <1>10, <1>11 DEF Loop

\* Steps of the watchdog.
LEMMA WatchKeepsTInv ==
  ASSUME TInv, Watch
  PROVE  TInv'
<1> USE DEF TInv, TypeOK, Channels, Steps, Goto, transport, subscription, delivery
<1>1. CASE Reconnect(Watchdog)
  BY <1>1, ReconnectKeepsTInv
<1>2. CASE Watched
  BY <1>2 DEF Watched
<1>3. CASE WatchdogEnds
  BY <1>3 DEF WatchdogEnds
<1>4. QED
  BY <1>1, <1>2, <1>3 DEF Watch

\* A handler is taken, works, replies, settles and returns.
LEMMA DeliveryKeepsTInv ==
  ASSUME TInv, (\E m \in Messages : Take(m)) \/ (\E x \in handlers : Handle(x))
  PROVE  TInv'
<1> USE DEF TInv, TypeOK, Channels, transport, subscription, Becomes
<1>1. ASSUME NEW m \in Messages, Take(m) PROVE TInv'
  <2>1. Queue[m] \in Subs /\ current[Queue[m]] \in Nat \ {0}
    BY <1>1 DEF Take, TakeSlot
  <2>2. handlers' \subseteq Handler
    BY <1>1, <2>1 DEF Take, TakeSlot, Handler
  <2>3. QED
    BY <1>1, <2>2 DEF Take, TakeSlot
<1>2. ASSUME NEW x \in handlers, Handle(x) PROVE TInv'
  <2> x \in Handler
    OBVIOUS
  <2>1. CASE Work(x)
    <3>1. PICK f \in {"acked", "dropped"} : Becomes(x, [x EXCEPT !.step = "reply", !.fate = f])
      BY <2>1 DEF Work
    <3>2. [x EXCEPT !.step = "reply", !.fate = f] \in Handler
      BY HandlerGoesOn
    <3>3. handlers' \subseteq Handler
      BY <3>1, <3>2
    <3>4. QED
      BY <2>1, <3>3 DEF Work
  <2>2. CASE Replied(x)
    BY <2>2 DEF Replied, Handler
  <2>3. CASE NotReplied(x)
    <3>1. [x EXCEPT !.step = "settle", !.fate = IF @ = "acked" THEN "ready" ELSE @] \in Handler
      BY DEF Handler
    <3>2. QED
      BY <2>3, <3>1 DEF NotReplied
  <2>4. CASE Settle(x)
    <3>1. [x EXCEPT !.step = "return", !.fate = "acked"] \in Handler
      BY HandlerGoesOn
    <3>2. x.fate \in {"acked", "ready", "dropped"}
      BY DEF Handler
    <3>3. handlers' \subseteq Handler
      BY <2>4, <3>1 DEF Settle
    <3>4. state' \in [Messages -> {"ready", "unacked", "acked", "dropped"}]
      BY <2>4, <3>2 DEF Settle
    <3>5. QED
      BY <2>4, <3>3, <3>4 DEF Settle
  <2>5. CASE Return(x)
    BY <2>5 DEF Return
  <2>6. QED
    BY <1>2, <2>1, <2>2, <2>3, <2>4, <2>5 DEF Handle
<1>3. QED
  BY <1>1, <1>2

\* Run's end and the shutdown.
LEMMA RunKeepsTInv ==
  ASSUME TInv, Run
  PROVE  TInv'
<1> USE DEF TInv, TypeOK, Channels, Steps, transport, subscription, delivery
<1>1. CASE RunEnds
  BY <1>1 DEF RunEnds
<1>2. CASE CloseTransport
  BY <1>2 DEF CloseTransport
<1>3. CASE CloseConnection
  BY <1>3, DieKeepsType DEF CloseConnection
<1>4. CASE Exit
  BY <1>4, DieKeepsType DEF Exit
<1>5. ASSUME NEW s \in Subs, CloseChannel(s) PROVE TInv'
  BY <1>5, DieKeepsType DEF CloseChannel
<1>6. ASSUME NEW s \in Subs, CloseDone(s) PROVE TInv'
  BY <1>6 DEF CloseDone
<1>7. QED
  BY <1>1, <1>2, <1>3, <1>4, <1>5, <1>6 DEF Run

\* What the broker does.
LEMMA BrokerKeepsTInv ==
  ASSUME TInv, Broker
  PROVE  TInv'
<1> USE DEF TInv, TypeOK, Channels, transport, subscription, delivery, Lose
<1>1. ASSUME NEW m \in Messages, Push(m) PROVE TInv'
  BY <1>1 DEF Push
<1>2. ASSUME NEW c \in open, ConnectionLost(c) PROVE TInv'
  BY <1>2, DieKeepsType DEF ConnectionLost
<1>3. ASSUME NEW s \in Subs, ChannelLost(s) PROVE TInv'
  BY <1>3, DieKeepsType DEF ChannelLost
<1>4. QED
  BY <1>1, <1>2, <1>3 DEF Broker

\* Every step keeps the types.
LEMMA NextTInv == TInv /\ [Next]_vars => TInv'
<1>1. TInv /\ UNCHANGED vars => TInv'
  BY DEF TInv, TypeOK, Channels, vars, transport, subscription, delivery
<1>2. QED
  BY <1>1, LoopKeepsTInv, WatchKeepsTInv, DeliveryKeepsTInv, RunKeepsTInv, BrokerKeepsTInv
  DEF Next, Quiescent

\* Type correctness, for any number of subscriptions, messages and losses.
THEOREM TypeCorrect == Spec => []TypeOK
<1>1. TInv => TypeOK
  BY DEF TInv
<1>2. QED
  BY <1>1, InitTInv, NextTInv, PTL DEF Spec

------------------------------------------------------------------------------
(* The connection *)

\* At most one loop dials, and only while the transport's connection is not open;
\* what is open is the transport's connection, or the one it is about to become.
Conn ==
  /\ \A d, e \in Loops : Dialling(d) /\ Dialling(e) => d = e
  /\ \A d \in Loops : Dialling(d) => conn \notin open
  /\ \A c \in open : c = conn \/ \E d \in Loops : pc[d] = "install" /\ use[d] = c
  /\ conn <= dialled /\ \A d \in Loops : use[d] <= dialled

\* A channel that lives is one its loop is at, of a connection that is open.
Live == \A s \in Subs : live[s] => pc[s] \in {"swap", "deliver"} /\ use[s] \in open

CInv == TInv /\ Conn /\ Live

\* Initially there is the connection of the first dial, and no channel.
LEMMA InitCInv == Init => CInv
BY InitTInv DEF Init, CInv, Conn, Live, Dialling

\* A failed pass of setup lets go of the connection and of dialMu.
LEMMA FailsKeepsConn ==
  ASSUME CInv, NEW d \in Loops, NEW from, Fails(d, from), pc[d] # "install",
         UNCHANGED <<transport, subscription>>, pc[d] \notin {"swap", "deliver"}
  PROVE  Conn' /\ Live'
BY DEF CInv, TInv, TypeOK, Conn, Live, Dialling, Fails, Goto, transport, subscription

\* Steps towards a connection.
LEMMA ReconnectKeepsConn ==
  ASSUME CInv, NEW d \in Loops, Reconnect(d)
  PROVE  Conn' /\ Live'
<1> USE DEF CInv, TInv, TypeOK, Conn, Live, Dialling, Goto, transport, subscription
<1>1. CASE ConnectionFound(d)
  BY <1>1 DEF ConnectionFound, HaveConnection
<1>2. CASE ConnectionMissing(d)
  BY <1>2 DEF ConnectionMissing
<1>3. CASE AlreadyReconnected(d)
  BY <1>3 DEF AlreadyReconnected
<1>4. CASE Lock(d)
  BY <1>4 DEF Lock, Unlocked
<1>5. CASE LockClosed(d)
  BY <1>5, FailsKeepsConn DEF LockClosed, Fails
<1>6. CASE Dialled(d)
  <2>1. open = {} /\ conn # dialled'
    BY <1>6 DEF Dialled
  <2>2. open' = {dialled'} /\ use'[d] = dialled' /\ pc'[d] = "install"
    BY <1>6, <2>1 DEF Dialled
  <2>3. Conn'
    BY <1>6, <2>1, <2>2 DEF Dialled
  <2>4. Live'
    BY <1>6, <2>1 DEF Dialled
  <2>5. QED
    BY <2>3, <2>4
<1>7. CASE DialFailed(d)
  BY <1>7, FailsKeepsConn DEF DialFailed, Fails
<1>8. CASE Install(d)
  <2>1. open \subseteq {use[d]} /\ conn \notin open
    BY <1>8 DEF Install
  <2>2. Conn'
    BY <1>8, <2>1 DEF Install
  <2>3. Live'
    BY <1>8, <2>1 DEF Install, Die, On
  <2>4. QED
    BY <2>2, <2>3
<1>9. QED
  BY <1>1, <1>2, <1>3, <1>4, <1>5, <1>6, <1>7, <1>8 DEF Reconnect

\* Steps of a subscription's loop.
LEMMA LoopKeepsConn ==
  ASSUME CInv, NEW s \in Subs, Loop(s)
  PROVE  Conn' /\ Live'
<1> USE DEF CInv, TInv, TypeOK, Conn, Live, Dialling, Goto, transport, subscription
<1>1. CASE Reconnect(s)
  BY <1>1, ReconnectKeepsConn
<1>2. CASE ErrClosed(s)
  BY <1>2, FailsKeepsConn DEF ErrClosed, Fails
<1>3. CASE Consume(s)
  BY <1>3 DEF Consume
<1>4. CASE Bind(s)
  BY <1>4 DEF Bind
<1>5. CASE BindFailed(s)
  BY <1>5, FailsKeepsConn DEF BindFailed, Fails
<1>6. CASE BindRefused(s)
  BY <1>6 DEF BindRefused, ReportTerminal
<1>7. CASE Swap(s)
  BY <1>7 DEF Swap
<1>8. CASE LoopEnds(s)
  BY <1>8 DEF LoopEnds
<1>9. CASE Retry(s)
  BY <1>9 DEF Retry
<1>10. CASE SubscriptionEnds(s)
  BY <1>10 DEF SubscriptionEnds
<1>11. CASE DialRefused(s)
  BY <1>11 DEF DialRefused, ReportTerminal
<1>12. QED
  BY <1>1, <1>2, <1>3, <1>4, <1>5, <1>6, <1>7, <1>8, <1>9, <1>10, <1>11 DEF Loop

\* Steps of the watchdog.
LEMMA WatchKeepsConn ==
  ASSUME CInv, Watch
  PROVE  Conn' /\ Live'
<1> USE DEF CInv, TInv, TypeOK, Conn, Live, Dialling, Goto, transport, subscription
<1>1. CASE Reconnect(Watchdog)
  BY <1>1, ReconnectKeepsConn
<1>2. CASE Watched
  BY <1>2 DEF Watched
<1>3. CASE WatchdogEnds
  BY <1>3 DEF WatchdogEnds
<1>4. QED
  BY <1>1, <1>2, <1>3 DEF Watch

\* What leaves the connection and the loops alone.
LEMMA DeliveryLeavesTransport ==
  ASSUME (\E m \in Messages : Take(m) \/ Push(m)) \/ (\E x \in handlers : Handle(x))
  PROVE  UNCHANGED <<transport, pc, use, subscription, main>>
BY DEF Take, TakeSlot, Push, Handle, Work, Replied, NotReplied, Settle, Return

\* Run's end and the shutdown.
LEMMA RunKeepsConn ==
  ASSUME CInv, Run
  PROVE  Conn' /\ Live'
<1> USE DEF CInv, TInv, TypeOK, Conn, Live, Dialling, transport, subscription
<1>1. CASE RunEnds
  BY <1>1 DEF RunEnds
<1>2. CASE CloseTransport
  BY <1>2 DEF CloseTransport
<1>3. CASE CloseConnection
  <2>1. Conn'
    BY <1>3 DEF CloseConnection
  <2>2. Live'
    BY <1>3 DEF CloseConnection, Die, On
  <2>3. QED
    BY <2>1, <2>2
<1>4. CASE Exit
  BY <1>4 DEF Exit, Die
<1>5. ASSUME NEW s \in Subs, CloseChannel(s) PROVE Conn' /\ Live'
  BY <1>5 DEF CloseChannel, Die
<1>6. ASSUME NEW s \in Subs, CloseDone(s) PROVE Conn' /\ Live'
  BY <1>6 DEF CloseDone
<1>7. QED
  BY <1>1, <1>2, <1>3, <1>4, <1>5, <1>6 DEF Run

\* What the network does.
LEMMA LossKeepsConn ==
  ASSUME CInv,
         (\E c \in open : ConnectionLost(c)) \/ (\E s \in Subs : ChannelLost(s))
  PROVE  Conn' /\ Live'
<1> USE DEF CInv, TInv, TypeOK, Conn, Live, Dialling, Lose, Die, On
<1>1. ASSUME NEW c \in open, ConnectionLost(c) PROVE Conn' /\ Live'
  BY <1>1 DEF ConnectionLost
<1>2. ASSUME NEW s \in Subs, ChannelLost(s) PROVE Conn' /\ Live'
  BY <1>2 DEF ChannelLost
<1>3. QED
  BY <1>1, <1>2

\* Every step keeps the invariant of the connection.
LEMMA NextCInv == CInv /\ [Next]_vars => CInv'
<1>1. CInv /\ UNCHANGED <<transport, pc, use, subscription, main>> => Conn' /\ Live'
  BY DEF CInv, Conn, Live, Dialling, transport, subscription
<1>2. CInv /\ [Next]_vars => Conn' /\ Live'
  BY <1>1, LoopKeepsConn, WatchKeepsConn, DeliveryLeavesTransport, RunKeepsConn, LossKeepsConn
  DEF Next, Quiescent, vars, Broker
<1>3. QED
  BY <1>2, NextTInv DEF CInv

\* However many loops race to reconnect, there is one connection.
THEOREM OneSocket == Spec => []OneConnection
<1>1. CInv => OneConnection
  BY DEF CInv, Conn, OneConnection, Dialling
<1>2. QED
  BY <1>1, InitCInv, NextCInv, PTL DEF Spec

------------------------------------------------------------------------------
(* The shutdown *)

\* Close begins after Run's end; unless it overtakes a dial, it finds none under
\* way and lets none begin.
Shut ==
  /\ closed <=> main \in {"drop", "returned", "exited"}
  /\ closed /\ ~overtaken => Unlocked
  /\ main \in {"returned", "exited"} /\ ~overtaken => conn = 0

\* Run starts one subscription after the other, and the first that fails ends it.
Start ==
  \A s \in Subs \ started :
    /\ pc[s] \notin {"deliver", "backoff"}
    /\ pc[s] \notin {"new", "ended"} =>
         main = "start" /\ \A t \in Subs \ started : t = s \/ pc[t] = "new"

\* No subscription is closed while Run goes on.
Closing == \A s \in Subs : done[s] # "no" => main \notin {"start", "run"}

SInv == CInv /\ Shut /\ Start /\ Closing /\ NoSilentEnd

\* Initially nothing has begun to end.
LEMMA InitSInv == Init => SInv
BY InitCInv DEF Init, SInv, Shut, Start, Closing, NoSilentEnd

\* A failed pass of setup: the loop tries again, or Run ends.
LEMMA FailsKeepsSInv ==
  ASSUME SInv, NEW d \in Loops, NEW from, Fails(d, from), from \notin {"new", "ended"},
         UNCHANGED <<transport, subscription>>
  PROVE  Shut' /\ Start' /\ Closing' /\ NoSilentEnd'
<1> USE DEF SInv, CInv, TInv, TypeOK, Fails, Goto, transport, subscription
<1>1. d \in Subs \ started => main = "start" /\ \A t \in Subs \ started : t = d \/ pc[t] = "new"
  BY DEF Start
<1>2. Shut'
  BY <1>1 DEF Shut, Unlocked, Dialling
<1>3. Start'
  BY <1>1 DEF Start
<1>4. Closing'
  BY DEF Closing
<1>5. NoSilentEnd'
  BY DEF NoSilentEnd
<1>6. QED
  BY <1>2, <1>3, <1>4, <1>5

\* Steps towards a connection: none is dialled or installed once Close found the
\* lock free.
LEMMA ReconnectKeepsSInv ==
  ASSUME SInv, NEW d \in Loops, Reconnect(d)
  PROVE  Shut' /\ Start' /\ Closing' /\ NoSilentEnd'
<1> USE DEF SInv, CInv, TInv, TypeOK, Shut, Start, Closing, NoSilentEnd, Unlocked, Dialling,
            Goto, transport, subscription
<1>1. CASE ConnectionFound(d)
  BY <1>1 DEF ConnectionFound, HaveConnection
<1>2. CASE ConnectionMissing(d)
  BY <1>2 DEF ConnectionMissing
<1>3. CASE AlreadyReconnected(d)
  BY <1>3 DEF AlreadyReconnected
<1>4. CASE Lock(d)
  BY <1>4 DEF Lock
<1>5. CASE LockClosed(d)
  BY <1>5, FailsKeepsSInv DEF LockClosed
<1>6. CASE Dialled(d)
  BY <1>6 DEF Dialled
<1>7. CASE DialFailed(d)
  BY <1>7, FailsKeepsSInv DEF DialFailed
<1>8. CASE Install(d)
  BY <1>8 DEF Install
<1>9. QED
  BY <1>1, <1>2, <1>3, <1>4, <1>5, <1>6, <1>7, <1>8 DEF Reconnect

\* Steps of a subscription's loop.
LEMMA LoopKeepsSInv ==
  ASSUME SInv, NEW s \in Subs, Loop(s)
  PROVE  Shut' /\ Start' /\ Closing' /\ NoSilentEnd'
<1> USE DEF SInv, CInv, TInv, TypeOK, Shut, Start, Closing, NoSilentEnd, Unlocked, Dialling,
            Goto, transport, subscription
<1>1. CASE Reconnect(s)
  BY <1>1, ReconnectKeepsSInv
<1>2. CASE ErrClosed(s)
  BY <1>2, FailsKeepsSInv DEF ErrClosed
<1>3. CASE Consume(s)
  BY <1>3 DEF Consume
<1>4. CASE Bind(s)
  BY <1>4 DEF Bind
<1>5. CASE BindFailed(s)
  BY <1>5, FailsKeepsSInv DEF BindFailed
<1>6. CASE BindRefused(s)
  BY <1>6 DEF BindRefused, ReportTerminal
<1>7. CASE Swap(s)
  BY <1>7 DEF Swap
<1>8. CASE LoopEnds(s)
  BY <1>8 DEF LoopEnds
<1>9. CASE Retry(s)
  BY <1>9 DEF Retry
<1>10. CASE SubscriptionEnds(s)
  BY <1>10 DEF SubscriptionEnds
<1>11. CASE DialRefused(s)
  BY <1>11 DEF DialRefused, ReportTerminal
<1>12. QED
  BY <1>1, <1>2, <1>3, <1>4, <1>5, <1>6, <1>7, <1>8, <1>9, <1>10, <1>11 DEF Loop

\* Steps of the watchdog.
LEMMA WatchKeepsSInv ==
  ASSUME SInv, Watch
  PROVE  Shut' /\ Start' /\ Closing' /\ NoSilentEnd'
<1> USE DEF SInv, CInv, TInv, TypeOK, Shut, Start, Closing, NoSilentEnd, Unlocked, Dialling,
            Goto, transport, subscription
<1>1. CASE Reconnect(Watchdog)
  BY <1>1, ReconnectKeepsSInv
<1>2. CASE Watched
  BY <1>2 DEF Watched
<1>3. CASE WatchdogEnds
  BY <1>3 DEF WatchdogEnds
<1>4. QED
  BY <1>1, <1>2, <1>3 DEF Watch

\* Run's end and the shutdown.
LEMMA RunKeepsSInv ==
  ASSUME SInv, Run
  PROVE  Shut' /\ Start' /\ Closing' /\ NoSilentEnd'
<1> USE DEF SInv, CInv, TInv, TypeOK, Shut, Start, Closing, NoSilentEnd, Unlocked, Dialling,
            transport, subscription
<1>1. CASE RunEnds
  BY <1>1 DEF RunEnds
<1>2. CASE CloseTransport
  BY <1>2 DEF CloseTransport
<1>3. CASE CloseConnection
  BY <1>3 DEF CloseConnection
<1>4. CASE Exit
  BY <1>4 DEF Exit
<1>5. ASSUME NEW s \in Subs, CloseChannel(s)
      PROVE  Shut' /\ Start' /\ Closing' /\ NoSilentEnd'
  BY <1>5 DEF CloseChannel
<1>6. ASSUME NEW s \in Subs, CloseDone(s)
      PROVE  Shut' /\ Start' /\ Closing' /\ NoSilentEnd'
  BY <1>6 DEF CloseDone
<1>7. QED
  BY <1>1, <1>2, <1>3, <1>4, <1>5, <1>6 DEF Run

\* A loss moves no loop.
LEMMA LossLeavesLoops ==
  ASSUME (\E c \in open : ConnectionLost(c)) \/ (\E s \in Subs : ChannelLost(s))
  PROVE  UNCHANGED <<conn, closed, overtaken, pc, done, started, terminal, main>>
BY DEF ConnectionLost, ChannelLost, Lose

\* Every step keeps the invariant of the shutdown.
LEMMA NextSInv == SInv /\ [Next]_vars => SInv'
<1> DEFINE Rest == Shut /\ Start /\ Closing /\ NoSilentEnd
<1>1. SInv /\ UNCHANGED <<conn, closed, overtaken, pc, done, started, terminal, main>> => Rest'
  BY DEF SInv, Shut, Start, Closing, NoSilentEnd, Unlocked, Dialling
<1>2. UNCHANGED <<transport, pc, use, subscription, main>> =>
        UNCHANGED <<conn, closed, overtaken, pc, done, started, terminal, main>>
  BY DEF transport, subscription
<1>3. SInv /\ [Next]_vars => Rest'
  BY <1>1, <1>2, LoopKeepsSInv, WatchKeepsSInv, DeliveryLeavesTransport, RunKeepsSInv,
     LossLeavesLoops DEF Next, Quiescent, vars, Broker
<1>4. QED
  BY <1>3, NextCInv DEF SInv

\* No subscription stops without saying so while Run goes on.
THEOREM NoneEndsSilently == Spec => []NoSilentEnd
<1>1. SInv => NoSilentEnd
  BY DEF SInv
<1>2. QED
  BY <1>1, InitSInv, NextSInv, PTL DEF Spec

\* A Close that overtook no dial leaves no connection and no consumer.
THEOREM ClosedForGood == Spec => []CloseIsFinal
<1>1. SInv => CloseIsFinal
  BY DEF SInv, CInv, TInv, TypeOK, Conn, Live, Shut, Unlocked, CloseIsFinal, Dialling
<1>2. QED
  BY <1>1, InitSInv, NextSInv, PTL DEF Spec
===============================================================================
