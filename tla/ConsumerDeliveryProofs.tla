------------------------- MODULE ConsumerDeliveryProofs -------------------------
(***************************************************************************)
(* Proofs about Consumer: its deliveries.  The argument: a handler keeps   *)
(* the channel and the slot of its delivery to the end, a channel that     *)
(* follows another starts with nothing in hand, and only the settlement of *)
(* the one handler of the open channel counts.  So the deliveries behave   *)
(* as DeliveryContract says: the last part maps every step to one of its.  *)
(***************************************************************************)
EXTENDS ConsumerProofs, FunctionTheorems, FiniteSetTheorems

USE ConsumerAssumption DEF Loops

\* A handler has a slot of its channel to itself.
Slots ==
  /\ \A x \in handlers : x.ch <= opened[Queue[x.msg]]
  /\ \A x, y \in handlers :
       Queue[x.msg] = Queue[y.msg] /\ x.ch = y.ch /\ x.slot = y.slot => x = y

\* Who is about to acknowledge has sent the answer.
Answered ==
  /\ \A x \in handlers : x.step = "settle" /\ x.fate = "acked" => reply[x.msg] = "sent"
  /\ SettledIsEarned

\* Of a live channel, what the broker waits for is in the buffer or with one handler.
Owned ==
  \A m \in Messages :
    /\ state[m] = "unacked" => live[Queue[m]]
    /\ live[Queue[m]] =>
         /\ m \in buffer \/ Holding(m) # {} <=> state[m] = "unacked"
         /\ m \in buffer => Holding(m) = {}
         /\ \A x, y \in Holding(m) : x = y
    /\ pc[Queue[m]] \notin {"swap", "deliver"} => m \notin buffer

\* Which message, channel and slot a handler has never changes.
Same(x, y) == y \in Handler /\ y.msg = x.msg /\ y.ch = x.ch /\ y.slot = x.slot

------------------------------------------------------------------------------
(* Answers *)

\* A step of a handler is one of a handler with the same delivery.
LEMMA HandlerSteps ==
  ASSUME TypeOK, NEW x \in handlers, Handle(x)
  PROVE  \/ Return(x)
         \/ \E y : Same(x, y) /\ Becomes(x, y)
<1> USE DEF Same
<1> x \in Handler
  BY DEF TypeOK
<1>1. CASE Work(x)
  <2>1. PICK f \in {"acked", "dropped"} : Becomes(x, [x EXCEPT !.step = "reply", !.fate = f])
    BY <1>1 DEF Work
  <2>2. Same(x, [x EXCEPT !.step = "reply", !.fate = f])
    BY DEF Handler
  <2>3. QED
    BY <2>1, <2>2
<1>2. CASE Replied(x)
  <2>1. Same(x, [x EXCEPT !.step = "settle"])
    BY DEF Handler
  <2>2. QED
    BY <1>2, <2>1 DEF Replied
<1>3. CASE NotReplied(x)
  <2>1. Same(x, [x EXCEPT !.step = "settle", !.fate = IF @ = "acked" THEN "ready" ELSE @])
    BY DEF Handler
  <2>2. QED
    BY <1>3, <2>1 DEF NotReplied
<1>4. CASE Settle(x)
  <2>1. Same(x, [x EXCEPT !.step = "return", !.fate = "acked"])
    BY DEF Handler
  <2>2. QED
    BY <1>4, <2>1 DEF Settle
<1>5. QED
  BY <1>1, <1>2, <1>3, <1>4 DEF Handle

\* A handler acknowledges only after its answer: no step forgets that.
LEMMA NextAnswered == TInv /\ Answered /\ [Next]_vars => Answered'
<1> SUFFICES ASSUME TInv, Answered, [Next]_vars PROVE Answered'
  OBVIOUS
<1> USE DEF TInv, TypeOK, Answered, SettledIsEarned
<1>1. CASE /\ UNCHANGED <<handlers, reply>>
           /\ \A m \in Messages : state'[m] = "acked" => state[m] = "acked"
  BY <1>1
<1>2. ASSUME NEW m \in Messages, Take(m) PROVE Answered'
  <2>1. \A x \in handlers' : x \in handlers \/ x.step = "work"
    BY <1>2 DEF Take, TakeSlot
  <2>2. QED
    BY <1>2, <2>1 DEF Take, TakeSlot
<1>3. ASSUME NEW x \in handlers, Handle(x) PROVE Answered'
  <2> x \in Handler /\ x.msg \in Messages
    BY DEF Handler
  <2> USE DEF Becomes
  <2>1. CASE Work(x)
    <3>1. PICK f \in {"acked", "dropped"} : Becomes(x, [x EXCEPT !.step = "reply", !.fate = f])
      BY <2>1 DEF Work
    <3>2. [x EXCEPT !.step = "reply", !.fate = f].step = "reply"
      BY DEF Handler
    <3>3. QED
      BY <2>1, <3>1, <3>2 DEF Work
  <2>2. CASE Replied(x)
    <3> DEFINE y == [x EXCEPT !.step = "settle"]
    <3>1. y.msg = x.msg
      BY DEF Handler
    <3>2. reply' = [reply EXCEPT ![x.msg] = "sent"] /\ state' = state
      BY <2>2 DEF Replied
    <3>3. \A z \in handlers' : z = y \/ z \in handlers
      BY <2>2 DEF Replied
    <3>4. handlers \subseteq Handler /\ \A z \in handlers : z.msg \in Messages
      BY DEF Handler
    <3>5. SettledIsEarned'
      BY <3>2
    <3> HIDE DEF y
    <3>6. \A z \in handlers' : z.step = "settle" /\ z.fate = "acked" => reply'[z.msg] = "sent"
      BY <3>1, <3>2, <3>3, <3>4
    <3>7. QED
      BY <3>5, <3>6
  <2>3. CASE NotReplied(x)
    <3>1. [x EXCEPT !.step = "settle", !.fate = IF @ = "acked" THEN "ready" ELSE @].fate # "acked"
      BY DEF Handler
    <3>2. QED
      BY <2>3, <3>1 DEF NotReplied
  <2>4. CASE Settle(x)
    <3>1. [x EXCEPT !.step = "return", !.fate = "acked"].step = "return"
      BY DEF Handler
    <3>2. QED
      BY <2>4, <3>1 DEF Settle
  <2>5. CASE Return(x)
    BY <2>5 DEF Return
  <2>6. QED
    BY <1>3, <2>1, <2>2, <2>3, <2>4, <2>5 DEF Handle
<1>4. ASSUME NEW S, Die(S)
      PROVE  \A m \in Messages : state'[m] = "acked" => state[m] = "acked"
  BY <1>4 DEF Die
<1> USE DEF delivery, subscription, transport
<1>5. ASSUME NEW d \in Loops, Reconnect(d) PROVE Answered'
  BY <1>1, <1>4, <1>5 DEF Reconnect, ConnectionFound, ConnectionMissing, AlreadyReconnected,
     Lock, LockClosed, Dialled, DialFailed, Install
<1>6. ASSUME NEW s \in Subs, Loop(s) PROVE Answered'
  <2>1. CASE Reconnect(s)
    BY <1>5, <2>1
  <2>2. CASE ~Reconnect(s)
    <3>1. UNCHANGED <<handlers, reply, state>>
      BY <1>6, <2>2
      DEF Loop, ErrClosed, Consume, Bind, BindFailed, BindRefused, DialRefused, ReportTerminal,
          Swap, LoopEnds, Retry, SubscriptionEnds
    <3>2. QED
      BY <1>1, <3>1
  <2>3. QED
    BY <2>1, <2>2
<1>7. CASE Watch
  <2>1. CASE Reconnect(Watchdog)
    BY <1>5, <2>1
  <2>2. CASE Watched \/ WatchdogEnds
    BY <1>1, <2>2 DEF Watched, WatchdogEnds
  <2>3. QED
    BY <1>7, <2>1, <2>2 DEF Watch
<1>8. CASE Run
  <2>1. CASE Exit
    BY <2>1, <1>4 DEF Exit
  <2>2. CASE ~Exit
    BY <1>8, <2>2, <1>1, <1>4 DEF Run, RunEnds, CloseTransport, CloseConnection, CloseChannel,
       CloseDone
  <2>3. QED
    BY <2>1, <2>2
<1>9. CASE Broker
  BY <1>9, <1>1, <1>4 DEF Broker, Push, ConnectionLost, ChannelLost, Lose
<1>10. QED
  BY <1>1, <1>2, <1>3, <1>6, <1>7, <1>8, <1>9 DEF Next, Quiescent, vars

\* Whatever is lost and redelivered, only an answered message is acknowledged.
THEOREM AckedMeansAnswered == Spec => []SettledIsEarned
<1>1. Init => Answered
  BY DEF Init, Answered, SettledIsEarned
<1>2. Answered => SettledIsEarned
  BY DEF Answered
<1>3. QED
  BY <1>1, <1>2, NextAnswered, InitTInv, NextTInv, PTL DEF Spec

------------------------------------------------------------------------------
(* Slots *)

\* A step that starts no handler and opens no old channel again.
LEMMA SlotsStay ==
  ASSUME TypeOK, Slots, handlers' \subseteq handlers, opened' \in [Subs -> Nat],
         \A s \in Subs : opened[s] <= opened'[s]
  PROVE  Slots'
<1>1. \A x \in handlers' : x \in handlers /\ x.ch \in Nat /\ Queue[x.msg] \in Subs
  BY DEF TypeOK, Handler
<1>2. \A x \in handlers' : x.ch <= opened'[Queue[x.msg]]
  BY <1>1 DEF Slots, TypeOK
<1>3. QED
  BY <1>1, <1>2 DEF Slots

\* A handler that goes on keeps its slot.
LEMMA SlotsGoOn ==
  ASSUME TypeOK, Slots, NEW x \in handlers, NEW y, Same(x, y), Becomes(x, y), opened' = opened
  PROVE  Slots'
BY DEF Slots, Same, Becomes

\* A delivery is given a slot that is free.
LEMMA TakeKeepsSlots ==
  ASSUME TInv, Slots, NEW m \in Messages, Take(m)
  PROVE  Slots'
<1> DEFINE s == Queue[m]
<1> s \in Subs
  OBVIOUS
<1>1. PICK n \in (1 .. Concurrency) \ {x.slot : x \in InFlight(s)} :
        handlers' = handlers \cup
          {[msg |-> m, ch |-> current[s], slot |-> n, step |-> "work", fate |-> "acked"]}
  BY DEF Take, TakeSlot
<1> DEFINE y == [msg |-> m, ch |-> current[s], slot |-> n, step |-> "work", fate |-> "acked"]
<1>2. opened' = opened /\ current[s] = opened[s]
  BY DEF Take, TakeSlot, TInv, Channels, subscription
<1>3. \A x \in handlers : Queue[x.msg] = s /\ x.ch = current[s] => x.slot # n
  BY <1>1 DEF InFlight
<1>4. y.msg = m /\ y.ch = current[s] /\ y.slot = n
  OBVIOUS
<1>5. handlers' = handlers \cup {y}
  BY <1>1
<1>6. y.ch <= opened[Queue[y.msg]]
  BY <1>2, <1>4 DEF TInv, TypeOK
<1> HIDE DEF y
<1>7. QED
  BY <1>2, <1>3, <1>4, <1>5, <1>6 DEF Slots

\* What leaves handlers alone, or ends some, and opens channels.
LEMMA OthersStartNone ==
  ASSUME TInv, \/ \E s \in Subs : Loop(s)
               \/ Watch \/ Run \/ Broker
  PROVE  /\ handlers' \subseteq handlers
         /\ \A s \in Subs : opened[s] <= opened'[s]
<1> USE DEF TInv, TypeOK, transport, subscription, delivery
<1>1. ASSUME NEW d \in Loops, Reconnect(d)
      PROVE  UNCHANGED <<handlers, opened>>
  BY <1>1 DEF Reconnect, ConnectionFound, ConnectionMissing, AlreadyReconnected,
     Lock, LockClosed, Dialled, DialFailed, Install
<1>2. ASSUME NEW s \in Subs, Loop(s), ~Bind(s)
      PROVE  UNCHANGED <<handlers, opened>>
  <2>1. CASE Reconnect(s)
    BY <1>1, <2>1
  <2>2. CASE ~Reconnect(s)
    BY <1>2, <2>2
    DEF Loop, ErrClosed, Consume, BindFailed, BindRefused, DialRefused, ReportTerminal, Swap,
        LoopEnds, Retry, SubscriptionEnds
  <2>3. QED
    BY <2>1, <2>2
<1>3. ASSUME NEW s \in Subs, Bind(s)
      PROVE  handlers' = handlers /\ \A t \in Subs : opened[t] <= opened'[t]
  BY <1>3 DEF Bind
<1>4. Watch => UNCHANGED <<handlers, opened>>
  <2>1. CASE Reconnect(Watchdog)
    BY <1>1, <2>1
  <2>2. CASE Watched \/ WatchdogEnds
    BY <2>2 DEF Watched, WatchdogEnds
  <2>3. QED
    BY <2>1, <2>2 DEF Watch
<1>5. Run => handlers' \subseteq handlers /\ opened' = opened
  BY DEF Run, RunEnds, CloseTransport, CloseConnection, CloseChannel, CloseDone, Exit
<1>6. Broker => UNCHANGED <<handlers, opened>>
  BY DEF Broker, Push, ConnectionLost, ChannelLost, Lose
<1>7. QED
  BY <1>2, <1>3, <1>4, <1>5, <1>6

\* Every step keeps the slots apart.
LEMMA NextSlots == TInv /\ Slots /\ [Next]_vars => Slots'
<1> SUFFICES ASSUME TInv, Slots, [Next]_vars PROVE Slots'
  OBVIOUS
<1>1. TypeOK /\ TypeOK'
  BY NextTInv DEF TInv
<1>2. opened \in [Subs -> Nat] /\ opened' \in [Subs -> Nat]
  BY <1>1 DEF TypeOK
<1>3. ASSUME NEW m \in Messages, Take(m) PROVE Slots'
  BY <1>3, TakeKeepsSlots
<1>4. ASSUME NEW x \in handlers, Handle(x) PROVE Slots'
  <2>1. opened' = opened
    BY <1>4, DeliveryLeavesTransport DEF subscription
  <2>2. CASE Return(x)
    BY <1>1, <1>2, <2>1, <2>2, SlotsStay DEF Return
  <2>3. CASE ~Return(x)
    <3>1. PICK y : Same(x, y) /\ Becomes(x, y)
      BY <1>1, <1>4, <2>3, HandlerSteps
    <3>2. QED
      BY <1>1, <2>1, <3>1, SlotsGoOn
  <2>4. QED
    BY <2>2, <2>3
<1>5. CASE (\E s \in Subs : Loop(s)) \/ Watch \/ Run \/ Broker
  BY <1>1, <1>2, <1>5, OthersStartNone, SlotsStay
<1>6. CASE UNCHANGED vars
  BY <1>1, <1>2, <1>6, SlotsStay DEF vars, delivery, subscription
<1>7. QED
  BY <1>3, <1>4, <1>5, <1>6 DEF Next, Quiescent

\* No more handlers of a subscription than the slots of all its channels.
THEOREM Bounded == Spec => []InFlightIsBounded
<1>1. Init => Slots
  BY DEF Init, Slots
<1>2. ASSUME TInv, Slots PROVE InFlightIsBounded
  <2> SUFFICES ASSUME NEW s \in Subs
               PROVE  Cardinality({x \in handlers : Queue[x.msg] = s}) <= Concurrency * opened[s]
    BY DEF InFlightIsBounded
  <2> DEFINE H == {x \in handlers : Queue[x.msg] = s}
             place == [x \in H |-> <<x.ch, x.slot>>]
             P == (1 .. opened[s]) \X (1 .. Concurrency)
  <2>1. opened[s] \in Nat /\ Concurrency \in Nat
    BY <1>2 DEF TInv, TypeOK
  <2>2. \A x \in H : x.ch \in 1 .. opened[s] /\ x.slot \in 1 .. Concurrency
    BY <1>2, <2>1 DEF Slots, TInv, TypeOK, Handler
  <2>3. IsFiniteSet(1 .. opened[s]) /\ Cardinality(1 .. opened[s]) = opened[s]
    <3>1. \A n \in Nat : IsFiniteSet(1 .. n) /\ Cardinality(1 .. n) = n
      BY FS_Interval
    <3>2. QED
      BY <2>1, <3>1
  <2>4. IsFiniteSet(1 .. Concurrency) /\ Cardinality(1 .. Concurrency) = Concurrency
    BY <2>1, FS_Interval
  <2>5. IsFiniteSet(P) /\ Cardinality(P) = opened[s] * Concurrency
    BY <2>3, <2>4, FS_Product
  <2>6. place \in [H -> P]
    BY <2>2
  <2>7. \A x, y \in H : place[x] = place[y] => x = y
    BY <1>2 DEF Slots
  <2>8. place \in Injection(H, P)
    BY <2>6, <2>7, Fun_IsInj
  <2>9. Cardinality(H) <= Cardinality(P)
    BY <2>5, <2>8, FS_Injection
  <2>10. QED
    BY <2>1, <2>5, <2>9
<1>3. QED
  BY <1>1, <1>2, NextSlots, InitTInv, NextTInv, PTL DEF Spec

------------------------------------------------------------------------------
(* Settlements *)

\* What every other step does to the broker's state of a message: a loss gives
\* back, a push hands out.
LEMMA OthersDoNotSettle ==
  ASSUME TInv, \/ \E s \in Subs : Loop(s)
               \/ Watch \/ Run \/ Broker
               \/ \E m \in Messages : Take(m),
         NEW m \in Messages, state'[m] # state[m]
  PROVE  state'[m] \notin {"acked", "dropped"}
<1> USE DEF TInv, TypeOK, transport, subscription, delivery
<1>1. ASSUME NEW S, Die(S)
      PROVE  state'[m] \notin {"acked", "dropped"}
  BY <1>1 DEF Die
<1>2. ASSUME NEW d \in Loops, Reconnect(d)
      PROVE  state'[m] \notin {"acked", "dropped"}
  BY <1>1, <1>2 DEF Reconnect, ConnectionFound, ConnectionMissing, AlreadyReconnected,
     Lock, LockClosed, Dialled, DialFailed, Install
<1>3. ASSUME NEW s \in Subs, Loop(s)
      PROVE  state'[m] \notin {"acked", "dropped"}
  <2>1. CASE Reconnect(s)
    BY <1>2, <2>1
  <2>2. CASE ~Reconnect(s)
    BY <1>3, <2>2
    DEF Loop, ErrClosed, Consume, Bind, BindFailed, BindRefused, DialRefused, ReportTerminal, Swap,
        LoopEnds, Retry, SubscriptionEnds
  <2>3. QED
    BY <2>1, <2>2
<1>4. CASE Watch
  <2>1. CASE Reconnect(Watchdog)
    BY <1>2, <2>1
  <2>2. CASE Watched \/ WatchdogEnds
    BY <2>2 DEF Watched, WatchdogEnds
  <2>3. QED
    BY <1>4, <2>1, <2>2 DEF Watch
<1>5. CASE Run
  BY <1>1, <1>5 DEF Run, RunEnds, CloseTransport, CloseConnection, CloseChannel, CloseDone, Exit
<1>6. CASE Broker
  BY <1>1, <1>6 DEF Broker, Push, ConnectionLost, ChannelLost, Lose
<1>7. ASSUME NEW n \in Messages, Take(n)
      PROVE  state' = state
  BY <1>7 DEF Take, TakeSlot
<1>8. QED
  BY <1>3, <1>4, <1>5, <1>6, <1>7

\* Only the handler of the channel that still waits for it settles a message.
THEOREM OwnersSettle == Spec => OnlyOwnersSettle
<1> DEFINE Owner(m) ==
      \E x \in handlers : x.msg = m /\ x.step = "settle" /\ x.ch = opened[Queue[m]]
                        /\ live[Queue[m]] /\ x.fate = state'[m]
<1>1. ASSUME TInv, [Next]_vars, NEW m \in Messages,
             state'[m] # state[m], state'[m] \in {"acked", "dropped"}
      PROVE  Owner(m)
  <2>1. PICK x \in handlers : Handle(x)
    BY <1>1, OthersDoNotSettle DEF Next, Quiescent, vars, delivery
  <2>2. Settle(x)
    BY <1>1, <2>1 DEF Handle, Work, Replied, NotReplied, Return
  <2>3. /\ live[Queue[x.msg]] /\ x.ch = opened[Queue[x.msg]] /\ x.step = "settle"
        /\ state' = [state EXCEPT ![x.msg] = x.fate]
    BY <1>1, <2>2 DEF Settle
  <2>4. x.msg = m /\ x.fate = state'[m]
    BY <1>1, <2>3 DEF TInv, TypeOK
  <2>5. QED
    BY <2>3, <2>4
<1>2. TInv /\ [Next]_vars =>
        [\A m \in Messages : state'[m] # state[m] /\ state'[m] \in {"acked", "dropped"} =>
           Owner(m)]_vars
  BY <1>1
<1>3. QED
  BY <1>2, InitTInv, NextTInv, PTL DEF Spec, OnlyOwnersSettle

------------------------------------------------------------------------------
(* Owners *)

\* A loss, or a step that touches no delivery and stops no loop that has some.
LEMMA OwnedStays ==
  ASSUME TypeOK, Owned, NEW S, Die(S), UNCHANGED <<opened, buffer, handlers>>,
         \A s \in Subs : pc[s] \in {"swap", "deliver"} => pc'[s] \in {"swap", "deliver"}
  PROVE  Owned'
<1> SUFFICES ASSUME NEW m \in Messages
             PROVE  /\ state'[m] = "unacked" => live'[Queue[m]]
                    /\ live'[Queue[m]] =>
                         /\ m \in buffer' \/ Holding(m)' # {} <=> state'[m] = "unacked"
                         /\ m \in buffer' => Holding(m)' = {}
                         /\ \A x, y \in Holding(m)' : x = y
                    /\ pc'[Queue[m]] \notin {"swap", "deliver"} => m \notin buffer'
  BY DEF Owned
<1>1. Queue[m] \in Subs /\ Holding(m)' = Holding(m)
  BY DEF Holding
<1>2. CASE Queue[m] \in S
  BY <1>1, <1>2 DEF Owned, Die, TypeOK
<1>3. CASE Queue[m] \notin S
  BY <1>1, <1>3 DEF Owned, Die, TypeOK
<1>4. QED
  BY <1>2, <1>3

\* No channel lost.
LEMMA NoneDies == ASSUME TypeOK, UNCHANGED <<live, state>> PROVE Die({})
BY DEF TypeOK, Die

\* Steps towards a connection.
LEMMA ReconnectKeepsOwned ==
  ASSUME CInv, Owned, NEW d \in Loops, Reconnect(d)
  PROVE  Owned'
<1> TypeOK
  BY DEF CInv, TInv
<1>1. UNCHANGED <<opened, buffer, handlers>>
  BY DEF Reconnect, ConnectionFound, ConnectionMissing, AlreadyReconnected,
     Lock, LockClosed, Dialled, DialFailed, Install, subscription, delivery
<1>2. \A s \in Subs : pc[s] \in {"swap", "deliver"} => pc'[s] \in {"swap", "deliver"}
  BY DEF Reconnect, ConnectionFound, ConnectionMissing, AlreadyReconnected,
     Lock, LockClosed, Dialled, DialFailed, Install, Fails, Goto, TypeOK
<1>3. \E S : Die(S)
  <2>1. CASE Install(d)
    BY <2>1 DEF Install
  <2>2. CASE ~Install(d)
    <3>1. UNCHANGED <<live, state>>
      BY <2>2 DEF Reconnect, ConnectionFound, ConnectionMissing, AlreadyReconnected,
         Lock, LockClosed, Dialled, DialFailed, subscription, delivery
    <3>2. QED
      BY <3>1, NoneDies
  <2>3. QED
    BY <2>1, <2>2
<1>4. QED
  BY <1>1, <1>2, <1>3, OwnedStays

\* A new channel starts with nothing in hand.
LEMMA BindKeepsOwned ==
  ASSUME CInv, Owned, Slots, NEW s \in Subs, Bind(s)
  PROVE  Owned'
<1> USE DEF CInv, TInv, TypeOK, Goto, Bind, delivery
<1>1. ASSUME NEW m \in Messages, Queue[m] # s
      PROVE  /\ Holding(m)' = Holding(m) /\ live'[Queue[m]] = live[Queue[m]]
             /\ pc'[Queue[m]] = pc[Queue[m]]
  BY <1>1 DEF Holding
<1>2. ASSUME NEW m \in Messages, Queue[m] = s
      PROVE  /\ Holding(m)' = {} /\ state'[m] # "unacked" /\ m \notin buffer' /\ live'[s]
  <2>1. \A x \in handlers' : x.ch \in Nat /\ (x.msg = m => x.ch <= opened[s])
    BY <1>2 DEF Slots, Handler
  <2>2. opened'[Queue[m]] = opened[s] + 1 /\ opened[s] \in Nat
    BY <1>2
  <2>3. Holding(m)' = {}
    BY <2>1, <2>2 DEF Holding
  <2>4. ~live[s]
    BY DEF Live
  <2>5. QED
    BY <1>2, <2>3, <2>4 DEF Owned
<1>3. \A m \in Messages : state'[m] = state[m] /\ (m \in buffer' <=> m \in buffer)
  OBVIOUS
<1>4. QED
  BY <1>1, <1>2, <1>3 DEF Owned

\* A loop that ends drops what it had not taken.
LEMMA LoopEndsKeepsOwned ==
  ASSUME CInv, Owned, NEW s \in Subs, LoopEnds(s)
  PROVE  Owned'
<1> USE DEF CInv, TInv, TypeOK, Goto, LoopEnds, subscription
<1>1. \A m \in Messages : Holding(m)' = Holding(m)
  BY DEF Holding
<1>2. ASSUME NEW m \in Messages, Queue[m] # s
      PROVE  (m \in buffer' <=> m \in buffer) /\ pc'[Queue[m]] = pc[Queue[m]]
  BY <1>2
<1>3. ASSUME NEW m \in Messages, Queue[m] = s
      PROVE  m \notin buffer' /\ ~live'[Queue[m]]
  BY <1>3
<1>4. UNCHANGED <<live, state>>
  OBVIOUS
<1>5. QED
  BY <1>1, <1>2, <1>3, <1>4 DEF Owned

\* Steps of a subscription's loop.
LEMMA LoopKeepsOwned ==
  ASSUME CInv, Owned, Slots, NEW s \in Subs, Loop(s)
  PROVE  Owned'
<1> TypeOK
  BY DEF CInv, TInv
<1>1. CASE Reconnect(s)
  BY <1>1, ReconnectKeepsOwned
<1>2. CASE Bind(s)
  BY <1>2, BindKeepsOwned
<1>3. CASE LoopEnds(s)
  BY <1>3, LoopEndsKeepsOwned
<1>4. CASE ~Reconnect(s) /\ ~Bind(s) /\ ~LoopEnds(s)
  <2>1. UNCHANGED <<live, state, opened, buffer, handlers>>
    BY <1>4
    DEF Loop, ErrClosed, Consume, BindFailed, BindRefused, DialRefused, ReportTerminal, Swap, Retry,
        SubscriptionEnds, subscription, delivery
  <2>2. \A t \in Subs : pc[t] \in {"swap", "deliver"} => pc'[t] \in {"swap", "deliver"}
    BY <1>4
    DEF Loop, ErrClosed, Consume, BindFailed, BindRefused, DialRefused, ReportTerminal, Swap, Retry,
        SubscriptionEnds, Fails, Goto, TypeOK
  <2>3. QED
    BY <2>1, <2>2, NoneDies, OwnedStays
<1>5. QED
  BY <1>1, <1>2, <1>3, <1>4

\* Steps of the watchdog.
LEMMA WatchKeepsOwned ==
  ASSUME CInv, Owned, Watch
  PROVE  Owned'
<1> TypeOK
  BY DEF CInv, TInv
<1>1. CASE Reconnect(Watchdog)
  BY <1>1, ReconnectKeepsOwned
<1>2. CASE Watched \/ WatchdogEnds
  <2>1. UNCHANGED <<live, state, opened, buffer, handlers>>
    BY <1>2 DEF Watched, WatchdogEnds, subscription, delivery
  <2>2. \A t \in Subs : pc[t] \in {"swap", "deliver"} => pc'[t] \in {"swap", "deliver"}
    BY <1>2 DEF Watched, WatchdogEnds, Goto, TypeOK
  <2>3. QED
    BY <2>1, <2>2, NoneDies, OwnedStays
<1>3. QED
  BY <1>1, <1>2 DEF Watch

\* Run's end and the shutdown.
LEMMA RunKeepsOwned ==
  ASSUME CInv, Owned, Run
  PROVE  Owned'
<1> TypeOK
  BY DEF CInv, TInv
<1>1. CASE Exit
  <2>1. \A s \in Subs : ~live'[s]
    BY <1>1 DEF Exit, Die
  <2>2. \A m \in Messages : state'[m] # "unacked"
    BY <1>1 DEF Exit, Die, TypeOK
  <2>3. buffer' = {}
    BY <1>1 DEF Exit
  <2>4. QED
    BY <2>1, <2>2, <2>3 DEF Owned
<1>2. CASE ~Exit
  <2>1. UNCHANGED <<opened, buffer, handlers, pc>>
    BY <1>2 DEF Run, RunEnds, CloseTransport, CloseConnection, CloseChannel, CloseDone,
       subscription, delivery
  <2>2. UNCHANGED <<live, state>> \/ \E S : Die(S)
    BY <1>2 DEF Run, RunEnds, CloseTransport, CloseConnection, CloseChannel, CloseDone,
       subscription, delivery
  <2>3. QED
    BY <2>1, <2>2, NoneDies, OwnedStays
<1>3. QED
  BY <1>1, <1>2

\* A loss gives back; a push hands out what nobody holds.
LEMMA BrokerKeepsOwned ==
  ASSUME CInv, Owned, Broker
  PROVE  Owned'
<1> TypeOK
  BY DEF CInv, TInv
<1>1. ASSUME NEW m \in Messages, Push(m) PROVE Owned'
  <2>1. /\ live[Queue[m]] /\ state[m] = "ready" /\ state' = [state EXCEPT ![m] = "unacked"]
        /\ buffer' = buffer \cup {m} /\ UNCHANGED <<live, opened, pc, handlers>>
    BY <1>1 DEF Push, subscription
  <2>2. \A n \in Messages : Holding(n)' = Holding(n)
    BY <2>1 DEF Holding
  <2>3. Holding(m) = {} /\ state'[m] = "unacked" /\ pc[Queue[m]] \in {"swap", "deliver"}
    BY <2>1 DEF Owned, TypeOK, CInv, Live
  <2>4. \A n \in Messages \ {m} : state'[n] = state[n] /\ (n \in buffer' <=> n \in buffer)
    BY <2>1 DEF TypeOK
  <2>5. QED
    BY <2>1, <2>2, <2>3, <2>4 DEF Owned
<1>2. ASSUME NEW c \in open, ConnectionLost(c) PROVE Owned'
  BY <1>2, OwnedStays DEF ConnectionLost, Lose
<1>3. ASSUME NEW s \in Subs, ChannelLost(s) PROVE Owned'
  BY <1>3, OwnedStays DEF ChannelLost, Lose
<1>4. QED
  BY <1>1, <1>2, <1>3 DEF Broker

\* A delivery goes from the buffer to one handler.
LEMMA TakeKeepsOwned ==
  ASSUME CInv, Owned, NEW m \in Messages, Take(m)
  PROVE  Owned'
<1> DEFINE s == Queue[m]
<1>1. PICK n \in (1 .. Concurrency) \ {x.slot : x \in InFlight(s)} :
        handlers' = handlers \cup
          {[msg |-> m, ch |-> current[s], slot |-> n, step |-> "work", fate |-> "acked"]}
  BY DEF Take, TakeSlot
<1> DEFINE y == [msg |-> m, ch |-> current[s], slot |-> n, step |-> "work", fate |-> "acked"]
<1>2. /\ UNCHANGED <<live, opened, pc, state>> /\ m \in buffer /\ buffer' = buffer \ {m}
      /\ pc[s] = "deliver"
  BY DEF Take, TakeSlot, subscription
<1>3. y.msg = m /\ y.ch = opened[s] /\ y.step = "work" /\ handlers' = handlers \cup {y}
  BY <1>1, <1>2 DEF CInv, TInv, Channels
<1> HIDE DEF y
<1>4. Holding(m)' = Holding(m) \cup {y}
  BY <1>2, <1>3 DEF Holding
<1>5. \A o \in Messages \ {m} : Holding(o)' = Holding(o)
  BY <1>2, <1>3 DEF Holding
<1>6. QED
  BY <1>2, <1>4, <1>5 DEF Owned

\* A handler that goes on, or returns, still holds what it held, until it settles.
LEMMA HandlerKeepsHolding ==
  ASSUME TypeOK, NEW x \in handlers, NEW y, Same(x, y), Becomes(x, y), opened' = opened,
         x.step # "return", y.step # "return"
  PROVE  \A m \in Messages :
           \/ x \in Holding(m) /\ Holding(m)' = (Holding(m) \ {x}) \cup {y}
           \/ x \notin Holding(m) /\ Holding(m)' = Holding(m)
BY DEF Same, Becomes, Holding

\* A handler in between settles nothing and lets go of nothing.
LEMMA GoingOnKeepsOwned ==
  ASSUME TypeOK, Owned, NEW x \in handlers, NEW y, Same(x, y), Becomes(x, y),
         UNCHANGED <<live, state, opened, pc, buffer>>, x.step # "return", y.step # "return"
  PROVE  Owned'
<1>1. \A m \in Messages :
        /\ Holding(m)' = {} <=> Holding(m) = {}
        /\ (\A v, w \in Holding(m) : v = w) => \A v, w \in Holding(m)' : v = w
  BY HandlerKeepsHolding
<1>2. QED
  BY <1>1 DEF Owned

\* The one that settles had the message, if its channel is still the one.
LEMMA SettleKeepsOwned ==
  ASSUME CInv, Owned, NEW x \in handlers, Settle(x)
  PROVE  Owned'
<1> USE DEF CInv, TInv, TypeOK
<1> DEFINE m == x.msg
           s == Queue[m]
           y == [x EXCEPT !.step = "return", !.fate = "acked"]
<1>1. x \in Handler /\ m \in Messages /\ s \in Subs /\ x.fate \in {"acked", "ready", "dropped"}
  BY DEF Handler
<1>2. y.step = "return" /\ y.msg = m /\ y.ch = x.ch
  BY <1>1 DEF Handler
<1>3. /\ UNCHANGED <<live, opened, pc, buffer>> /\ x.step = "settle"
      /\ handlers' = (handlers \ {x}) \cup {y}
      /\ state' = IF live[s] /\ x.ch = opened[s] THEN [state EXCEPT ![m] = x.fate] ELSE state
  BY DEF Settle, Becomes, subscription
<1> HIDE DEF y
<1>4. \A n \in Messages : Holding(n)' = Holding(n) \ {x}
  BY <1>2, <1>3 DEF Holding
<1>5. \A n \in Messages \ {m} : x \notin Holding(n) /\ state'[n] = state[n]
  BY <1>1, <1>3 DEF Holding
<1>6. CASE live[s] /\ x.ch = opened[s]
  <2>1. x \in Holding(m)
    BY <1>3, <1>6 DEF Holding
  <2>2. m \notin buffer /\ Holding(m) = {x}
    BY <1>1, <1>6, <2>1 DEF Owned
  <2>3. state'[m] # "unacked" /\ Holding(m)' = {}
    BY <1>1, <1>3, <1>4, <1>6, <2>2
  <2>4. \A n \in Messages \ {m} : Holding(n)' = Holding(n)
    BY <1>2, <1>3 DEF Holding
  <2>5. live'[s] /\ m \notin buffer' /\ Holding(m)' = {} /\ state'[m] # "unacked"
    BY <1>3, <1>6, <2>2, <2>3
  <2>6. \A n \in Messages : n = m \/ (Holding(n)' = Holding(n) /\ state'[n] = state[n])
    BY <1>5, <2>4
  <2> HIDE DEF m, s
  <2>7. QED
    BY <1>3, <2>5, <2>6 DEF Owned, s
<1>7. CASE ~(live[s] /\ x.ch = opened[s])
  <2>1. state' = state
    BY <1>3, <1>7
  <2>2. \A n \in Messages : live[Queue[n]] => Holding(n)' = Holding(n)
    BY <1>4, <1>5, <1>7 DEF Holding
  <2>3. QED
    BY <1>3, <2>1, <2>2 DEF Owned
<1>8. QED
  BY <1>6, <1>7

\* Steps of a handler.
LEMMA HandleKeepsOwned ==
  ASSUME CInv, Owned, NEW x \in handlers, Handle(x)
  PROVE  Owned'
<1> USE DEF CInv, TInv
<1> x \in Handler
  BY DEF TypeOK
<1>1. UNCHANGED <<live, opened, pc>>
  BY DeliveryLeavesTransport DEF subscription
<1>2. CASE Settle(x)
  BY <1>2, SettleKeepsOwned
<1>3. CASE Return(x)
  <2>1. \A m \in Messages : Holding(m)' = Holding(m)
    BY <1>1, <1>3 DEF Return, Holding
  <2>2. UNCHANGED <<state, buffer>>
    BY <1>3 DEF Return
  <2>3. QED
    BY <1>1, <2>1, <2>2 DEF Owned
<1>4. CASE Work(x)
  <2>1. PICK f \in {"acked", "dropped"} : Becomes(x, [x EXCEPT !.step = "reply", !.fate = f])
    BY <1>4 DEF Work
  <2> DEFINE y == [x EXCEPT !.step = "reply", !.fate = f]
  <2>2. Same(x, y) /\ y.step # "return"
    BY DEF Same, Handler
  <2>3. QED
    BY <1>1, <1>4, <2>1, <2>2, GoingOnKeepsOwned DEF Work
<1>5. CASE Replied(x)
  <2> DEFINE y == [x EXCEPT !.step = "settle"]
  <2>1. Same(x, y) /\ y.step # "return"
    BY DEF Same, Handler
  <2>2. QED
    BY <1>1, <1>5, <2>1, GoingOnKeepsOwned DEF Replied
<1>6. CASE NotReplied(x)
  <2> DEFINE y == [x EXCEPT !.step = "settle", !.fate = IF @ = "acked" THEN "ready" ELSE @]
  <2>1. Same(x, y) /\ y.step # "return"
    BY DEF Same, Handler
  <2>2. QED
    BY <1>1, <1>6, <2>1, GoingOnKeepsOwned DEF NotReplied
<1>7. QED
  BY <1>2, <1>3, <1>4, <1>5, <1>6 DEF Handle

DInv == CInv /\ Slots /\ Owned

\* Initially nothing is delivered.
LEMMA InitDInv == Init => DInv
BY InitCInv DEF Init, DInv, Slots, Owned, Holding

\* Every step keeps the invariant of the deliveries.
LEMMA NextDInv == DInv /\ [Next]_vars => DInv'
<1> SUFFICES ASSUME DInv, [Next]_vars PROVE DInv'
  OBVIOUS
<1>1. CInv' /\ Slots'
  BY NextCInv, NextSlots DEF DInv, CInv
<1>2. CASE UNCHANGED vars
  <2>1. UNCHANGED <<live, state, opened, buffer, handlers, pc>>
    BY <1>2 DEF vars, subscription, delivery
  <2>2. QED
    BY <1>1, <2>1, NoneDies, OwnedStays DEF DInv, CInv, TInv
<1>3. CASE Next
  <2>1. Owned'
    BY <1>2, <1>3, LoopKeepsOwned, WatchKeepsOwned, TakeKeepsOwned, HandleKeepsOwned,
       RunKeepsOwned, BrokerKeepsOwned DEF DInv, Next, Quiescent
  <2>2. QED
    BY <1>1, <2>1 DEF DInv
<1>4. QED
  BY <1>2, <1>3

\* What the broker waits for has exactly one that will settle it.
THEOREM OneOwner == Spec => []EachDeliveryHasOneOwner
<1>1. ASSUME DInv PROVE EachDeliveryHasOneOwner
  <2> SUFFICES ASSUME NEW m \in Messages, state[m] = "unacked"
               PROVE  /\ live[Queue[m]] /\ pc[Queue[m]] \in {"swap", "deliver"}
                      /\ m \in buffer <=> Holding(m) = {}
                      /\ \A x, y \in Holding(m) : x = y
    BY DEF EachDeliveryHasOneOwner, Holding
  <2>1. live[Queue[m]]
    BY <1>1 DEF DInv, Owned
  <2>2. pc[Queue[m]] \in {"swap", "deliver"}
    BY <1>1, <2>1 DEF DInv, CInv, Live
  <2>3. QED
    BY <1>1, <2>1, <2>2 DEF DInv, Owned
<1>2. QED
  BY <1>1, InitDInv, NextDInv, PTL DEF Spec

------------------------------------------------------------------------------
(* The contract *)

\* What the mapping needs: what is known of the deliveries, of the answers, and
\* that there are finitely many handlers to count.
RInv == DInv /\ Answered /\ IsFiniteSet(handlers)

Executions(m) == {x \in handlers : x.msg = m}

\* A handler of an open channel is the only one that has the delivery.
LEMMA OneHolds ==
  ASSUME DInv, NEW m \in Messages, NEW x \in Holding(m), state[m] = "unacked"
  PROVE  /\ Holding(m) = {x} /\ m \notin buffer
         /\ Verdict[m] = IF x.step = "settle" THEN x.fate ELSE "none"
<1>1. live[Queue[m]]
  BY DEF DInv, Owned
<1>2. m \notin buffer /\ \A z \in Holding(m) : z = x
  BY <1>1 DEF DInv, Owned
<1>3. Holding(m) = {x}
  BY <1>2
<1>4. QED
  BY <1>2, <1>3, Zenon DEF Verdict

\* No verdict on what is not delivered, or not yet executed.
LEMMA NoVerdict ==
  ASSUME NEW m \in Messages, state[m] # "unacked" \/ Holding(m) = {}
  PROVE  Verdict[m] = "none"
BY DEF Verdict

\* The same after a step.
LEMMA NoVerdictNext ==
  ASSUME NEW m \in Messages, state'[m] # "unacked" \/ Holding(m)' = {}
  PROVE  Verdict'[m] = "none"
BY DEF Verdict

\* Who has a message decides the verdict on it.
LEMMA VerdictStays ==
  ASSUME NEW m \in Messages, state'[m] = state[m], Holding(m)' = Holding(m)
  PROVE  Verdict'[m] = Verdict[m]
BY Zenon DEF Verdict

\* Where every verdict stays, so does the function.
LEMMA VerdictsStay ==
  ASSUME \A m \in Messages : Verdict'[m] = Verdict[m]
  PROVE  Verdict' = Verdict
<1>1. /\ Verdict = [m \in Messages |-> Verdict[m]]
      /\ Verdict' = [m \in Messages |-> Verdict'[m]]
  BY DEF Verdict
<1>2. QED
  BY <1>1

\* One verdict changes.
LEMMA VerdictExcept ==
  ASSUME NEW m \in Messages, \A o \in Messages \ {m} : Verdict'[o] = Verdict[o]
  PROVE  Verdict' = [Verdict EXCEPT ![m] = Verdict'[m]]
<1>1. /\ Verdict = [o \in Messages |-> Verdict[o]]
      /\ Verdict' = [o \in Messages |-> Verdict'[o]]
  BY DEF Verdict
<1>2. QED
  BY <1>1

\* The numbers of executions are numbers.
LEMMA RunningIs ==
  ASSUME IsFiniteSet(handlers)
  PROVE  /\ Running \in [Messages -> Nat]
         /\ \A m \in Messages : /\ IsFiniteSet(Executions(m))
                                /\ Running[m] = Cardinality(Executions(m))
<1>1. \A m \in Messages : IsFiniteSet(Executions(m)) /\ Cardinality(Executions(m)) \in Nat
  BY FS_Subset, FS_CardinalityType DEF Executions
<1>2. QED
  BY <1>1 DEF Running, Executions

\* The same after a step.
LEMMA RunningIsNext ==
  ASSUME IsFiniteSet(handlers')
  PROVE  /\ Running' \in [Messages -> Nat]
         /\ \A m \in Messages : /\ IsFiniteSet(Executions(m)')
                                /\ Running'[m] = Cardinality(Executions(m)')
<1>1. \A m \in Messages : IsFiniteSet(Executions(m)') /\ Cardinality(Executions(m)') \in Nat
  BY FS_Subset, FS_CardinalityType DEF Executions
<1>2. QED
  BY <1>1 DEF Running, Executions

\* A message that a handler executes is executed.
LEMMA SomeRun ==
  ASSUME RInv, NEW x \in handlers
  PROVE  x.msg \in Messages /\ Running[x.msg] > 0
<1>1. x.msg \in Messages /\ x \in Executions(x.msg)
  BY DEF RInv, DInv, CInv, TInv, TypeOK, Handler, Executions
<1>2. IsFiniteSet(Executions(x.msg)) /\ Running[x.msg] = Cardinality(Executions(x.msg))
  BY <1>1, RunningIs DEF RInv
<1>3. Cardinality(Executions(x.msg)) \in Nat /\ Cardinality(Executions(x.msg)) # 0
  BY <1>1, <1>2, FS_EmptySet, FS_CardinalityType
<1>4. QED
  BY <1>1, <1>2, <1>3

\* A handler that goes on is counted as before.
LEMMA GoingOnCounts ==
  ASSUME RInv, NEW x \in handlers, NEW y, Same(x, y), Becomes(x, y)
  PROVE  IsFiniteSet(handlers') /\ Running' = Running
<1>1. IsFiniteSet(handlers')
  BY FS_AddElement, FS_RemoveElement DEF RInv, Becomes
<1>2. x = y \/ y \notin handlers
  BY DEF RInv, DInv, Slots, Same
<1>3. ASSUME NEW m \in Messages PROVE Running'[m] = Running[m]
  <2> DEFINE E == Executions(m)
  <2>1. IsFiniteSet(E) /\ Running[m] = Cardinality(E) /\ Running'[m] = Cardinality(E')
    BY <1>1, RunningIs, RunningIsNext DEF RInv
  <2>2. CASE x.msg # m
    <3>1. E' = E
      BY <2>2 DEF Executions, Becomes, Same
    <3>2. QED
      BY <2>1, <3>1
  <2>3. CASE x.msg = m
    <3>1. x \in E /\ E' = (E \ {x}) \cup {y} /\ y \notin E \ {x}
      BY <1>2, <2>3 DEF Executions, Becomes, Same
    <3> HIDE DEF E
    <3>2. IsFiniteSet(E \ {x}) /\ Cardinality(E \ {x}) = Cardinality(E) - 1
      BY <2>1, <3>1, FS_RemoveElement
    <3>3. Cardinality((E \ {x}) \cup {y}) = Cardinality(E \ {x}) + 1
      BY <3>1, <3>2, FS_AddElement
    <3>4. Cardinality(E) \in Nat
      BY <2>1, FS_CardinalityType
    <3>5. QED
      BY <2>1, <3>1, <3>2, <3>3, <3>4
  <2>4. QED
    BY <2>2, <2>3
<1>4. QED
  BY <1>1, <1>3, RunningIs, RunningIsNext DEF RInv

\* Losses map to losses.
LEMMA DyingIsLosing ==
  ASSUME NEW S, Die(S), UNCHANGED <<opened, buffer, handlers, reply>>
  PROVE  Contract!Lose({m \in Messages : Queue[m] \in S})
<1> DEFINE M == {m \in Messages : Queue[m] \in S}
<1>1. \A m \in Messages : Holding(m)' = Holding(m)
  BY DEF Holding
<1>2. \A m \in M : state'[m] # "unacked"
  BY DEF Die
<1>3. \A m \in Messages \ M : state'[m] = state[m]
  BY DEF Die
<1>4. \A m \in Messages : Verdict'[m] = IF m \in M THEN "none" ELSE Verdict[m]
  BY <1>1, <1>2, <1>3, NoVerdictNext, VerdictStays
<1>5. Verdict' = [m \in Messages |-> Verdict'[m]]
  BY DEF Verdict
<1>6. Verdict' = [m \in Messages |-> IF m \in M THEN "none" ELSE Verdict[m]]
  BY <1>4, <1>5
<1>7. Running' = Running
  BY DEF Running
<1>8. state' = [m \in Messages |-> IF m \in M /\ state[m] = "unacked" THEN "ready" ELSE state[m]]
  BY DEF Die
<1>9. QED
  BY <1>6, <1>7, <1>8 DEF Contract!Lose, Contract!TakeBack

\* Steps that touch no delivery and open no channel.
LEMMA QuietStutters ==
  ASSUME UNCHANGED <<opened, buffer, handlers, reply, state>>
  PROVE  UNCHANGED Contract!vars
<1>1. \A m \in Messages : Holding(m)' = Holding(m)
  BY DEF Holding
<1>2. Verdict' = Verdict
  BY <1>1, VerdictStays, VerdictsStay
<1>3. Running' = Running
  BY DEF Running
<1>4. QED
  BY <1>2, <1>3 DEF Contract!vars

\* Steps towards a connection, of any loop.
LEMMA ReconnectImplements ==
  ASSUME NEW d \in Loops, Reconnect(d)
  PROVE  [Contract!Next]_(Contract!vars)
<1>1. UNCHANGED <<opened, buffer, handlers, reply>>
  BY DEF Reconnect, ConnectionFound, ConnectionMissing, AlreadyReconnected,
     Lock, LockClosed, Dialled, DialFailed, Install, subscription, delivery
<1>2. CASE Install(d)
  BY <1>1, <1>2, DyingIsLosing DEF Install, Contract!Next
<1>3. CASE ~Install(d)
  BY <1>1, <1>3, QuietStutters DEF Reconnect, ConnectionFound, ConnectionMissing,
     AlreadyReconnected, Lock, LockClosed, Dialled, DialFailed, delivery
<1>4. QED
  BY <1>2, <1>3

\* A new channel: what was delivered by the old one is lost already.
LEMMA BindImplements ==
  ASSUME RInv, NEW s \in Subs, Bind(s)
  PROVE  UNCHANGED Contract!vars
<1>1. UNCHANGED <<state, buffer, handlers, reply>> /\ \A t \in Subs \ {s} : opened'[t] = opened[t]
  BY DEF Bind, delivery, RInv, DInv, CInv, TInv, TypeOK
<1>2. ~live[s]
  BY DEF Bind, Goto, RInv, DInv, CInv, Live
<1>3. ASSUME NEW m \in Messages PROVE Verdict'[m] = Verdict[m]
  <2>1. CASE Queue[m] = s
    <3>1. state[m] # "unacked" /\ state'[m] # "unacked"
      BY <1>1, <1>2, <2>1 DEF RInv, DInv, Owned
    <3>2. QED
      BY <3>1, NoVerdict, NoVerdictNext
  <2>2. CASE Queue[m] # s
    <3>1. Holding(m)' = Holding(m)
      BY <1>1, <2>2 DEF Holding
    <3>2. QED
      BY <1>1, <3>1, VerdictStays
  <2>3. QED
    BY <2>1, <2>2
<1>4. Running' = Running
  BY <1>1 DEF Running
<1>5. QED
  BY <1>1, <1>3, <1>4, VerdictsStay DEF Contract!vars

\* The end of a loop forgets what was lost before it was taken.
LEMMA LoopEndsImplements ==
  ASSUME RInv, NEW s \in Subs, LoopEnds(s)
  PROVE  Contract!Forget({m \in Messages : Queue[m] = s})
<1> DEFINE M == {m \in Messages : Queue[m] = s}
<1>1. UNCHANGED <<state, opened, handlers, reply>> /\ buffer' = buffer \ M
  BY DEF LoopEnds, subscription, RInv, DInv, CInv, TInv, TypeOK
<1>2. \A m \in M : state[m] # "unacked"
  BY DEF LoopEnds, RInv, DInv, Owned
<1>3. Verdict' = Verdict
  BY <1>1, VerdictStays, VerdictsStay DEF Holding
<1>4. Running' = Running
  BY <1>1 DEF Running
<1>5. QED
  BY <1>1, <1>2, <1>3, <1>4 DEF Contract!Forget

\* Steps of a subscription's loop.
LEMMA LoopImplements ==
  ASSUME RInv, NEW s \in Subs, Loop(s)
  PROVE  [Contract!Next]_(Contract!vars)
<1>1. CASE Reconnect(s)
  BY <1>1, ReconnectImplements
<1>2. CASE Bind(s)
  BY <1>2, BindImplements
<1>3. CASE LoopEnds(s)
  BY <1>3, LoopEndsImplements DEF Contract!Next
<1>4. CASE ~Reconnect(s) /\ ~Bind(s) /\ ~LoopEnds(s)
  BY <1>4, QuietStutters
  DEF Loop, ErrClosed, Consume, BindFailed, BindRefused, DialRefused, ReportTerminal, Swap, Retry,
      SubscriptionEnds, subscription, delivery
<1>5. QED
  BY <1>1, <1>2, <1>3, <1>4

\* Steps of the watchdog.
LEMMA WatchImplements ==
  ASSUME Watch
  PROVE  [Contract!Next]_(Contract!vars)
<1>1. CASE Reconnect(Watchdog)
  BY <1>1, ReconnectImplements
<1>2. CASE Watched \/ WatchdogEnds
  BY <1>2, QuietStutters DEF Watched, WatchdogEnds, subscription, delivery
<1>3. QED
  BY <1>1, <1>2 DEF Watch

\* The end of the process takes everything back.
LEMMA ExitImplements ==
  ASSUME Exit
  PROVE  Contract!Stop
<1>1. /\ buffer' = {} /\ handlers' = {} /\ reply' = reply
      /\ state' = [m \in Messages |->
                     IF m \in Messages /\ state[m] = "unacked" THEN "ready" ELSE state[m]]
  BY DEF Exit, Die
<1>2. \A m \in Messages : Verdict'[m] = "none"
  BY <1>1, NoVerdictNext
<1>3. Verdict' = [m \in Messages |-> IF m \in Messages THEN "none" ELSE Verdict[m]]
  BY <1>2 DEF Verdict
<1>4. \A m \in Messages : Running'[m] = 0
  <2>1. IsFiniteSet(handlers')
    BY <1>1, FS_EmptySet
  <2>2. \A m \in Messages : Executions(m)' = {}
    BY <1>1 DEF Executions
  <2>3. QED
    BY <2>1, <2>2, RunningIsNext, FS_EmptySet
<1>5. Running' = [m \in Messages |-> 0]
  BY <1>4 DEF Running
<1>6. QED
  BY <1>1, <1>3, <1>5 DEF Contract!Stop, Contract!TakeBack

\* Run's end and the shutdown.
LEMMA RunImplements ==
  ASSUME Run
  PROVE  [Contract!Next]_(Contract!vars)
<1>1. CASE Exit
  BY <1>1, ExitImplements DEF Contract!Next
<1>2. CASE ~Exit
  <2>1. UNCHANGED <<opened, buffer, handlers, reply>>
    BY <1>2 DEF Run, RunEnds, CloseTransport, CloseConnection, CloseChannel, CloseDone,
       subscription, delivery
  <2>2. state' = state \/ \E S : Die(S)
    BY <1>2 DEF Run, RunEnds, CloseTransport, CloseConnection, CloseChannel, CloseDone, delivery
  <2>3. QED
    BY <2>1, <2>2, QuietStutters, DyingIsLosing DEF Contract!Next
<1>3. QED
  BY <1>1, <1>2

\* A loss is a loss; a push is a delivery of what nobody has.
LEMMA BrokerImplements ==
  ASSUME RInv, Broker
  PROVE  [Contract!Next]_(Contract!vars)
<1>1. ASSUME NEW m \in Messages, Push(m) PROVE Contract!Deliver(m)
  <2>1. /\ live[Queue[m]] /\ state[m] = "ready" /\ state' = [state EXCEPT ![m] = "unacked"]
        /\ buffer' = buffer \cup {m} /\ UNCHANGED <<opened, handlers, reply>>
    BY <1>1 DEF Push, subscription
  <2>2. m \notin buffer /\ Holding(m) = {}
    BY <2>1 DEF RInv, DInv, Owned
  <2>3. \A n \in Messages : Holding(n)' = Holding(n)
    BY <2>1 DEF Holding
  <2>4. \A n \in Messages \ {m} : state'[n] = state[n]
    BY <2>1 DEF RInv, DInv, CInv, TInv, TypeOK
  <2>5. Verdict' = Verdict
    BY <2>2, <2>3, <2>4, NoVerdict, NoVerdictNext, VerdictStays, VerdictsStay
  <2>6. Running' = Running
    BY <2>1 DEF Running
  <2>7. QED
    BY <2>1, <2>2, <2>5, <2>6 DEF Contract!Deliver
<1>2. ASSUME NEW S, Die(S), Lose PROVE [Contract!Next]_(Contract!vars)
  BY <1>2, DyingIsLosing DEF Lose, Contract!Next
<1>3. QED
  BY <1>1, <1>2 DEF Broker, ConnectionLost, ChannelLost, Contract!Next

\* A delivery is executed once: its handler is a new one.
LEMMA TakeImplements ==
  ASSUME RInv, NEW m \in Messages, Take(m)
  PROVE  Contract!Begin(m) /\ IsFiniteSet(handlers')
<1> DEFINE s == Queue[m]
<1>1. PICK n \in (1 .. Concurrency) \ {x.slot : x \in InFlight(s)} :
        handlers' = handlers \cup
          {[msg |-> m, ch |-> current[s], slot |-> n, step |-> "work", fate |-> "acked"]}
  BY DEF Take, TakeSlot
<1> DEFINE y == [msg |-> m, ch |-> current[s], slot |-> n, step |-> "work", fate |-> "acked"]
<1>2. /\ UNCHANGED <<opened, state, reply>> /\ m \in buffer /\ buffer' = buffer \ {m}
  BY DEF Take, TakeSlot, subscription
<1>3. \A x \in handlers : Queue[x.msg] = s /\ x.ch = current[s] => x.slot # n
  BY <1>1 DEF InFlight
<1>4. /\ y.msg = m /\ y.ch = current[s] /\ y.slot = n /\ y.step = "work"
      /\ handlers' = handlers \cup {y}
  BY <1>1
<1> HIDE DEF y
<1>5. y \notin handlers
  BY <1>3, <1>4
<1>6. IsFiniteSet(handlers')
  BY <1>4, FS_AddElement DEF RInv
<1>7. /\ Executions(m)' = Executions(m) \cup {y} /\ y \notin Executions(m)
      /\ \A o \in Messages \ {m} : Executions(o)' = Executions(o)
  BY <1>4, <1>5 DEF Executions
<1>8. Running' = [Running EXCEPT ![m] = @ + 1]
  <2>1. Running'[m] = Running[m] + 1
    BY <1>6, <1>7, RunningIs, RunningIsNext, FS_AddElement DEF RInv
  <2>2. \A o \in Messages \ {m} : Running'[o] = Running[o]
    BY <1>6, <1>7, RunningIs, RunningIsNext DEF RInv
  <2>3. Running \in [Messages -> Nat] /\ Running' \in [Messages -> Nat]
    BY <1>6, RunningIs, RunningIsNext DEF RInv
  <2>4. QED
    BY <2>1, <2>2, <2>3
<1>9. ASSUME NEW o \in Messages PROVE Verdict'[o] = Verdict[o]
  <2>1. CASE o # m
    <3>1. Holding(o)' = Holding(o)
      BY <1>2, <1>4, <2>1 DEF Holding
    <3>2. QED
      BY <1>2, <3>1, VerdictStays
  <2>2. CASE o = m /\ state[m] # "unacked"
    BY <1>2, <2>2, NoVerdict, NoVerdictNext
  <2>3. CASE o = m /\ state[m] = "unacked"
    <3>1. Holding(m) = {}
      BY <1>2, <2>3 DEF RInv, DInv, Owned
    <3>2. \A x \in Holding(m)' : x = y
      BY <1>2, <1>4, <3>1 DEF Holding
    <3>3. Verdict'[m] = "none"
      BY <1>4, <3>2 DEF Verdict
    <3>4. QED
      BY <2>3, <3>1, <3>3, NoVerdict
  <2>4. QED
    BY <2>1, <2>2, <2>3
<1>10. QED
  BY <1>2, <1>6, <1>8, <1>9, VerdictsStay DEF Contract!Begin

\* A handler that goes on without a decision is none to the contract.
LEMMA GoingOnStays ==
  ASSUME RInv, NEW x \in handlers, NEW y, Same(x, y), Becomes(x, y),
         UNCHANGED <<state, opened>>, x.step \notin {"settle", "return"},
         y.step # "return",
         \/ y.step # "settle"
         \/ x \notin Holding(x.msg) \/ state[x.msg] # "unacked"
  PROVE  Verdict' = Verdict
<1> DEFINE n == x.msg
<1>1. TypeOK /\ n \in Messages
  BY DEF RInv, DInv, CInv, TInv, TypeOK, Handler
<1>2. ASSUME NEW m \in Messages PROVE Verdict'[m] = Verdict[m]
  <2>1. CASE x \notin Holding(m)
    BY <1>1, <2>1, HandlerKeepsHolding, VerdictStays
  <2>2. CASE state[m] # "unacked"
    BY <2>2, NoVerdict, NoVerdictNext
  <2>3. CASE x \in Holding(m) /\ state[m] = "unacked"
    <3>1. m = n
      BY <2>3 DEF Holding
    <3>2. Holding(m) = {x} /\ Verdict[m] = "none"
      BY <2>3, OneHolds DEF RInv
    <3>3. Holding(m)' = {y} /\ y.step # "settle"
      BY <1>1, <2>3, <3>1, <3>2, HandlerKeepsHolding
    <3>4. Verdict'[m] = "none"
      BY <3>3 DEF Verdict
    <3>5. QED
      BY <3>2, <3>4
  <2>4. QED
    BY <2>1, <2>2, <2>3
<1>3. QED
  BY <1>2, VerdictsStay

\* The handler that has the delivery decides.
LEMMA DecidingIs ==
  ASSUME RInv, NEW x \in handlers, NEW y, Same(x, y), Becomes(x, y),
         UNCHANGED <<state, opened>>, x.step \notin {"settle", "return"},
         y.step = "settle", x \in Holding(x.msg), state[x.msg] = "unacked"
  PROVE  /\ Contract!Executed(x.msg) /\ Verdict[x.msg] = "none"
         /\ Verdict' = [Verdict EXCEPT ![x.msg] = y.fate]
<1> DEFINE n == x.msg
<1>1. TypeOK /\ n \in Messages
  BY DEF RInv, DInv, CInv, TInv, TypeOK, Handler
<1>2. Holding(n) = {x} /\ n \notin buffer /\ Verdict[n] = "none"
  BY <1>1, OneHolds DEF RInv
<1>3. Contract!Executed(n)
  BY <1>2, SomeRun DEF Contract!Executed
<1>4. Holding(n)' = {y}
  BY <1>1, <1>2, HandlerKeepsHolding
<1>5. Verdict'[n] = y.fate
  BY <1>1, <1>4, Zenon DEF Verdict
<1>6. \A m \in Messages \ {n} : x \notin Holding(m)
  BY DEF Holding
<1>7. \A m \in Messages \ {n} : Verdict'[m] = Verdict[m]
  BY <1>1, <1>6, HandlerKeepsHolding, VerdictStays
<1>8. QED
  BY <1>1, <1>2, <1>3, <1>5, <1>7, VerdictExcept

\* A handler ends; the last one of a message leaves no delivery behind.
LEMMA ReturnImplements ==
  ASSUME RInv, NEW x \in handlers, Return(x)
  PROVE  Contract!End(x.msg) /\ IsFiniteSet(handlers')
<1> DEFINE n == x.msg
           E == Executions(n)
<1>1. /\ x.step = "return" /\ handlers' = handlers \ {x}
      /\ UNCHANGED <<state, buffer, reply, opened>>
  BY DEF Return, subscription
<1>2. n \in Messages /\ IsFiniteSet(handlers')
  BY <1>1, FS_RemoveElement DEF RInv, DInv, CInv, TInv, TypeOK, Handler
<1>3. Verdict' = Verdict
  <2>1. \A m \in Messages : Holding(m)' = Holding(m)
    BY <1>1 DEF Holding
  <2>2. QED
    BY <1>1, <2>1, VerdictStays, VerdictsStay
<1>4. /\ x \in E /\ E' = E \ {x}
      /\ \A m \in Messages \ {n} : Executions(m)' = Executions(m)
  BY <1>1 DEF Executions
<1>5. IsFiniteSet(E) /\ Running[n] = Cardinality(E) /\ Running'[n] = Cardinality(E')
  BY <1>2, RunningIs, RunningIsNext DEF RInv
<1>6. \A m \in Messages \ {n} : Running'[m] = Running[m]
  BY <1>2, <1>4, RunningIs, RunningIsNext DEF RInv
<1>7. Running \in [Messages -> Nat] /\ Running' \in [Messages -> Nat]
  BY <1>2, RunningIs, RunningIsNext DEF RInv
<1>8. Cardinality(E \ {x}) = Cardinality(E) - 1 /\ IsFiniteSet(E \ {x})
  BY <1>4, <1>5, FS_RemoveElement
<1>9. Running' = [Running EXCEPT ![n] = @ - 1]
  BY <1>2, <1>4, <1>5, <1>6, <1>7, <1>8
<1>10. Contract!Executed(n) => Cardinality(E \ {x}) # 0
  <2> SUFFICES ASSUME Contract!Executed(n) PROVE E \ {x} # {}
    BY <1>8, FS_EmptySet
  <2>1. state[n] = "unacked" /\ n \notin buffer
    BY DEF Contract!Executed
  <2>2. PICK z \in Holding(n) : TRUE
    BY <1>2, <2>1 DEF RInv, DInv, Owned
  <2>3. z \in E /\ z # x
    BY <1>1, <2>2 DEF Holding, Executions
  <2>4. QED
    BY <2>3
<1>11. Running[n] > 0
  BY SomeRun
<1>12. Running[n] > (IF Contract!Executed(n) THEN 1 ELSE 0)
  BY <1>2, <1>5, <1>7, <1>8, <1>10, <1>11
<1>13. QED
  BY <1>1, <1>2, <1>3, <1>9, <1>12 DEF Contract!End

\* The handler of the open channel settles what it has; another one, nothing.
LEMMA SettleImplements ==
  ASSUME RInv, NEW x \in handlers, Settle(x)
  PROVE  /\ Contract!Settle(x.msg) \/ UNCHANGED Contract!vars
         /\ IsFiniteSet(handlers')
<1> DEFINE n == x.msg
           s == Queue[n]
           y == [x EXCEPT !.step = "return", !.fate = "acked"]
<1>1. TypeOK /\ x \in Handler /\ n \in Messages /\ x.fate \in {"acked", "ready", "dropped"}
  BY DEF RInv, DInv, CInv, TInv, TypeOK, Handler
<1>2. y.step = "return" /\ Same(x, y)
  BY <1>1 DEF Same, Handler
<1>3. /\ UNCHANGED <<opened, buffer, reply>> /\ x.step = "settle" /\ Becomes(x, y)
      /\ state' = IF live[s] /\ x.ch = opened[s] THEN [state EXCEPT ![n] = x.fate] ELSE state
  BY DEF Settle, subscription
<1> HIDE DEF y
<1>4. IsFiniteSet(handlers') /\ Running' = Running
  BY <1>2, <1>3, GoingOnCounts
<1>5. \A m \in Messages : Holding(m)' = Holding(m) \ {x}
  BY <1>2, <1>3 DEF Holding, Becomes
<1>6. \A m \in Messages \ {n} : x \notin Holding(m) /\ state'[m] = state[m]
  BY <1>1, <1>3 DEF Holding, TypeOK
<1>7. \A m \in Messages \ {n} : Verdict'[m] = Verdict[m]
  <2>1. \A m \in Messages \ {n} : Holding(m)' = Holding(m)
    BY <1>5, <1>6
  <2>2. QED
    BY <1>6, <2>1, VerdictStays
<1>8. CASE live[s] /\ x.ch = opened[s]
  <2>1. x \in Holding(n)
    BY <1>3, <1>8 DEF Holding
  <2>2. state[n] = "unacked"
    BY <1>1, <1>8, <2>1 DEF RInv, DInv, Owned
  <2>3. Holding(n) = {x} /\ n \notin buffer /\ Verdict[n] = x.fate
    BY <1>1, <1>3, <2>1, <2>2, OneHolds DEF RInv
  <2>4. Contract!Executed(n)
    BY <2>2, <2>3, SomeRun DEF Contract!Executed
  <2>5. Holding(n)' = {}
    BY <1>1, <1>5, <2>3
  <2>6. Verdict'[n] = "none"
    BY <1>1, <2>5, NoVerdictNext
  <2>7. Verdict' = [Verdict EXCEPT ![n] = "none"]
    BY <1>1, <1>7, <2>6, VerdictExcept
  <2>8. state' = [state EXCEPT ![n] = Verdict[n]]
    BY <1>3, <1>8, <2>3
  <2>9. QED
    BY <1>1, <1>3, <1>4, <2>3, <2>4, <2>7, <2>8 DEF Contract!Settle
<1>9. CASE ~(live[s] /\ x.ch = opened[s])
  <2>1. state' = state
    BY <1>3, <1>9
  <2>2. Verdict'[n] = Verdict[n]
    <3>1. CASE ~live[s]
      <4>1. state[n] # "unacked"
        BY <1>1, <3>1 DEF RInv, DInv, Owned
      <4>2. QED
        BY <1>1, <2>1, <4>1, NoVerdict, NoVerdictNext
    <3>2. CASE x.ch # opened[s]
      <4>1. Holding(n)' = Holding(n)
        BY <1>1, <1>5, <3>2 DEF Holding
      <4>2. QED
        BY <1>1, <2>1, <4>1, VerdictStays
    <3>3. QED
      BY <1>9, <3>1, <3>2
  <2>3. Verdict' = Verdict
    BY <1>7, <2>2, VerdictsStay
  <2>4. QED
    BY <1>3, <1>4, <2>1, <2>3 DEF Contract!vars
<1>10. QED
  BY <1>8, <1>9

\* A handler answers, or cannot: it decides if it still has the delivery.
LEMMA ReplyImplements ==
  ASSUME RInv, NEW x \in handlers, Replied(x) \/ NotReplied(x)
  PROVE  [Contract!Next]_(Contract!vars) /\ IsFiniteSet(handlers')
<1> DEFINE n == x.msg
<1>1. TypeOK /\ x \in Handler /\ n \in Messages
  BY DEF RInv, DInv, CInv, TInv, TypeOK, Handler
<1>2. x.step = "reply" /\ UNCHANGED <<state, opened, buffer>>
      /\ reply \in [Messages -> {"none", "wanted", "sent"}]
  <2>1. x.step = "reply" /\ UNCHANGED <<state, opened, buffer>>
    BY DEF Replied, NotReplied, subscription
  <2>2. QED
    BY <1>1, <2>1 DEF TypeOK
<1>3. PICK y : /\ Same(x, y) /\ Becomes(x, y) /\ y.step = "settle"
               /\ y.fate \in {"acked", "ready", "dropped"}
               /\ \/ Replied(x)
                  \/ y.fate # "acked" /\ reply' = reply
  <2>1. CASE Replied(x)
    <3> DEFINE y == [x EXCEPT !.step = "settle"]
    <3>1. Same(x, y) /\ y.step = "settle" /\ y.fate \in {"acked", "ready", "dropped"}
      BY <1>1 DEF Same, Handler
    <3>2. Becomes(x, y)
      BY <2>1 DEF Replied
    <3>3. QED
      BY <2>1, <3>1, <3>2
  <2>2. CASE NotReplied(x)
    <3> DEFINE y == [x EXCEPT !.step = "settle", !.fate = IF @ = "acked" THEN "ready" ELSE @]
    <3>1. Same(x, y) /\ y.step = "settle" /\ y.fate \in {"ready", "dropped"}
      BY <1>1 DEF Same, Handler
    <3>2. Becomes(x, y) /\ reply' = reply
      BY <2>2 DEF NotReplied
    <3>3. QED
      BY <3>1, <3>2
  <2>3. QED
    BY <2>1, <2>2
<1>4. IsFiniteSet(handlers') /\ Running' = Running
  BY <1>3, GoingOnCounts
<1>5. Replied(x) => /\ reply' = [reply EXCEPT ![n] = "sent"] /\ reply'[n] = "sent"
                    /\ reply[n] # "none"
  BY <1>1, <1>2 DEF Replied, CanReply
<1>6. Replied(x) => Contract!Answer(n)
  BY <1>5, SomeRun DEF Contract!Answer
<1>7. CASE x \in Holding(n) /\ state[n] = "unacked"
  <2>1. /\ Contract!Executed(n) /\ Verdict[n] = "none"
        /\ Verdict' = [Verdict EXCEPT ![n] = y.fate]
    BY <1>2, <1>3, <1>7, DecidingIs
  <2>2. y.fate = "acked" => reply'[n] = "sent"
    BY <1>3, <1>5
  <2>3. Contract!Answer(n) \/ reply' = reply
    BY <1>3, <1>6
  <2>4. Contract!Conclude(n, y.fate)
    BY <1>2, <1>4, <2>1, <2>2, <2>3 DEF Contract!Conclude
  <2>5. QED
    BY <1>1, <1>3, <1>4, <2>4 DEF Contract!Next
<1>8. CASE ~(x \in Holding(n) /\ state[n] = "unacked")
  <2>1. Verdict' = Verdict
    BY <1>2, <1>3, <1>8, GoingOnStays
  <2>2. CASE Replied(x)
    BY <1>1, <1>2, <1>4, <1>6, <2>1, <2>2 DEF Contract!AnswerLate, Contract!Next
  <2>3. CASE reply' = reply
    BY <1>2, <1>4, <2>1, <2>3 DEF Contract!vars
  <2>4. QED
    BY <1>3, <1>4, <2>2, <2>3
<1>9. QED
  BY <1>7, <1>8

\* Steps of a handler.
LEMMA HandleImplements ==
  ASSUME RInv, NEW x \in handlers, Handle(x)
  PROVE  [Contract!Next]_(Contract!vars) /\ IsFiniteSet(handlers')
<1>1. x \in Handler /\ x.msg \in Messages
  BY DEF RInv, DInv, CInv, TInv, TypeOK, Handler
<1>2. CASE Work(x)
  <2>1. PICK f \in {"acked", "dropped"} : Becomes(x, [x EXCEPT !.step = "reply", !.fate = f])
    BY <1>2 DEF Work
  <2> DEFINE y == [x EXCEPT !.step = "reply", !.fate = f]
  <2>2. Same(x, y) /\ y.step = "reply" /\ Becomes(x, y)
    BY <1>1, <2>1 DEF Same, Handler
  <2> HIDE DEF y
  <2>3. x.step = "work" /\ UNCHANGED <<state, opened, buffer, reply>>
    BY <1>2 DEF Work, subscription
  <2>4. IsFiniteSet(handlers') /\ Running' = Running /\ Verdict' = Verdict
    BY <2>2, <2>3, GoingOnCounts, GoingOnStays
  <2>5. QED
    BY <2>3, <2>4 DEF Contract!vars
<1>3. CASE Replied(x) \/ NotReplied(x)
  BY <1>3, ReplyImplements
<1>4. CASE Settle(x)
  BY <1>1, <1>4, SettleImplements DEF Contract!Next
<1>5. CASE Return(x)
  BY <1>1, <1>5, ReturnImplements DEF Contract!Next
<1>6. QED
  BY <1>2, <1>3, <1>4, <1>5 DEF Handle

\* Initially nothing is delivered.
LEMMA InitImplements == Init => RInv /\ Contract!Init
<1> SUFFICES ASSUME Init PROVE RInv /\ Contract!Init
  OBVIOUS
<1>1. handlers = {} /\ state = [m \in Messages |-> "ready"] /\ buffer = {}
      /\ reply \in [Messages -> {"none", "wanted"}]
  BY DEF Init
<1>2. IsFiniteSet(handlers) /\ Answered
  BY <1>1, FS_EmptySet DEF Answered, SettledIsEarned
<1>3. RInv
  BY <1>2, InitDInv DEF RInv
<1>4. Running = [m \in Messages |-> 0]
  <2>1. \A m \in Messages : {x \in handlers : x.msg = m} = {}
    BY <1>1
  <2>2. QED
    BY <2>1, FS_EmptySet DEF Running
<1>5. Verdict = [m \in Messages |-> "none"]
  BY <1>1 DEF Verdict
<1>6. QED
  BY <1>1, <1>3, <1>4, <1>5 DEF Contract!Init

\* Every step is one of the contract, or none; the handlers stay finitely many.
LEMMA NextImplements ==
  RInv /\ [Next]_vars => [Contract!Next]_(Contract!vars) /\ IsFiniteSet(handlers')
<1> SUFFICES ASSUME RInv, [Next]_vars
             PROVE  [Contract!Next]_(Contract!vars) /\ IsFiniteSet(handlers')
  OBVIOUS
<1>1. CASE \E m \in Messages : Take(m)
  BY <1>1, TakeImplements DEF Contract!Next
<1>2. CASE \E x \in handlers : Handle(x)
  BY <1>2, HandleImplements
<1>3. CASE (\E s \in Subs : Loop(s)) \/ Watch \/ Run \/ Broker
  <2>1. handlers' \subseteq handlers
    BY <1>3, OthersStartNone DEF RInv, DInv, CInv
  <2>2. IsFiniteSet(handlers')
    BY <2>1, FS_Subset DEF RInv
  <2>3. QED
    BY <1>3, <2>2, LoopImplements, WatchImplements, RunImplements, BrokerImplements
<1>4. CASE UNCHANGED vars
  BY <1>4, QuietStutters DEF vars, subscription, delivery, RInv
<1>5. QED
  BY <1>1, <1>2, <1>3, <1>4 DEF Next, Quiescent

\* For any subscriptions, messages, concurrency and losses, the consumer is one
\* queue of deliveries, each executed once at most and settled by its execution.
THEOREM Implementation == Spec => ImplementsDelivery
<1>1. RInv /\ [Next]_vars => RInv'
  BY NextImplements, NextDInv, NextAnswered DEF RInv, DInv, CInv
<1>2. QED
  BY <1>1, InitImplements, NextImplements, PTL DEF Spec, ImplementsDelivery, Contract!Spec
===============================================================================
