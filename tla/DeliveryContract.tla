--------------------------- MODULE DeliveryContract ---------------------------
(***************************************************************************)
(* What the consumer makes of a queue, whatever is lost: execution at      *)
(* least once.  A message is delivered, a delivery is executed once at     *)
(* most, and only the execution that has it settles it, acknowledging what *)
(* was answered.  A delivery that is lost goes back to the queue at any    *)
(* moment; its execution goes on, may still answer, and settles nothing.   *)
(***************************************************************************)
EXTENDS Naturals

CONSTANT Messages

VARIABLES
  place,   \* where a message is, to the broker
  pending, \* delivered, not yet executed
  running, \* number of executions of a message that go on
  verdict, \* what the execution that has the delivery will say to the broker
  reply    \* the reply of a message: not asked for, wanted, or sent

vars == <<place, pending, running, verdict, reply>>

Init ==
  /\ place = [m \in Messages |-> "ready"]
  /\ pending = {}
  /\ running = [m \in Messages |-> 0]
  /\ verdict = [m \in Messages |-> "none"]
  /\ reply \in [Messages -> {"none", "wanted"}]

Deliver(m) ==
  /\ place[m] = "ready" /\ m \notin pending
  /\ place' = [place EXCEPT ![m] = "unacked"]
  /\ pending' = pending \cup {m}
  /\ UNCHANGED <<running, verdict, reply>>

Begin(m) ==
  /\ m \in pending
  /\ pending' = pending \ {m}
  /\ running' = [running EXCEPT ![m] = @ + 1]
  /\ UNCHANGED <<place, verdict, reply>>

\* The delivery is still out, and an execution has it.
Executed(m) == place[m] = "unacked" /\ m \notin pending /\ running[m] > 0

Answer(m) ==
  /\ running[m] > 0 /\ reply[m] # "none"
  /\ reply' = [reply EXCEPT ![m] = "sent"]

\* An execution that may have lost its delivery answers.
AnswerLate(m) == Answer(m) /\ UNCHANGED <<place, pending, running, verdict>>

\* The one that has the delivery decides, and may answer with that.
Conclude(m, v) ==
  /\ Executed(m) /\ verdict[m] = "none"
  /\ Answer(m) \/ UNCHANGED reply
  /\ v = "acked" => reply'[m] = "sent"
  /\ verdict' = [verdict EXCEPT ![m] = v]
  /\ UNCHANGED <<place, pending, running>>

Settle(m) ==
  /\ Executed(m) /\ verdict[m] # "none"
  /\ place' = [place EXCEPT ![m] = verdict[m]]
  /\ verdict' = [verdict EXCEPT ![m] = "none"]
  /\ UNCHANGED <<pending, running, reply>>

\* The last execution of a message leaves no delivery unsettled.
End(m) ==
  /\ running[m] > (IF Executed(m) THEN 1 ELSE 0)
  /\ running' = [running EXCEPT ![m] = @ - 1]
  /\ UNCHANGED <<place, pending, verdict, reply>>

\* The broker takes the deliveries of M back.
TakeBack(M) ==
  /\ place' = [m \in Messages |->
                 IF m \in M /\ place[m] = "unacked" THEN "ready" ELSE place[m]]
  /\ verdict' = [m \in Messages |-> IF m \in M THEN "none" ELSE verdict[m]]

Lose(M) == TakeBack(M) /\ UNCHANGED <<pending, running, reply>>

\* Deliveries that were lost before they were executed are not executed.
Forget(M) ==
  /\ \A m \in M : place[m] # "unacked"
  /\ pending' = pending \ M
  /\ UNCHANGED <<place, running, verdict, reply>>

\* The process is gone.
Stop ==
  /\ TakeBack(Messages)
  /\ pending' = {}
  /\ running' = [m \in Messages |-> 0]
  /\ UNCHANGED reply

Next ==
  \/ \E m \in Messages : Deliver(m) \/ Begin(m) \/ AnswerLate(m) \/ Settle(m) \/ End(m)
  \/ \E m \in Messages, v \in {"acked", "ready", "dropped"} : Conclude(m, v)
  \/ \E M \in SUBSET Messages : Lose(M) \/ Forget(M)
  \/ Stop

Spec == Init /\ [][Next]_vars
===============================================================================
