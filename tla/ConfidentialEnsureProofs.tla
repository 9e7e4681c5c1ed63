----------------------- MODULE ConfidentialEnsureProofs -----------------------
(***************************************************************************)
(* Theorems about ConfidentialEnsure for every set of runs, requests, keys *)
(* and URLs and every value of the bounds.                                 *)
(*                                                                         *)
(* The inductive invariant says, at each step of a run, what the run has   *)
(* already established: which of its guards held, how far its PUT is, and  *)
(* whether it has concluded.  The second half is about what the handlers   *)
(* guarantee to their surroundings: to the core, which receives events; to *)
(* the broker, whose deliveries must be settled; to the receiver key,      *)
(* which must be the current one; and that they keep the contract of       *)
(* SetterContract.                                                         *)
(***************************************************************************)
EXTENDS ConfidentialEnsure, TLAPS

\* Steps before the run has put anything on the wire.
BeforePut == {"idle", "list", "check", "oauth", "put_v2"}

\* Steps of a run that has not concluded.
Deciding == BeforePut \cup {"put_v3", "wait", "read", "verify"}

\* A run is idle exactly while it serves nothing.
IdleServesNothing ==
  \A h \in Runs : pc[h] = "idle" <=> req[h] = NoRequest

\* From its guard to its PUT a run stands on a LIST that admits the PUT.
GuardStands ==
  \A h \in Runs :
    pc[h] \in {"oauth", "put_v2", "put_v3", "wait"} => Ensures(h) /\ GuardAdmits(h)

\* How far the PUT is at each step.
PutFollowsPc ==
  \A h \in Runs :
    /\ pc[h] \in BeforePut => wire[h] = NoPut
    /\ pc[h] = "put_v3" => wire[h].state = "notfound" /\ wire[h].endpoint = "v2"
    /\ pc[h] = "wait" => wire[h].state # "none"
    /\ pc[h] \in {"read", "verify"} /\ Ensures(h) => wire[h].state = "accepted"

\* A verdict is given once, and only "held" and "confirmed" have an event.
VerdictFollowsPc ==
  \A h \in Runs :
    /\ pc[h] \in Deciding => verdict[h] = "none"
    /\ pc[h] = "emit" => verdict[h] \in {"held", "confirmed"}

\* A request that passed PrepareConfidential has a public identity of its own.
IdentityIsOpaque ==
  \A h \in Runs :
    pc[h] \in Deciding \ {"idle"} \/ wire[h].state # "none" =>
      AuditResourceID[req[h]] # Key[req[h]]

IInv ==
  /\ TypeOK
  /\ IdleServesNothing
  /\ GuardStands
  /\ PutFollowsPc
  /\ VerdictFollowsPc
  /\ IdentityIsOpaque
  /\ EveryPutWasProved
  /\ VerdictsAreEarned
------------------------------------------------------------------------------
(* The invariant is inductive *)

\* What a run proved stays proved as long as it keeps its request and its LIST.
LEMMA GuardFrame ==
  \A g \in Runs : guard'[g] = guard[g] /\ req'[g] = req[g] =>
    /\ Ensures(g)' <=> Ensures(g)
    /\ GuardAdmits(g)' <=> GuardAdmits(g)
  BY DEF Ensures, GuardAdmits, ListProof, Rows

\* What the provider shows is a registration, or none, for every key.
LEMMA ShownIsTyped ==
  ASSUME TypeOK, NEW r
  PROVE  Shown(r) \in [Keys -> Registration]
  BY DEF TypeOK, Shown, Registration

\* Initially no run serves anything.
LEMMA InitIInv == Init => IInv
  BY ConstantsAssumption
  DEF Init, IInv, TypeOK, IdleServesNothing, GuardStands, PutFollowsPc, VerdictFollowsPc,
      IdentityIsOpaque, EveryPutWasProved, VerdictsAreEarned, Deciding, BeforePut,
      PcValues, Verdicts, NoPut, PutRecord, EventRecord, Registration

\* Taking up a delivery keeps the invariant, whether the request is refused or not.
LEMMA DeliverKeepsIInv ==
  ASSUME IInv, NEW h \in Runs, NEW r \in Requests, PrepareAccepted(h, r) \/ PrepareRefused(h, r)
  PROVE  IInv'
<1> USE ConstantsAssumption, GuardFrame
    DEF IInv, TypeOK, IdleServesNothing, GuardStands, PutFollowsPc, VerdictFollowsPc,
        IdentityIsOpaque, EveryPutWasProved, VerdictsAreEarned, Deciding, BeforePut,
        PcValues, Verdicts, NoPut, vars, world, provider, broker, control, data, Goto, Conclude
<1>1. CASE PrepareAccepted(h, r)
  BY <1>1 DEF PrepareAccepted, PrepareConfidential, Deliver, Ensures
<1>2. CASE PrepareRefused(h, r)
  BY <1>2 DEF PrepareRefused, Deliver
<1>3. QED
  BY <1>1, <1>2

\* Every step of a handler keeps the invariant.
LEMMA StepKeepsIInv == ASSUME IInv, NEW h \in Runs, Step(h) PROVE IInv'
<1> USE ConstantsAssumption, GuardFrame
    DEF IInv, TypeOK, IdleServesNothing, GuardStands, PutFollowsPc, VerdictFollowsPc,
        IdentityIsOpaque, EveryPutWasProved, VerdictsAreEarned, Deciding, BeforePut,
        PcValues, Verdicts, NoPut, vars, world, provider, broker, control, data, Goto, Conclude
<1>1. CASE ReplyDelivered(h)
  BY <1>1 DEF ReplyDelivered
<1>2. CASE ReplyLost(h)
  BY <1>2 DEF ReplyLost, Settle
<1>3. CASE Ack(h)
  BY <1>3 DEF Ack, Settle
<1>4. CASE ListAnswered(h)
  BY <1>4, ShownIsTyped DEF ListAnswered
<1>5. CASE ListFailed(h)
  BY <1>5 DEF ListFailed
<1>6. CASE GuardAccepted(h)
  BY <1>6 DEF GuardAccepted
<1>7. CASE GuardRefused(h)
  BY <1>7 DEF GuardRefused
<1>8. CASE ListObserved(h)
  BY <1>8 DEF ListObserved
<1>9. CASE Authenticated(h)
  BY <1>9 DEF Authenticated
<1>10. CASE AuthenticationFailed(h)
  BY <1>10 DEF AuthenticationFailed
<1>11. CASE PutAcknowledged(h)
  BY <1>11 DEF PutAcknowledged
<1>12. CASE PutUnreadable(h)
  BY <1>12 DEF PutUnreadable
<1>13. CASE PutNotFound(h)
  BY <1>13 DEF PutNotFound
<1>14. CASE PutFailed(h)
  BY <1>14 DEF PutFailed
<1>15. CASE ReadAnswered(h)
  BY <1>15, ShownIsTyped DEF ReadAnswered
<1>16. CASE ReadFailed(h)
  BY <1>16 DEF ReadFailed, Unproved
<1>17. CASE Verified(h)
  BY <1>17 DEF Verified, SingleProof
<1>18. CASE NotVerified(h)
  BY <1>18 DEF NotVerified, Unproved
<1>19. CASE EventDelivered(h)
  BY <1>19 DEF EventDelivered, Event, EventRecord
<1>20. CASE EventLost(h)
  BY <1>20 DEF EventLost
<1>21. ASSUME NEW endpoint \in {"v2", "v3"}, SendPut(h, endpoint) PROVE IInv'
  BY <1>21 DEF SendPut, PutStep, MutationAllowed, ValidateTime, PutRecord
<1>22. ASSUME NEW endpoint \in {"v2", "v3"}, RefusePut(h, endpoint) PROVE IInv'
  BY <1>22 DEF RefusePut, PutStep
<1> HIDE ConstantsAssumption, GuardFrame
    DEF IInv, TypeOK, vars, world, provider, broker, control, data, Goto, Conclude
<1>23. QED
  BY <1>1, <1>2, <1>3, <1>4, <1>5, <1>6, <1>7, <1>8, <1>9, <1>10, <1>11, <1>12,
     <1>13, <1>14, <1>15, <1>16, <1>17, <1>18, <1>19, <1>20, <1>21, <1>22
  DEF Step, ReplyStep, ListStep, SendStep, WaitStep, ReadStep, EventStep

\* An answered PUT is a PUT of the same endpoint and time.
LEMMA AnsweredPut ==
  ASSUME wire \in [Runs -> PutRecord], NEW h \in Runs,
         NEW state \in {"accepted", "notfound", "refused"}, wire' = [wire EXCEPT ![h].state = state]
  PROVE  /\ wire' \in [Runs -> PutRecord]
         /\ wire'[h].state = state
         /\ wire'[h].endpoint = wire[h].endpoint /\ wire'[h].sentAt = wire[h].sentAt
         /\ \A g \in Runs \ {h} : wire'[g] = wire[g]
  BY DEF PutRecord

\* So does everything the handlers do not control.
LEMMA EnvironmentKeepsIInv == ASSUME IInv, Environment PROVE IInv'
<1> USE ConstantsAssumption, GuardFrame
    DEF IInv, TypeOK, IdleServesNothing, GuardStands, PutFollowsPc, VerdictFollowsPc,
        IdentityIsOpaque, EveryPutWasProved, VerdictsAreEarned, Deciding, BeforePut,
        PcValues, Verdicts, NoPut, vars, world, provider, broker, control, data, Goto, Conclude
<1>1. ASSUME NEW h \in Runs, ProviderAccepts(h) PROVE IInv'
  <2>1. req[h] \in Requests /\ Key[req[h]] \in Keys /\ CanonicalBase[req[h]] \in Urls
    BY <1>1 DEF ProviderAccepts
  <2>2. regs' \in [Keys -> Registration]
    BY <1>1, <2>1 DEF ProviderAccepts, Write, Registration
  <2>3. wire' \in [Runs -> PutRecord]
    BY <1>1, AnsweredPut DEF ProviderAccepts
  <2>4. \A g \in Runs \ {h} : wire'[g] = wire[g]
    BY <1>1 DEF ProviderAccepts
  <2>5. wire[h].state = "sent" /\ wire'[h].state = "accepted"
        /\ wire'[h].sentAt = wire[h].sentAt /\ pc[h] \notin BeforePut /\ pc[h] # "put_v3"
    BY <1>1, <2>4 DEF ProviderAccepts, PutRecord
  <2>6. TypeOK'
    BY <1>1, <2>1, <2>2, <2>3, <2>4, <2>5 DEF ProviderAccepts, Write
  <2>7. QED
    BY <1>1, <2>4, <2>5, <2>6 DEF ProviderAccepts
<1>2. ASSUME NEW h \in Runs, NEW state \in {"notfound", "refused"}, ProviderRejects(h, state)
      PROVE  IInv'
  <2>1. /\ wire' \in [Runs -> PutRecord] /\ wire'[h].state = state
        /\ wire'[h].endpoint = wire[h].endpoint /\ wire'[h].sentAt = wire[h].sentAt
        /\ \A g \in Runs \ {h} : wire'[g] = wire[g]
    BY <1>2, AnsweredPut DEF ProviderRejects
  <2>2. wire[h].state = "sent" /\ pc[h] \notin BeforePut /\ pc[h] # "put_v3"
    BY <1>2 DEF ProviderRejects
  <2>3. QED
    BY <1>2, <2>1, <2>2 DEF ProviderRejects
<1>3. ASSUME NEW h \in Runs, HandlerTimeout(h) PROVE IInv'
  BY <1>3 DEF HandlerTimeout
<1>4. ASSUME NEW k \in Keys, NEW registration \in Registration, ForeignWrite(k, registration)
      PROVE  IInv'
  BY <1>4 DEF ForeignWrite, Write
<1>5. ASSUME NEW r \in Requests, Post(r) PROVE IInv'
  BY <1>5 DEF Post
<1>6. CASE Tick
  BY <1>6 DEF Tick
<1>7. CASE ConnectionLost
  BY <1>7 DEF ConnectionLost, Requeued
<1>8. CASE Restart
  BY <1>8 DEF Restart, Requeued, Live
<1> HIDE ConstantsAssumption, GuardFrame
    DEF IInv, TypeOK, vars, world, provider, broker, control, data, Goto, Conclude
<1>9. QED
  BY <1>1, <1>2, <1>3, <1>4, <1>5, <1>6, <1>7, <1>8 DEF Environment

\* Every step keeps the invariant: of a run, of a delivery, of its surroundings.
LEMMA NextKeepsIInv == IInv /\ [Next]_vars => IInv'
<1> SUFFICES ASSUME IInv, [Next]_vars PROVE IInv'
  OBVIOUS
<1>1. CASE UNCHANGED vars
  BY <1>1, GuardFrame
  DEF IInv, TypeOK, IdleServesNothing, GuardStands, PutFollowsPc, VerdictFollowsPc,
      IdentityIsOpaque, EveryPutWasProved, VerdictsAreEarned, vars, world, provider, broker,
      control, data
<1>2. CASE Next
  BY <1>1, <1>2, DeliverKeepsIInv, StepKeepsIInv, EnvironmentKeepsIInv DEF Next, Quiescent
<1>3. QED
  BY <1>1, <1>2

\* The inductive invariant holds throughout.
THEOREM Invariance == Spec => []IInv
  BY InitIInv, NextKeepsIInv, PTL DEF Spec

\* Type correctness of the handlers, the broker and the provider.
THEOREM TypeCorrect == Spec => []TypeOK
  BY Invariance, PTL DEF IInv

\* No PUT leaves the adapter without this run's own proof and a valid authorization.
THEOREM PutsAreProved == Spec => []EveryPutWasProved
  BY Invariance, PTL DEF IInv

\* "held" and "confirmed" are never invented.
THEOREM VerdictsEarned == Spec => []VerdictsAreEarned
  BY Invariance, PTL DEF IInv
------------------------------------------------------------------------------
(* Consequences of single steps *)

\* A run that holds or confirms keeps its request, its LIST, its answer and its
\* accepted PUT: nothing later can take back what an event was published for.
LEMMA EarnedIsKept ==
  ASSUME IInv, [Next]_vars, NEW g \in Runs, verdict[g] \in {"held", "confirmed"}
  PROVE  /\ verdict'[g] = verdict[g] /\ req'[g] = req[g] /\ guard'[g] = guard[g]
         /\ wire'[g].state = "accepted"
<1> DEFINE Kept == /\ verdict'[g] = verdict[g] /\ req'[g] = req[g] /\ guard'[g] = guard[g]
                   /\ wire'[g].state = "accepted"
<1> SUFFICES Kept
  OBVIOUS
<1> USE DEF IInv, TypeOK, IdleServesNothing, VerdictFollowsPc, VerdictsAreEarned, PutFollowsPc,
            Deciding, BeforePut, NoPut, PutRecord, vars, world, provider, broker, control, data,
            Goto, Conclude
<1>1. CASE UNCHANGED vars
  BY <1>1
<1>2. ASSUME NEW h \in Runs, NEW r \in Requests, PrepareAccepted(h, r) \/ PrepareRefused(h, r)
      PROVE  Kept
  BY <1>2 DEF PrepareAccepted, PrepareRefused, Deliver
<1>3. ASSUME NEW h \in Runs, Step(h) PROVE Kept
  <2>1. CASE ReplyDelivered(h)
    BY <2>1 DEF ReplyDelivered
  <2>2. CASE ReplyLost(h)
    BY <2>2 DEF ReplyLost
  <2>3. CASE Ack(h)
    BY <2>3 DEF Ack
  <2>4. CASE ListAnswered(h)
    BY <2>4 DEF ListAnswered
  <2>5. CASE ListFailed(h)
    BY <2>5 DEF ListFailed
  <2>6. CASE GuardAccepted(h)
    BY <2>6 DEF GuardAccepted
  <2>7. CASE GuardRefused(h)
    BY <2>7 DEF GuardRefused
  <2>8. CASE ListObserved(h)
    BY <2>8 DEF ListObserved
  <2>9. CASE Authenticated(h)
    BY <2>9 DEF Authenticated
  <2>10. CASE AuthenticationFailed(h)
    BY <2>10 DEF AuthenticationFailed
  <2>11. CASE PutAcknowledged(h)
    BY <2>11 DEF PutAcknowledged
  <2>12. CASE PutUnreadable(h)
    BY <2>12 DEF PutUnreadable
  <2>13. CASE PutNotFound(h)
    BY <2>13 DEF PutNotFound
  <2>14. CASE PutFailed(h)
    BY <2>14 DEF PutFailed
  <2>15. CASE ReadAnswered(h)
    BY <2>15 DEF ReadAnswered
  <2>16. CASE ReadFailed(h)
    BY <2>16 DEF ReadFailed, Unproved
  <2>17. CASE Verified(h)
    BY <2>17 DEF Verified
  <2>18. CASE NotVerified(h)
    BY <2>18 DEF NotVerified, Unproved
  <2>19. CASE EventDelivered(h)
    BY <2>19 DEF EventDelivered
  <2>20. CASE EventLost(h)
    BY <2>20 DEF EventLost
  <2>21. ASSUME NEW endpoint \in {"v2", "v3"}, SendPut(h, endpoint) PROVE Kept
    <3>1. g # h
      BY <2>21 DEF SendPut, PutStep
    <3>2. QED
      BY <2>21, <3>1 DEF SendPut
  <2>22. ASSUME NEW endpoint \in {"v2", "v3"}, RefusePut(h, endpoint) PROVE Kept
    BY <2>22 DEF RefusePut, PutStep
  <2>23. QED
    BY <1>3, <2>1, <2>2, <2>3, <2>4, <2>5, <2>6, <2>7, <2>8, <2>9, <2>10, <2>11, <2>12,
       <2>13, <2>14, <2>15, <2>16, <2>17, <2>18, <2>19, <2>20, <2>21, <2>22
    DEF Step, ReplyStep, ListStep, SendStep, WaitStep, ReadStep, EventStep
<1>4. CASE Environment
  <2>1. ASSUME NEW h \in Runs, HandlerTimeout(h) PROVE Kept
    BY <2>1 DEF HandlerTimeout
  <2>2. ASSUME NEW h \in Runs, ProviderAccepts(h) PROVE Kept
    BY <2>2 DEF ProviderAccepts
  <2>3. ASSUME NEW h \in Runs, NEW state \in {"notfound", "refused"}, ProviderRejects(h, state)
        PROVE  Kept
    BY <2>3 DEF ProviderRejects
  <2>4. QED
    BY <1>4, <2>1, <2>2, <2>3 DEF Environment, ForeignWrite, Post, Tick, ConnectionLost, Restart
<1>5. QED
  BY <1>1, <1>2, <1>3, <1>4 DEF Next, Quiescent

\* Only SendPut puts a PUT on the wire.
LEMMA OnlySendPutSends ==
  ASSUME IInv, [Next]_vars, NEW h \in Runs, Sends(h)
  PROVE  \E endpoint \in {"v2", "v3"} : SendPut(h, endpoint)
<1> USE DEF IInv, TypeOK, IdleServesNothing, NoPut, PutRecord, vars, world, provider, broker,
            control, data, Sends
<1>1. ASSUME NEW g \in Runs, Step(g) PROVE \E endpoint \in {"v2", "v3"} : SendPut(h, endpoint)
  BY <1>1
  DEF Step, ReplyStep, ListStep, SendStep, WaitStep, ReadStep, EventStep, SendPut, RefusePut,
      ReplyDelivered, ReplyLost, Ack, ListAnswered,
      ListFailed, GuardAccepted, GuardRefused, ListObserved, Authenticated, AuthenticationFailed,
      PutAcknowledged, PutUnreadable, PutNotFound, PutFailed, ReadAnswered, ReadFailed, Verified,
      NotVerified, EventDelivered, EventLost
<1>2. ASSUME NEW g \in Runs, NEW r \in Requests, PrepareAccepted(g, r) \/ PrepareRefused(g, r)
      PROVE  FALSE
  BY <1>2 DEF PrepareAccepted, PrepareRefused, Deliver
<1>3. CASE Environment
  BY <1>3 DEF Environment, ProviderAccepts, ProviderRejects, HandlerTimeout, ForeignWrite, Post,
              Tick, ConnectionLost, Restart
<1>4. QED
  BY <1>1, <1>2, <1>3 DEF Next, Quiescent

\* The registrations change by an accepted PUT or by another writer only.
LEMMA OnlyWritersWrite ==
  ASSUME [Next]_vars, regs' # regs
  PROVE  \/ \E h \in Runs : ProviderAccepts(h)
         \/ \E k \in Keys, registration \in Registration : ForeignWrite(k, registration)
<1> USE DEF vars, world, provider
<1>1. ASSUME NEW h \in Runs, Step(h) PROVE FALSE
  BY <1>1
  DEF Step, ReplyStep, ListStep, SendStep, WaitStep, ReadStep, EventStep, SendPut, RefusePut,
      ReplyDelivered, ReplyLost, Ack, ListAnswered,
      ListFailed, GuardAccepted, GuardRefused, ListObserved, Authenticated, AuthenticationFailed,
      PutAcknowledged, PutUnreadable, PutNotFound, PutFailed, ReadAnswered, ReadFailed, Verified,
      NotVerified, EventDelivered, EventLost
<1>2. ASSUME NEW h \in Runs, NEW r \in Requests, PrepareAccepted(h, r) \/ PrepareRefused(h, r)
      PROVE  FALSE
  BY <1>2 DEF PrepareAccepted, PrepareRefused, Deliver
<1>3. QED
  BY <1>1, <1>2 DEF Next, Quiescent, Environment, ProviderRejects, HandlerTimeout, Post, Tick,
                    ConnectionLost, Restart

\* A second PUT goes out on v3 only, after v2 answered 404.
THEOREM NoResend == Spec => NoBlindResend
<1> DEFINE Allowed == \A h \in Runs : Sends(h) =>
             \/ wire[h] = NoPut /\ wire'[h].endpoint = "v2"
             \/ /\ wire[h].state = "notfound" /\ wire[h].endpoint = "v2"
                /\ wire'[h].endpoint = "v3"
<1>1. IInv /\ [Next]_vars => Allowed
  <2> SUFFICES ASSUME IInv, [Next]_vars, NEW h \in Runs, Sends(h)
               PROVE  \/ wire[h] = NoPut /\ wire'[h].endpoint = "v2"
                      \/ /\ wire[h].state = "notfound" /\ wire[h].endpoint = "v2"
                         /\ wire'[h].endpoint = "v3"
    OBVIOUS
  <2>1. PICK endpoint \in {"v2", "v3"} : SendPut(h, endpoint)
    BY OnlySendPutSends
  <2>2. QED
    BY <2>1 DEF SendPut, PutStep, Goto, IInv, PutFollowsPc, BeforePut, TypeOK, PutRecord
<1>2. IInv /\ [Next]_vars => [Allowed]_vars
  BY <1>1
<1>3. QED
  BY <1>2, Invariance, PTL DEF Spec, NoBlindResend

\* As long as its key has not been written, what a run's LIST has shown of it is
\* what the provider still shows.
ListStands ==
  \A h \in Runs :
    /\ req[h] = NoRequest => stale[h]
    /\ ~stale[h] => guard[h][Key[req[h]]] = Shown(req[h])[Key[req[h]]]

\* A run that keeps its request and its LIST, while the provider's registrations
\* stay as they are, keeps what its LIST is worth.
LEMMA ListFrame ==
  ASSUME ListStands, NEW g \in Runs, UNCHANGED provider,
         req'[g] = req[g], guard'[g] = guard[g], stale'[g] = stale[g]
  PROVE  /\ req'[g] = NoRequest => stale'[g]
         /\ ~stale'[g] => guard'[g][Key[req'[g]]] = Shown(req[g])'[Key[req'[g]]]
<1>1. Shown(req[g])' = Shown(req[g])
  BY DEF Shown, provider
<1>2. QED
  BY <1>1 DEF ListStands

\* A write of k leaves the LISTs of the runs for other keys what they are.
LEMMA WriteKeepsListStands ==
  ASSUME TypeOK, ListStands, NEW k \in Keys, NEW u, Write(k, u), UNCHANGED <<req, guard>>
  PROVE  ListStands'
<1> SUFFICES ASSUME NEW g \in Runs
             PROVE  /\ req[g] = NoRequest => stale'[g]
                    /\ ~stale'[g] => guard[g][Key[req[g]]] = Shown(req[g])'[Key[req[g]]]
  BY DEF ListStands
<1>1. stale'[g] = (stale[g] \/ Key[req[g]] = k)
  BY DEF Write
<1>2. req[g] = NoRequest => stale'[g]
  BY <1>1 DEF ListStands
<1>3. ASSUME ~stale'[g] PROVE guard[g][Key[req[g]]] = Shown(req[g])'[Key[req[g]]]
  <2>1. req[g] \in Requests /\ Key[req[g]] \in Keys /\ Key[req[g]] # k
    BY <1>1, <1>2, <1>3, ConstantsAssumption DEF TypeOK
  <2>2. regs'[Key[req[g]]] = regs[Key[req[g]]] /\ created'[Key[req[g]]] = created[Key[req[g]]]
    BY <2>1 DEF Write, TypeOK
  <2>3. QED
    BY <1>1, <1>3, <2>1, <2>2 DEF ListStands, Shown
<1>4. QED
  BY <1>2, <1>3

\* Every step keeps it: a LIST is what the provider shows when it answers.
LEMMA NextKeepsListStands == IInv /\ ListStands /\ [Next]_vars => ListStands'
<1> SUFFICES ASSUME IInv, ListStands, [Next]_vars PROVE ListStands'
  OBVIOUS
<1> DEFINE Kept(g) == req'[g] = req[g] /\ guard'[g] = guard[g] /\ stale'[g] = stale[g]
<1> USE DEF vars, world, data
<1>1. ASSUME UNCHANGED <<req, guard, stale, provider>> PROVE ListStands'
  BY <1>1, ListFrame DEF ListStands
<1>2. ASSUME NEW h \in Runs, NEW r \in Requests, PrepareAccepted(h, r) \/ PrepareRefused(h, r)
      PROVE  ListStands'
  <2>1. stale[h] /\ stale' = stale /\ guard' = guard /\ UNCHANGED provider
    BY <1>2 DEF PrepareAccepted, PrepareRefused, Deliver, Goto, Conclude, IInv, TypeOK,
                IdleServesNothing, ListStands
  <2>2. \A g \in Runs \ {h} : Kept(g)
    BY <1>2, <2>1 DEF PrepareAccepted, PrepareRefused, Deliver, IInv, TypeOK
  <2>3. QED
    BY <2>1, <2>2, ListFrame DEF ListStands
<1>3. ASSUME NEW h \in Runs, ListAnswered(h) PROVE ListStands'
  <2>1. /\ UNCHANGED <<req, provider>> /\ req[h] # NoRequest
        /\ guard'[h] = Shown(req[h])
    BY <1>3 DEF ListAnswered, Goto, IInv, TypeOK, IdleServesNothing
  <2>2. Shown(req[h])' = Shown(req[h])
    BY <2>1 DEF Shown, provider
  <2>3. \A g \in Runs \ {h} : Kept(g)
    BY <1>3 DEF ListAnswered, IInv, TypeOK
  <2>4. QED
    BY <2>1, <2>2, <2>3, ListFrame DEF ListStands
<1>4. ASSUME NEW h \in Runs, Step(h), ~ListAnswered(h)
      PROVE  UNCHANGED <<req, guard, stale, provider>>
  BY <1>4
  DEF Step, ReplyStep, ListStep, SendStep, WaitStep, ReadStep, EventStep, SendPut, RefusePut,
      ReplyDelivered, ReplyLost, Ack, ListFailed, GuardAccepted, GuardRefused, ListObserved,
      Authenticated, AuthenticationFailed, PutAcknowledged, PutUnreadable, PutNotFound, PutFailed,
      ReadAnswered, ReadFailed, Verified, NotVerified, EventDelivered, EventLost
<1>5. ASSUME NEW h \in Runs, ProviderAccepts(h) PROVE ListStands'
  <2>1. Key[req[h]] \in Keys
    BY <1>5, ConstantsAssumption DEF ProviderAccepts, IInv, TypeOK, NoPut
  <2>2. QED
    BY <1>5, <2>1, WriteKeepsListStands DEF ProviderAccepts, IInv
<1>6. ASSUME NEW k \in Keys, NEW registration \in Registration, ForeignWrite(k, registration)
      PROVE  ListStands'
  BY <1>6, WriteKeepsListStands DEF ForeignWrite, IInv
<1>7. ASSUME \/ \E h \in Runs :
                  HandlerTimeout(h) \/ \E state \in {"notfound", "refused"} :
                                         ProviderRejects(h, state)
             \/ \E r \in Requests : Post(r)
             \/ Tick \/ ConnectionLost \/ Restart
      PROVE  UNCHANGED <<req, guard, stale, provider>>
  BY <1>7 DEF HandlerTimeout, ProviderRejects, Post, Tick, ConnectionLost, Restart
<1>8. QED
  BY <1>1, <1>2, <1>3, <1>4, <1>5, <1>6, <1>7 DEF Next, Environment, Quiescent

\* What a run's LIST has shown of its key stands until the key is written.
THEOREM ListStandsUntilWritten == Spec => []ListStands
<1>1. Init => ListStands
  BY DEF Init, ListStands
<1>2. QED
  BY <1>1, NextKeepsListStands, Invariance, PTL DEF Spec

\* No run overwrites a registration that stands as its LIST has shown it: the key
\* was written since, or the request's window left the registration out.
THEOREM OverwriteUnseen == Spec => OverwritesAreUnseen
<1> DEFINE Allowed == \A k \in Keys : regs[k] \in Urls /\ regs'[k] # regs[k] =>
             \/ foreign' # foreign
             \/ \E h \in Runs : /\ wire[h].state = "sent" /\ wire'[h].state = "accepted"
                                /\ Key[req[h]] = k
                                /\ stale[h] \/ created[k] \notin Window[req[h]]
<1>1. IInv /\ ListStands /\ [Next]_vars => Allowed
  <2> SUFFICES ASSUME IInv, ListStands, [Next]_vars, NEW k \in Keys, regs[k] \in Urls,
                      regs'[k] # regs[k], foreign' = foreign
               PROVE  \E h \in Runs : /\ wire[h].state = "sent" /\ wire'[h].state = "accepted"
                                      /\ Key[req[h]] = k
                                      /\ stale[h] \/ created[k] \notin Window[req[h]]
    OBVIOUS
  <2>1. PICK h \in Runs : ProviderAccepts(h)
    BY OnlyWritersWrite DEF ForeignWrite, IInv, TypeOK
  <2>2. Key[req[h]] = k /\ regs'[k] = CanonicalBase[req[h]]
    BY <2>1 DEF ProviderAccepts, Write, IInv, TypeOK
  <2>3. wire[h].state = "sent" /\ wire'[h].state = "accepted"
    BY <2>1 DEF ProviderAccepts, IInv, TypeOK, PutRecord
  <2>4. stale[h] \/ created[k] \notin Window[req[h]]
    <3>1. guard[h][k] # regs[k]
      BY <2>2, <2>3, ConstantsAssumption DEF IInv, EveryPutWasProved, GuardAdmits
    <3>2. created[k] \in Window[req[h]] => Shown(req[h])[k] = regs[k]
      BY DEF Shown
    <3>3. QED
      BY <2>2, <3>1, <3>2 DEF ListStands
  <2>5. QED
    BY <2>2, <2>3, <2>4
<1>2. IInv /\ ListStands /\ [Next]_vars => [Allowed]_vars
  BY <1>1
<1>3. QED
  BY <1>2, Invariance, ListStandsUntilWritten, PTL DEF Spec, OverwritesAreUnseen

------------------------------------------------------------------------------
(* Events *)

\* A run that holds or confirms stands on an accepted PUT of an opaque identity.
LEMMA EventIsOpaque ==
  ASSUME IInv, NEW h \in Runs, wire[h].state # "none"
  PROVE  AuditResourceID[req[h]] \notin Rows(h) \cup {Key[req[h]]}
  BY DEF IInv, EveryPutWasProved, GuardAdmits, ListProof, IdentityIsOpaque

\* The events grow by the event of a run that stands at "emit".
LEMMA OnlyEmittedEvents ==
  ASSUME [Next]_vars, NEW e \in events', e \notin events
  PROVE  \E h \in Runs : pc[h] = "emit" /\ e = Event(h)
<1> USE DEF vars, world, provider, data
<1>1. ASSUME NEW h \in Runs, Step(h) PROVE pc[h] = "emit" /\ e = Event(h)
  BY <1>1
  DEF Step, ReplyStep, ListStep, SendStep, WaitStep, ReadStep, EventStep, SendPut, RefusePut,
      ReplyDelivered, ReplyLost, Ack, ListAnswered, ListFailed, GuardAccepted, GuardRefused,
      ListObserved, Authenticated, AuthenticationFailed, PutAcknowledged, PutUnreadable,
      PutNotFound, PutFailed, ReadAnswered, ReadFailed, Verified, NotVerified, EventDelivered,
      EventLost, Goto
<1>2. ASSUME NEW h \in Runs, NEW r \in Requests, PrepareAccepted(h, r) \/ PrepareRefused(h, r)
      PROVE  FALSE
  BY <1>2 DEF PrepareAccepted, PrepareRefused, Deliver
<1>3. QED
  BY <1>1, <1>2 DEF Next, Quiescent, Environment, ProviderAccepts, ProviderRejects, ForeignWrite,
                    HandlerTimeout, Post, Tick, ConnectionLost, Restart

\* The core hears of a mutation only from a run whose PUT was accepted, and never
\* by the Pix key or by a key of that run's LIST.
THEOREM EventsEarned == Spec => []EventsAreEarnedAndOpaque
<1>1. Init => EventsAreEarnedAndOpaque
  BY DEF Init, EventsAreEarnedAndOpaque
<1>2. IInv /\ [Next]_vars /\ EventsAreEarnedAndOpaque => EventsAreEarnedAndOpaque'
  <2> SUFFICES ASSUME IInv, [Next]_vars, EventsAreEarnedAndOpaque, NEW e \in events'
               PROVE  \E h \in Runs : /\ req'[h] = e.intent
                                      /\ wire'[h].state = "accepted"
                                      /\ verdict'[h] = e.outcome
                                      /\ e.resource \notin Rows(h)' \cup {Key[e.intent]}
    BY DEF EventsAreEarnedAndOpaque
  <2>1. PICK h \in Runs : /\ verdict[h] \in {"held", "confirmed"}
                          /\ req[h] = e.intent
                          /\ verdict[h] = e.outcome
                          /\ e.resource \notin Rows(h) \cup {Key[e.intent]}
    <3>1. CASE e \in events
      BY <3>1 DEF EventsAreEarnedAndOpaque, IInv, TypeOK, EventRecord
    <3>2. CASE e \notin events
      <4>1. PICK h \in Runs : pc[h] = "emit" /\ e = Event(h)
        BY <3>2, OnlyEmittedEvents
      <4>2. verdict[h] \in {"held", "confirmed"} /\ wire[h].state = "accepted"
        BY <4>1 DEF IInv, VerdictFollowsPc, VerdictsAreEarned
      <4>3. QED
        BY <4>1, <4>2, EventIsOpaque DEF Event
    <3>3. QED
      BY <3>1, <3>2
  <2>2. /\ verdict'[h] = verdict[h] /\ req'[h] = req[h] /\ guard'[h] = guard[h]
        /\ wire'[h].state = "accepted"
    BY <2>1, EarnedIsKept
  <2>3. QED
    BY <2>1, <2>2 DEF Rows
<1>3. QED
  BY <1>1, <1>2, Invariance, PTL DEF Spec

------------------------------------------------------------------------------
(* The broker *)

\* Who may settle: a live run, alone, for a message the broker counts as
\* delivered; and every such message has one.  A request that a run has taken up
\* was posted, and until the run concludes it was posted to this process's key.
BInv ==
  /\ \A h \in Runs : owns[h] =>
       /\ pc[h] \notin {"idle", "done", "dead"}
       /\ queue[req[h]] = "delivered"
       /\ \A g \in Runs : owns[g] /\ req[g] = req[h] => g = h
  /\ \A r \in Requests : queue[r] = "delivered" => \E h \in Runs : owns[h] /\ req[h] = r
  /\ \A h \in Runs : req[h] # NoRequest => queue[req[h]] # "unposted"
  /\ \A h \in Runs : pc[h] \in Deciding \ {"idle"} => sealedTo[req[h]] = generation

\* Initially nothing is delivered.
LEMMA InitBInv == Init => BInv
  BY DEF Init, BInv, Deciding, BeforePut

\* Every step keeps the broker's view and the runs' in agreement.
LEMMA NextKeepsBInv == IInv /\ BInv /\ [Next]_vars => BInv'
<1> SUFFICES ASSUME IInv, BInv, [Next]_vars PROVE BInv'
  OBVIOUS
<1> USE ConstantsAssumption
    DEF IInv, BInv, TypeOK, IdleServesNothing, Deciding, BeforePut, PcValues,
        vars, world, provider, broker, control, data, Goto, Conclude
<1>1. CASE UNCHANGED vars
  BY <1>1
<1>2. ASSUME NEW h \in Runs, NEW r \in Requests, PrepareAccepted(h, r) PROVE BInv'
  BY <1>2 DEF PrepareAccepted, PrepareConfidential, Deliver
<1>3. ASSUME NEW h \in Runs, NEW r \in Requests, PrepareRefused(h, r) PROVE BInv'
  BY <1>3 DEF PrepareRefused, Deliver
<1>4. ASSUME NEW h \in Runs, ReplyLost(h) PROVE BInv'
  BY <1>4 DEF ReplyLost, Settle
<1>5. ASSUME NEW h \in Runs, Ack(h) PROVE BInv'
  BY <1>5 DEF Ack, Settle
<1>6. ASSUME NEW h \in Runs, Step(h), ~ReplyLost(h), ~Ack(h) PROVE BInv'
  <2> DEFINE Inside ==
        /\ UNCHANGED <<queue, owns, req, sealedTo, generation>>
        /\ pc[h] \notin {"idle", "done", "dead"} /\ pc'[h] \notin {"idle", "done", "dead"}
        /\ \A g \in Runs \ {h} : pc'[g] = pc[g]
        /\ pc'[h] \in Deciding => pc[h] \in Deciding
  <2> SUFFICES Inside
    OBVIOUS
  <2>1. CASE ReplyDelivered(h)
    BY <2>1 DEF ReplyDelivered
  <2>2. CASE ListAnswered(h) \/ ListFailed(h) \/ ListObserved(h)
    BY <2>2 DEF ListAnswered, ListFailed, ListObserved
  <2>3. CASE GuardAccepted(h)
    BY <2>3 DEF GuardAccepted
  <2>4. CASE GuardRefused(h)
    BY <2>4 DEF GuardRefused
  <2>5. CASE Authenticated(h) \/ AuthenticationFailed(h)
    BY <2>5 DEF Authenticated, AuthenticationFailed
  <2>6. ASSUME NEW endpoint \in {"v2", "v3"}, SendPut(h, endpoint) \/ RefusePut(h, endpoint)
        PROVE  Inside
    BY <2>6 DEF SendPut, RefusePut, PutStep
  <2>7. CASE WaitStep(h)
    BY <2>7 DEF WaitStep, PutAcknowledged, PutUnreadable, PutNotFound, PutFailed
  <2>8. CASE ReadStep(h)
    BY <2>8 DEF ReadStep, ReadAnswered, ReadFailed, Verified, NotVerified, Unproved
  <2>9. CASE EventStep(h)
    BY <2>9 DEF EventStep, EventDelivered, EventLost
  <2>10. QED
    BY <1>6, <2>1, <2>2, <2>3, <2>4, <2>5, <2>6, <2>7, <2>8, <2>9
    DEF Step, ReplyStep, ListStep, SendStep
<1>7. ASSUME NEW r \in Requests, Post(r) PROVE BInv'
  BY <1>7 DEF Post
<1>8. CASE ConnectionLost
  BY <1>8 DEF ConnectionLost, Requeued
<1>9. CASE Restart
  BY <1>9 DEF Restart, Requeued, Live
<1>10. CASE \/ Tick
            \/ \E h \in Runs :
                 \/ ProviderAccepts(h) \/ HandlerTimeout(h)
                 \/ \E state \in {"notfound", "refused"} : ProviderRejects(h, state)
            \/ \E k \in Keys, registration \in Registration : ForeignWrite(k, registration)
  <2>1. UNCHANGED <<queue, owns, req, sealedTo, generation, pc>>
    BY <1>10 DEF Tick, ProviderAccepts, HandlerTimeout, ProviderRejects, ForeignWrite
  <2>2. QED
    BY <2>1
<1>11. QED
  BY <1>1, <1>2, <1>3, <1>4, <1>5, <1>6, <1>7, <1>8, <1>9, <1>10 DEF Next, Environment, Quiescent

\* What the broker counts as delivered and what the live runs own agree.
THEOREM BrokerInvariance == Spec => []BInv
  BY InitBInv, NextKeepsBInv, Invariance, PTL DEF Spec

\* What the broker counts as delivered is held by exactly one live handler.
THEOREM NoOrphan == Spec => []NoOrphanDelivery
<1>1. BInv => NoOrphanDelivery
  BY DEF BInv, NoOrphanDelivery, Live
<1>2. QED
  BY <1>1, BrokerInvariance, PTL

\* A request sealed to the key of an earlier process never reaches the provider.
THEOREM CurrentReceiver == Spec => OnlyCurrentReceiverWrites
<1> DEFINE Allowed == \A h \in Runs : Sends(h) => sealedTo[req[h]] = generation
<1>1. IInv /\ BInv /\ [Next]_vars => Allowed
  BY OnlySendPutSends DEF SendPut, PutStep, Goto, BInv, Deciding, BeforePut
<1>2. IInv /\ BInv /\ [Next]_vars => [Allowed]_vars
  BY <1>1
<1>3. QED
  BY <1>2, Invariance, BrokerInvariance, PTL DEF Spec, OnlyCurrentReceiverWrites

------------------------------------------------------------------------------
(* The contract *)

\* Initially nothing has landed.
LEMMA InitContract == Init => Contract!Init
  BY ConstantsAssumption DEF Init, Contract!Init, NoPut, Registration

\* Taking up a delivery claims its request.
LEMMA DeliverRefines ==
  ASSUME IInv, NEW h \in Runs, NEW r \in Requests, PrepareAccepted(h, r) \/ PrepareRefused(h, r)
  PROVE  Contract!Next
<1> DEFINE a == IF PrepareAccepted(h, r) THEN "none" ELSE "failed"
<1>1. Contract!Claim(h, r, a)
  BY DEF Contract!Claim, PrepareAccepted, PrepareRefused, Deliver, Goto, Conclude, world, provider,
         IInv, TypeOK, IdleServesNothing, VerdictFollowsPc, Deciding, BeforePut
<1>2. QED
  BY <1>1 DEF Contract!Next

\* An event that arrives is published for a run that holds or confirms.
LEMMA EventRefines ==
  ASSUME IInv, NEW h \in Runs, EventDelivered(h)
  PROVE  Contract!Next
<1>1. {<<e.intent, e.outcome>> : e \in events'} =
        {<<e.intent, e.outcome>> : e \in events} \cup {<<req[h], verdict[h]>>}
  <2>1. events' = events \cup {Event(h)}
    BY DEF EventDelivered
  <2>2. <<Event(h).intent, Event(h).outcome>> = <<req[h], verdict[h]>>
    BY DEF Event
  <2>3. QED
    BY <2>1, <2>2
<1>2. Contract!Publish(h)
  BY <1>1 DEF Contract!Publish, EventDelivered, Goto, world, provider, data, IInv, VerdictFollowsPc
<1>3. QED
  BY <1>2 DEF Contract!Next

\* A step that concludes answers; "held" and "confirmed" only once the PUT landed.
LEMMA ConcludeRefines ==
  ASSUME IInv, NEW h \in Runs, NEW from \in Deciding \ {"idle"}, NEW to,
         NEW v \in {"failed", "observed", "held", "confirmed"}, Conclude(h, from, to, v),
         v \in {"held", "confirmed"} => wire[h].state = "accepted",
         UNCHANGED <<regs, req, wire, events>>
  PROVE  Contract!Next
<1>1. Contract!Answer(h, v)
  BY DEF Contract!Answer, Conclude, IInv, TypeOK, IdleServesNothing, VerdictFollowsPc
<1>2. QED
  BY <1>1 DEF Contract!Next

\* Every step of a handler is an answer, a publication or invisible.
LEMMA StepRefines ==
  ASSUME IInv, NEW h \in Runs, Step(h)
  PROVE  Contract!Next \/ UNCHANGED Contract!vars
<1> USE DEF world, provider, broker, data
<1> DEFINE Refines == Contract!Next \/ UNCHANGED Contract!vars
<1>1. ReplyStep(h) => Refines
  BY DEF ReplyStep, ReplyDelivered, ReplyLost, Ack, Goto, Contract!vars
<1>2. CASE ListAnswered(h) \/ GuardAccepted(h) \/ Authenticated(h)
  BY <1>2 DEF ListAnswered, GuardAccepted, Authenticated, Goto, Contract!vars
<1>3. CASE ListFailed(h)
  BY <1>3, ConcludeRefines DEF ListFailed, Deciding, BeforePut
<1>4. CASE GuardRefused(h)
  BY <1>4, ConcludeRefines DEF GuardRefused, Deciding, BeforePut
<1>5. CASE ListObserved(h)
  BY <1>5, ConcludeRefines DEF ListObserved, Deciding, BeforePut
<1>6. CASE AuthenticationFailed(h)
  BY <1>6, ConcludeRefines DEF AuthenticationFailed, Deciding, BeforePut
<1>7. ASSUME NEW endpoint \in {"v2", "v3"}, SendPut(h, endpoint) PROVE Refines
  <2>1. wire[h].state # "accepted" /\ wire'[h].state # "accepted"
    BY <1>7 DEF SendPut, Goto, PutStep, IInv, PutFollowsPc, BeforePut, NoPut, TypeOK
  <2>2. \A g \in Runs \ {h} : wire'[g] = wire[g]
    BY <1>7 DEF SendPut, IInv, TypeOK
  <2>3. {g \in Runs : wire'[g].state = "accepted"} = {g \in Runs : wire[g].state = "accepted"}
    BY <2>1, <2>2
  <2>4. QED
    BY <1>7, <2>3 DEF SendPut, Goto, Contract!vars
<1>8. ASSUME NEW endpoint \in {"v2", "v3"}, RefusePut(h, endpoint) PROVE Refines
  BY <1>8, ConcludeRefines DEF RefusePut, PutStep, Deciding, BeforePut
<1>9. CASE PutAcknowledged(h) \/ PutNotFound(h)
  BY <1>9 DEF PutAcknowledged, PutNotFound, Goto, Contract!vars
<1>10. CASE PutUnreadable(h)
  BY <1>10, ConcludeRefines DEF PutUnreadable, Deciding
<1>11. CASE PutFailed(h)
  BY <1>11, ConcludeRefines DEF PutFailed, Deciding
<1>12. CASE ReadAnswered(h)
  BY <1>12 DEF ReadAnswered, Goto, Contract!vars
<1>13. CASE ReadFailed(h)
  BY <1>13, ConcludeRefines DEF ReadFailed, Unproved, Deciding, Conclude, IInv, PutFollowsPc
<1>14. CASE Verified(h)
  BY <1>14, ConcludeRefines DEF Verified, Deciding, Conclude, IInv, PutFollowsPc
<1>15. CASE NotVerified(h)
  BY <1>15, ConcludeRefines DEF NotVerified, Unproved, Deciding, Conclude, IInv, PutFollowsPc
<1>16. CASE EventDelivered(h)
  BY <1>16, EventRefines
<1>17. CASE EventLost(h)
  BY <1>17 DEF EventLost, Goto, Contract!vars
<1>18. QED
  BY <1>1, <1>2, <1>3, <1>4, <1>5, <1>6, <1>7, <1>8, <1>9, <1>10, <1>11, <1>12, <1>13, <1>14,
     <1>15, <1>16, <1>17
  DEF Step, ListStep, SendStep, WaitStep, ReadStep, EventStep

\* Of the surroundings only the provider and the other writers are visible.
LEMMA EnvironmentRefines ==
  ASSUME IInv, Environment
  PROVE  Contract!Next \/ UNCHANGED Contract!vars
<1> USE DEF world, provider, broker, control, data
<1>1. ASSUME NEW h \in Runs, ProviderAccepts(h) PROVE Contract!Next
  <2>1. wire[h].state = "sent" /\ wire'[h].state = "accepted"
        /\ \A g \in Runs \ {h} : wire'[g] = wire[g]
    BY <1>1 DEF ProviderAccepts, IInv, TypeOK, PutRecord
  <2>2. {g \in Runs : wire'[g].state = "accepted"} =
          {g \in Runs : wire[g].state = "accepted"} \cup {h}
    BY <2>1
  <2>3. req[h] \in Requests /\ Purpose[req[h]] = "ensure"
    BY <2>1 DEF IInv, TypeOK, NoPut, EveryPutWasProved, Ensures
  <2>4. Contract!Land(h)
    BY <1>1, <2>1, <2>2, <2>3 DEF ProviderAccepts, Write, Contract!Land
  <2>5. QED
    BY <2>4 DEF Contract!Next
<1>2. ASSUME NEW h \in Runs, NEW state \in {"notfound", "refused"}, ProviderRejects(h, state)
      PROVE  UNCHANGED Contract!vars
  <2>1. wire[h].state = "sent" /\ wire'[h].state = state
        /\ \A g \in Runs \ {h} : wire'[g] = wire[g]
    BY <1>2 DEF ProviderRejects, IInv, TypeOK, PutRecord
  <2>2. {g \in Runs : wire'[g].state = "accepted"} = {g \in Runs : wire[g].state = "accepted"}
    BY <2>1
  <2>3. QED
    BY <1>2, <2>2 DEF ProviderRejects, Contract!vars
<1>3. ASSUME NEW k \in Keys, NEW registration \in Registration, ForeignWrite(k, registration)
      PROVE  Contract!Next
  <2>1. Contract!Overwrite(k, registration)
    BY <1>3 DEF ForeignWrite, Write, Contract!Overwrite
  <2>2. QED
    BY <2>1 DEF Contract!Next
<1>4. ASSUME \/ \E h \in Runs : HandlerTimeout(h)
             \/ \E r \in Requests : Post(r)
             \/ Tick \/ ConnectionLost \/ Restart
      PROVE  UNCHANGED Contract!vars
  BY <1>4 DEF HandlerTimeout, Post, Tick, ConnectionLost, Restart, Contract!vars
<1>5. QED
  BY <1>1, <1>2, <1>3, <1>4 DEF Environment

\* The handlers, with every failure, redelivery and restart, keep the contract.
THEOREM Implementation == Spec => ImplementsContract
<1>1. IInv /\ [Next]_vars => [Contract!Next]_(Contract!vars)
  <2> SUFFICES ASSUME IInv, [Next]_vars PROVE Contract!Next \/ UNCHANGED Contract!vars
    OBVIOUS
  <2>1. CASE UNCHANGED vars
    BY <2>1 DEF vars, world, provider, control, data, Contract!vars
  <2>2. CASE Next
    BY <2>1, <2>2, DeliverRefines, StepRefines, EnvironmentRefines DEF Next, Quiescent
  <2>3. QED
    BY <2>1, <2>2
<1>2. QED
  BY <1>1, InitContract, Invariance, PTL DEF Spec, ImplementsContract, Contract!Spec
===============================================================================
