------------------------- MODULE AutomaticWebhookProofs -------------------------
(***************************************************************************)
(* Proofs about AutomaticWebhook.  The argument: a PUT leaves a run only   *)
(* from the step before it waits, and only when its GET had read another   *)
(* URL; past that step the run either saw it acknowledged or has failed;   *)
(* and what a run concluded it never takes back.                           *)
(***************************************************************************)
EXTENDS AutomaticWebhook, TLAPS

USE InputsAssumption

\* How far a run is tells what became of its PUT and what it has concluded.
Progress(h) ==
  /\ pc[h] = "idle" => req[h] = NoRequest
  /\ pc[h] \in {"idle", "oauth", "get", "put"} => wire[h] = "none"
  /\ pc[h] \in {"put", "readback", "emit"} \/ wire[h] # "none" => req[h] \in Ensuring
  /\ pc[h] \in {"idle", "oauth", "get", "put", "wait", "readback"} => answer[h] = "none"
  /\ pc[h] = "emit" => answer[h] = "ensured"
  /\ pc[h] \in {"idle", "oauth", "get", "put", "wait"} => ~changed[h]
  /\ changed[h] => wire[h] = "accepted"
  /\ pc[h] \in {"readback", "emit"} \/ answer[h] = "ensured" => changed[h] \/ wire[h] = "none"
  /\ pc[h] \in {"idle", "oauth", "get", "put", "wait", "readback", "emit"} =>
       attempts[h] < MaxRetries

\* A PUT is sent only by a run that had read another registration.
Differs(h) == pc[h] = "put" \/ wire[h] # "none" => current[h] # Desired(h)

RunsProgress == \A h \in Runs : Progress(h) /\ Differs(h)

IInv == TypeOK /\ RunsProgress /\ EventsTellWhoChanged

\* Initially no run has begun.
LEMMA InitIInv == Init => IInv
BY DEF Init, IInv, TypeOK, RunsProgress, Progress, Differs, EventsTellWhoChanged, Registration,
       EventRecord

\* Steps of a run up to its conclusion.
LEMMA CallsKeepIInv ==
  ASSUME IInv, NEW h \in Runs,
         \/ Authenticated(h) \/ ReadBeforeMutation(h) \/ ObserveAutomaticWebhooks(h)
         \/ SendPut(h) \/ PutAcknowledged(h) \/ ReadBack(h) \/ Reply(h)
         \/ \E from \in {"oauth", "get", "wait", "readback"} : Fail(h, from)
         \/ \E r \in Requests : Take(h, r)
  PROVE  IInv'
<1> USE DEF IInv, TypeOK, RunsProgress, Progress, Differs, EventsTellWhoChanged, Registration,
            Desired, Registered, Goto, Conclude, provider, run
<1>1. \A e \in inbox : e.run \in Runs
  BY DEF EventRecord
<1>2. CASE Authenticated(h)
  BY <1>1, <1>2 DEF Authenticated
<1>3. CASE ReadBeforeMutation(h)
  BY <1>1, <1>3 DEF ReadBeforeMutation
<1>4. CASE ObserveAutomaticWebhooks(h)
  BY <1>1, <1>4 DEF ObserveAutomaticWebhooks
<1>5. CASE SendPut(h)
  BY <1>1, <1>5 DEF SendPut
<1>6. CASE PutAcknowledged(h)
  BY <1>1, <1>6 DEF PutAcknowledged
<1>7. CASE ReadBack(h)
  BY <1>1, <1>7 DEF ReadBack
<1>8. CASE Reply(h)
  BY <1>1, <1>8 DEF Reply
<1>9. ASSUME NEW from \in {"oauth", "get", "wait", "readback"}, Fail(h, from) PROVE IInv'
  BY <1>1, <1>9 DEF Fail
<1>10. ASSUME NEW r \in Requests, Take(h, r) PROVE IInv'
  BY <1>1, <1>10 DEF Take
<1>11. QED
  BY <1>2, <1>3, <1>4, <1>5, <1>6, <1>7, <1>8, <1>9, <1>10

\* A post tells of a run that proved its URL, accepted or not.
LEMMA PostsKeepIInv ==
  ASSUME IInv, NEW h \in Runs, NEW accepted \in BOOLEAN,
         PostAnswered(h, accepted) \/ PostUnanswered(h, accepted)
  PROVE  IInv'
<1>1. PICK next \in {"reply", "emit"} :
        /\ pc[h] = "emit" /\ pc' = [pc EXCEPT ![h] = next]
        /\ next = "emit" => attempts[h] + 1 < MaxRetries
  BY DEF Post, PostAnswered, PostUnanswered
<1>2. /\ attempts' = [attempts EXCEPT ![h] = @ + 1]
      /\ inbox' = IF accepted THEN inbox \cup {Event(h)} ELSE inbox
      /\ UNCHANGED <<regs, foreign, req, current, wire, changed, answer>>
  BY DEF Post, PostAnswered, PostUnanswered, provider, run
<1>3. attempts' \in [Runs -> 0..MaxRetries] /\ attempts'[h] = attempts[h] + 1
  BY <1>1, <1>2 DEF IInv, TypeOK, RunsProgress, Progress
<1>4. Event(h) \in EventRecord
  BY <1>1 DEF IInv, TypeOK, RunsProgress, Progress, Event, EventRecord, Desired
<1>5. /\ Event(h).run = h /\ Event(h).url = Desired(h) /\ Event(h).resource = Kind[req[h]]
      /\ Event(h).changed = changed[h]
  BY DEF Event
<1>6. inbox' \subseteq inbox \cup {Event(h)}
  BY <1>2
<1>7. TypeOK'
  BY <1>1, <1>2, <1>3, <1>4 DEF IInv, TypeOK, RunsProgress, Progress
<1>8. RunsProgress'
  BY <1>1, <1>2, <1>3 DEF IInv, TypeOK, RunsProgress, Progress, Differs, Desired
<1>9. EventsTellWhoChanged'
  <2>1. ASSUME NEW e \in inbox'
        PROVE  /\ answer[e.run] = "ensured"
               /\ e.url = Wanted[req[e.run]] /\ e.resource = Kind[req[e.run]]
               /\ IF e.changed THEN wire[e.run] = "accepted" ELSE wire[e.run] = "none"
    <3>1. CASE e \in inbox
      BY <3>1 DEF IInv, EventsTellWhoChanged
    <3>2. CASE e = Event(h)
      <4>1. /\ answer[h] = "ensured"
            /\ IF changed[h] THEN wire[h] = "accepted" ELSE wire[h] = "none"
        BY <1>1 DEF IInv, RunsProgress, Progress
      <4>2. QED
        BY <1>5, <3>2, <4>1, Zenon DEF Desired
    <3>3. QED
      BY <1>6, <2>1, <3>1, <3>2
  <2>2. QED
    BY <1>2, <2>1 DEF EventsTellWhoChanged
<1>10. QED
  BY <1>7, <1>8, <1>9 DEF IInv

\* The provider, other writers and a crash.
LEMMA OthersKeepIInv ==
  ASSUME IInv, \/ \E h \in Runs : ProviderAccepts(h) \/ ProviderRefuses(h)
               \/ \E k \in Kinds, registration \in Registration : ForeignWrite(k, registration)
               \/ Crash
  PROVE  IInv'
<1> USE DEF IInv, TypeOK, RunsProgress, Progress, Differs, EventsTellWhoChanged, Registration,
            Desired, provider, run
<1>1. \A e \in inbox : e.run \in Runs
  BY DEF EventRecord
<1>2. ASSUME NEW h \in Runs, ProviderAccepts(h) PROVE IInv'
  BY <1>1, <1>2 DEF ProviderAccepts
<1>3. ASSUME NEW h \in Runs, ProviderRefuses(h) PROVE IInv'
  BY <1>1, <1>3 DEF ProviderRefuses
<1>4. ASSUME NEW k \in Kinds, NEW registration \in Registration, ForeignWrite(k, registration)
      PROVE  IInv'
  BY <1>1, <1>4 DEF ForeignWrite
<1>5. CASE Crash
  BY <1>1, <1>5 DEF Crash, Live
<1>6. QED
  BY <1>2, <1>3, <1>4, <1>5

\* Every step keeps the invariant.
LEMMA NextKeepsIInv == IInv /\ [Next]_vars => IInv'
<1>1. IInv /\ UNCHANGED vars => IInv'
  BY DEF IInv, TypeOK, RunsProgress, Progress, Differs, Desired, EventsTellWhoChanged,
         vars, provider, run
<1>2. QED
  BY <1>1, CallsKeepIInv, PostsKeepIInv, OthersKeepIInv DEF Next, Step, Environment, Quiescent

\* The inductive invariant, for any runs, requests, retries and other writers.
THEOREM Invariance == Spec => []IInv
  BY InitIInv, NextKeepsIInv, PTL DEF Spec

\* Type correctness: who calls the provider serves an accepted input.
THEOREM TypeCorrect == Spec => []TypeOK
<1>1. IInv => TypeOK
  BY DEF IInv
<1>2. QED
  BY <1>1, Invariance, PTL

\* Whatever failed or was posted twice, no event says anything untrue of its run.
THEOREM EventsAreTrue == Spec => []EventsTellWhoChanged
<1>1. IInv => EventsTellWhoChanged
  BY DEF IInv
<1>2. QED
  BY <1>1, Invariance, PTL

------------------------------------------------------------------------------
(* Adoption *)

\* A PUT lands on its own URL only if another writer was faster.
THEOREM Adopts == Spec => MatchingIsAdopted
<1> DEFINE Landing(h) == wire[h] = "sent" /\ wire'[h] = "accepted" /\ Registered(h) = Desired(h)
<1>1. ASSUME IInv, NEW h \in Runs, Landing(h)
      PROVE  current[h] # Registered(h)
  BY <1>1 DEF IInv, RunsProgress, Differs
<1>2. IInv /\ [Next]_vars =>
        [\A h \in Runs : Landing(h) => current[h] # Registered(h)]_vars
  BY <1>1
<1>3. QED
  BY <1>2, Invariance, PTL DEF Spec, MatchingIsAdopted

------------------------------------------------------------------------------
(* The contract *)

landed == {h \in Runs : wire[h] = "accepted"}
reported == {<<e.run, e.changed>> : e \in inbox}

\* What the contract does not see.
LEMMA Stutters ==
  ASSUME UNCHANGED <<regs, req, answer, inbox>>, landed' = landed
  PROVE  UNCHANGED Contract!vars
BY DEF Contract!vars, landed

\* Calls of a run: it claims, proves or fails; the rest is its own affair.
LEMMA CallsImplement ==
  ASSUME IInv, NEW h \in Runs,
         \/ Authenticated(h) \/ ReadBeforeMutation(h) \/ ObserveAutomaticWebhooks(h)
         \/ SendPut(h) \/ PutAcknowledged(h) \/ ReadBack(h) \/ Reply(h)
         \/ \E from \in {"oauth", "get", "wait", "readback"} : Fail(h, from)
         \/ \E r \in Requests : Take(h, r)
  PROVE  Contract!Next \/ UNCHANGED Contract!vars
<1> USE DEF IInv, TypeOK, RunsProgress, Progress, Goto, Conclude, provider, run
<1>1. req[h] = NoRequest <=> pc[h] = "idle"
  OBVIOUS
<1>2. CASE Authenticated(h) \/ ReadBeforeMutation(h) \/ PutAcknowledged(h) \/ Reply(h)
  BY <1>2, Stutters DEF Authenticated, ReadBeforeMutation, PutAcknowledged, Reply, landed
<1>3. CASE SendPut(h)
  <2>1. wire[h] = "none" /\ wire' = [wire EXCEPT ![h] = "sent"]
    BY <1>3 DEF SendPut
  <2>2. landed' = landed
    BY <2>1 DEF landed
  <2>3. QED
    BY <1>3, <2>2, Stutters DEF SendPut
<1>4. CASE ObserveAutomaticWebhooks(h)
  <2>1. Contract!Prove(h)
    BY <1>1, <1>4 DEF ObserveAutomaticWebhooks, Contract!Prove, Contract!Holds, Desired, Registered
  <2>2. QED
    BY <2>1 DEF Contract!Next
<1>5. CASE ReadBack(h)
  <2>1. Contract!Prove(h)
    BY <1>1, <1>5 DEF ReadBack, Contract!Prove, Contract!Holds, Desired, Registered
  <2>2. QED
    BY <2>1 DEF Contract!Next
<1>6. ASSUME NEW from \in {"oauth", "get", "wait", "readback"}, Fail(h, from)
      PROVE  Contract!Next
  <2>1. Contract!Fail(h)
    BY <1>1, <1>6 DEF Fail, Contract!Fail
  <2>2. QED
    BY <2>1 DEF Contract!Next
<1>7. ASSUME NEW r \in Requests, Take(h, r)
      PROVE  Contract!Next
  <2>1. Contract!Claim(h, r)
    BY <1>1, <1>7 DEF Take, Contract!Claim
  <2>2. QED
    BY <2>1 DEF Contract!Next
<1>8. QED
  BY <1>2, <1>3, <1>4, <1>5, <1>6, <1>7

\* An accepted post reports whether the run's PUT had landed.
LEMMA PostsImplement ==
  ASSUME IInv, NEW h \in Runs, NEW accepted \in BOOLEAN,
         PostAnswered(h, accepted) \/ PostUnanswered(h, accepted)
  PROVE  Contract!Next \/ UNCHANGED Contract!vars
<1>1. /\ inbox' = IF accepted THEN inbox \cup {Event(h)} ELSE inbox
      /\ UNCHANGED <<regs, req, wire, changed, answer>> /\ pc[h] = "emit"
  BY DEF Post, PostAnswered, PostUnanswered, provider, run
<1>2. CASE accepted
  <2>1. answer[h] = "ensured" /\ (changed[h] => wire[h] = "accepted")
        /\ (wire[h] = "accepted" => changed[h])
    BY <1>1 DEF IInv, RunsProgress, Progress
  <2>2. changed[h] = (h \in landed)
    BY <2>1 DEF landed, IInv, TypeOK
  <2>3. Event(h).run = h /\ Event(h).changed = changed[h]
    BY DEF Event
  <2>4. reported' = reported \cup {<<h, h \in landed>>}
    <3>1. inbox' = inbox \cup {Event(h)}
      BY <1>1, <1>2
    <3>2. reported' = reported \cup {<<Event(h).run, Event(h).changed>>}
      BY <3>1, Zenon DEF reported
    <3>3. QED
      BY <2>2, <2>3, <3>2, Zenon
  <2>5. Contract!Report(h)
    BY <1>1, <2>1, <2>4 DEF Contract!Report, landed, reported
  <2>6. QED
    BY <2>5 DEF Contract!Next
<1>3. CASE ~accepted
  BY <1>1, <1>3, Stutters DEF landed
<1>4. QED
  BY <1>2, <1>3

\* The provider lands or refuses, others overwrite, a crash changes no promise.
LEMMA OthersImplement ==
  ASSUME IInv, \/ \E h \in Runs : ProviderAccepts(h) \/ ProviderRefuses(h)
               \/ \E k \in Kinds, registration \in Registration : ForeignWrite(k, registration)
               \/ Crash
  PROVE  Contract!Next \/ UNCHANGED Contract!vars
<1> USE DEF IInv, TypeOK, RunsProgress, Progress, provider, run
<1>1. ASSUME NEW h \in Runs, ProviderAccepts(h) PROVE Contract!Next
  <2>1. wire[h] = "sent" /\ wire' = [wire EXCEPT ![h] = "accepted"]
    BY <1>1 DEF ProviderAccepts
  <2>2. h \notin landed /\ landed' = landed \cup {h}
    BY <2>1 DEF landed
  <2>3. Contract!Land(h)
    BY <1>1, <2>1, <2>2 DEF ProviderAccepts, Contract!Land, landed, Desired
  <2>4. QED
    BY <2>3 DEF Contract!Next
<1>2. ASSUME NEW h \in Runs, ProviderRefuses(h) PROVE UNCHANGED Contract!vars
  <2>1. wire[h] = "sent" /\ wire' = [wire EXCEPT ![h] = "refused"]
    BY <1>2 DEF ProviderRefuses
  <2>2. landed' = landed
    BY <2>1 DEF landed
  <2>3. QED
    BY <1>2, <2>2, Stutters DEF ProviderRefuses
<1>3. ASSUME NEW k \in Kinds, NEW registration \in Registration, ForeignWrite(k, registration)
      PROVE  Contract!Next
  <2>1. Contract!Overwrite(k, registration)
    BY <1>3 DEF ForeignWrite, Contract!Overwrite
  <2>2. QED
    BY <2>1 DEF Contract!Next
<1>4. CASE Crash
  BY <1>4, Stutters DEF Crash, landed
<1>5. QED
  BY <1>1, <1>2, <1>3, <1>4

\* GET, PUT, GET and post, interleaved and abandoned anywhere, implement one
\* register per kind.
THEOREM Implements == Spec => ImplementsContract
<1>1. Init => Contract!Init
  BY DEF Init, Contract!Init
<1>2. IInv /\ [Next]_vars => [Contract!Next]_Contract!vars
  <2>1. UNCHANGED vars => UNCHANGED Contract!vars
    BY Stutters DEF vars, provider, run, landed
  <2>2. QED
    BY <2>1, CallsImplement, PostsImplement, OthersImplement
    DEF Next, Step, Environment, Quiescent
<1>3. QED
  BY <1>1, <1>2, Invariance, PTL DEF Spec, ImplementsContract, Contract!Spec
===============================================================================
