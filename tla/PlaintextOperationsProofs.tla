----------------------- MODULE PlaintextOperationsProofs -----------------------
(***************************************************************************)
(* Theorems about PlaintextOperations for every set of runs, requests and  *)
(* keys, every input and both kinds of account.                            *)
(*                                                                         *)
(* The inductive invariant says how far a run is and which checks it has   *)
(* passed, that an object carries the identity its request named, and      *)
(* that an answer of the provider was true when it was given: the history  *)
(* remembers it, or it still is.                                           *)
(***************************************************************************)
EXTENDS PlaintextOperations, TLAPS

\* A call is out exactly from its sending on; an answer is given once, after it.
CallFollowsPc ==
  \A h \in Runs :
    /\ pc[h] \in {"idle", "admit", "call"} => wire[h] = "none"
    /\ pc[h] \in {"wait", "wait3", "emit"} => wire[h] # "none"
    /\ pc[h] \in {"idle", "admit", "call", "wait", "wait3"} => answer[h] = "none"
    /\ pc[h] = "emit" => answer[h] = "ok"
    /\ wire[h] # "none" => req[h] \in Requests

\* Only a request that passed its checks is called.
CalledIsChecked ==
  \A h \in Runs : pc[h] = "call" \/ wire[h] # "none" => Checked(req[h])

\* What the provider concluded, and a destroy's 404 for no such object.
Told(h) == wire[h] = "accepted" \/ (wire[h] = "missing" /\ Destroys(req[h]))

\* What a live run was told is true, or was at a moment since its call.
ToldIsTrue == \A h \in Runs : Live(h) /\ Told(h) => h \in truths \/ Says(h)

\* An ok stands on an acceptance or on a 404.
OkIsTold ==
  \A h \in Runs :
    answer[h] = "ok" =>
      /\ wire[h] = "accepted" \/ (wire[h] \in {"missing", "unrouted"} /\ Destroys(req[h]))
      /\ wire[h] # "unrouted" => h \in truths

\* The core hears only of runs that answered ok.
PostedIsOk == \A e \in posted : e.run \in Runs /\ answer[e.run] = "ok"

IInv ==
  /\ TypeOK
  /\ CallFollowsPc
  /\ CalledIsChecked
  /\ ToldIsTrue
  /\ OkIsTold
  /\ PostedIsOk
  /\ OneObjectPerIntent
------------------------------------------------------------------------------
(* Requests and what they are about *)

\* The operations that make an object, those that only look, and those that
\* remove one are different ones.
LEMMA Kinds ==
  ASSUME NEW r
  PROVE  /\ Ensures(r) \/ Moves(r) => ~ Destroys(r) /\ ~ Observes(r)
         /\ Observes(r) => ~ Destroys(r)
  BY DEF Ensures, Moves, Destroys, Observes

\* A request that passed its checks is about an identity.
LEMMA TargetTyped ==
  ASSUME NEW h \in Runs, req[h] \in Requests, Checked(req[h])
  PROVE  Target(h) \in Ids
<1> DEFINE r == req[h]
<1>1. Input[r].key \in Keys \cup {None} /\ Input[r].ref \in Keys \cup {None}
  BY InputAssumption DEF InputRecord
<1>2. Destroys(r) => DestroyWithDesired(r) \in Keys
  <2>1. Destroys(r) => DestroyWithDesired(r) # None
    BY DEF Checked, Destroys, Observes, Destroy
  <2>2. QED
    BY <1>1, <2>1 DEF DestroyWithDesired
<1>3. Collection(r) \in Collections
  BY DEF Collection, Collections
<1>4. (IF Named(r) = None /\ ~ Destroys(r) THEN h ELSE Named(r)) \in Keys \cup Runs
  BY <1>1, <1>2 DEF Named
<1>5. QED
  BY <1>3, <1>4 DEF Target, Ids

\* A request that names what it makes makes that.
LEMMA NamedTarget ==
  ASSUME NEW h \in Runs, Ensures(req[h]) \/ Moves(req[h]), Input[req[h]].key # None
  PROVE  Target(h) = <<Collection(req[h]), Input[req[h]].key>>
  BY Kinds DEF Target, Named

\* The name of an event is an identity or none; its resource is one of three.
LEMMA EventTyped ==
  ASSUME NEW h \in Runs, req[h] \in Requests
  PROVE  /\ Event(h) \in [run : Runs, resource : {"charge", "due_charge", "webhook_subscription"},
                          name : Keys \cup {None}, verb : {"ensured", "destroyed"}]
         /\ Event(h).run = h
<1>1. EventName(req[h]) \in Keys \cup {None}
  BY InputAssumption DEF EventName, InputRecord
<1>2. Resource(req[h]) \in {"charge", "due_charge", "webhook_subscription"}
  BY DEF Resource
<1>3. QED
  BY <1>1, <1>2 DEF Event
------------------------------------------------------------------------------
(* The invariant is inductive *)

\* What every step but a stuttering one does besides its action.
Remembers ==
  /\ setter' = setter
  /\ truths' = truths \cup {h \in Runs : Live(h) /\ wire[h] # "none" /\ Says(h)}

\* What a run was told enters the history at the next step, whatever that step is.
LEMMA Remembering ==
  ASSUME IInv, Remembers, NEW g \in Runs
  PROVE  /\ g \in truths => g \in truths'
         /\ Live(g) /\ Told(g) => g \in truths'
         /\ answer[g] = "ok" /\ wire[g] # "unrouted" => g \in truths'
  BY DEF IInv, Remembers, ToldIsTrue, OkIsTold, Told

\* A run that keeps its request keeps what its call is about.
LEMMA SameTarget ==
  ASSUME NEW g \in Runs, req'[g] = req[g]
  PROVE  Target(g)' = Target(g)
  BY DEF Target

\* Initially nothing is called, made or answered.
LEMMA InitIInv == Init => IInv
<1> SUFFICES ASSUME Init PROVE IInv
  OBVIOUS
<1>1. TypeOK
  BY InputAssumption DEF Init, TypeOK
<1>2. OneObjectPerIntent
  BY DEF Init, OneObjectPerIntent, Made
<1>3. CallFollowsPc /\ CalledIsChecked /\ ToldIsTrue /\ OkIsTold /\ PostedIsOk
  BY DEF Init, CallFollowsPc, CalledIsChecked, ToldIsTrue, Told, OkIsTold, PostedIsOk
<1>4. QED
  BY <1>1, <1>2, <1>3 DEF IInv

\* Steps that leave the provider's objects alone keep what was made of them.
LEMMA SameObjects ==
  ASSUME OneObjectPerIntent, objects' = objects
  PROVE  OneObjectPerIntent'
  BY DEF OneObjectPerIntent, Made

\* Taking a request: nothing of the run is called yet.
LEMMA ServeKeeps ==
  ASSUME IInv, Remembers, NEW h \in Runs, NEW r \in Requests, Serve(h, r)
  PROVE  IInv'
<1> USE DEF Serve, Goto
<1>1. TypeOK'
  <2>1. ASSUME NEW g \in Runs, wire'[g] # "none" PROVE Target(g)' \in Ids
    <3>1. g # h
      BY <2>1 DEF IInv, CallFollowsPc
    <3>2. Target(g)' = Target(g)
      BY <3>1, SameTarget DEF IInv, TypeOK
    <3>3. QED
      BY <2>1, <3>2 DEF IInv, TypeOK
  <2>2. QED
    BY <2>1, InputAssumption DEF IInv, TypeOK, Remembers
<1>2. CallFollowsPc' /\ CalledIsChecked'
  BY DEF IInv, TypeOK, CallFollowsPc, CalledIsChecked
<1>3. ToldIsTrue'
  <2> SUFFICES ASSUME NEW g \in Runs, Live(g)', Told(g)' PROVE g \in truths'
    BY DEF ToldIsTrue
  <2>1. g # h
    BY DEF IInv, CallFollowsPc, Told
  <2>2. QED
    BY <2>1, Remembering DEF IInv, TypeOK, Live, Told
<1>4. OkIsTold'
  BY Remembering DEF IInv, TypeOK, OkIsTold, CallFollowsPc
<1>5. PostedIsOk' /\ OneObjectPerIntent'
  BY SameObjects DEF IInv, PostedIsOk
<1>6. QED
  BY <1>1, <1>2, <1>3, <1>4, <1>5 DEF IInv

\* A step of a run that leaves requests and objects alone and tells the run
\* nothing: its typing, what its call is about and what was told before stay.
LEMMA RunFrame ==
  ASSUME IInv, Remembers, UNCHANGED <<objects, req>>, NEW g \in Runs,
         Live(g)' => Live(g),
         Told(g)' => Told(g)
  PROVE  /\ Target(g)' = Target(g)
         /\ Live(g)' /\ Told(g)' => g \in truths'
  BY SameTarget, Remembering

\* A run is admitted, or sends its call: nothing is answered yet.
LEMMA CallStepKeeps ==
  ASSUME IInv, Remembers, NEW h \in Runs, Admitted(h) \/ SendCall(h) \/ SendFallback(h)
  PROVE  IInv'
<1> USE DEF Admitted, SendCall, SendFallback, Goto
<1>1. h \in Runs /\ req[h] \in Requests /\ Live(h)
  BY DEF IInv, TypeOK, Live
<1>2. Checked(req[h])'
  BY DEF IInv, CalledIsChecked, CallFollowsPc, NotFound
<1>3. TypeOK'
  <2>1. ASSUME NEW g \in Runs, wire'[g] # "none" PROVE Target(g)' \in Ids
    <3>1. CASE g = h
      BY <1>1, <1>2, <3>1, TargetTyped, SameTarget
    <3>2. CASE g # h
      BY <2>1, <3>2, SameTarget DEF IInv, TypeOK
    <3>3. QED
      BY <3>1, <3>2
  <2>2. QED
    BY <1>1, <2>1 DEF IInv, TypeOK, Remembers
<1>4. CallFollowsPc'
  BY <1>1 DEF IInv, TypeOK, CallFollowsPc
<1>5. CalledIsChecked'
  BY <1>2 DEF IInv, TypeOK, CalledIsChecked
<1>6. ToldIsTrue'
  <2> SUFFICES ASSUME NEW g \in Runs, Live(g)', Told(g)' PROVE g \in truths'
    BY DEF ToldIsTrue
  <2>1. Told(g)' => Told(g)
    BY DEF IInv, TypeOK, CallFollowsPc, Told
  <2>2. Live(g)' => Live(g)
    BY <1>1 DEF IInv, TypeOK, Live
  <2>3. QED
    BY <2>1, <2>2, RunFrame
<1>7. OkIsTold'
  BY Remembering DEF IInv, TypeOK, OkIsTold, CallFollowsPc
<1>8. PostedIsOk' /\ OneObjectPerIntent'
  BY SameObjects DEF IInv, PostedIsOk
<1>9. QED
  BY <1>3, <1>4, <1>5, <1>6, <1>7, <1>8 DEF IInv

\* A run concludes: it was told what it says, and the history has it.
LEMMA ConcludeKeeps ==
  ASSUME IInv, Remembers, NEW h \in Runs,
         \/ \E from \in {"wait", "wait3"} : Accepted(h, from)
         \/ AlreadyAbsent(h)
         \/ \E from \in {"admit", "wait", "wait3"} : Failed(h, from)
  PROVE  IInv'
<1> USE DEF Conclude, Goto
<1>1. PICK from \in {"admit", "wait", "wait3"}, to \in {"emit", "reply"}, a \in {"ok", "failed"} :
        /\ Conclude(h, from, to, a)
        /\ to = "emit" => a = "ok"
        /\ a = "ok" => /\ from # "admit"
                       /\ \/ wire[h] = "accepted"
                          \/ wire[h] \in {"missing", "unrouted"} /\ Destroys(req[h])
  BY DEF Accepted, AlreadyAbsent, Failed, AfterSuccess, NotFound
<1>2. req[h] \in Requests /\ Live(h)
  BY <1>1 DEF IInv, TypeOK, Live
<1>3. TypeOK'
  <2>1. \A g \in Runs : Target(g)' = Target(g)
    BY <1>1, SameTarget
  <2>2. QED
    BY <1>1, <1>2, <2>1 DEF IInv, TypeOK, Remembers
<1>4. CallFollowsPc'
  BY <1>1 DEF IInv, TypeOK, CallFollowsPc
<1>5. CalledIsChecked'
  BY <1>1 DEF IInv, TypeOK, CalledIsChecked
<1>6. ToldIsTrue'
  <2> SUFFICES ASSUME NEW g \in Runs, Live(g)', Told(g)' PROVE g \in truths'
    BY DEF ToldIsTrue
  <2>1. Told(g)' => Told(g)
    BY <1>1 DEF Told
  <2>2. Live(g)' => Live(g)
    BY <1>1, <1>2 DEF IInv, TypeOK, Live
  <2>3. QED
    BY <1>1, <2>1, <2>2, RunFrame
<1>7. OkIsTold'
  <2> SUFFICES ASSUME NEW g \in Runs, answer'[g] = "ok"
               PROVE  /\ \/ wire'[g] = "accepted"
                         \/ wire'[g] \in {"missing", "unrouted"} /\ Destroys(req'[g])
                      /\ wire'[g] # "unrouted" => g \in truths'
    BY DEF OkIsTold
  <2>1. CASE g = h
    <3>1. a = "ok"
      BY <1>1, <2>1 DEF IInv, TypeOK
    <3>2. wire[h] # "unrouted" => Told(h)
      BY <1>1, <3>1 DEF Told
    <3>3. QED
      BY <1>1, <1>2, <2>1, <3>1, <3>2, Remembering
  <2>2. CASE g # h
    BY <1>1, <2>2, Remembering DEF IInv, TypeOK, OkIsTold
  <2>3. QED
    BY <2>1, <2>2
<1>8. PostedIsOk'
  BY <1>1 DEF IInv, TypeOK, PostedIsOk, CallFollowsPc
<1>9. OneObjectPerIntent'
  BY <1>1, SameObjects DEF IInv
<1>10. QED
  BY <1>3, <1>4, <1>5, <1>6, <1>7, <1>8, <1>9 DEF IInv

\* A run that has its answer posts the event, or loses it, and replies.
LEMMA EndStepKeeps ==
  ASSUME IInv, Remembers, NEW h \in Runs,
         Reply(h) \/ \E sent \in BOOLEAN : Emit(h, sent)
  PROVE  IInv'
<1> USE DEF Goto
<1>1. UNCHANGED <<objects, req, wire, answer>> /\ req[h] \in Requests /\ Live(h)
  BY DEF Reply, Emit, IInv, TypeOK, Live
<1>2. PICK to \in {"reply", "done"} : pc' = [pc EXCEPT ![h] = to]
  BY DEF Reply, Emit
<1>3. posted' = posted \/ (posted' = posted \cup {Event(h)} /\ answer[h] = "ok")
  BY DEF Reply, Emit, IInv, CallFollowsPc
<1>4. TypeOK'
  <2>1. \A g \in Runs : Target(g)' = Target(g)
    BY <1>1, SameTarget
  <2>2. posted' \subseteq [run : Runs, resource : {"charge", "due_charge", "webhook_subscription"},
                           name : Keys \cup {None}, verb : {"ensured", "destroyed"}]
    BY <1>1, <1>3, EventTyped DEF IInv, TypeOK
  <2>3. QED
    BY <1>1, <1>2, <2>1, <2>2 DEF IInv, TypeOK, Remembers, Live
<1>5. CallFollowsPc' /\ CalledIsChecked'
  BY <1>1, <1>2 DEF IInv, TypeOK, CallFollowsPc, CalledIsChecked, Live
<1>6. ToldIsTrue'
  <2> SUFFICES ASSUME NEW g \in Runs, Live(g)', Told(g)' PROVE g \in truths'
    BY DEF ToldIsTrue
  <2>1. (Told(g)' => Told(g)) /\ (Live(g)' => Live(g))
    BY <1>1, <1>2 DEF IInv, TypeOK, Told, Live
  <2>2. QED
    BY <1>1, <2>1, RunFrame
<1>7. OkIsTold'
  BY <1>1, Remembering DEF IInv, OkIsTold
<1>8. PostedIsOk' /\ OneObjectPerIntent'
  BY <1>1, <1>3, EventTyped, SameObjects DEF IInv, PostedIsOk
<1>9. QED
  BY <1>4, <1>5, <1>6, <1>7, <1>8 DEF IInv

\* The provider's answer is true as it is given, and what other runs were told
\* was true in the state it changes.
LEMMA AnswerTells ==
  ASSUME IInv, Remembers, NEW h \in Runs, NEW status, Answer(h, status), OnTheWay(h),
         status \in {"accepted", "missing", "unrouted", "refused"},
         objects' \in [Ids -> [by : Requests, active : BOOLEAN] \cup {None}],
         Told(h)' => Says(h)',
         OneObjectPerIntent'
  PROVE  IInv'
<1> USE DEF Answer
<1>1. wire[h] \in {"sent", "fallback"} /\ answer[h] # "ok"
  BY DEF OnTheWay, IInv, OkIsTold
<1>2. TypeOK'
  <2>1. ASSUME NEW g \in Runs, wire'[g] # "none" PROVE Target(g)' \in Ids
    BY <1>1, <2>1, SameTarget DEF IInv, TypeOK
  <2>2. QED
    BY <2>1 DEF IInv, TypeOK, Remembers
<1>3. CallFollowsPc' /\ CalledIsChecked'
  BY <1>1 DEF IInv, TypeOK, CallFollowsPc, CalledIsChecked
<1>4. ToldIsTrue'
  <2> SUFFICES ASSUME NEW g \in Runs, Live(g)', Told(g)' PROVE g \in truths' \/ Says(g)'
    BY DEF ToldIsTrue
  <2>1. CASE g = h
    BY <2>1
  <2>2. CASE g # h
    <3>1. Live(g) /\ Told(g)
      BY <2>2 DEF IInv, TypeOK, Live, Told
    <3>2. QED
      BY <3>1, Remembering
  <2>3. QED
    BY <2>1, <2>2
<1>5. OkIsTold'
  BY <1>1, Remembering DEF IInv, TypeOK, OkIsTold
<1>6. PostedIsOk'
  BY DEF IInv, PostedIsOk
<1>7. QED
  BY <1>2, <1>3, <1>4, <1>5, <1>6 DEF IInv

\* A call is about an identity of the provider.
LEMMA CalledTarget ==
  ASSUME IInv, NEW h \in Runs, OnTheWay(h)
  PROVE  Target(h) \in Ids /\ req[h] \in Requests
  BY DEF IInv, TypeOK, OnTheWay, CallFollowsPc

\* A PUT or POST is applied: the object exists, and is the one its request named.
LEMMA CreateKeeps ==
  ASSUME IInv, Remembers, NEW h \in Runs, ProviderCreates(h)
  PROVE  IInv'
<1> DEFINE x == Target(h)
           made == [by |-> req[h], active |-> TRUE]
<1>1. OnTheWay(h) /\ Answer(h, "accepted") /\ (Ensures(req[h]) \/ Moves(req[h]))
  BY DEF ProviderCreates
<1>2. x \in Ids /\ req[h] \in Requests
  BY <1>1, CalledTarget
<1>3. \/ objects' = [objects EXCEPT ![x] = made]
      \/ objects[x] # None /\ objects' = objects
  BY DEF ProviderCreates
<1>4. made \in [by : Requests, active : BOOLEAN] /\ made # None
  <2>1. made \in [by : Requests, active : BOOLEAN]
    BY <1>2
  <2>2. None \notin [by : Requests, active : BOOLEAN]
    BY InputAssumption
  <2>3. QED
    BY <2>1, <2>2
<1>5. objects' \in [Ids -> [by : Requests, active : BOOLEAN] \cup {None}]
  BY <1>2, <1>3, <1>4 DEF IInv, TypeOK
<1>6. Says(h)'
  <2>1. req' = req /\ x' = x
    BY <1>1, SameTarget DEF Answer
  <2>2. objects'[x] # None
    BY <1>2, <1>3, <1>4 DEF IInv, TypeOK
  <2>3. ~ Destroys(req[h])
    BY <1>1, Kinds
  <2>4. QED
    BY <2>1, <2>2, <2>3 DEF Says, Exists
<1>7. OneObjectPerIntent'
  <2> SUFFICES ASSUME NEW r \in Requests, Input[r].key # None, NEW y \in Ids,
                      objects'[y] # None, objects'[y].by = r
               PROVE  y = <<Collection(r), Input[r].key>>
    BY DEF OneObjectPerIntent, Made
  <2>1. CASE objects'[y] = objects[y]
    BY <2>1 DEF IInv, OneObjectPerIntent, Made
  <2>2. CASE y = x /\ objects' = [objects EXCEPT ![x] = made]
    <3>1. r = req[h]
      BY <1>2, <2>2 DEF IInv, TypeOK
    <3>2. QED
      BY <1>1, <2>2, <3>1, NamedTarget
  <2>3. QED
    BY <1>2, <1>3, <2>1, <2>2 DEF IInv, TypeOK
<1>8. QED
  BY <1>1, <1>5, <1>6, <1>7, AnswerTells

\* A PATCH or DELETE is applied: no object gets another identity or another maker.
LEMMA RemoveKeeps ==
  ASSUME IInv, Remembers, NEW h \in Runs, ProviderRemoves(h)
  PROVE  IInv'
<1> DEFINE x == Target(h)
           left == IF Webhooks(req[h]) THEN None ELSE [objects[x] EXCEPT !.active = FALSE]
<1>1. OnTheWay(h) /\ Answer(h, "accepted") /\ Destroys(req[h]) /\ objects[x] # None
  BY DEF ProviderRemoves
<1>2. x \in Ids /\ req[h] \in Requests
  BY <1>1, CalledTarget
<1>3. objects' = [objects EXCEPT ![x] = left]
  BY DEF ProviderRemoves
<1>4. objects[x] \in [by : Requests, active : BOOLEAN]
  BY <1>1, <1>2 DEF IInv, TypeOK
<1>5. left = None \/ (left \in [by : Requests, active : BOOLEAN] /\ ~ left.active
                      /\ left.by = objects[x].by)
  BY <1>4
<1>6. objects' \in [Ids -> [by : Requests, active : BOOLEAN] \cup {None}]
  BY <1>2, <1>3, <1>5 DEF IInv, TypeOK
<1>7. Says(h)'
  <2>1. req' = req /\ x' = x
    BY <1>1, SameTarget DEF Answer
  <2>2. objects'[x] = left
    BY <1>2, <1>3 DEF IInv, TypeOK
  <2>3. QED
    BY <1>1, <1>5, <2>1, <2>2 DEF Says, Active, Exists
<1>8. OneObjectPerIntent'
  <2> SUFFICES ASSUME NEW r \in Requests, Input[r].key # None, NEW y \in Ids,
                      objects'[y] # None, objects'[y].by = r
               PROVE  y = <<Collection(r), Input[r].key>>
    BY DEF OneObjectPerIntent, Made
  <2>1. objects[y] # None /\ objects[y].by = r
    BY <1>1, <1>2, <1>3, <1>5 DEF IInv, TypeOK
  <2>2. QED
    BY <2>1 DEF IInv, OneObjectPerIntent, Made
<1>9. QED
  BY <1>1, <1>6, <1>7, <1>8, AnswerTells

\* The provider answers without changing anything.
LEMMA LookKeeps ==
  ASSUME IInv, Remembers, NEW h \in Runs,
         ProviderReads(h) \/ ProviderMisses(h) \/ ProviderHasNoPath(h) \/ ProviderRefuses(h)
  PROVE  IInv'
<1>1. PICK status \in {"accepted", "missing", "unrouted", "refused"} :
        /\ Answer(h, status)
        /\ OnTheWay(h) /\ objects' = objects
        /\ status = "accepted" =>
             Observes(req[h]) /\ (Named(req[h]) = None \/ objects[Target(h)] # None)
        /\ status = "missing" => objects[Target(h)] = None
  BY DEF ProviderReads, ProviderMisses, ProviderHasNoPath, ProviderRefuses
<1>2. wire'[h] = status /\ req' = req /\ Target(h)' = Target(h)
  BY <1>1, SameTarget DEF Answer, IInv, TypeOK
<1>3. Told(h)' => Says(h)'
  BY <1>1, <1>2, Kinds DEF Told, Says, Active, Exists
<1>4. OneObjectPerIntent' /\ objects' \in [Ids -> [by : Requests, active : BOOLEAN] \cup {None}]
  BY <1>1, SameObjects DEF IInv, TypeOK
<1>5. QED
  BY <1>1, <1>3, <1>4, AnswerTells

\* The process dies: its runs are not live any more, their calls stay out.
LEMMA CrashKeeps ==
  ASSUME IInv, Remembers, Crash
  PROVE  IInv'
<1>1. UNCHANGED <<objects, req, wire, answer, posted>>
  BY DEF Crash
<1>2. \A g \in Runs : pc'[g] = IF Live(g) THEN "dead" ELSE pc[g]
  BY DEF Crash
<1>3. TypeOK'
  <2>1. \A g \in Runs : Target(g)' = Target(g)
    BY <1>1, SameTarget
  <2>2. pc' \in [Runs -> {"idle", "done", "dead"}]
    BY DEF Crash, IInv, TypeOK, Live
  <2>3. \A g \in Runs : pc'[g] # "idle" <=> pc[g] # "idle"
    BY <1>2 DEF Live
  <2>4. QED
    BY <1>1, <2>1, <2>2, <2>3 DEF IInv, TypeOK, Remembers
<1>4. CallFollowsPc' /\ CalledIsChecked'
  BY <1>1, <1>2 DEF IInv, CallFollowsPc, CalledIsChecked, Live
<1>5. ToldIsTrue'
  BY <1>2 DEF ToldIsTrue, Live
<1>6. OkIsTold'
  BY <1>1, Remembering DEF IInv, OkIsTold
<1>7. PostedIsOk' /\ OneObjectPerIntent'
  BY <1>1, SameObjects DEF IInv, PostedIsOk
<1>8. QED
  BY <1>3, <1>4, <1>5, <1>6, <1>7 DEF IInv

\* When nothing is left to do only the history may grow.
LEMMA QuiescentKeeps ==
  ASSUME IInv, Remembers, UNCHANGED <<objects, pc, req, wire, answer, posted>>
  PROVE  IInv'
<1>1. \A g \in Runs : Target(g)' = Target(g) /\ (Live(g)' <=> Live(g)) /\ (Told(g)' <=> Told(g))
  BY SameTarget DEF Live, Told
<1>2. TypeOK' /\ CallFollowsPc' /\ CalledIsChecked'
  BY <1>1 DEF IInv, TypeOK, Remembers, CallFollowsPc, CalledIsChecked
<1>3. ToldIsTrue'
  BY <1>1, Remembering DEF ToldIsTrue
<1>4. OkIsTold' /\ PostedIsOk' /\ OneObjectPerIntent'
  BY Remembering, SameObjects DEF IInv, OkIsTold, PostedIsOk
<1>5. QED
  BY <1>2, <1>3, <1>4 DEF IInv

\* Every step keeps the invariant: of a run, of the provider, a delivery, a crash.
LEMMA NextKeepsIInv == IInv /\ [Next]_vars => IInv'
<1> SUFFICES ASSUME IInv, [Next]_vars PROVE IInv'
  OBVIOUS
<1>1. CASE UNCHANGED vars
  BY <1>1 DEF vars, IInv, TypeOK, CallFollowsPc, CalledIsChecked, ToldIsTrue, Told, OkIsTold,
              PostedIsOk, OneObjectPerIntent, Made, Says, Active, Exists, Target, Live
<1>2. CASE Next
  <2>1. Remembers
    BY <1>2 DEF Next, Remembers
  <2>2. ASSUME NEW h \in Runs, Step(h) PROVE IInv'
    BY <2>1, <2>2, CallStepKeeps, ConcludeKeeps, EndStepKeeps DEF Step
  <2>3. CASE Environment
    BY <2>1, <2>3, ServeKeeps, CreateKeeps, RemoveKeeps, LookKeeps, CrashKeeps DEF Environment
  <2>4. CASE Quiescent
    BY <2>1, <2>4, QuiescentKeeps DEF Quiescent
  <2>5. QED
    BY <1>2, <2>2, <2>3, <2>4 DEF Next
<1>3. QED
  BY <1>1, <1>2

\* The inductive invariant holds throughout.
THEOREM Invariance == Spec => []IInv
  BY InitIInv, NextKeepsIInv, PTL DEF Spec
------------------------------------------------------------------------------
(* What it implies *)

\* Every variable keeps its type, and a call is about one identity: the checks
\* of every capability leave nothing to call without one.
THEOREM TypeCorrect == Spec => []TypeOK
<1>1. IInv => TypeOK
  BY DEF IInv
<1>2. QED
  BY <1>1, Invariance, PTL

\* However many runs serve a request that names its object, however late their
\* calls are applied, it makes no object but that one.
THEOREM IntentsActOnce == Spec => []OneObjectPerIntent
<1>1. IInv => OneObjectPerIntent
  BY DEF IInv
<1>2. QED
  BY <1>1, Invariance, PTL

\* What an ok says was true during its run, for any number of rival runs, except
\* after a 404 of a path the account does not have.
THEOREM AnswersEarned == Spec => []AnswersAreEarned
<1>1. IInv => AnswersAreEarned
  BY DEF IInv, OkIsTold, PostedIsOk, AnswersAreEarned
<1>2. QED
  BY <1>1, Invariance, PTL
================================================================================
