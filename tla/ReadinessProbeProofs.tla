------------------------- MODULE ReadinessProbeProofs -------------------------
(***************************************************************************)
(* Proofs about ReadinessProbe.  The argument: every step of the probe     *)
(* leaves a witness in past for what it has established, and nothing is    *)
(* ever taken out of past; when past holds one world only, all witnesses   *)
(* are that world.                                                         *)
(***************************************************************************)
EXTENDS ReadinessProbe, TLAPS

Now == [world |-> world, clock |-> clock]

\* What the steps so far have established, each with its witness.
Established ==
  /\ \A p \in past : p.clock <= clock
  /\ pc \notin {"configured", "failed"} => "configuration" \in sound
  /\ pc \in {"configured", "receiver"} => probed = {}
  /\ pc \in {"judge", "ready"} => "core" \in sound
  /\ pc \in {"expected", "probe", "authorize", "judge", "ready"} =>
       found # {} /\ \E p \in past : p.world.receiver = found
  /\ pc \in {"probe", "authorize", "judge", "ready"} =>
       \E p \in past : p.world.expected = found
  /\ \A a \in probed : \E p \in past : p.world.server[a].certificate = "required"
  /\ pc \in {"authorize", "judge", "ready"} => probed = found
  /\ pc \in {"judge", "ready"} => \E p \in past : p.world.grant = told
  /\ pc = "ready" => Authorization(told)

\* A probe that failed without a change or a fault was right to fail.
FailedRightly ==
  pc = "failed" /\ past = {Now} /\ faults = 0 => ~ (sound = Settings /\ Fit(world, clock))

IInv == TypeOK /\ Established /\ FailedRightly

------------------------------------------------------------------------------

\* A server that is well is seen to refuse exactly when it requires a certificate
\* (requireClientlessTLSRefusal, both TLS versions).
LEMMA RefusalMeansRequired ==
  ASSUME NEW s \in Server
  PROVE  requireClientlessTLSRefusal(Seen(s)) <=> s.certificate = "required"
BY DEF Server, Seen, requireClientlessTLSRefusal, isRequiredClientCertificateRefusal

\* No fault passes for a refusal.
LEMMA FaultsAreNoRefusal ==
  ASSUME NEW s \in Server, NEW x \in SeenFaulty(s)
  PROVE  ~ requireClientlessTLSRefusal(x)
<1> DEFINE Ends(r, a) == [response |-> FALSE, requested |-> r, version |-> s.version, alert |-> a]
<1>1. x.requested = FALSE \/ x.alert \in {"other", "timeout"}
  <2>1. CASE x \in {Ends(FALSE, a) : a \in {"handshake failure", "other", "timeout"}}
    <3>1. PICK a : x = Ends(FALSE, a)
      BY <2>1
    <3>2. QED
      BY <3>1, Zenon
  <2>2. CASE x \in {Ends(s.certificate # "ignored", a) : a \in {"other", "timeout"}}
    <3>1. PICK a \in {"other", "timeout"} : x = Ends(s.certificate # "ignored", a)
      BY <2>2, Zenon
    <3>2. x.alert = a
      BY <3>1, Zenon
    <3>3. QED
      BY <3>2
  <2>3. QED
    BY <2>1, <2>2, Zenon DEF SeenFaulty
<1>2. CASE x.requested = FALSE
  BY <1>2 DEF requireClientlessTLSRefusal
<1>3. CASE x.alert \in {"other", "timeout"}
  BY <1>3 DEF requireClientlessTLSRefusal, isRequiredClientCertificateRefusal
<1>4. QED
  BY <1>1, <1>2, <1>3

\* Only public addresses come out of a lookup.
LEMMA ResolvedIsPublic ==
  ASSUME NEW A \in SUBSET Addresses
  PROVE  resolvePublicAddresses(A) \subseteq Addresses \ Private
BY DEF resolvePublicAddresses

\* Initially nothing is established.
LEMMA InitIInv == Init => IInv
<1> SUFFICES ASSUME Init PROVE IInv
  OBVIOUS
<1>1. TypeOK
  <2>1. told \in Grant /\ clock \in 0 .. MaxTime
    BY ProbeAssumption DEF Init, Grant
  <2>2. changes \in 0 .. MaxChanges /\ faults \in 0 .. MaxFaults
    BY ProbeAssumption DEF Init
  <2>3. past \subseteq [world : World, clock : 0 .. MaxTime]
    BY <2>1 DEF Init
  <2>4. QED
    BY <2>1, <2>2, <2>3 DEF Init, TypeOK, Settings
<1>2. Established
  BY DEF Init, Established
<1>3. QED
  BY <1>1, <1>2 DEF Init, IInv, FailedRightly

------------------------------------------------------------------------------
(* Steps of the probe: the world and past stay *)

still == <<world, clock, changes, sound, past>>

\* Each step keeps the types.
LEMMA StepKeepsType ==
  ASSUME TypeOK, Established, Step
  PROVE  TypeOK'
<1> USE ProbeAssumption DEF TypeOK, Goto
<1>0. world.receiver \in SUBSET Addresses /\ world.grant \in Grant
  BY DEF World
<1>1. CASE Configured
  BY <1>1 DEF Configured
<1>2. CASE LookUpReceiver
  <2>1. found' \subseteq Addresses \ Private /\ probed' \subseteq found'
    BY <1>2, <1>0, ResolvedIsPublic DEF LookUpReceiver, Established
  <2>2. QED
    BY <1>2, <2>1 DEF LookUpReceiver
<1>3. CASE LookUpExpected
  BY <1>3 DEF LookUpExpected
<1>4. ASSUME NEW a, NEW x, Probe(a, x), faults' \in 0 .. MaxFaults
      PROVE  TypeOK'
  BY <1>4 DEF Probe
<1>5. CASE ProbeWell
  BY <1>5, <1>4 DEF ProbeWell
<1>6. CASE ProbeFaulty
  <2>1. faults' \in 0 .. MaxFaults
    BY <1>6 DEF ProbeFaulty, Fault
  <2>2. QED
    BY <1>6, <2>1, <1>4 DEF ProbeFaulty
<1>7. CASE AskCore
  BY <1>7, <1>0 DEF AskCore
<1>8. CASE Judge
  BY <1>8 DEF Judge
<1>9. CASE ExchangeFails
  BY <1>9 DEF ExchangeFails, Fault
<1>10. QED
  BY <1>1, <1>2, <1>3, <1>5, <1>6, <1>7, <1>8, <1>9 DEF Step

\* Each step adds what it has established in the world as it is.
LEMMA StepEstablishes ==
  ASSUME IInv, Step
  PROVE  Established'
<1> USE DEF IInv, TypeOK, Established, Goto
<1>0. Now \in past /\ Now.world = world /\ Now.clock = clock
  BY DEF Now
<1>1. CASE Configured
  BY <1>1 DEF Configured
<1>2. CASE LookUpReceiver
  <2>1. found' # {} => found' = world.receiver
    BY <1>2 DEF LookUpReceiver, resolvePublicAddresses
  <2>2. probed = {}
    BY <1>2 DEF LookUpReceiver
  <2>3. QED
    BY <1>2, <1>0, <2>1, <2>2 DEF LookUpReceiver
<1>3. CASE LookUpExpected
  BY <1>3, <1>0 DEF LookUpExpected, resolvePublicAddresses
<1>4. ASSUME NEW a \in found, NEW x, Probe(a, x),
             requireClientlessTLSRefusal(x) => world.server[a].certificate = "required"
      PROVE  Established'
  BY <1>4, <1>0 DEF Probe
<1>5. \A a \in found : world.server[a] \in Server
  BY DEF World
<1>6. CASE ProbeWell
  BY <1>6, <1>4, <1>5, RefusalMeansRequired DEF ProbeWell
<1>7. CASE ProbeFaulty
  BY <1>7, <1>4, <1>5, FaultsAreNoRefusal DEF ProbeFaulty
<1>8. CASE AskCore
  BY <1>8, <1>0 DEF AskCore
<1>9. CASE Judge
  BY <1>9 DEF Judge, Authorization
<1>10. CASE ExchangeFails
  BY <1>10 DEF ExchangeFails
<1>11. QED
  BY <1>1, <1>2, <1>3, <1>6, <1>7, <1>8, <1>9, <1>10 DEF Step

\* A step that fails without a fault contradicts what the world should be.
LEMMA StepFailsRightly ==
  ASSUME IInv, Step
  PROVE  FailedRightly'
<1> SUFFICES ASSUME pc' = "failed", (past = {Now})', faults' = 0
             PROVE  ~ (sound = Settings /\ Fit(world, clock))'
  BY DEF FailedRightly
<1>1. UNCHANGED still
  BY DEF Step, still, Configured, LookUpReceiver, LookUpExpected, ProbeWell, ProbeFaulty, Probe,
         AskCore, Judge, ExchangeFails
<1>2. past = {Now} /\ Now.world = world
  BY <1>1 DEF still, Now
<1>3. SUFFICES ~ (sound = Settings /\ Fit(world, clock))
  BY <1>1 DEF still, Fit
<1>4. faults = 0 /\ ~ ProbeFaulty /\ ~ ExchangeFails
  BY DEF IInv, TypeOK, Step, ProbeFaulty, ExchangeFails, Fault, Configured, LookUpReceiver,
         LookUpExpected, ProbeWell, Probe, AskCore, Judge
<1>5. CASE Configured
  BY <1>5 DEF Configured, Goto, Settings
<1>6. CASE LookUpReceiver
  BY <1>6 DEF LookUpReceiver, Goto, Fit, resolvePublicAddresses
<1>7. CASE LookUpExpected
  <2>1. pc = "expected" /\ world.receiver = found
    BY <1>7, <1>2 DEF LookUpExpected, Goto, IInv, Established
  <2>2. resolvePublicAddresses(world.expected) # found
    BY <1>7 DEF LookUpExpected, Goto
  <2>3. QED
    BY <2>1, <2>2 DEF Fit, resolvePublicAddresses
<1>8. CASE ProbeWell
  <2>1. PICK a \in found : Probe(a, Seen(world.server[a]))
    BY <1>8 DEF ProbeWell
  <2>2. pc = "probe" /\ world.receiver = found
    BY <2>1, <1>2 DEF Probe, Goto, IInv, Established
  <2>3. ~ requireClientlessTLSRefusal(Seen(world.server[a]))
    BY <2>1 DEF Probe, Goto
  <2>4. world.server[a] \in Server
    BY DEF IInv, TypeOK, World
  <2>5. QED
    BY <2>2, <2>3, <2>4, RefusalMeansRequired DEF Fit
<1>9. CASE AskCore
  BY <1>9 DEF AskCore, Goto, Settings
<1>10. CASE Judge
  <2>1. world.grant = told
    BY <1>10, <1>2 DEF Judge, Goto, IInv, Established
  <2>2. ~ Authorization(told)
    BY <1>10 DEF Judge, Goto
  <2>3. QED
    BY <2>1, <2>2 DEF Fit, Authorization
<1>11. QED
  BY <1>4, <1>5, <1>6, <1>7, <1>8, <1>9, <1>10 DEF Step

------------------------------------------------------------------------------
(* Steps of the world: past grows *)

\* A change, whatever world it leads to.
LEMMA ChangeKeepsIInv ==
  ASSUME IInv, NEW w \in World, Change(w)
  PROVE  IInv'
<1> USE DEF Change, Running, Remember
<1>1. TypeOK'
  BY ProbeAssumption DEF IInv, TypeOK
<1>2. past \subseteq past' /\ \A p \in past' : p \in past \/ p.clock = clock
  OBVIOUS
<1>3. Established'
  BY <1>2 DEF IInv, TypeOK, Established
<1>4. QED
  BY <1>1, <1>3 DEF IInv, FailedRightly

\* Time passes.
LEMMA TickKeepsIInv ==
  ASSUME IInv, Tick
  PROVE  IInv'
<1> USE DEF Tick, Running, Remember
<1>1. TypeOK'
  BY ProbeAssumption DEF IInv, TypeOK
<1>2. past \subseteq past' /\ \A p \in past' : p \in past \/ p.clock = clock'
  OBVIOUS
<1>3. \A p \in past' : p.clock <= clock'
  BY <1>2 DEF IInv, TypeOK, Established
<1>4. Established'
  BY <1>2, <1>3 DEF IInv, Established
<1>5. QED
  BY <1>1, <1>4 DEF IInv, FailedRightly

\* The changes of the model lead to worlds.
LEMMA ChangesLeadToWorlds ==
  ASSUME TypeOK, DNSChanges \/ ServerChanges \/ GrantChanges
  PROVE  \E w \in World : Change(w)
<1> USE DEF TypeOK, World
<1>1. CASE DNSChanges
  <2>1. PICK A \in SUBSET Addresses, name \in {"receiver", "expected"} :
          Change([world EXCEPT ![name] = A])
    BY <1>1 DEF DNSChanges
  <2>2. CASE name = "receiver"
    <3>1. [world EXCEPT !["receiver"] = A] \in World
      OBVIOUS
    <3>2. QED
      BY <2>1, <2>2, <3>1
  <2>3. CASE name = "expected"
    <3>1. [world EXCEPT !["expected"] = A] \in World
      OBVIOUS
    <3>2. QED
      BY <2>1, <2>3, <3>1
  <2>4. QED
    BY <2>2, <2>3
<1>2. CASE ServerChanges
  BY <1>2 DEF ServerChanges
<1>3. CASE GrantChanges
  BY <1>3 DEF GrantChanges
<1>4. QED
  BY <1>1, <1>2, <1>3

------------------------------------------------------------------------------

\* Every step keeps the invariant.
LEMMA NextIInv == IInv /\ [Next]_vars => IInv'
<1> SUFFICES ASSUME IInv, [Next]_vars PROVE IInv'
  OBVIOUS
<1>1. CASE Step
  BY <1>1, StepKeepsType, StepEstablishes, StepFailsRightly DEF IInv
<1>2. CASE DNSChanges \/ ServerChanges \/ GrantChanges
  BY <1>2, ChangesLeadToWorlds, ChangeKeepsIInv DEF IInv
<1>3. CASE Tick
  BY <1>3, TickKeepsIInv
<1>4. CASE Quiescent \/ UNCHANGED vars
  BY <1>4 DEF Quiescent, vars, IInv, TypeOK, Established, FailedRightly, Now, Authorization, Fit
<1>5. QED
  BY <1>1, <1>2, <1>3, <1>4 DEF Next

\* The inductive invariant: each step's witness is kept in past, and a probe that
\* failed in a world that stood still was right.
THEOREM Invariance == Spec => []IInv
BY InitIInv, NextIInv, PTL DEF Spec

\* Type correctness: no address that is not public is ever probed.
THEOREM TypeCorrect == Spec => []TypeOK
<1>1. IInv => TypeOK
  BY DEF IInv
<1>2. QED
  BY <1>1, Invariance, PTL

\* Whatever changes during the probe, ready claims only what was so at a moment.
THEOREM ReadyEarned == Spec => []ReadyIsEarned
<1>1. IInv => ReadyIsEarned
  <2> SUFFICES ASSUME IInv, pc = "ready" PROVE ReadyIsEarned
    BY DEF ReadyIsEarned
  <2> USE DEF IInv, Established
  <2>1. sound = Settings
    BY DEF TypeOK, Settings
  <2>2. \E p \in past : p.world.grant = told /\ told.exact /\ told.expires > p.clock
    <3>1. PICK p \in past : p.world.grant = told
      OBVIOUS
    <3>2. p.clock \in Nat /\ clock \in Nat /\ told.expires \in Nat
      BY ProbeAssumption DEF TypeOK, Grant
    <3>3. told.expires > p.clock /\ told.exact
      BY <3>2 DEF Authorization
    <3>4. QED
      BY <3>1, <3>3
  <2>3. QED
    BY <2>1, <2>2 DEF ReadyIsEarned
<1>2. QED
  BY <1>1, Invariance, PTL

\* With any number of addresses: in a world that stands still the verdict is true.
THEOREM SteadyJudgedRight == Spec => []SteadyWorldIsJudgedRight
<1>1. IInv => SteadyWorldIsJudgedRight
  <2> SUFFICES ASSUME IInv, past = {Now}, faults = 0, Ended
               PROVE  pc = "ready" <=> sound = Settings /\ Fit(world, clock)
    BY DEF SteadyWorldIsJudgedRight, Now
  <2> USE DEF IInv, Established
  <2>1. CASE pc = "failed"
    BY <2>1 DEF FailedRightly
  <2>2. CASE pc = "ready"
    <3>1. sound = Settings
      BY <2>2 DEF TypeOK, Settings
    <3>2. Now.world = world
      BY DEF Now
    <3>3. world.receiver = found /\ world.expected = found /\ found # {}
      BY <2>2, <3>2
    <3>4. found \cap Private = {}
      BY DEF TypeOK
    <3>5. \A a \in found : world.server[a].certificate = "required"
      BY <2>2, <3>2
    <3>6. world.grant.exact /\ world.grant.expires > clock
      BY <2>2, <3>2 DEF Authorization
    <3>7. QED
      BY <2>2, <3>1, <3>3, <3>4, <3>5, <3>6 DEF Fit
  <2>3. QED
    BY <2>1, <2>2 DEF Ended
<1>2. QED
  BY <1>1, Invariance, PTL
===============================================================================
