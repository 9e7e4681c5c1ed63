---------------------------- MODULE ReadinessProbe ----------------------------
(***************************************************************************)
(* observe_automatic_webhook_readiness: proves, one exchange after the     *)
(* other, what must hold before the automatic webhook may be registered,   *)
(* in a world that may change between any two of its exchanges.            *)
(*                                                                         *)
(* Abstracted: the syntax of names and URLs (a setting is sound or it is   *)
(* not), fingerprints, the layout of the evidence and its digest.  The     *)
(* resolver, the receiver's servers and the core are external.             *)
(***************************************************************************)
EXTENDS Integers

CONSTANTS
  Addresses,  \* addresses a lookup may give
  Private,    \* those of them that are not publicly routable
  MaxTime,    \* bound of the clock
  MaxChanges, \* bound of the changes of the world
  MaxFaults   \* bound of the exchanges that go wrong

ASSUME ProbeAssumption ==
  /\ Private \subseteq Addresses
  /\ {MaxTime, MaxChanges, MaxFaults} \subseteq Nat

\* What must be sound: the request and the configuration before anything is asked,
\* the core's address and token only when the core is.
Settings == {"configuration", "core"}

\* What a server does with a client without a certificate, by TLS version.
Server == [version : {12, 13}, certificate : {"ignored", "optional", "required"}]

\* What the core holds for the adapter's principal: the reviewed grants exactly, or
\* anything else; and when the principal expires.
Grant == [exact : BOOLEAN, expires : 0 .. MaxTime + 1]

World == [receiver : SUBSET Addresses, expected : SUBSET Addresses,
          server : [Addresses \ Private -> Server], grant : Grant]

VARIABLES
  world,   \* DNS answers of the two names, servers, grant
  clock,   \* time
  changes, \* number of changes of the world so far
  faults,  \* number of exchanges that went wrong so far
  sound,   \* settings that are sound
  pc,      \* next step
  found,   \* addresses of the receiver, as looked up
  probed,  \* those that have refused a client without a certificate
  told,    \* the grant the core has answered with
  past     \* history: the worlds since the start, with their times

vars == <<world, clock, changes, faults, sound, pc, found, probed, told, past>>

Ended == pc \in {"ready", "failed"}

Goto(from, to) == pc = from /\ pc' = to

------------------------------------------------------------------------------
(* Exchanges *)

\* Mutant: an address that is not public is an address.
resolveAnyAddresses(addresses) == addresses

\* An answer that holds an address which is not public is no answer.
resolvePublicAddresses(addresses) == IF addresses \cap Private = {} THEN addresses ELSE {}

\* What the client sees of a server that is well: a response, or the alert of its
\* TLS version.
Seen(s) ==
  [response |-> s.certificate # "required",
   requested |-> s.certificate # "ignored",
   version |-> s.version,
   alert |-> IF s.certificate # "required" THEN "none"
             ELSE IF s.version = 12 THEN "handshake failure" ELSE "certificate required"]

\* And of one that is not: nothing in common with it is found before a certificate
\* is asked for, or the connection ends at any moment without an alert of it.
SeenFaulty(s) ==
  LET Ends(r, a) == [response |-> FALSE, requested |-> r, version |-> s.version, alert |-> a] IN
  {Ends(FALSE, a) : a \in {"handshake failure", "other", "timeout"}}
    \cup {Ends(s.certificate # "ignored", a) : a \in {"other", "timeout"}}

\* Mutant: any end of the connection after the request is a refusal.
AnyRefusal(x) == ~x.response /\ x.requested

\* The alert by which a server of this version says that it wants a certificate.
isRequiredClientCertificateRefusal(x) ==
  \/ x.version = 12 /\ x.alert = "handshake failure"
  \/ x.version = 13 /\ x.alert = "certificate required"

requireClientlessTLSRefusal(x) ==
  ~x.response /\ x.requested /\ isRequiredClientCertificateRefusal(x)

\* Mutant: a principal may expire at this moment.
AuthorizationExpiring(g) == g.exact /\ g.expires >= clock

Authorization(g) == g.exact /\ g.expires > clock

------------------------------------------------------------------------------

Init ==
  /\ world \in World
  /\ clock = 0 /\ changes = 0 /\ faults = 0
  /\ sound \in {Settings} \cup {Settings \ {s} : s \in Settings}
  /\ pc = "configured" /\ found = {} /\ probed = {}
  /\ told = [exact |-> FALSE, expires |-> 0]
  /\ past = {[world |-> world, clock |-> clock]}

Configured ==
  /\ Goto("configured", IF "configuration" \in sound THEN "receiver" ELSE "failed")
  /\ UNCHANGED <<world, clock, changes, faults, sound, found, probed, told, past>>

LookUpReceiver ==
  /\ found' = resolvePublicAddresses(world.receiver)
  /\ Goto("receiver", IF found' # {} THEN "expected" ELSE "failed")
  /\ UNCHANGED <<world, clock, changes, faults, sound, probed, told, past>>

LookUpExpected ==
  /\ LET expected == resolvePublicAddresses(world.expected) IN
     Goto("expected", IF expected = found THEN "probe" ELSE "failed")
  /\ UNCHANGED <<world, clock, changes, faults, sound, found, probed, told, past>>

\* One address after the other, until one does not refuse.
Probe(a, x) ==
  /\ a \in found \ probed
  /\ IF requireClientlessTLSRefusal(x)
     THEN /\ probed' = probed \cup {a}
          /\ Goto("probe", IF probed' = found THEN "authorize" ELSE "probe")
     ELSE Goto("probe", "failed") /\ UNCHANGED probed
  /\ UNCHANGED <<world, clock, changes, sound, found, told, past>>

ProbeWell == \E a \in found : Probe(a, Seen(world.server[a])) /\ UNCHANGED faults

Fault == faults < MaxFaults /\ faults' = faults + 1

ProbeFaulty ==
  /\ Fault
  /\ \E a \in found : \E x \in SeenFaulty(world.server[a]) : Probe(a, x)

AskCore ==
  /\ Goto("authorize", IF "core" \in sound THEN "judge" ELSE "failed")
  /\ told' = world.grant
  /\ UNCHANGED <<world, clock, changes, faults, sound, found, probed, past>>

\* The answer is judged later, by the clock of then.
Judge ==
  /\ Goto("judge", IF Authorization(told) THEN "ready" ELSE "failed")
  /\ UNCHANGED <<world, clock, changes, faults, sound, found, probed, told, past>>

\* A lookup or the core's answer fails, or does not come in time.
ExchangeFails ==
  /\ Fault
  /\ pc \in {"receiver", "expected", "authorize"}
  /\ pc' = "failed"
  /\ UNCHANGED <<world, clock, changes, sound, found, probed, told, past>>

------------------------------------------------------------------------------
(* The world *)

\* Before the first lookup any world is an initial one.
Running == pc \notin {"configured", "ready", "failed"}

Remember(w, t) == past' = past \cup {[world |-> w, clock |-> t]}

Change(w) ==
  /\ Running /\ changes < MaxChanges /\ w # world
  /\ world' = w
  /\ changes' = changes + 1
  /\ Remember(w, clock)
  /\ UNCHANGED <<clock, faults, sound, pc, found, probed, told>>

DNSChanges == \E A \in SUBSET Addresses : \E name \in {"receiver", "expected"} :
  Change([world EXCEPT ![name] = A])

ServerChanges == \E a \in Addresses \ Private, s \in Server : Change([world EXCEPT !.server[a] = s])

GrantChanges == \E g \in Grant : Change([world EXCEPT !.grant = g])

Tick ==
  /\ Running /\ clock < MaxTime
  /\ clock' = clock + 1
  /\ Remember(world, clock')
  /\ UNCHANGED <<world, changes, faults, sound, pc, found, probed, told>>

Quiescent == Ended /\ UNCHANGED vars

Step ==
  \/ Configured \/ LookUpReceiver \/ LookUpExpected \/ ProbeWell \/ ProbeFaulty
  \/ AskCore \/ Judge \/ ExchangeFails

Next == Step \/ DNSChanges \/ ServerChanges \/ GrantChanges \/ Tick \/ Quiescent

Spec == Init /\ [][Next]_vars

------------------------------------------------------------------------------
(* Properties *)

\* Type invariant; and only addresses that were found, all public, are probed.
TypeOK ==
  /\ world \in World /\ clock \in 0 .. MaxTime
  /\ changes \in 0 .. MaxChanges /\ faults \in 0 .. MaxFaults
  /\ sound \subseteq Settings
  /\ pc \in {"configured", "receiver", "expected", "probe", "authorize", "judge", "ready",
            "failed"}
  /\ found \subseteq Addresses \ Private /\ probed \subseteq found
  /\ told \in Grant
  /\ past \subseteq [world : World, clock : 0 .. MaxTime]
  /\ [world |-> world, clock |-> clock] \in past

\* Ready claims nothing that was not so at a moment of the run: what each name
\* resolved to, that every address wanted a certificate, and the exact grants of a
\* principal that had not expired.  Not all need have been so at one moment.
ReadyIsEarned ==
  pc = "ready" =>
    /\ sound = Settings
    /\ \E p \in past : p.world.receiver = found
    /\ \E p \in past : p.world.expected = found
    /\ \A a \in found : \E p \in past : p.world.server[a].certificate = "required"
    /\ \E p \in past : p.world.grant = told /\ told.exact /\ told.expires > p.clock

\* The world as the probe should judge it.
Fit(w, t) ==
  /\ w.receiver = w.expected /\ w.receiver # {} /\ w.receiver \cap Private = {}
  /\ \A a \in w.receiver : w.server[a].certificate = "required"
  /\ w.grant.exact /\ w.grant.expires > t

\* In a world that stood still, with no exchange gone wrong, ready and failed are
\* the truth: no boundary of a set, a time or a TLS version is judged wrongly.
SteadyWorldIsJudgedRight ==
  Ended /\ past = {[world |-> world, clock |-> clock]} /\ faults = 0 =>
    (pc = "ready" <=> sound = Settings /\ Fit(world, clock))
===============================================================================
