------------------------ MODULE MCConfidentialEnsure ------------------------
(***************************************************************************)
(* Values of the constants of ConfidentialEnsure for TLC.  One tick of the *)
(* clock stands for the longest skew, and an authorization lasts one.      *)
(***************************************************************************)
EXTENDS ConfidentialEnsure, TLC

CONSTANTS h1, h2,      \* runs
          k1, k2, k3,  \* Pix keys; k3 is of no account
          u1, u2,      \* receiver URLs
          old, recent, \* creation periods
          e1, e2, e3,  \* ensure requests
          c1, l1       \* a confirm and a list request

TwoRuns == {h1, h2}
RunSymmetry == Permutations(Runs)

\* e1 and e2 want different URLs for one key and ask for recent registrations
\* only.  e3 is e1 under an audit identity that is a key of the account.  c1 and
\* l1 ask for all registrations, and l1 is issued ahead of the clock.
MCPurpose == e1 :> "ensure" @@ e2 :> "ensure" @@ e3 :> "ensure" @@ c1 :> "confirm"
             @@ l1 :> "list"
MCKey == [r \in {e1, e2, e3, c1, l1} |-> k1]
MCBase == e1 :> u1 @@ e2 :> u2 @@ e3 :> u1 @@ c1 :> u1 @@ l1 :> u1
MCWindow == [r \in {e1, e2, e3, c1, l1} |-> IF r \in {c1, l1} THEN {old, recent} ELSE {recent}]
MCAudit == [r \in {e1, e2, e3, c1, l1} |-> IF r = e3 THEN k2 ELSE k3]
MCIssued == [r \in {e1, e2, e3, c1, l1} |-> IF r = l1 THEN 1 ELSE 0]
MCExpires == [r \in {e1, e2, e3, c1, l1} |-> IF r = l1 THEN 2 ELSE 1]

\* The rivals meet an account whose other key has a recent registration, so that
\* a LIST proves something, and whose k1 has an old one, which both windows leave
\* out: both LISTs may show the key absent.
RivalsInit ==
  /\ Init
  /\ regs[k1] = u1 /\ created[k1] = old
  /\ regs[k2] = u1 /\ created[k2] = recent

RivalsSpec == RivalsInit /\ [][Next]_vars

\* Two runs serve two deliveries: of the rivals, or of the observers.
Served == \E taken \in {{e1, e2}, {c1, l1}} :
            \A r \in Requests \ taken : queue[r] = "unposted"

PurposeOf == [r \in Requests |-> MCPurpose[r]]
KeyOf == [r \in Requests |-> MCKey[r]]
BaseOf == [r \in Requests |-> MCBase[r]]
WindowOf == [r \in Requests |-> MCWindow[r]]
AuditOf == [r \in Requests |-> MCAudit[r]]
IssuedOf == [r \in Requests |-> MCIssued[r]]
ExpiresOf == [r \in Requests |-> MCExpires[r]]
===============================================================================
