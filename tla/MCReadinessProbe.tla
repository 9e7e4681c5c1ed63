--------------------------- MODULE MCReadinessProbe ---------------------------
(***************************************************************************)
(* Values of the constants of ReadinessProbe for TLC.                      *)
(***************************************************************************)
EXTENDS ReadinessProbe, TLC

CONSTANTS a1, a2, \* public addresses
          p       \* an address that is not

\* The public addresses are interchangeable.
AddressSymmetry == Permutations(Addresses \ Private)
===============================================================================
