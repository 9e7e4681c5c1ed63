---------------------------- MODULE MCPagedListing ----------------------------
(***************************************************************************)
(* Values of the constants of PagedListing for TLC.                        *)
(***************************************************************************)
EXTENDS PagedListing, TLC

CONSTANTS k1, k2, k3 \* keys

\* Keys are interchangeable.
KeySymmetry == Permutations(Keys)
===============================================================================
