--------------------------- MODULE MCRuntimePublish ---------------------------
(***************************************************************************)
(* RuntimePublish for TLC: readers are interchangeable.                    *)
(***************************************************************************)
EXTENDS RuntimePublish, TLC

ReaderSymmetry == Permutations(Readers)
===============================================================================
