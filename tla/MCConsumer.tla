------------------------------ MODULE MCConsumer ------------------------------
(***************************************************************************)
(* Values of the constants of Consumer for TLC.                            *)
(***************************************************************************)
EXTENDS Consumer, TLC

CONSTANTS execute, describe, \* subscriptions
          m1, m2             \* messages of the one queue; m2 has no reply_to

QueueOf == [m \in Messages |-> execute]
===============================================================================
