---------------------------- MODULE MCOrderDesk -----------------------------
(***************************************************************************)
(* Instances of OrderDesk for TLC.                                         *)
(***************************************************************************)
EXTENDS OrderDesk

CONSTANTS o1, r1, r2, r3
=============================================================================
