-------------------------- MODULE MCEscrowIndexer ---------------------------
(***************************************************************************)
(* An instance of EscrowIndexer for TLC.  The program's depths are scaled: *)
(* two confirmations for five, a rewind of one block for sixty-four, and   *)
(* chunks of two blocks for two thousand.                                  *)
(***************************************************************************)
EXTENDS EscrowIndexer

CONSTANT o1
=============================================================================
