-------------------------- MODULE MCLpReliability --------------------------
(* A packet of two fragments and one of a single fragment, with one           *)
(* retransmission each, starting just before the TxSequence numbers wrap.     *)
EXTENDS LpReliability, TLC

CONSTANTS long, short

MCNFrags == long :> 2 @@ short :> 1
=============================================================================
