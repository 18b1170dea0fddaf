-------------------------- MODULE MCRetransmission --------------------------
(* Small instances of Retransmission for TLC.                              *)
EXTENDS Retransmission, TLC

\* Sends are interchangeable; no run with symmetry has a liveness property.
Symmetry == Permutations(Sends)
=============================================================================
