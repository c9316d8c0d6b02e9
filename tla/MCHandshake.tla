---------------------------- MODULE MCHandshake ----------------------------
(***************************************************************************)
(* Handshake for TLC: the senders are interchangeable.                     *)
(***************************************************************************)
EXTENDS Handshake, TLC

SenderSymmetry == Permutations(Senders)
=============================================================================
