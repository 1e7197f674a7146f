------------------------------ MODULE MC_Dealer ------------------------------
(***************************************************************************)
(* The instances of Dealer.  The callers of send() are interchangeable.    *)
(* The liveness runs do not use the symmetry.                              *)
(***************************************************************************)
EXTENDS Dealer, TLC

SenderSymmetry == Permutations(Senders)

=============================================================================
