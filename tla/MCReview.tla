------------------------------ MODULE MCReview ------------------------------
(* Small instances of Review. *)
EXTENDS Review, TLC

ProcSymmetry == Permutations(Proc)
=============================================================================
