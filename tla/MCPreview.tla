----------------------------- MODULE MCPreview -----------------------------
(* Small instances of Preview. *)
EXTENDS Preview, TLC

ProcSymmetry == Permutations(Proc)
=============================================================================
