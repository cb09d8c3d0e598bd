---------------------------- MODULE MCFileStore ----------------------------
(* Small instances of FileStore. *)
EXTENDS FileStore, TLC

CONSTANTS A, B

\* Two display names with safe forms of their own.
MCName == {A, B}
MCSafeName == {A, B}
MCSanitize == [n \in MCName |-> n]

\* One display name: a PATCH that keeps the system changes metadata only.
MCName1 == {A}
MCSafeName1 == {A}
MCSanitize1 == [n \in MCName1 |-> A]

ProcSymmetry == Permutations(Proc)
=============================================================================
