------------------------------ MODULE MCQuota ------------------------------
(* Small instances of Quota. *)
EXTENDS Quota, TLC

CONSTANTS org, inOrg

\* One org, capped or not, and files outside it; the workspace and the
\* systems, whose levels of the walk have the same shape, are left uncapped.
MCAbove == [u \in Unit |-> IF u = inOrg THEN <<org>> ELSE <<>>]

IdSymmetry ==
    Permutations(Proc) \cup Permutations(File) \cup Permutations(User)

\* Both properties hold for ever when the watched scope has no cap (setting
\* one loosens it) or has been loosened: nothing beyond is explored.
StillWatched == ~loosened /\ cap[watch] # 0
=============================================================================
