--------------------------- MODULE FileLifecycle ---------------------------
(***************************************************************************)
(* What File Hub promises of one file, with every operation atomic: it is   *)
(* created at version 1, each save advances it by one version, it moves in  *)
(* and out of the trash, and once purged it never comes back.              *)
(***************************************************************************)
EXTENDS Naturals

CONSTANT File

VARIABLES
    status,   \* status[f]: "none", "live", "trashed" or "gone"
    current   \* current[f]: the current version, 0 when there is no row

Init ==
    /\ status = [f \in File |-> "none"]
    /\ current = [f \in File |-> 0]

Present(f) == status[f] \in {"live", "trashed"}

Create(f) ==
    /\ status[f] = "none"
    /\ status' = [status EXCEPT ![f] = "live"]
    /\ current' = [current EXCEPT ![f] = 1]

\* A save that began on a live file may land after the file was trashed.
Save(f) ==
    /\ Present(f)
    /\ current' = [current EXCEPT ![f] = current[f] + 1]
    /\ UNCHANGED status

Discard(f) ==
    /\ status[f] = "live"
    /\ status' = [status EXCEPT ![f] = "trashed"]
    /\ UNCHANGED current

Recover(f) ==
    /\ status[f] = "trashed"
    /\ status' = [status EXCEPT ![f] = "live"]
    /\ UNCHANGED current

Purge(f) ==
    /\ Present(f)
    /\ status' = [status EXCEPT ![f] = "gone"]
    /\ current' = [current EXCEPT ![f] = 0]

Next == \E f \in File :
    Create(f) \/ Save(f) \/ Discard(f) \/ Recover(f) \/ Purge(f)

Spec == Init /\ [][Next]_<<status, current>>
=============================================================================
