---------------------------- MODULE AtomicReview ----------------------------
(***************************************************************************)
(* What File Hub promises of a review, with the roll-up atomic: reviewers  *)
(* are asked, each decides once, and the state of the workflow is only     *)
(* ever set to what the decisions of that moment add up to.  So an outcome *)
(* is final.  Nothing is promised of a workflow that was spoiled: its      *)
(* start was cut short, or a step was decided early or differently again.  *)
(***************************************************************************)
EXTENDS Naturals, Sequences

CONSTANT Flow

VARIABLES
    state,      \* state[w]: "none", "Review", an outcome, or "gone"
    decisions,  \* decisions[w]: by sequence
    spoiled

Init ==
    /\ state = [w \in Flow |-> "none"]
    /\ decisions = [w \in Flow |-> <<>>]
    /\ spoiled = {}

Begin(w) ==
    /\ state[w] = "none"
    /\ state' = [state EXCEPT ![w] = "Review"]
    /\ UNCHANGED <<decisions, spoiled>>

Ask(w) ==
    /\ state[w] = "Review"
    /\ decisions' = [decisions EXCEPT ![w] = Append(@, "pending")]
    /\ UNCHANGED <<state, spoiled>>

Decide(w, i, d) ==
    /\ state[w] \notin {"none", "gone"}
    /\ i \in DOMAIN decisions[w]
    /\ decisions[w][i] \in {"pending", d}
    /\ decisions' = [decisions EXCEPT ![w][i] = d]
    /\ UNCHANGED <<state, spoiled>>

\* One rejection is enough, approvals are needed from everybody.
AddUp(ds, s) ==
    \/ s = "Rejected" /\ \E i \in DOMAIN ds : ds[i] = "rejected"
    \/ s = "Approved" /\ DOMAIN ds # {} /\ \A i \in DOMAIN ds : ds[i] = "approved"

Settle(w, s) ==
    /\ state[w] \notin {"none", "gone"}
    /\ AddUp(decisions[w], s)
    /\ state' = [state EXCEPT ![w] = s]
    /\ UNCHANGED <<decisions, spoiled>>

\* The workflows of a file go with it.
Close(W) ==
    /\ \A w \in W : state[w] \notin {"none", "gone"}
    /\ state' = [w \in Flow |-> IF w \in W THEN "gone" ELSE state[w]]
    /\ decisions' = [w \in Flow |-> IF w \in W THEN <<>> ELSE decisions[w]]
    /\ UNCHANGED spoiled

Spoil(w) ==
    /\ spoiled' = spoiled \cup {w}
    /\ \A v \in Flow \ {w} : state'[v] = state[v] /\ decisions'[v] = decisions[v]

Next ==
    \/ \E w \in Flow :
        \/ Begin(w) \/ Ask(w) \/ Spoil(w)
        \/ \E i \in DOMAIN decisions[w], d \in {"approved", "rejected"} : Decide(w, i, d)
        \/ \E s \in {"Approved", "Rejected"} : Settle(w, s)
    \/ \E W \in SUBSET Flow : Close(W)

Spec == Init /\ [][Next]_<<state, decisions, spoiled>>
=============================================================================
