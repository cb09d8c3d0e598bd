---------------------------- MODULE AtomicUpload ----------------------------
(***************************************************************************)
(* What File Hub promises of resumable uploads, with every upload atomic:  *)
(* a client declares the length of its file once, and the file appears in  *)
(* one step, never short of that length and never to change.  It is the    *)
(* client's file, piece by piece, unless the session was broken before:    *)
(* two of its PATCHes overlapped, or one stopped before it was recorded.   *)
(***************************************************************************)
EXTENDS Naturals, Sequences

CONSTANTS Session, File, Length

VARIABLES
    declared,   \* Upload-Length of the sessions there have been
    broken,     \* sessions that may hold more than the client's file
    published   \* the files there are: [from, data]

Init ==
    /\ declared = [i \in {} |-> 0]
    /\ broken = {}
    /\ published = [f \in {} |-> 0]

Declare(i, n) ==
    /\ i \notin DOMAIN declared
    /\ declared' = [j \in DOMAIN declared \cup {i} |-> IF j = i THEN n ELSE declared[j]]
    /\ UNCHANGED <<broken, published>>

Break(i) ==
    /\ i \in DOMAIN declared
    /\ broken' = broken \cup {i}
    /\ UNCHANGED <<declared, published>>

\* What may be published of session i.
Holds(i, data) ==
    /\ Len(data) >= declared[i]
    /\ i \notin broken => data = [k \in 1..declared[i] |-> k]

Publish(f) ==
    /\ f \notin DOMAIN published
    /\ DOMAIN published' = DOMAIN published \cup {f}
    /\ \A g \in DOMAIN published : published'[g] = published[g]
    /\ published'[f].from \in DOMAIN declared
    /\ Holds(published'[f].from, published'[f].data)
    /\ UNCHANGED <<declared, broken>>

Next ==
    \/ \E i \in Session, n \in Length : Declare(i, n)
    \/ \E i \in Session : Break(i)
    \/ \E f \in File : Publish(f)

Spec == Init /\ [][Next]_<<declared, broken, published>>
=============================================================================
