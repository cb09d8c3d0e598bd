----------------------------- MODULE PageServer -----------------------------
(***************************************************************************)
(* What the page of one file and the share page need of the backend: which *)
(* files are stored, the status of the file that is visited, and whether   *)
(* the session of the browser's cookie is live.                            *)
(***************************************************************************)
EXTENDS Integers, Sequences, FiniteSets, SequencesExt

CONSTANTS
    Id,             \* what a user may type as a file id
    Visited,        \* the file whose page is visited
    MaxMishaps,     \* bound: requests that fail and changes made by somebody else
    NULL

Status == {"Draft", "Review", "Approved"}

ASSUME ServerAssumption ==
    Visited \in Id /\ NULL \notin Id \cup Status /\ MaxMishaps \in Nat

\* The file that is visited and who visits it, and the bound on what he starts.
SetupRecord ==
    [type : {"pdf", "office", "img", "text", "media", "other"},
     viewer : {"collabora", "pdf", "disabled"},
     role : {"admin", "editor", "viewer"}, budget : Nat]

VARIABLES
    stored,     \* the ids of files that are not deleted
    status,     \* files.status of the visited file
    session,    \* the session of the cookie is live
    setup,      \* a SetupRecord, which no step changes; its budget counts
                \* decisions, posts, edits and pages
    acts, mishaps

rows == <<stored, status, session, setup>>
server == <<rows, acts, mishaps>>

\* The user starts something; something goes wrong, or happens elsewhere.
Act == acts < setup.budget /\ acts' = acts + 1 /\ UNCHANGED mishaps
Mishap == mishaps < MaxMishaps /\ mishaps' = mishaps + 1 /\ UNCHANGED acts
Fault == Mishap /\ UNCHANGED rows

\* canMutate, for the role of the account.
CanMutate == setup.role \in {"admin", "editor"}

ServerTypeOK ==
    /\ stored \subseteq Id /\ status \in Status /\ session \in BOOLEAN
    /\ setup \in SetupRecord
    /\ acts \in 0..setup.budget /\ mishaps \in 0..MaxMishaps
=============================================================================
