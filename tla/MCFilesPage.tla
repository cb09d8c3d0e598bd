---------------------------- MODULE MCFilesPage ----------------------------
(* Three files in two systems, two of one status, one of them in a folder;  *)
(* a second folder may be made.                                              *)
EXTENDS FilesPage

CONSTANTS f1, f2, f3, S, T, A, B

\* A month that needs all six weeks, and one that needs four.
MCMonths == <<[first |-> 6, days |-> 31], [first |-> 0, days |-> 28]>>
MCDayOf == (f1 :> <<1, 31>>) @@ (f2 :> <<1, 31>>) @@ (f3 :> <<2, 1>>)
MCOwnerOf == (f1 :> S) @@ (f2 :> T) @@ (f3 :> S)
MCRecent == {f1}

MCModified == <<f1, f2, f3>>
MCNamed == <<f2, f3, f1>>
MCStatusOf == (f1 :> "Draft") @@ (f2 :> "Archived") @@ (f3 :> "Draft")
MCSystemOf == (f1 :> S) @@ (f2 :> T) @@ (f3 :> S)
MCHits == {f1, f3}
MCSystems == <<S, T>>
MCFolder == {A, B}
MCInitFolders == (A :> [system |-> T, parent |-> NULL]) @@ (B :> NULL)
MCInitFiles == (f1 :> [state |-> "live", folder |-> NULL])
                @@ (f2 :> [state |-> "live", folder |-> A])
                @@ (f3 :> [state |-> "trashed", folder |-> NULL])
=============================================================================
