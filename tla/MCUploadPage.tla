--------------------------- MODULE MCUploadPage ---------------------------
(* A folder d with a file and a folder e, two systems with one org each.   *)
EXTENDS UploadPage, TLC

CONSTANTS f1, f2, f3, d, e, s1, s2, o1, o2

MCFile == {f1, f2, f3}
MCFolder == {d, e}
MCChildren == (d :> <<f1, f3, e>>) @@ (e :> <<f2>>)
MCOrgsOf == (s1 :> {o1}) @@ (s2 :> {o2})

\* Once rows have shifted, or an org was mispicked, the properties that exclude
\* those cases hold for ever, and no other one reads them.  And once MaxStarts
\* uploads are started nothing reads or writes the destination: what the queue
\* then does is followed for one destination.
StillWatched ==
    /\ ~shifted /\ ~mispicked
    /\ Len(uploads) = MaxStarts => orgReq = {} /\ orgs = OrgsOf[systemId]
=============================================================================
