---------------------------- MODULE UploadPage ----------------------------
(***************************************************************************)
(* The upload page (src/frontend/app/upload/page.tsx): the queue of files, *)
(* the uploads it starts, and the destination they are sent to.            *)
(*                                                                         *)
(* The page never awaits: a click changes React state or starts a request, *)
(* and everything else arrives as a callback.  A callback knows its row by *)
(* the INDEX the row had when the upload was started.  A response with the *)
(* orgs of a system is applied whatever system is selected by then.  The   *)
(* server is what the page can tell of it: it publishes an upload or       *)
(* refuses it, and its answer can be lost.  Large files go by TUS          *)
(* (src/backend/src/tus.rs): the server records the last byte before it    *)
(* publishes the file, and tus-js-client, which asks how many bytes the    *)
(* server has after every failure, takes the last byte for success.        *)
(***************************************************************************)
EXTENDS Integers, Sequences, FiniteSets, SequencesExt

CONSTANTS
    File,           \* files on the client's disk
    Large,          \* those of TUS_THRESHOLD_BYTES and more
    Folder,         \* directories on the client's disk
    Children,       \* [Folder -> Seq(File \cup Folder)]
    Unreadable,     \* entries whose read fails
    BatchSize,      \* entries one readEntries call returns
    System,
    FirstSystem,    \* rows[0] of GET /api/systems
    OrgsOf,         \* [System -> SUBSET orgs]
    CtxSystem,      \* ?system_id= of the page
    CtxOrg,         \* ?org_id= of the page
    MaxStarts,      \* bound: uploads started in one behaviour
    NULL

Entry == File \cup Folder
Org == UNION {OrgsOf[s] : s \in System}
Role == {"admin", "editor", "viewer"}

\* What a client's disk holds is a finite forest: an entry has one place, one
\* level below the directory it is in.
ASSUME TreeAssumption ==
    /\ Children \in [Folder -> Seq(Entry)]
    /\ Unreadable \subseteq Entry
    /\ Large \subseteq File
    /\ BatchSize \in Nat \ {0}
    /\ File \cap Folder = {}
    /\ IsFiniteSet(Entry)
    /\ \A d, e \in Folder : \A j \in DOMAIN Children[d], k \in DOMAIN Children[e] :
          Children[d][j] = Children[e][k] => d = e /\ j = k
    /\ \E depth \in [Entry -> 0..Cardinality(Entry)] :
          \A d \in Folder : \A k \in DOMAIN Children[d] :
              depth[Children[d][k]] = depth[d] + 1
ASSUME DestinationAssumption ==
    /\ FirstSystem \in System
    /\ \A s, t \in System : s # t => OrgsOf[s] \cap OrgsOf[t] = {}
    /\ NULL \notin System \cup Org \cup Entry
ASSUME BoundAssumption == MaxStarts \in Nat

VARIABLES
    auth,       \* "loading", or the role useAuth() gave
    systemId,   \* the selected system, NULL while none is known
    orgs,       \* the org list on display
    orgId,      \* the selected org, or NULL
    orgSeeded,  \* the ref of that name
    orgReq,     \* systems whose org list has been asked for
    items,      \* the queue, one row per file
    walks,      \* dropped folders still being walked
    uploads,    \* every upload started: the closure it runs in and its progress
    copies,     \* how often the server has published a file
    mispicked,  \* history: an org was taken from the list of another system
    shifted,    \* history: a row left the queue under a running upload
    again,      \* history: files uploaded again while an upload of them ran
    unanswered, \* history: files published without the page learning of it
    unfinalised \* history: files the server has every byte of and did not publish

destVars == <<auth, systemId, orgs, orgId, orgSeeded, orgReq, mispicked>>
queueVars == <<items, walks, uploads, copies, shifted, again, unanswered, unfinalised>>
vars == <<destVars, queueVars>>

\* An upload that will still call back; "unfinalised" says that its bytes are
\* recorded and finalise has failed, or stopped with the connection.
LivePhase == {"sending", "unfinalised", "published"}
Live(u) == u.phase \in LivePhase

TypeOK ==
    /\ auth \in Role \cup {"loading", "none"}
    /\ systemId \in System \cup {NULL}
    /\ orgs \subseteq Org
    /\ orgId \in Org \cup {NULL}
    /\ orgSeeded \in BOOLEAN
    /\ orgReq \subseteq System
    /\ items \in Seq([file : File,
                      state : {"queued", "uploading", "success", "error"}])
    /\ walks \subseteq Folder
    /\ uploads \in Seq([file : File, index : Nat \ {0}, system : System,
                        org : Org \cup {NULL}, phase : LivePhase]
                      \cup [file : File, phase : {"done"}])
    /\ copies \in [File -> Nat]
    /\ mispicked \in BOOLEAN
    /\ shifted \in BOOLEAN
    /\ again \subseteq File
    /\ unanswered \subseteq File
    /\ unfinalised \subseteq File

Init ==
    /\ auth = "loading"
    /\ systemId = NULL
    /\ orgs = {}
    /\ orgId = NULL
    /\ orgSeeded = FALSE
    /\ orgReq = {}
    /\ items = <<>>
    /\ walks = {}
    /\ uploads = <<>>
    /\ copies = [f \in File |-> 0]
    /\ mispicked = FALSE
    /\ shifted = FALSE
    /\ again = {}
    /\ unanswered = {}
    /\ unfinalised = {}

ReadOnly == auth \notin {"admin", "editor"}

-----------------------------------------------------------------------------
(* Walking a dropped folder.                                               *)

Batch(d, k) ==
    LET n == Len(Children[d])
        hi == k * BatchSize
    IN  SubSeq(Children[d], (k - 1) * BatchSize + 1, IF hi < n THEN hi ELSE n)

\* Mutant: one call is taken for all.
ReadOneBatch(d) == Batch(d, 1)

\* One readEntries call after the other, until one returns nothing.
ReadAllEntries(d) ==
    LET calls == CHOOSE k \in 1..(Len(Children[d]) + 1) :
                    /\ Batch(d, k) = <<>>
                    /\ \A j \in 1..(k - 1) : Batch(d, j) # <<>>
    IN  FlattenSeq([k \in 1..(calls - 1) |-> Batch(d, k)])

\* An unreadable file is left out; an unreadable directory rejects the walk.
WalkEntry[e \in Entry] ==
    IF e \in File
    THEN [ok |-> TRUE, files |-> IF e \in Unreadable THEN <<>> ELSE <<e>>]
    ELSE LET children == ReadAllEntries(e)
         IN  IF e \in Unreadable \/ \E k \in DOMAIN children : ~WalkEntry[children[k]].ok
             THEN [ok |-> FALSE, files |-> <<>>]
             ELSE [ok |-> TRUE,
                   files |-> FlattenSeq([k \in DOMAIN children |->
                                            WalkEntry[children[k]].files])]

-----------------------------------------------------------------------------
(* The destination.                                                        *)

\* useAuth() has asked /auth/me; a failed request leaves no user.
AuthLoaded(r) ==
    /\ auth = "loading"
    /\ auth' = r
    /\ UNCHANGED <<systemId, orgs, orgId, orgSeeded, orgReq, mispicked, queueVars>>

\* Bound: the destination rests once MaxStarts uploads have been started, as
\* none will read it any more.
Open == Len(uploads) < MaxStarts

\* Mutant: the org survives a change of system.
SelectKeepingOrg(s) ==
    /\ systemId' = s
    /\ orgId' = orgId
    /\ orgReq' = orgReq \cup {s}

\* The effect on systemId: forget the org, ask for the orgs of the system.
Select(s) ==
    /\ systemId' = s
    /\ orgId' = NULL
    /\ orgReq' = orgReq \cup {s}

SystemsLoaded ==
    /\ systemId = NULL
    /\ Select(IF CtxSystem \in System THEN CtxSystem ELSE FirstSystem)
    /\ UNCHANGED <<auth, orgs, orgSeeded, mispicked, queueVars>>

\* Bound: a system once left is not selected again.
ChooseSystem(s) ==
    /\ Open /\ ~ReadOnly
    /\ systemId # NULL /\ s \notin {systemId, FirstSystem}
    /\ Select(s)
    /\ UNCHANGED <<auth, orgs, orgSeeded, mispicked, queueVars>>

OrgsLoaded(s) ==
    /\ Open /\ s \in orgReq
    /\ orgReq' = orgReq \ {s}
    /\ orgs' = OrgsOf[s]
    /\ LET seed == ~orgSeeded /\ CtxOrg \in OrgsOf[s]
       IN  /\ orgId' = IF seed THEN CtxOrg ELSE orgId
           /\ mispicked' = (mispicked \/ (seed /\ s # systemId))
    /\ orgSeeded' = TRUE
    /\ UNCHANGED <<auth, systemId, queueVars>>

OrgsFailed(s) ==
    /\ Open /\ s \in orgReq
    /\ orgReq' = orgReq \ {s}
    /\ orgs' = {}
    /\ UNCHANGED <<auth, systemId, orgId, orgSeeded, mispicked, queueVars>>

ChooseOrg(o) ==
    /\ Open /\ ~ReadOnly
    /\ o \in orgs \/ (o = NULL /\ orgs # {})
    /\ orgId' = o
    /\ mispicked' = (mispicked \/ (o # NULL /\ o \notin OrgsOf[systemId]))
    /\ UNCHANGED <<auth, systemId, orgs, orgSeeded, orgReq, queueVars>>

-----------------------------------------------------------------------------
(* The queue.  Bound: a file is added once, though the page does not mind. *)

Queued(fs) == [k \in DOMAIN fs |-> [file |-> fs[k], state |-> "queued"]]
Taken == {items[i].file : i \in DOMAIN items} \cup {uploads[n].file : n \in DOMAIN uploads}

AddFiles(fs) == items' = items \o Queued(fs)

AddPlainFile(f) ==
    /\ ~ReadOnly
    /\ f \notin Taken \cup Unreadable
    /\ \A d \in walks : f \notin Range(WalkEntry[d].files)
    /\ AddFiles(<<f>>)
    /\ UNCHANGED <<destVars, walks, uploads, copies, shifted, again, unanswered, unfinalised>>

DropFolder(d) ==
    /\ ~ReadOnly
    /\ walks = {} /\ Taken \cap Range(WalkEntry[d].files) = {}
    /\ walks' = walks \cup {d}
    /\ UNCHANGED <<destVars, items, uploads, copies, shifted, again, unanswered, unfinalised>>

\* A rejected walk ends handleDrop before it adds anything.
Walked(d) ==
    /\ d \in walks
    /\ walks' = walks \ {d}
    /\ AddFiles(WalkEntry[d].files)
    /\ UNCHANGED <<destVars, uploads, copies, shifted, again, unanswered, unfinalised>>

\* Mutant: the index is kept as the DOM counts it.
ClosureFromZero(i) ==
    [file |-> items[i].file, index |-> i - 1, system |-> systemId, org |-> orgId,
     phase |-> "sending"]

\* What uploadOne sends for row i: the closure keeps the index, not the row.
Closure(i) ==
    [file |-> items[i].file, index |-> i, system |-> systemId, org |-> orgId,
     phase |-> "sending"]

Running(f) == \E n \in DOMAIN uploads : uploads[n].file = f /\ Live(uploads[n])

\* The k-th of the rows in S, from the top.
Nth(S, k) == CHOOSE i \in S : Cardinality({j \in S : j <= i}) = k

\* uploadOne for every row in S, in order.
UploadRows(S) ==
    /\ Len(uploads) + Cardinality(S) <= MaxStarts
    /\ uploads' = uploads \o [k \in 1..Cardinality(S) |-> Closure(Nth(S, k))]
    /\ again' = again \cup {f \in {items[i].file : i \in S} : Running(f)}

RowsIn(state) == {i \in DOMAIN items : items[i].state = state}

UploadAll ==
    /\ ~ReadOnly /\ systemId # NULL
    /\ RowsIn("queued") # {}
    /\ UploadRows(RowsIn("queued"))
    /\ UNCHANGED <<destVars, items, walks, copies, shifted, unanswered, unfinalised>>

Requeue(S) == items' = [i \in DOMAIN items |->
                          IF i \in S THEN [items[i] EXCEPT !.state = "queued"] ELSE items[i]]

RetryOne(i) ==
    /\ ~ReadOnly /\ systemId # NULL
    /\ items[i].state = "error"
    /\ Requeue({i})
    /\ UploadRows({i})
    /\ UNCHANGED <<destVars, walks, copies, shifted, unanswered, unfinalised>>

RetryAllFailed ==
    /\ ~ReadOnly /\ systemId # NULL
    /\ RowsIn("error") # {}
    /\ Requeue(RowsIn("error"))
    /\ UploadRows(RowsIn("error"))
    /\ UNCHANGED <<destVars, walks, copies, shifted, unanswered, unfinalised>>

\* Keep only the rows of S.  Running uploads are neither stopped nor told.
KeepRows(S) ==
    /\ items' = [k \in 1..Cardinality(S) |-> items[Nth(S, k)]]
    /\ shifted' = (shifted \/ \E n \in DOMAIN uploads : \E j \in DOMAIN items \ S :
                        Live(uploads[n]) /\ j <= uploads[n].index)
    /\ UNCHANGED <<destVars, walks, uploads, copies, again, unanswered, unfinalised>>

ClearCompleted == ~ReadOnly /\ KeepRows({i \in DOMAIN items : items[i].state # "success"})
RemoveRow(i) == ~ReadOnly /\ KeepRows(DOMAIN items \ {i})

-----------------------------------------------------------------------------
(* Callbacks of upload n.                                                  *)

SetProgress(n, state) ==
    items' = [i \in DOMAIN items |->
                IF i = uploads[n].index THEN [items[i] EXCEPT !.state = state] ELSE items[i]]

Finish(n) == uploads' = [uploads EXCEPT ![n] = [file |-> @.file, phase |-> "done"]]

OnProgress(n) ==
    /\ uploads[n].phase = "sending"
    /\ SetProgress(n, "uploading")
    /\ UNCHANGED <<destVars, walks, uploads, copies, shifted, again, unanswered, unfinalised>>

\* The server has inserted the file and answers (a large one: append_chunk has
\* recorded the last chunk and finalise has succeeded).
Publish(n) ==
    /\ uploads[n].phase = "sending"
    /\ uploads' = [uploads EXCEPT ![n].phase = "published"]
    /\ copies' = [copies EXCEPT ![uploads[n].file] = @ + 1]
    /\ UNCHANGED <<destVars, items, walks, shifted, again, unanswered, unfinalised>>

\* append_chunk records the last chunk, and finalise fails or its handler stops.
FinaliseFails(n) ==
    /\ uploads[n].file \in Large
    /\ uploads[n].phase = "sending"
    /\ uploads' = [uploads EXCEPT ![n].phase = "unfinalised"]
    /\ unfinalised' = unfinalised \cup {uploads[n].file}
    /\ UNCHANGED <<destVars, items, walks, copies, shifted, again, unanswered>>

\* tus-js-client sends the last chunk, or all of them to a new session, again: the
\* answer was lost or an error, and the HEAD that followed came before the offset
\* was recorded, or was refused.  Bound: of what was published, once for a file.
Resend(n) ==
    /\ uploads[n].file \in Large
    /\ \/ /\ uploads[n].phase = "unfinalised"
          /\ UNCHANGED unanswered
       \/ /\ uploads[n].phase = "published" /\ uploads[n].file \notin unanswered
          /\ unanswered' = unanswered \cup {uploads[n].file}
    /\ uploads' = [uploads EXCEPT ![n].phase = "sending"]
    /\ UNCHANGED <<destVars, items, walks, copies, shifted, again, unfinalised>>

\* Mutant: the browser's end of sending is taken for the server's answer.
OnLastByte(n) ==
    /\ Live(uploads[n])
    /\ Finish(n)
    /\ SetProgress(n, "success")
    /\ UNCHANGED <<destVars, walks, copies, shifted, again, unanswered, unfinalised>>

\* A 2xx answer; of a large file also a HEAD that finds the last byte recorded.
OnSuccess(n) ==
    /\ uploads[n].phase \in {"published", "unfinalised"}
    /\ Finish(n)
    /\ SetProgress(n, "success")
    /\ UNCHANGED <<destVars, walks, copies, shifted, again, unanswered, unfinalised>>

\* Mutant: an error is not shown.
OnErrorSilent(n) ==
    /\ Live(uploads[n])
    /\ Finish(n)
    /\ unanswered' = IF uploads[n].phase = "published"
                     THEN unanswered \cup {uploads[n].file} ELSE unanswered
    /\ UNCHANGED <<destVars, items, walks, copies, shifted, again, unfinalised>>

\* A refusal, or a connection lost for good before or after the insert.
OnError(n) ==
    /\ Live(uploads[n])
    /\ Finish(n)
    /\ SetProgress(n, "error")
    /\ unanswered' = IF uploads[n].phase = "published"
                     THEN unanswered \cup {uploads[n].file} ELSE unanswered
    /\ UNCHANGED <<destVars, walks, copies, shifted, again, unfinalised>>

-----------------------------------------------------------------------------
Destination ==
    \/ \E r \in {"editor", "viewer", "none"} : AuthLoaded(r)
    \/ SystemsLoaded
    \/ \E s \in System : ChooseSystem(s) \/ OrgsLoaded(s) \/ OrgsFailed(s)
    \/ \E o \in Org \cup {NULL} : ChooseOrg(o)

Queue ==
    \/ \E f \in File : AddPlainFile(f)
    \/ \E d \in Folder : DropFolder(d) \/ Walked(d)
    \/ UploadAll
    \/ RetryAllFailed
    \/ ClearCompleted
    \/ \E i \in DOMAIN items : RetryOne(i) \/ RemoveRow(i)

Callback(n) ==
    \/ OnProgress(n) \/ Publish(n) \/ FinaliseFails(n) \/ Resend(n)
    \/ OnSuccess(n) \/ OnError(n)

Next == Destination \/ Queue \/ \E n \in DOMAIN uploads : Callback(n)

Spec == Init /\ [][Next]_vars

\* The browser reports the end of every request it has sent: onload, onerror,
\* onSuccess or onError.
Ends(n) == n \in DOMAIN uploads /\ (OnSuccess(n) \/ OnError(n))
FairSpec == Spec /\ \A n \in 1..MaxStarts : WF_vars(Ends(n))

-----------------------------------------------------------------------------
(* Properties.                                                             *)

\* A row that says Done is a file the server has, and one click stores one copy:
\* unless a row left the queue under a running upload (page.tsx:223), callbacks of
\* overlapping uploads, retries and cleared rows never mark a file that was not
\* published, save a large one whose finalise failed after append_chunk had
\* recorded its last byte (tus.rs:235-240), and one is published twice only if it
\* was started again while it ran (a row stays "queued" until its first progress
\* event) or if an answer was lost before it was sent again.
DoneIsPublishedOnce ==
    ~shifted =>
        /\ \A i \in RowsIn("success") :
              copies[items[i].file] > 0 \/ items[i].file \in unfinalised
        /\ \A f \in File \ (again \cup unanswered) : copies[f] <= 1

\* A drop adds every readable file below it or nothing: no batch of a large
\* directory is left behind (page.tsx:65).
DropIsWhole ==
    \A d \in walks : WalkEntry[d].ok =>
        \A e \in Folder :
            (e = d \/ e \in Range(Children[d])) =>
                \A f \in (Range(Children[e]) \cap File) \ Unreadable :
                    f \in Range(WalkEntry[d].files)

Sent == {n \in DOMAIN uploads : Live(uploads[n])}

\* What is sent names an org of the system it names, unless an org was taken
\* while the list on display was another system's (page.tsx:154-156).
OrgOfSystem ==
    ~mispicked => \A n \in Sent :
        uploads[n].org # NULL => uploads[n].org \in OrgsOf[uploads[n].system]

\* Every row that shows an upload in progress comes to show its end, or leaves.
Uploading(f) == \E i \in DOMAIN items : items[i] = [file |-> f, state |-> "uploading"]
RowsSettle == \A f \in File : Uploading(f) ~> (shifted \/ ~Uploading(f))
=============================================================================
