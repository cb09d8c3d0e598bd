------------------------------ MODULE Preview ------------------------------
(***************************************************************************)
(* The cache of rendered previews: one file_previews row per file, filled  *)
(* by the upload that creates the file and by a GET that misses, emptied   *)
(* by a WOPI save after it has promoted its bytes.  A fill renders the     *)
(* version its own SELECT returned and writes it back with an              *)
(* unconditional upsert, seconds later.                                    *)
(*                                                                         *)
(* Bytes, keys and the archive row that lets one saver of a version win    *)
(* are in FileStore; a save is its UPDATE here.  The text index and the    *)
(* thumbnails are written by the upload alone and never again.             *)
(***************************************************************************)
EXTENDS Naturals

CONSTANTS
    File,        \* file ids, never minted twice
    Proc,        \* concurrent requests
    MaxVersion   \* bound on files.version

ASSUME PreviewConstants == File # {} /\ MaxVersion \in Nat \ {0}

VARIABLES
    file,       \* file[f]: the row's place and its version column
    preview,    \* preview[f]: the version rendered in f's row, None without
    req,        \* req[p]: the request p is executing
    disturbed,  \* history: files whose invalidation was missed or overlapped
    saved       \* history: the newest version whose save has returned

vars == <<file, preview, req, disturbed, saved>>

-----------------------------------------------------------------------------
None    == 0
Version == 1..MaxVersion

Row == [place : {"unborn", "live", "trash", "gone"}, version : {None} \cup Version]

\* version: the one a fill renders, or the one a save has promoted.
Request == [pc : {"idle", "get.cache", "fill", "put.invalidate"}, file : File,
            version : {None} \cup Version]

Idle == [pc |-> "idle", file |-> CHOOSE f \in File : TRUE, version |-> None]

TypeOK ==
    /\ file \in [File -> Row]
    /\ preview \in [File -> {None} \cup Version]
    /\ req \in [Proc -> Request]
    /\ disturbed \subseteq File
    /\ saved \in [File -> {None} \cup Version]

Init ==
    /\ file = [f \in File |-> [place |-> "unborn", version |-> None]]
    /\ preview = [f \in File |-> None]
    /\ req = [p \in Proc |-> Idle]
    /\ disturbed = {}
    /\ saved = [f \in File |-> None]

HasRow(f) == file[f].place \in {"live", "trash"}

-----------------------------------------------------------------------------
At(p, pc) == req[p].pc = pc

Start(p, pc, f, v) ==
    /\ At(p, "idle")
    /\ req' = [req EXCEPT ![p] = [pc |-> pc, file |-> f, version |-> v]]

Finish(p) == req' = [req EXCEPT ![p] = Idle]

\* Requests that have read f's row and may yet write what they render of it.
Filling(f) == {p \in Proc : req[p].file = f /\ req[p].pc \in {"get.cache", "fill"}}

\* LibreOffice missing or failing, an object that has moved, a disconnect, a
\* crash: a fill writes nothing, a save leaves the old preview.
Fail(p) ==
    /\ ~At(p, "idle")
    /\ disturbed' = disturbed \cup
                      {f \in {req[p].file} : At(p, "put.invalidate")}
    /\ Finish(p)
    /\ UNCHANGED <<file, preview, saved>>

-----------------------------------------------------------------------------
\* Upload or TUS finalise: the row, and then the preview of its bytes.
Upload(p, f) ==
    /\ file[f].place = "unborn"
    /\ file' = [file EXCEPT ![f] = [place |-> "live", version |-> 1]]
    /\ saved' = [saved EXCEPT ![f] = 1]
    /\ Start(p, "fill", f, 1)
    /\ UNCHANGED <<preview, disturbed>>

\* GET /files/:id/preview: the row, then the cache.
GetBegin(p, f) ==
    /\ file[f].place = "live"
    /\ Start(p, "get.cache", f, file[f].version)
    /\ UNCHANGED <<file, preview, disturbed, saved>>

\* A hit is served as it is; a miss reads the object and renders it.
GetCache(p) ==
    /\ At(p, "get.cache")
    /\ IF preview[req[p].file] # None THEN Finish(p)
       ELSE req' = [req EXCEPT ![p].pc = "fill"]
    /\ UNCHANGED <<file, preview, disturbed, saved>>

\* Mutant: file_previews has no foreign key to files.
FillOrphans(p) ==
    /\ At(p, "fill")
    /\ preview' = [preview EXCEPT ![req[p].file] = req[p].version]
    /\ Finish(p)
    /\ UNCHANGED <<file, disturbed, saved>>

\* Mutant: the preview is filed under the version to come.
FillAsNext(p) ==
    /\ At(p, "fill")
    /\ HasRow(req[p].file)
    /\ preview' = [preview EXCEPT ![req[p].file] = req[p].version + 1]
    /\ Finish(p)
    /\ UNCHANGED <<file, disturbed, saved>>

\* INSERT ... ON CONFLICT DO UPDATE: whatever the row's version is by now.
Fill(p) ==
    /\ At(p, "fill")
    /\ HasRow(req[p].file)
    /\ preview' = [preview EXCEPT ![req[p].file] = req[p].version]
    /\ Finish(p)
    /\ UNCHANGED <<file, disturbed, saved>>

-----------------------------------------------------------------------------
\* UPDATE files SET version = version + 1, by either saver.
Promote(f, v) ==
    /\ HasRow(f) /\ v = file[f].version + 1 /\ v <= MaxVersion
    /\ file' = [file EXCEPT ![f].version = v]

\* Mutant: the save returns without touching the cache.
PutPromoteOnly(p, f, v) ==
    /\ Promote(f, v)
    /\ At(p, "idle") /\ UNCHANGED <<req, preview>>
    /\ disturbed' = IF Filling(f) = {} THEN disturbed ELSE disturbed \cup {f}
    /\ saved' = [saved EXCEPT ![f] = v]

PutPromote(p, f, v) ==
    /\ Promote(f, v)
    /\ Start(p, "put.invalidate", f, v)
    /\ disturbed' = IF Filling(f) = {} THEN disturbed ELSE disturbed \cup {f}
    /\ UNCHANGED <<preview, saved>>

\* DELETE FROM file_previews, whoever filled it since; then 200.
PutInvalidate(p) ==
    LET f == req[p].file IN
    /\ At(p, "put.invalidate")
    /\ preview' = [preview EXCEPT ![f] = None]
    /\ saved' = [saved EXCEPT ![f] = IF @ < req[p].version THEN req[p].version ELSE @]
    /\ Finish(p)
    /\ UNCHANGED <<file, disturbed>>

\* POST /files/:id/versions leaves the preview, and the fills, as they are.
UploadVersion(f, v) ==
    /\ Promote(f, v)
    /\ disturbed' = IF preview[f] = None /\ Filling(f) = {} THEN disturbed
                    ELSE disturbed \cup {f}
    /\ saved' = [saved EXCEPT ![f] = v]
    /\ UNCHANGED <<preview, req>>

-----------------------------------------------------------------------------
Trash(f) ==
    /\ file[f].place = "live"
    /\ file' = [file EXCEPT ![f].place = "trash"]
    /\ UNCHANGED <<preview, req, disturbed, saved>>

Restore(f) ==
    /\ file[f].place = "trash"
    /\ file' = [file EXCEPT ![f].place = "live"]
    /\ UNCHANGED <<preview, req, disturbed, saved>>

\* The row goes, from the trash or from a hard delete, and takes its preview.
Purge(f) ==
    /\ HasRow(f)
    /\ file' = [file EXCEPT ![f].place = "gone"]
    /\ preview' = [preview EXCEPT ![f] = None]
    /\ UNCHANGED <<req, disturbed, saved>>

-----------------------------------------------------------------------------
Next ==
    \/ \E p \in Proc :
        \/ \E f \in File : Upload(p, f)
        \/ \E f \in File : GetBegin(p, f)
        \/ GetCache(p)
        \/ Fill(p)
        \/ \E f \in File, v \in Version : PutPromote(p, f, v)
        \/ PutInvalidate(p)
        \/ Fail(p)
    \/ \E f \in File, v \in Version : UploadVersion(f, v)
    \/ \E f \in File : Trash(f) \/ Restore(f) \/ Purge(f)

Spec == Init /\ [][Next]_vars

-----------------------------------------------------------------------------
(* Properties. *)

\* wopi.rs:289: a preview answered after a save has returned shows that save
\* or a later one, unless a fill was under way when a version was promoted,
\* an invalidation was lost, or a version came in through upload_version.
CacheIsRecent ==
    \A f \in File \ disturbed : preview[f] # None => preview[f] >= saved[f]

\* A fill that started before the purge does not bring a preview back.
NoneAfterPurge == \A f \in File : preview[f] # None => HasRow(f)
=============================================================================
