----------------------------- MODULE FileStore -----------------------------
(***************************************************************************)
(* The files table, the file_versions table and the object store of File   *)
(* Hub, and every handler that writes more than one of them: multipart     *)
(* upload, new version, WOPI PutFile, PATCH (rename / move), soft delete,   *)
(* restore, admin purge and the rotation worker.                           *)
(*                                                                         *)
(* Postgres and the object store share no transaction.  A handler is a     *)
(* sequence of awaits, each one atomic on one side, and handlers of        *)
(* different requests interleave between awaits; a step below is one       *)
(* await that writes (or the read whose result a later step relies on).    *)
(***************************************************************************)
EXTENDS Naturals, FiniteSets

CONSTANTS
    File,        \* ids minted by Uuid::now_v7, never minted twice
    Sys,         \* systems; a bucket belongs to one system (UNIQUE), so it is named by it
    Name,        \* display names
    SafeName,    \* what sanitize_filename makes of them
    Sanitize,    \* Sanitize[n]: two names may share one safe form
    Body,        \* plaintexts; an ETag (MD5 of the plaintext) is named by its plaintext
    Garbled,     \* what reading ciphertext without decrypting it yields
    Proc,        \* concurrent HTTP requests
    Worker,      \* concurrent rotation runs (the cron task, a manual run)
    Handlers,    \* the entry points the deployment exposes
    KeepLastN,   \* effective keep_last_n_versions, 0 = pruning off
    MaxVersion   \* bound: no save is started on a file at this version

AllHandlers == {"upload", "version", "wopi", "patch", "trash", "purge",
                "archive", "expire", "rekey"}

ASSUME ConstantsAssumption ==
    /\ File # {} /\ Sys # {} /\ Name # {} /\ Body # {}
    /\ Sanitize \in [Name -> SafeName]
    /\ Garbled \notin Body
    /\ Proc \cap Worker = {}
    /\ Handlers \subseteq AllHandlers
    /\ KeepLastN \in Nat
    /\ MaxVersion \in Nat \ {0}

VARIABLES
    life,      \* life[f]: has the id been minted, is there a row, was it deleted
    row,       \* row[f]: the files row, meaningful while life[f] = "row"
    versions,  \* the file_versions rows
    store,     \* the object store: a function from the keys that exist
    cipher,    \* is STORAGE_ENC_KEY configured in the running process
    req,       \* req[p]: the handler (or rotation step) p is executing
    rekeyed    \* history: files whose bytes, or whose object_key, a PATCH moved

vars == <<life, row, versions, store, cipher, req, rekeyed>>

-----------------------------------------------------------------------------
(* Data. *)

\* {bucket}/{id}-{safe} is ver = 0, {bucket}/{id}-v{n}-{safe} is ver = n.
Key == [file : File, bucket : Sys, ver : 0..MaxVersion, safe : SafeName]

PlainKey(f, s, n) ==
    [file |-> f, bucket |-> s, ver |-> 0, safe |-> Sanitize[n]]

\* Mutants: versions share the first upload's key; the number is off by one.
VersionKeyShared(f, s, v, n) == PlainKey(f, s, n)

VersionKeyAhead(f, s, v, n) ==
    [file |-> f, bucket |-> s, ver |-> v + 1, safe |-> Sanitize[n]]

VersionKey(f, s, v, n) ==
    [file |-> f, bucket |-> s, ver |-> v, safe |-> Sanitize[n]]

\* deleted_at: NULL, set, or set longer ago than delete_after_days.
TrashState == {"live", "trash", "expired"}

Row == [name : Name, sys : Sys, key : Key, version : 1..MaxVersion,
        etag : Body, enc : BOOLEAN, trash : TrashState]

VersionRow == [file : File, version : 1..MaxVersion, key : Key, etag : Body]

Blob == [body : Body \cup {Garbled}, enc : BOOLEAN]

Place == [sys : Sys, name : Name]

Control == {"idle", "upload.insert", "version.claim", "version.put",
            "version.promote", "wopi.put", "wopi.claim", "wopi.promote",
            "patch.get", "patch.put", "patch.unlink", "patch.commit",
            "purge.keys", "purge.row", "purge.unlink",
            "prune.object", "prune.row"}

\* snap is the row as the handler's first SELECT returned it, or the row an
\* upload is about to insert; todo the version rows collected for deletion.
Request == [pc : Control, file : File, snap : Row, to : Place, key : Key,
            body : Body \cup {Garbled}, todo : SUBSET VersionRow]

NoPlace == CHOOSE q \in Place : TRUE
NoKey   == CHOOSE k \in Key : TRUE
NoBody  == CHOOSE b \in Body : TRUE
NoFile  == CHOOSE f \in File : TRUE
NoRow   == [name |-> NoPlace.name, sys |-> NoPlace.sys, key |-> NoKey,
            version |-> 1, etag |-> NoBody, enc |-> FALSE, trash |-> "live"]
Idle    == [pc |-> "idle", file |-> NoFile, snap |-> NoRow, to |-> NoPlace,
            key |-> NoKey, body |-> NoBody, todo |-> {}]

Actor == Proc \cup Worker

HasRow(f) == life[f] = "row"
Live(f)   == HasRow(f) /\ row[f].trash = "live"

HistoryOf(f) == {r \in versions : r.file = f}

NewerThan(r) == {q \in versions : q.file = r.file /\ q.version > r.version}

TypeOK ==
    /\ life \in [File -> {"unborn", "minted", "row", "gone"}]
    /\ row \in [File -> Row]
    /\ versions \subseteq VersionRow
    /\ DOMAIN store \subseteq Key
    /\ store \in [DOMAIN store -> Blob]
    /\ cipher \in BOOLEAN
    /\ req \in [Actor -> Request]
    /\ rekeyed \subseteq File

Init ==
    /\ life = [f \in File |-> "unborn"]
    /\ row = [f \in File |-> NoRow]
    /\ versions = {}
    /\ store = [k \in {} |-> [body |-> NoBody, enc |-> FALSE]]
    /\ cipher = FALSE
    /\ req = [p \in Actor |-> Idle]
    /\ rekeyed = {}

-----------------------------------------------------------------------------
(* The object store as storage.rs exposes it. *)

\* Storage::put encrypts exactly when a key is configured, and overwrites.
Put(k, b) ==
    store' = [j \in DOMAIN store \cup {k} |->
                IF j = k THEN [body |-> b, enc |-> cipher] ELSE store[j]]

\* Deletes are best effort everywhere (`let _ =`): any of ks may survive.
Unlink(ks) ==
    \E gone \in SUBSET ks :
        store' = [j \in DOMAIN store \ gone |-> store[j]]

-----------------------------------------------------------------------------
(* Request bookkeeping. *)

At(p, pc) == req[p].pc = pc

Start(p, r) == At(p, "idle") /\ req' = [req EXCEPT ![p] = r]

Goto(p, pc) == req' = [req EXCEPT ![p].pc = pc]

Finish(p) == req' = [req EXCEPT ![p] = Idle]

\* An early return on an error (quota, storage or database error, a folder
\* that does not exist), a client that disconnects (the handler's future is
\* dropped at its current await) or a crash: what is written stays written.
Fail(p) ==
    /\ ~At(p, "idle")
    /\ Finish(p)
    /\ UNCHANGED <<life, row, versions, store, cipher, rekeyed>>

-----------------------------------------------------------------------------
(* Upload: persist_upload_for puts the bytes, then inserts the row. *)

Upload(p, f, s, n, b) ==
    /\ "upload" \in Handlers
    /\ life[f] = "unborn"
    /\ life' = [life EXCEPT ![f] = "minted"]
    /\ Put(PlainKey(f, s, n), b)
    /\ Start(p, [Idle EXCEPT !.pc = "upload.insert", !.file = f,
                   !.snap = [name |-> n, sys |-> s, key |-> PlainKey(f, s, n),
                             version |-> 1, etag |-> b, enc |-> cipher,
                             trash |-> "live"]])
    /\ UNCHANGED <<row, versions, cipher, rekeyed>>

UploadInsert(p) ==
    /\ At(p, "upload.insert")
    /\ life' = [life EXCEPT ![req[p].file] = "row"]
    /\ row' = [row EXCEPT ![req[p].file] = req[p].snap]
    /\ Finish(p)
    /\ UNCHANGED <<versions, store, cipher, rekeyed>>

-----------------------------------------------------------------------------
(* New versions.  The current bytes are archived as a file_versions row,   *)
(* new bytes are put under the next version's key, and the row is pointed   *)
(* at them.  upload_version archives first and puts second; PutFile the    *)
(* other way round.                                                        *)

BeginSave(p, f, pc) ==
    /\ Live(f)
    /\ row[f].version < MaxVersion
    /\ Start(p, [Idle EXCEPT !.pc = pc, !.file = f, !.snap = row[f]])
    /\ UNCHANGED <<life, row, versions, store, cipher, rekeyed>>

CanArchive(f, v) == HasRow(f) /\ \A r \in HistoryOf(f) : r.version # v

\* Mutant: the row is archived under the number of the version to come.
ArchiveAhead(p, etag, pc) ==
    LET f == req[p].file
        old == req[p].snap
    IN /\ CanArchive(f, old.version + 1)
       /\ versions' = versions \cup {[file |-> f, version |-> old.version + 1,
                                      key |-> old.key, etag |-> etag]}
       /\ Goto(p, pc)
       /\ UNCHANGED <<life, row, store, cipher, rekeyed>>

Archive(p, etag, pc) ==
    LET f == req[p].file
        old == req[p].snap
    IN /\ CanArchive(f, old.version)
       /\ versions' = versions \cup {[file |-> f, version |-> old.version,
                                      key |-> old.key, etag |-> etag]}
       /\ Goto(p, pc)
       /\ UNCHANGED <<life, row, store, cipher, rekeyed>>

PutVersion(p, n, b, pc) ==
    LET f == req[p].file
        k == VersionKey(f, req[p].snap.sys, req[p].snap.version + 1, n)
    IN /\ Put(k, b)
       /\ req' = [req EXCEPT ![p].pc = pc, ![p].key = k, ![p].body = b]
       /\ UNCHANGED <<life, row, versions, cipher, rekeyed>>

\* Mutant: an upsert, which brings a purged row back.
PromoteUpsert(p, enc) ==
    LET f == req[p].file IN
    /\ life' = [life EXCEPT ![f] = "row"]
    /\ row' = [row EXCEPT ![f].version = req[p].snap.version + 1,
                          ![f].key = req[p].key, ![f].etag = req[p].body,
                          ![f].enc = enc]
    /\ Finish(p)
    /\ UNCHANGED <<versions, store, cipher, rekeyed>>

\* UPDATE files ... WHERE id: no version check, and no effect without a row.
Promote(p, enc) ==
    LET f == req[p].file IN
    /\ row' = IF HasRow(f)
              THEN [row EXCEPT ![f].version = req[p].snap.version + 1,
                               ![f].key = req[p].key,
                               ![f].etag = req[p].body,
                               ![f].enc = enc]
              ELSE row
    /\ Finish(p)
    /\ UNCHANGED <<life, versions, store, cipher, rekeyed>>

VersionBegin(p, f) == "version" \in Handlers /\ BeginSave(p, f, "version.claim")

VersionClaim(p) ==
    At(p, "version.claim") /\ Archive(p, req[p].snap.etag, "version.put")

VersionPut(p, n, b) ==
    At(p, "version.put") /\ PutVersion(p, n, b, "version.promote")

VersionPromote(p) == At(p, "version.promote") /\ Promote(p, cipher)

WopiBegin(p, f) == "wopi" \in Handlers /\ BeginSave(p, f, "wopi.put")

WopiPut(p, b) ==
    At(p, "wopi.put") /\ PutVersion(p, req[p].snap.name, b, "wopi.claim")

\* The archived row is given the NEW bytes' etag.
WopiClaim(p) ==
    At(p, "wopi.claim") /\ Archive(p, req[p].body, "wopi.promote")

\* The encrypted flag of the old row is written back, not the cipher's.
WopiPromote(p) == At(p, "wopi.promote") /\ Promote(p, req[p].snap.enc)

-----------------------------------------------------------------------------
(* PATCH /files/:id.  A rename or a move copies the bytes to a plain key,  *)
(* deletes the old object and only then validates the folder and updates   *)
(* the row, from the snapshot its SELECT returned.                         *)

PatchBegin(p, f, s, n) ==
    /\ "patch" \in Handlers
    /\ Live(f)
    /\ LET moved == s # row[f].sys
           k == IF moved \/ n # row[f].name THEN PlainKey(f, s, n) ELSE row[f].key
       IN Start(p, [Idle EXCEPT
                      !.pc = IF moved \/ k # row[f].key THEN "patch.get"
                             ELSE "patch.commit",
                      !.file = f, !.snap = row[f], !.key = k,
                      !.to = [sys |-> s, name |-> n]])
    /\ UNCHANGED <<life, row, versions, store, cipher, rekeyed>>

\* A missing object is no error: the copy is skipped and the row still
\* renamed.  Plain bytes under an encrypted flag fail to decrypt (Fail);
\* ciphertext under a plain flag is read as if it were the file.
PatchGet(p) ==
    LET old == req[p].snap IN
    /\ At(p, "patch.get")
    /\ \/ /\ old.key \notin DOMAIN store
          /\ Goto(p, "patch.commit")
       \/ /\ old.key \in DOMAIN store
          /\ old.enc => store[old.key].enc
          /\ req' = [req EXCEPT ![p].pc = "patch.put",
                       ![p].body = IF store[old.key].enc = old.enc
                                   THEN store[old.key].body ELSE Garbled]
    /\ UNCHANGED <<life, row, versions, store, cipher, rekeyed>>

PatchPut(p) ==
    /\ At(p, "patch.put")
    /\ Put(req[p].key, req[p].body)
    /\ rekeyed' = rekeyed \cup {req[p].file}
    /\ Goto(p, "patch.unlink")
    /\ UNCHANGED <<life, row, versions, cipher>>

PatchUnlink(p) ==
    /\ At(p, "patch.unlink")
    /\ Unlink({req[p].snap.key})
    /\ Goto(p, "patch.commit")
    /\ UNCHANGED <<life, row, versions, cipher, rekeyed>>

PatchCommit(p) ==
    LET f == req[p].file IN
    /\ At(p, "patch.commit")
    /\ row' = IF HasRow(f)
              THEN [row EXCEPT ![f].name = req[p].to.name,
                               ![f].sys = req[p].to.sys,
                               ![f].key = req[p].key]
              ELSE row
    /\ rekeyed' = rekeyed \cup {g \in {f} : row'[g].key # row[g].key}
    /\ Finish(p)
    /\ UNCHANGED <<life, versions, store, cipher>>

-----------------------------------------------------------------------------
(* Trash, restore, purge.  delete_file and restore_file end in one UPDATE  *)
(* that depends on nothing their SELECT read, so each is one step.         *)

\* No deleted_at filter: trashing a trashed file starts its window again.
Trash(f) ==
    /\ "trash" \in Handlers
    /\ HasRow(f)
    /\ row' = [row EXCEPT ![f].trash = "trash"]
    /\ UNCHANGED <<life, versions, store, cipher, req, rekeyed>>

Restore(f) ==
    /\ "trash" \in Handlers
    /\ HasRow(f) /\ ~Live(f)
    /\ row' = [row EXCEPT ![f].trash = "live"]
    /\ UNCHANGED <<life, versions, store, cipher, req, rekeyed>>

\* Time: the retention window of a trashed file ends.
WindowEnds(f) ==
    /\ HasRow(f) /\ row[f].trash = "trash"
    /\ row' = [row EXCEPT ![f].trash = "expired"]
    /\ UNCHANGED <<life, versions, store, cipher, req, rekeyed>>

BeginPurge(p, f) ==
    /\ Start(p, [Idle EXCEPT !.pc = "purge.keys", !.file = f, !.key = row[f].key])
    /\ UNCHANGED <<life, row, versions, store, cipher, rekeyed>>

\* DELETE ?hard=true by an admin: whatever the file's state.
HardDelete(p, f) == "purge" \in Handlers /\ HasRow(f) /\ BeginPurge(p, f)

\* hard_delete_file: the recheck SELECT inside its transaction.
Expire(w, f) ==
    /\ "expire" \in Handlers
    /\ HasRow(f) /\ row[f].trash = "expired"
    /\ BeginPurge(w, f)

\* Mutant: the objects are deleted before the row is.
PurgeKeysUnlinking(p) ==
    /\ At(p, "purge.keys")
    /\ Unlink({req[p].key})
    /\ req' = [req EXCEPT ![p].pc = "purge.row",
                          ![p].todo = HistoryOf(req[p].file)]
    /\ UNCHANGED <<life, row, versions, cipher, rekeyed>>

PurgeKeys(p) ==
    /\ At(p, "purge.keys")
    /\ req' = [req EXCEPT ![p].pc = "purge.row",
                          ![p].todo = HistoryOf(req[p].file)]
    /\ UNCHANGED <<life, row, versions, store, cipher, rekeyed>>

\* Mutant: file_versions without ON DELETE CASCADE.
PurgeRowRestricted(p) ==
    LET f == req[p].file IN
    /\ At(p, "purge.row")
    /\ HistoryOf(f) = {}
    /\ life' = [life EXCEPT ![f] = "gone"]
    /\ row' = [row EXCEPT ![f] = NoRow]
    /\ Goto(p, "purge.unlink")
    /\ UNCHANGED <<versions, store, cipher, rekeyed>>

\* DELETE FROM files WHERE id (nothing else in the predicate); the version
\* rows go with it.
PurgeRow(p) ==
    LET f == req[p].file IN
    /\ At(p, "purge.row")
    /\ life' = [life EXCEPT ![f] = "gone"]
    /\ row' = [row EXCEPT ![f] = NoRow]
    /\ versions' = versions \ HistoryOf(f)
    /\ Goto(p, "purge.unlink")
    /\ UNCHANGED <<store, cipher, rekeyed>>

PurgeUnlink(p) ==
    /\ At(p, "purge.unlink")
    /\ Unlink({req[p].key} \cup {r.key : r \in req[p].todo})
    /\ Finish(p)
    /\ UNCHANGED <<life, row, versions, cipher, rekeyed>>

-----------------------------------------------------------------------------
(* The rotation worker's other passes. *)

\* A live file older than archive_after_days: UPDATE ... AND deleted_at IS NULL.
ArchiveOld(f) ==
    /\ "archive" \in Handlers
    /\ Live(f)
    /\ row' = [row EXCEPT ![f].trash = "trash"]
    /\ UNCHANGED <<life, versions, store, cipher, req, rekeyed>>

\* Mutant: the current row is not counted among the versions kept.
PrunableOffByOne(f) ==
    {r \in HistoryOf(f) : Cardinality(NewerThan(r)) + 2 >= KeepLastN}

\* The current row is the newest version, so KeepLastN - 1 archived rows stay.
Prunable(f) ==
    {r \in HistoryOf(f) : Cardinality(NewerThan(r)) + 1 >= KeepLastN}

PruneBegin(w, f) ==
    /\ KeepLastN > 0
    /\ Prunable(f) # {}
    /\ Start(w, [Idle EXCEPT !.pc = "prune.object", !.file = f,
                   !.todo = Prunable(f)])
    /\ UNCHANGED <<life, row, versions, store, cipher, rekeyed>>

\* ORDER BY version DESC: the newest prunable row goes first.
IsNext(r, rs) == r \in rs /\ \A q \in rs : q.version <= r.version

PruneObject(w) ==
    /\ At(w, "prune.object")
    /\ \E r \in req[w].todo : IsNext(r, req[w].todo) /\ Unlink({r.key})
    /\ Goto(w, "prune.row")
    /\ UNCHANGED <<life, row, versions, cipher, rekeyed>>

PruneRow(w) ==
    /\ At(w, "prune.row")
    /\ \E r \in req[w].todo :
        /\ IsNext(r, req[w].todo)
        /\ versions' = versions \ {r}
        /\ req' = [req EXCEPT ![w] =
                     IF req[w].todo = {r} THEN Idle
                     ELSE [req[w] EXCEPT !.pc = "prune.object",
                                         !.todo = req[w].todo \ {r}]]
    /\ UNCHANGED <<life, row, store, cipher, rekeyed>>

-----------------------------------------------------------------------------
\* The process is restarted with STORAGE_ENC_KEY set for the first time.
EnableEncryption ==
    /\ "rekey" \in Handlers
    /\ \A p \in Actor : At(p, "idle")
    /\ ~cipher
    /\ cipher' = TRUE
    /\ UNCHANGED <<life, row, versions, store, req, rekeyed>>

HttpStep(p) ==
    \/ \E f \in File, s \in Sys, n \in Name, b \in Body : Upload(p, f, s, n, b)
    \/ UploadInsert(p)
    \/ \E f \in File : VersionBegin(p, f)
    \/ VersionClaim(p)
    \/ \E n \in Name, b \in Body : VersionPut(p, n, b)
    \/ VersionPromote(p)
    \/ \E f \in File : WopiBegin(p, f)
    \/ \E b \in Body : WopiPut(p, b)
    \/ WopiClaim(p)
    \/ WopiPromote(p)
    \/ \E f \in File, s \in Sys, n \in Name : PatchBegin(p, f, s, n)
    \/ PatchGet(p)
    \/ PatchPut(p)
    \/ PatchUnlink(p)
    \/ PatchCommit(p)
    \/ \E f \in File : HardDelete(p, f)

PurgeStep(p) == PurgeKeys(p) \/ PurgeRow(p) \/ PurgeUnlink(p)

RotationStep(w) ==
    \/ \E f \in File : Expire(w, f)
    \/ \E f \in File : PruneBegin(w, f)
    \/ PruneObject(w)
    \/ PruneRow(w)

FileStep(f) == Trash(f) \/ Restore(f) \/ WindowEnds(f) \/ ArchiveOld(f)

Next ==
    \/ \E p \in Proc : HttpStep(p)
    \/ \E w \in Worker : RotationStep(w)
    \/ \E p \in Actor : PurgeStep(p) \/ Fail(p)
    \/ \E f \in File : FileStep(f)
    \/ EnableEncryption

Spec == Init /\ [][Next]_vars

-----------------------------------------------------------------------------
(* The abstract life of a file (FileLifecycle), read off the tables. *)

StatusOf(f) ==
    CASE life[f] \in {"unborn", "minted"} -> "none"
      [] life[f] = "gone"                 -> "gone"
      [] Live(f)                          -> "live"
      [] OTHER                            -> "trashed"

CurrentOf(f) == IF HasRow(f) THEN row[f].version ELSE 0

Lifecycle == INSTANCE FileLifecycle WITH
    status  <- [f \in File |-> StatusOf(f)],
    current <- [f \in File |-> CurrentOf(f)]

\* Without pruning, whatever the interleaving, saves look atomic: each one
\* that succeeds advances the row by exactly one version (upload_version and
\* PutFile check no version when they update the row; the unique index on
\* file_versions is what orders them), and no row is ever resurrected.
ImplementsLifecycle == Lifecycle!Spec

-----------------------------------------------------------------------------
(* Properties that hold. *)

\* A files row names an object that exists, whatever interleaves and wherever
\* a handler stops, as long as no PATCH has moved the file: bytes are put
\* before a row names them and deleted after the row is gone.
RowHasBytes ==
    \A f \in File : HasRow(f) /\ f \notin rekeyed => row[f].key \in DOMAIN store

\* The bytes under a row's key, current or archived, are the ones its etag names,
\* and those of the current row are stored the way its encrypted flag says: what
\* download_file serves is what was saved, and no save writes over an object the
\* history still needs.
BytesMatchRow ==
    /\ \A f \in File : HasRow(f) /\ f \notin rekeyed =>
        /\ row[f].key \in DOMAIN store
        /\ store[row[f].key] = [body |-> row[f].etag, enc |-> row[f].enc]
    /\ \A r \in versions : r.file \notin rekeyed =>
        r.key \in DOMAIN store /\ store[r.key].body = r.etag

\* Without pruning the archive has no gap: every version below the current
\* one, and at most the current one on top (a save that has claimed it).
HistoryContiguous ==
    \A f \in File : HasRow(f) =>
        {r.version : r \in HistoryOf(f)}
            \in {1..(row[f].version - 1), 1..row[f].version}

\* Pruning never removes one of the KeepLastN - 1 newest archived rows.
PruneKeepsNewest ==
    [][\A r \in versions \ versions' : HasRow(r.file)' =>
          Cardinality({q \in versions' : q.file = r.file /\ q.version > r.version})
             + 1 >= KeepLastN]_vars

\* The newest KeepLastN - 1 archived versions still have their bytes, while
\* a worker is deleting older ones and a save is archiving a newer one.
KeptHistoryHasBytes ==
    \A r \in versions :
        r.file \notin rekeyed /\ Cardinality(NewerThan(r)) + 1 < KeepLastN
            => r.key \in DOMAIN store

\* The worker's loop returns to every file and its statements succeed if
\* they are tried often enough; nothing is assumed of the HTTP requests.
RotationFairness ==
    \A w \in Worker :
        /\ WF_vars(PruneObject(w) \/ PruneRow(w) \/ PurgeUnlink(w))
        /\ SF_vars(PurgeKeys(w))
        /\ SF_vars(PurgeRow(w))
        /\ \A f \in File : SF_vars(Expire(w, f))

FairSpec == Spec /\ RotationFairness

\* A file whose retention window has ended is purged, unless someone restores
\* it or trashes it again (which opens a new window).
ExpiredIsPurged ==
    \A f \in File : (HasRow(f) /\ row[f].trash = "expired")
                       ~> ~(HasRow(f) /\ row[f].trash = "expired")

-----------------------------------------------------------------------------
(* What the repository says, and the code does not always do. *)

AtRest(f) == \A p \in Actor : At(p, "idle") \/ req[p].file # f

\* rotation.rs:248 calls a row without bytes "permanently broken": no
\* finished request leaves one behind.
NoBrokenRow ==
    \A f \in File : HasRow(f) /\ AtRest(f) => row[f].key \in DOMAIN store

\* rotation.rs:257 "a concurrent restore (which clears deleted_at) wins the
\* race": the worker never deletes a live file.
RestoreWins == [][\A f \in File : Live(f) => HasRow(f)']_vars
=============================================================================
