-------------------------- MODULE FileStoreProofs --------------------------
(* Theorems about FileStore, for every value of its constants.              *)
(* First that a row has bytes.  Then the version history: the archive has   *)
(* no gap, the store implements FileLifecycle, and a key holds the bytes    *)
(* its row describes.  These are proved without pruning, for every number   *)
(* of files, requests and versions, the last for deployments without WOPI   *)
(* too.  What pruning keeps is proved for every keep_last_n_versions.       *)
EXTENDS FileStore, FiniteSetTheorems, TLAPS

\* The placeholder values have their types.
LEMMA PlaceholderTypes ==
    /\ NoPlace \in Place
    /\ NoKey \in Key
    /\ NoBody \in Body
    /\ NoFile \in File
    /\ NoRow \in Row
    /\ Idle \in Request
<1> USE ConstantsAssumption
<1>1. NoPlace \in Place
  <2>1. \E s \in Sys, n \in Name : [sys |-> s, name |-> n] \in Place
    BY DEF Place
  <2>. QED
    BY <2>1 DEF NoPlace
<1>2. NoKey \in Key
  <2>1. PICK f \in File, s \in Sys, n \in Name : TRUE
    OBVIOUS
  <2>2. PlainKey(f, s, n) \in Key
    BY DEF PlainKey, Key
  <2>. QED
    BY <2>2 DEF NoKey
<1>3. NoBody \in Body
  BY DEF NoBody
<1>4. NoFile \in File
  BY DEF NoFile
<1>5. NoRow \in Row
  BY <1>1, <1>2, <1>3 DEF NoRow, Row, Place, TrashState
<1>6. Idle \in Request
  BY <1>1, <1>2, <1>3, <1>4, <1>5 DEF Idle, Request, Control
<1>. QED
  BY <1>1, <1>2, <1>3, <1>4, <1>5, <1>6

\* Keys built for a file are keys.
LEMMA KeyTypes ==
    ASSUME NEW f \in File, NEW s \in Sys, NEW n \in Name, NEW v \in 0..MaxVersion
    PROVE  PlainKey(f, s, n) \in Key /\ VersionKey(f, s, v, n) \in Key
BY ConstantsAssumption DEF PlainKey, VersionKey, Key

\* Writing and deleting objects keeps the store a function from keys to blobs.
LEMMA PutType ==
    ASSUME TypeOK, NEW k \in Key, NEW b \in Body \cup {Garbled}, Put(k, b)
    PROVE  DOMAIN store' \subseteq Key /\ store' \in [DOMAIN store' -> Blob]
BY DEF TypeOK, Put, Blob

LEMMA UnlinkType ==
    ASSUME TypeOK, NEW ks, Unlink(ks)
    PROVE  DOMAIN store' \subseteq Key /\ store' \in [DOMAIN store' -> Blob]
BY DEF TypeOK, Unlink

-----------------------------------------------------------------------------
(* Type correctness.  TypeOK is not inductive: a save writes version + 1     *)
(* and its request's body into the row, so what a request holds while it     *)
(* saves has to be carried along.                                           *)

Saving == {"version.claim", "version.put", "version.promote",
           "wopi.put", "wopi.claim", "wopi.promote"}

HasBody == {"version.promote", "wopi.claim", "wopi.promote"}

WellFormed(r) ==
    /\ r \in Request
    /\ r.pc \in Saving => r.snap.version < MaxVersion
    /\ r.pc \in HasBody => r.body \in Body

TypeInv == TypeOK /\ \A p \in Actor : WellFormed(req[p])

\* A step that replaces one request by a well-formed one.
LEMMA RequestStep ==
    ASSUME TypeInv, NEW p \in Actor, NEW r, WellFormed(r),
           req' = [req EXCEPT ![p] = r]
    PROVE  req' \in [Actor -> Request] /\ \A q \in Actor : WellFormed(req'[q])
BY DEF TypeInv, TypeOK, WellFormed

\* What the type invariant says of one request.
LEMMA RequestTypes ==
    ASSUME TypeInv, NEW p \in Actor
    PROVE  /\ WellFormed(req[p])
           /\ req[p].pc \in Control /\ req[p].file \in File
           /\ req[p].key \in Key /\ req[p].to \in Place
           /\ req[p].body \in Body \cup {Garbled}
           /\ req[p].todo \subseteq VersionRow
           /\ req[p].snap \in Row
           /\ req[p].snap.version \in 1..MaxVersion
           /\ req[p].snap.key \in Key /\ req[p].snap.etag \in Body
           /\ req[p].snap.sys \in Sys /\ req[p].snap.name \in Name
           /\ req[p].snap.enc \in BOOLEAN
           /\ req[p].to.sys \in Sys /\ req[p].to.name \in Name
BY DEF TypeInv, WellFormed, Request, Row, Place

LEMMA IdleWellFormed == WellFormed(Idle)
BY PlaceholderTypes DEF WellFormed, Idle, Saving, HasBody

LEMMA InitType == Init => TypeInv
BY PlaceholderTypes, IdleWellFormed DEF Init, TypeInv, TypeOK

LEMMA FinishType ==
    ASSUME TypeInv, NEW p \in Actor, Finish(p)
    PROVE  req' \in [Actor -> Request] /\ \A q \in Actor : WellFormed(req'[q])
BY RequestStep, IdleWellFormed DEF Finish

LEMMA UploadType ==
    ASSUME TypeInv, NEW p \in Actor, NEW f \in File, NEW s \in Sys,
           NEW n \in Name, NEW b \in Body, Upload(p, f, s, n, b)
    PROVE  TypeInv'
<1>1. PlainKey(f, s, n) \in Key
  BY KeyTypes, ConstantsAssumption
<1>2. DOMAIN store' \subseteq Key /\ store' \in [DOMAIN store' -> Blob]
  BY <1>1, PutType DEF Upload, TypeInv
<1> DEFINE snap == [name |-> n, sys |-> s, key |-> PlainKey(f, s, n),
                    version |-> 1, etag |-> b, enc |-> cipher, trash |-> "live"]
           r == [Idle EXCEPT !.pc = "upload.insert", !.file = f, !.snap = snap]
<1>3. snap \in Row
  BY <1>1, ConstantsAssumption DEF TypeInv, TypeOK, Row, TrashState
<1>4. WellFormed(r)
  BY <1>3, PlaceholderTypes DEF WellFormed, Request, Control, Saving, HasBody
<1>5. req' \in [Actor -> Request] /\ \A q \in Actor : WellFormed(req'[q])
  BY <1>4, RequestStep DEF Upload, Start
<1>. QED
  BY <1>2, <1>5 DEF Upload, TypeInv, TypeOK

LEMMA UploadInsertType ==
    ASSUME TypeInv, NEW p \in Actor, UploadInsert(p)
    PROVE  TypeInv'
BY RequestTypes, FinishType DEF UploadInsert, TypeInv, TypeOK

LEMMA BeginSaveType ==
    ASSUME TypeInv, NEW p \in Actor, NEW f \in File,
           NEW pc \in {"version.claim", "wopi.put"}, BeginSave(p, f, pc)
    PROVE  TypeInv'
<1> DEFINE r == [Idle EXCEPT !.pc = pc, !.file = f, !.snap = row[f]]
<1>1. WellFormed(r)
  BY PlaceholderTypes
     DEF BeginSave, WellFormed, Request, Control, Saving, HasBody, TypeInv, TypeOK
<1>2. req' \in [Actor -> Request] /\ \A q \in Actor : WellFormed(req'[q])
  BY <1>1, RequestStep DEF BeginSave, Start
<1>. QED
  BY <1>2 DEF BeginSave, TypeInv, TypeOK

LEMMA ArchiveType ==
    ASSUME TypeInv, NEW p \in Actor, NEW etag \in Body,
           \/ At(p, "version.claim") /\ Archive(p, etag, "version.put")
           \/ At(p, "wopi.claim") /\ Archive(p, etag, "wopi.promote")
    PROVE  TypeInv'
<1>1. PICK pc \in {"version.put", "wopi.promote"} :
        /\ Archive(p, etag, pc)
        /\ \/ pc = "version.put" /\ At(p, "version.claim")
           \/ pc = "wopi.promote" /\ At(p, "wopi.claim")
  OBVIOUS
<1>2. versions' \subseteq VersionRow
  BY <1>1, RequestTypes DEF Archive, TypeInv, TypeOK, VersionRow
<1> DEFINE r == [req[p] EXCEPT !.pc = pc]
<1>3. WellFormed(r)
  BY <1>1, RequestTypes DEF At, WellFormed, Request, Control, Saving, HasBody
<1>4. req' = [req EXCEPT ![p] = r]
  BY <1>1 DEF Archive, Goto
<1>5. req' \in [Actor -> Request] /\ \A q \in Actor : WellFormed(req'[q])
  BY <1>3, <1>4, RequestStep
<1>. QED
  BY <1>1, <1>2, <1>5 DEF Archive, TypeInv, TypeOK

LEMMA PutVersionType ==
    ASSUME TypeInv, NEW p \in Actor, NEW n \in Name, NEW b \in Body,
           req[p].pc \in Saving,
           NEW pc \in {"version.promote", "wopi.claim"}, PutVersion(p, n, b, pc)
    PROVE  TypeInv'
<1> DEFINE k == VersionKey(req[p].file, req[p].snap.sys, req[p].snap.version + 1, n)
           r == [req[p] EXCEPT !.pc = pc, !.key = k, !.body = b]
<1>1. req[p].snap.version + 1 \in 0..MaxVersion
  BY RequestTypes, ConstantsAssumption DEF WellFormed
<1>2. k \in Key
  BY <1>1, RequestTypes, KeyTypes
<1>3. DOMAIN store' \subseteq Key /\ store' \in [DOMAIN store' -> Blob]
  BY <1>2, PutType DEF PutVersion, TypeInv
<1>4. WellFormed(r)
  BY <1>2, RequestTypes DEF WellFormed, Request, Control, Saving, HasBody
<1>5. req' = [req EXCEPT ![p] = r]
  BY DEF PutVersion
<1>6. req' \in [Actor -> Request] /\ \A q \in Actor : WellFormed(req'[q])
  BY <1>4, <1>5, RequestStep
<1>. QED
  BY <1>3, <1>6 DEF PutVersion, TypeInv, TypeOK

LEMMA PromoteType ==
    ASSUME TypeInv, NEW p \in Actor, NEW enc \in BOOLEAN,
           req[p].pc \in {"version.promote", "wopi.promote"}, Promote(p, enc)
    PROVE  TypeInv'
<1>1. req[p].snap.version + 1 \in 1..MaxVersion /\ req[p].body \in Body
  BY RequestTypes, ConstantsAssumption DEF WellFormed, Saving, HasBody
<1>2. row' \in [File -> Row]
  <2> DEFINE f == req[p].file
             r == [row[f] EXCEPT !.version = req[p].snap.version + 1,
                     !.key = req[p].key, !.etag = req[p].body, !.enc = enc]
  <2>1. f \in File /\ row[f] \in Row /\ req[p].key \in Key
    BY RequestTypes DEF TypeInv, TypeOK
  <2>2. r \in Row
    BY <1>1, <2>1 DEF Row
  <2>3. row' = row \/ row' = [row EXCEPT ![f] = r]
    BY <2>1 DEF Promote, TypeInv, TypeOK
  <2> HIDE DEF f, r
  <2>. QED
    BY <2>1, <2>2, <2>3 DEF TypeInv, TypeOK
<1>. QED
  BY <1>2, FinishType DEF Promote, TypeInv, TypeOK

LEMMA PatchType ==
    ASSUME TypeInv, NEW p \in Actor,
           \/ \E f \in File, s \in Sys, n \in Name : PatchBegin(p, f, s, n)
           \/ PatchGet(p) \/ PatchPut(p) \/ PatchUnlink(p) \/ PatchCommit(p)
    PROVE  TypeInv'
<1>1. ASSUME NEW f \in File, NEW s \in Sys, NEW n \in Name, PatchBegin(p, f, s, n)
      PROVE  TypeInv'
  <2> DEFINE moved == s # row[f].sys
             k == IF moved \/ n # row[f].name THEN PlainKey(f, s, n) ELSE row[f].key
             r == [Idle EXCEPT
                     !.pc = IF moved \/ k # row[f].key THEN "patch.get"
                            ELSE "patch.commit",
                     !.file = f, !.snap = row[f], !.key = k,
                     !.to = [sys |-> s, name |-> n]]
  <2>1. row[f] \in Row
    BY DEF TypeInv, TypeOK
  <2>2. k \in Key
    BY <2>1, KeyTypes, ConstantsAssumption DEF Row
  <2>3. WellFormed(r)
    <3> HIDE DEF k
    <3>. QED
      BY <2>1, <2>2, PlaceholderTypes
         DEF WellFormed, Request, Place, Control, Saving, HasBody
  <2>4. req' = [req EXCEPT ![p] = r]
    BY <1>1 DEF PatchBegin, Start
  <2>5. req' \in [Actor -> Request] /\ \A q \in Actor : WellFormed(req'[q])
    BY <2>3, <2>4, RequestStep
  <2>. QED
    BY <1>1, <2>5 DEF PatchBegin, TypeInv, TypeOK
<1>2. CASE PatchGet(p)
  <2> DEFINE old == req[p].snap
             r(pc) == [req[p] EXCEPT !.pc = pc]
             s == [req[p] EXCEPT !.pc = "patch.put",
                     !.body = IF store[old.key].enc = old.enc
                              THEN store[old.key].body ELSE Garbled]
  <2>1. WellFormed(r("patch.commit"))
    BY RequestTypes DEF WellFormed, Request, Control, Saving, HasBody
  <2>2. ASSUME old.key \in DOMAIN store
        PROVE  WellFormed(s)
    <3>1. store[old.key] \in Blob
      BY <2>2 DEF TypeInv, TypeOK
    <3>2. /\ s.pc = "patch.put" /\ s.body \in Body \cup {Garbled}
          /\ s.file = req[p].file /\ s.key = req[p].key /\ s.to = req[p].to
          /\ s.todo = req[p].todo /\ s.snap = req[p].snap
      BY <3>1, RequestTypes DEF WellFormed, Request, Blob
    <3>3. s \in Request
      BY <3>1, RequestTypes DEF WellFormed, Request, Control, Blob
    <3>. QED
      BY <3>2, <3>3, RequestTypes DEF WellFormed, Saving, HasBody
  <2>3. \/ req' = [req EXCEPT ![p] = r("patch.commit")]
        \/ old.key \in DOMAIN store /\ req' = [req EXCEPT ![p] = s]
    BY <1>2 DEF PatchGet, Goto
  <2>4. req' \in [Actor -> Request] /\ \A q \in Actor : WellFormed(req'[q])
    <3> HIDE DEF r, s
    <3>. QED
      BY <2>1, <2>2, <2>3, RequestStep
  <2>. QED
    BY <1>2, <2>4 DEF PatchGet, TypeInv, TypeOK
<1>3. CASE PatchPut(p)
  <2> DEFINE r == [req[p] EXCEPT !.pc = "patch.unlink"]
  <2>1. DOMAIN store' \subseteq Key /\ store' \in [DOMAIN store' -> Blob]
    BY <1>3, RequestTypes, PutType DEF PatchPut, TypeInv
  <2>2. WellFormed(r)
    BY RequestTypes DEF WellFormed, Request, Control, Saving, HasBody
  <2>3. req' \in [Actor -> Request] /\ \A q \in Actor : WellFormed(req'[q])
    BY <1>3, <2>2, RequestStep DEF PatchPut, Goto
  <2>. QED
    BY <1>3, <2>1, <2>3, RequestTypes DEF PatchPut, TypeInv, TypeOK
<1>4. CASE PatchUnlink(p)
  <2> DEFINE r == [req[p] EXCEPT !.pc = "patch.commit"]
  <2>1. DOMAIN store' \subseteq Key /\ store' \in [DOMAIN store' -> Blob]
    BY <1>4, UnlinkType DEF PatchUnlink, TypeInv
  <2>2. WellFormed(r)
    BY RequestTypes DEF WellFormed, Request, Control, Saving, HasBody
  <2>3. req' \in [Actor -> Request] /\ \A q \in Actor : WellFormed(req'[q])
    BY <1>4, <2>2, RequestStep DEF PatchUnlink, Goto
  <2>. QED
    BY <1>4, <2>1, <2>3 DEF PatchUnlink, TypeInv, TypeOK
<1>5. CASE PatchCommit(p)
  <2>1. row' \in [File -> Row]
    <3> DEFINE f == req[p].file
               r == [row[f] EXCEPT !.name = req[p].to.name, !.sys = req[p].to.sys,
                       !.key = req[p].key]
    <3>1. /\ f \in File /\ row[f] \in Row /\ req[p].key \in Key
          /\ req[p].to \in Place
      BY RequestTypes DEF TypeInv, TypeOK
    <3>2. r \in Row
      BY <3>1 DEF Row, Place
    <3>3. row' = row \/ row' = [row EXCEPT ![f] = r]
      BY <1>5, <3>1 DEF PatchCommit, TypeInv, TypeOK
    <3> HIDE DEF f, r
    <3>. QED
      BY <3>1, <3>2, <3>3 DEF TypeInv, TypeOK
  <2>. QED
    BY <1>5, <2>1, RequestTypes, FinishType DEF PatchCommit, TypeInv, TypeOK
<1>. QED
  BY <1>1, <1>2, <1>3, <1>4, <1>5

LEMMA PurgeType ==
    ASSUME TypeInv, NEW p \in Actor,
           \/ \E f \in File : BeginPurge(p, f)
           \/ PurgeStep(p)
    PROVE  TypeInv'
<1>1. ASSUME NEW f \in File, BeginPurge(p, f)
      PROVE  TypeInv'
  <2> DEFINE r == [Idle EXCEPT !.pc = "purge.keys", !.file = f, !.key = row[f].key]
  <2>1. WellFormed(r)
    BY PlaceholderTypes
       DEF WellFormed, Request, Control, Saving, HasBody, TypeInv, TypeOK, Row
  <2>2. req' \in [Actor -> Request] /\ \A q \in Actor : WellFormed(req'[q])
    BY <1>1, <2>1, RequestStep DEF BeginPurge, Start
  <2>. QED
    BY <1>1, <2>2 DEF BeginPurge, TypeInv, TypeOK
<1>2. CASE PurgeKeys(p)
  <2> DEFINE r == [req[p] EXCEPT !.pc = "purge.row", !.todo = HistoryOf(req[p].file)]
  <2>1. WellFormed(r)
    <3>1. HistoryOf(req[p].file) \subseteq VersionRow
      BY DEF HistoryOf, TypeInv, TypeOK
    <3>. QED
      BY <3>1, RequestTypes DEF WellFormed, Request, Control, Saving, HasBody
  <2>2. req' = [req EXCEPT ![p] = r]
    BY <1>2 DEF PurgeKeys
  <2>3. req' \in [Actor -> Request] /\ \A q \in Actor : WellFormed(req'[q])
    BY <2>1, <2>2, RequestStep
  <2>. QED
    BY <1>2, <2>3 DEF PurgeKeys, TypeInv, TypeOK
<1>3. CASE PurgeRow(p)
  <2> DEFINE r == [req[p] EXCEPT !.pc = "purge.unlink"]
  <2>1. WellFormed(r)
    BY RequestTypes DEF WellFormed, Request, Control, Saving, HasBody
  <2>2. req' \in [Actor -> Request] /\ \A q \in Actor : WellFormed(req'[q])
    BY <1>3, <2>1, RequestStep DEF PurgeRow, Goto
  <2>. QED
    BY <1>3, <2>2, PlaceholderTypes DEF PurgeRow, TypeInv, TypeOK
<1>4. CASE PurgeUnlink(p)
  <2>1. DOMAIN store' \subseteq Key /\ store' \in [DOMAIN store' -> Blob]
    BY <1>4, UnlinkType DEF PurgeUnlink, TypeInv
  <2>. QED
    BY <1>4, <2>1, FinishType DEF PurgeUnlink, TypeInv, TypeOK
<1>. QED
  BY <1>1, <1>2, <1>3, <1>4 DEF PurgeStep

LEMMA PruneType ==
    ASSUME TypeInv, NEW p \in Actor,
           \/ \E f \in File : PruneBegin(p, f)
           \/ PruneObject(p) \/ PruneRow(p)
    PROVE  TypeInv'
<1>1. ASSUME NEW f \in File, PruneBegin(p, f)
      PROVE  TypeInv'
  <2> DEFINE r == [Idle EXCEPT !.pc = "prune.object", !.file = f, !.todo = Prunable(f)]
  <2>1. Prunable(f) \subseteq VersionRow
    BY DEF Prunable, HistoryOf, TypeInv, TypeOK
  <2>2. WellFormed(r)
    BY <2>1, PlaceholderTypes DEF WellFormed, Request, Control, Saving, HasBody
  <2>3. req' \in [Actor -> Request] /\ \A q \in Actor : WellFormed(req'[q])
    BY <1>1, <2>2, RequestStep DEF PruneBegin, Start
  <2>. QED
    BY <1>1, <2>3 DEF PruneBegin, TypeInv, TypeOK
<1>2. CASE PruneObject(p)
  <2> DEFINE r == [req[p] EXCEPT !.pc = "prune.row"]
  <2>1. DOMAIN store' \subseteq Key /\ store' \in [DOMAIN store' -> Blob]
    BY <1>2, UnlinkType DEF PruneObject, TypeInv
  <2>2. WellFormed(r)
    BY RequestTypes DEF WellFormed, Request, Control, Saving, HasBody
  <2>3. req' \in [Actor -> Request] /\ \A q \in Actor : WellFormed(req'[q])
    BY <1>2, <2>2, RequestStep DEF PruneObject, Goto
  <2>. QED
    BY <1>2, <2>1, <2>3 DEF PruneObject, TypeInv, TypeOK
<1>3. CASE PruneRow(p)
  <2>1. PICK v \in req[p].todo :
          /\ versions' = versions \ {v}
          /\ req' = [req EXCEPT ![p] =
                       IF req[p].todo = {v} THEN Idle
                       ELSE [req[p] EXCEPT !.pc = "prune.object",
                                           !.todo = req[p].todo \ {v}]]
    BY <1>3 DEF PruneRow, TypeInv, TypeOK
  <2> DEFINE r == IF req[p].todo = {v} THEN Idle
                  ELSE [req[p] EXCEPT !.pc = "prune.object",
                                      !.todo = req[p].todo \ {v}]
  <2>2. WellFormed([req[p] EXCEPT !.pc = "prune.object", !.todo = req[p].todo \ {v}])
    BY RequestTypes DEF WellFormed, Request, Control, Saving, HasBody
  <2>3. WellFormed(r)
    BY <2>2, IdleWellFormed
  <2>4. req' = [req EXCEPT ![p] = r]
    BY <2>1
  <2>5. req' \in [Actor -> Request] /\ \A q \in Actor : WellFormed(req'[q])
    BY <2>3, <2>4, RequestStep
  <2>. QED
    BY <1>3, <2>1, <2>5 DEF PruneRow, TypeInv, TypeOK
<1>. QED
  BY <1>1, <1>2, <1>3

LEMMA FileStepType ==
    ASSUME TypeInv, NEW f \in File, FileStep(f)
    PROVE  TypeInv'
<1>1. \A t \in TrashState : [row EXCEPT ![f].trash = t] \in [File -> Row]
  BY DEF TypeInv, TypeOK, Row
<1>2. row' \in [File -> Row]
  BY <1>1 DEF FileStep, Trash, Restore, WindowEnds, ArchiveOld, TrashState
<1>. QED
  BY <1>2 DEF FileStep, Trash, Restore, WindowEnds, ArchiveOld, TypeInv, TypeOK

LEMMA HttpStepType ==
    ASSUME TypeInv, NEW p \in Proc, HttpStep(p)
    PROVE  TypeInv'
<1>0. p \in Actor
  BY DEF Actor
<1>1. ASSUME NEW f \in File, VersionBegin(p, f) \/ WopiBegin(p, f)
      PROVE  TypeInv'
  BY <1>0, <1>1, BeginSaveType DEF VersionBegin, WopiBegin
<1>2. CASE VersionClaim(p) \/ WopiClaim(p)
  <2>1. /\ req[p].snap.etag \in Body
        /\ At(p, "wopi.claim") => req[p].body \in Body
    BY <1>0, RequestTypes DEF WellFormed, HasBody, At
  <2>. QED
    BY <1>0, <1>2, <2>1, ArchiveType DEF VersionClaim, WopiClaim
<1>3. ASSUME NEW n \in Name, NEW b \in Body, VersionPut(p, n, b) \/ WopiPut(p, b)
      PROVE  TypeInv'
  <2>1. req[p].snap.name \in Name /\ req[p].pc \in Saving
    BY <1>0, <1>3, RequestTypes DEF VersionPut, WopiPut, At, Saving
  <2>2. ASSUME VersionPut(p, n, b) PROVE TypeInv'
    BY <1>0, <2>1, <2>2, PutVersionType DEF VersionPut
  <2>3. ASSUME WopiPut(p, b) PROVE TypeInv'
    BY <1>0, <2>1, <2>3, PutVersionType DEF WopiPut
  <2>. QED
    BY <1>3, <2>2, <2>3
<1>4. CASE VersionPromote(p) \/ WopiPromote(p)
  <2>1. cipher \in BOOLEAN /\ req[p].snap.enc \in BOOLEAN
    BY <1>0, RequestTypes DEF TypeInv, TypeOK
  <2>. QED
    BY <1>0, <1>4, <2>1, PromoteType DEF VersionPromote, WopiPromote, At
<1>5. ASSUME NEW f \in File, HardDelete(p, f) PROVE TypeInv'
  BY <1>0, <1>5, PurgeType DEF HardDelete
<1>. QED
  BY <1>0, <1>1, <1>2, <1>3, <1>4, <1>5, UploadType, UploadInsertType, PatchType,
     ConstantsAssumption
     DEF HttpStep

LEMMA NextType == TypeInv /\ [Next]_vars => TypeInv'
<1> SUFFICES ASSUME TypeInv, [Next]_vars PROVE TypeInv'
  OBVIOUS
<1>1. ASSUME NEW w \in Worker, RotationStep(w) PROVE TypeInv'
  <2>1. w \in Actor
    BY DEF Actor
  <2>. QED
    BY <1>1, <2>1, PurgeType, PruneType DEF RotationStep, Expire
<1>2. ASSUME NEW p \in Actor, PurgeStep(p) \/ Fail(p) PROVE TypeInv'
  <2>1. CASE Fail(p)
    BY <2>1, FinishType DEF Fail, TypeInv, TypeOK
  <2>. QED
    BY <1>2, <2>1, PurgeType
<1>3. CASE EnableEncryption
  BY <1>3 DEF EnableEncryption, TypeInv, TypeOK
<1>4. CASE UNCHANGED vars
  BY <1>4 DEF vars, TypeInv, TypeOK
<1>. QED
  BY <1>1, <1>2, <1>3, <1>4, HttpStepType, FileStepType DEF Next

\* Every reachable state is well typed; in particular no save ever builds a
\* version beyond the bound from a stale snapshot.
THEOREM TypeCorrect == Spec => []TypeOK
<1>1. TypeInv => TypeOK
  BY DEF TypeInv
<1>. QED
  BY <1>1, InitType, NextType, PTL DEF Spec

-----------------------------------------------------------------------------
(* A row always has bytes.                                                 *)
(* RowHasBytes is inductive only together with what every handler still     *)
(* holds: the key it is going to write into the row names an object, the    *)
(* keys it is going to delete belong to a file that is gone or was moved,   *)
(* and a key of one file is never a key of another.                        *)

UsesSnap == Saving \cup {"upload.insert", "patch.get", "patch.put", "patch.unlink"}

UsesKey == HasBody \cup {"patch.get", "patch.put", "patch.unlink", "patch.commit",
                         "purge.keys", "purge.row", "purge.unlink"}

Holds(r) ==
    /\ r.pc \notin {"prune.object", "prune.row"}
    /\ r.pc \in UsesSnap => r.snap.key.file = r.file
    /\ r.pc \in UsesKey => r.key.file = r.file
    /\ \A v \in r.todo : v.key.file = r.file
    /\ r.pc = "upload.insert" =>
          life[r.file] = "minted" /\ r.snap.key \in DOMAIN store
    /\ r.pc \notin {"idle", "upload.insert"} => life[r.file] \in {"row", "gone"}
    /\ r.pc = "patch.unlink" => r.file \in rekeyed
    /\ r.pc = "purge.unlink" => life[r.file] = "gone"
    /\ r.pc \in HasBody /\ life[r.file] = "row" /\ r.file \notin rekeyed
          => r.key \in DOMAIN store

OwnKeys ==
    /\ \A f \in File : HasRow(f) => row[f].key.file = f
    /\ \A r \in versions : r.key.file = r.file

OneUpload ==
    \A p, q \in Actor :
        At(p, "upload.insert") /\ At(q, "upload.insert") /\ req[p].file = req[q].file
            => p = q

BytesInv ==
    /\ TypeInv
    /\ OwnKeys
    /\ RowHasBytes
    /\ \A p \in Actor : Holds(req[p])
    /\ OneUpload

\* What every step but an upload's INSERT may do to the files other requests
\* are working on: ids are minted, rows deleted, and objects removed only of
\* files that are gone or were moved.
Quiet ==
    /\ \A f \in File : \/ life'[f] = life[f]
                       \/ life[f] = "unborn"
                       \/ life[f] \in {"row", "gone"} /\ life'[f] = "gone"
    /\ rekeyed \subseteq rekeyed'
    /\ \A k \in DOMAIN store \ DOMAIN store' :
          life[k.file] = "gone" \/ (k.file \in rekeyed /\ life[k.file] = "row")

LEMMA HoldsFrame ==
    ASSUME Quiet, NEW r \in Request, Holds(r)
    PROVE  Holds(r)'
<1>1. r.file \in File /\ r.snap.key \in Key /\ r.key \in Key
  BY DEF Request, Row
<1>2. CASE life[r.file] = "unborn"
  BY <1>1, <1>2 DEF Holds, HasBody
<1>3. CASE life'[r.file] = life[r.file]
  BY <1>1, <1>3 DEF Holds, Quiet, UsesSnap, UsesKey, HasBody, Saving
<1>4. CASE life[r.file] \in {"row", "gone"} /\ life'[r.file] = "gone"
  BY <1>1, <1>4 DEF Holds, Quiet, UsesSnap, UsesKey, HasBody, Saving
<1>. QED
  BY <1>1, <1>2, <1>3, <1>4 DEF Quiet

\* A quiet step of p that leaves p holding what it must preserves what all hold.
LEMMA HoldsStep ==
    ASSUME BytesInv, Quiet, NEW p \in Actor, NEW r, Holds(r)',
           req' = [req EXCEPT ![p] = r],
           \/ r.pc # "upload.insert"
           \/ life[r.file] = "unborn"
    PROVE  (\A q \in Actor : Holds(req[q]))' /\ OneUpload'
<1>1. \A q \in Actor : req[q] \in Request /\ Holds(req[q])
  BY DEF BytesInv, TypeInv, TypeOK
<1>2. ASSUME NEW q \in Actor, q # p PROVE Holds(req[q])'
  <2>1. req'[q] = req[q]
    BY <1>2 DEF BytesInv, TypeInv, TypeOK
  <2>2. \A x \in Request : Holds(x) => Holds(x)'
    BY HoldsFrame
  <2>. QED
    BY <1>1, <2>1, <2>2 DEF Holds
<1>3. req'[p] = r
  BY DEF BytesInv, TypeInv, TypeOK
<1>4. Holds(req[p])'
  BY <1>3 DEF Holds
<1>5. OneUpload'
  BY <1>1, <1>3 DEF OneUpload, BytesInv, TypeInv, TypeOK, At, Holds
<1>. QED
  BY <1>2, <1>4, <1>5

\* Nothing is ever removed by a put.
LEMMA PutKeeps ==
    ASSUME NEW k, NEW b, Put(k, b)
    PROVE  DOMAIN store' = DOMAIN store \cup {k}
BY DEF Put

LEMMA UnlinkOnly ==
    ASSUME NEW ks, Unlink(ks)
    PROVE  DOMAIN store \ DOMAIN store' \subseteq ks
BY DEF Unlink

LEMMA IdleHolds ==
    Holds(Idle) /\ Holds(Idle)'
BY DEF Holds, Idle, UsesSnap, UsesKey, HasBody, Saving

LEMMA UploadBytes ==
    ASSUME BytesInv, NEW p \in Actor, NEW f \in File, NEW s \in Sys,
           NEW n \in Name, NEW b \in Body, Upload(p, f, s, n, b), TypeInv'
    PROVE  BytesInv'
<1> DEFINE snap == [name |-> n, sys |-> s, key |-> PlainKey(f, s, n),
                    version |-> 1, etag |-> b, enc |-> cipher, trash |-> "live"]
<1>0. PICK r : r = [Idle EXCEPT !.pc = "upload.insert", !.file = f, !.snap = snap]
  OBVIOUS
<1>1. DOMAIN store' = DOMAIN store \cup {PlainKey(f, s, n)}
  BY PutKeeps DEF Upload
<1>2. Quiet
  BY <1>1 DEF Upload, Quiet, BytesInv, TypeInv, TypeOK
<1>3. Holds(r)'
  BY <1>0, <1>1 DEF Holds, Upload, Idle, PlainKey, UsesSnap, UsesKey, HasBody, Saving,
              BytesInv, TypeInv, TypeOK
<1>4. (\A q \in Actor : Holds(req[q]))' /\ OneUpload'
  BY <1>0, <1>2, <1>3, HoldsStep DEF Upload, Start, Idle
<1>5. OwnKeys' /\ RowHasBytes'
  BY <1>1 DEF Upload, OwnKeys, RowHasBytes, HasRow, BytesInv, TypeInv, TypeOK
<1>. QED
  BY <1>4, <1>5 DEF BytesInv

LEMMA UploadInsertBytes ==
    ASSUME BytesInv, NEW p \in Actor, UploadInsert(p), TypeInv'
    PROVE  BytesInv'
<1>1. \A q \in Actor : req[q] \in Request /\ Holds(req[q])
  BY DEF BytesInv, TypeInv, TypeOK
<1>2. ASSUME NEW q \in Actor PROVE Holds(req[q])'
  <2>1. CASE q = p
    BY <2>1, IdleHolds DEF UploadInsert, Finish, Holds, BytesInv, TypeInv, TypeOK
  <2>2. CASE q # p
    <3>1. req'[q] = req[q]
      BY <2>2 DEF UploadInsert, Finish, BytesInv, TypeInv, TypeOK
    <3>2. req[q].file = req[p].file => req[q].pc = "idle"
      BY <1>1, <2>2 DEF UploadInsert, At, BytesInv, OneUpload, Holds
    <3>3. req[q].file \in File /\ req[p].file \in File
      BY <1>1 DEF Request
    <3>4. req[q].file # req[p].file => life'[req[q].file] = life[req[q].file]
      BY <3>3 DEF UploadInsert, BytesInv, TypeInv, TypeOK
    <3>5. Holds(req[q])
      BY <1>1
    <3>. QED
      BY <3>1, <3>2, <3>4, <3>5
         DEF UploadInsert, Holds, UsesSnap, UsesKey, HasBody, Saving
  <2>. QED
    BY <2>1, <2>2
<1>3. OneUpload'
  BY DEF OneUpload, UploadInsert, Finish, At, Idle, BytesInv, TypeInv, TypeOK
<1>4. OwnKeys' /\ RowHasBytes'
  <2>1. /\ req[p].snap.key.file = req[p].file
        /\ req[p].snap.key \in DOMAIN store
        /\ req[p].file \in File
    BY <1>1 DEF UploadInsert, At, Holds, UsesSnap, Request
  <2>. QED
    BY <2>1 DEF UploadInsert, OwnKeys, RowHasBytes, HasRow, BytesInv, TypeInv, TypeOK
<1>. QED
  BY <1>2, <1>3, <1>4 DEF BytesInv

LEMMA SaveBytes ==
    ASSUME BytesInv, NEW p \in Actor, TypeInv',
           \/ \E f \in File : VersionBegin(p, f) \/ WopiBegin(p, f)
           \/ VersionClaim(p) \/ WopiClaim(p)
           \/ \E n \in Name, b \in Body : VersionPut(p, n, b)
           \/ \E b \in Body : WopiPut(p, b)
           \/ VersionPromote(p) \/ WopiPromote(p)
    PROVE  BytesInv'
<1>0. req[p] \in Request /\ Holds(req[p]) /\ req[p].file \in File
  BY DEF BytesInv, TypeInv, TypeOK, Request
<1>1. ASSUME NEW f \in File, NEW pc \in {"version.claim", "wopi.put"},
             BeginSave(p, f, pc)
      PROVE  BytesInv'
  <2>0. PICK r : r = [Idle EXCEPT !.pc = pc, !.file = f, !.snap = row[f]]
    OBVIOUS
  <2>1. Quiet
    BY <1>1 DEF BeginSave, Quiet
  <2>2. Holds(r)'
    BY <1>1, <2>0 DEF BeginSave, Live, HasRow, Holds, Idle, UsesSnap, UsesKey, HasBody,
                Saving, BytesInv, OwnKeys
  <2>3. (\A q \in Actor : Holds(req[q]))' /\ OneUpload'
    BY <1>1, <2>0, <2>1, <2>2, HoldsStep DEF BeginSave, Start, Idle
  <2>. QED
    BY <1>1, <2>3 DEF BeginSave, BytesInv, OwnKeys, RowHasBytes, HasRow
<1>2. ASSUME NEW etag, NEW pc,
             \/ At(p, "version.claim") /\ pc = "version.put"
             \/ At(p, "wopi.claim") /\ pc = "wopi.promote",
             Archive(p, etag, pc)
      PROVE  BytesInv'
  <2>0. PICK r : r = [req[p] EXCEPT !.pc = pc]
    OBVIOUS
  <2>1. Quiet
    BY <1>2 DEF Archive, Quiet
  <2>2. Holds(r)'
    BY <1>0, <1>2, <2>0 DEF Archive, At, Holds, UsesSnap, UsesKey, HasBody, Saving, Request
  <2>3. r.pc # "upload.insert"
    BY <1>0, <1>2, <2>0 DEF Request
  <2>4. (\A q \in Actor : Holds(req[q]))' /\ OneUpload'
    BY <1>2, <2>0, <2>1, <2>2, <2>3, HoldsStep DEF Archive, Goto
  <2>5. req[p].snap.key.file = req[p].file
    BY <1>0, <1>2 DEF At, Holds, UsesSnap, Saving
  <2>. QED
    BY <1>2, <2>4, <2>5 DEF Archive, BytesInv, OwnKeys, RowHasBytes, HasRow
<1>3. ASSUME NEW n, NEW b, NEW pc,
             \/ At(p, "version.put") /\ pc = "version.promote"
             \/ At(p, "wopi.put") /\ pc = "wopi.claim",
             PutVersion(p, n, b, pc)
      PROVE  BytesInv'
  <2>0. PICK k, r :
          /\ k = VersionKey(req[p].file, req[p].snap.sys, req[p].snap.version + 1, n)
          /\ r = [req[p] EXCEPT !.pc = pc, !.key = k, !.body = b]
    OBVIOUS
  <2>1. DOMAIN store' = DOMAIN store \cup {k}
    BY <1>3, <2>0, PutKeeps DEF PutVersion
  <2>2. Quiet
    BY <1>3, <2>1 DEF PutVersion, Quiet
  <2>3. k.file = req[p].file
    BY <2>0 DEF VersionKey
  <2>4. Holds(r)'
    BY <1>0, <1>3, <2>0, <2>1, <2>3
       DEF PutVersion, At, Holds, UsesSnap, UsesKey, HasBody, Saving, Request
  <2>5. r.pc # "upload.insert" /\ req' = [req EXCEPT ![p] = r]
    BY <1>0, <1>3, <2>0 DEF PutVersion, Request
  <2>6. (\A q \in Actor : Holds(req[q]))' /\ OneUpload'
    BY <2>2, <2>4, <2>5, HoldsStep
  <2>. QED
    BY <1>3, <2>1, <2>6 DEF PutVersion, BytesInv, OwnKeys, RowHasBytes, HasRow
<1>4. ASSUME NEW enc, At(p, "version.promote") \/ At(p, "wopi.promote"),
             Promote(p, enc)
      PROVE  BytesInv'
  <2>1. Quiet
    BY <1>4 DEF Promote, Quiet
  <2>2. (\A q \in Actor : Holds(req[q]))' /\ OneUpload'
    BY <1>4, <2>1, IdleHolds, HoldsStep DEF Promote, Finish, Idle
  <2>3. /\ req[p].key.file = req[p].file
        /\ HasRow(req[p].file) /\ req[p].file \notin rekeyed
             => req[p].key \in DOMAIN store
    BY <1>0, <1>4 DEF At, Holds, UsesKey, HasBody, HasRow
  <2>4. \A f \in File : HasRow(f)' = HasRow(f)
    BY <1>4 DEF Promote, HasRow
  <2>5. \A f \in File \ {req[p].file} : row'[f] = row[f]
    BY <1>0, <1>4 DEF Promote, BytesInv, TypeInv, TypeOK
  <2>6. HasRow(req[p].file) => row'[req[p].file].key = req[p].key
    BY <1>0, <1>4 DEF Promote, BytesInv, TypeInv, TypeOK, Row
  <2>7. OwnKeys'
    BY <1>4, <2>3, <2>4, <2>5, <2>6 DEF Promote, OwnKeys, BytesInv
  <2>8. RowHasBytes'
    BY <1>4, <2>3, <2>4, <2>5, <2>6 DEF Promote, RowHasBytes, BytesInv
  <2>. QED
    BY <2>2, <2>7, <2>8 DEF BytesInv
<1>. QED
  BY <1>1, <1>2, <1>3, <1>4
     DEF VersionBegin, WopiBegin, VersionClaim, WopiClaim, VersionPut, WopiPut,
         VersionPromote, WopiPromote

LEMMA PatchBytes ==
    ASSUME BytesInv, NEW p \in Actor, TypeInv',
           \/ \E f \in File, s \in Sys, n \in Name : PatchBegin(p, f, s, n)
           \/ PatchGet(p) \/ PatchPut(p) \/ PatchUnlink(p) \/ PatchCommit(p)
    PROVE  BytesInv'
<1>0. req[p] \in Request /\ Holds(req[p]) /\ req[p].file \in File
  BY DEF BytesInv, TypeInv, TypeOK, Request
<1>1. ASSUME NEW f \in File, NEW s \in Sys, NEW n \in Name, PatchBegin(p, f, s, n)
      PROVE  BytesInv'
  <2> DEFINE moved == s # row[f].sys
             to == [sys |-> s, name |-> n]
             key == IF moved \/ n # row[f].name THEN PlainKey(f, s, n) ELSE row[f].key
             at == IF moved \/ key # row[f].key THEN "patch.get" ELSE "patch.commit"
  <2>0. PICK k : k = key
    OBVIOUS
  <2>a. PICK pc : pc = at
    OBVIOUS
  <2>b. PICK r : r = [Idle EXCEPT !.pc = pc, !.file = f, !.snap = row[f],
                                  !.key = k, !.to = to]
    OBVIOUS
  <2>1. /\ k = PlainKey(f, s, n) \/ k = row[f].key
        /\ pc \in {"patch.commit", "patch.get"}
        /\ req' = [req EXCEPT ![p] = r]
    <3>1. req' = [req EXCEPT ![p] =
                    [Idle EXCEPT !.pc = at, !.file = f, !.snap = row[f],
                                 !.key = key, !.to = to]]
      BY <1>1, Zenon DEF PatchBegin, Start
    <3>2. req' = [req EXCEPT ![p] = r]
      BY <2>0, <2>a, <2>b, <3>1, Zenon
    <3>. QED
      BY <2>0, <2>a, <3>2
  <2>2. Quiet
    BY <1>1 DEF PatchBegin, Quiet
  <2>3. HasRow(f) /\ row[f].key.file = f /\ k.file = f
    <3>1. Live(f)
      BY <1>1, Zenon DEF PatchBegin
    <3>2. HasRow(f) /\ row[f].key.file = f
      BY <3>1 DEF Live, BytesInv, OwnKeys
    <3>3. PlainKey(f, s, n).file = f
      BY DEF PlainKey
    <3>. QED
      BY <2>1, <3>2, <3>3, Zenon
  <2>4. Holds(r)'
    BY <1>1, <2>1, <2>b, <2>3 DEF PatchBegin, Holds, HasRow, Idle, UsesSnap, UsesKey,
                            HasBody, Saving
  <2>5. (\A q \in Actor : Holds(req[q]))' /\ OneUpload'
    BY <2>1, <2>2, <2>b, <2>4, HoldsStep DEF Idle
  <2>. QED
    BY <1>1, <2>5 DEF PatchBegin, BytesInv, OwnKeys, RowHasBytes, HasRow
<1>2. CASE PatchGet(p)
  <2>1. PICK r : /\ r \in Request
                 /\ req' = [req EXCEPT ![p] = r]
                 /\ r.pc \in {"patch.commit", "patch.put"}
                 /\ r.file = req[p].file /\ r.snap = req[p].snap
                 /\ r.key = req[p].key /\ r.todo = req[p].todo
    <3>1. req'[p] \in Request /\ req' = [req EXCEPT ![p] = req'[p]]
      BY <1>0, <1>2 DEF PatchGet, Goto, BytesInv, TypeInv, TypeOK
    <3>2. /\ req'[p].pc \in {"patch.commit", "patch.put"}
          /\ req'[p].file = req[p].file /\ req'[p].snap = req[p].snap
          /\ req'[p].key = req[p].key /\ req'[p].todo = req[p].todo
      BY <1>0, <1>2 DEF PatchGet, Goto, BytesInv, TypeInv, TypeOK, Request
    <3>. QED
      BY <3>1, <3>2
  <2>2. Quiet
    BY <1>2 DEF PatchGet, Quiet
  <2>3. Holds(r)'
    BY <1>0, <1>2, <2>1 DEF PatchGet, At, Holds, UsesSnap, UsesKey, HasBody, Saving,
                            Request
  <2>4. r.pc # "upload.insert"
    BY <1>0, <2>1 DEF Request
  <2>5. (\A q \in Actor : Holds(req[q]))' /\ OneUpload'
    BY <2>1, <2>2, <2>3, <2>4, HoldsStep
  <2>. QED
    BY <1>2, <2>5 DEF PatchGet, BytesInv, OwnKeys, RowHasBytes, HasRow
<1>3. CASE PatchPut(p)
  <2>1. PICK r : r = [req[p] EXCEPT !.pc = "patch.unlink"]
    OBVIOUS
  <2>2. DOMAIN store \subseteq DOMAIN store'
    BY <1>3, PutKeeps DEF PatchPut
  <2>3. Quiet
    BY <1>3, <2>2 DEF PatchPut, Quiet
  <2>4. Holds(r)' /\ r.pc # "upload.insert"
    BY <1>0, <1>3, <2>1 DEF PatchPut, At, Holds, UsesSnap, UsesKey, HasBody, Saving,
                            Request
  <2>5. (\A q \in Actor : Holds(req[q]))' /\ OneUpload'
    BY <1>3, <2>1, <2>3, <2>4, HoldsStep DEF PatchPut, Goto
  <2>. QED
    BY <1>3, <2>2, <2>5 DEF PatchPut, BytesInv, OwnKeys, RowHasBytes, HasRow
<1>4. CASE PatchUnlink(p)
  <2>1. PICK r : r = [req[p] EXCEPT !.pc = "patch.commit"]
    OBVIOUS
  <2>2. /\ req[p].snap.key.file = req[p].file
        /\ req[p].file \in rekeyed
        /\ life[req[p].file] \in {"row", "gone"}
    BY <1>0, <1>4 DEF PatchUnlink, At, Holds, UsesSnap
  <2>3. DOMAIN store \ DOMAIN store' \subseteq {req[p].snap.key}
    BY <1>4, UnlinkOnly DEF PatchUnlink
  <2>4. Quiet
    BY <1>4, <2>2, <2>3 DEF PatchUnlink, Quiet
  <2>5. Holds(r)' /\ r.pc # "upload.insert"
    BY <1>0, <1>4, <2>1 DEF PatchUnlink, At, Holds, UsesSnap, UsesKey, HasBody,
                            Saving, Request
  <2>6. (\A q \in Actor : Holds(req[q]))' /\ OneUpload'
    BY <1>4, <2>1, <2>4, <2>5, HoldsStep DEF PatchUnlink, Goto
  <2>7. RowHasBytes'
    BY <1>4, <2>2, <2>3 DEF PatchUnlink, RowHasBytes, HasRow, BytesInv, OwnKeys
  <2>. QED
    BY <1>4, <2>6, <2>7 DEF PatchUnlink, BytesInv, OwnKeys, HasRow
<1>5. CASE PatchCommit(p)
  <2>1. Quiet
    BY <1>5 DEF PatchCommit, Quiet
  <2>2. (\A q \in Actor : Holds(req[q]))' /\ OneUpload'
    BY <1>5, <2>1, IdleHolds, HoldsStep DEF PatchCommit, Finish, Idle
  <2>3. req[p].key.file = req[p].file
    BY <1>0, <1>5 DEF PatchCommit, At, Holds, UsesKey
  <2>4. \A f \in File : HasRow(f)' = HasRow(f)
    BY <1>5 DEF PatchCommit, HasRow
  <2>5. \A f \in File \ {req[p].file} : row'[f] = row[f]
    BY <1>0, <1>5 DEF PatchCommit, BytesInv, TypeInv, TypeOK
  <2>6. HasRow(req[p].file) => row'[req[p].file].key = req[p].key
    BY <1>0, <1>5 DEF PatchCommit, BytesInv, TypeInv, TypeOK, Row
  <2>7. OwnKeys'
    <3>1. versions' = versions
      BY <1>5 DEF PatchCommit
    <3>2. ASSUME NEW f \in File, HasRow(f)'
          PROVE  row'[f].key.file = f
      <4>0. HasRow(f)
        BY <2>4, <3>2
      <4>1. CASE f = req[p].file
        BY <2>3, <2>6, <4>0, <4>1
      <4>2. CASE f # req[p].file
        BY <2>5, <4>0, <4>2 DEF BytesInv, OwnKeys
      <4>. QED
        BY <4>1, <4>2
    <3>3. \A r \in versions' : r.key.file = r.file
      BY <3>1 DEF BytesInv, OwnKeys
    <3>. QED
      BY <3>2, <3>3 DEF OwnKeys
  <2>8. /\ rekeyed \subseteq rekeyed'
        /\ row'[req[p].file].key # row[req[p].file].key => req[p].file \in rekeyed'
        /\ store' = store
    BY <1>5 DEF PatchCommit
  <2>9. RowHasBytes'
    BY <2>4, <2>5, <2>8 DEF RowHasBytes, BytesInv
  <2>. QED
    BY <2>2, <2>7, <2>9 DEF BytesInv
<1>. QED
  BY <1>1, <1>2, <1>3, <1>4, <1>5

LEMMA PurgeBytes ==
    ASSUME BytesInv, NEW p \in Actor, TypeInv',
           \/ \E f \in File : HasRow(f) /\ BeginPurge(p, f)
           \/ PurgeStep(p)
    PROVE  BytesInv'
<1>0. req[p] \in Request /\ Holds(req[p]) /\ req[p].file \in File
  BY DEF BytesInv, TypeInv, TypeOK, Request
<1>1. ASSUME NEW f \in File, HasRow(f), BeginPurge(p, f)
      PROVE  BytesInv'
  <2>1. PICK r : r = [Idle EXCEPT !.pc = "purge.keys", !.file = f, !.key = row[f].key]
    OBVIOUS
  <2>2. Quiet
    BY <1>1 DEF BeginPurge, Quiet
  <2>3. Holds(r)'
    BY <1>1, <2>1 DEF BeginPurge, HasRow, Holds, Idle, UsesSnap, UsesKey, HasBody,
                      Saving, BytesInv, OwnKeys
  <2>4. (\A q \in Actor : Holds(req[q]))' /\ OneUpload'
    BY <1>1, <2>1, <2>2, <2>3, HoldsStep DEF BeginPurge, Start, Idle
  <2>. QED
    BY <1>1, <2>4 DEF BeginPurge, BytesInv, OwnKeys, RowHasBytes, HasRow
<1>2. CASE PurgeKeys(p)
  <2>1. PICK r : r = [req[p] EXCEPT !.pc = "purge.row",
                                    !.todo = HistoryOf(req[p].file)]
    OBVIOUS
  <2>2. Quiet
    BY <1>2 DEF PurgeKeys, Quiet
  <2>3. Holds(r)' /\ r.pc # "upload.insert"
    BY <1>0, <1>2, <2>1 DEF PurgeKeys, At, HistoryOf, Holds, UsesSnap, UsesKey,
                            HasBody, Saving, Request, BytesInv, OwnKeys
  <2>4. (\A q \in Actor : Holds(req[q]))' /\ OneUpload'
    BY <1>2, <2>1, <2>2, <2>3, HoldsStep DEF PurgeKeys
  <2>. QED
    BY <1>2, <2>4 DEF PurgeKeys, BytesInv, OwnKeys, RowHasBytes, HasRow
<1>3. CASE PurgeRow(p)
  <2>1. PICK r : r = [req[p] EXCEPT !.pc = "purge.unlink"]
    OBVIOUS
  <2>2. life[req[p].file] \in {"row", "gone"}
    BY <1>0, <1>3 DEF PurgeRow, At, Holds
  <2>3. Quiet
    BY <1>0, <1>3, <2>2 DEF PurgeRow, Quiet, BytesInv, TypeInv, TypeOK
  <2>4. Holds(r)' /\ r.pc # "upload.insert"
    BY <1>0, <1>3, <2>1 DEF PurgeRow, At, Holds, UsesSnap, UsesKey, HasBody, Saving,
                            Request, BytesInv, TypeInv, TypeOK
  <2>5. (\A q \in Actor : Holds(req[q]))' /\ OneUpload'
    BY <1>3, <2>1, <2>3, <2>4, HoldsStep DEF PurgeRow, Goto
  <2>6. /\ \A f \in File : HasRow(f)' => HasRow(f) /\ row'[f] = row[f]
        /\ versions' \subseteq versions
    BY <1>0, <1>3 DEF PurgeRow, HasRow, HistoryOf, BytesInv, TypeInv, TypeOK
  <2>. QED
    BY <1>3, <2>5, <2>6 DEF PurgeRow, BytesInv, OwnKeys, RowHasBytes
<1>4. CASE PurgeUnlink(p)
  <2>1. DOMAIN store \ DOMAIN store' \subseteq
          {req[p].key} \cup {r.key : r \in req[p].todo}
    BY <1>4, UnlinkOnly DEF PurgeUnlink
  <2>2. \A k \in DOMAIN store \ DOMAIN store' : k.file = req[p].file
    BY <1>0, <1>4, <2>1 DEF PurgeUnlink, At, Holds, UsesKey
  <2>3. life[req[p].file] = "gone"
    BY <1>0, <1>4 DEF PurgeUnlink, At, Holds
  <2>4. Quiet
    BY <1>4, <2>2, <2>3 DEF PurgeUnlink, Quiet
  <2>5. (\A q \in Actor : Holds(req[q]))' /\ OneUpload'
    BY <1>4, <2>4, IdleHolds, HoldsStep DEF PurgeUnlink, Finish, Idle
  <2>6. RowHasBytes'
    BY <1>4, <2>2, <2>3 DEF PurgeUnlink, RowHasBytes, HasRow, BytesInv, OwnKeys
  <2>. QED
    BY <1>4, <2>5, <2>6 DEF PurgeUnlink, BytesInv, OwnKeys, HasRow
<1>. QED
  BY <1>1, <1>2, <1>3, <1>4 DEF PurgeStep

LEMMA FileStepBytes ==
    ASSUME BytesInv, NEW f \in File, FileStep(f), TypeInv'
    PROVE  BytesInv'
<1>1. /\ life' = life /\ versions' = versions /\ store' = store /\ req' = req
      /\ rekeyed' = rekeyed
  BY DEF FileStep, Trash, Restore, WindowEnds, ArchiveOld
<1>2. \A g \in File : row'[g].key = row[g].key
  <2>1. row \in [File -> Row]
    BY DEF BytesInv, TypeInv, TypeOK
  <2>. QED
    BY <2>1 DEF FileStep, Trash, Restore, WindowEnds, ArchiveOld, Row
<1>. QED
  BY <1>1, <1>2 DEF BytesInv, OwnKeys, RowHasBytes, HasRow, OneUpload, At, Holds

LEMMA InitBytes == Init => BytesInv
<1> SUFFICES ASSUME Init PROVE BytesInv
  OBVIOUS
<1>1. \A p \in Actor : Holds(req[p])
  BY IdleHolds DEF Init
<1>2. OneUpload
  BY DEF OneUpload, Init, At, Idle
<1>. QED
  BY <1>1, <1>2, InitType DEF Init, BytesInv, OwnKeys, RowHasBytes, HasRow

LEMMA NextBytes ==
    ASSUME KeepLastN = 0, BytesInv, [Next]_vars
    PROVE  BytesInv'
<1>0. TypeInv'
  BY NextType DEF BytesInv
<1>1. ASSUME NEW p \in Proc, HttpStep(p) PROVE BytesInv'
  <2>1. p \in Actor
    BY DEF Actor
  <2>2. ASSUME NEW f \in File, HardDelete(p, f) PROVE BytesInv'
    BY <1>0, <2>1, <2>2, PurgeBytes DEF HardDelete
  <2>. QED
    BY <1>0, <1>1, <2>1, <2>2, UploadBytes, UploadInsertBytes, SaveBytes, PatchBytes
       DEF HttpStep
<1>2. ASSUME NEW w \in Worker, RotationStep(w) PROVE BytesInv'
  <2>1. w \in Actor
    BY DEF Actor
  <2>2. ~PruneObject(w) /\ ~PruneRow(w)
    BY <2>1 DEF PruneObject, PruneRow, At, BytesInv, Holds
  <2>3. \A f \in File : ~PruneBegin(w, f)
    BY ONLY KeepLastN = 0, SMT DEF PruneBegin
  <2>4. PICK f \in File : Expire(w, f)
    BY <1>2, <2>2, <2>3 DEF RotationStep
  <2>. QED
    BY <1>0, <2>1, <2>4, PurgeBytes DEF Expire
<1>3. ASSUME NEW p \in Actor, PurgeStep(p) PROVE BytesInv'
  BY <1>0, <1>3, PurgeBytes
<1>4. ASSUME NEW p \in Actor, Fail(p) PROVE BytesInv'
  <2>1. Quiet
    BY <1>4 DEF Fail, Quiet
  <2>2. (\A q \in Actor : Holds(req[q]))' /\ OneUpload'
    BY <1>4, <2>1, IdleHolds, HoldsStep DEF Fail, Finish, Idle
  <2>. QED
    BY <1>0, <1>4, <2>2 DEF Fail, BytesInv, OwnKeys, RowHasBytes, HasRow
<1>5. CASE EnableEncryption \/ UNCHANGED vars
  BY <1>0, <1>5 DEF EnableEncryption, vars, BytesInv, OwnKeys, RowHasBytes, HasRow,
                    OneUpload, At, Holds
<1>. QED
  BY <1>0, <1>1, <1>2, <1>3, <1>4, <1>5, FileStepBytes DEF Next

\* Where no rotation policy prunes versions, a file's row never points at an
\* object that is missing, however many requests and rotation runs interleave
\* and wherever each of them stops, unless a PATCH moved the file's bytes.
THEOREM RowsHaveBytes == ASSUME KeepLastN = 0 PROVE Spec => []RowHasBytes
<1>1. BytesInv /\ [Next]_vars => BytesInv'
  BY NextBytes
<1>2. BytesInv => RowHasBytes
  BY DEF BytesInv
<1>. QED
  BY <1>1, <1>2, InitBytes, PTL DEF Spec
-----------------------------------------------------------------------------
(* A save archives the version its SELECT returned and only then advances   *)
(* the row to the next one.  The unique index on (file_id, version) lets    *)
(* one save at most hold the current version; every other that read it will *)
(* fail to archive it, and none that read an older one can.                 *)

\* Saves whose version row is in the table and whose UPDATE is still to come.
Claimed == {"version.put", "version.promote", "wopi.promote"}

Numbers(f) == {r.version : r \in HistoryOf(f)}

\* What the request r knows of the row it works on.
Paces(r) ==
    /\ r.pc = "upload.insert" => r.snap.version = 1 /\ r.snap.trash = "live"
    /\ r.pc \in Saving /\ HasRow(r.file) => r.snap.version <= row[r.file].version
    /\ r.pc \in Claimed /\ HasRow(r.file) =>
          /\ r.snap.version = row[r.file].version
          /\ Numbers(r.file) = 1..row[r.file].version

OneClaim ==
    \A p, q \in Actor :
        /\ req[p].pc \in Claimed /\ req[q].pc \in Claimed
        /\ req[p].file = req[q].file /\ HasRow(req[p].file)
        => p = q

NoOrphans == \A r \in versions : HasRow(r.file)

HistInv ==
    /\ BytesInv
    /\ HistoryContiguous
    /\ NoOrphans
    /\ \A p \in Actor : Paces(req[p])
    /\ OneClaim

\* A step that changes no row's version and no row's history.
Still ==
    /\ \A f \in File : HasRow(f)' =>
          /\ HasRow(f) /\ row'[f].version = row[f].version
          /\ HistoryOf(f)' = HistoryOf(f)
    /\ \A r \in versions' : HasRow(r.file)'

LEMMA VersionTypes ==
    ASSUME TypeInv
    PROVE  /\ \A f \in File : row[f].version \in Nat \ {0}
           /\ \A p \in Actor : /\ req[p].file \in File
                               /\ req[p].snap.version \in Nat \ {0}
           /\ \A r \in versions : r.file \in File
<1>1. \A f \in File : row[f].version \in 1..MaxVersion
  BY DEF TypeInv, TypeOK, Row
<1>2. \A p \in Actor : req[p].file \in File /\ req[p].snap.version \in 1..MaxVersion
  BY RequestTypes
<1>. QED
  BY <1>1, <1>2 DEF TypeInv, TypeOK, VersionRow

LEMMA PacesFrame ==
    ASSUME Still, NEW r, r.file \in File, Paces(r)
    PROVE  Paces(r)'
BY DEF Still, Paces, Numbers

\* A still step of p, whose new request paces the row, preserves HistInv.
LEMMA StillStep ==
    ASSUME HistInv, BytesInv', Still, NEW p \in Actor, NEW r, Paces(r)',
           req' = [req EXCEPT ![p] = r],
           r.pc \in Claimed => req[p].pc \in Claimed /\ req[p].file = r.file
    PROVE  HistInv'
<1>1. req'[p] = r /\ \A q \in Actor \ {p} : req'[q] = req[q]
  BY DEF HistInv, BytesInv, TypeInv, TypeOK
<1>2. ASSUME NEW q \in Actor
      PROVE  Paces(req[q])'
  <2>1. CASE q = p
    BY <1>1, <2>1 DEF Paces
  <2>2. CASE q # p
    <3>1. req[q].file \in File /\ Paces(req[q])
      BY VersionTypes DEF HistInv, BytesInv
    <3>2. \A x : x.file \in File /\ Paces(x) => Paces(x)'
      BY PacesFrame
    <3>. QED
      BY <1>1, <2>2, <3>1, <3>2 DEF Paces
  <2>. QED
    BY <2>1, <2>2
<1>3. \A q \in Actor : /\ req'[q].file \in File
                       /\ req'[q].pc \in Claimed =>
                            req[q].pc \in Claimed /\ req[q].file = req'[q].file
  <2>1. \A q \in Actor : req'[q].file \in File
    BY VersionTypes DEF BytesInv, TypeInv, TypeOK, Request
  <2>. QED
    BY <1>1, <2>1
<1>4. OneClaim'
  BY <1>3 DEF OneClaim, HistInv, Still
<1>5. HistoryContiguous'
  BY DEF HistoryContiguous, HistInv, Still
<1>6. NoOrphans'
  BY DEF NoOrphans, Still
<1>. QED
  BY <1>2, <1>4, <1>5, <1>6 DEF HistInv

\* Requests that neither upload nor save say nothing of the row.
LEMMA PacesOther ==
    ASSUME NEW r, r.pc \notin Saving \cup {"upload.insert"}
    PROVE  Paces(r)' /\ r.pc \notin Claimed
BY DEF Paces, Saving, Claimed

LEMMA IdlePaces == Idle.pc \notin Saving \cup {"upload.insert"}
BY DEF Idle, Saving

\* The common case: after its step p neither uploads nor saves.
LEMMA OtherStep ==
    ASSUME HistInv, BytesInv', Still, NEW p \in Actor,
           \A q \in Actor \ {p} : req'[q] = req[q],
           req'[p].pc \notin Saving \cup {"upload.insert"}
    PROVE  HistInv'
<1>1. PICK r : r = req'[p]
  OBVIOUS
<1>2. req' = [req EXCEPT ![p] = r]
  BY <1>1 DEF HistInv, BytesInv, TypeInv, TypeOK
<1>3. Paces(r)' /\ r.pc \notin Claimed
  BY <1>1, PacesOther
<1>. QED
  BY <1>2, <1>3, StillStep

LEMMA UploadHistory ==
    ASSUME HistInv, BytesInv', NEW p \in Actor, NEW f \in File, NEW s \in Sys,
           NEW n \in Name, NEW b \in Body, Upload(p, f, s, n, b)
    PROVE  HistInv'
<1> DEFINE snap == [name |-> n, sys |-> s, key |-> PlainKey(f, s, n),
                    version |-> 1, etag |-> b, enc |-> cipher, trash |-> "live"]
<1>1. PICK r : r = [Idle EXCEPT !.pc = "upload.insert", !.file = f, !.snap = snap]
  OBVIOUS
<1>2. Still
  BY DEF Upload, Still, HasRow, HistoryOf, HistInv, NoOrphans, BytesInv, TypeInv,
         TypeOK, VersionRow
<1>3. Paces(r)' /\ r.pc \notin Claimed
  BY <1>1 DEF Paces, Idle, Saving, Claimed
<1>. QED
  BY <1>1, <1>2, <1>3, StillStep DEF Upload, Start

\* The new row's id was only just minted: nobody works on it, and it has no
\* history.
LEMMA UploadInsertHistory ==
    ASSUME HistInv, BytesInv', NEW p \in Actor, UploadInsert(p)
    PROVE  HistInv'
<1>0. PICK f \in File : f = req[p].file
  BY VersionTypes DEF HistInv, BytesInv
<1>1. /\ life[f] = "minted"
      /\ req[p].snap.version = 1
      /\ life' = [life EXCEPT ![f] = "row"] /\ versions' = versions
      /\ row' = [row EXCEPT ![f] = req[p].snap]
      /\ req' = [req EXCEPT ![p] = Idle]
  BY <1>0 DEF UploadInsert, Finish, At, HistInv, Paces, BytesInv, Holds
<1>2. HistoryOf(f) = {}
  BY <1>1 DEF HistInv, NoOrphans, HasRow, HistoryOf
<1>3. /\ \A g \in File : HistoryOf(g)' = HistoryOf(g)
      /\ \A g \in File \ {f} : (HasRow(g)' <=> HasRow(g)) /\ row'[g] = row[g]
      /\ HasRow(f)' /\ row'[f].version = 1
  BY <1>1 DEF HistoryOf, HasRow, HistInv, BytesInv, TypeInv, TypeOK
<1>4. HistoryContiguous'
  <2>1. {r.version : r \in HistoryOf(f)}' = 1..(row'[f].version - 1)
    BY <1>1, <1>2, <1>3
  <2>. QED
    BY <1>3, <2>1 DEF HistoryContiguous, HistInv
<1>5. NoOrphans'
  BY <1>1, <1>3 DEF NoOrphans, HistInv, HasRow, BytesInv, TypeInv, TypeOK, VersionRow
<1>6. ASSUME NEW q \in Actor
      PROVE  /\ Paces(req[q])'
             /\ req'[q].pc \in Claimed => req'[q] = req[q] /\ req[q].file # f
  <2>1. CASE q = p
    BY <1>1, <2>1, IdlePaces DEF Paces, HistInv, BytesInv, TypeInv, TypeOK, Saving, Claimed
  <2>2. CASE q # p
    <3>1. req'[q] = req[q] /\ req[q].file \in File /\ Paces(req[q])
      BY <1>1, <2>2, VersionTypes DEF HistInv, BytesInv, TypeInv, TypeOK
    <3>2. CASE req[q].file = f
      <4>1. req[q].pc \notin Saving \cup {"upload.insert"}
        BY <1>0, <1>1, <2>2, <3>2
           DEF HistInv, BytesInv, Holds, OneUpload, UploadInsert, At, Saving
      <4>. QED
        BY <3>1, <4>1 DEF Paces, Saving, Claimed
    <3>3. CASE req[q].file # f
      BY <1>3, <3>1, <3>3 DEF Paces, Numbers
    <3>. QED
      BY <3>2, <3>3
  <2>. QED
    BY <2>1, <2>2
<1>7. OneClaim'
  <2>1. \A q \in Actor : req[q].file \in File
    BY VersionTypes DEF HistInv, BytesInv
  <2>. QED
    BY <1>3, <1>6, <2>1 DEF OneClaim, HistInv
<1>. QED
  BY <1>4, <1>5, <1>6, <1>7 DEF HistInv

LEMMA BeginSaveHistory ==
    ASSUME HistInv, BytesInv', NEW p \in Actor, NEW f \in File,
           NEW pc \in {"version.claim", "wopi.put"}, BeginSave(p, f, pc)
    PROVE  HistInv'
<1>1. PICK r : r = [Idle EXCEPT !.pc = pc, !.file = f, !.snap = row[f]]
  OBVIOUS
<1>2. Still
  BY DEF BeginSave, Still, HasRow, HistoryOf, HistInv, NoOrphans
<1>3. r.pc = pc /\ r.file = f /\ r.snap = row[f]
  BY <1>1 DEF Idle
<1>4. Paces(r)' /\ r.pc \notin Claimed
  BY <1>3, VersionTypes
     DEF BeginSave, Paces, Saving, Claimed, HistInv, BytesInv, TypeInv, TypeOK
<1>. QED
  BY <1>1, <1>2, <1>4, StillStep DEF BeginSave, Start

\* A number below a bound that 1..v - 1 does not hold is v itself.
LEMMA NextNumber ==
    ASSUME NEW v \in Nat \ {0}, NEW n \in Nat \ {0}, n <= v,
           NEW S \in {1..(v - 1), 1..v}, n \notin S
    PROVE  n = v /\ S = 1..(v - 1) /\ S \cup {n} = 1..v
<1>1. n \notin 1..(v - 1)
  OBVIOUS
<1>2. n = v
  BY <1>1
<1>3. S = 1..(v - 1)
  BY <1>2
<1>. QED
  BY <1>2, <1>3

\* The save that archives the current version is the only one to hold it.
LEMMA ArchiveHistory ==
    ASSUME HistInv, BytesInv', NEW p \in Actor, NEW etag, NEW pc,
           \/ At(p, "version.claim") /\ pc = "version.put"
           \/ At(p, "wopi.claim") /\ pc = "wopi.promote",
           Archive(p, etag, pc)
    PROVE  HistInv'
<1>0. PICK f \in File, v \in Nat \ {0} : f = req[p].file /\ v = req[p].snap.version
  BY VersionTypes DEF HistInv, BytesInv
<1> DEFINE new == [file |-> f, version |-> v, key |-> req[p].snap.key, etag |-> etag]
<1>1. /\ UNCHANGED <<life, row>> /\ HasRow(f) /\ v \notin Numbers(f)
      /\ versions' = versions \cup {new}
      /\ req'[p].pc = pc /\ req'[p].file = f /\ req'[p].snap.version = v
      /\ \A q \in Actor \ {p} : req'[q] = req[q]
  BY <1>0
     DEF Archive, CanArchive, Goto, Numbers, HistInv, BytesInv, TypeInv, TypeOK, Request
<1>2. /\ \A g \in File : HasRow(g)' <=> HasRow(g)
      /\ \A g \in File \ {f} : HistoryOf(g)' = HistoryOf(g)
      /\ HistoryOf(f)' = HistoryOf(f) \cup {new}
  BY <1>1 DEF HasRow, HistoryOf
<1>3. v = row[f].version /\ Numbers(f) = 1..(row[f].version - 1)
      /\ Numbers(f) \cup {v} = 1..row[f].version
  <2>1. v <= row[f].version
    BY <1>0, <1>1 DEF HistInv, Paces, At, Saving
  <2>2. Numbers(f) \in {1..(row[f].version - 1), 1..row[f].version}
    BY <1>1 DEF HistInv, HistoryContiguous, Numbers
  <2>3. row[f].version \in Nat \ {0}
    BY VersionTypes DEF HistInv, BytesInv
  <2>. QED
    BY <1>1, <2>1, <2>2, <2>3, NextNumber
<1>4. Numbers(f)' = 1..row[f].version
  <2>1. new.version = v
    OBVIOUS
  <2> HIDE DEF new
  <2>2. Numbers(f)' = Numbers(f) \cup {v}
    BY <1>2, <2>1 DEF Numbers
  <2>. QED
    BY <1>3, <2>2
<1>5. \A g \in File \ {f} : Numbers(g)' = Numbers(g)
  BY <1>2 DEF Numbers
<1>6. HistoryContiguous'
  BY <1>1, <1>2, <1>4, <1>5 DEF HistoryContiguous, HistInv, Numbers
<1>7. NoOrphans'
  <2>1. \A r \in versions : r.file \in File
    BY VersionTypes DEF HistInv, BytesInv
  <2>. QED
    BY <1>1, <1>2, <2>1 DEF NoOrphans, HistInv
<1>8. \A q \in Actor : req[q].pc \in Claimed => req[q].file # f
  <2>1. row[f].version \in Nat \ {0}
    BY VersionTypes DEF HistInv, BytesInv
  <2>2. Numbers(f) # 1..row[f].version
    BY <1>1, <1>3, <2>1
  <2>. QED
    BY <1>1, <2>2 DEF HistInv, Paces
<1>9. ASSUME NEW q \in Actor
      PROVE  /\ Paces(req[q])'
             /\ req'[q].pc \in Claimed => req'[q].file # f \/ q = p
  <2>1. CASE q = p
    <3>1. row[f].version \in Nat
      BY VersionTypes DEF HistInv, BytesInv
    <3>. QED
      BY <1>1, <1>3, <1>4, <2>1, <3>1 DEF Paces
  <2>2. CASE q # p
    <3>1. req'[q] = req[q] /\ req[q].file \in File /\ Paces(req[q])
      BY <1>1, <2>2, VersionTypes DEF HistInv, BytesInv
    <3>. QED
      BY <1>1, <1>2, <1>5, <1>8, <3>1 DEF Paces
  <2>. QED
    BY <2>1, <2>2
<1>10. OneClaim'
  <2>1. \A q \in Actor : req[q].file \in File
    BY VersionTypes DEF HistInv, BytesInv
  <2>. QED
    BY <1>1, <1>2, <1>9, <2>1 DEF OneClaim, HistInv
<1>. QED
  BY <1>6, <1>7, <1>9, <1>10 DEF HistInv

LEMMA PutVersionHistory ==
    ASSUME HistInv, BytesInv', NEW p \in Actor, NEW n, NEW b, NEW pc,
           \/ At(p, "version.put") /\ pc = "version.promote"
           \/ At(p, "wopi.put") /\ pc = "wopi.claim",
           PutVersion(p, n, b, pc)
    PROVE  HistInv'
<1>1. PICK k, r :
        /\ k = VersionKey(req[p].file, req[p].snap.sys, req[p].snap.version + 1, n)
        /\ r = [req[p] EXCEPT !.pc = pc, !.key = k, !.body = b]
  OBVIOUS
<1>2. /\ r.pc = pc /\ r.file = req[p].file /\ r.snap = req[p].snap
      /\ req' = [req EXCEPT ![p] = r]
  BY <1>1 DEF PutVersion, HistInv, BytesInv, TypeInv, TypeOK, Request
<1>3. Still
  BY DEF PutVersion, Still, HasRow, HistoryOf, HistInv, NoOrphans
<1>4. Paces(r)
  BY <1>2 DEF HistInv, Paces, At, Saving, Claimed
<1>5. Paces(r)'
  BY <1>2, <1>3, <1>4, PacesFrame, VersionTypes DEF HistInv, BytesInv
<1>. QED
  BY <1>2, <1>3, <1>5, StillStep DEF At, Claimed

\* The UPDATE advances the row by one: the save that holds the current version
\* is the only one that gets this far.
LEMMA PromoteHistory ==
    ASSUME HistInv, BytesInv', NEW p \in Actor, NEW enc,
           At(p, "version.promote") \/ At(p, "wopi.promote"), Promote(p, enc)
    PROVE  /\ HistInv'
           /\ HasRow(req[p].file) =>
                /\ row'[req[p].file].version = row[req[p].file].version + 1
                /\ row'[req[p].file].trash = row[req[p].file].trash
           /\ \A g \in File \ {req[p].file} : row'[g] = row[g]
<1>0. PICK f \in File : f = req[p].file
  BY VersionTypes DEF HistInv, BytesInv
<1>1. /\ UNCHANGED <<life, versions>> /\ req' = [req EXCEPT ![p] = Idle]
      /\ \A g \in File \ {f} : row'[g] = row[g]
      /\ ~HasRow(f) => row' = row
      /\ HasRow(f) => /\ row'[f].version = req[p].snap.version + 1
                      /\ row'[f].trash = row[f].trash
  BY <1>0 DEF Promote, Finish, HistInv, BytesInv, TypeInv, TypeOK, Row
<1>2. CASE ~HasRow(f)
  <2>1. Still
    BY <1>1, <1>2 DEF Still, HasRow, HistoryOf, HistInv, NoOrphans
  <2>. QED
    BY <1>0, <1>1, <1>2, <2>1, IdlePaces, PacesOther, StillStep
<1>3. CASE HasRow(f)
  <2>1. PICK v \in Nat \ {0} : v = row[f].version
    BY VersionTypes DEF HistInv, BytesInv
  <2>2. row'[f].version = v + 1 /\ Numbers(f) = 1..v
    BY <1>0, <1>1, <1>3, <2>1 DEF HistInv, Paces, At, Saving, Claimed
  <2>3. /\ \A g \in File : (HasRow(g)' <=> HasRow(g)) /\ Numbers(g)' = Numbers(g)
        /\ \A g \in File : HistoryOf(g)' = HistoryOf(g)
    BY <1>1 DEF HasRow, Numbers, HistoryOf
  <2>4. HistoryContiguous'
    <3>1. Numbers(f) = 1..((v + 1) - 1)
      BY <2>1, <2>2
    <3>. QED
      BY <1>1, <2>2, <2>3, <3>1 DEF HistoryContiguous, HistInv, Numbers
  <2>5. NoOrphans'
    BY <1>1 DEF NoOrphans, HistInv, HasRow
  <2>6. \A q \in Actor \ {p} : req[q].pc \in Claimed => req[q].file # f
    BY <1>0, <1>3 DEF HistInv, OneClaim, At, Claimed
  <2>7. ASSUME NEW q \in Actor PROVE Paces(req[q])'
    <3>1. CASE q = p
      BY <1>1, <3>1, IdlePaces
         DEF Paces, HistInv, BytesInv, TypeInv, TypeOK, Saving, Claimed
    <3>2. CASE q # p
      <4>1. /\ req'[q] = req[q] /\ req[q].file \in File /\ Paces(req[q])
            /\ req[q].snap.version \in Nat
        BY <1>1, <3>2, VersionTypes DEF HistInv, BytesInv, TypeInv, TypeOK
      <4>2. CASE req[q].file = f
        <5>1. req[q].pc \notin Claimed
          BY <2>6, <3>2, <4>2
        <5>2. req[q].pc \in Saving => req[q].snap.version <= v + 1
          BY <1>3, <2>1, <4>1, <4>2 DEF Paces
        <5>. QED
          BY <2>2, <4>1, <4>2, <5>1, <5>2 DEF Paces
      <4>3. CASE req[q].file # f
        BY <1>1, <2>3, <4>1, <4>3 DEF Paces
      <4>. QED
        BY <4>2, <4>3
    <3>. QED
      BY <3>1, <3>2
  <2>8. OneClaim'
    <3>1. \A q \in Actor : req[q].file \in File
      BY VersionTypes DEF HistInv, BytesInv
    <3>2. \A q \in Actor : req'[q].pc \in Claimed => req'[q] = req[q]
      BY <1>1, IdlePaces DEF Claimed, Saving, HistInv, BytesInv, TypeInv, TypeOK
    <3>. QED
      BY <2>3, <3>1, <3>2 DEF OneClaim, HistInv
  <2>9. row'[f].version = row[f].version + 1
    BY <2>1, <2>2
  <2>. QED
    BY <1>0, <1>1, <2>4, <2>5, <2>7, <2>8, <2>9 DEF HistInv
<1>. QED
  BY <1>2, <1>3

\* A step that leaves lives, versions and their numbers alone.
LEMMA SameHistory ==
    ASSUME HistInv, UNCHANGED <<life, versions>>,
           \A f \in File : row'[f].version = row[f].version
    PROVE  Still
BY DEF Still, HasRow, HistoryOf, HistInv, NoOrphans

LEMMA PatchHistory ==
    ASSUME HistInv, BytesInv', NEW p \in Actor,
           \/ \E f \in File, s \in Sys, n \in Name : PatchBegin(p, f, s, n)
           \/ PatchGet(p) \/ PatchPut(p) \/ PatchUnlink(p) \/ PatchCommit(p)
    PROVE  HistInv' /\ \A f \in File : /\ row'[f].version = row[f].version
                                       /\ row'[f].trash = row[f].trash
<1>1. /\ UNCHANGED <<life, versions>>
      /\ \A f \in File : /\ row'[f].version = row[f].version
                         /\ row'[f].trash = row[f].trash
  <2>1. CASE PatchCommit(p)
    BY <2>1, VersionTypes DEF PatchCommit, HistInv, BytesInv, TypeInv, TypeOK, Row
  <2>. QED
    BY <2>1 DEF PatchBegin, PatchGet, PatchPut, PatchUnlink, PatchCommit
<1>2. /\ req'[p].pc \in {"patch.get", "patch.put", "patch.unlink", "patch.commit",
                         "idle"}
      /\ \A q \in Actor \ {p} : req'[q] = req[q]
  <2>0. req \in [Actor -> Request]
    BY DEF HistInv, BytesInv, TypeInv, TypeOK
  <2>1. ASSUME NEW f \in File, NEW s \in Sys, NEW n \in Name, PatchBegin(p, f, s, n)
        PROVE  /\ req'[p].pc \in {"patch.get", "patch.commit"}
               /\ \A q \in Actor \ {p} : req'[q] = req[q]
    BY <2>0, <2>1 DEF PatchBegin, Start, Idle, Request
  <2>2. CASE PatchGet(p)
    BY <2>0, <2>2 DEF PatchGet, Goto, Request
  <2>3. CASE PatchPut(p) \/ PatchUnlink(p)
    BY <2>0, <2>3 DEF PatchPut, PatchUnlink, Goto, Request
  <2>4. CASE PatchCommit(p)
    BY <2>0, <2>4 DEF PatchCommit, Finish, Idle
  <2>. QED
    BY <2>1, <2>2, <2>3, <2>4
<1>. QED
  BY <1>1, <1>2, SameHistory, OtherStep DEF Saving

LEMMA PurgeHistory ==
    ASSUME HistInv, BytesInv', NEW p \in Actor,
           \/ \E f \in File : HasRow(f) /\ BeginPurge(p, f)
           \/ PurgeStep(p)
    PROVE  HistInv'
<1>1. Still
  <2>1. CASE PurgeRow(p)
    <3>1. PICK f \in File : f = req[p].file
      BY VersionTypes DEF HistInv, BytesInv
    <3>2. /\ versions' = {r \in versions : r.file # f}
          /\ \A g \in File : HasRow(g)' <=> HasRow(g) /\ g # f
          /\ \A g \in File \ {f} : row'[g] = row[g]
      BY <2>1, <3>1 DEF PurgeRow, HasRow, HistoryOf, HistInv, BytesInv, TypeInv, TypeOK
    <3>3. \A r \in versions : r.file \in File
      BY VersionTypes DEF HistInv, BytesInv
    <3>4. \A g \in File \ {f} : HistoryOf(g)' = HistoryOf(g)
      BY <3>2 DEF HistoryOf
    <3>. QED
      BY <3>2, <3>3, <3>4 DEF Still, HistInv, NoOrphans
  <2>2. CASE ~PurgeRow(p)
    <3>1. UNCHANGED <<life, row, versions>>
      BY <2>2 DEF BeginPurge, PurgeStep, PurgeKeys, PurgeUnlink
    <3>. QED
      BY <3>1, SameHistory
  <2>. QED
    BY <2>1, <2>2
<1>2. /\ req'[p].pc \in {"purge.keys", "purge.row", "purge.unlink", "idle"}
      /\ \A q \in Actor \ {p} : req'[q] = req[q]
  <2>0. req \in [Actor -> Request]
    BY DEF HistInv, BytesInv, TypeInv, TypeOK
  <2>1. ASSUME NEW f \in File, BeginPurge(p, f)
        PROVE  /\ req'[p].pc = "purge.keys"
               /\ \A q \in Actor \ {p} : req'[q] = req[q]
    BY <2>0, <2>1 DEF BeginPurge, Start, Idle, Request
  <2>2. CASE PurgeKeys(p) \/ PurgeRow(p)
    BY <2>0, <2>2 DEF PurgeKeys, PurgeRow, Goto, Request
  <2>3. CASE PurgeUnlink(p)
    BY <2>0, <2>3 DEF PurgeUnlink, Finish, Idle
  <2>. QED
    BY <2>1, <2>2, <2>3 DEF PurgeStep
<1>. QED
  BY <1>1, <1>2, OtherStep DEF Saving

\* A step that touches no request, or only ends one.
LEMMA RestHistory ==
    ASSUME HistInv, BytesInv', UNCHANGED <<life, versions>>,
           \A f \in File : row'[f].version = row[f].version,
           \/ UNCHANGED req
           \/ \E p \in Actor : req' = [req EXCEPT ![p] = Idle]
    PROVE  HistInv'
<1>1. Still
  BY SameHistory
<1>2. CASE UNCHANGED req
  <2>1. ASSUME NEW q \in Actor PROVE Paces(req[q])'
    <3>1. Paces(req[q])
      BY DEF HistInv
    <3>. QED
      BY <1>2, <3>1, VersionTypes DEF Paces, HasRow, Numbers, HistoryOf, HistInv, BytesInv
  <2>2. OneClaim'
    BY <1>2 DEF OneClaim, HasRow, HistInv
  <2>. QED
    BY <1>1, <2>1, <2>2 DEF HistInv, Still, HistoryContiguous, NoOrphans
<1>3. ASSUME NEW p \in Actor, req' = [req EXCEPT ![p] = Idle]
      PROVE  HistInv'
  BY <1>1, <1>3, IdlePaces, PacesOther, StillStep
<1>. QED
  BY <1>2, <1>3

LEMMA InitHistory == Init => HistInv
<1> SUFFICES ASSUME Init PROVE HistInv
  OBVIOUS
<1>1. /\ \A p \in Actor : req[p] = Idle
      /\ versions = {} /\ \A f \in File : ~HasRow(f)
  BY DEF Init, HasRow
<1>2. \A p \in Actor : Paces(req[p])
  BY <1>1, IdlePaces DEF Paces, Saving, Claimed
<1>3. OneClaim
  BY <1>1, IdlePaces DEF OneClaim, Claimed, Saving
<1>. QED
  BY <1>1, <1>2, <1>3, InitBytes DEF HistInv, HistoryContiguous, NoOrphans

LEMMA HistoryStep ==
    ASSUME KeepLastN = 0, HistInv, [Next]_vars
    PROVE  HistInv'
<1>0. BytesInv'
  BY NextBytes DEF HistInv
<1>1. ASSUME NEW p \in Proc, HttpStep(p) PROVE HistInv'
  <2>0. p \in Actor
    BY DEF Actor
  <2>1. ASSUME NEW f \in File, VersionBegin(p, f) \/ WopiBegin(p, f)
        PROVE  HistInv'
    BY <1>0, <2>0, <2>1, BeginSaveHistory DEF VersionBegin, WopiBegin
  <2>2. CASE VersionClaim(p) \/ WopiClaim(p)
    BY <1>0, <2>0, <2>2, ArchiveHistory DEF VersionClaim, WopiClaim
  <2>3. ASSUME NEW n, NEW b, VersionPut(p, n, b) \/ WopiPut(p, b)
        PROVE  HistInv'
    BY <1>0, <2>0, <2>3, PutVersionHistory DEF VersionPut, WopiPut
  <2>4. CASE VersionPromote(p) \/ WopiPromote(p)
    BY <1>0, <2>0, <2>4, PromoteHistory DEF VersionPromote, WopiPromote
  <2>5. ASSUME NEW f \in File, HardDelete(p, f) PROVE HistInv'
    BY <1>0, <2>0, <2>5, PurgeHistory DEF HardDelete
  <2>. QED
    BY <1>0, <1>1, <2>0, <2>1, <2>2, <2>3, <2>4, <2>5, UploadHistory,
       UploadInsertHistory, PatchHistory
       DEF HttpStep
<1>2. ASSUME NEW w \in Worker, RotationStep(w) PROVE HistInv'
  <2>1. w \in Actor
    BY DEF Actor
  <2>2. ~PruneObject(w) /\ ~PruneRow(w)
    BY <2>1 DEF PruneObject, PruneRow, At, HistInv, BytesInv, Holds
  <2>3. \A f \in File : ~PruneBegin(w, f)
    BY ONLY KeepLastN = 0, SMT DEF PruneBegin
  <2>4. PICK f \in File : Expire(w, f)
    BY <1>2, <2>2, <2>3 DEF RotationStep
  <2>. QED
    BY <1>0, <2>1, <2>4, PurgeHistory DEF Expire
<1>3. ASSUME NEW p \in Actor, PurgeStep(p) PROVE HistInv'
  BY <1>0, <1>3, PurgeHistory
<1>4. ASSUME NEW p \in Actor, Fail(p) PROVE HistInv'
  BY <1>0, <1>4, RestHistory DEF Fail, Finish
<1>5. ASSUME NEW f \in File, FileStep(f) PROVE HistInv'
  <2>1. /\ UNCHANGED <<life, versions, req>>
        /\ \A g \in File : row'[g].version = row[g].version
    BY <1>5 DEF FileStep, Trash, Restore, WindowEnds, ArchiveOld, HistInv, BytesInv,
                TypeInv, TypeOK, Row
  <2>. QED
    BY <1>0, <2>1, RestHistory
<1>6. CASE EnableEncryption \/ UNCHANGED vars
  BY <1>0, <1>6, RestHistory DEF EnableEncryption, vars
<1>. QED
  BY <1>1, <1>2, <1>3, <1>4, <1>5, <1>6 DEF Next

LEMMA HistoryInvariant == ASSUME KeepLastN = 0 PROVE Spec => []HistInv
<1>1. HistInv /\ [Next]_vars => HistInv'
  BY HistoryStep
<1>. QED
  BY <1>1, InitHistory, PTL DEF Spec

\* Where nothing is pruned, the archive of a file holds every version below
\* its current one, and at most that one as well, however many saves, moves
\* and purges overlap and wherever they stop: no version is lost, skipped or
\* archived twice.
THEOREM HistoryHasNoGap == ASSUME KeepLastN = 0 PROVE Spec => []HistoryContiguous
<1>1. HistInv => HistoryContiguous
  BY DEF HistInv
<1>. QED
  BY <1>1, HistoryInvariant, PTL

-----------------------------------------------------------------------------
(* Refinement.  Every step of FileStore is a step of FileLifecycle on one   *)
(* file, or leaves every file's status and current version as they were.    *)

Status  == [f \in File |-> StatusOf(f)]
Current == [f \in File |-> CurrentOf(f)]

LEMMA SameRows ==
    ASSUME UNCHANGED life,
           \A f \in File : HasRow(f) =>
               /\ row'[f].version = row[f].version
               /\ row'[f].trash = "live" <=> row[f].trash = "live"
    PROVE  UNCHANGED <<Status, Current>>
<1>1. \A f \in File : StatusOf(f)' = StatusOf(f) /\ CurrentOf(f)' = CurrentOf(f)
  BY DEF StatusOf, CurrentOf, Live, HasRow
<1>. QED
  BY <1>1 DEF Status, Current

\* A step on one file's row.
LEMMA OneFile ==
    ASSUME NEW f \in File, NEW s, NEW c, StatusOf(f)' = s, CurrentOf(f)' = c,
           \A g \in File \ {f} : life'[g] = life[g] /\ row'[g] = row[g]
    PROVE  /\ Status' = [Status EXCEPT ![f] = s]
           /\ Current' = [Current EXCEPT ![f] = c]
<1>1. \A g \in File \ {f} : StatusOf(g)' = StatusOf(g) /\ CurrentOf(g)' = CurrentOf(g)
  BY DEF StatusOf, CurrentOf, Live, HasRow
<1>. QED
  BY <1>1 DEF Status, Current

LEMMA InsertCreates ==
    ASSUME HistInv, NEW p \in Actor, UploadInsert(p)
    PROVE  \E f \in File : Lifecycle!Create(f)
<1>0. PICK f \in File : f = req[p].file
  BY VersionTypes DEF HistInv, BytesInv
<1>1. /\ life[f] = "minted" /\ life'[f] = "row"
      /\ row'[f].version = 1 /\ row'[f].trash = "live"
      /\ \A g \in File \ {f} : life'[g] = life[g] /\ row'[g] = row[g]
  BY <1>0 DEF UploadInsert, At, HistInv, Paces, BytesInv, Holds, TypeInv, TypeOK
<1>2. StatusOf(f) = "none" /\ StatusOf(f)' = "live" /\ CurrentOf(f)' = 1
  BY <1>1 DEF StatusOf, CurrentOf, Live, HasRow
<1>3. /\ Status' = [Status EXCEPT ![f] = "live"] /\ Status[f] = "none"
      /\ Current' = [Current EXCEPT ![f] = 1]
  BY <1>1, <1>2, OneFile DEF Status
<1>. QED
  BY <1>3 DEF Lifecycle!Create, Status, Current

LEMMA PromoteSaves ==
    ASSUME HistInv, BytesInv', NEW p \in Actor, NEW enc,
           At(p, "version.promote") \/ At(p, "wopi.promote"), Promote(p, enc)
    PROVE  \/ UNCHANGED <<Status, Current>>
           \/ \E f \in File : Lifecycle!Save(f)
<1>0. PICK f \in File : f = req[p].file
  BY VersionTypes DEF HistInv, BytesInv
<1>1. CASE ~HasRow(f)
  <2>1. UNCHANGED <<life, row>>
    BY <1>0, <1>1 DEF Promote
  <2>. QED
    BY <2>1, SameRows
<1>2. CASE HasRow(f)
  <2>1. /\ UNCHANGED life
        /\ row'[f].version = row[f].version + 1 /\ row'[f].trash = row[f].trash
        /\ \A g \in File \ {f} : row'[g] = row[g]
    BY <1>0, <1>2, PromoteHistory DEF Promote
  <2>2. /\ StatusOf(f)' = StatusOf(f) /\ StatusOf(f) \in {"live", "trashed"}
        /\ CurrentOf(f)' = CurrentOf(f) + 1
    BY <1>2, <2>1 DEF StatusOf, CurrentOf, Live, HasRow
  <2>3. /\ Status' = [Status EXCEPT ![f] = StatusOf(f)]
        /\ Current' = [Current EXCEPT ![f] = CurrentOf(f) + 1]
    BY <2>1, <2>2, OneFile
  <2>4. Status[f] = StatusOf(f) /\ Current[f] = CurrentOf(f)
    BY DEF Status, Current
  <2>5. Status' = Status
    BY <2>3 DEF Status
  <2>. QED
    BY <2>2, <2>3, <2>4, <2>5 DEF Lifecycle!Save, Lifecycle!Present, Status, Current
<1>. QED
  BY <1>1, <1>2

LEMMA PurgeRowPurges ==
    ASSUME HistInv, NEW p \in Actor, PurgeRow(p)
    PROVE  \/ UNCHANGED <<Status, Current>>
           \/ \E f \in File : Lifecycle!Purge(f)
<1>0. PICK f \in File : f = req[p].file
  BY VersionTypes DEF HistInv, BytesInv
<1>1. /\ life[f] \in {"row", "gone"} /\ life'[f] = "gone"
      /\ \A g \in File \ {f} : life'[g] = life[g] /\ row'[g] = row[g]
  BY <1>0 DEF PurgeRow, At, HistInv, BytesInv, Holds, TypeInv, TypeOK
<1>2. StatusOf(f)' = "gone" /\ CurrentOf(f)' = 0
  BY <1>1 DEF StatusOf, CurrentOf, Live, HasRow
<1>3. /\ Status' = [Status EXCEPT ![f] = "gone"]
      /\ Current' = [Current EXCEPT ![f] = 0]
  BY <1>1, <1>2, OneFile
<1>4. CASE life[f] = "gone"
  <2>1. StatusOf(f) = "gone" /\ CurrentOf(f) = 0
    BY <1>4 DEF StatusOf, CurrentOf, Live, HasRow
  <2>. QED
    BY <1>3, <2>1 DEF Status, Current
<1>5. CASE life[f] = "row"
  <2>1. Status[f] \in {"live", "trashed"}
    BY <1>5 DEF Status, StatusOf
  <2>. QED
    BY <1>3, <2>1 DEF Lifecycle!Purge, Lifecycle!Present, Status, Current
<1>. QED
  BY <1>1, <1>4, <1>5

LEMMA FileStepMoves ==
    ASSUME HistInv, NEW f \in File, FileStep(f)
    PROVE  \/ UNCHANGED <<Status, Current>>
           \/ Lifecycle!Discard(f) \/ Lifecycle!Recover(f)
<1>1. /\ UNCHANGED life /\ HasRow(f)
      /\ row'[f].version = row[f].version
      /\ row[f].trash # "live" \/ row'[f].trash # "live"
      /\ \A g \in File \ {f} : life'[g] = life[g] /\ row'[g] = row[g]
  BY DEF FileStep, Trash, Restore, WindowEnds, ArchiveOld, Live, HistInv, BytesInv,
         TypeInv, TypeOK, Row
<1>2. CurrentOf(f)' = CurrentOf(f)
  BY <1>1 DEF CurrentOf, HasRow
<1>3. /\ Status' = [Status EXCEPT ![f] = StatusOf(f)']
      /\ Current' = [Current EXCEPT ![f] = CurrentOf(f)]
  BY <1>1, <1>2, OneFile
<1>4. Current' = Current
  BY <1>3 DEF Current
<1>5. CASE row[f].trash # "live" /\ row'[f].trash # "live"
  BY <1>1, <1>5, SameRows
<1>6. CASE row[f].trash = "live"
  <2>1. StatusOf(f) = "live" /\ StatusOf(f)' = "trashed"
    BY <1>1, <1>6 DEF StatusOf, Live, HasRow
  <2>. QED
    BY <1>3, <1>4, <2>1 DEF Lifecycle!Discard, Status, Current
<1>7. CASE row'[f].trash = "live"
  <2>1. StatusOf(f) = "trashed" /\ StatusOf(f)' = "live"
    BY <1>1, <1>7 DEF StatusOf, Live, HasRow
  <2>. QED
    BY <1>3, <1>4, <2>1 DEF Lifecycle!Recover, Status, Current
<1>. QED
  BY <1>1, <1>5, <1>6, <1>7

LEMMA StepRefines ==
    ASSUME KeepLastN = 0, HistInv, [Next]_vars
    PROVE  Lifecycle!Next \/ UNCHANGED <<Status, Current>>
<1>0. BytesInv'
  BY NextBytes DEF HistInv
<1>1. ASSUME NEW p \in Actor, UploadInsert(p)
      PROVE  Lifecycle!Next
  BY <1>1, InsertCreates DEF Lifecycle!Next
<1>2. ASSUME NEW p \in Actor, VersionPromote(p) \/ WopiPromote(p)
      PROVE  Lifecycle!Next \/ UNCHANGED <<Status, Current>>
  BY <1>0, <1>2, PromoteSaves DEF VersionPromote, WopiPromote, Lifecycle!Next
<1>3. ASSUME NEW p \in Actor, PurgeRow(p)
      PROVE  Lifecycle!Next \/ UNCHANGED <<Status, Current>>
  BY <1>3, PurgeRowPurges DEF Lifecycle!Next
<1>4. ASSUME NEW f \in File, FileStep(f)
      PROVE  Lifecycle!Next \/ UNCHANGED <<Status, Current>>
  BY <1>4, FileStepMoves DEF Lifecycle!Next
<1>5. ASSUME NEW p \in Actor,
             \/ \E f \in File, s \in Sys, n \in Name : PatchBegin(p, f, s, n)
             \/ PatchGet(p) \/ PatchPut(p) \/ PatchUnlink(p) \/ PatchCommit(p)
      PROVE  UNCHANGED <<Status, Current>>
  <2>1. UNCHANGED life
    BY <1>5 DEF PatchBegin, PatchGet, PatchPut, PatchUnlink, PatchCommit
  <2>. QED
    BY <1>0, <1>5, <2>1, PatchHistory, SameRows
<1>6. ASSUME NEW p \in Actor, NEW f \in File, NEW s \in Sys, NEW n \in Name,
             NEW b \in Body, Upload(p, f, s, n, b)
      PROVE  UNCHANGED <<Status, Current>>
  <2>1. life[f] = "unborn" /\ life'[f] = "minted" /\ UNCHANGED row
        /\ \A g \in File \ {f} : life'[g] = life[g]
    BY <1>6 DEF Upload, HistInv, BytesInv, TypeInv, TypeOK
  <2>2. \A g \in File : StatusOf(g)' = StatusOf(g) /\ CurrentOf(g)' = CurrentOf(g)
    BY <2>1 DEF StatusOf, CurrentOf, Live, HasRow
  <2>. QED
    BY <2>2 DEF Status, Current
<1>7. CASE UNCHANGED <<life, row>>
  BY <1>7, SameRows
<1>8. \/ UNCHANGED <<life, row>>
      \/ \E p \in Actor : \/ UploadInsert(p) \/ VersionPromote(p) \/ WopiPromote(p)
                          \/ PurgeRow(p)
                          \/ PatchGet(p) \/ PatchPut(p) \/ PatchUnlink(p)
                          \/ PatchCommit(p)
                          \/ \E f \in File, s \in Sys, n \in Name, b \in Body :
                                Upload(p, f, s, n, b)
      \/ \E f \in File : FileStep(f)
  <2>1. Proc \subseteq Actor /\ Worker \subseteq Actor
    BY DEF Actor
  <2>2. ASSUME NEW p \in Proc, HttpStep(p)
        PROVE  \/ UNCHANGED <<life, row>>
               \/ UploadInsert(p) \/ VersionPromote(p) \/ WopiPromote(p)
               \/ PatchGet(p) \/ PatchPut(p) \/ PatchUnlink(p) \/ PatchCommit(p)
               \/ \E f \in File, s \in Sys, n \in Name, b \in Body :
                     Upload(p, f, s, n, b)
    BY <2>2 DEF HttpStep, VersionBegin, WopiBegin, BeginSave, VersionClaim, WopiClaim,
                Archive, VersionPut, WopiPut, PutVersion, PatchBegin, HardDelete,
                BeginPurge
  <2>3. ASSUME NEW w \in Worker, RotationStep(w)
        PROVE  UNCHANGED <<life, row>>
    BY <2>3 DEF RotationStep, Expire, BeginPurge, PruneBegin, PruneObject, PruneRow
  <2>4. ASSUME NEW p \in Actor, PurgeStep(p) \/ Fail(p)
        PROVE  PurgeRow(p) \/ UNCHANGED <<life, row>>
    BY <2>4 DEF PurgeStep, PurgeKeys, PurgeUnlink, Fail
  <2>. QED
    BY <2>1, <2>2, <2>3, <2>4 DEF Next, EnableEncryption, vars
<1>. QED
  BY <1>1, <1>2, <1>3, <1>4, <1>5, <1>6, <1>7, <1>8

\* Where nothing is pruned, FileStore implements FileLifecycle: with each
\* handler a sequence of awaits on two stores, a save still looks atomic and
\* advances the row by exactly one version, though no UPDATE of it compares
\* the version; a file moves in and out of the trash and, once purged, never
\* comes back.
THEOREM SavesLookAtomic == ASSUME KeepLastN = 0 PROVE Spec => ImplementsLifecycle
<1>1. Init => Lifecycle!Init
  <2> SUFFICES ASSUME Init PROVE Lifecycle!Init
    OBVIOUS
  <2>1. \A f \in File : StatusOf(f) = "none" /\ CurrentOf(f) = 0
    BY DEF Init, StatusOf, CurrentOf, Live, HasRow
  <2>. QED
    BY <2>1 DEF Lifecycle!Init
<1>2. HistInv /\ [Next]_vars => [Lifecycle!Next]_<<Status, Current>>
  BY StepRefines
<1>. QED
  BY <1>1, <1>2, HistoryInvariant, PTL
     DEF Spec, ImplementsLifecycle, Lifecycle!Spec, Status, Current
-----------------------------------------------------------------------------
(* What the bytes under a key are.  (PutFile puts its bytes before it        *)
(* claims their version, and archives the old key under the new etag: with  *)
(* it BytesMatchRow fails.)                                                 *)
(*                                                                         *)
(* A version's key carries its number, so a save that writes version v + 1  *)
(* writes over nothing that the row, the archive or another save still       *)
(* names: their keys carry numbers up to v.                                 *)

WopiSteps == {"wopi.put", "wopi.claim", "wopi.promote"}

\* What the request r knows of the object it wrote and of the row it read.
Matches(r) ==
    /\ r.pc \notin WopiSteps
    /\ r.pc = "upload.insert" =>
          /\ store[r.snap.key] = [body |-> r.snap.etag, enc |-> r.snap.enc]
          /\ r.snap.key.ver = 0
    /\ r.pc \in Saving /\ HasRow(r.file) /\ r.file \notin rekeyed
       /\ r.snap.version = row[r.file].version
          => r.snap.key = row[r.file].key /\ r.snap.etag = row[r.file].etag
    /\ r.pc = "version.promote" /\ HasRow(r.file) /\ r.file \notin rekeyed =>
          /\ store[r.key] = [body |-> r.body, enc |-> cipher]
          /\ r.key.ver = r.snap.version + 1

KeysBehind ==
    /\ \A f \in File : HasRow(f) /\ f \notin rekeyed => row[f].key.ver <= row[f].version
    /\ \A r \in versions : r.file \notin rekeyed => r.key.ver <= r.version

MatchInv ==
    /\ HistInv
    /\ BytesMatchRow
    /\ KeysBehind
    /\ \A p \in Actor : Matches(req[p])

\* The object under k is left alone.
Spares(k) == k \in DOMAIN store' /\ store'[k] = store[k]

\* A step after which every row and archived version not moved by a PATCH is
\* as it was, and so are their objects.
Calm ==
    /\ UNCHANGED cipher
    /\ rekeyed \subseteq rekeyed'
    /\ \A f \in File \ rekeyed' : HasRow(f)' =>
          /\ HasRow(f) /\ Spares(row[f].key)
          /\ row'[f].version = row[f].version /\ row'[f].key = row[f].key
          /\ row'[f].etag = row[f].etag /\ row'[f].enc = row[f].enc
    /\ \A r \in versions' : r.file \notin rekeyed' => r \in versions /\ Spares(r.key)

\* The objects the request r relies on are left alone.
SparesOf(r) ==
    /\ r.pc = "upload.insert" => Spares(r.snap.key)
    /\ r.pc = "version.promote" /\ life'[r.file] = "row" /\ r.file \notin rekeyed'
          => Spares(r.key)

LEMMA MatchesFrame ==
    ASSUME Calm, NEW r, r.file \in File, Matches(r), SparesOf(r)
    PROVE  Matches(r)'
<1>1. HasRow(r.file)' /\ r.file \notin rekeyed' =>
        HasRow(r.file) /\ r.file \notin rekeyed
  BY DEF Calm
<1>. QED
  BY <1>1 DEF Calm, Matches, SparesOf, Spares, HasRow

LEMMA CalmKeeps ==
    ASSUME MatchInv, HistInv', Calm, \A q \in Actor : Matches(req[q])'
    PROVE  MatchInv'
<1>1. BytesMatchRow'
  BY DEF Calm, Spares, MatchInv, BytesMatchRow, HasRow
<1>2. KeysBehind'
  BY DEF Calm, MatchInv, KeysBehind
<1>. QED
  BY <1>1, <1>2 DEF MatchInv

\* A request that did not change, and whose objects are left alone.
LEMMA CalmMatches ==
    ASSUME MatchInv, Calm, NEW q \in Actor, req'[q] = req[q], SparesOf(req[q])
    PROVE  Matches(req[q])'
<1>1. req[q].file \in File /\ Matches(req[q])
  BY VersionTypes DEF MatchInv, HistInv, BytesInv
<1>2. \A r : r.file \in File /\ Matches(r) /\ SparesOf(r) => Matches(r)'
  BY MatchesFrame
<1>. QED
  BY <1>1, <1>2 DEF Matches

\* A calm step of p that leaves p matching, and the objects of others alone.
LEMMA CalmStep ==
    ASSUME MatchInv, HistInv', Calm, NEW p \in Actor,
           \A q \in Actor \ {p} : req'[q] = req[q] /\ SparesOf(req[q]),
           Matches(req[p])'
    PROVE  MatchInv'
<1>1. \A q \in Actor \ {p} : Matches(req[q])'
  BY CalmMatches
<1>2. ASSUME NEW q \in Actor PROVE Matches(req[q])'
  <2>1. CASE q = p
    BY <2>1 DEF Matches
  <2>. QED
    BY <1>1, <2>1
<1>. QED
  BY <1>2, CalmKeeps

\* Only objects change whose file has no row yet, has none any more, or was
\* moved by a PATCH.
LEMMA SparesOthers ==
    ASSUME MatchInv, HistInv', UNCHANGED cipher, rekeyed \subseteq rekeyed',
           \A f \in File \ rekeyed' : HasRow(f)' =>
               /\ HasRow(f)
               /\ row'[f].version = row[f].version /\ row'[f].key = row[f].key
               /\ row'[f].etag = row[f].etag /\ row'[f].enc = row[f].enc,
           versions' \subseteq versions,
           \A k \in DOMAIN store :
               \/ Spares(k)
               \/ life[k.file] \in {"unborn", "gone"}
               \/ life[k.file] = "row" /\ k.file \in rekeyed'
    PROVE  Calm /\ \A q \in Actor : SparesOf(req[q])
<1>1. ASSUME NEW f \in File \ rekeyed', HasRow(f)'
      PROVE  Spares(row[f].key)
  BY <1>1 DEF MatchInv, HistInv, BytesInv, OwnKeys, RowHasBytes, HasRow
<1>2. ASSUME NEW r \in versions', r.file \notin rekeyed'
      PROVE  Spares(r.key)
  BY <1>2 DEF MatchInv, BytesMatchRow, HistInv, NoOrphans, BytesInv, OwnKeys, HasRow
<1>3. ASSUME NEW q \in Actor
      PROVE  SparesOf(req[q])
  <2>1. Holds(req[q]) /\ req[q].file \in File
    BY VersionTypes DEF MatchInv, HistInv, BytesInv
  <2>2. CASE At(q, "upload.insert")
    BY <2>1, <2>2 DEF SparesOf, At, Holds, UsesSnap, MatchInv, HistInv, BytesInv
  <2>3. CASE At(q, "version.promote")
    BY <2>1, <2>3 DEF SparesOf, At, Holds, UsesKey, HasBody, HasRow
  <2>. QED
    BY <2>2, <2>3 DEF SparesOf, At
<1>. QED
  BY <1>1, <1>2, <1>3 DEF Calm

LEMMA IdleMatches ==
    ASSUME NEW r, r.pc \notin Saving \cup {"upload.insert"}
    PROVE  Matches(r) /\ Matches(r)'
BY DEF Matches, WopiSteps, Saving

LEMMA UploadContent ==
    ASSUME MatchInv, HistInv', NEW p \in Actor, NEW f \in File, NEW s \in Sys,
           NEW n \in Name, NEW b \in Body, Upload(p, f, s, n, b)
    PROVE  MatchInv'
<1> DEFINE k == PlainKey(f, s, n)
           snap == [name |-> n, sys |-> s, key |-> k, version |-> 1, etag |-> b,
                    enc |-> cipher, trash |-> "live"]
<1>1. /\ UNCHANGED <<row, versions, cipher, rekeyed>> /\ life[f] = "unborn"
      /\ \A g \in File : HasRow(g)' => HasRow(g)
      /\ store' = [j \in DOMAIN store \cup {k} |->
                     IF j = k THEN [body |-> b, enc |-> cipher] ELSE store[j]]
      /\ k.file = f /\ k.ver = 0
  BY DEF Upload, Put, HasRow, PlainKey, MatchInv, HistInv, BytesInv, TypeInv, TypeOK
<1>2. \A j \in DOMAIN store : Spares(j) \/ life[j.file] = "unborn"
  BY <1>1 DEF Spares
<1>3. Calm /\ \A q \in Actor : SparesOf(req[q])
  BY <1>1, <1>2, SparesOthers
<1>4. /\ \A q \in Actor \ {p} : req'[q] = req[q]
      /\ req'[p].pc = "upload.insert" /\ req'[p].snap = snap
  BY DEF Upload, Start, Idle, MatchInv, HistInv, BytesInv, TypeInv, TypeOK
<1>5. Matches(req[p])'
  BY <1>1, <1>4 DEF Matches, WopiSteps, Saving
<1>. QED
  BY <1>3, <1>4, <1>5, CalmStep

LEMMA InsertContent ==
    ASSUME MatchInv, HistInv', NEW p \in Actor, UploadInsert(p)
    PROVE  MatchInv'
<1>0. PICK f \in File, r \in Row : f = req[p].file /\ r = req[p].snap
  BY VersionTypes DEF MatchInv, HistInv, BytesInv, TypeInv, TypeOK, Request
<1>1. /\ life[f] = "minted" /\ row'[f] = r
      /\ UNCHANGED <<versions, store, cipher, rekeyed>>
      /\ \A g \in File \ {f} : life'[g] = life[g] /\ row'[g] = row[g]
      /\ \A q \in Actor \ {p} : req'[q] = req[q]
      /\ req'[p] = Idle
  BY <1>0 DEF UploadInsert, Finish, At, MatchInv, HistInv, BytesInv, Holds, TypeInv,
              TypeOK
<1>2. /\ r.key \in DOMAIN store /\ r.key.ver = 0 /\ r.version = 1
      /\ store[r.key] = [body |-> r.etag, enc |-> r.enc]
  BY <1>0 DEF UploadInsert, At, MatchInv, Matches, HistInv, Paces, BytesInv, Holds
<1>3. BytesMatchRow'
  BY <1>1, <1>2 DEF BytesMatchRow, MatchInv, HasRow
<1>4. KeysBehind'
  BY <1>1, <1>2 DEF KeysBehind, MatchInv, HasRow
<1>5. ASSUME NEW q \in Actor PROVE Matches(req[q])'
  <2>1. CASE q = p
    BY <1>1, <2>1, IdlePaces DEF Matches, WopiSteps, Saving
  <2>2. CASE q # p
    <3>1. req'[q] = req[q] /\ req[q].file \in File /\ Matches(req[q])
      BY <1>1, <2>2, VersionTypes DEF MatchInv, HistInv, BytesInv
    <3>2. CASE req[q].file = f
      <4>1. req[q].pc \notin Saving \cup {"upload.insert"}
        BY <1>0, <1>1, <2>2, <3>2
           DEF MatchInv, HistInv, BytesInv, Holds, OneUpload, UploadInsert, At, Saving
      <4>. QED
        BY <3>1, <4>1 DEF Matches, Saving, WopiSteps
    <3>3. CASE req[q].file # f
      BY <1>1, <3>1, <3>3 DEF Matches, HasRow
    <3>. QED
      BY <3>2, <3>3
  <2>. QED
    BY <2>1, <2>2
<1>. QED
  BY <1>3, <1>4, <1>5 DEF MatchInv

LEMMA BeginContent ==
    ASSUME MatchInv, HistInv', NEW p \in Actor, NEW f \in File,
           BeginSave(p, f, "version.claim")
    PROVE  MatchInv'
<1>1. /\ UNCHANGED <<life, row, versions, store, cipher, rekeyed>>
      /\ req'[p].pc = "version.claim" /\ req'[p].file = f /\ req'[p].snap = row[f]
      /\ \A q \in Actor \ {p} : req'[q] = req[q]
  BY DEF BeginSave, Start, Idle, MatchInv, HistInv, BytesInv, TypeInv, TypeOK
<1>2. \A k \in DOMAIN store : Spares(k)
  BY <1>1 DEF Spares
<1>3. Calm /\ \A q \in Actor : SparesOf(req[q])
  BY <1>1, <1>2, SparesOthers DEF HasRow
<1>4. Matches(req[p])'
  BY <1>1 DEF Matches, WopiSteps
<1>. QED
  BY <1>1, <1>3, <1>4, CalmStep

\* The archived key and etag are those the row still has.
LEMMA ClaimContent ==
    ASSUME MatchInv, HistInv', NEW p \in Actor, VersionClaim(p)
    PROVE  MatchInv'
<1>0. PICK f \in File, r \in Row : f = req[p].file /\ r = req[p].snap
  BY VersionTypes DEF MatchInv, HistInv, BytesInv, TypeInv, TypeOK, Request
<1> DEFINE new == [file |-> f, version |-> r.version, key |-> r.key, etag |-> r.etag]
<1>1. /\ UNCHANGED <<life, row, store, cipher, rekeyed>> /\ HasRow(f)
      /\ versions' = versions \cup {new}
      /\ At(p, "version.claim")
      /\ req'[p].pc = "version.put" /\ req'[p].file = f /\ req'[p].snap = r
      /\ \A q \in Actor \ {p} : req'[q] = req[q]
  BY <1>0
     DEF VersionClaim, Archive, CanArchive, Goto, MatchInv, HistInv, BytesInv, TypeInv,
         TypeOK, Request
<1>2. r.version = row[f].version
  <2>1. Paces(req[p])'
    BY DEF HistInv
  <2>. QED
    BY <1>1, <2>1 DEF Paces, Claimed, HasRow
<1>3. f \notin rekeyed => r.key = row[f].key /\ r.etag = row[f].etag
  BY <1>0, <1>1, <1>2 DEF MatchInv, Matches, At, Saving
<1>4. BytesMatchRow'
  <2>1. f \notin rekeyed => r.key \in DOMAIN store /\ store[r.key].body = r.etag
    <3>1. f \notin rekeyed =>
            /\ row[f].key \in DOMAIN store
            /\ store[row[f].key] = [body |-> row[f].etag, enc |-> row[f].enc]
      BY <1>1 DEF MatchInv, BytesMatchRow
    <3>2. f \notin rekeyed => store[row[f].key].body = row[f].etag
      BY <3>1
    <3>. QED
      BY <1>3, <3>1, <3>2
  <2>2. new.file = f /\ new.key = r.key /\ new.etag = r.etag
    OBVIOUS
  <2> HIDE DEF new
  <2>3. /\ \A g \in File : HasRow(g)' <=> HasRow(g)
        /\ \A w \in versions' : w \in versions \/ w = new
    BY <1>1 DEF HasRow
  <2>. QED
    BY <1>1, <2>1, <2>2, <2>3 DEF BytesMatchRow, MatchInv
<1>5. KeysBehind'
  BY <1>1, <1>2, <1>3 DEF KeysBehind, MatchInv, HasRow
<1>6. ASSUME NEW q \in Actor PROVE Matches(req[q])'
  <2>1. CASE q = p
    BY <1>1, <1>3, <2>1 DEF Matches, WopiSteps
  <2>2. CASE q # p
    BY <1>1, <2>2 DEF MatchInv, Matches, HasRow
  <2>. QED
    BY <2>1, <2>2
<1>. QED
  BY <1>4, <1>5, <1>6 DEF MatchInv

\* The new object's number is past every number the file's keys carry.
LEMMA PutContent ==
    ASSUME MatchInv, HistInv', NEW p \in Actor, NEW n \in Name, NEW b \in Body,
           VersionPut(p, n, b)
    PROVE  MatchInv'
<1>0. PICK f \in File, r \in Row, v \in Nat \ {0} :
        f = req[p].file /\ r = req[p].snap /\ v = r.version
  BY VersionTypes DEF MatchInv, HistInv, BytesInv, TypeInv, TypeOK, Request
<1>1. PICK k : k = VersionKey(f, r.sys, v + 1, n)
  OBVIOUS
<1>2. /\ UNCHANGED <<life, row, versions, cipher, rekeyed>>
      /\ At(p, "version.put")
      /\ store' = [j \in DOMAIN store \cup {k} |->
                     IF j = k THEN [body |-> b, enc |-> cipher] ELSE store[j]]
      /\ req'[p].pc = "version.promote" /\ req'[p].file = f /\ req'[p].snap = r
      /\ req'[p].key = k /\ req'[p].body = b
      /\ \A q \in Actor \ {p} : req'[q] = req[q]
  BY <1>0, <1>1
     DEF VersionPut, PutVersion, Put, MatchInv, HistInv, BytesInv, TypeInv, TypeOK,
         Request
<1>3. k.file = f /\ k.ver = v + 1
  BY <1>1 DEF VersionKey
<1>4. \A j \in DOMAIN store : j.file # f \/ j.ver <= v => Spares(j)
  <2>1. ~(v + 1 <= v)
    OBVIOUS
  <2>. QED
    BY <1>2, <1>3, <2>1 DEF Spares
<1>5. HasRow(f) => row[f].version = v /\ Numbers(f) = 1..v
  BY <1>0, <1>2 DEF MatchInv, HistInv, Paces, At, Claimed, Saving
<1>6. ASSUME NEW g \in File \ rekeyed, HasRow(g)
      PROVE  Spares(row[g].key)
  <2>1. row[g].key.file = g /\ row[g].key \in DOMAIN store
    BY <1>6 DEF MatchInv, HistInv, BytesInv, OwnKeys, RowHasBytes
  <2>2. g = f => row[g].key.ver <= v
    BY <1>5, <1>6 DEF MatchInv, KeysBehind
  <2>. QED
    BY <1>4, <2>1, <2>2
<1>7. ASSUME NEW w \in versions, w.file \notin rekeyed
      PROVE  Spares(w.key)
  <2>1. w.key.file = w.file /\ w.key \in DOMAIN store /\ HasRow(w.file)
    BY <1>7 DEF MatchInv, HistInv, NoOrphans, BytesInv, OwnKeys, BytesMatchRow
  <2>2. w.file = f => w.key.ver <= v
    <3>1. w.key.ver <= w.version
      BY <1>7 DEF MatchInv, KeysBehind
    <3>2. w.file = f => w.version \in 1..v
      BY <1>5, <2>1 DEF Numbers, HistoryOf
    <3>3. w.key.ver \in Nat
      BY <1>7 DEF MatchInv, HistInv, BytesInv, TypeInv, TypeOK, VersionRow, Key
    <3>. QED
      BY <3>1, <3>2, <3>3
  <2>. QED
    BY <1>4, <2>1, <2>2
<1>8. Calm
  BY <1>2, <1>6, <1>7 DEF Calm, HasRow
<1>9. ASSUME NEW q \in Actor \ {p}
      PROVE  SparesOf(req[q])
  <2>1. Holds(req[q]) /\ Holds(req[p]) /\ req[q].file \in File
    BY VersionTypes DEF MatchInv, HistInv, BytesInv
  <2>2. CASE At(q, "upload.insert")
    <3>1. req[q].snap.key \in DOMAIN store /\ req[q].snap.key.file = req[q].file
      BY <2>1, <2>2 DEF At, Holds, UsesSnap
    <3>2. req[q].file # f
      BY <1>0, <1>2, <2>1, <2>2 DEF At, Holds
    <3>. QED
      BY <1>4, <2>2, <3>1, <3>2 DEF SparesOf, At
  <2>3. CASE At(q, "version.promote")
    <3>1. HasRow(req[q].file) => req[q].file # f
      BY <1>0, <1>2, <2>3 DEF MatchInv, HistInv, OneClaim, At, Claimed
    <3>2. /\ req[q].key.file = req[q].file
          /\ HasRow(req[q].file) /\ req[q].file \notin rekeyed =>
               req[q].key \in DOMAIN store
      BY <2>1, <2>3 DEF At, Holds, UsesKey, HasBody, HasRow
    <3>. QED
      BY <1>2, <1>4, <2>3, <3>1, <3>2 DEF SparesOf, At, HasRow
  <2>. QED
    BY <2>2, <2>3 DEF SparesOf, At
<1>10. Matches(req[p])'
  <2>1. f \notin rekeyed /\ HasRow(f) /\ v = row[f].version =>
          r.key = row[f].key /\ r.etag = row[f].etag
    BY <1>0, <1>2 DEF MatchInv, Matches, At, Saving
  <2>. QED
    BY <1>0, <1>2, <1>3, <2>1 DEF Matches, WopiSteps, HasRow
<1>. QED
  BY <1>2, <1>8, <1>9, <1>10, CalmStep

LEMMA PromoteContent ==
    ASSUME MatchInv, HistInv', NEW p \in Actor, VersionPromote(p)
    PROVE  MatchInv'
<1>0. PICK f \in File, r \in Request : f = req[p].file /\ r = req[p]
  BY VersionTypes DEF MatchInv, HistInv, BytesInv, TypeInv, TypeOK
<1>1. /\ UNCHANGED <<life, versions, store, cipher, rekeyed>>
      /\ \A g \in File \ {f} : row'[g] = row[g]
      /\ ~HasRow(f) => row' = row
      /\ HasRow(f) => /\ row'[f].version = r.snap.version + 1
                      /\ row'[f].key = r.key /\ row'[f].etag = r.body
                      /\ row'[f].enc = cipher
      /\ req'[p] = Idle /\ \A q \in Actor \ {p} : req'[q] = req[q]
  <2>1. row \in [File -> Row] /\ req \in [Actor -> Request]
    BY DEF MatchInv, HistInv, BytesInv, TypeInv, TypeOK
  <2>2. Promote(p, cipher)
    BY DEF VersionPromote
  <2>3. /\ UNCHANGED <<life, versions, store, cipher, rekeyed>>
        /\ req'[p] = Idle /\ \A q \in Actor \ {p} : req'[q] = req[q]
    BY <2>1, <2>2 DEF Promote, Finish
  <2>4. row' = IF HasRow(f)
               THEN [row EXCEPT ![f].version = r.snap.version + 1,
                                ![f].key = r.key, ![f].etag = r.body,
                                ![f].enc = cipher]
               ELSE row
    BY <1>0, <2>2 DEF Promote
  <2>5. /\ \A g \in File \ {f} : row'[g] = row[g]
        /\ ~HasRow(f) => row' = row
    BY <2>1, <2>4
  <2>6. HasRow(f) => /\ row'[f].version = r.snap.version + 1
                     /\ row'[f].key = r.key /\ row'[f].etag = r.body
                     /\ row'[f].enc = cipher
    <3>1. f \in File /\ row[f] \in Row
      BY <1>0, <2>1
    <3>. QED
      BY <2>1, <2>4, <3>1 DEF Row
  <2>. QED
    BY <2>3, <2>5, <2>6
<1>2. HasRow(f) /\ f \notin rekeyed =>
        /\ r.key \in DOMAIN store /\ store[r.key] = [body |-> r.body, enc |-> cipher]
        /\ r.key.ver = r.snap.version + 1
  BY <1>0
     DEF VersionPromote, At, MatchInv, Matches, HistInv, BytesInv, Holds, HasBody,
         HasRow
<1>3. BytesMatchRow'
  <2>1. ASSUME NEW g \in File, HasRow(g)', g \notin rekeyed'
        PROVE  /\ row'[g].key \in DOMAIN store
               /\ store[row'[g].key] = [body |-> row'[g].etag, enc |-> row'[g].enc]
    BY <1>1, <1>2, <2>1 DEF MatchInv, BytesMatchRow, HasRow
  <2>. QED
    BY <1>1, <2>1 DEF MatchInv, BytesMatchRow
<1>4. KeysBehind'
  <2>1. r.snap.version + 1 <= r.snap.version + 1
    BY <1>0, VersionTypes DEF MatchInv, HistInv, BytesInv
  <2>. QED
    BY <1>1, <1>2, <2>1 DEF KeysBehind, MatchInv, HasRow
<1>5. ASSUME NEW q \in Actor PROVE Matches(req[q])'
  <2>1. CASE q = p
    BY <1>1, <2>1, IdlePaces DEF Matches, WopiSteps, Saving
  <2>2. CASE q # p
    <3>1. req'[q] = req[q] /\ req[q].file \in File /\ Matches(req[q])
      BY <1>1, <2>2, VersionTypes DEF MatchInv, HistInv, BytesInv
    <3>2. CASE req[q].file # f \/ ~HasRow(f)
      BY <1>1, <3>1, <3>2 DEF Matches, HasRow
    <3>3. CASE req[q].file = f /\ HasRow(f)
      <4>1. /\ r.snap.version = row[f].version
            /\ req[q].pc \in Saving => req[q].snap.version <= row[f].version
            /\ req[q].pc # "version.promote"
        BY <1>0, <2>2, <3>3
           DEF VersionPromote, At, MatchInv, HistInv, Paces, OneClaim, Claimed, Saving
      <4>2. req[q].pc \in Saving => req[q].snap.version # row'[f].version
        BY <1>1, <3>3, <4>1, VersionTypes DEF MatchInv, HistInv, BytesInv
      <4>. QED
        BY <1>1, <3>1, <3>3, <4>1, <4>2 DEF Matches
    <3>. QED
      BY <3>2, <3>3
  <2>. QED
    BY <2>1, <2>2
<1>. QED
  BY <1>3, <1>4, <1>5 DEF MatchInv

\* The step of a request that neither uploads nor saves after it: it may move
\* a row or remove objects, of files without a row or in rekeyed only.
LEMMA OtherContent ==
    ASSUME MatchInv, HistInv', UNCHANGED cipher, rekeyed \subseteq rekeyed',
           \A f \in File \ rekeyed' : HasRow(f)' =>
               /\ HasRow(f)
               /\ row'[f].version = row[f].version /\ row'[f].key = row[f].key
               /\ row'[f].etag = row[f].etag /\ row'[f].enc = row[f].enc,
           versions' \subseteq versions,
           \A k \in DOMAIN store :
               \/ Spares(k)
               \/ life[k.file] \in {"unborn", "gone"}
               \/ life[k.file] = "row" /\ k.file \in rekeyed',
           \A q \in Actor : \/ req'[q] = req[q]
                             \/ req'[q].pc \notin Saving \cup {"upload.insert"}
    PROVE  MatchInv'
<1>1. Calm /\ \A q \in Actor : SparesOf(req[q])
  BY SparesOthers
<1>2. ASSUME NEW q \in Actor PROVE Matches(req[q])'
  <2>1. CASE req'[q] = req[q]
    BY <1>1, <2>1, CalmMatches
  <2>2. CASE req'[q].pc \notin Saving \cup {"upload.insert"}
    BY <2>2 DEF Matches, WopiSteps, Saving
  <2>. QED
    BY <2>1, <2>2
<1>. QED
  BY <1>1, <1>2, CalmKeeps

LEMMA PatchContent ==
    ASSUME MatchInv, HistInv', NEW p \in Actor,
           \/ \E f \in File, s \in Sys, n \in Name : PatchBegin(p, f, s, n)
           \/ PatchGet(p) \/ PatchPut(p) \/ PatchUnlink(p) \/ PatchCommit(p)
    PROVE  MatchInv'
<1>0. PICK f \in File : f = req[p].file
  BY VersionTypes DEF MatchInv, HistInv, BytesInv
<1>1. /\ UNCHANGED <<life, versions, cipher>> /\ rekeyed \subseteq rekeyed'
      /\ \A g \in File \ rekeyed' :
            /\ row'[g].version = row[g].version /\ row'[g].key = row[g].key
            /\ row'[g].etag = row[g].etag /\ row'[g].enc = row[g].enc
  <2>1. CASE PatchCommit(p)
    BY <1>0, <2>1 DEF PatchCommit, MatchInv, HistInv, BytesInv, TypeInv, TypeOK, Row
  <2>. QED
    BY <2>1 DEF PatchBegin, PatchGet, PatchPut, PatchUnlink, PatchCommit
<1>2. ASSUME NEW k \in DOMAIN store
      PROVE  \/ Spares(k)
             \/ life[k.file] = "gone"
             \/ life[k.file] = "row" /\ k.file \in rekeyed'
  <2>1. CASE PatchPut(p)
    <3>1. req[p].key.file = f /\ life[f] \in {"row", "gone"} /\ f \in rekeyed'
      BY <1>0, <2>1 DEF PatchPut, At, MatchInv, HistInv, BytesInv, Holds, UsesKey
    <3>2. k # req[p].key => Spares(k)
      BY <2>1 DEF PatchPut, Put, Spares
    <3>. QED
      BY <3>1, <3>2
  <2>2. CASE PatchUnlink(p)
    <3>1. /\ req[p].snap.key.file = f /\ life[f] \in {"row", "gone"}
          /\ f \in rekeyed'
      BY <1>0, <2>2 DEF PatchUnlink, At, MatchInv, HistInv, BytesInv, Holds, UsesSnap
    <3>2. k # req[p].snap.key => Spares(k)
      BY <2>2 DEF PatchUnlink, Unlink, Spares
    <3>. QED
      BY <3>1, <3>2
  <2>. QED
    BY <2>1, <2>2 DEF PatchBegin, PatchGet, PatchCommit, Spares
<1>3. /\ req'[p].pc \notin Saving \cup {"upload.insert"}
      /\ \A q \in Actor \ {p} : req'[q] = req[q]
  <2>0. req \in [Actor -> Request]
    BY DEF MatchInv, HistInv, BytesInv, TypeInv, TypeOK
  <2>1. ASSUME NEW g \in File, NEW s \in Sys, NEW n \in Name, PatchBegin(p, g, s, n)
        PROVE  /\ req'[p].pc \in {"patch.get", "patch.commit"}
               /\ \A q \in Actor \ {p} : req'[q] = req[q]
    BY <2>0, <2>1 DEF PatchBegin, Start, Idle, Request
  <2>2. CASE PatchGet(p) \/ PatchPut(p) \/ PatchUnlink(p) \/ PatchCommit(p)
    <3>1. CASE PatchGet(p)
      BY <2>0, <3>1 DEF PatchGet, Goto, Request, Saving
    <3>2. CASE PatchPut(p)
      BY <2>0, <3>2 DEF PatchPut, Goto, Request, Saving
    <3>3. CASE PatchUnlink(p)
      BY <2>0, <3>3 DEF PatchUnlink, Goto, Request, Saving
    <3>4. CASE PatchCommit(p)
      BY <2>0, <3>4, IdlePaces DEF PatchCommit, Finish, Saving
    <3>. QED
      BY <2>2, <3>1, <3>2, <3>3, <3>4
  <2>. QED
    BY <2>1, <2>2 DEF Saving
<1>. QED
  BY <1>1, <1>2, <1>3, OtherContent DEF HasRow

LEMMA PurgeContent ==
    ASSUME MatchInv, HistInv', NEW p \in Actor,
           \/ \E f \in File : HasRow(f) /\ BeginPurge(p, f)
           \/ PurgeStep(p) \/ Fail(p)
    PROVE  MatchInv'
<1>0. PICK f \in File : f = req[p].file
  BY VersionTypes DEF MatchInv, HistInv, BytesInv
<1>1. /\ UNCHANGED <<cipher, rekeyed>> /\ versions' \subseteq versions
      /\ \A g \in File : HasRow(g)' => HasRow(g) /\ row'[g] = row[g]
  BY <1>0 DEF BeginPurge, PurgeStep, PurgeKeys, PurgeRow, PurgeUnlink, Fail, HasRow,
              MatchInv, HistInv, BytesInv, TypeInv, TypeOK
<1>2. ASSUME NEW k \in DOMAIN store
      PROVE  Spares(k) \/ life[k.file] = "gone"
  <2>1. CASE PurgeUnlink(p)
    <3>1. /\ life[f] = "gone" /\ req[p].key.file = f
          /\ \A v \in req[p].todo : v.key.file = f
      BY <1>0, <2>1 DEF PurgeUnlink, At, MatchInv, HistInv, BytesInv, Holds, UsesKey
    <3>2. k \notin {req[p].key} \cup {v.key : v \in req[p].todo} => Spares(k)
      BY <2>1 DEF PurgeUnlink, Unlink, Spares
    <3>. QED
      BY <3>1, <3>2
  <2>. QED
    BY <2>1 DEF BeginPurge, PurgeStep, PurgeKeys, PurgeRow, Fail, Spares
<1>3. /\ req'[p].pc \notin Saving \cup {"upload.insert"}
      /\ \A q \in Actor \ {p} : req'[q] = req[q]
  <2>0. req \in [Actor -> Request]
    BY DEF MatchInv, HistInv, BytesInv, TypeInv, TypeOK
  <2>1. ASSUME NEW g \in File, BeginPurge(p, g)
        PROVE  /\ req'[p].pc = "purge.keys"
               /\ \A q \in Actor \ {p} : req'[q] = req[q]
    BY <2>0, <2>1 DEF BeginPurge, Start, Idle, Request
  <2>2. CASE PurgeStep(p) \/ Fail(p)
    BY <2>0, <2>2, IdlePaces
       DEF PurgeStep, PurgeKeys, PurgeRow, PurgeUnlink, Fail, Goto, Finish, Request,
           Saving
  <2>. QED
    BY <2>1, <2>2 DEF Saving
<1>. QED
  BY <1>1, <1>2, <1>3, OtherContent

LEMMA FileStepContent ==
    ASSUME MatchInv, HistInv', NEW f \in File, FileStep(f)
    PROVE  MatchInv'
<1>1. /\ UNCHANGED <<life, versions, store, cipher, req, rekeyed>>
      /\ \A g \in File :
            /\ row'[g].version = row[g].version /\ row'[g].key = row[g].key
            /\ row'[g].etag = row[g].etag /\ row'[g].enc = row[g].enc
  BY DEF FileStep, Trash, Restore, WindowEnds, ArchiveOld, MatchInv, HistInv, BytesInv,
         TypeInv, TypeOK, Row
<1>2. \A k \in DOMAIN store : Spares(k)
  BY <1>1 DEF Spares
<1>. QED
  BY <1>1, <1>2, OtherContent DEF HasRow

\* No request is at work while the key is introduced, and the objects already
\* stored keep the form their rows record.
LEMMA EncryptionContent ==
    ASSUME MatchInv, HistInv', EnableEncryption \/ UNCHANGED vars
    PROVE  MatchInv'
<1>1. UNCHANGED <<life, row, versions, store, req, rekeyed>>
  BY DEF EnableEncryption, vars
<1>2. BytesMatchRow' /\ KeysBehind'
  BY <1>1 DEF MatchInv, BytesMatchRow, KeysBehind, HasRow
<1>3. ASSUME NEW q \in Actor PROVE Matches(req[q])'
  <2>1. CASE EnableEncryption
    BY <1>1, <2>1 DEF EnableEncryption, At, Matches, WopiSteps, Saving
  <2>2. CASE UNCHANGED vars
    <3>1. Matches(req[q])
      BY DEF MatchInv
    <3>. QED
      BY <1>1, <2>2, <3>1 DEF vars, Matches, HasRow
  <2>. QED
    BY <2>1, <2>2
<1>. QED
  BY <1>2, <1>3 DEF MatchInv

LEMMA InitContent == Init => MatchInv
<1> SUFFICES ASSUME Init PROVE MatchInv
  OBVIOUS
<1>1. \A p \in Actor : Matches(req[p])
  BY IdlePaces DEF Init, Matches, WopiSteps, Saving
<1>. QED
  BY <1>1, InitHistory DEF Init, MatchInv, BytesMatchRow, KeysBehind, HasRow

LEMMA ContentStep ==
    ASSUME KeepLastN = 0, "wopi" \notin Handlers, MatchInv, [Next]_vars
    PROVE  MatchInv'
<1>0. HistInv'
  BY HistoryStep DEF MatchInv
<1>1. ASSUME NEW p \in Proc, HttpStep(p) PROVE MatchInv'
  <2>0. p \in Actor
    BY DEF Actor
  <2>1. /\ \A f \in File : ~WopiBegin(p, f)
        /\ \A b \in Body : ~WopiPut(p, b)
        /\ ~WopiClaim(p) /\ ~WopiPromote(p)
    BY <2>0 DEF WopiBegin, WopiPut, WopiClaim, WopiPromote, At, MatchInv, Matches,
                WopiSteps
  <2>2. CASE \E f \in File : VersionBegin(p, f) \/ HardDelete(p, f)
    BY <1>0, <2>0, <2>2, BeginContent, PurgeContent DEF VersionBegin, HardDelete
  <2>. QED
    BY <1>0, <1>1, <2>0, <2>1, <2>2, UploadContent, InsertContent, ClaimContent,
       PutContent, PromoteContent, PatchContent
       DEF HttpStep
<1>2. ASSUME NEW w \in Worker, RotationStep(w) PROVE MatchInv'
  <2>1. w \in Actor
    BY DEF Actor
  <2>2. ~PruneObject(w) /\ ~PruneRow(w)
    BY <2>1 DEF PruneObject, PruneRow, At, MatchInv, HistInv, BytesInv, Holds
  <2>3. \A f \in File : ~PruneBegin(w, f)
    BY ONLY KeepLastN = 0, SMT DEF PruneBegin
  <2>4. PICK f \in File : Expire(w, f)
    BY <1>2, <2>2, <2>3 DEF RotationStep
  <2>. QED
    BY <1>0, <2>1, <2>4, PurgeContent DEF Expire
<1>3. ASSUME NEW p \in Actor, PurgeStep(p) \/ Fail(p) PROVE MatchInv'
  BY <1>0, <1>3, PurgeContent
<1>. QED
  BY <1>0, <1>1, <1>2, <1>3, FileStepContent, EncryptionContent DEF Next

\* Without WOPI saves and without pruning, what a download reads is what was
\* saved: the bytes under the key of a row or of an archived version are the
\* ones its etag names, in the form its encrypted flag says, however many
\* uploads, saves, moves, deletes, purges and restarts overlap and wherever
\* each of them stops; only a file whose bytes a PATCH moved is excepted.
THEOREM ServesWhatWasSaved ==
    ASSUME KeepLastN = 0, "wopi" \notin Handlers
    PROVE  Spec => []BytesMatchRow
<1>1. MatchInv /\ [Next]_vars => MatchInv'
  BY ContentStep
<1>2. MatchInv => BytesMatchRow
  BY DEF MatchInv
<1>. QED
  BY <1>1, <1>2, InitContent, PTL DEF Spec

-----------------------------------------------------------------------------
(* Pruning: whatever the value of keep_last_n_versions and however many     *)
(* saves, moves, purges and workers interleave, the newest versions of a    *)
(* file stay in the archive, and keep their bytes.                          *)
-----------------------------------------------------------------------------
(* A version row may go once KeepLastN - 1 newer ones are in the archive.   *)
(* Once true of a version number this stays true: rows are added, and a row *)
(* is only removed when it has as many newer ones itself.                   *)

Above(S, f, v) == {q \in S : q.file = f /\ q.version > v}

Enough(S, f, v) == Cardinality(Above(S, f, v)) + 1 >= KeepLastN

LEMMA AboveFinite ==
    ASSUME NEW S, IsFiniteSet(S), NEW f, NEW v
    PROVE  IsFiniteSet(Above(S, f, v)) /\ Cardinality(Above(S, f, v)) \in Nat
<1>1. Above(S, f, v) \subseteq S
  BY DEF Above
<1>. QED
  BY <1>1, FS_Subset, FS_CardinalityType

LEMMA MoreIsEnough ==
    ASSUME NEW S, NEW T, IsFiniteSet(T), NEW f, NEW v, NEW w,
           IsFiniteSet(S), Enough(S, f, v), Above(S, f, v) \subseteq Above(T, f, w)
    PROVE  Enough(T, f, w)
<1>1. /\ IsFiniteSet(Above(T, f, w)) /\ Cardinality(Above(T, f, w)) \in Nat
      /\ Cardinality(Above(S, f, v)) \in Nat
  BY AboveFinite
<1>2. Cardinality(Above(S, f, v)) <= Cardinality(Above(T, f, w))
  BY <1>1, FS_Subset
<1>. QED
  BY <1>1, <1>2, ConstantsAssumption DEF Enough

\* Removing a row that may go takes nothing from what may go already.
LEMMA DropIsEnough ==
    ASSUME NEW S, IsFiniteSet(S), \A q \in S : q.version \in Nat,
           NEW r \in S, Enough(S, r.file, r.version),
           NEW f, NEW v \in Nat, Enough(S, f, v)
    PROVE  Enough(S \ {r}, f, v)
<1>0. IsFiniteSet(S \ {r})
  BY FS_RemoveElement
<1>1. CASE r \in Above(S, f, v)
  <2>1. Above(S, f, r.version) \subseteq Above(S \ {r}, f, v)
    BY <1>1 DEF Above
  <2>2. r.file = f
    BY <1>1 DEF Above
  <2>. QED
    BY <1>0, <2>1, <2>2, MoreIsEnough
<1>2. CASE r \notin Above(S, f, v)
  <2>1. Above(S, f, v) \subseteq Above(S \ {r}, f, v)
    BY <1>2 DEF Above
  <2>. QED
    BY <1>0, <2>1, MoreIsEnough
<1>. QED
  BY <1>1, <1>2

-----------------------------------------------------------------------------
(* A key carries the number of its version, so that the object a prune      *)
(* removes is the one of the version it prunes.  Every key a row, a version *)
(* row or a save names has its object, or has enough newer versions above   *)
(* it: KeptHistoryHasBytes, said of all who name a key.                     *)

Pruning == {"prune.object", "prune.row"}

Numbered(k, v) == k.ver = IF v = 1 THEN 0 ELSE v

Kept(f, k, v) ==
    f \notin rekeyed =>
        Numbered(k, v) /\ (k \in DOMAIN store \/ Enough(versions, f, v))

\* What a request knows of the file it works on.
Knows(r) ==
    /\ r.pc \notin {"idle", "upload.insert"} => life[r.file] \in {"row", "gone"}
    /\ r.pc = "upload.insert" =>
          /\ life[r.file] = "minted"
          /\ r.snap.version = 1 /\ r.snap.key.ver = 0 /\ r.snap.key \in DOMAIN store
    /\ r.pc \in UsesSnap => r.snap.key.file = r.file
    /\ r.pc \in UsesKey => r.key.file = r.file
    /\ \A x \in r.todo : x.file = r.file /\ x.key.file = r.file
    /\ r.pc = "patch.unlink" => r.file \in rekeyed
    /\ r.pc = "purge.unlink" => life[r.file] = "gone"
    /\ life[r.file] = "row" =>
          /\ r.pc \in Saving => Kept(r.file, r.snap.key, r.snap.version)
          /\ r.pc \in HasBody => Kept(r.file, r.key, r.snap.version + 1)
          /\ r.pc \in Pruning =>
                \A x \in r.todo : /\ Enough(versions, r.file, x.version)
                                  /\ r.file \notin rekeyed => Numbered(x.key, x.version)

RowsKept == \A f \in File : HasRow(f) => Kept(f, row[f].key, row[f].version)

VersionsKept == \A r \in versions : Kept(r.file, r.key, r.version)

KeptInv ==
    /\ TypeInv
    /\ OwnKeys
    /\ OneUpload
    /\ NoOrphans
    /\ IsFiniteSet(versions)
    /\ RowsKept
    /\ VersionsKept
    /\ \A p \in Actor : Knows(req[p])

\* What every step but an upload's INSERT may do to what others rely on.
Steady ==
    /\ \A f \in File : \/ life'[f] = life[f]
                       \/ life[f] = "unborn" /\ life'[f] = "minted"
                       \/ life[f] \in {"row", "gone"} /\ life'[f] = "gone"
    /\ rekeyed \subseteq rekeyed'
    /\ \A f \in File, v \in Nat :
          life'[f] = "row" /\ Enough(versions, f, v) => Enough(versions', f, v)
    /\ \A k \in DOMAIN store \ DOMAIN store' :
          \/ life[k.file] = "gone"
          \/ /\ life[k.file] = "row"
             /\ \/ k.file \in rekeyed'
                \/ \E v \in Nat \ {0} : Numbered(k, v) /\ Enough(versions, k.file, v)

LEMMA KeptFrame ==
    ASSUME Steady, NEW f \in File, NEW k \in Key, NEW v \in Nat \ {0},
           k.file = f, life'[f] = "row", Kept(f, k, v)
    PROVE  Kept(f, k, v)'
<1>. SUFFICES ASSUME f \notin rekeyed'
              PROVE  /\ Numbered(k, v)
                     /\ k \in DOMAIN store' \/ Enough(versions', f, v)
  BY DEF Kept, Enough, Above
<1>1. life[f] = "row" /\ f \notin rekeyed
  BY DEF Steady
<1>2. Numbered(k, v) /\ (k \in DOMAIN store \/ Enough(versions, f, v))
  BY <1>1 DEF Kept
<1>3. CASE Enough(versions, f, v)
  BY <1>2, <1>3 DEF Steady
<1>4. CASE k \in DOMAIN store \ DOMAIN store'
  <2>1. PICK w \in Nat \ {0} : Numbered(k, w) /\ Enough(versions, f, w)
    BY <1>1, <1>4 DEF Steady
  <2>2. w = v
    BY <1>2, <2>1 DEF Numbered
  <2>. QED
    BY <1>2, <2>1, <2>2 DEF Steady
<1>. QED
  BY <1>2, <1>3, <1>4

\* What the type invariant and KeptInv say of one request.
LEMMA KnowsTypes ==
    ASSUME KeptInv, NEW p \in Actor
    PROVE  /\ req[p] \in Request /\ req[p].file \in File
           /\ req[p].key \in Key /\ req[p].snap.key \in Key
           /\ req[p].snap.version \in Nat \ {0} /\ req[p].snap \in Row
           /\ req[p].todo \subseteq VersionRow
           /\ Knows(req[p])
<1>1. TypeInv /\ Knows(req[p])
  BY DEF KeptInv
<1>2. req[p] \in Request
  BY <1>1 DEF TypeInv, TypeOK
<1>. QED
  BY <1>1, <1>2, RequestTypes, VersionTypes

LEMMA KnowsFrame ==
    ASSUME Steady, NEW r \in Request, Knows(r)
    PROVE  Knows(r)'
<1>0. /\ r.file \in File /\ r.key \in Key /\ r.snap.key \in Key
      /\ r.snap.version \in Nat \ {0} /\ r.snap.version + 1 \in Nat \ {0}
      /\ \A x \in r.todo : x.version \in Nat
  BY DEF Request, Row, VersionRow
<1>1. life'[r.file] = "row" => life[r.file] = "row"
  BY <1>0 DEF Steady
<1>2. life'[r.file] = "row" =>
        /\ r.pc \in Saving => Kept(r.file, r.snap.key, r.snap.version)'
        /\ r.pc \in HasBody => Kept(r.file, r.key, r.snap.version + 1)'
        /\ r.pc \in Pruning =>
              \A x \in r.todo : /\ Enough(versions', r.file, x.version)
                                /\ r.file \notin rekeyed' => Numbered(x.key, x.version)
  <2> SUFFICES ASSUME life'[r.file] = "row"
               PROVE  /\ r.pc \in Saving => Kept(r.file, r.snap.key, r.snap.version)'
                      /\ r.pc \in HasBody => Kept(r.file, r.key, r.snap.version + 1)'
                      /\ r.pc \in Pruning =>
                            \A x \in r.todo :
                               /\ Enough(versions', r.file, x.version)
                               /\ r.file \notin rekeyed' => Numbered(x.key, x.version)
    OBVIOUS
  <2>1. CASE r.pc \in Saving
    <3>1. r.snap.key.file = r.file /\ Kept(r.file, r.snap.key, r.snap.version)
      BY <1>1, <2>1 DEF Knows, UsesSnap
    <3>2. Kept(r.file, r.snap.key, r.snap.version)'
      BY <1>0, <3>1, KeptFrame
    <3>3. CASE r.pc \in HasBody
      <4>1. r.key.file = r.file /\ Kept(r.file, r.key, r.snap.version + 1)
        BY <1>1, <3>3 DEF Knows, UsesKey
      <4>. QED
        BY <1>0, <2>1, <3>2, <4>1, KeptFrame DEF Saving, Pruning
    <3>. QED
      BY <2>1, <3>2, <3>3 DEF Saving, Pruning
  <2>2. CASE r.pc \in Pruning
    BY <1>0, <1>1, <2>2 DEF Knows, Steady, Pruning, Saving, HasBody
  <2>. QED
    BY <2>1, <2>2 DEF Saving, HasBody
<1>3. r.pc = "upload.insert" => life'[r.file] = "minted" /\ r.snap.key \in DOMAIN store'
  BY <1>0 DEF Knows, Steady, UsesSnap
<1>4. r.pc \notin {"idle", "upload.insert"} => life'[r.file] \in {"row", "gone"}
  BY <1>0 DEF Knows, Steady
<1>5. r.pc = "purge.unlink" => life'[r.file] = "gone"
  BY <1>0 DEF Knows, Steady
<1>6. r.pc = "patch.unlink" => r.file \in rekeyed'
  BY DEF Knows, Steady
<1>. QED
  BY <1>2, <1>3, <1>4, <1>5, <1>6 DEF Knows, Enough, Above

LEMMA IdleKnows ==
    ASSUME NEW r, r.pc = "idle", r.todo = {}
    PROVE  Knows(r)'
BY DEF Knows, UsesSnap, UsesKey, HasBody, Saving, Pruning

\* A steady step of p, whose new request knows what it must, preserves KeptInv.
LEMMA KeptStep ==
    ASSUME KeptInv, TypeInv', OwnKeys', NoOrphans', IsFiniteSet(versions'), Steady,
           NEW p \in Actor, NEW r, Knows(r)', req' = [req EXCEPT ![p] = r],
           r.pc = "upload.insert" => life[r.file] = "unborn",
           \A f \in File : HasRow(f)' =>
               \/ row'[f].key = row[f].key /\ row'[f].version = row[f].version
               \/ Kept(f, row[f].key, row[f].version)',
           \A x \in versions' : x \in versions \/ Kept(x.file, x.key, x.version)'
    PROVE  KeptInv'
<1>1. req'[p] = r /\ \A q \in Actor \ {p} : req'[q] = req[q]
  BY DEF KeptInv, TypeInv, TypeOK
<1>2. ASSUME NEW q \in Actor PROVE Knows(req[q])'
  <2>1. CASE q = p
    BY <1>1, <2>1 DEF Knows, Kept
  <2>2. CASE q # p
    <3>1. req'[q] = req[q] /\ req[q] \in Request /\ Knows(req[q])
      BY <1>1, <2>2, KnowsTypes
    <3>2. \A x \in Request : Knows(x) => Knows(x)'
      BY KnowsFrame
    <3>. QED
      BY <3>1, <3>2 DEF Knows, Kept
  <2>. QED
    BY <2>1, <2>2
<1>3. OneUpload'
  <2>1. ASSUME NEW q \in Actor \ {p}, At(q, "upload.insert")
        PROVE  life[req[q].file] = "minted"
    BY <2>1, KnowsTypes DEF At, Knows
  <2>. QED
    BY <1>1, <2>1 DEF OneUpload, At, KeptInv
<1>4. RowsKept'
  <2>1. ASSUME NEW f \in File, HasRow(f)'
        PROVE  Kept(f, row[f].key, row[f].version)'
    <3>1. HasRow(f) /\ life'[f] = "row"
      BY <2>1 DEF Steady, HasRow
    <3>2. /\ row[f].key \in Key /\ row[f].version \in Nat \ {0}
          /\ row[f].key.file = f /\ Kept(f, row[f].key, row[f].version)
      BY <3>1, VersionTypes DEF KeptInv, RowsKept, OwnKeys, TypeInv, TypeOK, Row
    <3>3. PICK k \in Key, v \in Nat \ {0} : k = row[f].key /\ v = row[f].version
      BY <3>2
    <3>4. Kept(f, k, v)'
      BY <3>1, <3>2, <3>3, KeptFrame
    <3>5. CASE row'[f].key = k /\ row'[f].version = v
      BY <3>4, <3>5 DEF Kept
    <3>. QED
      BY <2>1, <3>3, <3>5
  <2>. QED
    BY <2>1 DEF RowsKept, Kept
<1>5. VersionsKept'
  <2>1. ASSUME NEW x \in versions', x \in versions
        PROVE  Kept(x.file, x.key, x.version)'
    <3>1. x \in VersionRow /\ x.key.file = x.file /\ Kept(x.file, x.key, x.version)
      BY <2>1 DEF KeptInv, TypeInv, TypeOK, VersionsKept, OwnKeys
    <3>2. x.file \in File /\ x.key \in Key /\ x.version \in Nat \ {0}
      BY <3>1 DEF VersionRow
    <3>3. life'[x.file] = "row"
      BY <2>1 DEF NoOrphans, HasRow
    <3>. QED
      BY <3>1, <3>2, <3>3, KeptFrame
  <2>. QED
    BY <2>1 DEF VersionsKept, Kept
<1>. QED
  BY <1>2, <1>3, <1>4, <1>5 DEF KeptInv

\* A step that changes no life, version row, nor any row's key or version, and
\* removes no object.
LEMMA CalmIsSteady ==
    ASSUME KeptInv, UNCHANGED <<life, versions>>, DOMAIN store \subseteq DOMAIN store',
           rekeyed \subseteq rekeyed'
    PROVE  Steady /\ NoOrphans' /\ IsFiniteSet(versions')
BY DEF Steady, NoOrphans, HasRow, KeptInv

LEMMA UploadKeeps ==
    ASSUME KeptInv, TypeInv', NEW p \in Actor, NEW f \in File, NEW s \in Sys,
           NEW n \in Name, NEW b \in Body, Upload(p, f, s, n, b)
    PROVE  KeptInv'
<1> DEFINE snap == [name |-> n, sys |-> s, key |-> PlainKey(f, s, n),
                    version |-> 1, etag |-> b, enc |-> cipher, trash |-> "live"]
<1>1. PICK r : r = [Idle EXCEPT !.pc = "upload.insert", !.file = f, !.snap = snap]
  OBVIOUS
<1>2. DOMAIN store' = DOMAIN store \cup {PlainKey(f, s, n)}
  BY PutKeeps DEF Upload
<1>3. Steady /\ NoOrphans' /\ IsFiniteSet(versions') /\ OwnKeys'
  BY <1>2 DEF Upload, Steady, NoOrphans, OwnKeys, HasRow, KeptInv, TypeInv, TypeOK,
              VersionRow
<1>4. Knows(r)'
  BY <1>1, <1>2 DEF Upload, Knows, Idle, PlainKey, UsesSnap, UsesKey, HasBody, Saving,
                    Pruning, KeptInv, TypeInv, TypeOK
<1>. QED
  BY <1>1, <1>3, <1>4, KeptStep DEF Upload, Start, Idle

LEMMA InsertKeeps ==
    ASSUME KeptInv, TypeInv', NEW p \in Actor, UploadInsert(p)
    PROVE  KeptInv'
<1>0. PICK f \in File, r \in Row : f = req[p].file /\ r = req[p].snap
  BY KnowsTypes
<1>1. /\ life[f] = "minted" /\ life'[f] = "row" /\ row'[f] = r
      /\ UNCHANGED <<versions, store, rekeyed>>
      /\ \A g \in File \ {f} : life'[g] = life[g] /\ row'[g] = row[g]
      /\ \A q \in Actor \ {p} : req'[q] = req[q]
      /\ req'[p] = Idle
  BY <1>0, KnowsTypes DEF UploadInsert, Finish, At, Knows, KeptInv, TypeInv, TypeOK
<1>2. /\ r.version = 1 /\ r.key.ver = 0 /\ r.key \in DOMAIN store
      /\ r.key.file = f
  BY <1>0, KnowsTypes DEF UploadInsert, At, Knows, UsesSnap
<1>3. ASSUME NEW q \in Actor PROVE Knows(req[q])'
  <2>1. CASE q = p
    BY <1>1, <2>1 DEF Knows, Idle, UsesSnap, UsesKey, HasBody, Saving, Pruning
  <2>2. CASE q # p
    <3>1. req'[q] = req[q] /\ req[q].file \in File /\ Knows(req[q])
      BY <1>1, <2>2, KnowsTypes
    <3>2. CASE req[q].file = f
      <4>1. req[q].pc = "idle"
        BY <1>0, <1>1, <2>2, <3>1, <3>2
           DEF UploadInsert, At, KeptInv, OneUpload, Knows
      <4>. QED
        BY <3>1, <4>1 DEF Knows, UsesSnap, UsesKey, HasBody, Saving, Pruning
    <3>3. CASE req[q].file # f
      BY <1>1, <3>1, <3>3 DEF Knows, Kept
    <3>. QED
      BY <3>2, <3>3
  <2>. QED
    BY <2>1, <2>2
<1>4. OneUpload'
  BY <1>1 DEF OneUpload, At, Idle, KeptInv
<1>5. OwnKeys'
  BY <1>1, <1>2 DEF OwnKeys, HasRow, KeptInv
<1>6. RowsKept'
  BY <1>1, <1>2 DEF RowsKept, HasRow, Kept, Numbered, KeptInv
<1>7. VersionsKept' /\ NoOrphans' /\ IsFiniteSet(versions)'
  BY <1>1 DEF VersionsKept, NoOrphans, HasRow, Kept, KeptInv, TypeInv, TypeOK,
              VersionRow
<1>. QED
  BY <1>3, <1>4, <1>5, <1>6, <1>7 DEF KeptInv

LEMMA BeginKeeps ==
    ASSUME KeptInv, TypeInv', NEW p \in Actor, NEW f \in File,
           NEW pc \in {"version.claim", "wopi.put"}, BeginSave(p, f, pc)
    PROVE  KeptInv'
<1>1. PICK r : r = [Idle EXCEPT !.pc = pc, !.file = f, !.snap = row[f]]
  OBVIOUS
<1>2. /\ UNCHANGED <<life, row, versions, store, rekeyed>> /\ HasRow(f)
      /\ r.pc = pc /\ r.file = f /\ r.snap = row[f] /\ r.todo = {}
  BY <1>1 DEF BeginSave, Live, Idle
<1>3. Steady /\ NoOrphans' /\ IsFiniteSet(versions') /\ OwnKeys'
  BY <1>2, CalmIsSteady DEF KeptInv, OwnKeys, HasRow
<1>4. row[f].key.file = f /\ Kept(f, row[f].key, row[f].version)'
  BY <1>2 DEF KeptInv, RowsKept, OwnKeys, Kept
<1>5. Knows(r)'
  BY <1>2, <1>4 DEF Knows, Kept, HasRow, UsesSnap, UsesKey, HasBody, Saving, Pruning
<1>. QED
  BY <1>1, <1>2, <1>3, <1>5, KeptStep DEF BeginSave, Start

LEMMA ArchiveKeeps ==
    ASSUME KeptInv, TypeInv', NEW p \in Actor, NEW etag, NEW pc,
           \/ At(p, "version.claim") /\ pc = "version.put"
           \/ At(p, "wopi.claim") /\ pc = "wopi.promote",
           Archive(p, etag, pc)
    PROVE  KeptInv'
<1>0. PICK f \in File, k \in Key, v \in Nat \ {0} :
        f = req[p].file /\ k = req[p].snap.key /\ v = req[p].snap.version
  BY KnowsTypes
<1> DEFINE new == [file |-> f, version |-> v, key |-> k, etag |-> etag]
<1>1. PICK r : r = [req[p] EXCEPT !.pc = pc]
  OBVIOUS
<1>2. /\ UNCHANGED <<life, row, store, rekeyed>> /\ HasRow(f)
      /\ versions' = versions \cup {new}
      /\ req' = [req EXCEPT ![p] = r]
      /\ r.pc = pc /\ r.file = f /\ r.snap = req[p].snap /\ r.key = req[p].key
      /\ r.todo = req[p].todo /\ r \in Request
  BY <1>0, <1>1, KnowsTypes DEF Archive, CanArchive, Goto, At, Request, Control
<1>3. IsFiniteSet(versions) /\ IsFiniteSet(versions')
  BY <1>2, FS_AddElement DEF KeptInv
<1>4. k.file = f /\ Kept(f, k, v)
  BY <1>0, <1>2, KnowsTypes DEF Knows, At, UsesSnap, Saving, HasRow
<1>5. Steady
  <2>1. ASSUME NEW g \in File, NEW w \in Nat, Enough(versions, g, w)
        PROVE  Enough(versions', g, w)
    <3>1. Above(versions, g, w) \subseteq Above(versions', g, w)
      BY <1>2 DEF Above
    <3>. QED
      BY <1>3, <2>1, <3>1, MoreIsEnough
  <2>. QED
    BY <1>2, <2>1 DEF Steady
<1>6. OwnKeys' /\ NoOrphans'
  <2>1. new.file = f /\ new.key = k
    OBVIOUS
  <2> HIDE DEF new
  <2>. QED
    BY <1>2, <1>4, <2>1 DEF OwnKeys, NoOrphans, HasRow, KeptInv
<1>7. Knows(r)'
  <2>1. Knows(req[p])
    BY KnowsTypes
  <2>2. Knows(r)
    BY <1>1, <1>2, <2>1
       DEF Knows, At, HasRow, UsesSnap, UsesKey, HasBody, Saving, Pruning
  <2>. QED
    BY <1>2, <1>5, <2>2, KnowsFrame
<1>8. Kept(f, k, v)'
  BY <1>2, <1>4, <1>5, KeptFrame DEF HasRow
<1>9. \A x \in versions' : x \in versions \/ Kept(x.file, x.key, x.version)'
  <2>1. new.file = f /\ new.key = k /\ new.version = v
    OBVIOUS
  <2> HIDE DEF new
  <2>. QED
    BY <1>2, <1>8, <2>1 DEF Kept
<1>. QED
  BY <1>1, <1>2, <1>3, <1>5, <1>6, <1>7, <1>9, KeptStep

\* The new object is the one of the version to come.
LEMMA PutVersionKeeps ==
    ASSUME KeptInv, TypeInv', NEW p \in Actor, NEW n, NEW b, NEW pc,
           \/ At(p, "version.put") /\ pc = "version.promote"
           \/ At(p, "wopi.put") /\ pc = "wopi.claim",
           PutVersion(p, n, b, pc)
    PROVE  KeptInv'
<1>0. PICK f \in File, v \in Nat \ {0} : f = req[p].file /\ v = req[p].snap.version
  BY KnowsTypes
<1>1. PICK k, r :
        /\ k = VersionKey(f, req[p].snap.sys, v + 1, n)
        /\ r = [req[p] EXCEPT !.pc = pc, !.key = k, !.body = b]
  OBVIOUS
<1>2. /\ UNCHANGED <<life, row, versions, rekeyed>>
      /\ DOMAIN store' = DOMAIN store \cup {k}
      /\ req' = [req EXCEPT ![p] = r]
      /\ At(p, "version.put") \/ At(p, "wopi.put")
      /\ r.pc = pc /\ r.file = f /\ r.snap = req[p].snap /\ r.key = k
      /\ r.todo = req[p].todo
  BY <1>0, <1>1, KnowsTypes, PutKeeps DEF PutVersion, Request
<1>3. Steady /\ NoOrphans' /\ IsFiniteSet(versions') /\ OwnKeys'
  BY <1>2, CalmIsSteady DEF KeptInv, OwnKeys, HasRow
<1>4. k.file = f /\ Numbered(k, v + 1)
  BY <1>1 DEF VersionKey, Numbered
<1>5. Kept(f, k, v + 1)'
  BY <1>2, <1>4 DEF Kept
<1>6. Knows(r)'
  <2>1. PICK old \in Request : old = req[p] /\ Knows(old)
    BY KnowsTypes
  <2>2. Knows(old)'
    BY <1>3, <2>1, KnowsFrame
  <2>. QED
    BY <1>0, <1>2, <1>4, <1>5, <2>1, <2>2
       DEF Knows, At, HasRow, UsesSnap, UsesKey, HasBody, Saving, Pruning
<1>7. r.pc # "upload.insert"
  BY <1>2
<1>. QED
  BY <1>2, <1>3, <1>6, <1>7, KeptStep

LEMMA PromoteKeeps ==
    ASSUME KeptInv, TypeInv', NEW p \in Actor, NEW enc,
           At(p, "version.promote") \/ At(p, "wopi.promote"), Promote(p, enc)
    PROVE  KeptInv'
<1>0. PICK f \in File, k \in Key, v \in Nat \ {0} :
        f = req[p].file /\ k = req[p].key /\ v = req[p].snap.version
  BY KnowsTypes
<1>1. /\ UNCHANGED <<life, versions, store, rekeyed>>
      /\ req' = [req EXCEPT ![p] = Idle]
      /\ \A g \in File \ {f} : row'[g] = row[g]
      /\ ~HasRow(f) => row' = row
      /\ HasRow(f) => row'[f].version = v + 1 /\ row'[f].key = k
  BY <1>0 DEF Promote, Finish, KeptInv, TypeInv, TypeOK, Row
<1>2. Steady /\ NoOrphans' /\ IsFiniteSet(versions')
  BY <1>1, CalmIsSteady
<1>3. HasRow(f) => k.file = f /\ Kept(f, k, v + 1)'
  BY <1>0, <1>1, KnowsTypes DEF Knows, At, HasRow, UsesKey, HasBody, Kept
<1>4. OwnKeys'
  BY <1>1, <1>3 DEF OwnKeys, HasRow, KeptInv
<1>5. ASSUME NEW g \in File, HasRow(g)'
      PROVE  \/ row'[g].key = row[g].key /\ row'[g].version = row[g].version
             \/ Kept(g, row[g].key, row[g].version)'
  <2>1. HasRow(g)
    BY <1>1, <1>5 DEF HasRow
  <2>2. CASE g = f
    BY <1>1, <1>3, <2>1, <2>2 DEF Kept
  <2>. QED
    BY <1>1, <2>2
<1>6. Knows(Idle)' /\ Idle.pc # "upload.insert"
  BY IdleKnows DEF Idle
<1>. QED
  BY <1>1, <1>2, <1>4, <1>5, <1>6, KeptStep

LEMMA PatchKeeps ==
    ASSUME KeptInv, TypeInv', NEW p \in Actor,
           \/ \E f \in File, s \in Sys, n \in Name : PatchBegin(p, f, s, n)
           \/ PatchGet(p) \/ PatchPut(p) \/ PatchUnlink(p) \/ PatchCommit(p)
    PROVE  KeptInv'
<1>0. PICK f \in File : f = req[p].file
  BY KnowsTypes
<1>1. ASSUME NEW g \in File, NEW s \in Sys, NEW n \in Name, PatchBegin(p, g, s, n)
      PROVE  KeptInv'
  <2>1. PICK r : r = req'[p]
    OBVIOUS
  <2>2. /\ UNCHANGED <<life, row, versions, store, rekeyed>> /\ HasRow(g)
        /\ req' = [req EXCEPT ![p] = r]
        /\ r.pc \in {"patch.get", "patch.commit"}
        /\ r.file = g /\ r.snap = row[g] /\ r.todo = {}
        /\ r.key = PlainKey(g, s, n) \/ r.key = row[g].key
    BY <1>1, <2>1 DEF PatchBegin, Start, Idle, Live, KeptInv, TypeInv, TypeOK
  <2>3. Steady /\ NoOrphans' /\ IsFiniteSet(versions') /\ OwnKeys'
    BY <2>2, CalmIsSteady DEF KeptInv, OwnKeys, HasRow
  <2>4. row[g].key.file = g /\ r.key.file = g
    BY <2>2 DEF KeptInv, OwnKeys, PlainKey
  <2>5. Knows(r)'
    BY <2>2, <2>4 DEF Knows, HasRow, UsesSnap, UsesKey, HasBody, Saving, Pruning
  <2>. QED
    BY <2>2, <2>3, <2>5, KeptStep
<1>2. ASSUME NEW r, Knows(r)', req' = [req EXCEPT ![p] = r], r.pc # "upload.insert",
             Steady, UNCHANGED <<life, versions>>,
             \A g \in File : /\ row'[g].version = row[g].version
                             /\ row'[g].key = row[g].key \/ g \in rekeyed'
                             /\ HasRow(g) => row'[g].key.file = g
      PROVE  KeptInv'
  <2>1. OwnKeys' /\ NoOrphans' /\ IsFiniteSet(versions')
    BY <1>2 DEF OwnKeys, NoOrphans, HasRow, KeptInv
  <2>2. \A g \in File : g \in rekeyed' => Kept(g, row[g].key, row[g].version)'
    BY DEF Kept
  <2>. QED
    BY <1>2, <2>1, <2>2, KeptStep
<1>3. ASSUME NEW r \in Request, r.file = f, r.snap = req[p].snap, r.key = req[p].key,
             r.todo = req[p].todo,
             \/ At(p, "patch.get") /\ r.pc \in {"patch.commit", "patch.put"}
             \/ At(p, "patch.put") /\ r.pc = "patch.unlink" /\ f \in rekeyed'
             \/ At(p, "patch.unlink") /\ r.pc = "patch.commit",
             Steady
      PROVE  Knows(r)'
  <2>1. PICK old \in Request : old = req[p] /\ Knows(old)
    BY KnowsTypes
  <2>2. Knows(old)'
    BY <1>3, <2>1, KnowsFrame
  <2>. QED
    BY <1>0, <1>3, <2>1, <2>2
       DEF Knows, At, UsesSnap, UsesKey, HasBody, Saving, Pruning
<1>4. \A g \in File : HasRow(g) => row[g].key.file = g
  BY DEF KeptInv, OwnKeys
<1>5. CASE PatchGet(p)
  <2>1. Steady
    BY <1>5, CalmIsSteady DEF PatchGet
  <2>2. PICK r \in Request : r = req'[p]
    BY DEF TypeInv, TypeOK
  <2>3. /\ req' = [req EXCEPT ![p] = r]
        /\ r.pc \in {"patch.commit", "patch.put"}
        /\ r.file = f /\ r.snap = req[p].snap /\ r.key = req[p].key
        /\ r.todo = req[p].todo
    BY <1>0, <1>5, <2>2, KnowsTypes
       DEF PatchGet, Goto, KeptInv, TypeInv, TypeOK, Request
  <2>4. Knows(r)'
    BY <1>3, <1>5, <2>1, <2>3 DEF PatchGet
  <2>. QED
    BY <1>2, <1>4, <1>5, <2>1, <2>3, <2>4 DEF PatchGet
<1>6. CASE PatchPut(p) \/ PatchUnlink(p)
  <2>1. PICK r \in Request : r = req'[p]
    BY DEF TypeInv, TypeOK
  <2>2. /\ req' = [req EXCEPT ![p] = r]
        /\ \/ At(p, "patch.put") /\ r.pc = "patch.unlink" /\ f \in rekeyed'
           \/ At(p, "patch.unlink") /\ r.pc = "patch.commit"
        /\ r.file = f /\ r.snap = req[p].snap /\ r.key = req[p].key
        /\ r.todo = req[p].todo
        /\ UNCHANGED <<life, row, versions>>
    BY <1>0, <1>6, <2>1, KnowsTypes
       DEF PatchPut, PatchUnlink, Goto, KeptInv, TypeInv, TypeOK, Request
  <2>3. Steady
    <3>1. CASE PatchPut(p)
      BY <3>1, PutKeeps, CalmIsSteady DEF PatchPut
    <3>2. CASE PatchUnlink(p)
      <4>1. req[p].snap.key.file = f /\ life[f] \in {"row", "gone"} /\ f \in rekeyed
        BY <1>0, <3>2, KnowsTypes DEF PatchUnlink, At, Knows, UsesSnap
      <4>. QED
        BY <3>2, <4>1, UnlinkOnly DEF PatchUnlink, Steady
    <3>. QED
      BY <1>6, <3>1, <3>2
  <2>4. Knows(r)'
    BY <1>3, <2>2, <2>3
  <2>. QED
    BY <1>2, <1>4, <2>2, <2>3, <2>4
<1>7. CASE PatchCommit(p)
  <2>1. Steady
    BY <1>7, CalmIsSteady DEF PatchCommit
  <2>2. req[p].key.file = f
    BY <1>0, <1>7, KnowsTypes DEF PatchCommit, At, Knows, UsesKey
  <2>3. \A g \in File : /\ row'[g].version = row[g].version
                        /\ row'[g].key = row[g].key \/ g \in rekeyed'
                        /\ HasRow(g) => row'[g].key.file = g
    <3>1. row \in [File -> Row]
      BY DEF KeptInv, TypeInv, TypeOK
    <3>2. /\ \A g \in File \ {f} : row'[g] = row[g]
          /\ row'[f].version = row[f].version
          /\ row'[f].key = row[f].key \/ row'[f].key = req[p].key
      BY <1>0, <1>7, <3>1 DEF PatchCommit, Row
    <3>3. row'[f].key = row[f].key \/ f \in rekeyed'
      BY <1>0, <1>7, <3>1 DEF PatchCommit, Row
    <3>. QED
      BY <1>0, <1>4, <2>2, <3>2, <3>3
  <2>4. Knows(Idle)' /\ Idle.pc # "upload.insert"
    BY IdleKnows DEF Idle
  <2>. QED
    BY <1>2, <1>7, <2>1, <2>3, <2>4 DEF PatchCommit, Finish
<1>. QED
  BY <1>1, <1>5, <1>6, <1>7

LEMMA PurgeKeeps ==
    ASSUME KeptInv, TypeInv', NEW p \in Actor,
           \/ \E f \in File : HasRow(f) /\ BeginPurge(p, f)
           \/ PurgeStep(p)
    PROVE  KeptInv'
<1>0. PICK f \in File : f = req[p].file
  BY KnowsTypes
<1>1. ASSUME NEW g \in File, HasRow(g), BeginPurge(p, g)
      PROVE  KeptInv'
  <2>1. PICK r : r = [Idle EXCEPT !.pc = "purge.keys", !.file = g, !.key = row[g].key]
    OBVIOUS
  <2>2. Steady /\ NoOrphans' /\ IsFiniteSet(versions') /\ OwnKeys'
    BY <1>1, CalmIsSteady DEF BeginPurge, KeptInv, OwnKeys, HasRow
  <2>3. Knows(r)'
    BY <1>1, <2>1 DEF BeginPurge, Knows, HasRow, Idle, UsesSnap, UsesKey, HasBody,
                      Saving, Pruning, KeptInv, OwnKeys
  <2>. QED
    BY <1>1, <2>1, <2>2, <2>3, KeptStep DEF BeginPurge, Start, Idle
<1>2. CASE PurgeKeys(p)
  <2>1. PICK r : r = [req[p] EXCEPT !.pc = "purge.row", !.todo = HistoryOf(f)]
    OBVIOUS
  <2>2. /\ r.pc = "purge.row" /\ r.file = f /\ r.key = req[p].key
        /\ r.todo = HistoryOf(f) /\ req' = [req EXCEPT ![p] = r]
    BY <1>0, <1>2, <2>1, KnowsTypes DEF PurgeKeys, Request
  <2>3. Steady /\ NoOrphans' /\ IsFiniteSet(versions') /\ OwnKeys'
    BY <1>2, CalmIsSteady DEF PurgeKeys, KeptInv, OwnKeys, HasRow
  <2>4. Knows(r)'
    BY <1>0, <1>2, <2>2, KnowsTypes
       DEF PurgeKeys, At, HistoryOf, Knows, UsesSnap, UsesKey, HasBody, Saving, Pruning,
           KeptInv, OwnKeys
  <2>. QED
    BY <1>2, <2>2, <2>3, <2>4, KeptStep DEF PurgeKeys
<1>3. CASE PurgeRow(p)
  <2>1. PICK r : r = [req[p] EXCEPT !.pc = "purge.unlink"]
    OBVIOUS
  <2>2. /\ life[f] \in {"row", "gone"} /\ life'[f] = "gone"
        /\ \A g \in File \ {f} : life'[g] = life[g] /\ row'[g] = row[g]
        /\ versions' = {x \in versions : x.file # f}
        /\ UNCHANGED <<store, rekeyed>>
        /\ req' = [req EXCEPT ![p] = r]
        /\ r.pc = "purge.unlink" /\ r.file = f /\ r.key = req[p].key
        /\ r.todo = req[p].todo
    BY <1>0, <1>3, <2>1, KnowsTypes
       DEF PurgeRow, At, Goto, HistoryOf, Knows, KeptInv, TypeInv, TypeOK, Request
  <2>3. \A g \in File \ {f}, v \in Nat : Above(versions', g, v) = Above(versions, g, v)
    BY <2>2 DEF Above
  <2>4. Steady
    BY <2>2, <2>3 DEF Steady, Enough
  <2>5. IsFiniteSet(versions')
    BY <2>2, FS_Subset DEF KeptInv
  <2>6. NoOrphans' /\ OwnKeys'
    BY <2>2 DEF NoOrphans, OwnKeys, HasRow, KeptInv, TypeInv, TypeOK, VersionRow
  <2>7. Knows(r)'
    BY <1>0, <1>3, <2>2, KnowsTypes
       DEF PurgeRow, At, Knows, UsesSnap, UsesKey, HasBody, Saving, Pruning
  <2>8. \A g \in File : HasRow(g)' => row'[g] = row[g]
    BY <2>2 DEF HasRow
  <2>. QED
    BY <2>2, <2>4, <2>5, <2>6, <2>7, <2>8, KeptStep
<1>4. CASE PurgeUnlink(p)
  <2>1. /\ life[f] = "gone" /\ req[p].key.file = f
        /\ \A x \in req[p].todo : x.key.file = f
    BY <1>0, <1>4, KnowsTypes DEF PurgeUnlink, At, Knows, UsesKey
  <2>2. Steady
    BY <1>4, <2>1, UnlinkOnly DEF PurgeUnlink, Steady
  <2>3. NoOrphans' /\ IsFiniteSet(versions') /\ OwnKeys'
    BY <1>4 DEF PurgeUnlink, KeptInv, NoOrphans, OwnKeys, HasRow
  <2>4. Knows(Idle)' /\ Idle.pc # "upload.insert"
    BY IdleKnows DEF Idle
  <2>. QED
    BY <1>4, <2>2, <2>3, <2>4, KeptStep DEF PurgeUnlink, Finish
<1>. QED
  BY <1>1, <1>2, <1>3, <1>4 DEF PurgeStep

\* The versions a worker collects have enough newer ones when it looks.
LEMMA PruneBeginKeeps ==
    ASSUME KeptInv, TypeInv', NEW w \in Actor, NEW f \in File, PruneBegin(w, f)
    PROVE  KeptInv'
<1>1. PICK r : r = [Idle EXCEPT !.pc = "prune.object", !.file = f, !.todo = Prunable(f)]
  OBVIOUS
<1>2. /\ UNCHANGED <<life, row, versions, store, rekeyed>>
      /\ req' = [req EXCEPT ![w] = r]
      /\ r.pc = "prune.object" /\ r.file = f /\ r.todo = Prunable(f)
  BY <1>1 DEF PruneBegin, Start, Idle
<1>3. Steady /\ NoOrphans' /\ IsFiniteSet(versions') /\ OwnKeys'
  BY <1>2, CalmIsSteady DEF KeptInv, OwnKeys, HasRow
<1>4. HasRow(f)
  BY DEF PruneBegin, Prunable, HistoryOf, KeptInv, NoOrphans
<1>5. ASSUME NEW x \in r.todo
      PROVE  /\ x.file = f /\ x.key.file = f /\ Enough(versions, f, x.version)
             /\ f \notin rekeyed => Numbered(x.key, x.version)
  <2>1. /\ x \in versions /\ x.file = f
        /\ Cardinality(NewerThan(x)) + 1 >= KeepLastN
    BY <1>2, <1>5 DEF Prunable, HistoryOf
  <2>2. NewerThan(x) = Above(versions, f, x.version)
    BY <2>1 DEF NewerThan, Above
  <2>. QED
    BY <2>1, <2>2 DEF Enough, KeptInv, OwnKeys, VersionsKept, Kept
<1>6. Knows(r)'
  BY <1>2, <1>4, <1>5
     DEF Knows, HasRow, UsesSnap, UsesKey, HasBody, Saving, Pruning, Enough, Above
<1>. QED
  BY <1>2, <1>3, <1>6, KeptStep

LEMMA PruneObjectKeeps ==
    ASSUME KeptInv, TypeInv', NEW w \in Actor, PruneObject(w)
    PROVE  KeptInv'
<1>0. PICK f \in File : f = req[w].file
  BY KnowsTypes
<1>1. PICK r : r = [req[w] EXCEPT !.pc = "prune.row"]
  OBVIOUS
<1>2. /\ UNCHANGED <<life, row, versions, rekeyed>> /\ At(w, "prune.object")
      /\ req' = [req EXCEPT ![w] = r]
      /\ r.pc = "prune.row" /\ r.file = f /\ r.todo = req[w].todo
  BY <1>0, <1>1, KnowsTypes DEF PruneObject, Goto, Request
<1>3. PICK x \in req[w].todo : Unlink({x.key})
  BY DEF PruneObject
<1>4. /\ x.file = f /\ x.key.file = f /\ x.version \in Nat \ {0}
      /\ life[f] \in {"row", "gone"}
      /\ life[f] = "row" =>
            /\ Enough(versions, f, x.version)
            /\ f \notin rekeyed => Numbered(x.key, x.version)
  BY <1>0, <1>2, KnowsTypes DEF At, Knows, Pruning, VersionRow
<1>5. DOMAIN store \ DOMAIN store' \subseteq {x.key}
  BY <1>3, UnlinkOnly
<1>6. Steady
  BY <1>2, <1>4, <1>5 DEF Steady
<1>7. NoOrphans' /\ IsFiniteSet(versions') /\ OwnKeys'
  BY <1>2 DEF KeptInv, NoOrphans, OwnKeys, HasRow
<1>8. Knows(r)'
  <2>1. PICK old \in Request : old = req[w] /\ Knows(old)
    BY KnowsTypes
  <2>2. Knows(old)'
    BY <1>6, <2>1, KnowsFrame
  <2>. QED
    BY <1>0, <1>2, <2>1, <2>2
       DEF Knows, At, UsesSnap, UsesKey, HasBody, Saving, Pruning
<1>. QED
  BY <1>2, <1>6, <1>7, <1>8, KeptStep

\* The row a worker deletes still has enough newer ones: those counted when it
\* looked are there, or went because they had enough newer ones themselves.
LEMMA PrunedHasEnough ==
    ASSUME KeptInv, NEW w \in Actor, PruneRow(w)
    PROVE  \E x \in req[w].todo :
              /\ versions' = versions \ {x}
              /\ req'[w].todo \subseteq req[w].todo
              /\ \/ req'[w] = Idle
                 \/ /\ req'[w].pc = "prune.object" /\ req'[w].file = req[w].file
              /\ x \in versions => Enough(versions, x.file, x.version)
<1>1. PICK x \in req[w].todo :
        /\ At(w, "prune.row") /\ versions' = versions \ {x}
        /\ req' = [req EXCEPT ![w] =
                     IF req[w].todo = {x} THEN Idle
                     ELSE [req[w] EXCEPT !.pc = "prune.object",
                                         !.todo = req[w].todo \ {x}]]
  BY DEF PruneRow
<1>2. /\ req'[w].todo \subseteq req[w].todo
      /\ \/ req'[w] = Idle
         \/ req'[w].pc = "prune.object" /\ req'[w].file = req[w].file
  BY <1>1, KnowsTypes DEF Idle, Request, KeptInv, TypeInv, TypeOK
<1>3. ASSUME x \in versions
      PROVE  Enough(versions, x.file, x.version)
  <2>1. x.file = req[w].file /\ life[x.file] = "row"
    BY <1>1, <1>3, KnowsTypes DEF Knows, KeptInv, NoOrphans, HasRow
  <2>. QED
    BY <1>1, <2>1, KnowsTypes DEF Knows, At, Pruning
<1>. QED
  BY <1>1, <1>2, <1>3

LEMMA PruneRowKeeps ==
    ASSUME KeptInv, TypeInv', NEW w \in Actor, PruneRow(w)
    PROVE  KeptInv'
<1>0. PICK f, r : f \in File /\ f = req[w].file /\ r = req'[w]
  BY KnowsTypes
<1>1. PICK x \in req[w].todo :
        /\ versions' = versions \ {x}
        /\ r.todo \subseteq req[w].todo
        /\ r = Idle \/ (r.pc = "prune.object" /\ r.file = f)
        /\ x \in versions => Enough(versions, x.file, x.version)
  BY <1>0, PrunedHasEnough
<1>2. /\ UNCHANGED <<life, row, store, rekeyed>> /\ At(w, "prune.row")
      /\ req' = [req EXCEPT ![w] = r]
  BY <1>0 DEF PruneRow, KeptInv, TypeInv, TypeOK
<1>3. IsFiniteSet(versions) /\ IsFiniteSet(versions')
  BY <1>1, FS_RemoveElement DEF KeptInv
<1>4. \A q \in versions : q.version \in Nat
  BY DEF KeptInv, TypeInv, TypeOK, VersionRow
<1>5. ASSUME NEW g \in File, NEW v \in Nat, Enough(versions, g, v)
      PROVE  Enough(versions', g, v)
  <2>1. CASE x \in versions
    BY <1>1, <1>3, <1>4, <1>5, <2>1, DropIsEnough
  <2>2. CASE x \notin versions
    <3>1. versions' = versions
      BY <1>1, <2>2
    <3>. QED
      BY <1>5, <3>1
  <2>. QED
    BY <2>1, <2>2
<1>6. Steady
  BY <1>2, <1>5 DEF Steady
<1>7. NoOrphans' /\ OwnKeys'
  BY <1>1, <1>2 DEF KeptInv, NoOrphans, OwnKeys, HasRow
<1>8. Knows(r)'
  <2>1. PICK old \in Request : old = req[w] /\ Knows(old)
    BY KnowsTypes
  <2>2. Knows(old)'
    BY <1>6, <2>1, KnowsFrame
  <2>3. CASE r = Idle
    BY <2>3, IdleKnows DEF Idle
  <2>4. CASE r.pc = "prune.object" /\ r.file = f
    BY <1>0, <1>1, <1>2, <2>1, <2>2, <2>4
       DEF Knows, At, UsesSnap, UsesKey, HasBody, Saving, Pruning
  <2>. QED
    BY <1>1, <2>3, <2>4
<1>9. r.pc # "upload.insert"
  BY <1>1 DEF Idle
<1>. QED
  BY <1>1, <1>2, <1>3, <1>6, <1>7, <1>8, <1>9, KeptStep

\* A step that touches no request, or only ends one.
LEMMA RestKeeps ==
    ASSUME KeptInv, TypeInv', UNCHANGED <<life, versions, store, rekeyed>>,
           \A f \in File : row'[f].key = row[f].key /\ row'[f].version = row[f].version,
           \/ UNCHANGED req
           \/ \E p \in Actor : req' = [req EXCEPT ![p] = Idle]
    PROVE  KeptInv'
<1>1. Steady /\ NoOrphans' /\ IsFiniteSet(versions') /\ OwnKeys'
  BY CalmIsSteady DEF KeptInv, OwnKeys, HasRow
<1>2. CASE UNCHANGED req
  <2>1. ASSUME NEW q \in Actor PROVE Knows(req[q])'
    <3>1. Knows(req[q])
      BY KnowsTypes
    <3>. QED
      BY <1>2, <3>1 DEF Knows, Kept
  <2>2. RowsKept' /\ VersionsKept' /\ OneUpload'
    BY <1>2 DEF RowsKept, VersionsKept, OneUpload, At, HasRow, Kept, KeptInv
  <2>. QED
    BY <1>1, <2>1, <2>2 DEF KeptInv
<1>3. ASSUME NEW p \in Actor, req' = [req EXCEPT ![p] = Idle]
      PROVE  KeptInv'
  <2>1. Knows(Idle)' /\ Idle.pc # "upload.insert"
    BY IdleKnows DEF Idle
  <2>. QED
    BY <1>1, <1>3, <2>1, KeptStep
<1>. QED
  BY <1>2, <1>3

LEMMA InitKeeps == Init => KeptInv
<1> SUFFICES ASSUME Init PROVE KeptInv
  OBVIOUS
<1>1. \A p \in Actor : Knows(req[p])
  BY DEF Init, Idle, Knows, UsesSnap, UsesKey, HasBody, Saving, Pruning
<1>2. OneUpload /\ OwnKeys /\ NoOrphans /\ RowsKept /\ VersionsKept
  BY DEF Init, Idle, OneUpload, At, OwnKeys, NoOrphans, RowsKept, VersionsKept, HasRow
<1>3. IsFiniteSet(versions)
  BY FS_EmptySet DEF Init
<1>. QED
  BY <1>1, <1>2, <1>3, InitType DEF KeptInv

LEMMA NextKeeps ==
    ASSUME KeptInv, [Next]_vars
    PROVE  KeptInv'
<1>0. TypeInv'
  BY NextType DEF KeptInv
<1>1. ASSUME NEW p \in Proc, HttpStep(p) PROVE KeptInv'
  <2>0. p \in Actor
    BY DEF Actor
  <2>1. ASSUME NEW f \in File, VersionBegin(p, f) \/ WopiBegin(p, f)
        PROVE  KeptInv'
    BY <1>0, <2>0, <2>1, BeginKeeps DEF VersionBegin, WopiBegin
  <2>2. CASE VersionClaim(p) \/ WopiClaim(p)
    BY <1>0, <2>0, <2>2, ArchiveKeeps DEF VersionClaim, WopiClaim
  <2>3. ASSUME NEW n, NEW b, VersionPut(p, n, b) \/ WopiPut(p, b)
        PROVE  KeptInv'
    BY <1>0, <2>0, <2>3, PutVersionKeeps DEF VersionPut, WopiPut
  <2>4. CASE VersionPromote(p) \/ WopiPromote(p)
    BY <1>0, <2>0, <2>4, PromoteKeeps DEF VersionPromote, WopiPromote
  <2>5. ASSUME NEW f \in File, HardDelete(p, f) PROVE KeptInv'
    BY <1>0, <2>0, <2>5, PurgeKeeps DEF HardDelete
  <2>. QED
    BY <1>0, <1>1, <2>0, <2>1, <2>2, <2>3, <2>4, <2>5, UploadKeeps, InsertKeeps,
       PatchKeeps
       DEF HttpStep
<1>2. ASSUME NEW w \in Worker, RotationStep(w) PROVE KeptInv'
  <2>1. w \in Actor
    BY DEF Actor
  <2>. QED
    BY <1>0, <1>2, <2>1, PurgeKeeps, PruneBeginKeeps, PruneObjectKeeps, PruneRowKeeps
       DEF RotationStep, Expire
<1>3. ASSUME NEW p \in Actor, PurgeStep(p) PROVE KeptInv'
  BY <1>0, <1>3, PurgeKeeps
<1>4. ASSUME NEW p \in Actor, Fail(p) PROVE KeptInv'
  BY <1>0, <1>4, RestKeeps DEF Fail, Finish
<1>5. ASSUME NEW f \in File, FileStep(f) PROVE KeptInv'
  <2>1. /\ UNCHANGED <<life, versions, store, req, rekeyed>>
        /\ \A g \in File : row'[g].key = row[g].key /\ row'[g].version = row[g].version
    BY <1>5 DEF FileStep, Trash, Restore, WindowEnds, ArchiveOld, KeptInv, TypeInv,
                TypeOK, Row
  <2>. QED
    BY <1>0, <2>1, RestKeeps
<1>6. CASE EnableEncryption \/ UNCHANGED vars
  BY <1>0, <1>6, RestKeeps DEF EnableEncryption, vars
<1>. QED
  BY <1>1, <1>2, <1>3, <1>4, <1>5, <1>6 DEF Next

LEMMA KeptInvariant == Spec => []KeptInv
<1>1. KeptInv /\ [Next]_vars => KeptInv'
  BY NextKeeps
<1>. QED
  BY <1>1, InitKeeps, PTL DEF Spec

\* Whatever keep_last_n_versions is, the archived versions it promises to keep
\* have their bytes, while workers delete older ones and saves archive newer
\* ones, except where a PATCH moved the file's bytes.
THEOREM KeptVersionsHaveBytes == Spec => []KeptHistoryHasBytes
<1>1. ASSUME KeptInv PROVE KeptHistoryHasBytes
  <2>1. ASSUME NEW r \in versions, r.file \notin rekeyed,
               Cardinality(NewerThan(r)) + 1 < KeepLastN
        PROVE  r.key \in DOMAIN store
    <3>1. NewerThan(r) = Above(versions, r.file, r.version)
      BY DEF NewerThan, Above
    <3>2. Cardinality(Above(versions, r.file, r.version)) \in Nat
      BY <1>1, AboveFinite DEF KeptInv
    <3>3. ~Enough(versions, r.file, r.version)
      BY <2>1, <3>1, <3>2, ConstantsAssumption DEF Enough
    <3>. QED
      BY <1>1, <2>1, <3>3 DEF KeptInv, VersionsKept, Kept
  <2>. QED
    BY <2>1 DEF KeptHistoryHasBytes
<1>. QED
  BY <1>1, KeptInvariant, PTL

\* A version row of a file that has not been purged leaves the archive only
\* while KeepLastN - 1 newer ones are there, though what a worker deletes was
\* collected earlier and other workers delete at the same time.
THEOREM PruningKeepsNewest == Spec => PruneKeepsNewest
<1> DEFINE Step ==
        \A r \in versions \ versions' : HasRow(r.file)' =>
          Cardinality({q \in versions' : q.file = r.file /\ q.version > r.version})
             + 1 >= KeepLastN
<1>1. ASSUME KeptInv, [Next]_vars
      PROVE  Step
  <2>1. ASSUME NEW w \in Actor, PruneRow(w)
        PROVE  Step
    <3>1. PICK x : versions' = versions \ {x}
                   /\ (x \in versions => Enough(versions, x.file, x.version))
      BY <1>1, <2>1, PrunedHasEnough
    <3>2. ASSUME x \in versions
          PROVE  Cardinality({q \in versions' : q.file = x.file /\ q.version > x.version})
                   + 1 >= KeepLastN
      <4>1. x.version \in Nat
        BY <1>1, <3>2 DEF KeptInv, TypeInv, TypeOK, VersionRow
      <4>2. {q \in versions' : q.file = x.file /\ q.version > x.version}
              = Above(versions, x.file, x.version)
        BY <3>1, <4>1 DEF Above
      <4>. QED
        BY <3>1, <3>2, <4>2 DEF Enough
    <3>. QED
      BY <3>1, <3>2
  <2>2. ASSUME NEW p \in Actor, PurgeRow(p)
        PROVE  Step
    BY <1>1, <2>2, KnowsTypes
       DEF PurgeRow, HistoryOf, HasRow, KeptInv, TypeInv, TypeOK
  <2>3. \/ versions \subseteq versions'
        \/ \E w \in Actor : PruneRow(w) \/ PurgeRow(w)
    <3>1. Proc \subseteq Actor /\ Worker \subseteq Actor
      BY DEF Actor
    <3>2. ASSUME NEW p \in Proc, HttpStep(p) PROVE versions \subseteq versions'
      BY <3>2 DEF HttpStep, Upload, UploadInsert, VersionBegin, WopiBegin, BeginSave,
                  VersionClaim, WopiClaim, Archive, VersionPut, WopiPut, PutVersion,
                  VersionPromote, WopiPromote, Promote, PatchBegin, PatchGet, PatchPut,
                  PatchUnlink, PatchCommit, HardDelete, BeginPurge
    <3>3. ASSUME NEW w \in Worker, RotationStep(w)
          PROVE  versions' = versions \/ PruneRow(w)
      BY <3>3 DEF RotationStep, Expire, BeginPurge, PruneBegin, PruneObject
    <3>4. ASSUME NEW p \in Actor, PurgeStep(p) \/ Fail(p)
          PROVE  versions' = versions \/ PurgeRow(p)
      BY <3>4 DEF PurgeStep, PurgeKeys, PurgeUnlink, Fail
    <3>5. ASSUME \/ \E f \in File : FileStep(f)
                 \/ EnableEncryption \/ UNCHANGED vars
          PROVE  versions' = versions
      BY <3>5 DEF FileStep, Trash, Restore, WindowEnds, ArchiveOld, EnableEncryption,
                  vars
    <3>. QED
      BY <1>1, <3>1, <3>2, <3>3, <3>4, <3>5 DEF Next
  <2>. QED
    BY <2>1, <2>2, <2>3
<1>2. KeptInv /\ [Next]_vars => [Step]_vars
  BY <1>1
<1>. QED
  BY <1>2, KeptInvariant, PTL DEF Spec, PruneKeepsNewest
=============================================================================
