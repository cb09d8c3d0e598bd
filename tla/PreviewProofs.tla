--------------------------- MODULE PreviewProofs ---------------------------
(* Theorems about Preview, for every set of files and of requests and every *)
(* bound on versions.                                                       *)
EXTENDS Preview, TLAPS

\* The placeholder request has the type of a request.
LEMMA IdleType == Idle \in Request
<1>1. (CHOOSE f \in File : TRUE) \in File
  BY PreviewConstants
<1>. QED
  BY <1>1 DEF Idle, Request

-----------------------------------------------------------------------------
(* CacheIsRecent alone is not inductive: that a fill writes something recent *)
(* depends on what it read, and what an invalidation reports as saved on    *)
(* what it promoted.                                                        *)

Fills == {"get.cache", "fill"}

\* Nothing is reported as saved that has not been promoted.
SavedIsPromoted == \A f \in File : saved[f] <= file[f].version

\* A request works on a file that exists or existed, on a version it had.
WorksOnPast ==
    \A p \in Proc : ~At(p, "idle") =>
        /\ file[req[p].file].place # "unborn"
        /\ req[p].version <= file[req[p].file].version

\* A fill of an undisturbed file renders the version the row still has.
FillsAreCurrent ==
    \A p \in Proc : req[p].pc \in Fills /\ req[p].file \notin disturbed =>
        req[p].version = file[req[p].file].version

CacheInv ==
    /\ TypeOK
    /\ NoneAfterPurge
    /\ SavedIsPromoted
    /\ WorksOnPast
    /\ FillsAreCurrent
    /\ CacheIsRecent

\* The conjuncts of CacheInv hold before anything is uploaded.
LEMMA CacheInit == Init => CacheInv
<1> SUFFICES ASSUME Init
             PROVE  CacheInv
  OBVIOUS
<1>1. TypeOK
  BY PreviewConstants, IdleType DEF Init, TypeOK, Row
<1>2. NoneAfterPurge /\ CacheIsRecent
  BY DEF Init, NoneAfterPurge, CacheIsRecent
<1>3. SavedIsPromoted
  <2>1. ASSUME NEW f \in File
        PROVE  saved[f] <= file[f].version
    <3>1. saved[f] = 0 /\ file[f].version = 0
      BY DEF Init, None
    <3>2. saved[f] \in Nat /\ file[f].version \in Nat
      BY <3>1
    <3>. QED
      BY <3>1, <3>2
  <2>. QED
    BY <2>1 DEF SavedIsPromoted
<1>4. WorksOnPast /\ FillsAreCurrent
  BY DEF Init, WorksOnPast, FillsAreCurrent, At, Idle, Fills
<1>. QED
  BY <1>1, <1>2, <1>3, <1>4 DEF CacheInv

\* CacheInv is preserved by every step.  The conjuncts are those of CacheInv,
\* in its order; <2>6 is CacheIsRecent.
LEMMA CacheStep == CacheInv /\ [Next]_vars => CacheInv'
<1> SUFFICES ASSUME CacheInv, [Next]_vars
             PROVE  CacheInv'
  OBVIOUS
<1> USE PreviewConstants, IdleType DEF CacheInv, TypeOK, At, None, Version
<1>1. ASSUME NEW p \in Proc, NEW f \in File, Upload(p, f)
      PROVE  CacheInv'
  <2>1. TypeOK'
    BY <1>1 DEF Upload, Start, HasRow, Row, Request
  <2>2. NoneAfterPurge'
    BY <1>1 DEF Upload, HasRow, NoneAfterPurge
  <2>3. SavedIsPromoted'
    BY <1>1 DEF Upload, SavedIsPromoted
  <2>4. WorksOnPast'
    BY <1>1 DEF Upload, Start, HasRow, WorksOnPast
  <2>5. FillsAreCurrent'
    BY <1>1 DEF Upload, Start, HasRow, FillsAreCurrent, WorksOnPast, Fills
  <2>6. CacheIsRecent'
    BY <1>1 DEF Upload, CacheIsRecent
  <2>. QED
    BY <2>1, <2>2, <2>3, <2>4, <2>5, <2>6
<1>2. ASSUME NEW p \in Proc, NEW f \in File, GetBegin(p, f)
      PROVE  CacheInv'
  <2>1. TypeOK'
    BY <1>2 DEF GetBegin, Start, HasRow, Row, Request
  <2>2. NoneAfterPurge'
    BY <1>2 DEF GetBegin, HasRow, NoneAfterPurge
  <2>3. SavedIsPromoted'
    BY <1>2 DEF GetBegin, SavedIsPromoted
  <2>4. WorksOnPast'
    BY <1>2 DEF GetBegin, Start, HasRow, WorksOnPast, Row
  <2>5. FillsAreCurrent'
    BY <1>2 DEF GetBegin, Start, HasRow, FillsAreCurrent
  <2>6. CacheIsRecent'
    BY <1>2 DEF GetBegin, CacheIsRecent
  <2>. QED
    BY <2>1, <2>2, <2>3, <2>4, <2>5, <2>6
<1>3. ASSUME NEW p \in Proc, GetCache(p)
      PROVE  CacheInv'
  <2>1. TypeOK'
    BY <1>3 DEF GetCache, Finish, HasRow, Request
  <2>2. NoneAfterPurge'
    BY <1>3 DEF GetCache, HasRow, NoneAfterPurge
  <2>3. SavedIsPromoted'
    BY <1>3 DEF GetCache, SavedIsPromoted
  <2>4. WorksOnPast'
    BY <1>3 DEF GetCache, Finish, HasRow, WorksOnPast, Request, Idle
  <2>5. FillsAreCurrent'
    BY <1>3
       DEF GetCache, Finish, HasRow, FillsAreCurrent, WorksOnPast, Fills,
           Request, Idle
  <2>6. CacheIsRecent'
    BY <1>3 DEF GetCache, CacheIsRecent
  <2>. QED
    BY <2>1, <2>2, <2>3, <2>4, <2>5, <2>6
<1>4. ASSUME NEW p \in Proc, Fill(p)
      PROVE  CacheInv'
  <2>1. TypeOK'
    BY <1>4 DEF Fill, Finish, Request
  <2>2. NoneAfterPurge'
    BY <1>4 DEF Fill, HasRow, NoneAfterPurge
  <2>3. SavedIsPromoted'
    BY <1>4 DEF Fill, SavedIsPromoted
  <2>4. WorksOnPast'
    BY <1>4 DEF Fill, Finish, WorksOnPast, Idle
  <2>5. FillsAreCurrent'
    BY <1>4 DEF Fill, Finish, FillsAreCurrent, Fills, Idle
  <2>6. CacheIsRecent'
    BY <1>4 DEF Fill, CacheIsRecent, SavedIsPromoted, FillsAreCurrent, Fills
  <2>. QED
    BY <2>1, <2>2, <2>3, <2>4, <2>5, <2>6
<1>5. ASSUME NEW p \in Proc, NEW f \in File, NEW v \in Version, PutPromote(p, f, v)
      PROVE  CacheInv'
  <2>1. TypeOK'
    BY <1>5 DEF PutPromote, Promote, Start, Row, Request
  <2>2. NoneAfterPurge'
    BY <1>5 DEF PutPromote, Promote, HasRow, NoneAfterPurge
  <2>3. SavedIsPromoted'
    BY <1>5 DEF PutPromote, Promote, SavedIsPromoted, Row
  <2>4. WorksOnPast'
    BY <1>5 DEF PutPromote, Promote, Start, HasRow, WorksOnPast, Row, Request
  <2>5. FillsAreCurrent'
    BY <1>5 DEF PutPromote, Promote, Start, Filling, FillsAreCurrent, Fills
  <2>6. CacheIsRecent'
    BY <1>5 DEF PutPromote, CacheIsRecent
  <2>. QED
    BY <2>1, <2>2, <2>3, <2>4, <2>5, <2>6
<1>6. ASSUME NEW p \in Proc, PutInvalidate(p)
      PROVE  CacheInv'
  <2>1. TypeOK'
    BY <1>6 DEF PutInvalidate, Finish, HasRow, Request
  <2>2. NoneAfterPurge'
    BY <1>6 DEF PutInvalidate, HasRow, NoneAfterPurge
  <2>3. SavedIsPromoted'
    BY <1>6 DEF PutInvalidate, SavedIsPromoted, WorksOnPast
  <2>4. WorksOnPast'
    BY <1>6 DEF PutInvalidate, Finish, HasRow, WorksOnPast, Idle
  <2>5. FillsAreCurrent'
    BY <1>6 DEF PutInvalidate, Finish, HasRow, FillsAreCurrent, Fills, Idle
  <2>6. CacheIsRecent'
    BY <1>6 DEF PutInvalidate, CacheIsRecent
  <2>. QED
    BY <2>1, <2>2, <2>3, <2>4, <2>5, <2>6
<1>7. ASSUME NEW p \in Proc, Fail(p)
      PROVE  CacheInv'
  <2>1. TypeOK'
    BY <1>7 DEF Fail, Finish, HasRow, Request
  <2>2. NoneAfterPurge'
    BY <1>7 DEF Fail, HasRow, NoneAfterPurge
  <2>3. SavedIsPromoted'
    BY <1>7 DEF Fail, SavedIsPromoted
  <2>4. WorksOnPast'
    BY <1>7 DEF Fail, Finish, HasRow, WorksOnPast, Idle
  <2>5. FillsAreCurrent'
    BY <1>7 DEF Fail, Finish, HasRow, FillsAreCurrent, Fills, Idle
  <2>6. CacheIsRecent'
    BY <1>7 DEF Fail, CacheIsRecent
  <2>. QED
    BY <2>1, <2>2, <2>3, <2>4, <2>5, <2>6
<1>8. ASSUME NEW f \in File, NEW v \in Version, UploadVersion(f, v)
      PROVE  CacheInv'
  <2>1. TypeOK'
    BY <1>8 DEF UploadVersion, Promote, Row
  <2>2. NoneAfterPurge'
    BY <1>8 DEF UploadVersion, Promote, HasRow, NoneAfterPurge
  <2>3. SavedIsPromoted'
    BY <1>8 DEF UploadVersion, Promote, SavedIsPromoted
  <2>4. WorksOnPast'
    BY <1>8 DEF UploadVersion, Promote, WorksOnPast, Row, Request
  <2>5. FillsAreCurrent'
    BY <1>8 DEF UploadVersion, Promote, Filling, FillsAreCurrent, Fills
  <2>6. CacheIsRecent'
    BY <1>8 DEF UploadVersion, CacheIsRecent
  <2>. QED
    BY <2>1, <2>2, <2>3, <2>4, <2>5, <2>6
<1>9. ASSUME NEW f \in File, Trash(f)
      PROVE  CacheInv'
  <2>1. TypeOK'
    BY <1>9 DEF Trash, HasRow, Row
  <2>2. NoneAfterPurge'
    BY <1>9 DEF Trash, HasRow, NoneAfterPurge
  <2>3. SavedIsPromoted'
    BY <1>9 DEF Trash, HasRow, SavedIsPromoted
  <2>4. WorksOnPast'
    BY <1>9 DEF Trash, HasRow, WorksOnPast
  <2>5. FillsAreCurrent'
    BY <1>9 DEF Trash, HasRow, FillsAreCurrent
  <2>6. CacheIsRecent'
    BY <1>9 DEF Trash, CacheIsRecent
  <2>. QED
    BY <2>1, <2>2, <2>3, <2>4, <2>5, <2>6
<1>10. ASSUME NEW f \in File, Restore(f)
      PROVE  CacheInv'
  <2>1. TypeOK'
    BY <1>10 DEF Restore, HasRow, Row
  <2>2. NoneAfterPurge'
    BY <1>10 DEF Restore, HasRow, NoneAfterPurge
  <2>3. SavedIsPromoted'
    BY <1>10 DEF Restore, HasRow, SavedIsPromoted
  <2>4. WorksOnPast'
    BY <1>10 DEF Restore, HasRow, WorksOnPast
  <2>5. FillsAreCurrent'
    BY <1>10 DEF Restore, HasRow, FillsAreCurrent
  <2>6. CacheIsRecent'
    BY <1>10 DEF Restore, CacheIsRecent
  <2>. QED
    BY <2>1, <2>2, <2>3, <2>4, <2>5, <2>6
<1>11. ASSUME NEW f \in File, Purge(f)
      PROVE  CacheInv'
  <2>1. TypeOK'
    BY <1>11 DEF Purge, Row
  <2>2. NoneAfterPurge'
    BY <1>11 DEF Purge, HasRow, NoneAfterPurge
  <2>3. SavedIsPromoted'
    BY <1>11 DEF Purge, SavedIsPromoted
  <2>4. WorksOnPast'
    BY <1>11 DEF Purge, WorksOnPast
  <2>5. FillsAreCurrent'
    BY <1>11 DEF Purge, FillsAreCurrent
  <2>6. CacheIsRecent'
    BY <1>11 DEF Purge, CacheIsRecent
  <2>. QED
    BY <2>1, <2>2, <2>3, <2>4, <2>5, <2>6
<1>12. CASE UNCHANGED vars
  BY <1>12
     DEF vars, NoneAfterPurge, SavedIsPromoted, WorksOnPast, FillsAreCurrent,
         CacheIsRecent, HasRow
<1>. QED
  BY <1>1, <1>2, <1>3, <1>4, <1>5, <1>6, <1>7, <1>8, <1>9, <1>10, <1>11, <1>12
     DEF Next

-----------------------------------------------------------------------------
\* Every reachable state satisfies the inductive invariant.
LEMMA CacheInvariant == Spec => []CacheInv
BY CacheInit, CacheStep, PTL DEF Spec

\* The cache, the rows and what each request holds have their types.
THEOREM TypeCorrect == Spec => []TypeOK
<1>1. CacheInv => TypeOK
  BY DEF CacheInv
<1>. QED
  BY <1>1, CacheInvariant, PTL

\* No interleaving of fills and purges leaves a preview without its file.
THEOREM NoPreviewAfterPurge == Spec => []NoneAfterPurge
<1>1. CacheInv => NoneAfterPurge
  BY DEF CacheInv
<1>. QED
  BY <1>1, CacheInvariant, PTL

\* A preview outside the named races is never older than the newest save that
\* has returned to its editor.
THEOREM CachedPreviewIsRecent == Spec => []CacheIsRecent
<1>1. CacheInv => CacheIsRecent
  BY DEF CacheInv
<1>. QED
  BY <1>1, CacheInvariant, PTL
=============================================================================
