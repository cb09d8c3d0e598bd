---------------------------- MODULE VisitProofs ----------------------------
(* The invariants of a browser's visit, for every set of ids, every viewer,  *)
(* type of file and role, and any number of texts, mishaps and acts.         *)
EXTENDS Visit, SequenceTheorems, FiniteSetTheorems, TLAPS

-----------------------------------------------------------------------------
(* Sequences.                                                              *)

LEMMA RemoveAtProperties ==
    ASSUME NEW S, NEW s \in Seq(S), NEW i \in 1..Len(s)
    PROVE  /\ RemoveAt(s, i) \in Seq(S)
           /\ Len(RemoveAt(s, i)) = Len(s) - 1
           /\ \A k \in 1..(Len(s) - 1) :
                RemoveAt(s, i)[k] = IF k < i THEN s[k] ELSE s[k + 1]
<1>. DEFINE before == SubSeq(s, 1, i - 1)
            after == SubSeq(s, i + 1, Len(s))
<1>1. /\ before \in Seq(S) /\ Len(before) = i - 1
      /\ \A k \in 1..(i - 1) : before[k] = s[k]
  <2>1. \A k \in 1..(i - 1) : s[k] \in S
    BY ElementOfSeq
  <2>2. i - 1 \in Int
    OBVIOUS
  <2>. QED
    BY <2>1, <2>2, SubSeqProperties
<1>2. /\ after \in Seq(S) /\ Len(after) = Len(s) - i
      /\ \A k \in 1..(Len(s) - i) : after[k] = s[k + i]
  <2>1. \A k \in (i + 1)..Len(s) : s[k] \in S
    BY ElementOfSeq
  <2>2. i + 1 \in Int /\ Len(s) \in Int
    OBVIOUS
  <2>. QED
    BY <2>1, <2>2, SubSeqProperties
<1>. HIDE DEF before, after
<1>3. /\ before \o after \in Seq(S)
      /\ Len(before \o after) = Len(s) - 1
      /\ \A k \in 1..(Len(s) - 1) :
            (before \o after)[k] = IF k <= i - 1 THEN before[k] ELSE after[k - (i - 1)]
  <2>1. /\ before \o after \in Seq(S)
        /\ Len(before \o after) = Len(before) + Len(after)
        /\ \A k \in 1..(Len(before) + Len(after)) : (before \o after)[k] =
              IF k <= Len(before) THEN before[k] ELSE after[k - Len(before)]
    BY <1>1, <1>2, ConcatProperties
  <2>2. Len(before) = i - 1 /\ Len(before) + Len(after) = Len(s) - 1
    BY <1>1, <1>2
  <2>. QED
    BY <2>1, <2>2
<1>4. RemoveAt(s, i) = before \o after
  BY DEF RemoveAt, before, after
<1>5. ASSUME NEW k \in 1..(Len(s) - 1)
      PROVE  RemoveAt(s, i)[k] = IF k < i THEN s[k] ELSE s[k + 1]
  BY <1>1, <1>2, <1>3, <1>4
<1>. QED
  BY <1>3, <1>4, <1>5

\* What a sequence that loses an element still has.
LEMMA RemoveAtElements ==
    ASSUME NEW S, NEW s \in Seq(S), NEW i \in 1..Len(s), NEW r, r = RemoveAt(s, i),
           NEW k \in DOMAIN r
    PROVE  \E j \in DOMAIN s \ {i} : /\ r[k] = s[j]
                                     /\ j = IF k < i THEN k ELSE k + 1
<1>1. r \in Seq(S) /\ Len(r) = Len(s) - 1 /\ k \in 1..(Len(s) - 1)
  BY RemoveAtProperties
<1>2. r[k] = s[IF k < i THEN k ELSE k + 1]
  BY <1>1, RemoveAtProperties
<1>. QED
  BY <1>1, <1>2

-----------------------------------------------------------------------------
(* The page of a file: what is always so of the page on screen.             *)

\* A list that was read is no longer than the comments are now; the one that is
\* fetched after a POST is the only one of its kind, and its POST waits for it.
LoadsFit ==
    OnPage =>
        /\ \A i \in DOMAIN page.loads :
              /\ page.loads[i].n <= Len(comments)
              /\ page.loads[i].for = "post" => page.post # NULL /\ page.post.st = "reload"
        /\ \A i, j \in DOMAIN page.loads :
              page.loads[i].for = "post" /\ page.loads[j].for = "post" => i = j

ActionFits ==
    OnPage /\ page.action # NULL /\ page.action.which # "delete"
        => page.action.to \in Status

\* The status on screen is the stored one unless a decision that was taken has
\* not been seen, or a render is to come; the render to come is the stored one
\* unless one more was asked for.
ScreenInv ==
    OnPage /\ ~page.doubt /\ ~(page.action # NULL /\ page.action.st = "ok") =>
        /\ page.refresh = "none" => page.shown = status
        /\ page.refresh \in Status /\ ~page.again => page.refresh = status

TextsKept ==
    \A t \in 1..typed : t \notin rushed =>
        \/ t \in Range(comments) \cup replaced \cup dropped
        \/ OnPage /\ page.draft = t

\* A text is stored once unless the answer to its POST was lost.
TextsOnce ==
    \A i, j \in DOMAIN comments :
        comments[i] = comments[j] /\ comments[i] \notin unsure \cup {0} => i = j

\* A text that is stored, and whose POST was not lost, is in the field only until
\* the answer comes.
FieldIsFresh ==
    OnPage /\ page.draft \notin unsure \cup {0} /\ page.draft \in Range(comments) =>
        page.post # NULL /\ page.post.text = page.draft /\ page.post.st = "ok"

\* While a text is posted the field holds it, or nothing, or what was typed since.
PostIsKnown ==
    OnPage /\ page.post # NULL =>
        /\ page.post.st \in {"sent", "refused"} /\ page.post.text \notin unsure
              => page.post.text \notin Range(comments)
        /\ page.post.st \in {"ok", "reload"} => page.post.text \in Range(comments)
        /\ page.draft \in {0, page.post.text} \cup rushed

TextsInv == TextsKept /\ TextsOnce /\ FieldIsFresh /\ PostIsKnown

PageInv == ServerTypeOK /\ FileTypeOK /\ LoadsFit /\ ActionFits /\ ScreenInv /\ TextsInv

Refreshes == {"none", "asked", "gone"} \cup Status
Previews == {"loading", "pdf", "editor", "branded", "image", "player", "text", "card", "error"}
Blocks == [versions : {"asked", "shown", "failed"}, workflow : {"asked", "shown", "failed"}]

LEMMA FieldsOfPage ==
    ASSUME NEW p \in PageRecord
    PROVE  /\ p.shown \in Status \cup {"gone"} /\ p.refresh \in Refreshes /\ p.again \in BOOLEAN
           /\ p.action \in {NULL} \cup ActionRecord
           /\ p.preview \in Previews /\ p.blocks \in Blocks
           /\ p.items \in Nat \cup {NULL} /\ p.loads \in Seq(LoadRecord)
           /\ p.draft \in Nat /\ p.post \in {NULL} \cup PostRecord /\ p.doubt \in BOOLEAN
  BY DEF PageRecord, ActionRecord, PostRecord, LoadRecord, Refreshes, Previews, Blocks

LEMMA DoubtedIsPage ==
    ASSUME page \in PageRecord \cup {NULL}
    PROVE  Doubted \in PageRecord \cup {NULL} /\ (Doubted # NULL <=> OnPage)
<1>. USE PageAssumption DEF OnPage
<1>1. CASE OnPage
  <2>1. [page EXCEPT !.doubt = TRUE] \in PageRecord
    BY <1>1 DEF PageRecord
  <2>. QED
    BY <1>1, <2>1 DEF Doubted
<1>. QED
  BY <1>1 DEF Doubted

\* A decision is served, whichever it is.
ServeAction(allowed) ==
    ServePatch(allowed) \/ \E purged \in BOOLEAN : ServeDelete(allowed, purged)

PageSteps(allowed, user) ==
    \/ FilePageAnswers(allowed)
    \/ OnPage /\ UsePage(user)
    \/ OthersDecide \/ OthersDelete \/ OthersComment \/ CollaboraFrame

\* What a served decision leaves of the page and of the file.
LEMMA ActionIsServed ==
    ASSUME NEW allowed \in BOOLEAN, ServeAction(allowed)
    PROVE  /\ Pressed("sent")
           /\ \E st \in {"unauth", "ok", "refused"} :
                /\ page' = [page EXCEPT !.action.st = st]
                /\ status' # status =>
                      st = "ok" /\ page.action.which # "delete" /\ status' = page.action.to
                /\ st = "unauth" => ~allowed
           /\ stored' \in {stored, stored \ {Visited}}
           /\ UNCHANGED <<session, setup, acts, mishaps, comments, typed, replaced, dropped, rushed, unsure>>
<1>1. CASE ServePatch(allowed)
  BY <1>1 DEF ServePatch, ActionServed, history
<1>2. ASSUME NEW purged \in BOOLEAN, ServeDelete(allowed, purged)
      PROVE  /\ Pressed("sent") /\ status' = status
             /\ \E st \in {"unauth", "ok", "refused"} :
                  page' = [page EXCEPT !.action.st = st] /\ (st = "unauth" => ~allowed)
             /\ stored' \in {stored, stored \ {Visited}}
             /\ UNCHANGED <<session, setup, acts, mishaps, comments, typed, replaced, dropped, rushed, unsure>>
  BY <1>2 DEF ServeDelete, ActionServed, history
<1>. QED
  BY <1>1, <1>2 DEF ServeAction

LEMMA PageRecordStep ==
    ASSUME ServerTypeOK, FileTypeOK, NEW allowed \in BOOLEAN, NEW user \in BOOLEAN,
           PageSteps(allowed, user)
    PROVE  page' \in PageRecord \cup {NULL} /\ (OnPage' <=> OnPage)
<1>. USE PageAssumption DEF OnPage, ServerTypeOK
<1>0. OnPage => page \in PageRecord
  BY DEF FileTypeOK, OnPage
<1>1. CASE ServeAction(allowed)
  <2>0. OnPage /\ page \in PageRecord /\ page.action # NULL
    BY <1>1, <1>0, ActionIsServed DEF Pressed
  <2>9. PICK st \in {"unauth", "ok", "refused"} : page' = [page EXCEPT !.action.st = st]
    BY <1>1, ActionIsServed
  <2>. DEFINE act == [page.action EXCEPT !.st = st]
  <2>1. act \in ActionRecord
    BY <2>0, FieldsOfPage DEF ActionRecord
  <2>2. page' = [page EXCEPT !.action = act]
    BY <2>9
  <2>. HIDE DEF act
  <2>3. page' \in PageRecord
    BY <2>0, <2>1, <2>2
       DEF PageRecord, ActionRecord, PostRecord, LoadRecord, Refreshes, Previews, Blocks
  <2>. QED
    BY <2>0, <2>3
<1>2. CASE PatchDone
  <2>0. OnPage /\ page \in PageRecord
    BY <1>2, <1>0 DEF PatchDone, Pressed
  <2>. DEFINE next == IF page.refresh = "none" THEN "asked" ELSE page.refresh
              again == page.refresh # "none"
  <2>1. next \in Refreshes /\ again \in BOOLEAN
    BY <1>2, <2>0, FieldsOfPage DEF PatchDone, Pressed, Refreshes
  <2>2. page' = [page EXCEPT !.action = NULL, !.refresh = next, !.again = again]
    BY <1>2, <2>0 DEF PatchDone, Pressed
  <2>. HIDE DEF next, again
  <2>3. page' \in PageRecord
    BY <2>0, <2>1, <2>2
       DEF PageRecord, ActionRecord, PostRecord, LoadRecord, Refreshes, Previews, Blocks
  <2>. QED
    BY <2>0, <2>3
<1>3. CASE ActionRefused
  <2>0. OnPage /\ page \in PageRecord /\ page' = [page EXCEPT !.action = NULL]
    BY <1>3, <1>0 DEF ActionRefused, Pressed
  <2>1. page' \in PageRecord
    BY <2>0 DEF PageRecord
  <2>. QED
    BY <2>0, <2>1
<1>4. CASE LoseAction
  <2>0. OnPage /\ page \in PageRecord /\ page' = [page EXCEPT !.action = NULL, !.doubt = TRUE]
    BY <1>4, <1>0 DEF LoseAction
  <2>1. page' \in PageRecord
    BY <2>0 DEF PageRecord
  <2>. QED
    BY <2>0, <2>1
<1>5. ASSUME NEW ok \in BOOLEAN, ReadRefresh(allowed, ok)
     PROVE  page' \in PageRecord \cup {NULL} /\ (OnPage' <=> OnPage)
  <2>0. OnPage /\ page \in PageRecord
    BY <1>5, <1>0 DEF ReadRefresh
  <2>. DEFINE read == IF ok THEN status ELSE "gone"
  <2>1. read \in Refreshes
    BY <1>5, <2>0, FieldsOfPage DEF ReadRefresh, Refreshes
  <2>2. page' = [page EXCEPT !.refresh = read]
    BY <1>5, <2>0 DEF ReadRefresh
  <2>. HIDE DEF read
  <2>3. page' \in PageRecord
    BY <2>0, <2>1, <2>2
       DEF PageRecord, ActionRecord, PostRecord, LoadRecord, Refreshes, Previews, Blocks
  <2>. QED
    BY <2>0, <2>3
<1>6. CASE ArriveRefresh
  <2>0. OnPage /\ page \in PageRecord
    BY <1>6, <1>0 DEF ArriveRefresh
  <2>. DEFINE next == IF page.again THEN "asked" ELSE "none"
              shown == page.refresh
  <2>1. next \in Refreshes /\ shown \in Status
    BY <1>6, <2>0, FieldsOfPage DEF ArriveRefresh, Refreshes
  <2>2. page' = [page EXCEPT !.shown = shown, !.refresh = next, !.again = FALSE]
    BY <1>6, <2>0 DEF ArriveRefresh
  <2>. HIDE DEF next, shown
  <2>3. page' \in PageRecord
    BY <2>0, <2>1, <2>2
       DEF PageRecord, ActionRecord, PostRecord, LoadRecord, Refreshes, Previews, Blocks
  <2>. QED
    BY <2>0, <2>3
<1>7. ASSUME NEW ok \in BOOLEAN, LoadPanes(allowed, ok)
     PROVE  page' \in PageRecord \cup {NULL} /\ (OnPage' <=> OnPage)
  <2>1. CASE PreviewAnswer(ok)
    <3>0. OnPage /\ page \in PageRecord
      BY <2>1, <1>0 DEF PreviewAnswer
    <3>. DEFINE view == IF setup.type = "office" THEN OfficePreview(ok) ELSE TextPreview(ok)
    <3>1. view \in Previews
      BY <2>1, <3>0 DEF PreviewAnswer, OfficePreview, TextPreview, Previews
    <3>2. page' = [page EXCEPT !.preview = view]
      BY <2>1, <3>0 DEF PreviewAnswer
    <3>. HIDE DEF view
    <3>3. page' \in PageRecord
      BY <3>0, <3>1, <3>2
         DEF PageRecord, ActionRecord, PostRecord, LoadRecord, Refreshes, Previews, Blocks
    <3>. QED
      BY <3>0, <3>3
  <2>2. CASE VersionsBlock(ok)
    <3>0. OnPage /\ page \in PageRecord
      BY <2>2, <1>0 DEF VersionsBlock
    <3>. DEFINE blocks == [page.blocks EXCEPT !.versions = IF ok THEN "shown" ELSE "failed"]
    <3>1. blocks \in Blocks
      BY <2>2, <3>0, FieldsOfPage DEF VersionsBlock, Blocks
    <3>2. page' = [page EXCEPT !.blocks = blocks]
      BY <2>2, <3>0 DEF VersionsBlock
    <3>. HIDE DEF blocks
    <3>3. page' \in PageRecord
      BY <3>0, <3>1, <3>2
         DEF PageRecord, ActionRecord, PostRecord, LoadRecord, Refreshes, Previews, Blocks
    <3>. QED
      BY <3>0, <3>3
  <2>3. CASE WorkflowBlock(ok)
    <3>0. OnPage /\ page \in PageRecord
      BY <2>3, <1>0 DEF WorkflowBlock
    <3>. DEFINE blocks == [page.blocks EXCEPT !.workflow = IF ok THEN "shown" ELSE "failed"]
    <3>1. blocks \in Blocks
      BY <2>3, <3>0, FieldsOfPage DEF WorkflowBlock, Blocks
    <3>2. page' = [page EXCEPT !.blocks = blocks]
      BY <2>3, <3>0 DEF WorkflowBlock
    <3>. HIDE DEF blocks
    <3>3. page' \in PageRecord
      BY <3>0, <3>1, <3>2
         DEF PageRecord, ActionRecord, PostRecord, LoadRecord, Refreshes, Previews, Blocks
    <3>. QED
      BY <3>0, <3>3
  <2>4. CASE ImageFails
    BY <2>4, <1>0 DEF ImageFails, PageRecord
  <2>. QED
    BY <1>7, <2>1, <2>2, <2>3, <2>4 DEF LoadPanes
<1>8. CASE ServePost(allowed)
  <2>0. OnPage /\ page \in PageRecord
    BY <1>8, <1>0 DEF ServePost, Posting
  <2>. DEFINE post == [page.post EXCEPT !.st = IF allowed /\ Visited \in stored THEN "ok" ELSE "refused"]
  <2>1. post \in PostRecord
    BY <1>8, <2>0, FieldsOfPage DEF ServePost, Posting, PostRecord
  <2>2. page' = [page EXCEPT !.post = post]
    BY <1>8, <2>0 DEF ServePost, Posting
  <2>. HIDE DEF post
  <2>3. page' \in PageRecord
    BY <2>0, <2>1, <2>2
       DEF PageRecord, ActionRecord, PostRecord, LoadRecord, Refreshes, Previews, Blocks
  <2>. QED
    BY <2>0, <2>3
<1>9. CASE Posted
  <2>0. OnPage /\ page \in PageRecord
    BY <1>9, <1>0 DEF Posted, Posting
  <2>. DEFINE post == [page.post EXCEPT !.st = "reload"]
              loads == ReloadComments
  <2>1. post \in PostRecord /\ loads \in Seq(LoadRecord)
    BY <1>9, <2>0, FieldsOfPage, AppendProperties
       DEF Posted, Posting, PostRecord, ReloadComments, LoadRecord
  <2>2. page' = [page EXCEPT !.draft = 0, !.post = post, !.loads = loads]
    BY <1>9, <2>0 DEF Posted, Posting
  <2>. HIDE DEF post, loads
  <2>3. page' \in PageRecord
    BY <2>0, <2>1, <2>2
       DEF PageRecord, ActionRecord, PostRecord, LoadRecord, Refreshes, Previews, Blocks
  <2>. QED
    BY <2>0, <2>3
<1>10. CASE PostRefused
  <2>0. OnPage /\ page \in PageRecord /\ page' = [page EXCEPT !.post = NULL]
    BY <1>10, <1>0 DEF PostRefused, Posting
  <2>1. page' \in PageRecord
    BY <2>0 DEF PageRecord
  <2>. QED
    BY <2>0, <2>1
<1>11. CASE LosePost
  <2>0. OnPage /\ page \in PageRecord /\ page' = [page EXCEPT !.post = NULL]
    BY <1>11, <1>0 DEF LosePost
  <2>1. page' \in PageRecord
    BY <2>0 DEF PageRecord
  <2>. QED
    BY <2>0, <2>1
<1>12. ASSUME NEW i \in DOMAIN page.loads, OnPage, ReadComments(i, allowed)
     PROVE  page' \in PageRecord \cup {NULL} /\ (OnPage' <=> OnPage)
  <2>0. OnPage /\ page \in PageRecord
    BY <1>12, <1>0 DEF ReadComments
  <2>. DEFINE load == [page.loads[i] EXCEPT !.st = IF allowed /\ Visited \in stored THEN "read" ELSE "bad",
                                           !.n = Len(comments)]
              loads == [page.loads EXCEPT ![i] = load]
  <2>1. loads \in Seq(LoadRecord)
    <3>1. page.loads \in Seq(LoadRecord) /\ i \in 1..Len(page.loads)
      BY <2>0, FieldsOfPage
    <3>2. page.loads[i] \in LoadRecord
      BY <3>1, ElementOfSeq
    <3>3. Len(comments) \in Nat
      BY DEF FileTypeOK
    <3>4. load \in LoadRecord
      <4>. DEFINE st == IF allowed /\ Visited \in stored THEN "read" ELSE "bad"
      <4>1. st \in {"read", "bad"}
        OBVIOUS
      <4>2. load = [page.loads[i] EXCEPT !.st = st, !.n = Len(comments)]
        OBVIOUS
      <4>. HIDE DEF st, load
      <4>. QED
        BY <3>2, <3>3, <4>1, <4>2 DEF LoadRecord
    <3>. HIDE DEF load
    <3>. QED
      BY <3>1, <3>4, ExceptSeq
  <2>2. page' = [page EXCEPT !.loads = loads]
    BY <1>12, <2>0 DEF ReadComments
  <2>. HIDE DEF load, loads
  <2>3. page' \in PageRecord
    BY <2>0, <2>1, <2>2
       DEF PageRecord, ActionRecord, PostRecord, LoadRecord, Refreshes, Previews, Blocks
  <2>. QED
    BY <2>0, <2>3
<1>13. ASSUME NEW i \in DOMAIN page.loads, OnPage, ArriveComments(i)
     PROVE  page' \in PageRecord \cup {NULL} /\ (OnPage' <=> OnPage)
  <2>0. OnPage /\ page \in PageRecord
    BY <1>13, <1>0 DEF ArriveComments
  <2>. DEFINE items == IF page.loads[i].st = "bad" THEN page.items ELSE page.loads[i].n
              loads == RemoveAt(page.loads, i)
              post == PostAfter(i)
  <2>1. items \in Nat \cup {NULL} /\ loads \in Seq(LoadRecord) /\ post \in {NULL} \cup PostRecord
    <3>1. page.loads \in Seq(LoadRecord) /\ i \in 1..Len(page.loads)
      BY <2>0, FieldsOfPage
    <3>0. page.loads[i] \in LoadRecord
      BY <3>1, ElementOfSeq
    <3>2. page.loads[i].n \in Nat
      BY <3>0 DEF LoadRecord
    <3>3. loads \in Seq(LoadRecord)
      BY <3>1, RemoveAtProperties
    <3>. HIDE DEF loads
    <3>. QED
      BY <2>0, <3>2, <3>3, FieldsOfPage DEF PostAfter
  <2>2. page' = [page EXCEPT !.items = items, !.loads = loads, !.post = post]
    BY <1>13, <2>0 DEF ArriveComments
  <2>. HIDE DEF items, loads, post
  <2>3. page' \in PageRecord
    BY <2>0, <2>1, <2>2
       DEF PageRecord, ActionRecord, PostRecord, LoadRecord, Refreshes, Previews, Blocks
  <2>. QED
    BY <2>0, <2>3
<1>14. ASSUME NEW i \in DOMAIN page.loads, OnPage, LoseComments(i)
     PROVE  page' \in PageRecord \cup {NULL} /\ (OnPage' <=> OnPage)
  <2>0. OnPage /\ page \in PageRecord
    BY <1>14, <1>0 DEF LoseComments
  <2>. DEFINE loads == RemoveAt(page.loads, i)
              post == PostAfter(i)
  <2>1. loads \in Seq(LoadRecord) /\ post \in {NULL} \cup PostRecord
    BY <1>14, <2>0, FieldsOfPage, ElementOfSeq, RemoveAtProperties
       DEF LoseComments, PostAfter
  <2>2. page' = [page EXCEPT !.loads = loads, !.post = post]
    BY <1>14, <2>0 DEF LoseComments
  <2>. HIDE DEF loads, post
  <2>3. page' \in PageRecord
    BY <2>0, <2>1, <2>2
       DEF PageRecord, ActionRecord, PostRecord, LoadRecord, Refreshes, Previews, Blocks
  <2>. QED
    BY <2>0, <2>3
<1>15. ASSUME NEW b \in Buttons(page.shown), Press(b)
     PROVE  page' \in PageRecord \cup {NULL} /\ (OnPage' <=> OnPage)
  <2>0. OnPage /\ page \in PageRecord
    BY <1>15, <1>0 DEF Press
  <2>. DEFINE act == [which |-> b.which, to |-> b.to, st |-> "sent"]
  <2>1. act \in ActionRecord
    BY <1>15, <2>0 DEF Press, ActionRecord, Buttons, Status
  <2>2. page' = [page EXCEPT !.action = act]
    BY <1>15, <2>0 DEF Press
  <2>. HIDE DEF act
  <2>3. page' \in PageRecord
    BY <2>0, <2>1, <2>2
       DEF PageRecord, ActionRecord, PostRecord, LoadRecord, Refreshes, Previews, Blocks
  <2>. QED
    BY <2>0, <2>3
<1>16. CASE Type
  <2>0. /\ OnPage /\ page \in PageRecord /\ page' = [page EXCEPT !.draft = typed + 1]
        /\ typed + 1 \in Nat
    BY <1>16, <1>0 DEF Type, FileTypeOK
  <2>1. page' \in PageRecord
    BY <2>0 DEF PageRecord
  <2>. QED
    BY <2>0, <2>1
<1>17. CASE Submit
  <2>0. OnPage /\ page \in PageRecord
    BY <1>17, <1>0 DEF Submit
  <2>. DEFINE post == [text |-> page.draft, st |-> "sent"]
  <2>1. post \in PostRecord
    BY <1>17, <2>0, FieldsOfPage DEF Submit, PostRecord
  <2>2. page' = [page EXCEPT !.post = post]
    BY <1>17, <2>0 DEF Submit
  <2>. HIDE DEF post
  <2>3. page' \in PageRecord
    BY <2>0, <2>1, <2>2
       DEF PageRecord, ActionRecord, PostRecord, LoadRecord, Refreshes, Previews, Blocks
  <2>. QED
    BY <2>0, <2>3
<1>18. CASE OthersDecide
  BY <1>18, DoubtedIsPage DEF FileTypeOK, OthersDecide
<1>19. CASE OthersDelete
  BY <1>19, DoubtedIsPage DEF FileTypeOK, OthersDelete
<1>20. CASE OthersComment
  BY <1>20 DEF FileTypeOK, OthersComment
<1>21. CASE CollaboraFrame
  <2>0. OnPage /\ page \in PageRecord /\ page' = [page EXCEPT !.preview = "branded"]
    BY <1>21, <1>0 DEF CollaboraFrame
  <2>1. page' \in PageRecord
    BY <2>0 DEF PageRecord
  <2>. QED
    BY <2>0, <2>1
<1>. QED
  BY <1>1, <1>2, <1>3, <1>4, <1>5, <1>6, <1>7, <1>8, <1>9, <1>10, <1>11,
     <1>12, <1>13, <1>14, <1>15, <1>16, <1>17, <1>18, <1>19, <1>20, <1>21
     DEF PageSteps, FilePageAnswers, ServeAction, UsePage

\* The answers of the preview and of the read-only blocks change nothing else.
LEMMA PanesOnly ==
    ASSUME page \in PageRecord \cup {NULL}, NEW allowed, NEW ok, LoadPanes(allowed, ok)
    PROVE  /\ OnPage /\ page \in PageRecord
           /\ page'.shown = page.shown /\ page'.refresh = page.refresh /\ page'.again = page.again
           /\ page'.action = page.action /\ page'.items = page.items /\ page'.loads = page.loads
           /\ page'.draft = page.draft /\ page'.post = page.post /\ page'.doubt = page.doubt
           /\ UNCHANGED <<comments, typed, replaced, dropped, rushed, unsure, status>>
<1>1. OnPage /\ page \in PageRecord
  BY DEF LoadPanes, PreviewAnswer, VersionsBlock, WorkflowBlock, ImageFails, OnPage
<1>2. UNCHANGED <<comments, typed, replaced, dropped, rushed, unsure, status>>
  BY DEF LoadPanes, PreviewAnswer, VersionsBlock, WorkflowBlock, ImageFails, Reads, Fault,
         history, rows, server
<1>3. CASE PreviewAnswer(ok)
  BY <1>1, <1>2, <1>3 DEF PreviewAnswer, PageRecord
<1>4. CASE VersionsBlock(ok)
  BY <1>1, <1>2, <1>4 DEF VersionsBlock, PageRecord
<1>5. CASE WorkflowBlock(ok)
  BY <1>1, <1>2, <1>5 DEF WorkflowBlock, PageRecord
<1>6. CASE ImageFails
  BY <1>1, <1>2, <1>6 DEF ImageFails, PageRecord
<1>. QED
  BY <1>3, <1>4, <1>5, <1>6 DEF LoadPanes

LEMMA CommentsGrow ==
    ASSUME FileTypeOK, NEW e \in 0..typed
    PROVE  LET longer == Append(comments, e)
           IN  /\ longer \in Seq(0..typed)
               /\ Len(longer) = Len(comments) + 1 /\ Len(comments) \in Nat
               /\ longer[Len(comments) + 1] = e
               /\ \A k \in DOMAIN comments : longer[k] = comments[k]
               /\ DOMAIN comments = 1..Len(comments)
               /\ DOMAIN longer = 1..(Len(comments) + 1)
               /\ Range(longer) = Range(comments) \cup {e}
<1>1. comments \in Seq(0..typed)
  BY DEF FileTypeOK
<1>2. /\ Append(comments, e) \in Seq(0..typed)
      /\ Len(Append(comments, e)) = Len(comments) + 1
      /\ Append(comments, e)[Len(comments) + 1] = e
      /\ \A k \in 1..Len(comments) : Append(comments, e)[k] = comments[k]
  BY <1>1, AppendProperties
<1>4. DOMAIN comments = 1..Len(comments) /\ Len(comments) \in Nat
  BY <1>1
<1>5. DOMAIN Append(comments, e) = 1..(Len(comments) + 1)
  BY <1>2
<1>6. Range(Append(comments, e)) = Range(comments) \cup {e}
  BY <1>2, <1>4, <1>5 DEF Range
<1>. QED
  BY <1>2, <1>4, <1>5, <1>6

LEMMA ServerTypeStep ==
    ASSUME PageInv, NEW allowed \in BOOLEAN, NEW user \in BOOLEAN, PageSteps(allowed, user)
    PROVE  ServerTypeOK'
<1>. USE ServerAssumption DEF PageInv, ServerTypeOK, SetupRecord
<1>0. OnPage => page \in PageRecord
  BY DEF FileTypeOK, OnPage
<1>1. CASE ServeAction(allowed)
  <2>1. status' \in Status
    BY <1>1, ActionIsServed DEF Pressed, ActionFits
  <2>. QED
    BY <1>1, <2>1, ActionIsServed
<1>2. CASE PatchDone
  BY <1>2 DEF PatchDone, Pressed, OnlyPage, server, rows, history
<1>3. CASE ActionRefused
  BY <1>3 DEF ActionRefused, Pressed, OnlyPage, server, rows, history
<1>4. CASE LoseAction
  BY <1>4 DEF LoseAction, Fault, Mishap, server, rows, history
<1>5. ASSUME NEW ok \in BOOLEAN, ReadRefresh(allowed, ok)
     PROVE  ServerTypeOK'
  BY <1>5 DEF ReadRefresh, Reads, Fault, Mishap, server, rows
<1>6. CASE ArriveRefresh
  BY <1>6 DEF ArriveRefresh, OnlyPage, server, rows, history
<1>7. ASSUME NEW ok \in BOOLEAN, LoadPanes(allowed, ok)
     PROVE  ServerTypeOK'
  BY <1>7 DEF LoadPanes, Reads, Fault, Mishap, server, rows
<1>8. CASE ServePost(allowed)
  BY <1>8 DEF ServePost, Posting, server, rows, history
<1>9. CASE Posted
  BY <1>9 DEF Posted, Posting, OnlyPage, ReloadComments, server, rows, history
<1>10. CASE PostRefused
  BY <1>10 DEF PostRefused, Posting, OnlyPage, server, rows, history
<1>11. CASE LosePost
  BY <1>11 DEF LosePost, Fault, Mishap, server, rows, history
<1>12. ASSUME NEW i \in DOMAIN page.loads, OnPage, ReadComments(i, allowed)
     PROVE  ServerTypeOK'
  BY <1>12 DEF ReadComments, OnlyPage, server, rows, history
<1>13. ASSUME NEW i \in DOMAIN page.loads, OnPage, ArriveComments(i)
     PROVE  ServerTypeOK'
  BY <1>13 DEF ArriveComments, PostAfter, OnlyPage, server, rows, history
<1>14. ASSUME NEW i \in DOMAIN page.loads, OnPage, LoseComments(i)
     PROVE  ServerTypeOK'
  BY <1>14 DEF LoseComments, PostAfter, Fault, Mishap, server, rows, history
<1>15. ASSUME NEW b \in Buttons(page.shown), Press(b)
     PROVE  ServerTypeOK'
  BY <1>15 DEF Press, Act, rows
<1>16. CASE Type
  BY <1>16 DEF Type, server, rows, history
<1>17. CASE Submit
  BY <1>17 DEF Submit, Act, server, rows, history
<1>18. CASE OthersDecide
  BY <1>18 DEF OthersDecide, Mishap, Doubted, server, rows, history
<1>19. CASE OthersDelete
  BY <1>19 DEF OthersDelete, Mishap, Doubted, server, rows, history
<1>20. CASE OthersComment
  BY <1>20 DEF OthersComment, Mishap, server, rows, history
<1>21. CASE CollaboraFrame
  BY <1>21 DEF CollaboraFrame, OnlyPage, server, rows, history
<1>. QED
  BY <1>1, <1>2, <1>3, <1>4, <1>5, <1>6, <1>7, <1>8, <1>9, <1>10, <1>11,
     <1>12, <1>13, <1>14, <1>15, <1>16, <1>17, <1>18, <1>19, <1>20, <1>21
     DEF PageSteps, FilePageAnswers, ServeAction, UsePage

LEMMA PageTypeStep ==
    ASSUME PageInv, NEW allowed \in BOOLEAN, NEW user \in BOOLEAN, PageSteps(allowed, user)
    PROVE  FileTypeOK'
<1>. USE PageAssumption DEF PageInv, OnPage
<1>0. OnPage => page \in PageRecord
  BY DEF FileTypeOK, OnPage
<1>00. page' \in PageRecord \cup {NULL} /\ (OnPage' <=> OnPage)
  BY PageRecordStep
<1>1. CASE ServeAction(allowed)
  <2>1. OnPage => page'.items = page.items /\ page'.draft = page.draft /\ page'.post = page.post
    BY <1>1, <1>0, ActionIsServed DEF PageRecord
  <2>. QED
    BY <1>1, <1>00, <2>1, ActionIsServed DEF FileTypeOK
<1>2. CASE PatchDone
  BY <1>2, <1>0, <1>00 DEF FileTypeOK, PatchDone, OnlyPage, history, PageRecord
<1>3. CASE ActionRefused
  BY <1>3, <1>0, <1>00 DEF FileTypeOK, ActionRefused, OnlyPage, history, PageRecord
<1>4. CASE LoseAction
  BY <1>4, <1>0, <1>00 DEF FileTypeOK, LoseAction, history, PageRecord
<1>5. ASSUME NEW ok \in BOOLEAN, ReadRefresh(allowed, ok)
     PROVE  FileTypeOK'
  BY <1>5, <1>0, <1>00 DEF FileTypeOK, ReadRefresh, history, PageRecord
<1>6. CASE ArriveRefresh
  BY <1>6, <1>0, <1>00 DEF FileTypeOK, ArriveRefresh, OnlyPage, history, PageRecord
<1>7. ASSUME NEW ok \in BOOLEAN, LoadPanes(allowed, ok)
     PROVE  FileTypeOK'
  <2>0. OnPage
    BY <1>7 DEF LoadPanes, PreviewAnswer, VersionsBlock, WorkflowBlock, ImageFails, OnPage
  <2>1. page'.items = page.items /\ page'.draft = page.draft /\ page'.post = page.post
    BY <1>7, <1>0, <2>0
       DEF LoadPanes, PreviewAnswer, VersionsBlock, WorkflowBlock, ImageFails, PageRecord
  <2>2. UNCHANGED <<comments, typed, history>>
    BY <1>7 DEF LoadPanes, PreviewAnswer, VersionsBlock, WorkflowBlock, ImageFails
  <2>. QED
    BY <1>00, <2>0, <2>1, <2>2 DEF FileTypeOK, history
<1>8. CASE ServePost(allowed)
  <2>0. OnPage /\ page \in PageRecord /\ page.post # NULL
    BY <1>8, <1>0 DEF ServePost, Posting
  <2>1. page'.items = page.items /\ page'.draft = page.draft
    BY <1>8, <2>0 DEF ServePost, PageRecord
  <2>2. page'.post.text = page.post.text
    BY <1>8, <2>0 DEF ServePost, PageRecord, PostRecord
  <2>3. page.post.text \in 0..typed
    BY <2>0 DEF FileTypeOK
  <2>4. comments' \in Seq(0..typed) /\ Len(comments') >= Len(comments)
    <3>1. comments \in Seq(0..typed)
      BY DEF FileTypeOK
    <3>2. comments' \in {comments, Append(comments, page.post.text)}
      BY <1>8 DEF ServePost
    <3>3. /\ Append(comments, page.post.text) \in Seq(0..typed)
          /\ Len(Append(comments, page.post.text)) = Len(comments) + 1
      BY <2>3, <3>1, AppendProperties
    <3>4. Len(comments) \in Nat
      BY <3>1
    <3>5. CASE comments' = comments
      BY <3>1, <3>4, <3>5
    <3>6. CASE comments' = Append(comments, page.post.text)
      BY <3>3, <3>4, <3>6 DEF FileTypeOK
    <3>. QED
      BY <3>2, <3>5, <3>6
  <2>6. Len(comments) \in Nat /\ Len(comments') \in Nat /\ page.items \in Nat \cup {NULL}
    BY <2>0, <2>4, FieldsOfPage DEF FileTypeOK
  <2>5. UNCHANGED <<typed, replaced, dropped, rushed, unsure>>
    BY <1>8 DEF ServePost, history
  <2>. QED
    BY <1>00, <2>0, <2>1, <2>2, <2>4, <2>5, <2>6 DEF FileTypeOK
<1>9. CASE Posted
  <2>0. OnPage /\ page \in PageRecord /\ page.post # NULL
    BY <1>9, <1>0 DEF Posted, Posting
  <2>1. page'.items = page.items /\ page'.draft = 0
    BY <1>9, <2>0 DEF Posted, PageRecord
  <2>2. page'.post.text = page.post.text
    BY <1>9, <2>0 DEF Posted, PageRecord, PostRecord
  <2>. QED
    BY <1>9, <1>00, <2>0, <2>1, <2>2 DEF FileTypeOK, Posted, OnlyPage, history
<1>10. CASE PostRefused
  BY <1>10, <1>0, <1>00 DEF FileTypeOK, PostRefused, OnlyPage, history, PageRecord
<1>11. CASE LosePost
  BY <1>11, <1>0, <1>00 DEF FileTypeOK, LosePost, history, PageRecord
<1>12. ASSUME NEW i \in DOMAIN page.loads, OnPage, ReadComments(i, allowed)
     PROVE  FileTypeOK'
  BY <1>12, <1>0, <1>00 DEF FileTypeOK, ReadComments, OnlyPage, history, PageRecord
<1>13. ASSUME NEW i \in DOMAIN page.loads, OnPage, ArriveComments(i)
     PROVE  FileTypeOK'
  <2>0. page \in PageRecord
    BY <1>13, <1>0
  <2>1. page'.draft = page.draft /\ page'.post \in {NULL, page.post}
    BY <1>13, <2>0 DEF ArriveComments, PostAfter, PageRecord
  <2>2. page'.items \in {page.items, page.loads[i].n}
    BY <1>13, <2>0 DEF ArriveComments, PageRecord
  <2>3. page.loads[i].n <= Len(comments)
    BY <1>13 DEF LoadsFit
  <2>. QED
    BY <1>13, <1>00, <2>0, <2>1, <2>2, <2>3
       DEF FileTypeOK, ArriveComments, OnlyPage, history
<1>14. ASSUME NEW i \in DOMAIN page.loads, OnPage, LoseComments(i)
     PROVE  FileTypeOK'
  BY <1>14, <1>0, <1>00 DEF FileTypeOK, LoseComments, PostAfter, history, PageRecord
<1>15. ASSUME NEW b \in Buttons(page.shown), Press(b)
     PROVE  FileTypeOK'
  BY <1>15, <1>0, <1>00 DEF FileTypeOK, Press, history, PageRecord
<1>16. CASE Type
  BY <1>16, <1>0, <1>00 DEF FileTypeOK, Type, history, PageRecord
<1>17. CASE Submit
  BY <1>17, <1>0, <1>00 DEF FileTypeOK, Submit, history, PageRecord
<1>18. CASE OthersDecide
  BY <1>18, <1>0, <1>00 DEF FileTypeOK, OthersDecide, Doubted, history, PageRecord
<1>19. CASE OthersDelete
  BY <1>19, <1>0, <1>00 DEF FileTypeOK, OthersDelete, Doubted, history, PageRecord
<1>20. CASE OthersComment
  BY <1>20, <1>0, <1>00 DEF FileTypeOK, OthersComment, history, PageRecord
<1>21. CASE CollaboraFrame
  BY <1>21, <1>0, <1>00 DEF FileTypeOK, CollaboraFrame, OnlyPage, history, PageRecord
<1>. QED
  BY <1>1, <1>2, <1>3, <1>4, <1>5, <1>6, <1>7, <1>8, <1>9, <1>10, <1>11,
     <1>12, <1>13, <1>14, <1>15, <1>16, <1>17, <1>18, <1>19, <1>20, <1>21
     DEF PageSteps, FilePageAnswers, ServeAction, UsePage

LEMMA ActionFitsStep ==
    ASSUME PageInv, NEW allowed \in BOOLEAN, NEW user \in BOOLEAN, PageSteps(allowed, user)
    PROVE  ActionFits'
<1>. USE PageAssumption DEF PageInv, OnPage
<1>0. OnPage => page \in PageRecord
  BY DEF FileTypeOK, OnPage
<1>1. CASE ServeAction(allowed)
  <2>1. page \in PageRecord /\ page.action # NULL /\ page.action \in ActionRecord
    BY <1>1, <1>0, FieldsOfPage, ActionIsServed DEF Pressed
  <2>2. page'.action.which = page.action.which /\ page'.action.to = page.action.to
    BY <1>1, <2>1, ActionIsServed DEF PageRecord, ActionRecord
  <2>. QED
    BY <2>1, <2>2 DEF ActionFits
<1>2. CASE PatchDone
  BY <1>2, <1>0 DEF ActionFits, PatchDone, Pressed, OnlyPage, PageRecord
<1>3. CASE ActionRefused
  BY <1>3, <1>0 DEF ActionFits, ActionRefused, Pressed, OnlyPage, PageRecord
<1>4. CASE LoseAction
  BY <1>4, <1>0 DEF ActionFits, LoseAction, PageRecord
<1>5. ASSUME NEW ok \in BOOLEAN, ReadRefresh(allowed, ok)
     PROVE  ActionFits'
  BY <1>5, <1>0 DEF ActionFits, ReadRefresh, PageRecord
<1>6. CASE ArriveRefresh
  BY <1>6, <1>0 DEF ActionFits, ArriveRefresh, OnlyPage, PageRecord
<1>7. ASSUME NEW ok \in BOOLEAN, LoadPanes(allowed, ok)
     PROVE  ActionFits'
  BY <1>7, PanesOnly DEF FileTypeOK, ActionFits
<1>8. CASE ServePost(allowed)
  BY <1>8, <1>0 DEF ActionFits, ServePost, Posting, PageRecord
<1>9. CASE Posted
  BY <1>9, <1>0 DEF ActionFits, Posted, Posting, OnlyPage, ReloadComments, PageRecord
<1>10. CASE PostRefused
  BY <1>10, <1>0 DEF ActionFits, PostRefused, Posting, OnlyPage, PageRecord
<1>11. CASE LosePost
  BY <1>11, <1>0 DEF ActionFits, LosePost, PageRecord
<1>12. ASSUME NEW i \in DOMAIN page.loads, OnPage, ReadComments(i, allowed)
     PROVE  ActionFits'
  BY <1>12, <1>0 DEF ActionFits, ReadComments, OnlyPage, PageRecord
<1>13. ASSUME NEW i \in DOMAIN page.loads, OnPage, ArriveComments(i)
     PROVE  ActionFits'
  BY <1>13, <1>0 DEF ActionFits, ArriveComments, PostAfter, OnlyPage, PageRecord
<1>14. ASSUME NEW i \in DOMAIN page.loads, OnPage, LoseComments(i)
     PROVE  ActionFits'
  BY <1>14, <1>0 DEF ActionFits, LoseComments, PostAfter, PageRecord
<1>15. ASSUME NEW b \in Buttons(page.shown), Press(b)
     PROVE  ActionFits'
  <2>1. OnPage /\ page'.action.which = b.which /\ page'.action.to = b.to
    BY <1>15, <1>0 DEF Press, PageRecord
  <2>2. b.which # "delete" => b.to \in Status
    BY DEF Buttons, Status
  <2>. QED
    BY <2>1, <2>2 DEF ActionFits
<1>16. CASE Type
  BY <1>16, <1>0 DEF ActionFits, Type, PageRecord
<1>17. CASE Submit
  BY <1>17, <1>0 DEF ActionFits, Submit, PageRecord
<1>18. CASE OthersDecide
  BY <1>18, <1>0 DEF ActionFits, OthersDecide, Doubted, PageRecord
<1>19. CASE OthersDelete
  BY <1>19, <1>0 DEF ActionFits, OthersDelete, Doubted, PageRecord
<1>20. CASE OthersComment
  BY <1>20, <1>0 DEF ActionFits, OthersComment, PageRecord
<1>21. CASE CollaboraFrame
  BY <1>21, <1>0 DEF ActionFits, CollaboraFrame, OnlyPage, PageRecord
<1>. QED
  BY <1>1, <1>2, <1>3, <1>4, <1>5, <1>6, <1>7, <1>8, <1>9, <1>10, <1>11,
     <1>12, <1>13, <1>14, <1>15, <1>16, <1>17, <1>18, <1>19, <1>20, <1>21
     DEF PageSteps, FilePageAnswers, ServeAction, UsePage

LEMMA ScreenStep ==
    ASSUME PageInv, NEW allowed \in BOOLEAN, NEW user \in BOOLEAN, PageSteps(allowed, user)
    PROVE  ScreenInv'
<1>. USE PageAssumption DEF PageInv, OnPage
<1>0. OnPage => page \in PageRecord
  BY DEF FileTypeOK, OnPage
<1>1. CASE ServeAction(allowed)
  <2>1. OnPage /\ page \in PageRecord /\ page.action # NULL /\ page.action.st = "sent"
        /\ page.action \in ActionRecord
    BY <1>1, <1>0, FieldsOfPage, ActionIsServed DEF Pressed
  <2>2. /\ page'.shown = page.shown /\ page'.refresh = page.refresh
        /\ page'.again = page.again /\ page'.doubt = page.doubt
        /\ page'.action # NULL /\ (status' # status => page'.action.st = "ok")
    <3>1. PICK st \in {"unauth", "ok", "refused"} :
            page' = [page EXCEPT !.action.st = st] /\ (status' # status => st = "ok")
      BY <1>1, ActionIsServed
    <3>. DEFINE act == [page.action EXCEPT !.st = st]
    <3>2. act \in ActionRecord /\ act.st = st /\ page' = [page EXCEPT !.action = act]
      BY <2>1, <3>1 DEF ActionRecord
    <3>. HIDE DEF act
    <3>. QED
      BY <2>1, <3>1, <3>2 DEF PageRecord
  <2>. QED
    BY <2>1, <2>2 DEF ScreenInv
<1>2. CASE PatchDone
  BY <1>2, <1>0
     DEF ScreenInv, PatchDone, Pressed, OnlyPage, rows, server, PageRecord, Status
<1>3. CASE ActionRefused
  BY <1>3, <1>0
     DEF ScreenInv, ActionRefused, Pressed, OnlyPage, rows, server, PageRecord, Status
<1>4. CASE LoseAction
  BY <1>4, <1>0 DEF ScreenInv, LoseAction, rows, server, PageRecord, Status
<1>5. ASSUME NEW ok \in BOOLEAN, ReadRefresh(allowed, ok)
     PROVE  ScreenInv'
  <2>1. OnPage /\ page \in PageRecord /\ status' = status
    BY <1>5, <1>0 DEF ReadRefresh, Reads, Fault, server, rows
  <2>2. /\ page'.refresh \in {status, "gone"}
        /\ page'.action = page.action /\ page'.doubt = page.doubt
    BY <1>5, <2>1 DEF ReadRefresh, PageRecord
  <2>3. "none" # status /\ "gone" \notin Status
    BY DEF ServerTypeOK, Status
  <2>. QED
    BY <2>1, <2>2, <2>3 DEF ScreenInv
<1>6. CASE ArriveRefresh
  BY <1>6, <1>0 DEF ScreenInv, ArriveRefresh, OnlyPage, rows, server, PageRecord, Status
<1>7. ASSUME NEW ok \in BOOLEAN, LoadPanes(allowed, ok)
     PROVE  ScreenInv'
  BY <1>7, PanesOnly DEF FileTypeOK, ScreenInv
<1>8. CASE ServePost(allowed)
  BY <1>8, <1>0 DEF ScreenInv, ServePost, Posting, rows, server, PageRecord, Status
<1>9. CASE Posted
  BY <1>9, <1>0
     DEF ScreenInv, Posted, Posting, OnlyPage, ReloadComments, rows, server, PageRecord,
         Status
<1>10. CASE PostRefused
  BY <1>10, <1>0
     DEF ScreenInv, PostRefused, Posting, OnlyPage, rows, server, PageRecord, Status
<1>11. CASE LosePost
  BY <1>11, <1>0 DEF ScreenInv, LosePost, Fault, rows, PageRecord
<1>12. ASSUME NEW i \in DOMAIN page.loads, OnPage, ReadComments(i, allowed)
     PROVE  ScreenInv'
  BY <1>12, <1>0 DEF ScreenInv, ReadComments, OnlyPage, rows, server, PageRecord, Status
<1>13. ASSUME NEW i \in DOMAIN page.loads, OnPage, ArriveComments(i)
     PROVE  ScreenInv'
  BY <1>13, <1>0
     DEF ScreenInv, ArriveComments, PostAfter, OnlyPage, rows, server, PageRecord, Status
<1>14. ASSUME NEW i \in DOMAIN page.loads, OnPage, LoseComments(i)
     PROVE  ScreenInv'
  BY <1>14, <1>0 DEF ScreenInv, LoseComments, Fault, rows, PageRecord
<1>15. ASSUME NEW b \in Buttons(page.shown), Press(b)
     PROVE  ScreenInv'
  BY <1>15, <1>0 DEF ScreenInv, Press, Buttons, rows, server, PageRecord, Status
<1>16. CASE Type
  BY <1>16, <1>0 DEF ScreenInv, Type, rows, server, PageRecord, Status
<1>17. CASE Submit
  BY <1>17, <1>0 DEF ScreenInv, Submit, rows, server, PageRecord, Status
<1>18. CASE OthersDecide
  BY <1>18, <1>0 DEF ScreenInv, OthersDecide, Doubted, rows, server, PageRecord, Status
<1>19. CASE OthersDelete
  BY <1>19, <1>0 DEF ScreenInv, OthersDelete, Doubted, rows, server, PageRecord, Status
<1>20. CASE OthersComment
  BY <1>20, <1>0 DEF ScreenInv, OthersComment, rows, server, PageRecord, Status
<1>21. CASE CollaboraFrame
  BY <1>21, <1>0 DEF ScreenInv, CollaboraFrame, OnlyPage, rows, server, PageRecord, Status
<1>. QED
  BY <1>1, <1>2, <1>3, <1>4, <1>5, <1>6, <1>7, <1>8, <1>9, <1>10, <1>11,
     <1>12, <1>13, <1>14, <1>15, <1>16, <1>17, <1>18, <1>19, <1>20, <1>21
     DEF PageSteps, FilePageAnswers, ServeAction, UsePage

LEMMA LoadsFitStep ==
    ASSUME PageInv, NEW allowed \in BOOLEAN, NEW user \in BOOLEAN, PageSteps(allowed, user)
    PROVE  LoadsFit'
<1>. USE PageAssumption DEF PageInv, OnPage
<1>0. OnPage => page \in PageRecord
  BY DEF FileTypeOK, OnPage
<1>1. CASE ServeAction(allowed)
  <2>1. OnPage => page'.loads = page.loads /\ page'.post = page.post
    BY <1>1, <1>0, ActionIsServed DEF PageRecord
  <2>2. OnPage' <=> OnPage
    BY PageRecordStep
  <2>. QED
    BY <1>1, <2>1, <2>2, ActionIsServed DEF LoadsFit
<1>2. CASE PatchDone
  BY <1>2, <1>0 DEF LoadsFit, PatchDone, Pressed, OnlyPage, history, PageRecord
<1>3. CASE ActionRefused
  BY <1>3, <1>0 DEF LoadsFit, ActionRefused, Pressed, OnlyPage, history, PageRecord
<1>4. CASE LoseAction
  BY <1>4, <1>0 DEF LoadsFit, LoseAction, history, PageRecord
<1>5. ASSUME NEW ok \in BOOLEAN, ReadRefresh(allowed, ok)
     PROVE  LoadsFit'
  BY <1>5, <1>0 DEF LoadsFit, ReadRefresh, history, PageRecord
<1>6. CASE ArriveRefresh
  BY <1>6, <1>0 DEF LoadsFit, ArriveRefresh, OnlyPage, history, PageRecord
<1>7. ASSUME NEW ok \in BOOLEAN, LoadPanes(allowed, ok)
     PROVE  LoadsFit'
  BY <1>7, PanesOnly DEF FileTypeOK, LoadsFit
<1>8. CASE ServePost(allowed)
  <2>1. OnPage /\ page \in PageRecord /\ page.loads \in Seq(LoadRecord)
    BY <1>8, <1>0, FieldsOfPage DEF ServePost, Posting
  <2>2. page'.loads = page.loads /\ page.post # NULL /\ page.post.st = "sent"
    BY <1>8, <2>1 DEF ServePost, Posting, PageRecord
  <2>3. \A i \in DOMAIN page.loads : page.loads[i].n \in Nat /\ page.loads[i].for # "post"
    <3>1. \A i \in DOMAIN page.loads : page.loads[i] \in LoadRecord
      BY <2>1, ElementOfSeq
    <3>. QED
      BY <2>1, <2>2, <3>1 DEF LoadsFit, LoadRecord
  <2>4. page.post.text \in 0..typed
    BY <2>1, <2>2 DEF FileTypeOK
  <2>5. Len(comments) \in Nat /\ Len(comments') \in {Len(comments), Len(comments) + 1}
    <3>1. comments' \in {comments, Append(comments, page.post.text)}
      BY <1>8 DEF ServePost
    <3>. QED
      BY <2>4, <3>1, CommentsGrow
  <2>. QED
    BY <2>1, <2>2, <2>3, <2>5 DEF LoadsFit
<1>9. CASE Posted
  <2>1. OnPage /\ page \in PageRecord /\ page.loads \in Seq(LoadRecord)
    BY <1>9, <1>0, FieldsOfPage DEF Posted, Posting
  <2>. DEFINE load == [for |-> "post", st |-> "sent", n |-> 0]
  <2>2. /\ page'.loads = Append(page.loads, load)
        /\ page.post # NULL /\ page.post.st = "ok" /\ comments' = comments
    BY <1>9, <2>1 DEF Posted, Posting, OnlyPage, ReloadComments, PageRecord
  <2>3. page'.post # NULL /\ page'.post.st = "reload"
    BY <1>9, <2>1, <2>2, FieldsOfPage DEF Posted, PageRecord, PostRecord
  <2>4. \A i \in DOMAIN page.loads : page.loads[i].for # "post"
    BY <2>1, <2>2 DEF LoadsFit
  <2>5. load \in LoadRecord
    BY DEF LoadRecord
  <2>6. /\ DOMAIN page'.loads = 1..(Len(page.loads) + 1) /\ page'.loads[Len(page.loads) + 1] = load
        /\ DOMAIN page.loads = 1..Len(page.loads) /\ Len(page.loads) \in Nat
        /\ \A i \in 1..Len(page.loads) : page'.loads[i] = page.loads[i]
    BY <2>1, <2>2, <2>5, AppendProperties
  <2>7. Len(comments) >= 0
    BY DEF FileTypeOK
  <2>. QED
    BY <2>1, <2>2, <2>3, <2>4, <2>6, <2>7 DEF LoadsFit
<1>10. CASE PostRefused
  BY <1>10, <1>0 DEF LoadsFit, PostRefused, Posting, OnlyPage, history, PageRecord
<1>11. CASE LosePost
  BY <1>11, <1>0 DEF LoadsFit, LosePost, history, PageRecord
<1>12. ASSUME NEW i \in DOMAIN page.loads, OnPage, ReadComments(i, allowed)
     PROVE  LoadsFit'
  BY <1>12, <1>0 DEF LoadsFit, ReadComments, OnlyPage, history, PageRecord
<1>13. ASSUME NEW i \in DOMAIN page.loads, OnPage, ArriveComments(i)
     PROVE  LoadsFit'
  <2>1. page \in PageRecord /\ page.loads \in Seq(LoadRecord) /\ i \in 1..Len(page.loads)
    BY <1>13, <1>0, FieldsOfPage
  <2>2. page'.loads = RemoveAt(page.loads, i) /\ page'.post = PostAfter(i) /\ comments' = comments
    BY <1>13, <2>1 DEF ArriveComments, OnlyPage, PageRecord
  <2>3. \A k \in DOMAIN page'.loads : \E j \in DOMAIN page.loads \ {i} :
            page'.loads[k] = page.loads[j] /\ j = IF k < i THEN k ELSE k + 1
    BY <2>1, <2>2, RemoveAtElements
  <2>4. \A k \in DOMAIN page'.loads : page'.loads[k].n <= Len(comments)
    BY <1>13, <2>3 DEF LoadsFit
  <2>5. ASSUME NEW k \in DOMAIN page'.loads, page'.loads[k].for = "post"
        PROVE  page'.post = page.post /\ page.post # NULL /\ page.post.st = "reload"
    BY <1>13, <2>2, <2>3, <2>5 DEF LoadsFit, PostAfter
  <2>6. DOMAIN page'.loads \subseteq Nat
    BY <2>1, <2>2, RemoveAtProperties
  <2>7. ASSUME NEW k \in DOMAIN page'.loads, NEW m \in DOMAIN page'.loads,
               page'.loads[k].for = "post", page'.loads[m].for = "post"
        PROVE  k = m
    BY <1>13, <2>1, <2>3, <2>6, <2>7 DEF LoadsFit
  <2>. QED
    BY <2>2, <2>4, <2>5, <2>7 DEF LoadsFit
<1>14. ASSUME NEW i \in DOMAIN page.loads, OnPage, LoseComments(i)
     PROVE  LoadsFit'
  <2>1. page \in PageRecord /\ page.loads \in Seq(LoadRecord) /\ i \in 1..Len(page.loads)
    BY <1>14, <1>0, FieldsOfPage
  <2>2. page'.loads = RemoveAt(page.loads, i) /\ page'.post = PostAfter(i) /\ comments' = comments
    BY <1>14, <2>1 DEF LoseComments, history, PageRecord
  <2>3. \A k \in DOMAIN page'.loads : \E j \in DOMAIN page.loads \ {i} :
            page'.loads[k] = page.loads[j] /\ j = IF k < i THEN k ELSE k + 1
    BY <2>1, <2>2, RemoveAtElements
  <2>4. \A k \in DOMAIN page'.loads : page'.loads[k].n <= Len(comments)
    BY <1>14, <2>3 DEF LoadsFit
  <2>5. ASSUME NEW k \in DOMAIN page'.loads, page'.loads[k].for = "post"
        PROVE  page'.post = page.post /\ page.post # NULL /\ page.post.st = "reload"
    BY <1>14, <2>2, <2>3, <2>5 DEF LoadsFit, PostAfter
  <2>6. DOMAIN page'.loads \subseteq Nat
    BY <2>1, <2>2, RemoveAtProperties
  <2>7. ASSUME NEW k \in DOMAIN page'.loads, NEW m \in DOMAIN page'.loads,
               page'.loads[k].for = "post", page'.loads[m].for = "post"
        PROVE  k = m
    BY <1>14, <2>1, <2>3, <2>6, <2>7 DEF LoadsFit
  <2>. QED
    BY <2>2, <2>4, <2>5, <2>7 DEF LoadsFit
<1>15. ASSUME NEW b \in Buttons(page.shown), Press(b)
     PROVE  LoadsFit'
  BY <1>15, <1>0 DEF LoadsFit, Press, Buttons, history, PageRecord
<1>16. CASE Type
  BY <1>16, <1>0 DEF LoadsFit, Type, history, PageRecord
<1>17. CASE Submit
  BY <1>17, <1>0 DEF LoadsFit, Submit, history, PageRecord
<1>18. CASE OthersDecide
  BY <1>18, <1>0 DEF LoadsFit, OthersDecide, Doubted, history, PageRecord
<1>19. CASE OthersDelete
  BY <1>19, <1>0 DEF LoadsFit, OthersDelete, Doubted, history, PageRecord
<1>20. CASE OthersComment
  <2>1. 0 \in 0..typed
    BY DEF FileTypeOK
  <2>2. Len(comments') = Len(comments) + 1 /\ Len(comments) \in Nat
    BY <1>20, <2>1, CommentsGrow DEF OthersComment
  <2>3. OnPage => \A i \in DOMAIN page.loads : page.loads[i] \in LoadRecord
    BY <1>0, FieldsOfPage, ElementOfSeq
  <2>4. OnPage => \A i \in DOMAIN page.loads : page.loads[i].n \in Nat
    BY <2>3 DEF LoadRecord
  <2>. QED
    BY <1>20, <2>2, <2>4 DEF OthersComment, LoadsFit
<1>21. CASE CollaboraFrame
  BY <1>21, <1>0 DEF LoadsFit, CollaboraFrame, OnlyPage, history, PageRecord
<1>. QED
  BY <1>1, <1>2, <1>3, <1>4, <1>5, <1>6, <1>7, <1>8, <1>9, <1>10, <1>11,
     <1>12, <1>13, <1>14, <1>15, <1>16, <1>17, <1>18, <1>19, <1>20, <1>21
     DEF PageSteps, FilePageAnswers, ServeAction, UsePage

LEMMA TextsUndisturbed ==
    ASSUME PageInv, OnPage' <=> OnPage,
           UNCHANGED <<comments, typed, replaced, dropped, rushed, unsure>>,
           OnPage => page'.draft = page.draft /\ page'.post = page.post
    PROVE  TextsInv'
<1>1. TextsKept'
  BY DEF PageInv, TextsInv, TextsKept
<1>2. TextsOnce'
  BY DEF PageInv, TextsInv, TextsOnce
<1>3. FieldIsFresh'
  BY DEF PageInv, TextsInv, FieldIsFresh
<1>4. PostIsKnown'
  BY DEF PageInv, TextsInv, PostIsKnown
<1>. QED
  BY <1>1, <1>2, <1>3, <1>4 DEF TextsInv

LEMMA TextsStep ==
    ASSUME PageInv, NEW allowed \in BOOLEAN, NEW user \in BOOLEAN, PageSteps(allowed, user)
    PROVE  TextsInv'
<1>. USE PageAssumption DEF PageInv, TextsInv, OnPage
<1>0. OnPage => page \in PageRecord
  BY DEF FileTypeOK, OnPage
<1>00. OnPage' <=> OnPage
  BY PageRecordStep DEF OnPage
<1>1. CASE ServeAction(allowed)
  <2>1. UNCHANGED <<comments, typed, replaced, dropped, rushed, unsure>>
    BY <1>1, ActionIsServed
  <2>2. OnPage => page'.draft = page.draft /\ page'.post = page.post
    BY <1>1, <1>0, ActionIsServed DEF PageRecord
  <2>. QED
    BY <1>00, <2>1, <2>2, TextsUndisturbed
<1>2. CASE PatchDone
  <2>1. UNCHANGED <<comments, typed, replaced, dropped, rushed, unsure>>
    BY <1>2 DEF PatchDone, OnlyPage, history
  <2>2. OnPage => page'.draft = page.draft /\ page'.post = page.post
    BY <1>2, <1>0 DEF PatchDone, OnlyPage, PageRecord
  <2>. QED
    BY <1>00, <2>1, <2>2, TextsUndisturbed
<1>3. CASE ActionRefused
  <2>1. UNCHANGED <<comments, typed, replaced, dropped, rushed, unsure>>
    BY <1>3 DEF ActionRefused, OnlyPage, history
  <2>2. OnPage => page'.draft = page.draft /\ page'.post = page.post
    BY <1>3, <1>0 DEF ActionRefused, OnlyPage, PageRecord
  <2>. QED
    BY <1>00, <2>1, <2>2, TextsUndisturbed
<1>4. CASE LoseAction
  <2>1. UNCHANGED <<comments, typed, replaced, dropped, rushed, unsure>>
    BY <1>4 DEF LoseAction, history
  <2>2. OnPage => page'.draft = page.draft /\ page'.post = page.post
    BY <1>4, <1>0 DEF LoseAction, PageRecord
  <2>. QED
    BY <1>00, <2>1, <2>2, TextsUndisturbed
<1>5. ASSUME NEW ok \in BOOLEAN, ReadRefresh(allowed, ok)
     PROVE  TextsInv'
  <2>1. UNCHANGED <<comments, typed, replaced, dropped, rushed, unsure>>
    BY <1>5 DEF ReadRefresh, history
  <2>2. OnPage => page'.draft = page.draft /\ page'.post = page.post
    BY <1>5, <1>0 DEF ReadRefresh, PageRecord
  <2>. QED
    BY <1>00, <2>1, <2>2, TextsUndisturbed
<1>6. CASE ArriveRefresh
  <2>1. UNCHANGED <<comments, typed, replaced, dropped, rushed, unsure>>
    BY <1>6 DEF ArriveRefresh, OnlyPage, history
  <2>2. OnPage => page'.draft = page.draft /\ page'.post = page.post
    BY <1>6, <1>0 DEF ArriveRefresh, OnlyPage, PageRecord
  <2>. QED
    BY <1>00, <2>1, <2>2, TextsUndisturbed
<1>7. ASSUME NEW ok \in BOOLEAN, LoadPanes(allowed, ok)
     PROVE  TextsInv'
  BY <1>7, <1>00, PanesOnly, TextsUndisturbed DEF FileTypeOK
<1>8. CASE ServePost(allowed)
  <2>1. OnPage /\ page \in PageRecord /\ page.post \in {NULL} \cup PostRecord
    BY <1>8, <1>0, FieldsOfPage DEF ServePost, Posting
  <2>2. page.post # NULL /\ page.post.st = "sent" /\ page.post.text \in 1..typed
    BY <1>8 DEF ServePost, Posting, FileTypeOK
  <2>3. /\ page'.draft = page.draft /\ page'.post.text = page.post.text
        /\ UNCHANGED <<typed, replaced, dropped, rushed, unsure>>
    BY <1>8, <2>1, <2>2 DEF ServePost, history, PageRecord, PostRecord
  <2>4. CASE allowed /\ Visited \in stored
    <3>1. page'.post.st = "ok" /\ page'.post # NULL
      BY <1>8, <2>1, <2>2, <2>4 DEF ServePost, PageRecord, PostRecord
    <3>2. comments' = Append(comments, page.post.text)
      BY <1>8, <2>4 DEF ServePost
    <3>3. /\ Range(comments') = Range(comments) \cup {page.post.text}
          /\ DOMAIN comments = 1..Len(comments) /\ Len(comments) \in Nat
          /\ DOMAIN comments' = 1..(Len(comments) + 1)
          /\ comments'[Len(comments) + 1] = page.post.text
          /\ \A k \in DOMAIN comments : comments'[k] = comments[k]
      BY <2>2, <3>2, CommentsGrow DEF FileTypeOK
    <3>4. page.post.text \in unsure \/ page.post.text \notin Range(comments)
      BY <2>1, <2>2 DEF PostIsKnown
    <3>5. \A k \in DOMAIN comments : comments[k] \in Range(comments)
      BY DEF Range
    <3>6. TextsKept'
      BY <1>00, <2>1, <2>2, <2>3, <3>1, <3>3, <3>4, <3>5 DEF TextsKept
    <3>7. TextsOnce'
      BY <1>00, <2>1, <2>2, <2>3, <3>1, <3>3, <3>4, <3>5 DEF TextsOnce
    <3>8. FieldIsFresh'
      BY <1>00, <2>1, <2>2, <2>3, <3>1, <3>3, <3>4, <3>5 DEF FieldIsFresh
    <3>9. PostIsKnown'
      BY <1>00, <2>1, <2>2, <2>3, <3>1, <3>3, <3>4, <3>5 DEF PostIsKnown
    <3>. QED
      BY <3>6, <3>7, <3>8, <3>9 DEF TextsInv
  <2>5. CASE ~(allowed /\ Visited \in stored)
    <3>1. page'.post.st = "refused" /\ comments' = comments
      BY <1>8, <2>1, <2>2, <2>5 DEF ServePost, PageRecord, PostRecord
    <3>2. TextsKept'
      BY <1>00, <2>1, <2>2, <2>3, <3>1 DEF TextsKept
    <3>3. TextsOnce'
      BY <1>00, <2>1, <2>2, <2>3, <3>1 DEF TextsOnce
    <3>4. FieldIsFresh'
      BY <1>00, <2>1, <2>2, <2>3, <3>1 DEF FieldIsFresh
    <3>5. PostIsKnown'
      BY <1>00, <2>1, <2>2, <2>3, <3>1 DEF PostIsKnown
    <3>. QED
      BY <3>2, <3>3, <3>4, <3>5 DEF TextsInv
  <2>. QED
    BY <2>4, <2>5
<1>9. CASE Posted
  <2>1. OnPage /\ page \in PageRecord /\ page.post \in {NULL} \cup PostRecord
    BY <1>9, <1>0, FieldsOfPage DEF Posted, Posting
  <2>2. page.post # NULL /\ page.post.st = "ok"
    BY <1>9 DEF Posted, Posting
  <2>3. /\ page'.draft = 0 /\ page'.post.st = "reload" /\ page'.post.text = page.post.text
        /\ UNCHANGED <<comments, typed, replaced, dropped, rushed, unsure>>
    BY <1>9, <2>1, <2>2 DEF Posted, OnlyPage, history, PageRecord, PostRecord
  <2>4. TextsKept'
    BY <1>00, <2>1, <2>2, <2>3 DEF TextsKept, PostIsKnown
  <2>5. TextsOnce'
    BY <1>00, <2>1, <2>2, <2>3 DEF TextsOnce
  <2>6. FieldIsFresh'
    BY <1>00, <2>1, <2>2, <2>3 DEF FieldIsFresh
  <2>7. PostIsKnown'
    BY <1>00, <2>1, <2>2, <2>3 DEF PostIsKnown
  <2>. QED
    BY <2>4, <2>5, <2>6, <2>7 DEF TextsInv
<1>10. CASE PostRefused
  <2>1. OnPage /\ page \in PageRecord /\ page.post \in {NULL} \cup PostRecord
    BY <1>10, <1>0, FieldsOfPage DEF PostRefused, Posting
  <2>2. page.post # NULL /\ page.post.st = "refused"
    BY <1>10 DEF PostRefused, Posting
  <2>3. /\ page'.post = NULL /\ page'.draft = page.draft
        /\ UNCHANGED <<comments, typed, replaced, dropped, rushed, unsure>>
    BY <1>10, <2>1 DEF PostRefused, OnlyPage, history, PageRecord
  <2>4. TextsKept'
    BY <1>00, <2>1, <2>2, <2>3 DEF TextsKept
  <2>5. TextsOnce'
    BY <1>00, <2>1, <2>2, <2>3 DEF TextsOnce
  <2>6. FieldIsFresh'
    BY <1>00, <2>1, <2>2, <2>3 DEF FieldIsFresh
  <2>7. PostIsKnown'
    BY <1>00, <2>1, <2>2, <2>3 DEF PostIsKnown
  <2>. QED
    BY <2>4, <2>5, <2>6, <2>7 DEF TextsInv
<1>11. CASE LosePost
  <2>1. OnPage /\ page \in PageRecord /\ page.post \in {NULL} \cup PostRecord
    BY <1>11, <1>0, FieldsOfPage DEF LosePost
  <2>2. page.post # NULL /\ page.post.st \in {"sent", "ok"}
    BY <1>11 DEF LosePost
  <2>3. /\ page'.post = NULL /\ page'.draft = page.draft /\ unsure' = unsure \cup {page.post.text}
        /\ UNCHANGED <<comments, typed, replaced, dropped, rushed>>
    BY <1>11, <2>1 DEF LosePost, PageRecord
  <2>4. TextsKept'
    BY <1>00, <2>1, <2>2, <2>3 DEF TextsKept
  <2>5. TextsOnce'
    BY <1>00, <2>1, <2>2, <2>3 DEF TextsOnce
  <2>6. FieldIsFresh'
    BY <1>00, <2>1, <2>2, <2>3 DEF FieldIsFresh
  <2>7. PostIsKnown'
    BY <1>00, <2>1, <2>2, <2>3 DEF PostIsKnown
  <2>. QED
    BY <2>4, <2>5, <2>6, <2>7 DEF TextsInv
<1>12. ASSUME NEW i \in DOMAIN page.loads, OnPage, ReadComments(i, allowed)
     PROVE  TextsInv'
  <2>1. UNCHANGED <<comments, typed, replaced, dropped, rushed, unsure>>
    BY <1>12 DEF ReadComments, OnlyPage, history
  <2>2. OnPage => page'.draft = page.draft /\ page'.post = page.post
    BY <1>12, <1>0 DEF ReadComments, OnlyPage, PageRecord
  <2>. QED
    BY <1>00, <2>1, <2>2, TextsUndisturbed
<1>13. ASSUME NEW i \in DOMAIN page.loads, OnPage, ArriveComments(i)
     PROVE  TextsInv'
  <2>1. OnPage /\ page \in PageRecord
    BY <1>13, <1>0
  <2>2. \/ page'.post = page.post
        \/ page'.post = NULL /\ page.post # NULL /\ page.post.st = "reload"
    BY <1>13, <2>1 DEF ArriveComments, PostAfter, PageRecord, LoadsFit
  <2>3. /\ page'.draft = page.draft
        /\ UNCHANGED <<comments, typed, replaced, dropped, rushed, unsure>>
    BY <1>13, <2>1 DEF ArriveComments, OnlyPage, history, PageRecord
  <2>4. TextsKept'
    BY <1>00, <2>1, <2>2, <2>3 DEF TextsKept
  <2>5. TextsOnce'
    BY <1>00, <2>1, <2>2, <2>3 DEF TextsOnce
  <2>6. FieldIsFresh'
    BY <1>00, <2>1, <2>2, <2>3 DEF FieldIsFresh
  <2>7. PostIsKnown'
    BY <1>00, <2>1, <2>2, <2>3 DEF PostIsKnown
  <2>. QED
    BY <2>4, <2>5, <2>6, <2>7 DEF TextsInv
<1>14. ASSUME NEW i \in DOMAIN page.loads, OnPage, LoseComments(i)
     PROVE  TextsInv'
  <2>1. OnPage /\ page \in PageRecord
    BY <1>14, <1>0
  <2>2. \/ page'.post = page.post
        \/ page'.post = NULL /\ page.post # NULL /\ page.post.st = "reload"
    BY <1>14, <2>1 DEF LoseComments, PostAfter, PageRecord, LoadsFit
  <2>3. /\ page'.draft = page.draft
        /\ UNCHANGED <<comments, typed, replaced, dropped, rushed, unsure>>
    BY <1>14, <2>1 DEF LoseComments, history, PageRecord
  <2>4. TextsKept'
    BY <1>00, <2>1, <2>2, <2>3 DEF TextsKept
  <2>5. TextsOnce'
    BY <1>00, <2>1, <2>2, <2>3 DEF TextsOnce
  <2>6. FieldIsFresh'
    BY <1>00, <2>1, <2>2, <2>3 DEF FieldIsFresh
  <2>7. PostIsKnown'
    BY <1>00, <2>1, <2>2, <2>3 DEF PostIsKnown
  <2>. QED
    BY <2>4, <2>5, <2>6, <2>7 DEF TextsInv
<1>15. ASSUME NEW b \in Buttons(page.shown), Press(b)
     PROVE  TextsInv'
  <2>1. UNCHANGED <<comments, typed, replaced, dropped, rushed, unsure>>
    BY <1>15 DEF Press, history
  <2>2. OnPage => page'.draft = page.draft /\ page'.post = page.post
    BY <1>15, <1>0 DEF Press, PageRecord
  <2>. QED
    BY <1>00, <2>1, <2>2, TextsUndisturbed
<1>16. CASE Type
  <2>1. OnPage /\ page \in PageRecord /\ page.post \in {NULL} \cup PostRecord
    BY <1>16, <1>0, FieldsOfPage DEF Type
  <2>2. /\ page'.draft = typed + 1 /\ page'.post = page.post /\ typed' = typed + 1
        /\ UNCHANGED <<comments, dropped, unsure>>
    BY <1>16, <2>1 DEF Type, PageRecord
  <2>3. /\ replaced' = IF page.draft = 0 THEN replaced ELSE replaced \cup {page.draft}
        /\ rushed' = IF page.post = NULL THEN rushed ELSE rushed \cup {typed + 1}
    BY <1>16 DEF Type
  <2>4. typed \in Nat /\ typed + 1 \notin Range(comments)
    BY DEF FileTypeOK, Range
  <2>5. TextsKept'
    BY <1>00, <2>1, <2>2, <2>3, <2>4 DEF TextsKept
  <2>6. TextsOnce'
    BY <1>00, <2>1, <2>2, <2>3, <2>4 DEF TextsOnce
  <2>7. FieldIsFresh'
    BY <1>00, <2>1, <2>2, <2>3, <2>4 DEF FieldIsFresh
  <2>8. PostIsKnown'
    BY <1>00, <2>1, <2>2, <2>3, <2>4 DEF PostIsKnown
  <2>. QED
    BY <2>5, <2>6, <2>7, <2>8 DEF TextsInv
<1>17. CASE Submit
  <2>1. OnPage /\ page \in PageRecord /\ page.post \in {NULL} \cup PostRecord
    BY <1>17, <1>0, FieldsOfPage DEF Submit
  <2>2. /\ page.draft # 0 /\ page.post = NULL
        /\ page'.draft = page.draft /\ page'.post = [text |-> page.draft, st |-> "sent"]
    BY <1>17, <2>1 DEF Submit, PageRecord
  <2>3. UNCHANGED <<comments, typed, replaced, dropped, rushed, unsure>>
    BY <1>17 DEF Submit, history
  <2>4. TextsKept'
    BY <1>00, <2>1, <2>2, <2>3 DEF TextsKept
  <2>5. TextsOnce'
    BY <1>00, <2>1, <2>2, <2>3 DEF TextsOnce
  <2>6. FieldIsFresh'
    BY <1>00, <2>1, <2>2, <2>3 DEF FieldIsFresh
  <2>7. PostIsKnown'
    BY <1>00, <2>1, <2>2, <2>3 DEF PostIsKnown, FieldIsFresh
  <2>. QED
    BY <2>4, <2>5, <2>6, <2>7 DEF TextsInv
<1>18. CASE OthersDecide
  <2>1. UNCHANGED <<comments, typed, replaced, dropped, rushed, unsure>>
    BY <1>18 DEF OthersDecide, history
  <2>2. OnPage => page'.draft = page.draft /\ page'.post = page.post
    BY <1>18, <1>0 DEF OthersDecide, Doubted, PageRecord
  <2>. QED
    BY <1>00, <2>1, <2>2, TextsUndisturbed
<1>19. CASE OthersDelete
  <2>1. UNCHANGED <<comments, typed, replaced, dropped, rushed, unsure>>
    BY <1>19 DEF OthersDelete, history
  <2>2. OnPage => page'.draft = page.draft /\ page'.post = page.post
    BY <1>19, <1>0 DEF OthersDelete, Doubted, PageRecord
  <2>. QED
    BY <1>00, <2>1, <2>2, TextsUndisturbed
<1>20. CASE OthersComment
  <2>0. typed \in Nat /\ 0 \in 0..typed
    BY DEF FileTypeOK
  <2>1. /\ comments' = Append(comments, 0)
        /\ UNCHANGED <<page, typed, replaced, dropped, rushed, unsure>>
    BY <1>20 DEF OthersComment, history
  <2>2. /\ Range(comments') = Range(comments) \cup {0}
        /\ DOMAIN comments = 1..Len(comments) /\ Len(comments) \in Nat
        /\ DOMAIN comments' = 1..(Len(comments) + 1)
        /\ comments'[Len(comments) + 1] = 0
        /\ \A k \in DOMAIN comments : comments'[k] = comments[k]
    BY <2>0, <2>1, CommentsGrow
  <2>3. OnPage /\ page.post # NULL => page.post.text # 0
    BY DEF FileTypeOK
  <2>4. TextsKept'
    BY <2>0, <1>00, <2>1, <2>2, <2>3 DEF TextsKept
  <2>5. TextsOnce'
    BY <2>0, <1>00, <2>1, <2>2, <2>3 DEF TextsOnce
  <2>6. FieldIsFresh'
    BY <2>0, <1>00, <2>1, <2>2, <2>3 DEF FieldIsFresh
  <2>7. PostIsKnown'
    BY <2>0, <1>00, <2>1, <2>2, <2>3 DEF PostIsKnown
  <2>. QED
    BY <2>4, <2>5, <2>6, <2>7 DEF TextsInv
<1>21. CASE CollaboraFrame
  <2>1. UNCHANGED <<comments, typed, replaced, dropped, rushed, unsure>>
    BY <1>21 DEF CollaboraFrame, OnlyPage, history
  <2>2. OnPage => page'.draft = page.draft /\ page'.post = page.post
    BY <1>21, <1>0 DEF CollaboraFrame, OnlyPage, PageRecord
  <2>. QED
    BY <1>00, <2>1, <2>2, TextsUndisturbed
<1>. QED
  BY <1>1, <1>2, <1>3, <1>4, <1>5, <1>6, <1>7, <1>8, <1>9, <1>10, <1>11,
     <1>12, <1>13, <1>14, <1>15, <1>16, <1>17, <1>18, <1>19, <1>20, <1>21
     DEF PageSteps, FilePageAnswers, ServeAction, UsePage

LEMMA NewPage ==
    ASSUME ServerTypeOK
    PROVE  FileDetailPage \in PageRecord
<1>. DEFINE load == [for |-> "mount", st |-> "sent", n |-> 0]
<1>1. load \in LoadRecord
  BY DEF LoadRecord
<1>2. <<load>> \in Seq(LoadRecord)
  BY <1>1
<1>3. FilePreview \in {"loading", "pdf", "editor", "branded", "image", "player",
                       "text", "card", "error"}
  BY DEF FilePreview
<1>4. FileSidecar \in [versions : {"asked", "shown", "failed"}, workflow : {"asked", "shown", "failed"}]
  BY DEF FileSidecar
<1>. HIDE DEF load
<1>5. FileDetailPage =
        [shown |-> status, refresh |-> "none", again |-> FALSE, action |-> NULL,
         preview |-> FilePreview, blocks |-> FileSidecar,
         items |-> NULL, loads |-> <<load>>, draft |-> 0, post |-> NULL, doubt |-> FALSE]
  BY DEF FileDetailPage, load
<1>. QED
  BY <1>2, <1>3, <1>4, <1>5 DEF PageRecord, ServerTypeOK

\* What is in the field of a page that is left is given up or dropped; the page
\* that is entered asks for its list.
LEMMA LeaveKeeps ==
    ASSUME PageInv, NEW new, new \in {NULL, FileDetailPage}, LeaveFor(new),
           GivenUp \/ Dropped, ServerTypeOK', status' = status
    PROVE  PageInv' /\ (OnPage' <=> new # NULL)
<1>. USE PageAssumption DEF PageInv
<1>1. FileDetailPage \in PageRecord
  BY NewPage
<1>2. new # NULL => /\ new = FileDetailPage /\ new.shown = status /\ new.draft = 0
                    /\ new.post = NULL /\ new.action = NULL /\ new.items = NULL
                    /\ new.refresh = "none"
                    /\ new.loads = <<[for |-> "mount", st |-> "sent", n |-> 0]>>
  BY DEF FileDetailPage
<1>3. /\ page' = new /\ (OnPage' <=> new # NULL)
      /\ UNCHANGED <<comments, typed, rushed, unsure>>
  BY DEF LeaveFor, OnPage
<1>4. /\ replaced \subseteq replaced' /\ dropped \subseteq dropped'
      /\ replaced' \cup dropped' = replaced \cup dropped \cup Draft
  BY DEF GivenUp, Dropped
<1>. HIDE DEF FileDetailPage
<1>5. FileTypeOK'
  <2>1. Draft \subseteq 1..typed
    BY DEF Draft, FileTypeOK
  <2>2. replaced' \cup dropped' \cup rushed' \cup unsure' \subseteq 1..typed
    BY <1>3, <1>4, <2>1 DEF FileTypeOK
  <2>. QED
    BY <1>1, <1>2, <1>3, <2>2 DEF FileTypeOK
<1>6. LoadsFit'
  <2>1. Len(comments) \in Nat
    BY DEF FileTypeOK
  <2>. QED
    BY <1>2, <1>3, <2>1 DEF LoadsFit
<1>7. ActionFits' /\ ScreenInv'
  BY <1>2, <1>3 DEF ActionFits, ScreenInv, Status
<1>8. TextsInv'
  <2>1. TextsKept'
    <3>1. ASSUME OnPage, page.draft # 0  PROVE page.draft \in replaced' \cup dropped'
      BY <1>4, <3>1 DEF Draft
    <3>2. replaced \cup dropped \subseteq replaced' \cup dropped'
      BY <1>4
    <3>3. 0 \notin 1..typed
      BY DEF FileTypeOK
    <3>. QED
      BY <1>3, <3>1, <3>2, <3>3 DEF TextsInv, TextsKept
  <2>2. TextsOnce'
    BY <1>3 DEF TextsInv, TextsOnce
  <2>3. FieldIsFresh' /\ PostIsKnown'
    BY <1>2, <1>3 DEF FieldIsFresh, PostIsKnown
  <2>. QED
    BY <2>1, <2>2, <2>3 DEF TextsInv
<1>. QED
  BY <1>3, <1>5, <1>6, <1>7, <1>8

LEMMA PageUnchanged ==
    ASSUME PageInv, ServerTypeOK', UNCHANGED <<filePage, status>>
    PROVE  PageInv' /\ (OnPage' <=> OnPage)
BY DEF PageInv, FileTypeOK, LoadsFit, ActionFits, ScreenInv, TextsInv, TextsKept, TextsOnce,
       FieldIsFresh, PostIsKnown, OnPage, filePage, history

LEMMA PageStep ==
    ASSUME PageInv, NEW allowed \in BOOLEAN, NEW user \in BOOLEAN, PageSteps(allowed, user)
    PROVE  PageInv' /\ (OnPage' <=> OnPage)
<1>1. ServerTypeOK /\ FileTypeOK
  BY DEF PageInv
<1>. QED
  BY <1>1, PageRecordStep, ServerTypeStep, PageTypeStep, LoadsFitStep, ActionFitsStep,
     ScreenStep, TextsStep DEF PageInv

\* Something was disturbed that may cost the page.
Excused == mishaps > 0 \/ Visited \notin stored

\* While nothing was, the page was read in a session that lasts, and nothing
\* takes it away.
LossInv ==
    \/ Excused
    \/ /\ dropped = {}
       /\ OnPage => /\ cookie /\ session /\ page.refresh # "gone"
                    /\ page.action # NULL => page.action.st # "unauth"

LEMMA PageInvGives == PageInv /\ LossInv => TextsStoredOnce /\ ScreenSettles
<1>. SUFFICES ASSUME PageInv, LossInv PROVE TextsStoredOnce /\ ScreenSettles
  OBVIOUS
<1>1. ScreenSettles
  BY DEF PageInv, ScreenInv, ScreenSettles
<1>2. ASSUME NEW t \in 1..typed, t \notin unsure
      PROVE  Cardinality({i \in DOMAIN comments : comments[i] = t}) <= 1
  <2>. DEFINE at == {i \in DOMAIN comments : comments[i] = t}
  <2>1. t # 0
    BY DEF PageInv, FileTypeOK
  <2>2. \A i, j \in at : i = j
    BY <1>2, <2>1 DEF PageInv, TextsInv, TextsOnce
  <2>3. at = {} => Cardinality(at) <= 1
    BY FS_EmptySet
  <2>4. ASSUME NEW i \in at  PROVE Cardinality(at) = 1
    <3>1. at = {i}
      BY <2>2
    <3>. HIDE DEF at
    <3>. QED
      BY <3>1, FS_Singleton
  <2>. HIDE DEF at
  <2>5. Cardinality(at) <= 1
    BY <2>3, <2>4
  <2>. QED
    BY <2>5 DEF at
<1>. QED
  BY <1>1, <1>2 DEF TextsStoredOnce, PageInv, TextsInv, TextsKept, LossInv, Excused

-----------------------------------------------------------------------------
(* The share page.                                                         *)

\* A link on screen is not there while another is made; a link that was made is
\* the newest one.
LinkIsNewest ==
    OnShare /\ panel.post # NULL =>
        /\ panel.share = NULL
        /\ panel.post.st = "made" => links # <<>> /\ links[Len(links)] = panel.post.id

\* The look-up that was asked last is for the id in the field.
LookUpsInOrder ==
    OnShare /\ ~panel.overtaken =>
        /\ ~Pending("file") => panel.found \in {NULL, panel.field}
        /\ \A i \in DOMAIN panel.lookups :
              panel.lookups[i].what = "file" =>
                 \/ panel.lookups[i].id = panel.field
                 \/ \E j \in DOMAIN panel.lookups : j > i /\ panel.lookups[j].what = "file"

\* From the press of the button to the link on screen the id in the field is the
\* one that was sent, if it is not edited.
LinkIsForField ==
    OnShare /\ ~panel.edited =>
        /\ panel.post # NULL => panel.post.id = panel.field
        /\ panel.share # NULL => links[panel.share] = panel.field

PanelInv ==
    ServerTypeOK /\ ShareTypeOK /\ LinkIsNewest /\ LookUpsInOrder /\ LinkIsForField

PanelSteps(allowed, user) == SharePageAnswers(allowed) \/ UseShare(user)

LEMMA FieldsOfPanel ==
    ASSUME NEW p \in PanelRecord
    PROVE  /\ p.field \in Id \cup {NULL} /\ p.found \in Id \cup {NULL}
           /\ p.perms \in Id \cup {NULL} /\ p.lookups \in Seq(LookUpRecord)
           /\ p.post \in {NULL} \cup ShareRecord /\ p.share \in Nat \cup {NULL}
           /\ p.error \in BOOLEAN /\ p.overtaken \in BOOLEAN
           /\ p.edited \in BOOLEAN
  BY DEF PanelRecord

LEMMA PanelInvGives == PanelInv => ShareGoesTogether
  BY DEF ShareGoesTogether, PanelInv, LinkIsNewest, LookUpsInOrder, LinkIsForField

\* What the answer to a look-up leaves on screen.
LEMMA AnsweredLookUp ==
    ASSUME PanelInv, OnShare, NEW i \in DOMAIN panel.lookups, NEW at \in {"yes", "no", "lost"},
           panel' = Answered(i, at), links' = links, ServerTypeOK'
    PROVE  PanelInv' /\ (OnShare' <=> OnShare)
<1>. USE PanelAssumption DEF OnShare
<1>. DEFINE l == panel.lookups[i]
            left == RemoveAt(panel.lookups, i)
            result == IF at = "yes" THEN l.id ELSE NULL
            shown == IF l.what = "file" THEN result ELSE panel.found
            perms == IF l.what = "perms" THEN result ELSE panel.perms
            error == IF l.what = "file" /\ at # "yes" THEN at = "no" ELSE panel.error
            over == panel.overtaken \/ (l.what = "file" /\
                        \E j \in 1..(i - 1) : panel.lookups[j].what = "file")
<1>1. /\ panel \in PanelRecord /\ panel.lookups \in Seq(LookUpRecord)
      /\ i \in 1..Len(panel.lookups)
  BY FieldsOfPanel DEF PanelInv, ShareTypeOK
<1>2. l \in LookUpRecord
  BY <1>1, ElementOfSeq
<1>3. /\ shown \in Id \cup {NULL} /\ perms \in Id \cup {NULL}
      /\ error \in BOOLEAN /\ over \in BOOLEAN
  BY <1>1, <1>2, FieldsOfPanel DEF LookUpRecord
<1>4. left \in Seq(LookUpRecord) /\ Len(left) = Len(panel.lookups) - 1
  BY <1>1, RemoveAtProperties
<1>5. panel' = [panel EXCEPT !.found = shown, !.perms = perms, !.error = error,
                             !.overtaken = over, !.lookups = left]
  BY DEF Answered
<1>6. \A k \in DOMAIN left : \E j \in DOMAIN panel.lookups \ {i} :
            left[k] = panel.lookups[j] /\ j = IF k < i THEN k ELSE k + 1
  BY <1>1, RemoveAtElements
<1>7. ASSUME NEW j \in DOMAIN panel.lookups \ {i}, NEW k, k = IF j < i THEN j ELSE j - 1
      PROVE  k \in DOMAIN left /\ left[k] = panel.lookups[j]
  <2>1. \A n \in 1..(Len(panel.lookups) - 1) :
            left[n] = IF n < i THEN panel.lookups[n] ELSE panel.lookups[n + 1]
    BY <1>1, RemoveAtProperties
  <2>2. DOMAIN left = 1..(Len(panel.lookups) - 1)
    BY <1>1, <1>4
  <2>3. j \in 1..Len(panel.lookups) /\ j # i /\ i \in 1..Len(panel.lookups)
    BY <1>1
  <2>. HIDE DEF left
  <2>4. k \in 1..(Len(panel.lookups) - 1)
    BY <1>7, <2>3
  <2>5. j = IF k < i THEN k ELSE k + 1
    BY <1>7, <2>3
  <2>. QED
    BY <2>1, <2>2, <2>4, <2>5
<1>8. /\ ~over => ~panel.overtaken
      /\ ~over /\ l.what = "file" => \A j \in 1..(i - 1) : panel.lookups[j].what # "file"
      /\ l.what # "file" => shown = panel.found
      /\ l.what = "file" => shown \in {NULL, l.id}
  BY <1>1, FieldsOfPanel
<1>9. LET r == panel'
      IN  /\ r \in PanelRecord
          /\ r.found = shown /\ r.overtaken = over /\ r.lookups = left
          /\ r.field = panel.field /\ r.post = panel.post /\ r.share = panel.share
          /\ r.edited = panel.edited
  <2>. HIDE DEF shown, perms, error, over, left
  <2>. QED
    BY <1>1, <1>3, <1>4, <1>5 DEF PanelRecord
<1>. HIDE DEF shown, perms, error, over, left
<1>10. ShareTypeOK'
  BY <1>9 DEF PanelInv, ShareTypeOK
<1>11. LinkIsNewest'
  BY <1>9 DEF PanelInv, LinkIsNewest
<1>12. LookUpsInOrder'
  <2>. SUFFICES ASSUME ~over
                PROVE  /\ (\A k \in DOMAIN left : left[k].what # "file") =>
                              shown \in {NULL, panel.field}
                       /\ \A k \in DOMAIN left : left[k].what = "file" =>
                             \/ left[k].id = panel.field
                             \/ \E m \in DOMAIN left : m > k /\ left[m].what = "file"
    BY <1>9 DEF LookUpsInOrder, Pending
  <2>1. ~panel.overtaken
    BY <1>8
  <2>2. \A j \in DOMAIN panel.lookups : panel.lookups[j].what = "file" =>
            \/ panel.lookups[j].id = panel.field
            \/ \E m \in DOMAIN panel.lookups : m > j /\ panel.lookups[m].what = "file"
    BY <2>1 DEF PanelInv, LookUpsInOrder
  <2>3. ASSUME \A k \in DOMAIN left : left[k].what # "file"
        PROVE  shown \in {NULL, panel.field}
    <3>1. \A j \in DOMAIN panel.lookups \ {i} : panel.lookups[j].what # "file"
      BY <1>7, <2>3
    <3>2. CASE l.what = "file"
      <4>1. l.id = panel.field
        BY <1>1, <2>2, <3>1, <3>2
      <4>. QED
        BY <1>8, <3>2, <4>1
    <3>3. CASE l.what # "file"
      BY <1>8, <2>1, <3>1, <3>3 DEF PanelInv, LookUpsInOrder, Pending
    <3>. QED
      BY <3>2, <3>3
  <2>4. ASSUME NEW k \in DOMAIN left, left[k].what = "file", left[k].id # panel.field
        PROVE  \E m \in DOMAIN left : m > k /\ left[m].what = "file"
    <3>1. PICK j \in DOMAIN panel.lookups \ {i} :
              left[k] = panel.lookups[j] /\ j = IF k < i THEN k ELSE k + 1
      BY <1>6
    <3>2. PICK m \in DOMAIN panel.lookups : m > j /\ panel.lookups[m].what = "file"
      BY <2>2, <2>4, <3>1
    <3>3. m # i
      <4>1. SUFFICES ASSUME m = i PROVE FALSE
        OBVIOUS
      <4>2. j \in 1..(i - 1) /\ l.what = "file" /\ panel.lookups[j].what = "file"
        BY <1>1, <2>4, <3>1, <3>2, <4>1
      <4>. QED
        BY <1>8, <4>2
    <3>. DEFINE n == IF m < i THEN m ELSE m - 1
    <3>4. n \in DOMAIN left /\ left[n] = panel.lookups[m]
      BY <1>7, <3>3
    <3>5. n > k
      BY <1>1, <1>4, <3>1, <3>2, <3>3
    <3>. QED
      BY <3>2, <3>4, <3>5
  <2>. QED
    BY <2>3, <2>4
<1>13. LinkIsForField'
  BY <1>9 DEF PanelInv, LinkIsForField
<1>. QED
  BY <1>9, <1>10, <1>11, <1>12, <1>13 DEF PanelInv

\* The user starts something, or a request fails: nothing is written.
LEMMA ServerStays ==
    ASSUME ServerTypeOK, (Act /\ UNCHANGED rows) \/ Fault \/ UNCHANGED server
    PROVE  /\ ServerTypeOK' /\ UNCHANGED <<stored, status, session>>
           /\ mishaps \in Nat /\ mishaps' \in Nat /\ mishaps' >= mishaps
<1>1. CASE Act /\ UNCHANGED rows
  BY <1>1, ServerAssumption DEF ServerTypeOK, SetupRecord, Act, rows
<1>2. CASE Fault
  BY <1>2, ServerAssumption DEF ServerTypeOK, Fault, Mishap, rows
<1>3. CASE UNCHANGED server
  BY <1>3, ServerAssumption DEF ServerTypeOK, server, rows
<1>. QED
  BY <1>1, <1>2, <1>3

LEMMA PanelStep ==
    ASSUME PanelInv, NEW allowed \in BOOLEAN, NEW user \in BOOLEAN, PanelSteps(allowed, user)
    PROVE  PanelInv' /\ (OnShare' <=> OnShare)
<1>. USE PanelAssumption DEF OnShare
<1>0. /\ OnShare => panel \in PanelRecord
      /\ links \in Seq(Id) /\ DOMAIN links = 1..Len(links) /\ Len(links) \in Nat
  BY DEF PanelInv, ShareTypeOK
<1>1. ServerTypeOK'
  <2>1. (Act /\ UNCHANGED rows) \/ Fault \/ UNCHANGED server
    BY DEF PanelSteps, SharePageAnswers, UseShare, ServeLookUp, ArriveLookUp, LoseLookUp,
           ServeShare, ShareDone, LoseShare, Edit, CreateShare, ClearShare
  <2>. QED
    BY <2>1, ServerStays DEF PanelInv
<1>2. ASSUME NEW i \in DOMAIN panel.lookups, OnShare, ArriveLookUp(i) \/ LoseLookUp(i)
      PROVE  PanelInv' /\ (OnShare' <=> OnShare)
  <2>1. panel.lookups[i].at \in {"sent", "yes", "no"}
    <3>1. panel.lookups \in Seq(LookUpRecord)
      BY <1>0, <1>2, FieldsOfPanel
    <3>2. panel.lookups[i] \in LookUpRecord
      BY <3>1, ElementOfSeq
    <3>. QED
      BY <3>2 DEF LookUpRecord
  <2>2. CASE ArriveLookUp(i)
    BY <1>1, <1>2, <2>1, <2>2, AnsweredLookUp DEF ArriveLookUp
  <2>3. CASE LoseLookUp(i)
    BY <1>1, <1>2, <2>3, AnsweredLookUp DEF LoseLookUp
  <2>. QED
    BY <1>2, <2>2, <2>3
<1>3. ASSUME NEW i \in DOMAIN panel.lookups, OnShare, ServeLookUp(i, allowed)
      PROVE  PanelInv' /\ (OnShare' <=> OnShare)
  <2>. DEFINE at == IF allowed /\ panel.lookups[i].id \in stored THEN "yes" ELSE "no"
              l == [panel.lookups[i] EXCEPT !.at = at]
              asked == [panel.lookups EXCEPT ![i] = l]
  <2>1. panel \in PanelRecord /\ panel.lookups \in Seq(LookUpRecord) /\ i \in 1..Len(panel.lookups)
    BY <1>0, <1>3, FieldsOfPanel
  <2>2. panel.lookups[i] \in LookUpRecord /\ at \in {"yes", "no"}
    BY <2>1, ElementOfSeq
  <2>3. l \in LookUpRecord /\ l.what = panel.lookups[i].what /\ l.id = panel.lookups[i].id
    <3>. HIDE DEF at
    <3>. QED
      BY <2>2 DEF LookUpRecord
  <2>4. panel' = [panel EXCEPT !.lookups = asked] /\ links' = links
    BY <1>3, <2>1 DEF ServeLookUp
  <2>. HIDE DEF l
  <2>5. asked \in Seq(LookUpRecord) /\ DOMAIN asked = DOMAIN panel.lookups
    BY <2>1, <2>3, ExceptSeq
  <2>6. \A j \in DOMAIN asked : asked[j].what = panel.lookups[j].what
                                /\ asked[j].id = panel.lookups[j].id
    BY <2>1, <2>3
  <2>. HIDE DEF asked
  <2>7. /\ panel' \in PanelRecord /\ panel'.lookups = asked
        /\ panel'.found = panel.found /\ panel'.field = panel.field
        /\ panel'.post = panel.post /\ panel'.share = panel.share
        /\ panel'.overtaken = panel.overtaken /\ panel'.edited = panel.edited
    BY <2>1, <2>4, <2>5 DEF PanelRecord
  <2>8. ShareTypeOK' /\ LinkIsNewest'
    BY <1>3, <2>4, <2>7 DEF PanelInv, ShareTypeOK, LinkIsNewest
  <2>9. LookUpsInOrder'
    BY <1>3, <2>5, <2>6, <2>7 DEF PanelInv, LookUpsInOrder, Pending
  <2>10. LinkIsForField'
    BY <1>3, <2>4, <2>5, <2>6, <2>7 DEF PanelInv, LinkIsForField, Pending
  <2>. QED
    BY <1>1, <1>3, <2>7, <2>8, <2>9, <2>10 DEF PanelInv
<1>4. CASE ServeShare(allowed)
  <2>1. /\ OnShare /\ panel \in PanelRecord /\ panel.post # NULL /\ panel.post \in ShareRecord
        /\ panel.post.id \in Id /\ panel.post.st = "sent"
    BY <1>0, <1>4, FieldsOfPanel DEF ServeShare, ShareRecord
  <2>2. PICK st \in {"made", "refused", "unauth"} :
          /\ panel' = [panel EXCEPT !.post.st = st]
          /\ links' = IF st = "made" THEN Append(links, panel.post.id) ELSE links
    <3>1. CASE allowed /\ panel.post.id \in stored
      <4>1. WITNESS "made" \in {"made", "refused", "unauth"}
      <4>. QED
        BY <1>4, <3>1 DEF ServeShare
    <3>2. CASE allowed /\ panel.post.id \notin stored
      <4>1. WITNESS "refused" \in {"made", "refused", "unauth"}
      <4>. QED
        BY <1>4, <3>2 DEF ServeShare
    <3>3. CASE ~allowed
      <4>1. WITNESS "unauth" \in {"made", "refused", "unauth"}
      <4>. QED
        BY <1>4, <3>3 DEF ServeShare
    <3>. QED
      BY <3>1, <3>2, <3>3
  <2>3. /\ Append(links, panel.post.id) \in Seq(Id)
        /\ Len(Append(links, panel.post.id)) = Len(links) + 1
        /\ Append(links, panel.post.id)[Len(links) + 1] = panel.post.id
        /\ \A k \in 1..Len(links) : Append(links, panel.post.id)[k] = links[k]
    BY <1>0, <2>1, AppendProperties
  <2>. DEFINE post == [panel.post EXCEPT !.st = st]
  <2>4. post \in ShareRecord /\ post.id = panel.post.id /\ post.st = st
    BY <2>1, <2>2 DEF ShareRecord
  <2>5. panel' = [panel EXCEPT !.post = post]
    BY <2>2
  <2>. HIDE DEF post
  <2>6. /\ panel' \in PanelRecord /\ panel'.post = post /\ post # NULL
        /\ panel'.lookups = panel.lookups
        /\ panel'.found = panel.found /\ panel'.field = panel.field
        /\ panel'.share = panel.share
        /\ panel'.overtaken = panel.overtaken /\ panel'.edited = panel.edited
    BY <2>1, <2>4, <2>5 DEF PanelRecord
  <2>7. /\ links' \in Seq(Id)
        /\ Len(links') \in Nat /\ DOMAIN links' = 1..Len(links')
        /\ DOMAIN links \subseteq DOMAIN links' /\ \A k \in DOMAIN links : links'[k] = links[k]
        /\ st = "made" => links' # <<>> /\ links'[Len(links')] = panel.post.id
    <3>1. CASE st = "made"
      <4>1. links' = Append(links, panel.post.id)
        BY <2>2, <3>1
      <4>2. Append(links, panel.post.id) # <<>>
        BY <1>0, <2>1, AppendProperties
      <4>. QED
        BY <1>0, <2>3, <4>1, <4>2
    <3>2. CASE st # "made"
      <4>1. links' = links
        BY <2>2, <3>2
      <4>. QED
        BY <1>0, <3>2, <4>1
    <3>. QED
      BY <3>1, <3>2
  <2>20. ShareTypeOK'
    BY <1>0, <2>1, <2>4, <2>6, <2>7 DEF PanelInv, ShareTypeOK
  <2>21. LinkIsNewest'
    BY <1>0, <2>1, <2>4, <2>6, <2>7 DEF PanelInv, LinkIsNewest
  <2>22. LookUpsInOrder'
    BY <1>0, <2>1, <2>4, <2>6, <2>7 DEF PanelInv, LookUpsInOrder, Pending
  <2>23. LinkIsForField'
    BY <1>0, <2>1, <2>4, <2>6, <2>7 DEF PanelInv, LinkIsForField, ShareTypeOK, Pending
  <2>. QED
    BY <1>1, <2>1, <2>4, <2>6, <2>7, <2>20, <2>21, <2>22, <2>23 DEF PanelInv
<1>5. CASE ShareDone
  <2>1. /\ OnShare /\ panel \in PanelRecord /\ panel.post # NULL
        /\ panel.post.st \in {"made", "refused"}
    BY <1>0, <1>5 DEF ShareDone
  <2>. DEFINE share == IF panel.post.st = "made" THEN Len(links) ELSE panel.share
              error == panel.post.st = "refused"
  <2>2. /\ panel' = [panel EXCEPT !.post = NULL, !.share = share, !.error = error]
        /\ links' = links
    BY <1>5 DEF ShareDone
  <2>3. /\ panel.share = NULL
        /\ panel.post.st = "made" => /\ Len(links) \in DOMAIN links
                                     /\ links[Len(links)] = panel.post.id
    BY <1>0, <2>1 DEF PanelInv, LinkIsNewest
  <2>4. /\ share \in Nat \cup {NULL} /\ error \in BOOLEAN
        /\ share # NULL => share \in DOMAIN links /\ links[share] = panel.post.id
    BY <1>0, <2>3
  <2>. HIDE DEF share, error
  <2>6. /\ panel' \in PanelRecord /\ panel'.post = NULL /\ panel'.share = share
        /\ panel'.lookups = panel.lookups
        /\ panel'.found = panel.found /\ panel'.field = panel.field
        /\ panel'.overtaken = panel.overtaken /\ panel'.edited = panel.edited
    BY <2>1, <2>2, <2>4 DEF PanelRecord
  <2>20. ShareTypeOK'
    BY <1>0, <2>1, <2>2, <2>3, <2>4, <2>6 DEF PanelInv, ShareTypeOK
  <2>21. LinkIsNewest'
    BY <1>0, <2>1, <2>2, <2>3, <2>4, <2>6 DEF PanelInv, LinkIsNewest
  <2>22. LookUpsInOrder'
    BY <1>0, <2>1, <2>2, <2>3, <2>4, <2>6 DEF PanelInv, LookUpsInOrder, Pending
  <2>23. LinkIsForField'
    BY <1>0, <2>1, <2>2, <2>3, <2>4, <2>6 DEF PanelInv, LinkIsForField, Pending
  <2>. QED
    BY <1>1, <2>1, <2>2, <2>3, <2>4, <2>6, <2>20, <2>21, <2>22, <2>23 DEF PanelInv
<1>6. CASE LoseShare
  <2>1. /\ OnShare /\ panel \in PanelRecord /\ panel.post # NULL /\ panel.share = NULL
    BY <1>0, <1>6 DEF LoseShare, PanelInv, LinkIsNewest
  <2>2. panel' = [panel EXCEPT !.post = NULL, !.error = TRUE] /\ links' = links
    BY <1>6 DEF LoseShare
  <2>6. /\ panel' \in PanelRecord /\ panel'.post = NULL /\ panel'.share = NULL
        /\ panel'.lookups = panel.lookups
        /\ panel'.found = panel.found /\ panel'.field = panel.field
        /\ panel'.overtaken = panel.overtaken /\ panel'.edited = panel.edited
    BY <2>1, <2>2 DEF PanelRecord
  <2>20. ShareTypeOK'
    BY <1>0, <2>1, <2>2, <2>6 DEF PanelInv, ShareTypeOK
  <2>21. LinkIsNewest'
    BY <1>0, <2>1, <2>2, <2>6 DEF PanelInv, LinkIsNewest
  <2>22. LookUpsInOrder'
    BY <1>0, <2>1, <2>2, <2>6 DEF PanelInv, LookUpsInOrder, Pending
  <2>23. LinkIsForField'
    BY <1>0, <2>1, <2>2, <2>6 DEF PanelInv, LinkIsForField, Pending
  <2>. QED
    BY <1>1, <2>1, <2>2, <2>6, <2>20, <2>21, <2>22, <2>23 DEF PanelInv
<1>7. CASE ClearShare
  <2>1. OnShare /\ panel \in PanelRecord /\ panel.share # NULL
    BY <1>0, <1>7 DEF ClearShare
  <2>2. panel' = [panel EXCEPT !.share = NULL] /\ links' = links
    BY <1>7 DEF ClearShare
  <2>6. /\ panel' \in PanelRecord /\ panel'.post = panel.post /\ panel'.share = NULL
        /\ panel'.lookups = panel.lookups
        /\ panel'.found = panel.found /\ panel'.field = panel.field
        /\ panel'.overtaken = panel.overtaken /\ panel'.edited = panel.edited
    BY <2>1, <2>2 DEF PanelRecord
  <2>7. panel.post = NULL
    BY <2>1 DEF PanelInv, LinkIsNewest
  <2>20. ShareTypeOK'
    BY <1>0, <2>1, <2>2, <2>6, <2>7 DEF PanelInv, ShareTypeOK
  <2>21. LinkIsNewest'
    BY <1>0, <2>1, <2>2, <2>6, <2>7 DEF PanelInv, LinkIsNewest
  <2>22. LookUpsInOrder'
    BY <1>0, <2>1, <2>2, <2>6, <2>7 DEF PanelInv, LookUpsInOrder, Pending
  <2>23. LinkIsForField'
    BY <1>0, <2>1, <2>2, <2>6, <2>7 DEF PanelInv, LinkIsForField, Pending
  <2>. QED
    BY <1>1, <2>1, <2>2, <2>6, <2>7, <2>20, <2>21, <2>22, <2>23 DEF PanelInv
<1>8. CASE CreateShare
  <2>1. /\ OnShare /\ panel \in PanelRecord /\ panel.found # NULL
        /\ panel.post = NULL /\ panel.field # NULL /\ panel.field \in Id
    BY <1>0, <1>8, FieldsOfPanel DEF CreateShare
  <2>. DEFINE post == [id |-> panel.field, st |-> "sent"]
  <2>2. /\ panel' = [panel EXCEPT !.post = post, !.error = FALSE, !.share = NULL,
                                  !.edited = FALSE]
        /\ links' = links
    BY <1>8 DEF CreateShare
  <2>3. post \in ShareRecord /\ post.id = panel.field /\ post.st = "sent"
    BY <2>1 DEF ShareRecord
  <2>. HIDE DEF post
  <2>6. /\ panel' \in PanelRecord /\ panel'.post = post /\ panel'.share = NULL
        /\ panel'.lookups = panel.lookups
        /\ panel'.found = panel.found /\ panel'.field = panel.field
        /\ panel'.overtaken = panel.overtaken /\ panel'.edited = FALSE
    <3>1. /\ panel'.post = post /\ panel'.share = NULL
          /\ panel'.lookups = panel.lookups
          /\ panel'.found = panel.found /\ panel'.field = panel.field
          /\ panel'.overtaken = panel.overtaken /\ panel'.edited = FALSE
      BY <2>1, <2>2 DEF PanelRecord
    <3>2. panel' \in PanelRecord
      <4>1. panel \in PanelRecord
        BY <2>1
      <4>2. post \in {NULL} \cup ShareRecord
        BY <2>3
      <4>. QED
        BY ONLY <2>2, <4>1, <4>2 DEF PanelRecord
    <3>. QED
      BY <3>1, <3>2
  <2>20. ShareTypeOK'
    BY <1>0, <2>1, <2>2, <2>3, <2>6 DEF PanelInv, ShareTypeOK
  <2>21. LinkIsNewest'
    BY <1>0, <2>1, <2>2, <2>3, <2>6 DEF PanelInv, LinkIsNewest
  <2>22. LookUpsInOrder'
    BY <1>0, <2>1, <2>2, <2>3, <2>6 DEF PanelInv, LookUpsInOrder, Pending
  <2>23. LinkIsForField'
    BY <1>0, <2>1, <2>2, <2>3, <2>6 DEF PanelInv, LinkIsForField, Pending
  <2>. QED
    BY <1>1, <2>1, <2>2, <2>3, <2>6, <2>20, <2>21, <2>22, <2>23 DEF PanelInv
<1>9. ASSUME NEW id \in Id \cup {NULL}, Edit(id)
      PROVE  PanelInv' /\ (OnShare' <=> OnShare)
  <2>1. OnShare /\ panel \in PanelRecord /\ panel.lookups \in Seq(LookUpRecord)
    BY <1>0, <1>9, FieldsOfPanel DEF Edit
  <2>. DEFINE asked == panel.lookups \o LookUp(id)
              found == IF id = NULL THEN NULL ELSE panel.found
              perms == IF id = NULL THEN NULL ELSE panel.perms
              over == panel.overtaken \/ (id = NULL /\ Pending("file"))
  <2>2. /\ panel' = [panel EXCEPT !.field = id, !.lookups = asked, !.found = found,
                                  !.perms = perms, !.overtaken = over, !.edited = TRUE]
        /\ links' = links
    BY <1>9 DEF Edit
  <2>3. /\ asked \in Seq(LookUpRecord) /\ DOMAIN panel.lookups \subseteq DOMAIN asked
        /\ \A k \in DOMAIN panel.lookups : asked[k] = panel.lookups[k]
        /\ id = NULL => asked = panel.lookups
        /\ id # NULL => \E j \in DOMAIN asked :
              /\ asked[j].what = "file" /\ asked[j].id = id
              /\ \A k \in DOMAIN asked : asked[k].what = "file" => k <= j
    <3>1. CASE id = NULL
      <4>1. asked = panel.lookups
        BY <2>1, <3>1, ConcatEmptySeq DEF LookUp
      <4>. QED
        BY <2>1, <3>1, <4>1
    <3>2. CASE id # NULL
      <4>. DEFINE f == [what |-> "file", id |-> id, at |-> "sent"]
                  p == [what |-> "perms", id |-> id, at |-> "sent"]
                  n == Len(panel.lookups)
      <4>1. f \in LookUpRecord /\ p \in LookUpRecord
        BY <3>2 DEF LookUpRecord
      <4>2. LookUp(id) = <<f, p>>
        BY <3>2 DEF LookUp
      <4>3. /\ <<f, p>> \in Seq(LookUpRecord) /\ Len(<<f, p>>) = 2
            /\ <<f, p>>[1] = f /\ <<f, p>>[2] = p
        BY <4>1
      <4>4. f.what = "file" /\ f.id = id /\ p.what = "perms"
        OBVIOUS
      <4>. HIDE DEF f, p
      <4>5. /\ asked \in Seq(LookUpRecord) /\ Len(asked) = n + 2
            /\ \A k \in 1..(n + 2) :
                  asked[k] = IF k <= n THEN panel.lookups[k] ELSE <<f, p>>[k - n]
        BY <2>1, <4>2, <4>3, ConcatProperties
      <4>6. /\ n \in Nat /\ DOMAIN panel.lookups = 1..n /\ DOMAIN asked = 1..(n + 2)
        BY <2>1, <4>5
      <4>. HIDE DEF asked, n
      <4>7. asked[n + 1] = f /\ asked[n + 2] = p
        BY <4>3, <4>5, <4>6
      <4>8. \A k \in 1..n : asked[k] = panel.lookups[k]
        BY <4>5, <4>6
      <4>9. \A k \in DOMAIN asked : asked[k].what = "file" => k <= n + 1
        BY <4>4, <4>6, <4>7
      <4>. QED
        BY <3>2, <4>4, <4>5, <4>6, <4>7, <4>8, <4>9
    <3>. QED
      BY <3>1, <3>2
  <2>4. /\ found \in Id \cup {NULL} /\ perms \in Id \cup {NULL} /\ over \in BOOLEAN
        /\ ~over => ~panel.overtaken
        /\ ~over /\ id = NULL => \A i \in DOMAIN panel.lookups : panel.lookups[i].what # "file"
        /\ id = NULL => found = NULL
    BY <2>1, FieldsOfPanel DEF Pending
  <2>. HIDE DEF asked, found, perms, over
  <2>6. /\ panel' \in PanelRecord /\ panel'.post = panel.post /\ panel'.share = panel.share
        /\ panel'.lookups = asked /\ panel'.found = found /\ panel'.field = id
        /\ panel'.overtaken = over /\ panel'.edited = TRUE
    BY <2>1, <2>2, <2>3, <2>4 DEF PanelRecord
  <2>20. ShareTypeOK'
    BY <1>0, <2>1, <2>2, <2>3, <2>4, <2>6 DEF PanelInv, ShareTypeOK
  <2>21. LinkIsNewest'
    BY <1>0, <2>1, <2>2, <2>3, <2>4, <2>6 DEF PanelInv, LinkIsNewest
  <2>22. LookUpsInOrder'
    BY <1>0, <2>1, <2>2, <2>3, <2>4, <2>6 DEF PanelInv, LookUpsInOrder, Pending
  <2>23. LinkIsForField'
    BY <1>0, <2>1, <2>2, <2>3, <2>4, <2>6 DEF PanelInv, LinkIsForField, Pending
  <2>. QED
    BY <1>1, <2>1, <2>2, <2>3, <2>4, <2>6, <2>20, <2>21, <2>22, <2>23 DEF PanelInv
<1>. QED
  BY <1>0, <1>2, <1>3, <1>4, <1>5, <1>6, <1>7, <1>8, <1>9
     DEF PanelSteps, SharePageAnswers, UseShare

LEMMA NewPanel ==
    /\ ShareFor(Visited) \in PanelRecord
    /\ ShareFor(Visited).post = NULL /\ ShareFor(Visited).share = NULL
    /\ ShareFor(Visited).field = Visited /\ ShareFor(Visited).found = NULL
    /\ LET first == ShareFor(Visited).lookups
       IN  DOMAIN first = {1, 2} /\ first[1].what = "file" /\ first[1].id = Visited
                                 /\ first[2].what = "perms"
<1>1. Visited \in Id /\ Visited # NULL
  BY ServerAssumption
<1>2. LookUp(Visited) = <<[what |-> "file", id |-> Visited, at |-> "sent"],
                          [what |-> "perms", id |-> Visited, at |-> "sent"]>>
  BY <1>1 DEF LookUp
<1>. DEFINE first == LookUp(Visited)
<1>3. /\ first \in Seq(LookUpRecord) /\ DOMAIN first = {1, 2}
      /\ first[1].what = "file" /\ first[1].id = Visited /\ first[2].what = "perms"
  BY <1>1, <1>2 DEF LookUpRecord
<1>. HIDE DEF first
<1>4. ShareFor(Visited) =
        [field |-> Visited, found |-> NULL, perms |-> NULL, lookups |-> first,
         post |-> NULL, share |-> NULL, error |-> FALSE,
         overtaken |-> FALSE, edited |-> FALSE]
  BY DEF ShareFor, first
<1>. QED
  BY <1>1, <1>3, <1>4 DEF PanelRecord

LEMMA PanelLeft ==
    ASSUME ServerTypeOK', links \in Seq(Id), links' = links, panel' \in {NULL, ShareFor(Visited)}
    PROVE  PanelInv' /\ (OnShare' <=> panel' # NULL)
<1>. USE PanelAssumption
<1>6. ShareTypeOK'
  <2>1. panel' # NULL => panel'.share = NULL
    BY NewPanel
  <2>. QED
    BY <2>1, NewPanel DEF ShareTypeOK, OnShare
<1>7. LinkIsNewest' /\ LinkIsForField'
  BY NewPanel DEF LinkIsNewest, LinkIsForField, OnShare
<1>8. LookUpsInOrder'
  BY NewPanel DEF LookUpsInOrder, Pending, OnShare
<1>. QED
  BY <1>6, <1>7, <1>8 DEF PanelInv, OnShare

LEMMA PanelUnchanged ==
    ASSUME PanelInv, ServerTypeOK', UNCHANGED sharePage
    PROVE  PanelInv' /\ (OnShare' <=> OnShare)
BY
   DEF PanelInv, ShareTypeOK, LinkIsNewest, LookUpsInOrder, LinkIsForField, Pending,
       OnShare, sharePage

-----------------------------------------------------------------------------
(* The browser.                                                            *)

BrowserType ==
    /\ where \in Pages /\ cookie \in BOOLEAN /\ slipped \in BOOLEAN
    /\ auth \in AuthRecord /\ wanted \in Pages \cup {NULL}
    /\ (where = "file") = OnPage /\ (where = "share") = OnShare

\* An answer about the user that has not arrived is as right as the one that has.
UserInv ==
    ~slipped => /\ auth.me = "none" => auth.user = AuthUser
                /\ auth.me = "yes" => AuthUser
                /\ auth.me = "no" => ~AuthUser

\* The login page keeps the way back, but for the share page's own.
WantedKept == wanted # NULL => auth.next \in {wanted, "filehub/share"}

VisitInv == PageInv /\ LossInv /\ PanelInv /\ BrowserType /\ UserInv /\ WantedKept

LEMMA FieldsOfAuth ==
    ASSUME NEW a \in AuthRecord
    PROVE  /\ a.user \in BOOLEAN /\ a.loading \in BOOLEAN /\ a.out \in BOOLEAN
           /\ a.me \in {"none", "sent", "yes", "no"} /\ a.form \in {"idle", "sent", "yes", "no"}
           /\ a.next \in Target
  BY DEF AuthRecord

LEMMA ProviderIsFresh ==
    AuthProvider \in AuthRecord /\ AuthProvider.me = "sent" /\ AuthProvider.form = "idle"
  BY DEF AuthProvider, AuthRecord, Target

LEMMA NextPageIsPage == VisitInv => NextPage \in Pages
<1>. SUFFICES ASSUME VisitInv PROVE NextPage \in Pages
  OBVIOUS
<1>1. auth.next \in Target
  BY FieldsOfAuth DEF VisitInv, BrowserType
<1>. QED
  BY <1>1 DEF NextPage, Target, Pages

\* The page somebody is sent to is that page, the login page or "not found"; the
\* blocks on it start anew.
LEMMA ShowKeeps ==
    ASSUME VisitInv, NEW p \in Pages, NEW next \in Target, NEW from \in Pages \cup {NULL},
           NEW a \in AuthRecord, NEW failed \in BOOLEAN, Show(p, next, from, a, failed),
           from # NULL => next \in {from, "filehub/share"}, GivenUp \/ Dropped,
           ServerTypeOK', status' = status, cookie' \in BOOLEAN, slipped' \in BOOLEAN
    PROVE  /\ PageInv' /\ PanelInv' /\ BrowserType' /\ WantedKept'
           /\ auth'.user = a.user /\ auth'.me = a.me
           /\ where' \in {p, "login", "missing"}
           /\ where' = "login" <=> p = "login" \/ ~cookie'
           /\ where' = "missing" <=> p # "login" /\ cookie' /\
                 (p = "missing" \/ (p = "file" /\ (failed \/ ~(session' /\ Visited \in stored'))))
           /\ OnPage' => /\ cookie' /\ session'
                         /\ page'.refresh = "none" /\ page'.action = NULL
<1>. DEFINE m == Middleware(p)
            w == Rendered(m.to, failed)
            page1 == IF w = "file" THEN FileDetailPage ELSE NULL
            panel1 == IF w = "share" THEN ShareFor(Visited) ELSE NULL
            next1 == IF p = "login" THEN next ELSE m.next
            wanted1 == IF w # "login" THEN NULL ELSE IF p = "login" THEN from ELSE p
<1>1. /\ where' = w /\ LeaveFor(page1) /\ panel' = panel1 /\ wanted' = wanted1
      /\ auth' = [a EXCEPT !.form = "idle", !.next = next1]
      /\ links' = links
  BY DEF Show
<1>2. /\ m.to \in {p, "login"} /\ (m.to = "login" <=> p = "login" \/ ~cookie')
      /\ m.next = IF p = "login" \/ cookie' THEN NULL ELSE p
  BY DEF Middleware
<1>3. /\ w \in {m.to, "missing"}
      /\ w = "missing" <=> \/ m.to = "missing"
                           \/ m.to = "file" /\ (failed \/ ~(session' /\ Visited \in stored'))
  BY DEF Rendered
<1>4. /\ w \in Pages /\ w \in {p, "login", "missing"}
      /\ w = "login" <=> p = "login" \/ ~cookie'
      /\ w = "missing" <=> p # "login" /\ cookie' /\
            (p = "missing" \/ (p = "file" /\ (failed \/ ~(session' /\ Visited \in stored'))))
      /\ w = "file" => cookie' /\ session'
  <2>1. CASE p = "login" \/ ~cookie'
    BY <1>2, <1>3, <2>1 DEF Pages
  <2>2. CASE ~(p = "login" \/ ~cookie')
    BY <1>2, <1>3, <2>2 DEF Pages
  <2>. QED
    BY <2>1, <2>2
<1>5. next1 \in Target
  BY <1>2 DEF Target
<1>6. wanted1 \in Pages \cup {NULL} /\ (wanted1 # NULL => next1 \in {wanted1, "filehub/share"})
  BY <1>2, <1>4
<1>. HIDE DEF m, w, next1, wanted1
<1>7. FileDetailPage # NULL /\ ShareFor(Visited) # NULL
  BY NewPage, NewPanel, PageAssumption, PanelAssumption DEF VisitInv, PageInv
<1>8. PageInv' /\ (OnPage' <=> w = "file")
  <2>1. page1 \in {NULL, FileDetailPage} /\ (page1 # NULL <=> w = "file")
    BY <1>7
  <2>. HIDE DEF page1
  <2>. QED
    BY <1>1, <2>1, LeaveKeeps DEF VisitInv
<1>9. PanelInv' /\ (OnShare' <=> w = "share")
  <2>1. panel1 \in {NULL, ShareFor(Visited)} /\ (panel1 # NULL <=> w = "share")
    BY <1>7
  <2>. HIDE DEF panel1
  <2>2. links \in Seq(Id)
    BY DEF VisitInv, PanelInv, ShareTypeOK
  <2>. QED
    BY <1>1, <2>1, <2>2, PanelLeft
<1>10. /\ auth' \in AuthRecord /\ auth'.user = a.user /\ auth'.me = a.me
       /\ auth'.next = next1
  BY <1>1, <1>5 DEF AuthRecord
<1>11. BrowserType'
  BY <1>1, <1>4, <1>6, <1>8, <1>9, <1>10 DEF BrowserType, OnPage, OnShare
<1>12. WantedKept'
  BY <1>1, <1>6, <1>10 DEF WantedKept
<1>13. OnPage' => /\ cookie' /\ session'
                  /\ page'.refresh = "none" /\ page'.action = NULL
  BY <1>1, <1>4, <1>8 DEF LeaveFor, FileDetailPage
<1>. QED
  BY <1>1, <1>4, <1>8, <1>9, <1>10, <1>11, <1>12, <1>13

\* Where the page stays, what excuses the loss of a text stays too.
LEMMA LossStays ==
    ASSUME LossInv, UNCHANGED <<filePage, cookie>>, stored' \subseteq stored,
           mishaps \in Nat, mishaps' \in Nat, mishaps' >= mishaps,
           session' = session \/ mishaps' > 0
    PROVE  LossInv'
BY DEF LossInv, Excused, filePage, history, OnPage

\* What only the provider and the login form know of.
LEMMA AuthMoves ==
    ASSUME VisitInv, UNCHANGED <<filePage, sharePage, where, wanted, cookie, status, stored>>,
           ServerTypeOK', slipped' \in BOOLEAN, auth' \in AuthRecord, auth'.next = auth.next,
           mishaps \in Nat, mishaps' \in Nat, mishaps' >= mishaps,
           session' = session \/ mishaps' > 0, UserInv'
    PROVE  VisitInv'
<1>1. PageInv' /\ (OnPage' <=> OnPage)
  BY PageUnchanged DEF VisitInv
<1>2. PanelInv' /\ (OnShare' <=> OnShare)
  BY PanelUnchanged DEF VisitInv
<1>3. LossInv'
  BY LossStays DEF VisitInv
<1>. QED
  BY <1>1, <1>2, <1>3 DEF VisitInv, BrowserType, WantedKept, OnPage, OnShare

\* A step of the page costs a text nothing; a refusal, or a render that finds
\* nothing, is excused.
LEMMA LossStep ==
    ASSUME PageInv, LossInv, NEW allowed \in BOOLEAN, NEW user \in BOOLEAN,
           PageSteps(allowed, user), cookie /\ session => allowed,
           cookie' = cookie, session' = session
    PROVE  LossInv'
<1>. USE PageAssumption, ServerAssumption DEF OnPage
<1>0. /\ OnPage => page \in PageRecord
      /\ mishaps \in Nat
  BY DEF PageInv, FileTypeOK, ServerTypeOK
<1>00. OnPage' <=> OnPage
  BY PageRecordStep DEF PageInv
<1>x. ASSUME stored' \subseteq stored, mishaps' \in {mishaps, mishaps + 1}, dropped' = dropped,
             OnPage => \/ mishaps' = mishaps + 1
                       \/ /\ page'.refresh = "gone" => page.refresh = "gone" \/ Excused \/ ~(cookie /\ session)
                          /\ page'.action # NULL /\ page'.action.st = "unauth" =>
                                \/ page.action # NULL /\ page.action.st = "unauth"
                                \/ Excused \/ ~(cookie /\ session)
      PROVE  LossInv'
  BY <1>0, <1>00, <1>x DEF LossInv, Excused
<1>y. ASSUME stored' = stored, mishaps' \in {mishaps, mishaps + 1}, dropped' = dropped,
             OnPage => page'.refresh = page.refresh /\ page'.action = page.action
      PROVE  LossInv'
  BY <1>x, <1>y
<1>1. CASE ServeAction(allowed)
  <2>1. OnPage /\ page \in PageRecord /\ page.action # NULL /\ page.action \in ActionRecord
    BY <1>1, <1>0, FieldsOfPage, ActionIsServed DEF Pressed
  <2>2. PICK st \in {"unauth", "ok", "refused"} :
          page' = [page EXCEPT !.action.st = st] /\ (st = "unauth" => ~allowed)
    BY <1>1, ActionIsServed
  <2>3. page'.refresh = page.refresh /\ (page'.action.st = "unauth" => ~allowed)
    BY <2>1, <2>2 DEF PageRecord, ActionRecord
  <2>4. stored' \subseteq stored /\ mishaps' = mishaps /\ dropped' = dropped
    BY <1>1, ActionIsServed
  <2>. QED
    BY <1>x, <2>3, <2>4
<1>2. CASE PatchDone
  BY <1>x, <1>2, <1>0 DEF PatchDone, OnlyPage, server, rows, history, PageRecord
<1>3. CASE ActionRefused
  BY <1>x, <1>3, <1>0 DEF ActionRefused, OnlyPage, server, rows, history, PageRecord
<1>4. CASE LoseAction
  BY <1>x, <1>4, <1>0 DEF LoseAction, Fault, Mishap, rows, history
<1>5. ASSUME NEW ok \in BOOLEAN, ReadRefresh(allowed, ok)
     PROVE  LossInv'
  <2>1. stored' = stored /\ mishaps' \in {mishaps, mishaps + 1} /\ dropped' = dropped
    BY <1>5 DEF ReadRefresh, Reads, Fault, Mishap, server, rows, history
  <2>2. OnPage => page'.action = page.action /\ page'.refresh = IF ok THEN status ELSE "gone"
    BY <1>5, <1>0 DEF ReadRefresh, PageRecord
  <2>3. ~ok => mishaps' = mishaps + 1 \/ ~allowed \/ Visited \notin stored
    BY <1>5 DEF ReadRefresh, Reads, Fault, Mishap
  <2>4. ok => status # "gone"
    BY DEF PageInv, ServerTypeOK, Status
  <2>. QED
    BY <1>x, <2>1, <2>2, <2>3, <2>4 DEF Excused
<1>6. CASE ArriveRefresh
  BY <1>x, <1>6, <1>0 DEF ArriveRefresh, OnlyPage, server, rows, history, PageRecord
<1>7. ASSUME NEW ok \in BOOLEAN, LoadPanes(allowed, ok)
     PROVE  LossInv'
  <2>1. page'.refresh = page.refresh /\ page'.action = page.action /\ dropped' = dropped
    BY <1>7, PanesOnly DEF PageInv, FileTypeOK
  <2>2. stored' = stored /\ mishaps' \in {mishaps, mishaps + 1}
    BY <1>7 DEF LoadPanes, Reads, Fault, Mishap, server, rows
  <2>. QED
    BY <1>y, <2>1, <2>2
<1>8. CASE ServePost(allowed)
  BY <1>y, <1>8, <1>0 DEF ServePost, Posting, server, rows, history, PageRecord
<1>9. CASE Posted
  BY <1>y, <1>9, <1>0 DEF Posted, Posting, OnlyPage, server, rows, history, PageRecord
<1>10. CASE PostRefused
  BY <1>y, <1>10, <1>0 DEF PostRefused, OnlyPage, server, rows, history, PageRecord
<1>11. CASE LosePost
  BY <1>x, <1>11 DEF LosePost, Fault, Mishap, rows, history
<1>12. ASSUME NEW i \in DOMAIN page.loads, OnPage, ReadComments(i, allowed)
     PROVE  LossInv'
  BY <1>y, <1>12, <1>0 DEF ReadComments, OnlyPage, server, rows, history, PageRecord
<1>13. ASSUME NEW i \in DOMAIN page.loads, OnPage, ArriveComments(i)
     PROVE  LossInv'
  BY <1>y, <1>13, <1>0 DEF ArriveComments, OnlyPage, server, rows, history, PageRecord
<1>14. ASSUME NEW i \in DOMAIN page.loads, OnPage, LoseComments(i)
     PROVE  LossInv'
  BY <1>x, <1>14 DEF LoseComments, Fault, Mishap, rows, history
<1>15. ASSUME NEW b \in Buttons(page.shown), Press(b)
     PROVE  LossInv'
  BY <1>x, <1>15, <1>0 DEF Press, Act, rows, history, PageRecord
<1>16. CASE Type
  BY <1>y, <1>16, <1>0 DEF Type, server, rows, PageRecord
<1>17. CASE Submit
  BY <1>y, <1>17, <1>0 DEF Submit, Act, rows, history, PageRecord
<1>18. CASE OthersDecide
  BY <1>x, <1>18 DEF OthersDecide, Mishap, history
<1>19. CASE OthersDelete
  BY <1>x, <1>19 DEF OthersDelete, Mishap, history
<1>20. CASE OthersComment
  BY <1>x, <1>20 DEF OthersComment, Mishap, rows, history
<1>21. CASE CollaboraFrame
  BY <1>y, <1>21, <1>0 DEF CollaboraFrame, OnlyPage, server, rows, history, PageRecord
<1>. QED
  BY <1>1, <1>2, <1>3, <1>4, <1>5, <1>6, <1>7, <1>8, <1>9, <1>10, <1>11,
     <1>12, <1>13, <1>14, <1>15, <1>16, <1>17, <1>18, <1>19, <1>20, <1>21
     DEF PageSteps, FilePageAnswers, ServeAction, UsePage

LEMMA BlocksKeepSession ==
    ASSUME NEW allowed, NEW user, PageSteps(allowed, user) \/ PanelSteps(allowed, user)
    PROVE  session' = session
<1>1. CASE PageSteps(allowed, user)
  <2>1. CASE FilePageAnswers(allowed)
    BY <2>1
       DEF FilePageAnswers, ServePatch, ServeDelete, PatchDone, ActionRefused, LoseAction, ReadRefresh,
          ArriveRefresh, LoadPanes, Reads, ServePost, Posted, PostRefused, LosePost,
          ReadComments, ArriveComments, LoseComments, OnlyPage, Fault, rows, server
  <2>2. CASE OnPage /\ UsePage(user)
    BY <2>2 DEF UsePage, Press, Type, Submit, rows, server
  <2>3. CASE OthersDecide \/ OthersDelete \/ OthersComment \/ CollaboraFrame
    BY <2>3
       DEF OthersDecide, OthersDelete, OthersComment, CollaboraFrame, OnlyPage, rows, server
  <2>. QED
    BY <1>1, <2>1, <2>2, <2>3 DEF PageSteps
<1>2. CASE PanelSteps(allowed, user)
  BY <1>2 DEF PanelSteps, SharePageAnswers, UseShare, ServeLookUp, ArriveLookUp, LoseLookUp,
        ServeShare, ShareDone, LoseShare, Edit, CreateShare, ClearShare, Fault, rows, server
<1>. QED
  BY <1>1, <1>2

LEMMA BlocksKeepVisit ==
    ASSUME VisitInv, NEW allowed \in BOOLEAN, NEW user \in BOOLEAN, AuthUser => allowed,
           \/ PageSteps(allowed, user) /\ UNCHANGED <<sharePage, browser>>
           \/ PanelSteps(allowed, user) /\ UNCHANGED <<filePage, browser>>
    PROVE  VisitInv'
<1>1. session' = session /\ UNCHANGED browser
  BY BlocksKeepSession
<1>2. PageInv' /\ LossInv' /\ PanelInv' /\ (OnPage' <=> OnPage) /\ (OnShare' <=> OnShare)
  <2>1. CASE PageSteps(allowed, user) /\ UNCHANGED <<sharePage, browser>>
    <3>1. PageInv' /\ (OnPage' <=> OnPage)
      BY <2>1, PageStep DEF VisitInv
    <3>2. ServerTypeOK'
      BY <3>1 DEF PageInv
    <3>3. LossInv'
      BY <1>1, <2>1, LossStep DEF VisitInv, AuthUser, browser
    <3>. QED
      BY <2>1, <3>1, <3>2, <3>3, PanelUnchanged DEF VisitInv
  <2>2. CASE PanelSteps(allowed, user) /\ UNCHANGED <<filePage, browser>>
    <3>1. PanelInv' /\ (OnShare' <=> OnShare)
      BY <2>2, PanelStep DEF VisitInv
    <3>2. (Act /\ UNCHANGED rows) \/ Fault \/ UNCHANGED server
      BY <2>2 DEF PanelSteps, SharePageAnswers, UseShare, ServeLookUp, ArriveLookUp, LoseLookUp,
              ServeShare, ShareDone, LoseShare, Edit, CreateShare, ClearShare
    <3>3. ServerTypeOK
      BY DEF VisitInv, PageInv
    <3>4. LossInv'
      BY <2>2, <3>2, <3>3, ServerStays, LossStays DEF VisitInv, browser
    <3>. QED
      BY <2>2, <3>1, <3>2, <3>3, <3>4, ServerStays, PageUnchanged DEF VisitInv
  <2>. QED
    BY <2>1, <2>2
<1>. QED
  BY <1>1, <1>2
     DEF VisitInv, BrowserType, UserInv, WantedKept, AuthUser, browser, OnPage, OnShare

-----------------------------------------------------------------------------
(* The visit.                                                              *)

LEMMA InitVisit == Init => VisitInv
<1>. SUFFICES ASSUME Init PROVE VisitInv
  OBVIOUS
<1>1. ServerTypeOK
  BY ServerAssumption, VisitAssumption DEF Init, ServerTypeOK, SetupRecord, Status
<1>2. FileDetailPage \in PageRecord /\ FileDetailPage # NULL
  BY <1>1, NewPage, PageAssumption
<1>3. ShareFor(Visited) \in PanelRecord /\ ShareFor(Visited) # NULL
  BY NewPanel, PanelAssumption
<1>4. (where = "file") = OnPage /\ (where = "share") = OnShare
  BY <1>2, <1>3 DEF Init, OnPage, OnShare
<1>5. /\ comments = <<>> /\ typed = 0 /\ replaced = {} /\ dropped = {} /\ rushed = {}
      /\ unsure = {}
      /\ page \in {NULL, FileDetailPage} /\ panel \in {NULL, ShareFor(Visited)} /\ links = <<>>
  BY DEF Init
<1>6. page # NULL => /\ page.shown = status /\ page.draft = 0 /\ page.post = NULL
                     /\ page.action = NULL /\ page.items = NULL /\ page.refresh = "none"
                     /\ page.loads = <<[for |-> "mount", st |-> "sent", n |-> 0]>>
  BY <1>5 DEF FileDetailPage
<1>7. PageInv
  <2>1. FileTypeOK
    BY <1>2, <1>5, <1>6, PageAssumption DEF FileTypeOK, OnPage
  <2>2. LoadsFit /\ ActionFits /\ ScreenInv
    BY <1>5, <1>6 DEF LoadsFit, ActionFits, ScreenInv, OnPage, Status
  <2>3. TextsInv
    BY <1>5, <1>6 DEF TextsInv, TextsKept, TextsOnce, FieldIsFresh, PostIsKnown, OnPage
  <2>. QED
    BY <1>1, <2>1, <2>2, <2>3 DEF PageInv
<1>8. PanelInv
  <2>1. ShareTypeOK
    BY <1>3, <1>5, NewPanel DEF ShareTypeOK, OnShare
  <2>2. LinkIsNewest /\ LinkIsForField
    BY <1>5, NewPanel DEF LinkIsNewest, LinkIsForField, OnShare
  <2>3. LookUpsInOrder
    BY <1>5, NewPanel DEF LookUpsInOrder, Pending, OnShare
  <2>. QED
    BY <1>1, <2>1, <2>2, <2>3 DEF PanelInv
<1>9. SignedIn \in AuthRecord /\ SignedIn.user = TRUE /\ SignedIn.me = "none"
  BY DEF SignedIn, AuthProvider, AuthRecord, Target
<1>10. BrowserType
  <2>1. auth \in AuthRecord
    BY <1>9, ProviderIsFresh DEF Init
  <2>. QED
    BY <1>4, <2>1 DEF Init, BrowserType, Pages
<1>11. UserInv /\ WantedKept
  BY <1>9, ProviderIsFresh DEF Init, UserInv, WantedKept, AuthUser
<1>12. LossInv
  <2>1. OnPage => cookie /\ session
    BY <1>4 DEF Init
  <2>. QED
    BY <1>5, <1>6, <2>1 DEF LossInv, OnPage
<1>. QED
  BY <1>7, <1>8, <1>10, <1>11, <1>12 DEF VisitInv

\* The steps by which the browser goes to another page; a text in the field is
\* given up, or dropped with an excuse.
Goes(p, next, from, a, failed) ==
    /\ Show(p, next, from, a, failed)
    /\ GivenUp \/ (Dropped /\ Excused)
    /\ UNCHANGED <<stored, status, setup>> /\ session' \in BOOLEAN
    /\ acts' \in 0..setup.budget /\ mishaps' \in {mishaps, mishaps + 1} /\ mishaps' <= MaxMishaps

LEMMA ServerGoes ==
    ASSUME ServerTypeOK, NEW failed \in BOOLEAN,
           \/ UNCHANGED server
           \/ MayFail(failed) /\ UNCHANGED <<stored, status, setup>> /\ session' \in BOOLEAN
                /\ acts' \in {acts, acts + 1} /\ (acts' # acts => acts < setup.budget)
           \/ Mishap /\ UNCHANGED <<stored, status, setup>> /\ session' \in BOOLEAN
    PROVE  /\ UNCHANGED <<stored, status, setup>> /\ session' \in BOOLEAN
           /\ acts' \in 0..setup.budget /\ mishaps' \in {mishaps, mishaps + 1}
           /\ mishaps' <= MaxMishaps
<1>. USE ServerAssumption DEF ServerTypeOK, SetupRecord
<1>1. CASE UNCHANGED server
  BY <1>1 DEF server, rows
<1>2. CASE MayFail(failed) /\ UNCHANGED <<stored, status, setup>> /\ session' \in BOOLEAN
                /\ acts' \in {acts, acts + 1} /\ (acts' # acts => acts < setup.budget)
  BY <1>2 DEF MayFail
<1>3. CASE Mishap /\ UNCHANGED <<stored, status, setup>> /\ session' \in BOOLEAN
  BY <1>3 DEF Mishap
<1>. QED
  BY <1>1, <1>2, <1>3

LEMMA GoingKeeps ==
    ASSUME VisitInv, NEW p \in Pages, NEW next \in Target, NEW from \in Pages \cup {NULL},
           NEW a \in AuthRecord, NEW failed \in BOOLEAN, Goes(p, next, from, a, failed),
           from # NULL => next \in {from, "filehub/share"},
           cookie' \in BOOLEAN, slipped' \in BOOLEAN,
           ~slipped' => /\ a.me = "none" => a.user = (cookie' /\ session')
                        /\ a.me = "yes" => cookie' /\ session'
                        /\ a.me = "no" => ~(cookie' /\ session')
    PROVE  VisitInv'
<1>1. ServerTypeOK /\ mishaps \in Nat
  BY ServerAssumption DEF VisitInv, PageInv, ServerTypeOK
<1>2. ServerTypeOK' /\ UNCHANGED <<stored, status>> /\ mishaps' \in Nat /\ mishaps' >= mishaps
  BY <1>1, ServerAssumption DEF Goes, ServerTypeOK, SetupRecord
<1>3. /\ PageInv' /\ PanelInv' /\ BrowserType' /\ WantedKept'
      /\ auth'.user = a.user /\ auth'.me = a.me
      /\ OnPage' => cookie' /\ session' /\ page'.refresh = "none" /\ page'.action = NULL
  BY <1>2, ShowKeeps DEF Goes
<1>4. UserInv'
  BY <1>3 DEF UserInv, AuthUser
<1>5. LossInv'
  <2>1. Excused => Excused'
    BY <1>1, <1>2 DEF Excused
  <2>2. ~Excused => dropped' = dropped
    BY DEF Goes, GivenUp
  <2>. QED
    BY <1>3, <2>1, <2>2 DEF VisitInv, LossInv
<1>. QED
  BY <1>3, <1>4, <1>5 DEF VisitInv

LEMMA VisitStep == VisitInv /\ [Next]_vars => VisitInv'
<1>. SUFFICES ASSUME VisitInv, [Next]_vars PROVE VisitInv'
  OBVIOUS
<1>0. /\ ServerTypeOK /\ auth \in AuthRecord /\ cookie \in BOOLEAN /\ slipped \in BOOLEAN
      /\ session \in BOOLEAN /\ wanted \in Pages \cup {NULL}
  BY DEF VisitInv, PageInv, BrowserType, ServerTypeOK
<1>a. NextPage \in Pages
  BY NextPageIsPage
<1>b. AuthUser \in BOOLEAN /\ auth.user \in BOOLEAN /\ (~auth.loading /\ auth.user) \in BOOLEAN
  BY <1>0, FieldsOfAuth DEF AuthUser
<1>c. NULL \in Target /\ Pages \subseteq Target /\ "filehub/share" \in Target
      /\ {"login", "file", "share", "list", "missing"} = Pages
  BY DEF Target, Pages
<1>d. ~slipped => /\ auth.me = "none" => auth.user = (cookie /\ session)
                  /\ auth.me = "yes" => cookie /\ session
                  /\ auth.me = "no" => ~(cookie /\ session)
  BY DEF VisitInv, UserInv, AuthUser
<1>1. ASSUME NEW allowed \in BOOLEAN, NEW user \in BOOLEAN,
             AuthUser => allowed,
             \/ PageSteps(allowed, user) /\ UNCHANGED <<sharePage, browser>>
             \/ PanelSteps(allowed, user) /\ UNCHANGED <<filePage, browser>>
      PROVE  VisitInv'
  BY <1>1, BlocksKeepVisit
<1>e. OnPage => /\ page \in PageRecord
                /\ page.refresh = "gone" => Excused
                /\ page.action # NULL /\ page.action.st = "unauth" => Excused
  BY DEF VisitInv, LossInv, PageInv, FileTypeOK, OnPage
<1>2. ASSUME NEW p \in {"login", "file", "share", "list"}, NEW failed \in BOOLEAN, Open(p, failed)
      PROVE  VisitInv'
  <2>1. acts \in Nat
    BY <1>0 DEF ServerTypeOK, SetupRecord
  <2>2. Goes(p, NULL, NULL, AuthProvider, failed) /\ cookie' \in BOOLEAN /\ slipped' = FALSE
    BY <1>0, <1>2, <2>1, ServerGoes DEF Open, Goes, rows
  <2>. QED
    BY <1>c, <2>2, ProviderIsFresh, GoingKeeps
<1>3. CASE FileDeleted
  <2>1. Goes("list", NULL, NULL, auth, FALSE) /\ UNCHANGED <<cookie, slipped, session>>
    BY <1>0, <1>3, ServerGoes DEF FileDeleted, Goes, server, rows
  <2>. QED
    BY <1>0, <1>c, <1>d, <2>1, GoingKeeps
<1>4. CASE FileNotFound
  <2>1. Excused
    BY <1>4, <1>e DEF FileNotFound, ArriveNotFound
  <2>2. Goes("missing", NULL, NULL, auth, FALSE) /\ UNCHANGED <<cookie, slipped, session>>
    BY <1>0, <1>4, <2>1, ServerGoes DEF FileNotFound, Goes, server, rows
  <2>. QED
    BY <1>0, <1>c, <1>d, <2>2, GoingKeeps
<1>5. CASE FileUnauthorized
  <2>1. Excused
    BY <1>5, <1>e DEF FileUnauthorized, SignInAgain, Pressed
  <2>2. Goes("login", "file", "file", AuthProvider, FALSE) /\ cookie' = cookie /\ slipped' = FALSE
    BY <1>0, <1>5, <2>1, ServerGoes DEF FileUnauthorized, Goes
  <2>. QED
    BY <1>0, <1>c, <2>2, ProviderIsFresh, GoingKeeps
<1>6. CASE SharingUnauthorized
  <2>1. /\ Goes("login", "filehub/share", "share", AuthProvider, FALSE)
        /\ cookie' = cookie /\ slipped' = FALSE
    BY <1>0, <1>6, ServerGoes DEF SharingUnauthorized, Goes
  <2>. QED
    BY <1>0, <1>c, <2>1, ProviderIsFresh, GoingKeeps
<1>7. ASSUME NEW failed \in BOOLEAN, Bounce(failed)  PROVE VisitInv'
  <2>1. Goes(NextPage, NULL, NULL, auth, failed) /\ UNCHANGED <<cookie, slipped, session>>
    BY <1>0, <1>7, ServerGoes DEF Bounce, Goes, rows
  <2>. QED
    BY <1>0, <1>a, <1>c, <1>d, <2>1, GoingKeeps
<1>8. ASSUME NEW failed \in BOOLEAN, LoginDone(failed)  PROVE VisitInv'
  <2>. DEFINE asking == [auth EXCEPT !.me = "sent"]
  <2>1. asking \in AuthRecord /\ asking.me = "sent"
    BY <1>0 DEF AuthRecord
  <2>2. Goes(NextPage, NULL, NULL, asking, failed) /\ cookie' = TRUE /\ slipped' = FALSE
    BY <1>0, <1>8, ServerGoes DEF LoginDone, Goes
  <2>. HIDE DEF asking
  <2>. QED
    BY <1>a, <1>c, <2>1, <2>2, GoingKeeps
<1>9. CASE LogoutDone
  <2>1. /\ Goes("login", NULL, NULL, AuthProvider, FALSE) /\ cookie' = FALSE /\ slipped' = FALSE
    BY <1>0, <1>9, ServerGoes DEF LogoutDone, Goes, MayFail
  <2>. QED
    BY <1>c, <2>1, ProviderIsFresh, GoingKeeps
<1>10. CASE LoseLogout
  <2>1. Goes("login", NULL, NULL, AuthProvider, FALSE) /\ cookie' = cookie /\ slipped' = FALSE
    BY <1>0, <1>10, ServerGoes DEF LoseLogout, Goes
  <2>. QED
    BY <1>0, <1>c, <2>1, ProviderIsFresh, GoingKeeps
<1>11. CASE ReadMe
  <2>1. /\ ServerTypeOK' /\ UNCHANGED <<filePage, sharePage, where, wanted>>
        /\ UNCHANGED <<status, stored, cookie, session, slipped>>
        /\ mishaps \in Nat /\ mishaps' \in Nat /\ mishaps' >= mishaps
        /\ auth.me = "sent" /\ auth' = [auth EXCEPT !.me = IF AuthUser THEN "yes" ELSE "no"]
    BY <1>0, <1>11, ServerStays DEF ReadMe, OnlyAuth, server, rows
  <2>2. /\ auth' \in AuthRecord /\ auth'.next = auth.next
        /\ auth'.me = IF AuthUser THEN "yes" ELSE "no"
    <3>. DEFINE me == IF AuthUser THEN "yes" ELSE "no"
    <3>1. me \in {"yes", "no"} /\ auth' = [auth EXCEPT !.me = me]
      BY <2>1
    <3>2. auth' \in AuthRecord /\ auth'.next = auth.next /\ auth'.me = me
      <4>. HIDE DEF me
      <4>. QED
        BY <1>0, <3>1 DEF AuthRecord
    <3>. QED
      BY <3>2
  <2>3. UserInv'
    BY <2>1, <2>2 DEF UserInv, AuthUser
  <2>. QED
    BY <1>0, <2>1, <2>2, <2>3, AuthMoves
<1>12. CASE ArriveMe
  <2>1. /\ ServerTypeOK' /\ UNCHANGED <<filePage, sharePage, where, wanted>>
        /\ UNCHANGED <<status, stored, cookie, session, slipped>>
        /\ mishaps \in Nat /\ mishaps' \in Nat /\ mishaps' >= mishaps
        /\ auth.me \in {"yes", "no"}
        /\ auth' = [auth EXCEPT !.user = (auth.me = "yes"), !.loading = FALSE, !.me = "none"]
    BY <1>0, <1>12, ServerStays DEF ArriveMe, OnlyAuth, server, rows
  <2>2. /\ auth' \in AuthRecord /\ auth'.next = auth.next
        /\ auth'.me = "none" /\ auth'.user = (auth.me = "yes")
    <3>. DEFINE known == auth.me = "yes"
    <3>1. known \in BOOLEAN /\ auth' = [auth EXCEPT !.user = known, !.loading = FALSE, !.me = "none"]
      BY <2>1
    <3>2. auth' \in AuthRecord /\ auth'.next = auth.next /\ auth'.me = "none" /\ auth'.user = known
      <4>. HIDE DEF known
      <4>. QED
        BY <1>0, <3>1 DEF AuthRecord
    <3>. QED
      BY <3>2
  <2>3. UserInv'
    BY <1>0, <1>d, <2>1, <2>2 DEF UserInv, AuthUser
  <2>. QED
    BY <1>0, <2>1, <2>2, <2>3, AuthMoves
<1>13. CASE LoseMe
  <2>1. /\ ServerTypeOK' /\ UNCHANGED <<filePage, sharePage, where, wanted>>
        /\ UNCHANGED <<status, stored, cookie, session>>
        /\ mishaps \in Nat /\ mishaps' \in Nat /\ mishaps' >= mishaps
        /\ slipped' = TRUE
        /\ auth' = [auth EXCEPT !.user = FALSE, !.loading = FALSE, !.me = "none"]
    BY <1>0, <1>13, ServerStays DEF LoseMe, OnlyAuth, Fault, rows
  <2>2. auth' \in AuthRecord /\ auth'.next = auth.next
    BY <1>0, <2>1 DEF AuthRecord
  <2>. QED
    BY <1>0, <2>1, <2>2, AuthMoves DEF UserInv
<1>14. ASSUME NEW form \in {"idle", "sent", "yes", "no"}, auth' = [auth EXCEPT !.form = form],
              (Act /\ UNCHANGED rows) \/ Fault \/ UNCHANGED server,
              UNCHANGED <<filePage, sharePage, where, wanted, cookie, slipped>>
       PROVE  VisitInv'
  <2>1. /\ ServerTypeOK' /\ UNCHANGED <<status, stored, session>>
        /\ mishaps \in Nat /\ mishaps' \in Nat /\ mishaps' >= mishaps
    BY <1>0, <1>14, ServerStays
  <2>2. /\ auth' \in AuthRecord /\ auth'.next = auth.next
        /\ auth'.me = auth.me /\ auth'.user = auth.user
    BY <1>0, <1>14 DEF AuthRecord
  <2>3. UserInv'
    BY <1>d, <1>14, <2>1, <2>2 DEF UserInv, AuthUser
  <2>. QED
    BY <1>0, <1>14, <2>1, <2>2, <2>3, AuthMoves
<1>15. CASE SubmitLogin
  BY <1>14, <1>15 DEF SubmitLogin, filePage, sharePage
<1>16. ASSUME NEW good \in BOOLEAN, ServeLogin(good)  PROVE VisitInv'
  <2>. DEFINE form == IF good THEN "yes" ELSE "no"
  <2>1. form \in {"idle", "sent", "yes", "no"} /\ auth' = [auth EXCEPT !.form = form]
    BY <1>16 DEF ServeLogin
  <2>. HIDE DEF form
  <2>. QED
    BY <1>14, <1>16, <2>1 DEF ServeLogin, OnlyAuth
<1>17. CASE LoginRefused \/ LoseLogin
  BY <1>14, <1>17 DEF LoginRefused, LoseLogin, OnlyAuth
<1>18. CASE Logout
  <2>1. /\ ServerTypeOK' /\ UNCHANGED <<filePage, sharePage, where, wanted>>
        /\ UNCHANGED <<status, stored, cookie, session, slipped>>
        /\ mishaps \in Nat /\ mishaps' \in Nat /\ mishaps' >= mishaps
        /\ auth' = [auth EXCEPT !.out = TRUE]
    BY <1>0, <1>18, ServerStays DEF Logout, rows
  <2>2. /\ auth' \in AuthRecord /\ auth'.next = auth.next
        /\ auth'.me = auth.me /\ auth'.user = auth.user
    BY <1>0, <2>1 DEF AuthRecord
  <2>3. UserInv'
    BY <1>d, <2>1, <2>2 DEF UserInv, AuthUser
  <2>. QED
    BY <1>0, <2>1, <2>2, <2>3, AuthMoves
<1>19. CASE SessionEnds
  <2>1. /\ session' = FALSE /\ slipped' = TRUE
        /\ UNCHANGED <<filePage, sharePage, where, auth, cookie, wanted, stored, status, setup>>
    BY <1>19 DEF SessionEnds
  <2>2. ServerTypeOK' /\ mishaps \in Nat /\ mishaps' \in Nat /\ mishaps' = mishaps + 1
    <3>1. /\ mishaps \in Nat /\ mishaps' \in Nat /\ mishaps' = mishaps + 1
          /\ mishaps' \in 0..MaxMishaps /\ acts' = acts
      BY <1>0, <1>19, ServerAssumption DEF SessionEnds, Mishap, ServerTypeOK
    <3>2. ServerTypeOK'
      BY <1>0, <2>1, <3>1 DEF ServerTypeOK
    <3>. QED
      BY <3>1, <3>2
  <2>. QED
    BY <1>0, <2>1, <2>2, AuthMoves DEF UserInv
<1>20. CASE UNCHANGED vars
  <2>1. /\ ServerTypeOK' /\ UNCHANGED <<filePage, sharePage, browser, server>>
        /\ mishaps \in Nat /\ mishaps' \in Nat /\ mishaps' >= mishaps
    BY <1>0, <1>20, ServerStays DEF vars
  <2>2. UserInv'
    BY <1>d, <2>1 DEF UserInv, AuthUser, browser, server, rows
  <2>. QED
    BY <1>0, <2>1, <2>2, AuthMoves DEF browser, server, rows
<1>21. CASE Answers
  <2>1. CASE FilePageAnswers(AuthUser) /\ UNCHANGED <<sharePage, browser>>
    BY <1>1, <1>b, <2>1 DEF PageSteps
  <2>2. CASE SharePageAnswers(AuthUser) /\ UNCHANGED <<filePage, browser>>
    BY <1>1, <1>b, <2>2 DEF PanelSteps
  <2>3. CASE InSession
    BY <1>7, <1>8, <1>9, <1>10, <1>11, <1>12, <1>13, <1>16, <1>17, <2>3 DEF InSession
  <2>. QED
    BY <1>3, <1>4, <1>5, <1>6, <1>21, <2>1, <2>2, <2>3 DEF Answers
<1>22. CASE Uses
  <2>1. CASE OnPage /\ UsePage(auth.user) /\ UNCHANGED <<sharePage, browser>>
    BY <1>1, <1>b, <2>1 DEF PageSteps
  <2>2. CASE UseShare(~auth.loading /\ auth.user) /\ UNCHANGED <<filePage, browser>>
    BY <1>1, <1>b, <2>2 DEF PanelSteps
  <2>. QED
    BY <1>2, <1>15, <1>18, <1>22, <2>1, <2>2 DEF Uses
<1>23. CASE Others \/ (CollaboraFrame /\ UNCHANGED <<sharePage, browser>>)
  <2>1. CASE (OthersDecide \/ OthersDelete \/ OthersComment \/ CollaboraFrame)
                /\ UNCHANGED <<sharePage, browser>>
    BY <1>1, <1>b, <2>1 DEF PageSteps
  <2>. QED
    BY <1>19, <1>23, <2>1 DEF Others
<1>. QED
  BY <1>20, <1>21, <1>22, <1>23 DEF Next

\* The inductive invariant holds throughout a visit.
THEOREM VisitInvariant == Spec => []VisitInv
  BY InitVisit, VisitStep, PTL DEF Spec

\* The page, the share page and the browser are what they are said to be, for
\* every file, viewer, role and length of the visit.
THEOREM TypeCorrect == Spec => []VisitTypeOK
<1>1. VisitInv => VisitTypeOK
  BY DEF VisitInv, PageInv, PanelInv, BrowserType, VisitTypeOK
<1>. QED
  BY <1>1, VisitInvariant, PTL

\* A text typed into an idle comment field is stored, kept, given up by the user,
\* or taken by the page itself, on a 401 or a "not found", which needs a file that
\* was deleted, a failed request or somebody else; none is stored twice but for a
\* lost answer (sidecar.tsx:200-221, actions.tsx:22, page.tsx:24).
THEOREM CommentsArriveOnce == Spec => []TextsStoredOnce
<1>1. VisitInv => TextsStoredOnce
  BY PageInvGives DEF VisitInv
<1>. QED
  BY <1>1, VisitInvariant, PTL

\* When nothing is under way the buttons of the file page stand for the status
\* that is stored (actions.tsx:14-32).
THEOREM ButtonsFollowStatus == Spec => []ScreenSettles
<1>1. VisitInv => ScreenSettles
  BY PageInvGives DEF VisitInv
<1>. QED
  BY <1>1, VisitInvariant, PTL

\* The share page shows the file of its id, unless an answer was overtaken, and a
\* link that opens that file, unless the id was edited or is being shared anew
\* (share/page.tsx:47-57, :69-94).
THEOREM SharePageIsConsistent == Spec => []ShareGoesTogether
<1>1. VisitInv => ShareGoesTogether
  BY PanelInvGives DEF VisitInv
<1>. QED
  BY <1>1, VisitInvariant, PTL

\* Once it was told, the provider knows whether somebody is signed in, as long as
\* the session did not end on the server and no answer about it was lost
\* (auth-context.tsx:40-60).
THEOREM ProviderKnowsTheUser == Spec => []KnowsTheUser
<1>1. VisitInv => KnowsTheUser
  BY DEF VisitInv, UserInv, KnowsTheUser
<1>. QED
  BY <1>1, VisitInvariant, PTL

\* Who signs in is back on the page he was sent to the login page from; or on "not
\* found" in place of a file that is gone, that he has no session for, or that
\* could not be read at that moment.  A 401 of the share page is left out
\* (middleware.ts:63-73, login/page.tsx:37-42, page.tsx:24).
THEOREM ComesBack == Spec => LandsBack
<1>. DEFINE Back == where' = wanted \/ (wanted = "file" /\ where' = "missing"
                        /\ (Visited \notin stored \/ ~session' \/ mishaps' # mishaps))
<1>1. ASSUME VisitInv, Next, where = "login", where' # "login", wanted # NULL, acts' = acts,
             auth.next # "filehub/share"
      PROVE  Back
  <2>0. /\ ~OnPage /\ ~OnShare /\ auth.next = wanted /\ wanted \in Pages
        /\ auth \in AuthRecord /\ acts \in Nat /\ mishaps \in Nat /\ ServerTypeOK
        /\ cookie \in BOOLEAN /\ slipped \in BOOLEAN
    <3>1. ServerTypeOK /\ BrowserType /\ WantedKept
      BY <1>1 DEF VisitInv, PageInv
    <3>2. acts \in Nat /\ mishaps \in Nat
      BY <3>1, ServerAssumption DEF ServerTypeOK, SetupRecord
    <3>3. ~OnPage /\ ~OnShare
      BY <1>1, <3>1 DEF BrowserType
    <3>. QED
      BY <1>1, <3>1, <3>2, <3>3 DEF BrowserType, WantedKept
  <2>1. NextPage = wanted
    BY <1>1, <2>0 DEF NextPage
  <2>2. ASSUME NEW a \in AuthRecord, NEW failed \in BOOLEAN, MayFail(failed),
               Goes(NextPage, NULL, NULL, a, failed),
               cookie' \in BOOLEAN, slipped' \in BOOLEAN
        PROVE  Back
    <3>1. NextPage \in Pages /\ NULL \in Target
      BY <1>1, NextPageIsPage DEF Target
    <3>2. ServerTypeOK' /\ UNCHANGED <<stored, status>> /\ (GivenUp \/ Dropped)
      BY <2>0, <2>2, ServerAssumption DEF Goes, ServerTypeOK, SetupRecord
    <3>3. /\ where' \in {NextPage, "login", "missing"}
          /\ where' = "missing" <=> NextPage # "login" /\ cookie' /\
               (NextPage = "missing" \/ (NextPage = "file"
                    /\ (failed \/ ~(session' /\ Visited \in stored'))))
      BY <1>1, <2>2, <3>1, <3>2, ShowKeeps DEF Goes
    <3>4. failed => mishaps' # mishaps
      BY <2>0, <2>2 DEF MayFail
    <3>. QED
      BY <1>1, <2>1, <3>2, <3>3, <3>4
  <2>3. ASSUME NEW failed \in BOOLEAN, Bounce(failed)  PROVE Back
    <3>1. Goes(NextPage, NULL, NULL, auth, failed)
      BY <2>0, <2>3, ServerGoes DEF Bounce, Goes, rows, ServerTypeOK
    <3>. QED
      BY <2>0, <2>2, <2>3, <3>1 DEF Bounce
  <2>4. ASSUME NEW failed \in BOOLEAN, LoginDone(failed)  PROVE Back
    <3>. DEFINE asking == [auth EXCEPT !.me = "sent"]
    <3>1. asking \in AuthRecord
      BY <2>0 DEF AuthRecord
    <3>2. Goes(NextPage, NULL, NULL, asking, failed) /\ cookie' = TRUE /\ slipped' = FALSE
      BY <2>0, <2>4, ServerGoes DEF LoginDone, Goes
    <3>3. MayFail(failed)
      BY <2>4 DEF LoginDone
    <3>. HIDE DEF asking
    <3>. QED
      BY <2>2, <3>1, <3>2, <3>3
  <2>5. CASE LogoutDone \/ LoseLogout
    <3>1. Show("login", NULL, NULL, AuthProvider, FALSE)
      BY <2>5 DEF LogoutDone, LoseLogout
    <3>. QED
      BY <1>1, <3>1 DEF Show, Middleware, Rendered
  <2>6. CASE \E p \in {"login", "file", "share", "list"}, failed \in BOOLEAN : Open(p, failed)
    BY <1>1, <2>0, <2>6 DEF Open
  <2>7. CASE FileDeleted \/ FileNotFound \/ FileUnauthorized \/ SharingUnauthorized
    BY <2>0, <2>7 DEF FileDeleted, FileNotFound, FileUnauthorized, SharingUnauthorized,
          RemoveDone, ArriveNotFound, SignInAgain, Pressed, ShareUnauthorized
  <2>8. CASE where' = where
    BY <1>1, <2>8
  <2>9. \/ \E failed \in BOOLEAN : Bounce(failed) \/ LoginDone(failed)
        \/ LogoutDone \/ LoseLogout
        \/ \E p \in {"login", "file", "share", "list"}, failed \in BOOLEAN : Open(p, failed)
        \/ FileDeleted \/ FileNotFound \/ FileUnauthorized \/ SharingUnauthorized
        \/ where' = where
    BY <1>1 DEF Next, Answers, InSession, Uses, Others, browser, ReadMe, ArriveMe, LoseMe,
          SubmitLogin, ServeLogin, LoginRefused, LoseLogin, Logout, SessionEnds, OnlyAuth
  <2>. QED
    BY <2>3, <2>4, <2>5, <2>6, <2>7, <2>8, <2>9
<1>2. VisitInv /\ [Next]_vars =>
        [where = "login" /\ where' # "login" /\ wanted # NULL /\ acts' = acts
            /\ auth.next # "filehub/share"
            => where' = wanted \/ (wanted = "file" /\ where' = "missing"
                        /\ (Visited \notin stored \/ ~session' \/ mishaps' # mishaps))]_vars
  BY <1>1
<1>. QED
  BY <1>2, VisitInvariant, PTL DEF Spec, LandsBack

=============================================================================
