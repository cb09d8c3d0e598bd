------------------------------ MODULE FilePage ------------------------------
(***************************************************************************)
(* The page of one file (src/frontend/app/files/[id]): a server render of  *)
(* its row, the review buttons, the preview, and the version, workflow and *)
(* comment blocks, which fetch on their own.                               *)
(*                                                                         *)
(* A request is sent, served and answered in steps of their own; what the  *)
(* page shows is what was read last, not what is stored.  router.refresh() *)
(* is only asked for: the buttons are back before the new render is.       *)
(***************************************************************************)
EXTENDS PageServer

CONSTANT MaxTexts   \* bound: texts typed into the comment field

VARIABLES
    page,       \* the page on screen, or NULL
    comments,   \* file_comments: the texts in order; 0 is somebody else's
    typed,      \* texts typed so far
    replaced,   \* history: texts the user gave up: typed over, or left behind
    dropped,    \* history: texts in the field when the page went by itself
    rushed,     \* history: texts typed while another was being posted
    unsure      \* history: texts whose POST got no answer

history == <<replaced, dropped, rushed, unsure>>
filePage == <<page, comments, typed, history>>

OnPage == page # NULL

-----------------------------------------------------------------------------
(* The render.                                                             *)

\* Which view FilePreview picks; "loading" where it has to ask first.
FilePreview ==
    CASE setup.type = "pdf" -> "pdf"
      [] setup.type \in {"office", "text"} -> "loading"
      [] setup.type = "img" -> "image"
      [] setup.type = "media" -> "player"
      [] OTHER -> "card"

\* The blocks fetch when they are mounted.
FileSidecar == [versions |-> "asked", workflow |-> "asked"]

FileDetailPage ==
    [shown |-> status, refresh |-> "none", again |-> FALSE, action |-> NULL,
     preview |-> FilePreview, blocks |-> FileSidecar,
     items |-> NULL, loads |-> <<[for |-> "mount", st |-> "sent", n |-> 0]>>, draft |-> 0, post |-> NULL,
     doubt |-> FALSE]

\* A decision under way, a comment under way, a list that is fetched, and the
\* page on screen.
ActionRecord ==
    [which : {"approve", "review", "delete"}, to : Status \cup {NULL},
     st : {"sent", "ok", "refused", "unauth"}]
PostRecord == [text : Nat, st : {"sent", "ok", "refused", "reload"}]
LoadRecord == [for : {"mount", "post"}, st : {"sent", "read", "bad"}, n : Nat]
PageRecord ==
    [shown : Status \cup {"gone"}, refresh : {"none", "asked", "gone"} \cup Status,
     again : BOOLEAN, action : {NULL} \cup ActionRecord,
     preview : {"loading", "pdf", "editor", "branded", "image", "player",
                "text", "card", "error"},
     blocks : [versions : {"asked", "shown", "failed"}, workflow : {"asked", "shown", "failed"}],
     items : Nat \cup {NULL}, loads : Seq(LoadRecord),
     draft : Nat, post : {NULL} \cup PostRecord, doubt : BOOLEAN]

ASSUME PageAssumption ==
    NULL \notin PageRecord \cup ActionRecord \cup PostRecord /\ MaxTexts \in Nat

FileTypeOK ==
    /\ page \in PageRecord \cup {NULL}
    /\ OnPage => /\ page.items # NULL => page.items <= Len(comments)
                 /\ page.draft \in 0..typed
                 /\ page.post # NULL => page.post.text \in 1..typed
    /\ comments \in Seq(0..typed) /\ typed \in 0..MaxTexts
    /\ replaced \cup dropped \cup rushed \cup unsure \subseteq 1..typed

\* Another page, or the same one anew: what is in the comment field goes with
\* it, by the user's leave, or without it.
LeaveFor(newPage) ==
    /\ page' = newPage
    /\ UNCHANGED <<comments, typed, rushed, unsure>>
Draft == IF OnPage /\ page.draft # 0 THEN {page.draft} ELSE {}
GivenUp == replaced' = replaced \cup Draft /\ UNCHANGED dropped
Dropped == dropped' = dropped \cup Draft /\ UNCHANGED replaced

OnlyPage == UNCHANGED <<server, comments, typed, history>>

-----------------------------------------------------------------------------
(* FileActions.                                                            *)

\* The buttons go by the status of the last render.
Buttons(s) ==
    {[which |-> "delete", to |-> NULL]} \cup
    CASE s = "Review" -> {[which |-> "approve", to |-> "Approved"],
                          [which |-> "review", to |-> "Draft"]}
      [] OTHER -> {[which |-> "review", to |-> "Review"]}

Press(b) ==
    /\ OnPage /\ page.shown # "gone" /\ CanMutate
    /\ page.action = NULL /\ b \in Buttons(page.shown)
    /\ Act
    /\ page' = [page EXCEPT !.action = [which |-> b.which, to |-> b.to, st |-> "sent"]]
    /\ UNCHANGED <<rows, comments, typed, history>>

Pressed(st) == OnPage /\ page.action # NULL /\ page.action.st = st

ActionServed(allowed, found) ==
    page' = [page EXCEPT !.action.st =
                IF ~allowed THEN "unauth" ELSE IF found THEN "ok" ELSE "refused"]

\* The status is written whatever it was.
ServePatch(allowed) ==
    /\ Pressed("sent") /\ page.action.which # "delete"
    /\ ActionServed(allowed, Visited \in stored)
    /\ status' = IF allowed /\ Visited \in stored THEN page.action.to ELSE status
    /\ UNCHANGED <<stored, session, setup, acts, mishaps, comments, typed, history>>

\* A file in the trash is put there once more; one that is purged is not found.
ServeDelete(allowed, purged) ==
    /\ Pressed("sent") /\ page.action.which = "delete"
    /\ purged => Visited \notin stored
    /\ ActionServed(allowed, ~purged)
    /\ stored' = IF allowed THEN stored \ {Visited} ELSE stored
    /\ UNCHANGED <<status, session, setup, acts, mishaps, comments, typed, history>>

\* Mutant: the page is not rendered again.
PatchDoneQuietly ==
    /\ Pressed("ok") /\ page.action.which # "delete"
    /\ page' = [page EXCEPT !.action = NULL]
    /\ OnlyPage

\* router.refresh(); one that is asked for during another comes after it.
PatchDone ==
    /\ Pressed("ok") /\ page.action.which # "delete"
    /\ page' = [page EXCEPT !.action = NULL,
                            !.refresh = IF @ = "none" THEN "asked" ELSE @,
                            !.again = page.refresh # "none"]
    /\ OnlyPage

\* The answer of a DELETE leads to the list, a 401 to the login page.
RemoveDone == Pressed("ok") /\ page.action.which = "delete"
SignInAgain == Pressed("unauth")

\* Mutant: busy is not reset by an error.
ActionRefusedBusy ==
    /\ Pressed("refused")
    /\ page' = [page EXCEPT !.doubt = TRUE]
    /\ OnlyPage

\* An error is shown and the buttons come back.
ActionRefused ==
    /\ Pressed("refused")
    /\ page' = [page EXCEPT !.action = NULL]
    /\ OnlyPage

\* No answer: an error is shown, nothing is rendered again.
LoseAction ==
    /\ OnPage /\ page.action # NULL
    /\ Fault
    /\ page' = [page EXCEPT !.action = NULL, !.doubt = TRUE]
    /\ UNCHANGED <<comments, typed, history>>

\* A read of the file fails when the server refuses it, or by a fault.
Reads(allowed, ok) ==
    LET served == allowed /\ Visited \in stored
    IN  /\ ok => served
        /\ IF served /\ ~ok THEN Fault ELSE UNCHANGED server

\* The server renders the page again: a row it could not read, for whatever
\* reason, is "not found".
ReadRefresh(allowed, ok) ==
    /\ OnPage /\ page.refresh = "asked"
    /\ Reads(allowed, ok)
    /\ page' = [page EXCEPT !.refresh = IF ok THEN status ELSE "gone"]
    /\ UNCHANGED <<comments, typed, history>>

\* The new render arrives; "not found" replaces the page.
ArriveRefresh ==
    /\ OnPage /\ page.refresh \in Status
    /\ page' = [page EXCEPT !.shown = page.refresh,
                            !.refresh = IF page.again THEN "asked" ELSE "none",
                            !.again = FALSE]
    /\ OnlyPage
ArriveNotFound == OnPage /\ page.refresh = "gone"

-----------------------------------------------------------------------------
(* The preview and the read-only blocks.  Nothing depends on the order of  *)
(* their answers: the blocks are answered first.                           *)

OfficePreview(ok) ==
    IF ~ok THEN "pdf"
    ELSE CASE setup.viewer = "collabora" -> "editor"
           [] setup.viewer = "disabled" -> "card"
           [] OTHER -> "pdf"

TextPreview(ok) == IF ok THEN "text" ELSE "error"

PreviewAnswer(ok) ==
    /\ OnPage /\ page.preview = "loading" /\ "asked" \notin Range(page.blocks)
    /\ page' = [page EXCEPT !.preview =
                    IF setup.type = "office" THEN OfficePreview(ok) ELSE TextPreview(ok)]
    /\ UNCHANGED <<comments, typed, history>>

\* onError of the image falls through to the card.
ImageFails ==
    /\ OnPage /\ page.preview = "image"
    /\ page' = [page EXCEPT !.preview = "card"]
    /\ UNCHANGED <<comments, typed, history>>

\* The editor reports that it is loading: it is acknowledged and restyled.
CollaboraFrame ==
    /\ OnPage /\ page.preview = "editor"
    /\ page' = [page EXCEPT !.preview = "branded"]
    /\ OnlyPage

\* A failed answer leaves "Loading..." in place.
VersionsBlock(ok) ==
    /\ OnPage /\ page.blocks.versions = "asked"
    /\ page' = [page EXCEPT !.blocks.versions = IF ok THEN "shown" ELSE "failed"]
    /\ UNCHANGED <<comments, typed, history>>
WorkflowBlock(ok) ==
    /\ OnPage /\ page.blocks.workflow = "asked" /\ page.blocks.versions # "asked"
    /\ page' = [page EXCEPT !.blocks.workflow = IF ok THEN "shown" ELSE "failed"]
    /\ UNCHANGED <<comments, typed, history>>

LoadPanes(allowed, ok) ==
    /\ PreviewAnswer(ok) \/ VersionsBlock(ok) \/ WorkflowBlock(ok) \/ (~ok /\ ImageFails)
    /\ Reads(allowed, ok)

-----------------------------------------------------------------------------
(* CommentsBlock.                                                          *)

Type ==
    /\ OnPage /\ typed < MaxTexts
    /\ typed' = typed + 1
    /\ page' = [page EXCEPT !.draft = typed + 1]
    /\ replaced' = IF page.draft = 0 THEN replaced ELSE replaced \cup {page.draft}
    /\ rushed' = IF page.post = NULL THEN rushed ELSE rushed \cup {typed + 1}
    /\ UNCHANGED <<server, comments, dropped, unsure>>

Submit ==
    /\ OnPage /\ page.draft # 0 /\ page.post = NULL
    /\ Act
    /\ page' = [page EXCEPT !.post = [text |-> page.draft, st |-> "sent"]]
    /\ UNCHANGED <<rows, comments, typed, history>>

Posting(st) == OnPage /\ page.post # NULL /\ page.post.st = st

ServePost(allowed) ==
    /\ Posting("sent")
    /\ LET ok == allowed /\ Visited \in stored
       IN  /\ page' = [page EXCEPT !.post.st = IF ok THEN "ok" ELSE "refused"]
           /\ comments' = IF ok THEN Append(comments, page.post.text) ELSE comments
    /\ UNCHANGED <<server, typed, history>>

\* Mutant: the field is cleared before the answer is looked at.
PostRefusedCleared ==
    /\ Posting("refused")
    /\ page' = [page EXCEPT !.post = NULL, !.draft = 0]
    /\ OnlyPage

\* The error is shown; the text stays in the field.
PostRefused ==
    /\ Posting("refused")
    /\ page' = [page EXCEPT !.post = NULL]
    /\ OnlyPage

ReloadComments == Append(page.loads, [for |-> "post", st |-> "sent", n |-> 0])

\* The field is cleared, whatever was typed meanwhile, and the list fetched.
Posted ==
    /\ Posting("ok")
    /\ page' = [page EXCEPT !.draft = 0, !.post.st = "reload", !.loads = ReloadComments]
    /\ OnlyPage

\* fetch throws: the text stays in the field, the POST may have arrived.
LosePost ==
    /\ OnPage /\ page.post # NULL /\ page.post.st \in {"sent", "ok"}
    /\ Fault
    /\ page' = [page EXCEPT !.post = NULL]
    /\ unsure' = unsure \cup {page.post.text}
    /\ UNCHANGED <<comments, typed, replaced, dropped, rushed>>

ReadComments(i, allowed) ==
    /\ page.loads[i].st = "sent"
    /\ page' = [page EXCEPT !.loads[i].st = IF allowed /\ Visited \in stored THEN "read" ELSE "bad",
                            !.loads[i].n = Len(comments)]
    /\ OnlyPage

\* After the reload of a POST its button is enabled again.
PostAfter(i) == IF page.loads[i].for = "post" THEN NULL ELSE page.post

\* The newest answer wins, not the newest request; a failed one keeps the list.
ArriveComments(i) ==
    /\ page.loads[i].st # "sent"
    /\ page' = [page EXCEPT !.items = IF page.loads[i].st = "bad" THEN @ ELSE page.loads[i].n,
                            !.loads = RemoveAt(@, i),
                            !.post = PostAfter(i)]
    /\ OnlyPage

LoseComments(i) ==
    /\ Fault
    /\ page' = [page EXCEPT !.loads = RemoveAt(@, i), !.post = PostAfter(i)]
    /\ UNCHANGED <<comments, typed, history>>

-----------------------------------------------------------------------------
(* Somebody else decides on the file, deletes it, or comments.             *)

Doubted == IF OnPage THEN [page EXCEPT !.doubt = TRUE] ELSE NULL

OthersDecide ==
    /\ Mishap
    /\ \E s \in Status : s # status /\ status' = s
    /\ page' = Doubted
    /\ UNCHANGED <<stored, session, setup, comments, typed, history>>
OthersDelete ==
    /\ Mishap
    /\ Visited \in stored
    /\ stored' = stored \ {Visited}
    /\ page' = Doubted
    /\ UNCHANGED <<status, session, setup, comments, typed, history>>
OthersComment ==
    /\ Mishap
    /\ comments' = Append(comments, 0)
    /\ UNCHANGED <<rows, page, typed, history>>

\* What the user does, with the context's word on whether he is signed in.
UsePage(signedIn) ==
    \/ \E b \in Buttons(page.shown) : Press(b)
    \/ signedIn /\ (Type \/ Submit)

\* What comes back to the page.
FilePageAnswers(allowed) ==
    \/ ServePatch(allowed) \/ \E purged \in BOOLEAN : ServeDelete(allowed, purged)
    \/ PatchDone \/ ActionRefused \/ LoseAction \/ ArriveRefresh
    \/ \E ok \in BOOLEAN : ReadRefresh(allowed, ok) \/ LoadPanes(allowed, ok)
    \/ ServePost(allowed) \/ Posted \/ PostRefused \/ LosePost
    \/ OnPage /\ \E i \in DOMAIN page.loads :
        ReadComments(i, allowed) \/ ArriveComments(i) \/ LoseComments(i)

-----------------------------------------------------------------------------
(* Properties.                                                             *)

\* A text typed into an idle comment field is stored, or still in the field, or
\* the user gave it up, or it went with the page: no refused or lost POST and no
\* reload of the list drops it.  It is stored once, unless the answer to its POST
\* was lost and the user was left to post it again (sidecar.tsx:200-221).  The
\* page takes a text with it, on a 401 to a decision or when a refresh ends in
\* "not found" (actions.tsx:22, page.tsx:24), only if the file was deleted, a
\* request failed, or somebody else stepped in.
TextsStoredOnce ==
    /\ \A t \in 1..typed :
        /\ t \notin rushed =>
            \/ t \in Range(comments) \cup replaced \cup dropped
            \/ OnPage /\ page.draft = t
        /\ t \notin unsure => Cardinality({i \in DOMAIN comments : comments[i] = t}) <= 1
    /\ dropped # {} => mishaps > 0 \/ Visited \notin stored

\* When nothing is under way the buttons stand for the status the file has,
\* after any number of decisions, however the renders overtake them: unless
\* somebody else changed it or an answer was lost (actions.tsx:14-32).
ScreenSettles ==
    OnPage /\ page.action = NULL /\ page.refresh = "none" /\ ~page.doubt
        => page.shown = status
=============================================================================
