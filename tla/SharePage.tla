------------------------------ MODULE SharePage ------------------------------
(***************************************************************************)
(* The share page (src/frontend/app/share): a field for a file id, the     *)
(* file and the permissions looked up for it, and the form that makes a    *)
(* link.  Every edit of the field asks again, and no answer is cancelled.  *)
(***************************************************************************)
EXTENDS PageServer

VARIABLES
    panel,      \* the page on screen, or NULL
    links       \* share_links: the files they open, in the order they were made

sharePage == <<panel, links>>

OnShare == panel # NULL

LookUp(id) ==
    IF id = NULL THEN <<>>
    ELSE <<[what |-> "file", id |-> id, at |-> "sent"],
           [what |-> "perms", id |-> id, at |-> "sent"]>>

\* The page reads the id from its link.
ShareFor(id) ==
    [field |-> id, found |-> NULL, perms |-> NULL, lookups |-> LookUp(id),
     post |-> NULL, share |-> NULL, error |-> FALSE,
     overtaken |-> FALSE, edited |-> FALSE]

\* A look-up under way, a POST under way, and the page on screen.
LookUpRecord == [what : {"file", "perms"}, id : Id, at : {"sent", "yes", "no"}]
ShareRecord == [id : Id, st : {"sent", "made", "refused", "unauth"}]
PanelRecord ==
    [field : Id \cup {NULL}, found : Id \cup {NULL}, perms : Id \cup {NULL},
     lookups : Seq(LookUpRecord), post : {NULL} \cup ShareRecord,
     share : Nat \cup {NULL}, error : BOOLEAN,
     overtaken : BOOLEAN, edited : BOOLEAN]

ASSUME PanelAssumption == NULL \notin PanelRecord \cup ShareRecord

ShareTypeOK ==
    /\ panel \in PanelRecord \cup {NULL}
    /\ OnShare => panel.share \in {NULL} \cup DOMAIN links
    /\ links \in Seq(Id)

Pending(what) == \E i \in DOMAIN panel.lookups : panel.lookups[i].what = what

-----------------------------------------------------------------------------
\* The id is edited: an empty field clears what is shown, any other asks.
Edit(id) ==
    /\ OnShare /\ id # panel.field
    /\ Act
    /\ panel' = [panel EXCEPT !.field = id, !.lookups = @ \o LookUp(id),
                              !.found = IF id = NULL THEN NULL ELSE @,
                              !.perms = IF id = NULL THEN NULL ELSE @,
                              !.overtaken = @ \/ (id = NULL /\ Pending("file")),
                              !.edited = TRUE]
    /\ UNCHANGED <<rows, links>>

ServeLookUp(i, allowed) ==
    /\ panel.lookups[i].at = "sent"
    /\ panel' = [panel EXCEPT !.lookups[i].at =
                    IF allowed /\ panel.lookups[i].id \in stored THEN "yes" ELSE "no"]
    /\ UNCHANGED <<server, links>>

\* The answer to the i-th look-up is taken, for whatever id it is; a refused one
\* of the file shows an error, a lost one clears it.
Answered(i, at) ==
    LET l == panel.lookups[i]
        result == IF at = "yes" THEN l.id ELSE NULL
    IN  [panel EXCEPT !.found = IF l.what = "file" THEN result ELSE @,
                      !.perms = IF l.what = "perms" THEN result ELSE @,
                      !.error = IF l.what = "file" /\ at # "yes" THEN at = "no" ELSE @,
                      !.overtaken = @ \/ (l.what = "file" /\
                            \E j \in 1..(i - 1) : panel.lookups[j].what = "file"),
                      !.lookups = RemoveAt(@, i)]

ArriveLookUp(i) ==
    /\ panel.lookups[i].at # "sent"
    /\ panel' = Answered(i, panel.lookups[i].at)
    /\ UNCHANGED <<server, links>>

LoseLookUp(i) ==
    /\ Fault
    /\ panel' = Answered(i, "lost")
    /\ UNCHANGED links

\* Mutant: the previous link stays on screen while a new one is made.
CreateShareOver ==
    /\ OnShare /\ CanMutate
    /\ panel.found # NULL /\ panel.post = NULL /\ panel.field # NULL
    /\ Act
    /\ panel' = [panel EXCEPT
            !.post = [id |-> panel.field, st |-> "sent"],
            !.error = FALSE,
            !.edited = FALSE]
    /\ UNCHANGED <<rows, links>>

\* Mutant: an empty field is not looked at.
CreateShareEmpty ==
    /\ OnShare /\ CanMutate
    /\ panel.found # NULL /\ panel.post = NULL
    /\ Act
    /\ panel' = [panel EXCEPT
            !.post = [id |-> panel.field, st |-> "sent"],
            !.error = FALSE, !.share = NULL,
            !.edited = FALSE]
    /\ UNCHANGED <<rows, links>>

\* Generate link: enabled by the file that is shown, for the id in the field.
CreateShare ==
    /\ OnShare /\ CanMutate
    /\ panel.found # NULL /\ panel.post = NULL /\ panel.field # NULL
    /\ Act
    /\ panel' = [panel EXCEPT
            !.post = [id |-> panel.field, st |-> "sent"],
            !.error = FALSE, !.share = NULL,
            !.edited = FALSE]
    /\ UNCHANGED <<rows, links>>

ClearShare ==
    /\ OnShare /\ panel.share # NULL /\ CanMutate
    /\ panel' = [panel EXCEPT !.share = NULL]
    /\ UNCHANGED <<server, links>>

ServeShare(allowed) ==
    /\ OnShare /\ panel.post # NULL /\ panel.post.st = "sent"
    /\ LET ok == allowed /\ panel.post.id \in stored
       IN  /\ links' = IF ok THEN Append(links, panel.post.id) ELSE links
           /\ panel' = [panel EXCEPT !.post.st = IF ok THEN "made"
                                                 ELSE IF allowed THEN "refused" ELSE "unauth"]
    /\ UNCHANGED server

ShareDone ==
    /\ OnShare /\ panel.post # NULL /\ panel.post.st \in {"made", "refused"}
    /\ panel' = [panel EXCEPT !.post = NULL,
                              !.share = IF panel.post.st = "made" THEN Len(links) ELSE @,
                              !.error = (panel.post.st = "refused")]
    /\ UNCHANGED <<server, links>>

ShareUnauthorized == OnShare /\ panel.post # NULL /\ panel.post.st = "unauth"

LoseShare ==
    /\ OnShare /\ panel.post # NULL
    /\ Fault
    /\ panel' = [panel EXCEPT !.post = NULL, !.error = TRUE]
    /\ UNCHANGED links

\* The options are there once the context knows the user and his role.
UseShare(user) ==
    \/ \E id \in Id \cup {NULL} : Edit(id)
    \/ user /\ (CreateShare \/ ClearShare)

SharePageAnswers(allowed) ==
    \/ OnShare /\ \E i \in DOMAIN panel.lookups :
            ServeLookUp(i, allowed) \/ ArriveLookUp(i) \/ LoseLookUp(i)
    \/ ServeShare(allowed) \/ ShareDone \/ LoseShare

-----------------------------------------------------------------------------
(* Properties.                                                             *)

\* What the share page shows goes together.  When every look-up is answered the
\* file on screen is the one of the id in the field, unless an answer overtook an
\* earlier one, which nothing cancels (share/page.tsx:47-57).  A link on screen
\* opens the file of the id in the field, and no other is on its way, unless the
\* id was edited since the button was pressed, whichever file is shown and however
\* the look-ups and failed, lost or repeated attempts went (share/page.tsx:69-94,
\* :199-208).
ShareGoesTogether ==
    OnShare =>
        /\ ~Pending("file") /\ ~panel.overtaken => panel.found \in {NULL, panel.field}
        /\ panel.share # NULL /\ ~panel.edited =>
            links[panel.share] = panel.field /\ panel.post = NULL
=============================================================================
