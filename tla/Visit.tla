------------------------------- MODULE Visit -------------------------------
(***************************************************************************)
(* A browser visiting the console: the login page, the page of a file and  *)
(* the share page, behind the middleware that lets a request with a        *)
(* session cookie through, inside the AuthProvider that knows the user.    *)
(*                                                                         *)
(* A full page load starts the provider anew; the router keeps it.  The    *)
(* session may end on the server at any time: the cookie stays, requests   *)
(* are refused.  Requests of a page that is left are taken not to arrive.  *)
(***************************************************************************)
EXTENDS FilePage, SharePage

CONSTANTS
    Known,          \* the ids that are files, before anybody deletes one
    Setups          \* the files, viewers and roles of the instance

ASSUME VisitAssumption == Known \subseteq Id /\ Setups \subseteq SetupRecord

VARIABLES
    where,      \* the page on screen
    auth,       \* AuthProvider and the login form
    cookie,     \* the browser has a filehub_session cookie
    wanted,     \* history: the page the user was sent to the login page from
    slipped     \* history: a request about the session failed, or the session
                \* ended on the server

browser == <<where, auth, cookie, wanted, slipped>>
vars == <<server, filePage, sharePage, browser>>

\* "list" stands for the pages that are not modelled here, "missing" for the
\* "not found" page.
Pages == {"login", "file", "share", "list", "missing"}

\* Where ?next= leads: nowhere, to a page, or to "/filehub/share", which the
\* router puts below /filehub once more.
Target == Pages \cup {NULL, "filehub/share"}

AuthRecord ==
    [user : BOOLEAN, loading : BOOLEAN, me : {"none", "sent", "yes", "no"},
     form : {"idle", "sent", "yes", "no"}, next : Target, out : BOOLEAN]

VisitTypeOK ==
    /\ ServerTypeOK /\ FileTypeOK /\ ShareTypeOK
    /\ where \in Pages /\ cookie \in BOOLEAN /\ slipped \in BOOLEAN
    /\ auth \in AuthRecord
    /\ wanted \in Pages \cup {NULL}
    /\ (where = "file") = OnPage /\ (where = "share") = OnShare

\* The extractor of the backend: the cookie has to name a live session.
AuthUser == cookie /\ session

\* AuthProvider as it is mounted: nobody is known yet.
AuthProvider ==
    [user |-> FALSE, loading |-> TRUE, me |-> "sent", form |-> "idle", next |-> NULL, out |-> FALSE]

-----------------------------------------------------------------------------
(* Navigation.                                                             *)

\* Mutant: the deep link is not kept.
MiddlewareBare(p) ==
    IF p = "login" \/ cookie' THEN [to |-> p, next |-> NULL] ELSE [to |-> "login", next |-> NULL]

\* The middleware asks only whether there is a cookie.
Middleware(p) ==
    IF p = "login" \/ cookie' THEN [to |-> p, next |-> NULL] ELSE [to |-> "login", next |-> p]

\* The file page is "not found" when its row was not read, be it for want of a
\* session or because the read failed.
Rendered(p, failed) ==
    IF p = "file" /\ (failed \/ ~(session' /\ Visited \in stored')) THEN "missing" ELSE p

MayFail(failed) ==
    IF failed THEN mishaps < MaxMishaps /\ mishaps' = mishaps + 1 ELSE UNCHANGED mishaps

\* The browser is sent to p, with provider a, from a page that asks to come back
\* to it, or NULL; the read of the file may fail.
Show(p, next, from, a, failed) ==
    LET m == Middleware(p)
        w == Rendered(m.to, failed)
    IN  /\ failed => m.to = "file"
        /\ where' = w
        /\ LeaveFor(IF w = "file" THEN FileDetailPage ELSE NULL)
        /\ panel' = (IF w = "share" THEN ShareFor(Visited) ELSE NULL)
        /\ auth' = [a EXCEPT !.form = "idle", !.next = IF p = "login" THEN next ELSE m.next]
        /\ wanted' = IF w # "login" THEN NULL ELSE IF p = "login" THEN from ELSE p
        /\ UNCHANGED links

\* A link, a bookmark, or the address bar: a full page load.
Open(p, failed) ==
    /\ acts < setup.budget /\ acts' = acts + 1
    /\ MayFail(failed) /\ UNCHANGED <<rows, cookie>>
    /\ Show(p, NULL, NULL, AuthProvider, failed)
    /\ GivenUp
    /\ slipped' = FALSE

\* The ways to another page that a page takes by itself.
FileDeleted ==
    /\ RemoveDone
    /\ UNCHANGED <<server, cookie, slipped>>
    /\ Show("list", NULL, NULL, auth, FALSE)
    /\ GivenUp
FileNotFound ==
    /\ ArriveNotFound
    /\ UNCHANGED <<server, cookie, slipped>>
    /\ Show("missing", NULL, NULL, auth, FALSE)
    /\ Dropped
FileUnauthorized ==
    /\ SignInAgain
    /\ UNCHANGED <<server, cookie>>
    /\ Show("login", "file", "file", AuthProvider, FALSE)
    /\ Dropped
    /\ slipped' = FALSE
SharingUnauthorized ==
    /\ ShareUnauthorized
    /\ UNCHANGED <<server, cookie>>
    /\ Show("login", "filehub/share", "share", AuthProvider, FALSE)
    /\ GivenUp
    /\ slipped' = FALSE

-----------------------------------------------------------------------------
(* The session.                                                            *)

OnlyAuth == UNCHANGED <<filePage, sharePage, where, wanted>>

ReadMe ==
    /\ auth.me = "sent"
    /\ auth' = [auth EXCEPT !.me = IF AuthUser THEN "yes" ELSE "no"]
    /\ OnlyAuth /\ UNCHANGED <<server, cookie, slipped>>
ArriveMe ==
    /\ auth.me \in {"yes", "no"}
    /\ auth' = [auth EXCEPT !.user = (auth.me = "yes"), !.loading = FALSE, !.me = "none"]
    /\ OnlyAuth /\ UNCHANGED <<server, cookie, slipped>>
LoseMe ==
    /\ auth.me # "none"
    /\ Fault
    /\ auth' = [auth EXCEPT !.user = FALSE, !.loading = FALSE, !.me = "none"]
    /\ slipped' = TRUE
    /\ OnlyAuth /\ UNCHANGED cookie

NextPage ==
    CASE auth.next = NULL -> "list" [] auth.next = "filehub/share" -> "missing" [] OTHER -> auth.next

\* The effect of the login page: who is signed in is sent on.
Bounce(failed) ==
    /\ where = "login" /\ ~auth.loading /\ auth.user
    /\ MayFail(failed) /\ UNCHANGED <<rows, acts, cookie, slipped>>
    /\ Show(NextPage, NULL, NULL, auth, failed)
    /\ GivenUp

SubmitLogin ==
    /\ where = "login" /\ auth.form = "idle"
    /\ Act /\ UNCHANGED rows
    /\ auth' = [auth EXCEPT !.form = "sent"]
    /\ UNCHANGED <<filePage, sharePage, where, cookie, wanted, slipped>>
ServeLogin(good) ==
    /\ auth.form = "sent"
    /\ auth' = [auth EXCEPT !.form = IF good THEN "yes" ELSE "no"]
    /\ OnlyAuth /\ UNCHANGED <<server, cookie, slipped>>
LoginRefused ==
    /\ auth.form = "no"
    /\ auth' = [auth EXCEPT !.form = "idle"]
    /\ OnlyAuth /\ UNCHANGED <<server, cookie, slipped>>
LoseLogin ==
    /\ auth.form # "idle"
    /\ Fault
    /\ auth' = [auth EXCEPT !.form = "idle"]
    /\ OnlyAuth /\ UNCHANGED <<cookie, slipped>>

\* Mutant: the provider is not told.
LoginDoneUntold(failed) ==
    /\ auth.form = "yes"
    /\ cookie' = TRUE /\ session' = TRUE
    /\ MayFail(failed) /\ UNCHANGED <<stored, status, setup, acts>>
    /\ Show(NextPage, NULL, NULL, auth, failed)
    /\ GivenUp
    /\ slipped' = FALSE

\* The cookie comes with the answer; reload() drops a question that is still
\* open and asks who the user is.
LoginDone(failed) ==
    /\ auth.form = "yes"
    /\ cookie' = TRUE /\ session' = TRUE
    /\ MayFail(failed) /\ UNCHANGED <<stored, status, setup, acts>>
    /\ Show(NextPage, NULL, NULL, [auth EXCEPT !.me = "sent"], failed)
    /\ GivenUp
    /\ slipped' = FALSE

\* Sign out, in the menu of a known user.
Logout ==
    /\ auth.user /\ ~auth.out /\ where # "login"
    /\ Act /\ UNCHANGED rows
    /\ auth' = [auth EXCEPT !.out = TRUE]
    /\ UNCHANGED <<filePage, sharePage, where, cookie, wanted, slipped>>
LogoutDone ==
    /\ auth.out
    /\ cookie' = FALSE /\ session' = FALSE
    /\ UNCHANGED <<stored, status, setup, acts, mishaps>>
    /\ Show("login", NULL, NULL, AuthProvider, FALSE)
    /\ GivenUp
    /\ slipped' = FALSE

\* A logout that got no answer is taken for one that worked: it may have ended
\* the session, but the cookie stays.
LoseLogout ==
    /\ auth.out
    /\ Mishap /\ session' \in {session, FALSE}
    /\ UNCHANGED <<stored, status, setup, cookie>>
    /\ Show("login", NULL, NULL, AuthProvider, FALSE)
    /\ GivenUp
    /\ slipped' = FALSE

\* An administrator ends the session or disables the account.
SessionEnds ==
    /\ Mishap
    /\ session /\ session' = FALSE
    /\ slipped' = TRUE
    /\ UNCHANGED <<stored, status, setup, filePage, sharePage,
                   where, auth, cookie, wanted>>

-----------------------------------------------------------------------------
\* The visit begins at the login page, or on a page reached by a signed-in user.
SignedIn == [AuthProvider EXCEPT !.user = TRUE, !.loading = FALSE, !.me = "none"]

Init ==
    /\ stored = Known /\ status \in {"Draft", "Review"}
    /\ acts = 0 /\ mishaps = 0
    /\ setup \in Setups
    /\ comments = <<>> /\ typed = 0
    /\ replaced = {} /\ dropped = {} /\ rushed = {} /\ unsure = {}
    /\ links = <<>>
    /\ slipped = FALSE /\ wanted = NULL
    /\ cookie \in BOOLEAN /\ session = cookie
    /\ where \in IF cookie THEN {"file", "share", "list"} ELSE {"login"}
    /\ page = IF where = "file" THEN FileDetailPage ELSE NULL
    /\ panel = IF where = "share" THEN ShareFor(Visited) ELSE NULL
    /\ auth = IF cookie THEN SignedIn ELSE AuthProvider

InSession ==
    \/ ReadMe \/ ArriveMe \/ LoseMe
    \/ \E failed \in BOOLEAN : Bounce(failed) \/ LoginDone(failed)
    \/ \E good \in BOOLEAN : ServeLogin(good)
    \/ LoginRefused \/ LoseLogin
    \/ LogoutDone \/ LoseLogout

Answers ==
    \/ FilePageAnswers(AuthUser) /\ UNCHANGED <<sharePage, browser>>
    \/ SharePageAnswers(AuthUser) /\ UNCHANGED <<filePage, browser>>
    \/ FileDeleted \/ FileNotFound \/ FileUnauthorized \/ SharingUnauthorized
    \/ InSession

Uses ==
    \/ OnPage /\ UsePage(auth.user) /\ UNCHANGED <<sharePage, browser>>
    \/ UseShare(~auth.loading /\ auth.user) /\ UNCHANGED <<filePage, browser>>
    \/ \E p \in {"login", "file", "share", "list"}, failed \in BOOLEAN : Open(p, failed)
    \/ SubmitLogin \/ Logout

Others ==
    \/ (OthersDecide \/ OthersDelete \/ OthersComment) /\ UNCHANGED <<sharePage, browser>>
    \/ SessionEnds

Next == Answers \/ Uses \/ Others \/ (CollaboraFrame /\ UNCHANGED <<sharePage, browser>>)

Spec == Init /\ [][Next]_vars

\* Every request is answered or fails, and the page does what is to follow.
FairSpec == Spec /\ WF_vars(Answers)

-----------------------------------------------------------------------------
(* Properties.                                                             *)

\* Who signs in, after being sent to the login page, or is found to be signed in,
\* is back on the page he was sent from (middleware.ts:63-73,
\* login/page.tsx:37-42, :60-61, actions.tsx:22).  Instead of a file he gets "not
\* found" only if it is gone, his session has ended again, or the read of its row
\* failed at that moment (api.ts:380-393, page.tsx:24).  The 401 of the share
\* page, which asks for a path that does not exist, is left out.
LandsBack ==
    [][where = "login" /\ where' # "login" /\ wanted # NULL /\ acts' = acts
            /\ auth.next # "filehub/share"
        => where' = wanted \/ (wanted = "file" /\ where' = "missing"
                                /\ (Visited \notin stored \/ ~session' \/ mishaps' # mishaps))]_vars

\* Once /api/auth/me has answered the pages know whether somebody is signed in:
\* through sign-ins, failed sign-outs and reloads that overtake the first answer
\* (auth-context.tsx:40-60, login/page.tsx:60).  Nothing asks again, until the next
\* full load or sign-in, after a session ended on the server or the answer was
\* lost: then it need not hold.
KnowsTheUser == auth.me = "none" /\ ~slipped => auth.user = AuthUser

\* No button, field or form stays disabled, no question about the user stays open,
\* and the preview does not stay a skeleton, for good; every block is told its
\* answer, whatever the viewer is and whichever request fails (sidecar.tsx:80-91,
\* :220, actions.tsx:27-28, share/page.tsx:91, preview.tsx:16-33, :221-243).
PageSettles ==
    []<>(/\ OnPage => /\ page.action = NULL /\ page.post = NULL
                      /\ page.preview # "loading"
                      /\ \A b \in {"versions", "workflow"} : page.blocks[b] # "asked"
         /\ OnShare => panel.post = NULL
         /\ auth.me = "none" /\ auth.form = "idle" /\ ~auth.out)
=============================================================================
