# File Hub in TLA+

Specifications, model-checking configurations and machine-checked proofs for
File Hub, a document store with a Rust/axum backend (`src/backend`), a Next.js
frontend (`src/frontend`), Postgres for rows and a file system or S3 bucket for
bytes. Paths below are relative to `src/backend/src/` unless they begin with
`frontend/`, which stands for `src/frontend/`; `PROJECT.json` maps every
definition to the lines it stands for.

The backend has one shape throughout: an HTTP handler reads a row, awaits,
writes an object, awaits, writes a row. Few handlers hold a transaction, none
holds a lock across an await, several requests and one rotation worker run at a
time, and a dropped connection or a crash stops a handler at whichever await it
has reached. What is hard about the backend follows from that, so its modules
model handlers as sequences of steps with a `Fail(p)` that may replace any of
them.

The console has another shape: a page is a server render of a URL plus React
state. A click changes that state or starts a request, and everything else is a
callback that arrives whenever it likes: after another click, after a later
request, after the page has moved on. Nothing on screen is locked or versioned,
and `router.refresh()` is only a wish. The modules of the console therefore keep
requests in flight as data, serve and answer them in steps of their own, and keep
what is on screen apart from what is stored.

## 1. Inventory

| Component | State | Operations | Meets others through |
|---|---|---|---|
| Files, versions, objects (`handlers.rs`, `wopi.rs`, `rotation.rs`, `storage.rs`) | `files`, `file_versions`, the object store, the process's encryption key | upload, new version, WOPI save, PATCH, trash, restore, hard delete, archive, prune, purge | object keys; the rotation worker |
| Resumable uploads (`tus.rs`) | `tus_uploads`, temp files | create, PATCH, HEAD, terminate, finalise, reap | finalise inserts a file; the reaper |
| Review workflow (`p1.rs`) | `file_workflows`, `workflow_steps`, `files.status` | start, decide | the status column, also written by PATCH |
| Quotas (`handlers.rs:567-638`) | caps of workspace, system, org, user; sums over `files` | enforce_quota, cap settings | every write of `files` |
| Derived data (`p1.rs:28-240`) | `file_previews`, `file_content`, `thumbnails` | index at upload, fill on a miss, invalidate | saves, purges |
| Rotation policies (`rotation.rs`, `handlers.rs:1941-2050`) | `rotation_policies`, `rotation_runs` | upsert, delete, run | files, versions, TUS sessions |
| Storage backends (`storage.rs`, `store/`) | objects | put, get, delete, encryption | keys |
| Accounts (`auth.rs`, `handlers.rs:1719-1855`) | `users`, `sessions`, `api_keys` | login, logout, key issue and revocation, member administration, edge provisioning and role sync | role and access checks everywhere |
| Throttles (`auth.rs:782-895`) | two in-memory maps | check, record | login, uploads |
| Systems, folders, orgs, personal drives | their tables | create, patch, soft delete, lazy creation | buckets in keys, quotas |
| Share links, comments, notifications, activity, views | their tables | insert, list | files |
| Legacy API and import (`legacy.rs`, `legacy_import.rs`) | the same tables; ids of the old hub | upload, rename, trash, proxy; import | files, folders, tags |
| Upload page (`frontend/app/upload`) | queue, walks of dropped folders, destination, running uploads | add, drop, upload, retry, clear, remove, choose system or org; callbacks | multipart and TUS uploads |
| File browser (`frontend/app/files`, `trash`, `archive`, `views`, the sidebar) | the URL, the rendered rows, selection, busy flags, operations under way | 12 kinds of navigation, bulk and row operations, folders, saved views | renders by the server; PATCH, DELETE, restore |
| File page (`frontend/app/files/[id]`) | the rendered row, buttons, preview, version, workflow and comment blocks | decide, delete, comment, leave | PATCH, DELETE, comments; `router.refresh()` |
| Share page (`frontend/app/share`) | id field, what was looked up, the link made | edit, create link, dismiss | look-ups, POST share |
| Browser session (`frontend/middleware.ts`, `lib/auth-context.tsx`, `app/login`) | cookie, provider, login form, `?next=` | open, sign in, sign out | every page |
| Settings, dashboard, orgs, activity, bell | forms and lists | one request and a refresh each | HTTP |
| Start-up, shutdown, scripts | – | migrate, spawn worker, abort; backup, restore | everything |

What makes each of them correct, and what makes that hard:

- **Files.** A row names bytes that exist, are the ones its ETag names and are
  stored the way its `encrypted` flag says; the archive has no gap; a purged
  file stays purged. Hard: bytes and rows are written in different stores with
  awaits in between; two savers race for one version; the worker prunes and
  purges under running requests; a PATCH copies and deletes objects.
- **Resumable uploads.** The offset never runs ahead of the bytes; what is
  published is what the client sent. Hard: overlapping PATCHes, a stop between
  append and UPDATE, finalise racing terminate and the reaper.
- **Review.** The workflow says what its steps add up to and the file says what
  the workflow says. Hard: concurrent roll-ups from separate queries.
- **Quotas.** A cap is passed by no more than the requests under way carry.
  Hard: check and write are separate, at four nested scopes, and other
  operations move files between scopes.
- **Previews.** A reader does not see less than a save that returned. Hard: a
  fill takes seconds and its upsert is unconditional.
- **Rotation.** What the policy keeps is kept, what has expired goes in the end.
- **Accounts.** An active admin remains; a revoked key or session is refused.
  Hard: count-then-update, first requests racing to provision one user.
- **Throttles.** The stated budget per stated window. Hard: window boundaries,
  check and count apart.
- **Upload page.** A row tells the truth about its file, one click stores one
  copy, a dropped folder is whole, files go where the form says. Hard: callbacks
  know their row by its index; rows stay "queued" until a first progress event;
  org lists arrive late.
- **File browser.** Every file of the list is reachable and shown once, a cut
  list says so, operations act on what the user sees, what was done shows, the
  controls come back. Hard: four caps, five layouts, client and server paging;
  renders replace rows under a selection; parts of a bulk operation fail.
- **File page.** Buttons stand for the status the file has; comments are neither
  lost nor doubled by an answer; every pane ends in something. Hard: refreshes
  overtake decisions, reloads overtake each other, answers get lost, and the page
  may go by itself: on a 401, or on a refresh whose read fails.
- **Share page.** The link is for the file whose id is in the field. Hard: look-ups
  are never cancelled, and the field stays editable.
- **Browser session.** A sign-in leads back to where it was asked for, and the
  pages know who is signed in. Hard: four parties (middleware, provider, login
  page, router) pass the target on; the cookie outlives the session.

`PROJECT.json` lists each hazard at its line, with the properties that cover it.

## 2. Modules

| Module | Models | Status |
|---|---|---|
| `FileLifecycle` | the promise of one file with atomic operations | done |
| `FileStore` | files, versions, objects, encryption, rotation of one file | done, proofs in `FileStoreProofs` |
| `AtomicUpload` | the promise of resumable uploads, each published in one step | done |
| `TusUpload` | resumable uploads and the reaper | done, proofs in `TusProofs` |
| `AtomicReview` | the promise of a review whose roll-ups are atomic | done |
| `Review` | workflows, roll-up, status mirror | done, proofs in `ReviewProofs` |
| `Quota` | nested quotas | done, proofs in `QuotaProofs` |
| `Preview` | the preview cache | done, proofs in `PreviewProofs` |
| `UploadPage` | the upload page | done, proofs in `UploadPageProofs` |
| `Layouts` | what board, gallery, timeline and calendar make of a list | done, proofs in `FilesPageProofs` |
| `FilesPage` (extends `Layouts`) | the file browser | done, proofs in `FilesPageProofs` |
| `PageServer` | what the next two need of the backend | done |
| `FilePage`, `SharePage` (extend `PageServer`) | the page of a file, the share page | done |
| `Visit` (composes `FilePage` and `SharePage`) | a browser moving between login, file and share page | done, proofs in `VisitProofs` |
| `Accounts` | members and the last admin, API keys, edge identity, systems | planned |
| `Rotation` | policy merge, the run over all files, upsert | planned |
| `Throttle` | login and upload windows against the stated rolling minute | planned |
| `Legacy`, `LegacyImport` | the old API's own writes; imports that reuse ids | planned |

Order of the rest: `Accounts` (its guards decide who may do anything), with the
members and systems panels of the settings that call it; `Rotation` (it composes
with `FileStore`'s worker), with its panel; `Legacy*`; `Throttle`.

`FileLifecycle`, `AtomicUpload` and `AtomicReview` say what a component promises
and stand for no code of their own; `FileStore`, `TusUpload` and `Review` are shown to
implement them, by runs and by proof.

`MC*` modules hold the model values, small definitions and symmetry sets of the
runs. Operators commented "Mutant:" are plausible bugs; each shows that the
property it is paired with in `PROJECT.json` can fail.

### Conventions

- `req[p]` is the handler process `p` is executing: `pc` is the await it has
  reached, the other fields are the locals it still needs. `Fail(p)` is an early
  error return, a failing database or store, a dropped connection (axum drops
  the future) or a crash: whatever was written stays, the rest never happens.
- One step is one write seen by others. Reads are merged with the write before
  or after them unless something can change in between that matters.
- A statement such as `UPDATE … WHERE id = $1` that finds no row is a step that
  changes nothing, not a disabled one; a `fetch_one` or a foreign key that would
  fail disables the step and leaves `Fail`.
- History variables (`rekeyed`, `disturbed`, `patched`, `loosened`,
  `overlapped`, `watch`, `saved`, and in the console `mispicked`, `shifted`,
  `again`, `unanswered`, `unfinalised`, `replaced`, `dropped`, `rushed`, `unsure`,
  `doubt`, `overtaken`, `edited`, `slipped`, `wanted`) are read by no guard, but
  that of `Resend`, for a bound. Most of them leave executions out of a property:
  those in which the code does not keep what the property says. In some of these it makes no
  promise, in others it breaks one: the preview that a fill under way at a save,
  or a lost invalidation, leaves behind is what wopi.rs:289 says is rebuilt.
  Section 6 says what happens in each.

## 3. How the modules correspond to the code

### FileStore

`life`, `row`, `versions`, `store`, `cipher`, `req`: the `files` and
`file_versions` tables, the object store and whether the process encrypts. A
key is `[bucket, file, version, safe name]`, which is what
`{bucket}/{id}-{safe}` and `{bucket}/{id}-v{n}-{safe}` distinguish (a name is
assumed not to start with `vN-`); the bucket is named by its system. A body
doubles as its ETag, since the ETag is the MD5 of the plaintext. Upload,
upload_version, put_file and patch_file are split at every put, unlink and row
write, in the code's order, which differs: upload_version claims the version,
puts, promotes; put_file puts, claims, promotes. Soft delete, restore and
archiving are single UPDATEs and single steps. The rotation worker visits one
file at a time and rechecks before each write, so the list it read first is not
state. `KeepLastN`, `Handlers` (which handlers are enabled) and `MaxVersion`
(bound on `files.version`) are constants. Encryption is only ever switched on
(`.env.example:44-52`); ids of version rows are not modelled.

### TusUpload

`sess` is the row, `temp` the temp file as a sequence of pieces, so that
duplicated, missing or reordered bytes show. Piece `k` is the client's k-th
chunk; a PATCH at offset `o` carries the pieces after `o`. `append_chunk` is
`AppendBegin` (all its checks), `AppendWrite` or `AppendTorn`, `AppendRecord`,
and, when the new offset is the length, `finalise`: read, metadata, put, insert,
complete, unlink. Expiry is `ExpiresAt`; the reaper is a process of its own.
`disturbed` holds the sessions with an interrupted or overlapping PATCH.
On `AtomicUpload` the sessions are the rows' declared lengths, also of rows since
deleted (`Declared`), and the files are the `files` rows with the object each names
(`Published`); temp files, offsets and objects without a row do not show.

### Review

A step is named by its place in `reviewer_ids`. The two roll-up queries and the
two UPDATEs of decide_step are four steps. `disturbed` holds workflows whose
start was cut short, that were decided while being started, or re-decided;
`patched` the files whose status a PATCH changed. `Decide` ends for the client
in an error once a roll-up has happened, because p1.rs:425 decodes a TEXT column
as a UUID; every write of the handler has been committed by then, so the model
is not affected by it. `AtomicReview` sees the workflows' states, the decisions and
`disturbed`; requests and the files' status do not show.

### Quota

`Above[u]` is the chain workspace, system, org of a unit `u`; the user comes
last, as in the code. One `Check` step is one level: the cap and the sum it is
compared with. `UploadBegin` stands for every uploader (multipart, batch, TUS,
legacy), `SaveBegin` for versions and WOPI saves. That a save first claims a
version, and that only one saver of a version wins, is `FileStore`'s and left
out: more writes happen here than in the code, never fewer. Empty bodies are
left out. `watch` picks one arbitrary scope: `loosened` says its sum or its cap
was changed without enforce_quota being asked about it (restore, move, lower
cap, a version charged to another user), `overlapped` that two admissions were
under way in it together.

### Preview

A save is its `UPDATE files` (`Promote`) and, for WOPI, the invalidation that
follows; both savers advance the version by exactly one because the unique
archive row lets one of them win (`HistoryContiguous` of `FileStore`). A fill
holds the version its SELECT returned until its upsert. `disturbed` holds files
with a fill under way at a promotion, a lost invalidation, or a version
uploaded while a preview was cached.

### UploadPage

`items` is the queue. An upload is the closure `uploadOne` makes: it keeps the
row's index, the system and the org of that moment. `OnProgress`, `OnSuccess` and
`OnError` write the row at that index, whatever row it is by then; `KeepRows` is
what both "clear completed" and "remove" do to the queue under them. `Publish` is
the server's insert, so an answer can be lost before or after it. A dropped folder
is walked by `WalkEntry`, a recursive function over `readEntries` batches, and its
files are added when the walk ends. `Select` is the effect on `systemId`: it
forgets the org and asks for the list of the new system; `OrgsLoaded` applies a
list for whatever system it is. A row's progress in percent and the other fields
of the form are data.

Files in `Large` (50 MB and more) go by TUS, and that differs in what an answer
means. `append_chunk` records the last byte before it calls `finalise`
(tus.rs:235-240), so a last PATCH that fails or stops in between
(`FinaliseFails`) leaves an upload whose bytes are all there and whose file is
not. The client then asks with a HEAD how far it got: either it hears that all is
there and reports success (`OnSuccess` of an `unfinalised` upload), or it sends
the last chunk, or everything to a new session, once more (`Resend`), also when
the file was published and only the answer was lost.

### FilesPage and Layouts

`scr` is the last render: a URL and the rows fetched for it. `Fetch` picks what
the page asks the backend for and its limit: 1000 for the table, 200 for the other
layouts, the 50 of a search and the 500 of the trash are the backend's own
(`ListLimit`, `BoardLimit`, `SearchLimit`, `TrashLimit`). The backend lists by
`modified_at`, which is a constant order here (`Modified`) although operations
touch it; the trash it lists by `deleted_at`, and `binned` keeps that order. `Rows`
filters and sorts, `PageRows` and `Groups` cut. Every control is an action that builds the
next URL out of the one on screen (`ViewParams` is `readViewParams`, `Push` is
`router.push`), and `Render` lets it arrive, or arrive empty when the backend could
not be reached, because the `safe*` functions answer a failure with an empty list.
`jobs` are operations: the requests still waiting, and what follows them (clear the
selection, refresh) if none fails in the network. `mutate` does not look at the
status of an answer, so a refusal counts as done: a move to a folder of another
system is refused (`Moved`) and looks like one that worked. The user is an administrator and
so is offered every control. "board" stands for gallery, calendar and timeline as
well, which fetch and navigate alike; `Layouts` holds what each of the four makes of
its rows, as functions from a list to lanes that show some files and count the rest.
Grouping is by status or by nothing, the other fields being of the same form.

### PageServer, FilePage, SharePage, Visit

`FilePage` and `SharePage` are pages without navigation: a record of what is on
screen (`page`, `panel`), with every request in flight as a field (`action`,
`post`, `loads`, `lookups`) that is sent, served and answered in three steps, or
lost. `PageServer` holds what they read and write: which files are stored, the
status of the visited one, whether the session is live. Serving steps take
`allowed`, which `Visit` gives as "there is a cookie and its session is live".
A PATCH needs a row outside the trash (`ServePatch`); a DELETE answers 204 for a
file in the trash too, and only a purged one is not found (`ServeDelete`).

`safeFile` turns every failed read into null and the page turns null into "not
found", so a render and a refresh may end there although the file and the session
are as they were (`Rendered` and `MayFail`, `ReadRefresh`): that costs a mishap.
What is in the comment field when a page goes is the user's choice when he left
(`GivenUp`), and not when the page left by itself, on a 401 to a decision or a
refresh that ends in "not found" (`Dropped`).

`Visit` adds the middleware (`Middleware`, `Show`: where a request for a page ends,
and with which `?next=`), the `AuthProvider` (`ReadMe`, `ArriveMe`, `LoseMe`), the
login form, signing out (also with the answer lost, when the session may have
ended and the cookie stays), and a session that ends on the server, or whose
account an administrator disables, while the cookie stays. A full page load starts the provider anew, the router keeps it.
`wanted` remembers which page a user was sent to the login page from.
`Answers` is everything that is not the user's or somebody else's doing.

What is assumed: requests of a page that is left do not arrive (their callbacks
would write into an unmounted component; what they do on the server is covered by
somebody else's change); the cookie does not expire on its own; no edge identity
(then there is no cookie and no login page); the panes of the file page are
answered one after the other, versions, workflow, preview, as nothing depends on
their order; a role is known whenever the user is.

## 4. Runs

| Run | Bounds | What it shows |
|---|---|---|
| `FileStoreSaves` | 1 file, 2 requests, 1 worker, 3 versions, all handlers, no pruning | `RowHasBytes`, `HistoryContiguous`, and that `FileStore` implements `FileLifecycle` |
| `FileStoreBytes` | 1 file, 2 requests, 2 bodies, 2 names, 2 versions, encryption switched on at any time; no WOPI | `BytesMatchRow` |
| `FileStoreRotation` | 1 file, 2 savers, 1 worker, `KeepLastN = 2`, 4 versions | `KeptHistoryHasBytes`, `PruneKeepsNewest`, `ExpiredIsPurged` |
| `TusUpload` | 1 session of ≤ 2 pieces, 2 requests, 1 reaper, 2 file ids, temp ≤ 2 pieces at the start of a PATCH | `OffsetIsBacked`, `UndisturbedIsExact`, that `TusUpload` implements `AtomicUpload` (`ImplementsUpload`), `ExpiredIsReaped` |
| `Review` | 1 workflow of ≤ 3 steps, 1 file, 3 requests | `RollUpConverges`, `StatusMirrors`, that `Review` implements `AtomicReview` (`ImplementsReview`) |
| `Quota` | 2 files, 2 users, 2 requests, one org and a unit without one, sizes 1–2, caps 0–1 | `SoloFits`, `OvershootIsInFlight` |
| `Preview` | 2 files, 3 versions, 3 requests | `CacheIsRecent`, `NoneAfterPurge` |
| `UploadPage` | 3 files, one in a folder of its own inside a dropped folder, one unreadable, one of 50 MB and more; 3 uploads started, 2 systems with an org each, batches of 1 | `DoneIsPublishedOnce`, `DropIsWhole`, `OrgOfSystem`, `RowsSettle` |
| `FilesPage` | 3 files, 2 systems, 2 folders, pages of 1, lists cut at 1 (search, board) or 2 (table, trash), lanes of 1; 1 navigation beyond the link, 2 operations or outside changes, 1 failed request | `SelectionIsOnScreen`, `EveryRowOnce`, `CapIsFlagged`, `OperationsSettle` |
| `Visit` | the visited file and another id, 8 setups of file type, viewer and role; 2 things the user starts in the first setup, 1 or none in the others; 1 mishap (a lost answer, a failed render or read, an ended session, somebody else's step), 2 texts | `TextsStoredOnce`, `ScreenSettles`, `ShareGoesTogether`, `LandsBack`, `KnowsTheUser`, `PageSettles` |
| `BrokenRowAfterMove` | violation of `NoBrokenRow` | a refused PATCH leaves a row without bytes |
| `RestoreRace` | violation of `RestoreWins` | a restore loses against a purge it should win against |

Why these bounds are enough: rows of different files never meet (keys contain
the id, every statement names one id), so one file suffices where nothing sums
over files; `Quota` and `Preview` have two. Races in this code are between one
request and one other writer of the same row, so two requests and a worker meet
in every order; `Review` and `Preview` have three because a third actor can use
what two left behind (a decision between two roll-ups, a reader after a fill
that overtook an invalidation). Three versions cover current, archived and
racing next; with `KeepLastN = 2` a fourth makes the worker evict while a save
claims. TUS needs two pieces for a resume in the middle. `Review` was also run by
hand with two workflows on one file (7.2 million states, no error). `Quota` uses a
constraint: once the watched scope has no cap, or has been loosened, both of its
properties hold for ever, so nothing beyond such a state is explored; the
workspace and system levels have the same shape as the org's and are left
uncapped.

`UploadPage`: two rows with callbacks by index are enough for one to leave under the
other; the third upload is a retry or a second click. Its constraint stops at
states in which rows have shifted or an org was mispicked, where the properties
that exclude those hold for ever; the others do not depend on them. Its bounds
let a file be added once, and a system that was left not be chosen again.
`FilesPage`: two rows on pages of one is the least with a page beyond the first,
three files meet every cap; a visit starts at any link (files, trash, a folder), so
one navigation and its render meet a running operation in every order, and a second
operation meets the first. `EveryRowOnce` looks at every ordered list of the
three files in addition to the rows on screen, with a month that needs six weeks and
one that needs four. `Visit`: two decisions overlap a refresh, a comment and its
reload, or a look-up and a link; the one mishap meets each of them at every
point. The setups with less to start cover the ways a preview may go, which
do not depend on what the user starts. With three acts in the first setup the run
takes longer than is practical to keep.

Deadlock is not looked for in any run: the system may always stop, with
every file purged or every version used up.

### Fairness

Nothing is assumed of HTTP clients, anywhere. `FileStoreRotation` and
`TusUpload` assume of the worker what `spawn_worker` (rotation.rs:297-317) does:
it loops for ever, visits every file and every expired session, and goes on to
the next tick after a failure. A tick can fail at any statement, so progress
needs that a statement attempted again and again succeeds in the end: strong
fairness of the step that begins a purge or a reap and of its writes, weak
fairness where a step stays possible. `ExpiredIsPurged` and `ExpiredIsReaped`
would not hold of a database that refuses one DELETE for ever, nor does the
code claim so.

Of the browser it is assumed that every request it has sent ends, in an answer or
an error (XMLHttpRequest and fetch both report one), and that React and the router
get to run: weak fairness of the end of each upload (`UploadPage`), of the
render and of each operation's answers (`FilesPage`), and one weak fairness of
`Answers` as a whole (`Visit`), which suffices because only finitely many requests
are ever under way. Nothing is assumed of the user. In particular the server need
not say yes: `RowsSettle`, `OperationsSettle` and `PageSettles` hold
however requests fail.

## 5. Proofs

Checked by TLAPS, for every set of files, names, users, scopes, sessions,
workflows, requests and workers, and every bound. `PROJECT.json` lists the
theorems. Each states a property some run of section 4 checks, but for
`PublishedFilesAreWhole` and `RejectionsStand`: their properties, `PublishedIsWhole` and
`RejectionStands`, hold of every behaviour of `AtomicUpload` and `AtomicReview`, which
the runs check instead.

| Module | Theorems (property) | Hypothesis |
|---|---|---|
| `FileStoreProofs` | `TypeCorrect` (`TypeOK`), `RowsHaveBytes` (`RowHasBytes`) | the second: `KeepLastN = 0` |
| | `HistoryHasNoGap` (`HistoryContiguous`), `SavesLookAtomic` (`ImplementsLifecycle`) | `KeepLastN = 0` |
| | `ServesWhatWasSaved` (`BytesMatchRow`) | `KeepLastN = 0`, WOPI off |
| | `KeptVersionsHaveBytes` (`KeptHistoryHasBytes`), `PruningKeepsNewest` (`PruneKeepsNewest`) | none |
| `TusProofs` | `TypeCorrect` (`TypeOK`), `OffsetsAreBacked` (`OffsetIsBacked`), `PublishedFilesAreWhole` (`PublishedIsWhole`), `UndisturbedFilesAreExact` (`UndisturbedIsExact`), `UploadsLookAtomic` (`ImplementsUpload`) | none |
| `ReviewProofs` | `TypeCorrect` (`TypeOK`), `RollUpsConverge` (`RollUpConverges`), `RejectionsStand` (`RejectionStands`), `StatusesMirror` (`StatusMirrors`), `ReviewsLookAtomic` (`ImplementsReview`) | none |
| `QuotaProofs` | `TypeCorrect`, `SoloAdmissionsFit`, `OvershootIsBounded` | none |
| `PreviewProofs` | `TypeCorrect`, `NoPreviewAfterPurge`, `CachedPreviewIsRecent` | none |
| `VisitProofs` | `TypeCorrect` (`VisitTypeOK`), `CommentsArriveOnce` (`TextsStoredOnce`), `ButtonsFollowStatus` (`ScreenSettles`), `SharePageIsConsistent` (`ShareGoesTogether`), `ProviderKnowsTheUser` (`KnowsTheUser`), `ComesBack` (`LandsBack`) | none |
| `UploadPageProofs` | `TypeCorrect` (`TypeOK`), `DropsAreWhole` (`DropIsWhole`), `SentOrgsFit` (`OrgOfSystem`), `DoneFilesArePublished` (`DoneIsPublishedOnce`) | none |
| `FilesPageProofs` | `TypeCorrect` (`TypeOK`), `SelectionStaysOnScreen` (`SelectionIsOnScreen`), `RowsAreShownOnce` (`EveryRowOnce`), `CapsAreFlagged` (`CapIsFlagged`) | none |

"None" means: none but what the module's named `ASSUME` says of its constants,
which TLC evaluates in the runs. `KeepLastN = 0` (no policy prunes) is needed,
TLC refutes the properties without it: with `KeepLastN = 1` a save archives the
row's own key and the worker unlinks it (`RowHasBytes`, `BytesMatchRow`); with
2 a save that read the row long ago claims a version number again that has been
pruned meanwhile and takes the row back to it (`HistoryContiguous`,
`ImplementsLifecycle`), and the next run prunes the row's key (`RowHasBytes`).
What remains true with pruning is said by the two theorems without hypothesis. WOPI is excluded for
`ServesWhatWasSaved` because PutFile writes before it claims (section 6), and files in
`rekeyed` everywhere because patch_file really breaks them
(`BrokenRowAfterMove`).

None of the properties is inductive; what has to be added is where the design
of the code shows:

- **Type correctness.** `TypeInv` of each module adds what the locals of a
  request are at each `pc`: a promoting save holds a version key of its own
  file, an append stays within the declared length, a workflow that is being
  built has exactly one builder.
- **`RowsHaveBytes`** (`BytesInv`): for every request, by its `pc`, the object it
  has put exists, and every key a purge still has to unlink belongs to a file
  without a row. Keys carry the file's id and ids are never minted again, so an
  unlink for a gone file cannot hit another. A frame lemma (`HoldsFrame`), one
  lemma for puts, one for unlinks, then one per handler.
- **`HistoryHasNoGap`** (`HistInv`): a save that has archived its version, and
  not yet promoted the row, has read the version the row still has, and is the
  only one (`OneClaim`). The unique index on `(file_id, version)` does all of
  it: others that read the same version fail to archive it, and none that read
  an older one finds its number free, because the archive has no gap.
- **`SavesLookAtomic`**: the refinement mapping of `ImplementsLifecycle`, on
  which each step of `FileStore` is one of `FileLifecycle` or a stutter. Only
  the promoting UPDATE is visible, and `OneClaim` makes it an increment.
- **`ServesWhatWasSaved`** (`MatchInv`): a key carries its version's number, and
  the keys of rows, archive and other saves carry numbers up to the row's
  (`KeysBehind`), so the put of a save overwrites nothing anybody reads.
- **`KeptVersionsHaveBytes`**, **`PruningKeepsNewest`** (`KeptInv`): whoever names a key, be it a row, a version row
  or a request, knows that its object is there or that `KeepLastN - 1` newer
  rows are in the archive (`Kept`). Once enough, always enough
  (`MoreIsEnough`, `DropIsEnough`): what a worker removes had as many newer rows
  itself. So a prune that works from a stale list, beside other workers and
  saves that claim old numbers again, still takes nothing it should keep.
- **`TusProofs`**: `WholeInv` relates offset, temp file and the requests between
  append and UPDATE; `ExactInv` adds that the temp file is the client's prefix
  for a session in which no two PATCHes overlapped. Both rest on lemmas about
  pieces of a sequence (`SourceContinues`, `SourceInjective`).
- **`UploadsLookAtomic`**: of all the steps of PATCH, finalise, terminate and the
  reaper three kinds are visible: the POST that mints a session, whatever breaks one, and
  the INSERT of finalise, which finds an object that is whole (`WholeInv`) and, for an
  unbroken session, exact (`ExactInv`; `InsertPublishes`). A put never replaces
  the object of a row, so nothing published changes.
- **`ReviewProofs`** (`RollInv`): when the decisions of a workflow add up to an
  outcome that its row does not show yet, some request is on its way that will
  write it (`NewsTravels`), and no request carries an outcome the decisions
  contradict (`RollsTellTrue`). `MirrorInv` is the same one level up, from the
  workflow to the file's status.
- **`ReviewsLookAtomic`**: the queries of a roll-up are invisible and its UPDATE is
  `Settle`: with `RollsTellTrue`, what was read two awaits ago still is what the decisions
  add up to (`RollSettles`). `Ask` comes before any outcome because nobody decides
  while an undisturbed workflow is being started (`StartsBeforeRolls`). Of a workflow
  that is spoiled `AtomicReview` says nothing (`SpoilStep`).
- **`QuotaProofs`**: the bytes of the requests that have passed the check of a
  scope (`InFlight`) are added to those the scope holds. A write moves bytes
  from one term to the other, so the sum grows only when a check passes, and
  then it is at most the cap plus what the others carry (`SumStep`); with one
  request in the scope the others carry nothing (`AloneCarriesAll`).
- **`PreviewProofs`** (`CacheInv`): what a fill of an undisturbed file renders is
  the version the row still has, and nothing is reported saved that has not been
  promoted.

- **`VisitProofs`** (`VisitInv`): a text that is stored stays in the field only
  until the answer to its POST comes (`FieldIsFresh`), and the field holds that
  text, nothing, or one typed since (`PostIsKnown`); the list that is fetched
  after a POST is the only one of its kind and its POST waits for it
  (`LoadsFit`). For the buttons: a render to come shows the stored status unless
  one more was asked for (`ScreenInv`). For the share page: unless an answer
  overtook another, the look-up asked last is for the id in the field
  (`LookUpsInOrder`), and from the press of the button to the link on screen
  nothing moves (`LinkIsForField`). For the browser: an answer about the user
  that is still to arrive is right (`UserInv`), and the login page keeps the way
  back (`WantedKept`). Each block is proved by itself (`PageStep`, `PanelStep`)
  and going to another page once for all the ways there (`GoingKeeps`).
- **`UploadPageProofs`**: `DestInv` says that the selected org is one of the
  selected system and that nothing is selected before a system is. `QueueInv` is
  in two parts. `SteadyInv` holds whatever rows are cleared: no two rows have the
  same file, nor has a folder still being walked a file of a row. `UnshiftedInv`
  holds as long as no row was cleared under a running upload: a running upload
  still finds its row at the index it was started with (`IndexFinds`), and a file
  that was sent once is being sent or finalised, or is stored and its upload about to say so,
  or its row says so (`SentOnce`). Starting uploads and keeping rows are described
  once, as what they do to the queue (`RowsAreUploaded`, `RowsAreKept`), over the
  numbering of a set of indices (`NthProperties`).
- **`DropsAreWhole`** is about the walk itself, for every finite forest and every
  size of batch: the recursion over directories defines a function (`WalkExists`,
  by the depth that `TreeAssumption` names), the batches of a directory are
  all of it (`ReadsAll`), two walks share no file (`WalksAreApart`), one walk has
  none twice (`WalkAddsOnce`), and it has all the readable ones (`WalkTakesAll`).

- **`FilesPageProofs`** (`PageInv`): the rows on screen hold no file twice, and a
  row is checked only if the page shows it. Every render preserves the first,
  because every list is a choice of positions of an order without repetition
  (`AtProperties`, `OnlyProperties`, from `NthProperties`), cut (`TakeProperties`)
  and sorted (`SortedProperties`). From it follows what is shown: a position lies
  on exactly one of ⌈n / PageSize⌉ pages (`PagesCover`, `OnePage`: the only place
  where the provers need division), the groups of a page are told apart by
  the values in it (`GroupsProperties`), and their concatenation holds each row
  once (`FlattenProperties`). `SelectionIsOnScreen` then is about sizes of
  finite sets: a part of the rows that is as large as the rows is all of them.
- **Layouts** (`EveryList`, used for the lists on screen and for any other): lanes
  given by the values of a field, or by a partition of the files, share out the
  rows (`ClassesPartition`), and what they show and count adds up to their number
  (`SumOfParts`, a sum over lanes that may hide some of their files). The columns
  of a board are a fixed list or the values that occur (`DistinctProperties`,
  `ColumnOfRow`); the cells of the calendar are apart because the days of a month
  fill distinct ones of its 42 (`CalendarPartitions`).
- **`CapsAreFlagged`** (`TableIsComplete`): the filter of the page repeats what the
  server was asked for, so it drops nothing and a list cut at the limit still
  has that length when the footer looks at it. For a search, whose limit the footer
  does not know, it only says that as many files as the limit were found, and more.

`QuotaProofs` needs facts about sums, and a sum over a set is a fold: the
recursion is proved to define a function (`FoldExists`), the order of summation
not to matter (`FoldTakes`), and a bound on every term to bound the sum
(`SumAtMost`). The induction theorems of the library are stated for an operator
parameter, which the provers here cannot instantiate; the lemmas use that a
nonempty collection of subsets of a finite set has a minimal member
(`LeastSubset`) and derive a contradiction from a smallest counterexample.

`UploadPageProofs` has two more recursions of this kind, over a sequence
(`FlatExists`) and over the levels of a forest (`WalkExists`), and
`FilesPageProofs` two, a concatenation and a sum over the lanes of a layout.

Only model-checked: liveness (`ExpiredIsPurged`, `ExpiredIsReaped`, `RowsSettle`,
`OperationsSettle`, `PageSettles`), which with ENABLED is beyond the prover. Of
`TrailFrom`, the folder trail, nothing is stated but the types of the URLs it
leads to.

## 6. Where the code differs from what the repository says

Shown by runs: a refused PATCH leaves a row without bytes
(`BrokenRowAfterMove`), and a restore loses against a purge that promises to look
again (`RestoreRace`); the lines they contradict are quoted in `PROJECT.json`.

Seen in counterexamples of the same modules, or while reading, without a run of
their own. In the backend:

- A PATCH of metadata writes name, key and status back as it read them: it
  reverts the key of a version saved meanwhile (handlers.rs:1365), and a
  status a roll-up has set.
- A resumed upload keeps the bytes of an append whose offset was not recorded
  and publishes a file longer than declared (tus.rs:231).
- A workflow whose start was overtaken by a decision, or failed half way, is
  approved with a reviewer missing (p1.rs:318).
- Two overlapping WOPI saves write one key before either claims the version
  (wopi.rs:266): the row can carry one ETag and the other's bytes.
- A version row has no `encrypted` flag: history saved before encryption was
  enabled, or a move or WOPI save across the switch, is read the wrong way.
- A version refused by the quota (handlers.rs:1234, after the archive row) makes
  every later save of that file collide until the row is pruned.
- Renaming there and back while a version is archived can leave the archive
  naming the live key.
- With `keep_last_n_versions = 1`, which nothing refuses (handlers.rs:1955-1985), a
  run between a save's archive row and its UPDATE unlinks the key the row still
  names. With 2 or more, a save based on a pruned version can claim its number
  again, take the row back to it, and lose its key to the next run.
- A WOPI save archives the old version with the new version's size and ETag
  (wopi.rs:269-277).
- A zero-length PATCH at the end publishes a TUS upload again; a finalise
  refused by the quota can only be retried that way; a session of length 0 is
  never finalised by its creation.
- wopi.rs:289 says the next preview hit rebuilds from the new bytes; a fill that
  began before the save puts the old rendering back, and an invalidation that fails
  is swallowed (wopi.rs:291) and leaves it there. A version that comes in through
  `POST /versions` does not invalidate at all. `CacheIsRecent` leaves all three out.
- Restoring, moving, saving a file charged to somebody else, importing legacy files
  (legacy_import.rs:210-229) and lowering a cap ask no quota: the scope may be over
  its cap from then on, and refuses uploads until it is not. `SoloFits` and
  `OvershootIsInFlight` leave such scopes out.
- The workspace policy cannot be updated: its ON CONFLICT target is the other
  partial index (handlers.rs:1965-1976).
- main.rs aborts the rotation worker where its comment lets it finish its tick.
- Two administrators can demote each other (handlers.rs:1821), and one request
  with role admin and status disabled is not counted at all.

In the console:

- Removing a row, or clearing the finished ones, under a running upload makes
  its callbacks mark the rows behind it: a file can say Done that was never sent
  (frontend/app/upload/page.tsx:223).
- A file of 50 MB and more can say Done without being stored: `finalise` fails, or
  its handler stops, after the last byte was recorded, and the client's HEAD finds
  all of it (tus.rs:235-240, upload/page.tsx:253-268). Or it is stored twice: it was
  published, the answer was lost, and the client sends the last chunk, or the file,
  again.
- A row stays queued until its first progress event, so a second click on Upload
  sends it again; so does a retry after an answer that was lost
  (upload/page.tsx:292-303). Each copy is a file of its own.
- An org list that arrives after the system was changed is shown, and can be
  chosen from, for the wrong system (upload/page.tsx:161-174); what is then sent
  names an org of another system.
- A new folder made while a folder of another system is open gets the active
  system and that parent, which the backend accepts as long as the parent exists
  (handlers.rs:1455-1461): it is listed nowhere
  (frontend/app/files/page.tsx:52, new-folder-button.tsx:10-13).
- A share link whose expiry is left blank, where the form says "leave blank
  for no expiry", gets seven days (frontend/app/share/page.tsx:181, handlers.rs:1528-1534).
- The 401 of the share page sends `/filehub/share` as `?next=`, to which the
  router adds `/filehub` again (share/page.tsx:85).
- The version and workflow blocks catch a failed fetch with the comment "show
  empty state" and show "Loading…" for good (frontend/app/files/[id]/sidecar.tsx:88).
- `safeFile` answers any failed read with null (frontend/lib/api.ts:380-392), and the
  page of a file shows "not found" for it (page.tsx:24): after a sign-in, a link or
  a refresh, of a file that exists. A refresh that ends there, and a 401 to a
  decision (actions.tsx:22, :39), take the text in the comment field along, unsaid.
- After a session ended on the server, or the answer of /api/auth/me was lost, the
  provider believes what it last heard until the next full load or sign-in
  (auth-context.tsx:40-60).
- No look-up of the share page is cancelled: when the answer for an earlier id comes
  last, its file is shown beside the id now in the field, or beside an empty field
  (share/page.tsx:47-57). The button goes by the file that is shown and the link is
  made for the id in the field (share/page.tsx:69-84, :200): pressed before the
  look-up of a new id is answered it makes a link to a file not yet seen, or is
  refused. A link made for one id stays on screen when the id is edited afterwards.
- Only the table of files says that its list is cut, at 1000 (files/page.tsx:328).
  The backend cuts a search at 50 (handlers.rs:1108), before the page filters it, the
  lists of board, gallery, calendar and timeline at 200 (handlers.rs:348), and the
  trash at 500 (handlers.rs:1001): what is left out is not mentioned, and a table or
  trash counts its pages without it. A fetch that fails shows an empty list.
- The comment field can be typed into during a POST and is cleared when it
  succeeds (sidecar.tsx:218); a first list that arrives after the reload hides the
  new comment (sidecar.tsx:198).
- During a refresh the buttons stand for the old status: a second decision can
  approve a file that is no longer under review (actions.tsx:24-28).
- The table does not look at the status of an answer: a refused bulk delete clears
  the selection as if it had worked (files-table.tsx:66-69); one lost request of
  several leaves the screen as it was although the others were applied.
- The timeline groups by the UTC day and labels the groups by the local day.

## 7. Not modelled

Member administration, API keys and edge identity, throttles, systems and
folders, rotation policy merging, and the legacy API and import are planned
(section 2), the settings panels with them. Left out for good: listings, search,
reports and statistics of the backend (reads), notifications and activity (rows
nothing else decides by), token signing, routing and configuration, storage
protocols below put/get/delete, demo data, and deployment files. Of the console:
the dashboard, the activity, organisation and audit lists and the bell (one
fetch or one request and a refresh each, the shape of the pages modelled),
themes, icons and formatting, the tags and text fields of the upload form, the
column picker, downloads (links), and the copy button and the note of a share
link. `PROJECT.json` gives the reason for each component.
