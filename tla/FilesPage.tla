----------------------------- MODULE FilesPage -----------------------------
(***************************************************************************)
(* The file browser (src/frontend/app/files, trash, archive, views): a URL *)
(* that holds the whole view, a server render of it, and the client-side   *)
(* controls: the table with its selection, bulk operations and row menu,   *)
(* the trash rows, the new-folder form and the view builder.               *)
(*                                                                         *)
(* The server fetches a capped list, then filters, sorts, groups and       *)
(* slices it; the screen keeps that snapshot until the next render.  A     *)
(* navigation or a refresh is only asked for: the old screen stays usable  *)
(* until the new one arrives.  Files change under the page meanwhile.  The *)
(* user is an administrator, who is offered every control.                 *)
(***************************************************************************)
EXTENDS Layouts

CONSTANTS
    Named,          \* the files by name
    SystemOf,       \* [File -> System]
    Hits,           \* the files the search term matches
    Systems,        \* Seq(System): GET /api/systems
    Folder,
    PageSize,       \* PAGE_SIZE, 50
    ListLimit,      \* LIST_LIMIT, 1000
    SearchLimit,    \* what /api/search returns by default, 50
    BoardLimit,     \* what /api/files returns by default, 200
    TrashLimit,     \* what /api/trash returns, 500
    InitFolders,    \* the folders there are, [system, parent] or NULL each
    InitFiles,      \* [File -> [state, folder]]
    MaxNavs,        \* bound: navigations
    MaxOps,         \* bound: operations started and changes made elsewhere
    MaxFaults,      \* bound: requests that fail
    NULL

System == Range(Systems)
FolderRows == [system : System, parent : Folder \cup {NULL}]
FileRows == [state : {"live", "trashed", "purged"}, folder : Folder \cup {NULL}]

ASSUME FilesAssumption ==
    /\ Named \in Seq(File) /\ IsInjective(Named) /\ Range(Named) = File
    /\ Hits \subseteq File
    /\ SystemOf \in [File -> System] /\ Systems \in Seq(System) /\ Systems # <<>>
    /\ InitFolders \in [Folder -> FolderRows \cup {NULL}]
    /\ InitFiles \in [File -> FileRows]
    /\ PageSize \in Nat \ {0}
    /\ {ListLimit, SearchLimit, BoardLimit, TrashLimit} \subseteq Nat \ {0}
    /\ {MaxNavs, MaxOps, MaxFaults} \subseteq Nat
    /\ NULL \notin File \cup Status \cup Folder \cup System \cup FolderRows

VARIABLES
    db,         \* [File -> [state, folder]]
    binned,     \* the files in the trash, the last deleted first: deleted_at
    folders,    \* [Folder -> [system, parent] or NULL]
    scr,        \* what is on screen: the URL, rows and folders of the last render
    nav,        \* the URL a navigation or refresh is fetching, or NULL
    selected,   \* the checked rows
    busy,       \* the table's busy flag
    jobs,       \* operations started from the page
    views,      \* saved views
    navs, ops, faults, \* counters for the bounds
    disturbed   \* history: files changed by somebody else or in a job that failed

vars == <<db, binned, folders, scr, nav, selected, busy, jobs, views, navs, ops, faults, disturbed>>

\* "board" stands for the gallery, the calendar and the timeline too, which fetch
\* and navigate alike; what each shows of its rows is in Layouts.
Layout == {"table", "board", "trash", "archive"}
Url == [layout : Layout, q : BOOLEAN, system : System \cup {NULL},
        status : Status \cup {"Archived", NULL}, folder : Folder \cup {NULL},
        sort : {"modified", "name"}, dir : {"desc", "asc"},
        group : {"none", "status"}, page : 0..Cardinality(File)]

-----------------------------------------------------------------------------
(* Rendering.                                                              *)

\* GET /api/files and GET /api/search, both newest first, and GET /api/trash, the
\* last deleted first.
ListFiles(u, limit) ==
    Take(Only(Modified, {f \in File : /\ db[f].state = "live"
                                     /\ u.system \in {NULL, SystemOf[f]}
                                     /\ u.status \in {NULL, StatusOf[f]}
                                     /\ u.folder \in {NULL, db[f].folder}}), limit)
Found == Only(Modified, {f \in Hits : db[f].state = "live"})
SearchFiles == Take(Found, SearchLimit)
TrashList == Take(binned, TrashLimit)

BoardFetch(u) == IF u.q THEN SearchFiles ELSE ListFiles(u, BoardLimit)
TableFetch(u) == IF u.q THEN SearchFiles ELSE ListFiles(u, ListLimit)

\* Mutant: the table leaves the limit to the server.
FetchShort(u) ==
    CASE u.layout = "trash" -> TrashList
      [] OTHER -> BoardFetch(u)

Fetch(u) ==
    CASE u.layout = "trash" -> TrashList
      [] u.layout = "table" -> TableFetch(u)
      [] OTHER -> BoardFetch(u)

\* fileMatchesFilters: a folder is no part of it.
MatchesFilters(f, u) ==
    u.system \in {NULL, SystemOf[f]} /\ u.status \in {NULL, StatusOf[f]}

\* The table's order; a search keeps its own unless a sort is asked for.
Sorted(rows, u) ==
    IF u.layout # "table" \/ (u.q /\ u.sort = "modified") THEN rows
    ELSE LET falling == IF u.sort = "name" THEN Reverse(Named) ELSE Modified
         IN  Only(IF u.dir = "desc" THEN falling ELSE Reverse(falling), Range(rows))

Rows(fetched, u) == Sorted(Only(fetched, {f \in File : MatchesFilters(f, u)}), u)

Paginates(u) == u.layout \in {"trash", "archive"} \/ (u.layout = "table" /\ u.group = "none")
PageCount(u, rows) ==
    IF Paginates(u) /\ rows # <<>> THEN (Len(rows) + PageSize - 1) \div PageSize ELSE 1
Page(u, rows) ==
    IF ~Paginates(u) THEN 0
    ELSE IF u.page < PageCount(u, rows) THEN u.page ELSE PageCount(u, rows) - 1

\* Mutant: pages counted from one.
PageRowsFromOne(u, rows) ==
    IF Paginates(u)
    THEN LET from == Page(u, rows) * PageSize
         IN  SubSeq(rows, from + 1, IF from + PageSize < Len(rows)
                                    THEN from + PageSize - 1 ELSE Len(rows))
    ELSE rows

PageRows(u, rows) ==
    IF Paginates(u)
    THEN LET from == Page(u, rows) * PageSize
         IN  SubSeq(rows, from + 1, IF from + PageSize < Len(rows)
                                    THEN from + PageSize ELSE Len(rows))
    ELSE rows

\* One group per value, in the order of first appearance.
Groups(u, rows) ==
    LET shown == PageRows(u, rows)
        values == Distinct([i \in DOMAIN shown |-> StatusOf[shown[i]]])
    IN  IF Paginates(u) THEN <<shown>>
        ELSE [k \in DOMAIN values |-> Only(shown, {f \in File : StatusOf[f] = values[k]})]

Shown(s) == FlattenSeq(Groups(s.url, s.rows))
AllIds == Range(Shown(scr))

\* The footer of the table tells that the list is capped.
Capped(s) == Len(s.rows) >= ListLimit

Mounted(s) == s.url.layout = "table" /\ s.rows # <<>>

-----------------------------------------------------------------------------
(* The folder trail: from the current folder up, among the listed folders  *)
(* of the active system.                                                   *)

ActiveSystem(u) == IF u.system = NULL THEN Systems[1] ELSE u.system
ListFolders(u) == {g \in Folder : folders[g] # NULL /\ folders[g].system = ActiveSystem(u)}

TrailFrom[g \in Folder \cup {NULL}, listed \in SUBSET Folder] ==
    IF g \notin listed THEN <<>>
    ELSE Append(TrailFrom[folders[g].parent, listed \ {g}], g)

FolderTrail(s) == TrailFrom[s.url.folder, s.folders]

ChildFolders(s) ==
    IF s.url.q THEN {} ELSE {g \in s.folders : folders[g].parent = s.url.folder}

-----------------------------------------------------------------------------
TypeOK ==
    /\ db \in [File -> FileRows]
    /\ binned \in Seq(File)
    /\ folders \in [Folder -> FolderRows \cup {NULL}]
    /\ scr \in [url : Url, rows : Seq(File), folders : SUBSET Folder, degraded : BOOLEAN]
    /\ nav \in Url \cup {NULL}
    /\ selected \subseteq File
    /\ busy \in BOOLEAN
    /\ jobs \in Seq([op : {"delete", "move", "rename", "restore", "purge", "folder"},
                     ids : SUBSET (File \cup Folder), waiting : SUBSET (File \cup Folder),
                     to : Folder \cup {NULL}, system : System,
                     state : {"running", "done", "failed"}, orphan : BOOLEAN])
    /\ views \subseteq [system : System \cup {NULL}, status : Status \cup {"Archived", NULL}]
    /\ navs \in 0..MaxNavs /\ ops \in 0..MaxOps /\ faults \in 0..MaxFaults
    /\ disturbed \subseteq File

Screen(u, fetched, degraded) ==
    [url |-> u, rows |-> Rows(fetched, u), folders |-> IF degraded THEN {} ELSE ListFolders(u),
     degraded |-> degraded]

PlainUrl == [layout |-> "table", q |-> FALSE, system |-> NULL, status |-> NULL, folder |-> NULL,
             sort |-> "modified", dir |-> "desc", group |-> "none", page |-> 0]

PageUrl(l) == [PlainUrl EXCEPT !.layout = l, !.status = IF l = "archive" THEN "Archived" ELSE NULL]

\* A visit starts at a link: the files, the trash, or a folder of a system.
Links ==
    {PageUrl(l) : l \in {"table", "trash"}}
        \cup {[PlainUrl EXCEPT !.system = InitFolders[g].system, !.folder = g] :
                g \in {h \in Folder : InitFolders[h] # NULL}}

Init ==
    /\ db = InitFiles
    /\ binned = Only(Modified, {f \in File : InitFiles[f].state = "trashed"})
    /\ folders = InitFolders
    /\ \E u \in Links : scr = Screen(u, Fetch(u), FALSE)
    /\ nav = NULL
    /\ selected = {}
    /\ busy = FALSE
    /\ jobs = <<>>
    /\ views = {}
    /\ navs = 0 /\ ops = 0 /\ faults = 0
    /\ disturbed = {}

Op == ops < MaxOps /\ ops' = ops + 1 /\ UNCHANGED <<navs, faults>>
Fault == faults < MaxFaults /\ faults' = faults + 1

-----------------------------------------------------------------------------
(* Navigation: every control builds a URL from the current one and drops   *)
(* the page; only the pager sets it.                                       *)

Push(u) ==
    /\ navs < MaxNavs
    /\ navs' = navs + 1
    /\ nav' = u
    /\ UNCHANGED <<ops, faults, db, binned, folders, scr, selected, busy, jobs, views, disturbed>>

Browsing == scr.url.layout \in {"table", "board"}
ViewParams == [scr.url EXCEPT !.page = 0]

ViewTabs(l) == Browsing /\ l # scr.url.layout /\ Push([ViewParams EXCEPT !.layout = l])
FilterMenu(s) == Browsing /\ s # scr.url.status /\ Push([ViewParams EXCEPT !.status = s])
RemoveSystem == Browsing /\ scr.url.system # NULL /\ Push([ViewParams EXCEPT !.system = NULL])
ViewSearch(q) == Browsing /\ q # scr.url.q /\ Push([ViewParams EXCEPT !.q = q])
SortMenu(key) ==
    /\ scr.url.layout = "table"
    /\ Push([ViewParams EXCEPT !.sort = key,
                !.dir = IF scr.url.sort = key /\ scr.url.dir = "desc" THEN "asc" ELSE "desc"])
GroupMenu(g) ==
    /\ Browsing /\ g # scr.url.group
    /\ g = "none" => scr.url.layout = "table"
    /\ Push([ViewParams EXCEPT !.group = g])

\* Mutant: Prev and Next are never disabled.
PagerUnbounded(p) ==
    /\ Paginates(scr.url)
    /\ Push([scr.url EXCEPT !.page = Page(scr.url, scr.rows) - 1])

Pager(p) ==
    /\ Paginates(scr.url)
    /\ p \in {Page(scr.url, scr.rows) - 1, Page(scr.url, scr.rows) + 1}
    /\ p \in 0..(PageCount(scr.url, scr.rows) - 1)
    /\ Push([scr.url EXCEPT !.page = p])

OpenFolder(g) ==
    /\ scr.url.layout = "table" /\ ~scr.url.q
    /\ g \in ChildFolders(scr) \cup Range(FolderTrail(scr)) \cup {NULL}
    /\ g # scr.url.folder
    /\ Push([ViewParams EXCEPT !.folder = g])

\* Save as new view: of what is on screen the filters on columns are kept.
SaveView ==
    /\ scr.url.layout = "table"
    /\ Op
    /\ views' = views \cup {[system |-> scr.url.system, status |-> scr.url.status]}
    /\ UNCHANGED <<db, binned, folders, scr, nav, selected, busy, jobs, disturbed>>

\* What the toolbars of the layouts share, and the menu of occasional controls.
FilterBar ==
    \/ \E s \in Status \cup {NULL} : FilterMenu(s)
    \/ \E q \in BOOLEAN : ViewSearch(q)
    \/ RemoveSystem
ViewOptionsMenu == SaveView \/ \E g \in {"none", "status"} : GroupMenu(g)

HrefForView(v) == [PlainUrl EXCEPT !.system = v.system, !.status = v.status]
OpenView(v) == Push(HrefForView(v))

\* The sidebar: a search, a system, the trash, the archive.
GlobalSearch == Push([PlainUrl EXCEPT !.q = TRUE])
SidebarSystem(s) == Push([PlainUrl EXCEPT !.system = s])
SidebarPage(l) == Push(PageUrl(l))

Navigate ==
    \/ \E l \in {"table", "board"} : ViewTabs(l)
    \/ FilterBar
    \/ \E key \in {"modified", "name"} : SortMenu(key)
    \/ ViewOptionsMenu
    \/ \E p \in 0..Cardinality(File) : Pager(p)
    \/ \E g \in Folder \cup {NULL} : OpenFolder(g)
    \/ \E v \in views : OpenView(v)
    \/ GlobalSearch
    \/ \E s \in System : SidebarSystem(s)
    \/ \E l \in {"trash", "archive"} : SidebarPage(l)

-----------------------------------------------------------------------------
(* The controls of the page.                                               *)

\* Mutant: the selection is not pruned.
Kept(sel, s) == sel

\* The effect on allIds; a table that leaves the page takes its state along.
Prune(sel, s) == IF Mounted(s) THEN sel \cap Range(Shown(s)) ELSE {}

\* Where the operation was started is gone: the table needs rows, the form and
\* the rows of the trash need their page.
Unmounted(job, s) ==
    CASE job.op = "folder" -> s.url.layout # "table"
      [] job.op \in {"restore", "purge"} -> s.url.layout # "trash"
      [] OTHER -> ~Mounted(s)

\* Lists that could not be fetched are shown as empty lists.
Render(ok) ==
    /\ nav # NULL
    /\ LET s == Screen(nav, IF ok THEN Fetch(nav) ELSE <<>>, ~ok)
       IN  /\ scr' = s
           /\ selected' = Prune(selected, s)
           /\ busy' = (busy /\ Mounted(s))
           /\ jobs' = [n \in DOMAIN jobs |->
                         [jobs[n] EXCEPT !.orphan = @ \/ Unmounted(jobs[n], s)]]
    /\ nav' = NULL
    /\ UNCHANGED <<db, binned, folders, views, navs, ops, faults, disturbed>>

Toggle(f) ==
    /\ Mounted(scr) /\ f \in AllIds
    /\ selected' = IF f \in selected THEN selected \ {f} ELSE selected \cup {f}
    /\ UNCHANGED <<db, binned, folders, scr, nav, busy, jobs, views, navs, ops, faults, disturbed>>

AllChecked == AllIds # {} /\ Cardinality(selected) = Cardinality(AllIds)

ToggleAll ==
    /\ Mounted(scr)
    /\ selected' = IF AllChecked THEN {} ELSE AllIds
    /\ UNCHANGED <<db, binned, folders, scr, nav, busy, jobs, views, navs, ops, faults, disturbed>>

TableOps == {"delete", "move", "rename"}

Start(op, ids, to) ==
    /\ ids # {}
    /\ Op
    /\ jobs' = Append(jobs, [op |-> op, ids |-> ids, waiting |-> ids, to |-> to,
                             system |-> ActiveSystem(scr.url),
                             state |-> "running", orphan |-> FALSE])
    /\ busy' = (busy \/ op \in TableOps)
    /\ UNCHANGED <<db, binned, folders, scr, nav, selected, views, disturbed>>

\* The bulk bar waits for busy, the row menu does not.
DeleteSelected == ~busy /\ Mounted(scr) /\ Start("delete", selected, NULL)
MoveSelected(to) == ~busy /\ Mounted(scr) /\ Start("move", selected, to)
DeleteRow(f) == Mounted(scr) /\ f \in AllIds /\ Start("delete", {f}, NULL)
RenameRow(f) == Mounted(scr) /\ f \in AllIds /\ Start("rename", {f}, NULL)

Running(kinds, id) ==
    \E n \in DOMAIN jobs : /\ jobs[n].op \in kinds /\ id \in jobs[n].ids
                           /\ jobs[n].state = "running" /\ ~jobs[n].orphan

\* A row of the trash has a busy flag of its own.
TrashRow(op, f) ==
    /\ scr.url.layout = "trash" /\ f \in AllIds
    /\ ~Running({"restore", "purge"}, f)
    /\ Start(op, {f}, NULL)

\* The new folder goes into the active system, below the folder of the URL.
NewFolder(g) ==
    /\ scr.url.layout = "table"
    /\ folders[g] = NULL /\ \A n \in DOMAIN jobs : g \notin jobs[n].ids
    /\ \A h \in Folder : ~Running({"folder"}, h)
    /\ Start("folder", {g}, scr.url.folder)

\* The server does what one request of job n asks, or refuses.  A file moves to the
\* top or into a folder of its own system.
Moved(f, to) ==
    IF db[f].state = "live" /\ (to \in {NULL, db[f].folder} \/ folders[to].system = SystemOf[f])
    THEN [db[f] EXCEPT !.folder = to] ELSE db[f]

FileAfter(n, f) ==
    CASE jobs[n].op = "delete" /\ db[f].state # "purged" -> [db[f] EXCEPT !.state = "trashed"]
      [] jobs[n].op = "restore" /\ db[f].state = "trashed" -> [db[f] EXCEPT !.state = "live"]
      [] jobs[n].op = "purge" -> [db[f] EXCEPT !.state = "purged"]
      [] jobs[n].op = "move" -> Moved(f, jobs[n].to)
      [] OTHER -> db[f]

\* A deletion sets deleted_at, of a file in the trash too; a restore clears it.
BinWith(f, to) ==
    LET rest == Only(binned, File \ {f})
    IN  IF to.state = "trashed" THEN <<f>> \o rest ELSE rest

Apply(n, id) ==
    IF id \in File
    THEN /\ db' = [db EXCEPT ![id] = FileAfter(n, id)]
         /\ binned' = IF jobs[n].op \in {"delete", "restore", "purge"}
                      THEN BinWith(id, FileAfter(n, id)) ELSE binned
         /\ UNCHANGED folders
    ELSE /\ folders' = [folders EXCEPT ![id] = [system |-> jobs[n].system,
                                                parent |-> jobs[n].to]]
         /\ UNCHANGED <<db, binned>>

\* One request of job n is answered.  The table does not look at the status of
\* the answer; the form and the rows of the trash show the error and stop.
Answer(n, id, ok) ==
    /\ id \in jobs[n].waiting
    /\ IF ok THEN Apply(n, id) ELSE UNCHANGED <<db, binned, folders>>
    /\ jobs' = [jobs EXCEPT ![n].waiting = @ \ {id},
                            ![n].state = IF ok \/ jobs[n].op \in TableOps THEN @ ELSE "failed"]
    /\ disturbed' = IF ok THEN disturbed ELSE disturbed \cup (File \cap {id})
    /\ IF ok THEN UNCHANGED faults ELSE Fault
    /\ UNCHANGED <<scr, nav, selected, busy, views, navs, ops>>

\* The table is idle again when the job that ends is one of its own.
BusyAfter(n) == IF jobs[n].op \in TableOps /\ ~jobs[n].orphan THEN FALSE ELSE busy

\* A request fails in the network, after or before the server did its part:
\* the job ends at once, its other requests go on.
Lose(n, id, arrived) ==
    /\ Fault
    /\ id \in jobs[n].waiting
    /\ IF arrived THEN Apply(n, id) ELSE UNCHANGED <<db, binned, folders>>
    /\ jobs' = [jobs EXCEPT ![n].waiting = @ \ {id}, ![n].state = "failed"]
    /\ busy' = IF jobs[n].state = "running" THEN BusyAfter(n) ELSE busy
    /\ disturbed' = disturbed \cup (File \cap jobs[n].ids)
    /\ UNCHANGED <<scr, nav, selected, views, navs, ops>>

Cleared(n) == jobs[n].op \in {"delete", "move"} /\ ~jobs[n].orphan

\* Mutant: the page is not rendered again.
FinishQuietly(n) ==
    /\ jobs[n].state = "running" /\ jobs[n].waiting = {}
    /\ jobs' = [jobs EXCEPT ![n].state = "done"]
    /\ selected' = IF Cleared(n) THEN {} ELSE selected
    /\ busy' = BusyAfter(n)
    /\ UNCHANGED <<db, binned, folders, scr, nav, views, navs, ops, faults, disturbed>>

\* Every request was answered: clear the selection and refresh.
Finish(n) ==
    /\ jobs[n].state = "running" /\ jobs[n].waiting = {}
    /\ jobs' = [jobs EXCEPT ![n].state = "done"]
    /\ selected' = IF Cleared(n) THEN {} ELSE selected
    /\ busy' = BusyAfter(n)
    /\ nav' = IF nav = NULL THEN scr.url ELSE nav
    /\ UNCHANGED <<db, binned, folders, scr, views, navs, ops, faults, disturbed>>

\* Somebody else trashes, restores or moves a file.
Elsewhere(f, to) ==
    /\ Op
    /\ db[f].state # "purged"
    /\ db' = [db EXCEPT ![f] = to]
    /\ binned' = BinWith(f, to)
    /\ to # db[f] /\ to.state # "purged"
    /\ disturbed' = disturbed \cup {f}
    /\ UNCHANGED <<folders, scr, nav, selected, busy, jobs, views>>

MoveMenu == \E to \in scr.folders \cup {NULL} : MoveSelected(to)
BulkBar == DeleteSelected \/ MoveMenu
RowMenu(f) == RenameRow(f) \/ DeleteRow(f)
Table == ToggleAll \/ BulkBar \/ \E f \in File : Toggle(f) \/ RowMenu(f)

Next ==
    \/ Navigate
    \/ \E ok \in BOOLEAN : Render(ok)
    \/ Table
    \/ \E f \in File, op \in {"restore", "purge"} : TrashRow(op, f)
    \/ \E g \in Folder : NewFolder(g)
    \/ \E n \in DOMAIN jobs :
        \/ \E id \in jobs[n].waiting, b \in BOOLEAN : Answer(n, id, b) \/ Lose(n, id, b)
        \/ Finish(n)
    \/ \E f \in File, to \in [state : {"live", "trashed"}, folder : {NULL}] : Elsewhere(f, to)

Spec == Init /\ [][Next]_vars

\* Every request is answered or fails, a job that has its answers goes on, and
\* the router renders what it was asked for.
Responds(n) ==
    /\ n \in DOMAIN jobs
    /\ \/ \E id \in jobs[n].waiting, b \in BOOLEAN : Answer(n, id, b) \/ Lose(n, id, b)
       \/ Finish(n)
FairSpec ==
    /\ Spec
    /\ WF_vars(\E ok \in BOOLEAN : Render(ok))
    /\ \A n \in 1..MaxOps : WF_vars(Responds(n))

-----------------------------------------------------------------------------
(* Properties.                                                             *)

\* The bulk bar acts only on rows of the screen, and the header box, which
\* compares sizes, is checked exactly when every row is (files-table.tsx:37-50):
\* whatever page, filter or refresh replaced the rows under a selection.
SelectionIsOnScreen ==
    /\ selected \subseteq AllIds
    /\ Mounted(scr) => (AllChecked <=> selected = AllIds)

\* The pages (or groups) of a view show each of its rows exactly once, and a
\* page number beyond the last one, left in a link, still shows rows
\* (files/page.tsx:122-130, trash/page.tsx:42-45).
EveryRowOnAPage ==
    LET u == scr.url
        at(p) == Range(PageRows([u EXCEPT !.page = p], scr.rows))
        pages == 0..(PageCount(u, scr.rows) - 1)
    IN  /\ \A f \in Range(scr.rows) : Cardinality({p \in pages : f \in at(p)}) = 1
        /\ Len(Shown(scr)) = Cardinality(AllIds)
        /\ AllIds \subseteq Range(scr.rows)
        /\ scr.rows # <<>> => AllIds # {}

\* No page and no layout drops a file or shows it twice.  In a layout each file is
\* in one lane, and shown there or counted, of the rows on screen as of any other
\* list (board/page.tsx:70-91, gallery/page.tsx:37-47, timeline/page.tsx:57-67,
\* calendar/page.tsx:26-44, :78-87).
EveryRowOnce ==
    /\ EveryRowOnAPage
    /\ EveryListPartitions
    /\ scr.url.layout = "board" => LanesPartition(scr.rows)

\* What a complete answer for the URL would hold.
Matching(u) == {f \in File : /\ db[f].state = "live" /\ (u.q => f \in Hits)
                             /\ MatchesFilters(f, u)
                             /\ u.q \/ u.folder \in {NULL, db[f].folder}}

\* A fresh table that leaves out a matching file says that it is capped, whatever
\* it filters (files/page.tsx:22-24, :328).  Not so a search: it leaves files out
\* only when the server found more than the SearchLimit it returns, before any
\* filter, and says nothing then.  A fetch that failed shows an empty table.
CapIsFlagged ==
    [][scr' # scr /\ scr'.url.layout = "table" /\ ~scr'.degraded =>
        \/ Matching(scr'.url) \subseteq Range(scr'.rows)
        \/ IF scr'.url.q THEN Len(Found) > SearchLimit ELSE Capped(scr')]_vars

\* A file that is trashed leaves the lists, and one that is restored or purged
\* leaves the trash, once the operation that did it is done: whatever other
\* operations and navigations happen meanwhile, unless one of its requests failed
\* or somebody else changed the file.
Gone(f) == IF scr.url.layout = "trash" THEN f \notin AllIds \/ db[f].state = "trashed"
                                       ELSE f \notin AllIds \/ db[f].state = "live"
Done(f) == \E n \in DOMAIN jobs : jobs[n].state = "done" /\ f \in jobs[n].ids
Told == \A f \in File : Done(f) => Gone(f) \/ f \in disturbed

\* ... and no operation leaves the bulk bar disabled for good.
OperationsSettle == []<>(Told /\ ~busy)
=============================================================================
