------------------------------- MODULE Quota -------------------------------
(***************************************************************************)
(* Nested storage quotas.  enforce_quota walks the scopes an upload falls  *)
(* in (workspace, system, org, user), one pair of queries per scope, and   *)
(* compares the live bytes found there with the cap; the row that makes    *)
(* the bytes count is written later, by the handler that called it.        *)
(* Restoring a file, moving it, importing one from the legacy hub, lowering *)
(* a cap and saving a version of somebody else's file change the same sums  *)
(* without asking.                                                         *)
(***************************************************************************)
EXTENDS Naturals, Sequences, FiniteSets, Functions

CONSTANTS
    File,      \* file ids, never minted twice (an import brings its own)
    Unit,      \* where a file lives: a system, and an org of it or none
    Orgless,   \* the units that are a system and no org
    User,      \* creators; a user is a scope of its own
    Shared,    \* the scopes above users: the workspace, systems, orgs
    Above,     \* Above[u]: the shared scopes of unit u, in the order checked
    Proc,      \* concurrent requests
    MaxSize,   \* bound on the size of one body; empty ones are left out
    Caps       \* quota_bytes values an admin sets; 0 is "no limit"

ASSUME QuotaConstants ==
    /\ Above \in [Unit -> Seq(Shared)]
    /\ Orgless \subseteq Unit
    /\ User \cap Shared = {}
    /\ IsFiniteSet(Proc) /\ Proc # {} /\ IsFiniteSet(File)
    /\ MaxSize \in Nat \ {0}
    /\ Caps \subseteq Nat

VARIABLES
    file,        \* file[f]: the row of f, or that it has none
    cap,         \* cap[s]: quota_bytes of scope s
    req,         \* req[p]: the upload or save p is executing
    watch,       \* an arbitrary scope, which the two histories are about:
    loosened,    \* did its sum or its cap change unasked
    overlapped   \* were two admissions under way in it at once

vars == <<file, cap, req, watch, loosened, overlapped>>

-----------------------------------------------------------------------------
Scope == Shared \cup User
Size  == 1..MaxSize

\* The columns of a files row that the sums read.
FileRow == [life : {"live", "trash"}, size : Size, unit : Unit, creator : User]

Unborn == [life |-> "unborn"]
Purged == [life |-> "purged"]

\* user: who is charged; todo: scopes enforce_quota has still to look at.
\* One with nothing left to look at goes on to write.
Request == [op : {"upload"} \cup File, unit : Unit, user : User, size : Size,
            todo : Seq(Scope)]

Idle == [op |-> "none"]

TypeOK ==
    /\ file \in [File -> FileRow \cup {Unborn, Purged}]
    /\ cap \in [Scope -> Nat]
    /\ req \in [Proc -> Request \cup {Idle}]
    /\ watch \in Scope
    /\ loosened \in BOOLEAN
    /\ overlapped \in BOOLEAN

Init ==
    /\ file = [f \in File |-> Unborn]
    /\ cap \in [Scope -> Caps]
    /\ req = [p \in Proc |-> Idle]
    /\ watch \in Scope
    /\ loosened = FALSE
    /\ overlapped = FALSE

Chain(u, x) == Above[u] \o <<x>>

ScopesOf(u, x) == {Chain(u, x)[i] : i \in DOMAIN Chain(u, x)}

\* WHERE <the scope's column> = s AND deleted_at IS NULL
Counts(f, s) ==
    file[f].life = "live" /\ s \in ScopesOf(file[f].unit, file[f].creator)

\* SUM(size_bytes) over those rows.
Sizes(s) == [f \in {g \in File : Counts(g, s)} |-> file[f].size]

Used(s) == SumFunction(Sizes(s))

-----------------------------------------------------------------------------
Checking(p) == req[p] # Idle /\ req[p].todo # <<>>

Admitted(p) == req[p] # Idle /\ req[p].todo = <<>>

Finish(p) == req' = [req EXCEPT ![p] = Idle]

Loosen(scopes) == loosened' = (loosened \/ watch \in scopes)

\* Another request is being admitted in the watched scope.
Contended(p) ==
    \E o \in Proc \ {p} : req[o] # Idle /\ watch \in ScopesOf(req[o].unit, req[o].user)

\* enforce_quota(n, u, x) is entered to upload a file or to save file op.
Begin(p, op, u, x, n) ==
    /\ req[p] = Idle
    /\ req' = [req EXCEPT ![p] = [op |-> op, unit |-> u, user |-> x, size |-> n,
                                  todo |-> Chain(u, x)]]
    /\ overlapped' = (overlapped \/ (watch \in ScopesOf(u, x) /\ Contended(p)))
    /\ UNCHANGED <<file, cap, watch, loosened>>

\* A refusal (413), an error or a disconnect: nothing was counted yet.
Fail(p) ==
    /\ req[p] # Idle
    /\ Finish(p)
    /\ UNCHANGED <<file, cap, watch, loosened, overlapped>>

\* Upload, batch item, TUS finalise: charged to the caller, who creates it.
UploadBegin(p, u, x, n) == Begin(p, "upload", u, x, n)

\* A new version is charged to its caller x, a WOPI save to the creator; the
\* size it will replace is still counted.
SaveBegin(p, f, x, n) ==
    /\ file[f].life = "live"
    /\ Begin(p, f, file[f].unit, x, n)

\* Mutant: the incoming bytes are left out.
FitsAlready(s, n) == cap[s] = 0 \/ Used(s) <= cap[s]

Fits(s, n) == cap[s] = 0 \/ Used(s) + n <= cap[s]

\* Mutant: a scope without a cap ends the walk instead of deferring.
CheckStops(p) ==
    LET s == Head(req[p].todo) IN
    /\ Checking(p)
    /\ Fits(s, req[p].size)
    /\ req' = [req EXCEPT ![p].todo = IF cap[s] = 0 THEN <<>> ELSE Tail(@)]
    /\ UNCHANGED <<file, cap, watch, loosened, overlapped>>

\* One level: its cap is read, then its sum; over it, the walk ends in Fail.
Check(p) ==
    /\ Checking(p)
    /\ Fits(Head(req[p].todo), req[p].size)
    /\ req' = [req EXCEPT ![p].todo = Tail(@)]
    /\ UNCHANGED <<file, cap, watch, loosened, overlapped>>

\* INSERT INTO files, under an id minted after the check.
InsertFile(p, f) ==
    /\ Admitted(p) /\ req[p].op = "upload" /\ file[f] = Unborn
    /\ file' = [file EXCEPT ![f] = [life |-> "live", size |-> req[p].size,
                                    unit |-> req[p].unit, creator |-> req[p].user]]
    /\ Finish(p)
    /\ UNCHANGED <<cap, watch, loosened, overlapped>>

\* Mutant: size_bytes is added to, not replaced.
SaveFileAdds(p) ==
    LET f == req[p].op IN
    /\ Admitted(p) /\ f # "upload" /\ file[f] # Purged
    /\ file' = [file EXCEPT ![f].size = @ + req[p].size]
    /\ Loosen(ScopesOf(file[f].unit, file[f].creator)
                \ ScopesOf(req[p].unit, req[p].user))
    /\ Finish(p)
    /\ UNCHANGED <<cap, watch, overlapped>>

\* UPDATE ... WHERE id: a file trashed since is updated there, one purged
\* since is not; the bytes count where the row is now.
SaveFile(p) ==
    LET f == req[p].op IN
    /\ Admitted(p) /\ f # "upload"
    /\ IF file[f] = Purged THEN UNCHANGED <<file, loosened>>
       ELSE /\ file' = [file EXCEPT ![f].size = req[p].size]
            /\ Loosen(ScopesOf(file[f].unit, file[f].creator)
                        \ ScopesOf(req[p].unit, req[p].user))
    /\ Finish(p)
    /\ UNCHANGED <<cap, watch, overlapped>>

-----------------------------------------------------------------------------
Trash(f) ==
    /\ file[f].life = "live"
    /\ file' = [file EXCEPT ![f].life = "trash"]
    /\ UNCHANGED <<cap, req, watch, loosened, overlapped>>

\* restore_file does not look at the caps.
Restore(f) ==
    /\ file[f].life = "trash"
    /\ file' = [file EXCEPT ![f].life = "live"]
    /\ Loosen(ScopesOf(file[f].unit, file[f].creator))
    /\ UNCHANGED <<cap, req, watch, overlapped>>

Purge(f) ==
    /\ file[f].life \in {"live", "trash"}
    /\ file' = [file EXCEPT ![f] = Purged]
    /\ UNCHANGED <<cap, req, watch, loosened, overlapped>>

\* PATCH with a new system or org: the creator stays, no cap is consulted.
Move(f, u) ==
    /\ file[f].life = "live" /\ u # file[f].unit
    /\ file' = [file EXCEPT ![f].unit = u]
    /\ Loosen(ScopesOf(u, file[f].creator))
    /\ UNCHANGED <<cap, req, watch, overlapped>>

\* The import of a legacy file by user x: under the id it had, which may be one
\* purged here, into a system and no org, with no look at the caps.
Import(f, u, x, n) ==
    /\ file[f] \in {Unborn, Purged}
    /\ file' = [file EXCEPT ![f] = [life |-> "live", size |-> n, unit |-> u, creator |-> x]]
    /\ Loosen(ScopesOf(u, x))
    /\ UNCHANGED <<cap, req, watch, overlapped>>

\* Workspace settings, system PATCH, org and user quota PATCH.
SetCap(s, c) ==
    /\ cap[s] # c
    /\ cap' = [cap EXCEPT ![s] = c]
    /\ Loosen({s})
    /\ UNCHANGED <<file, req, watch, overlapped>>

-----------------------------------------------------------------------------
Admission(p) ==
    \/ \E u \in Unit, x \in User, n \in Size : UploadBegin(p, u, x, n)
    \/ \E f \in File, x \in User, n \in Size : SaveBegin(p, f, x, n)
    \/ Check(p)
    \/ \E f \in File : InsertFile(p, f)
    \/ SaveFile(p)
    \/ Fail(p)

Next ==
    \/ \E p \in Proc : Admission(p)
    \/ \E f \in File : Trash(f) \/ Restore(f) \/ Purge(f)
    \/ \E f \in File, u \in Unit : Move(f, u)
    \/ \E f \in File, u \in Orgless, x \in User, n \in Size : Import(f, u, x, n)
    \/ \E s \in Scope, c \in Caps : SetCap(s, c)

Spec == Init /\ [][Next]_vars

-----------------------------------------------------------------------------
(* Properties. *)

\* A scope whose admissions never overlapped stays within its cap, whatever
\* happens in the scopes above and below it, and however many handlers stop
\* between the check and the write: unless its sum or its cap was changed by an
\* operation that asks no quota (Loosen).
SoloFits ==
    ~loosened /\ ~overlapped => cap[watch] = 0 \/ Used(watch) <= cap[watch]

\* The check and the write are not atomic, but overlapping admissions pass a
\* cap by at most what the other requests in flight carry.
OvershootIsInFlight ==
    ~loosened =>
        \/ cap[watch] = 0
        \/ Used(watch) <= cap[watch] + (Cardinality(Proc) - 1) * MaxSize
=============================================================================
