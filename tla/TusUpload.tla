----------------------------- MODULE TusUpload -----------------------------
(***************************************************************************)
(* Resumable (TUS) uploads: a tus_uploads row holds Upload-Length and      *)
(* Upload-Offset, a temp file under tus_root() the bytes.  A PATCH appends *)
(* to the file, then writes the offset; the PATCH that reaches the length  *)
(* turns the temp file into an object and a files row.  Nothing locks a    *)
(* session: the handlers of one session, and the rotation worker's reaper, *)
(* interleave between awaits, and a dropped connection ends a PATCH at     *)
(* whichever await it has reached.                                         *)
(*                                                                         *)
(* A session's client follows the protocol: it sends the bytes of one      *)
(* file, and a PATCH at offset o carries the bytes that follow o.          *)
(***************************************************************************)
EXTENDS Naturals, Sequences

CONSTANTS
    Session,     \* upload ids (Uuid::now_v7), never minted twice
    File,        \* file ids, never minted twice
    Proc,        \* concurrent HTTP requests
    Worker,      \* concurrent rotation runs
    MaxLength,   \* bound on Upload-Length, in pieces of the client's file
    MaxTemp      \* bound: no PATCH starts that would grow the temp file past it

ASSUME TusConstants ==
    /\ Session # {} /\ File # {}
    /\ Proc \cap Worker = {}
    /\ MaxLength \in Nat \ {0}
    /\ MaxTemp \in Nat

VARIABLES
    sess,       \* sess[i]: the tus_uploads row (its last contents once deleted)
    temp,       \* the temp files that exist: session -> pieces
    objects,    \* the object store: file id -> what finalise put there
    files,      \* ids with a files row
    req,        \* req[p]: the request (or reaper pass) p is executing
    disturbed   \* history: sessions with an interrupted or overlapped PATCH

vars == <<sess, temp, objects, files, req, disturbed>>

-----------------------------------------------------------------------------
Length == 0..MaxLength
Piece  == 1..MaxLength

\* The client's file, and the chunk of it that follows offset o.
Source(n) == [k \in 1..n |-> k]
Chunk(o, n) == [k \in 1..n |-> o + k]

\* "created" has its temp file and no row yet; "open" covers completed rows
\* (done: completed_at is set); expired: expires_at < now().
Row == [state : {"none", "created", "open", "gone"}, length : Length,
        offset : Length, done : BOOLEAN, expired : BOOLEAN]

Control == {"idle", "create.insert", "append.write", "append.record",
            "fin.read", "fin.meta", "fin.put", "fin.insert", "fin.complete",
            "fin.unlink", "term.delete", "term.unlink",
            "reap.unlink", "reap.delete"}

\* offset is current_offset as append_chunk's SELECT returned it.
Request == [pc : Control, sess : Session, offset : Length, len : Length,
            body : Seq(Piece), file : File]

NoSession == CHOOSE i \in Session : TRUE
NoFile    == CHOOSE f \in File : TRUE
Idle      == [pc |-> "idle", sess |-> NoSession, offset |-> 0, len |-> 0,
              body |-> <<>>, file |-> NoFile]

Actor == Proc \cup Worker

Open(i) == sess[i].state = "open"

TypeOK ==
    /\ sess \in [Session -> Row]
    /\ \A i \in Session : sess[i].offset <= sess[i].length
    /\ DOMAIN temp \subseteq Session
    /\ temp \in [DOMAIN temp -> Seq(Piece)]
    /\ DOMAIN objects \subseteq File
    /\ objects \in [DOMAIN objects -> [from : Session, data : Seq(Piece)]]
    /\ files \subseteq DOMAIN objects
    /\ req \in [Actor -> Request]
    /\ disturbed \subseteq Session

Init ==
    /\ sess = [i \in Session |-> [state |-> "none", length |-> 0, offset |-> 0,
                                  done |-> FALSE, expired |-> FALSE]]
    /\ temp = [i \in {} |-> <<>>]
    /\ objects = [f \in {} |-> [from |-> NoSession, data |-> <<>>]]
    /\ files = {}
    /\ req = [p \in Actor |-> Idle]
    /\ disturbed = {}

-----------------------------------------------------------------------------
At(p, pc) == req[p].pc = pc

Start(p, r) == At(p, "idle") /\ req' = [req EXCEPT ![p] = r]

Goto(p, pc) == req' = [req EXCEPT ![p].pc = pc]

Finish(p) == req' = [req EXCEPT ![p] = Idle]

\* remove_file is best effort (`let _ =`), and the file may be missing.
Unlink(i) ==
    \/ temp' = [j \in DOMAIN temp \ {i} |-> temp[j]]
    \/ UNCHANGED temp

\* An error return, a dropped connection or a crash.  A PATCH that has
\* appended its bytes and not yet recorded them leaves the session disturbed.
Fail(p) ==
    /\ ~At(p, "idle")
    /\ disturbed' = disturbed \cup
         {i \in {req[p].sess} : At(p, "append.record") /\ req[p].len > 0}
    /\ Finish(p)
    /\ UNCHANGED <<sess, temp, objects, files>>

-----------------------------------------------------------------------------
(* POST /uploads: the empty temp file, then the row. *)

Create(p, i, n) ==
    /\ sess[i].state = "none"
    /\ Start(p, [Idle EXCEPT !.pc = "create.insert", !.sess = i])
    /\ sess' = [sess EXCEPT ![i].state = "created", ![i].length = n]
    /\ temp' = [j \in DOMAIN temp \cup {i} |-> IF j = i THEN <<>> ELSE temp[j]]
    /\ UNCHANGED <<objects, files, disturbed>>

CreateInsert(p) ==
    /\ At(p, "create.insert")
    /\ sess' = [sess EXCEPT ![req[p].sess].state = "open"]
    /\ Finish(p)
    /\ UNCHANGED <<temp, objects, files, disturbed>>

-----------------------------------------------------------------------------
(* PATCH /uploads/:id. *)

Appending(i) ==
    {p \in Proc : req[p].sess = i /\ req[p].pc \in {"append.write", "append.record"}}

\* Mutant: the client's Upload-Offset is not compared with the row's.
AcceptsAnyOffset(r, o, n) == o <= r.offset /\ r.offset + n <= r.length

\* Mutant: the bound is one piece too far.
AcceptsPastEnd(r, o, n) == o = r.offset /\ r.offset + n <= r.length + 1

\* Upload-Offset must equal the row's, and the chunk fit; n may be 0, and
\* neither completed_at nor expires_at is looked at.
Accepts(r, o, n) == o = r.offset /\ r.offset + n <= r.length

AppendBegin(p, i, o, n) ==
    /\ Open(i)
    /\ Accepts(sess[i], o, n)
    /\ i \in DOMAIN temp => Len(temp[i]) + n <= MaxTemp
    /\ Start(p, [Idle EXCEPT !.pc = "append.write", !.sess = i,
                   !.offset = sess[i].offset, !.len = n, !.body = Chunk(o, n)])
    /\ disturbed' = IF Appending(i) = {} THEN disturbed ELSE disturbed \cup {i}
    /\ UNCHANGED <<sess, temp, objects, files>>

\* Mutant: a write that fails is ignored.
AppendWriteUnchecked(p) ==
    /\ At(p, "append.write")
    /\ \/ /\ req[p].sess \in DOMAIN temp
          /\ temp' = [temp EXCEPT ![req[p].sess] = @ \o req[p].body]
       \/ UNCHANGED temp
    /\ req' = [req EXCEPT ![p].pc = "append.record", ![p].body = <<>>]
    /\ UNCHANGED <<sess, objects, files, disturbed>>

\* open(append) fails when the file is gone; it never creates one.
AppendWrite(p) ==
    /\ At(p, "append.write")
    /\ req[p].sess \in DOMAIN temp
    /\ temp' = [temp EXCEPT ![req[p].sess] = @ \o req[p].body]
    /\ req' = [req EXCEPT ![p].pc = "append.record", ![p].body = <<>>]
    /\ UNCHANGED <<sess, objects, files, disturbed>>

\* write_all stops part of the way through: disk full, dropped connection.
AppendTorn(p, m) ==
    LET i == req[p].sess IN
    /\ At(p, "append.write")
    /\ i \in DOMAIN temp
    /\ 0 < m /\ m < req[p].len
    /\ temp' = [temp EXCEPT ![i] = @ \o SubSeq(req[p].body, 1, m)]
    /\ disturbed' = disturbed \cup {i}
    /\ Finish(p)
    /\ UNCHANGED <<sess, objects, files>>

\* Mutant: off by one.
ReachedAlmost(o, i) == o + 1 >= sess[i].length

Reached(o, i) == o = sess[i].length

\* UPDATE ... SET upload_offset WHERE id: whatever the row says by now.
AppendRecord(p) ==
    LET i == req[p].sess
        new == req[p].offset + req[p].len
    IN /\ At(p, "append.record")
       /\ sess' = IF Open(i) THEN [sess EXCEPT ![i].offset = new] ELSE sess
       /\ IF Reached(new, i)
          THEN req' = [req EXCEPT ![p] = [Idle EXCEPT !.pc = "fin.read", !.sess = i]]
          ELSE Finish(p)
       /\ UNCHANGED <<temp, objects, files, disturbed>>

-----------------------------------------------------------------------------
(* finalise.  The system lookup and the quota are reasons to Fail. *)

FinRead(p) ==
    /\ At(p, "fin.read")
    /\ req[p].sess \in DOMAIN temp
    /\ req' = [req EXCEPT ![p].pc = "fin.meta", ![p].body = temp[req[p].sess]]
    /\ UNCHANGED <<sess, temp, objects, files, disturbed>>

\* fetch_one: an error once the row is gone.
FinMeta(p) ==
    /\ At(p, "fin.meta")
    /\ Open(req[p].sess)
    /\ Goto(p, "fin.put")
    /\ UNCHANGED <<sess, temp, objects, files, disturbed>>

FinPut(p, f) ==
    /\ At(p, "fin.put")
    /\ f \notin DOMAIN objects
    /\ objects' = [g \in DOMAIN objects \cup {f} |->
                     IF g = f THEN [from |-> req[p].sess, data |-> req[p].body]
                     ELSE objects[g]]
    /\ req' = [req EXCEPT ![p].pc = "fin.insert", ![p].file = f,
                          ![p].body = <<>>]
    /\ UNCHANGED <<sess, temp, files, disturbed>>

FinInsert(p) ==
    /\ At(p, "fin.insert")
    /\ files' = files \cup {req[p].file}
    /\ req' = [req EXCEPT ![p].pc = "fin.complete", ![p].file = NoFile]
    /\ UNCHANGED <<sess, temp, objects, disturbed>>

FinComplete(p) ==
    LET i == req[p].sess IN
    /\ At(p, "fin.complete")
    /\ sess' = IF Open(i) THEN [sess EXCEPT ![i].done = TRUE] ELSE sess
    /\ Goto(p, "fin.unlink")
    /\ UNCHANGED <<temp, objects, files, disturbed>>

FinUnlink(p) ==
    /\ At(p, "fin.unlink")
    /\ Unlink(req[p].sess)
    /\ Finish(p)
    /\ UNCHANGED <<sess, objects, files, disturbed>>

-----------------------------------------------------------------------------
(* DELETE /uploads/:id: the SELECT wants completed_at NULL, the DELETE no   *)
(* longer does.                                                            *)

Terminate(p, i) ==
    /\ Open(i) /\ ~sess[i].done
    /\ Start(p, [Idle EXCEPT !.pc = "term.delete", !.sess = i])
    /\ UNCHANGED <<sess, temp, objects, files, disturbed>>

TermDelete(p) ==
    LET i == req[p].sess IN
    /\ At(p, "term.delete")
    /\ sess' = [sess EXCEPT ![i].state = "gone"]
    /\ Goto(p, "term.unlink")
    /\ UNCHANGED <<temp, objects, files, disturbed>>

TermUnlink(p) ==
    /\ At(p, "term.unlink")
    /\ Unlink(req[p].sess)
    /\ Finish(p)
    /\ UNCHANGED <<sess, objects, files, disturbed>>

-----------------------------------------------------------------------------
(* reap_tus_uploads, one listed session at a time: the file, then the row. *)

ExpiresAt(i) ==
    /\ Open(i) /\ ~sess[i].expired
    /\ sess' = [sess EXCEPT ![i].expired = TRUE]
    /\ UNCHANGED <<temp, objects, files, req, disturbed>>

Reapable(i) == Open(i) /\ ~sess[i].done /\ sess[i].expired

ReapBegin(w, i) ==
    /\ Reapable(i)
    /\ Start(w, [Idle EXCEPT !.pc = "reap.unlink", !.sess = i])
    /\ UNCHANGED <<sess, temp, objects, files, disturbed>>

\* Mutant: the row is dropped only after its temp file could be removed.
ReapUnlinkStrict(w) ==
    /\ At(w, "reap.unlink")
    /\ req[w].sess \in DOMAIN temp
    /\ temp' = [j \in DOMAIN temp \ {req[w].sess} |-> temp[j]]
    /\ Goto(w, "reap.delete")
    /\ UNCHANGED <<sess, objects, files, disturbed>>

ReapUnlink(w) ==
    /\ At(w, "reap.unlink")
    /\ Unlink(req[w].sess)
    /\ Goto(w, "reap.delete")
    /\ UNCHANGED <<sess, objects, files, disturbed>>

\* DELETE ... AND completed_at IS NULL.
ReapDelete(w) ==
    LET i == req[w].sess IN
    /\ At(w, "reap.delete")
    /\ sess' = IF sess[i].done THEN sess ELSE [sess EXCEPT ![i].state = "gone"]
    /\ Finish(w)
    /\ UNCHANGED <<temp, objects, files, disturbed>>

-----------------------------------------------------------------------------
Patch(p) ==
    \/ \E i \in Session, o, n \in Length : AppendBegin(p, i, o, n)
    \/ AppendWrite(p)
    \/ \E m \in Length : AppendTorn(p, m)
    \/ AppendRecord(p)

Finalise(p) ==
    \/ FinRead(p)
    \/ FinMeta(p)
    \/ \E f \in File : FinPut(p, f)
    \/ FinInsert(p)
    \/ FinComplete(p)
    \/ FinUnlink(p)

Reap(w) ==
    \/ \E i \in Session : ReapBegin(w, i)
    \/ ReapUnlink(w)
    \/ ReapDelete(w)

Next ==
    \/ \E p \in Proc :
        \/ \E i \in Session, n \in Length : Create(p, i, n)
        \/ CreateInsert(p)
        \/ Patch(p)
        \/ Finalise(p)
        \/ \E i \in Session : Terminate(p, i)
        \/ TermDelete(p)
        \/ TermUnlink(p)
    \/ \E w \in Worker : Reap(w)
    \/ \E p \in Actor : Fail(p)
    \/ \E i \in Session : ExpiresAt(i)

Spec == Init /\ [][Next]_vars

\* The rotation worker runs again and again; each statement of its loop
\* succeeds if it is tried often enough.  Nothing is assumed of clients.
FairSpec ==
    /\ Spec
    /\ \A w \in Worker :
        /\ SF_vars(\E i \in Session : ReapBegin(w, i))
        /\ SF_vars(ReapUnlink(w))
        /\ SF_vars(ReapDelete(w))

-----------------------------------------------------------------------------
(* Properties. *)

\* Upload-Offset never claims bytes the temp file does not hold, even while
\* PATCHes of one session overlap or stop half-way: a client that resumes
\* from the offset of a HEAD leaves no hole.
OffsetIsBacked ==
    \A i \in Session :
        Open(i) /\ i \in DOMAIN temp => Len(temp[i]) >= sess[i].offset

\* No file is published short of its Upload-Length.
PublishedIsWhole ==
    \A f \in files : Len(objects[f].data) >= sess[objects[f].from].length

\* An upload whose PATCHes never overlapped and never stopped between the
\* append and the UPDATE is published exactly as the client sent it, whatever
\* a terminate, the reaper or a second finalise does meanwhile.
UndisturbedIsExact ==
    \A f \in files : objects[f].from \notin disturbed =>
        objects[f].data = Source(sess[objects[f].from].length)

\* However PATCHes, finalises, terminates and the reaper interleave and stop, an
\* upload looks atomic: a file appears with all that was declared in one step, the
\* INSERT of finalise (tus.rs:289-314), and what it holds is never changed after.
Declared == [i \in {j \in Session : sess[j].state # "none"} |-> sess[i].length]
Published == [f \in files |-> objects[f]]

Uploads == INSTANCE AtomicUpload WITH
    declared <- Declared, broken <- disturbed, published <- Published

ImplementsUpload == Uploads!Spec

\* An abandoned session leaves the table, even one whose temp file is gone.
ExpiredIsReaped == \A i \in Session : Reapable(i) ~> ~Reapable(i)

=============================================================================
