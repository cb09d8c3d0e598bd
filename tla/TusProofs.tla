----------------------------- MODULE TusProofs -----------------------------
(* Theorems about TusUpload, for every set of sessions, files, requests and *)
(* workers, and every bound on lengths.                                     *)
EXTENDS TusUpload, SequenceTheorems, TLAPS

\* The placeholder values have their types.
LEMMA PlaceholderTypes == NoSession \in Session /\ NoFile \in File /\ Idle \in Request
<1>1. NoSession \in Session
  BY TusConstants DEF NoSession
<1>2. NoFile \in File
  BY TusConstants DEF NoFile
<1>3. <<>> \in Seq(Piece)
  OBVIOUS
<1>. QED
  BY <1>1, <1>2, <1>3, TusConstants DEF Idle, Request, Control, Length

-----------------------------------------------------------------------------
(* Pieces of the client's file.                                            *)

\* A chunk that stays within the longest file is a sequence of its pieces.
LEMMA ChunkType ==
    ASSUME NEW o \in Nat, NEW n \in Nat, o + n <= MaxLength
    PROVE  Chunk(o, n) \in Seq(Piece) /\ Len(Chunk(o, n)) = n
<1>1. \A k \in 1..n : o + k \in Piece
  BY TusConstants DEF Piece
<1>2. Chunk(o, n) \in [1..n -> Piece]
  BY <1>1 DEF Chunk
<1>. QED
  BY <1>2, SeqDef, LenProperties

\* The file's first n pieces are a sequence of length n.
LEMMA SourceType ==
    ASSUME NEW n \in Nat, n <= MaxLength
    PROVE  Source(n) \in Seq(Piece) /\ Len(Source(n)) = n
<1>1. Source(n) \in [1..n -> Piece]
  BY TusConstants DEF Source, Piece
<1>. QED
  BY <1>1, SeqDef, LenProperties

\* The chunk at offset o continues the file where its first o pieces end.
LEMMA SourceContinues ==
    ASSUME NEW o \in Nat, NEW n \in Nat, o + n <= MaxLength
    PROVE  Source(o) \o Chunk(o, n) = Source(o + n)
<1> DEFINE s == Source(o)
           t == Chunk(o, n)
<1>1. /\ s \in Seq(Piece) /\ Len(s) = o
      /\ t \in Seq(Piece) /\ Len(t) = n
      /\ Source(o + n) \in Seq(Piece) /\ Len(Source(o + n)) = o + n
  BY ChunkType, SourceType, TusConstants
<1> HIDE DEF s, t
<1>2. s \o t \in Seq(Piece) /\ Len(s \o t) = o + n
  BY <1>1, ConcatProperties
<1>3. ASSUME NEW k \in 1..(o + n)
      PROVE  (s \o t)[k] = Source(o + n)[k]
  <2>1. Source(o + n)[k] = k
    BY DEF Source
  <2>2. CASE k <= o
    <3>1. s[k] = k
      <4>1. k \in 1..o
        BY <2>2
      <4>. QED
        BY <4>1 DEF s, Source
    <3>2. (s \o t)[k] = s[k]
      BY <1>1, <2>2, ConcatProperties
    <3>. QED
      BY <2>1, <3>1, <3>2
  <2>3. CASE k > o
    <3>1. t[k - o] = k
      <4>1. k - o \in 1..n /\ o + (k - o) = k
        BY <2>3
      <4>. QED
        BY <4>1 DEF t, Chunk
    <3>2. (s \o t)[k] = t[k - o]
      BY <1>1, <2>3, ConcatProperties
    <3>. QED
      BY <2>1, <3>1, <3>2
  <2>4. k <= o \/ k > o
    OBVIOUS
  <2>. QED
    BY <2>2, <2>3, <2>4, Zenon
<1>4. s \o t = Source(o + n)
  BY <1>1, <1>2, <1>3, SeqEqual
<1>. QED
  BY <1>4 DEF s, t

\* Two prefixes of the file are equal only if they are as long.
LEMMA SourceInjective ==
    ASSUME NEW m \in Nat, NEW n \in Nat, m <= MaxLength, n <= MaxLength,
           Source(m) = Source(n)
    PROVE  m = n
BY SourceType

-----------------------------------------------------------------------------
(* Type correctness.  TypeOK is not inductive: an UPDATE writes an offset    *)
(* that an earlier SELECT and check allowed, and an INSERT names an object   *)
(* that an earlier put left.                                                 *)

\* No request works on an id that has not been minted, and only the handler
\* that minted it on one whose row is still to be inserted.
WorksOnMinted ==
    \A p \in Actor : ~At(p, "idle") =>
        /\ sess[req[p].sess].state # "none"
        /\ sess[req[p].sess].state = "created" => At(p, "create.insert")

Appends == {"append.write", "append.record"}

\* What a PATCH appends and will record stays within Upload-Length.
AppendFits ==
    \A p \in Proc : req[p].pc \in Appends =>
        /\ req[p].offset + req[p].len <= sess[req[p].sess].length
        /\ At(p, "append.write") => req[p].body = Chunk(req[p].offset, req[p].len)

InsertsStored == \A p \in Proc : At(p, "fin.insert") => req[p].file \in DOMAIN objects

TypeInv == TypeOK /\ WorksOnMinted /\ AppendFits /\ InsertsStored

\* The UPDATEs of one row that leave its offset alone keep the table's type.
LEMMA RowStep ==
    ASSUME TypeOK, NEW i \in Session,
           \/ \E s \in {"created", "open", "gone"} : sess' = [sess EXCEPT ![i].state = s]
           \/ sess' = [sess EXCEPT ![i].done = TRUE]
           \/ sess' = [sess EXCEPT ![i].expired = TRUE]
    PROVE  /\ sess' \in [Session -> Row]
           /\ \A j \in Session : sess'[j].offset <= sess'[j].length
<1>1. ASSUME NEW r \in Row, r.offset = sess[i].offset, r.length = sess[i].length,
             sess' = [sess EXCEPT ![i] = r]
      PROVE  /\ sess' \in [Session -> Row]
             /\ \A j \in Session : sess'[j].offset <= sess'[j].length
  BY <1>1 DEF TypeOK
<1>2. sess[i] \in Row
  BY DEF TypeOK
<1>3. CASE \E s \in {"created", "open", "gone"} : sess' = [sess EXCEPT ![i].state = s]
  <2>1. PICK s \in {"created", "open", "gone"} : sess' = [sess EXCEPT ![i].state = s]
    BY <1>3
  <2> DEFINE r == [sess[i] EXCEPT !.state = s]
  <2>2. r \in Row /\ r.offset = sess[i].offset /\ r.length = sess[i].length
    BY <1>2 DEF Row
  <2>3. sess' = [sess EXCEPT ![i] = r]
    BY <2>1
  <2> HIDE DEF r
  <2>. QED
    BY <1>1, <2>2, <2>3
<1>4. CASE sess' = [sess EXCEPT ![i].done = TRUE]
  <2> DEFINE r == [sess[i] EXCEPT !.done = TRUE]
  <2>2. r \in Row /\ r.offset = sess[i].offset /\ r.length = sess[i].length
    BY <1>2 DEF Row
  <2>3. sess' = [sess EXCEPT ![i] = r]
    BY <1>4
  <2> HIDE DEF r
  <2>. QED
    BY <1>1, <2>2, <2>3
<1>5. CASE sess' = [sess EXCEPT ![i].expired = TRUE]
  <2> DEFINE r == [sess[i] EXCEPT !.expired = TRUE]
  <2>2. r \in Row /\ r.offset = sess[i].offset /\ r.length = sess[i].length
    BY <1>2 DEF Row
  <2>3. sess' = [sess EXCEPT ![i] = r]
    BY <1>5
  <2> HIDE DEF r
  <2>. QED
    BY <1>1, <2>2, <2>3
<1>. QED
  BY <1>3, <1>4, <1>5

\* Every step keeps the types, and what the requests rely on for theirs.
LEMMA TypeStep == TypeInv /\ [Next]_vars => TypeInv'
<1> SUFFICES ASSUME TypeInv, [Next]_vars
             PROVE  TypeInv'
  OBVIOUS
<1> USE TusConstants, PlaceholderTypes DEF TypeInv, At
<1>1. ASSUME NEW p \in Proc, NEW i \in Session, NEW n \in Length, Create(p, i, n)
      PROVE  TypeInv'
  <2>1. TypeOK'
    <3> DEFINE s == [sess[i] EXCEPT !.state = "created", !.length = n]
    <3>a. s \in Row /\ s.offset = sess[i].offset /\ s.length = n
      <4>1. sess[i] \in Row
        BY DEF TypeOK
      <4>. QED
        BY <4>1 DEF Row
    <3>b. sess' = [sess EXCEPT ![i] = s]
      BY <1>1 DEF Create, TypeOK
    <3> HIDE DEF s
    <3>1. sess' \in [Session -> Row]
      BY <3>a, <3>b DEF TypeOK
    <3>2. \A j \in Session : sess'[j].offset <= sess'[j].length
      BY <1>1 DEF Create, TypeOK, Row, Length
    <3>3. DOMAIN temp' \subseteq Session /\ temp' \in [DOMAIN temp' -> Seq(Piece)]
      BY <1>1, EmptySeq DEF Create, TypeOK
    <3>4. req' \in [Actor -> Request]
      BY <1>1 DEF Create, Start, TypeOK, Request, Control, Actor
    <3>5. /\ DOMAIN objects' \subseteq File /\ files' \subseteq DOMAIN objects'
            /\ objects' \in [DOMAIN objects' -> [from : Session, data : Seq(Piece)]]
         /\ disturbed' \subseteq Session
      BY <1>1 DEF Create, TypeOK
    <3>. QED
      BY <3>1, <3>2, <3>3, <3>4, <3>5 DEF TypeOK
  <2>2. WorksOnMinted' /\ AppendFits' /\ InsertsStored'
    BY <1>1
       DEF Create, Start, WorksOnMinted, TypeOK, Row, Request, Idle, Actor,
           AppendFits, Appends, InsertsStored
  <2>. QED
    BY <2>1, <2>2
<1>2. ASSUME NEW p \in Proc, CreateInsert(p)
      PROVE  TypeInv'
  <2>1. TypeOK'
    <3>1. /\ sess' \in [Session -> Row]
         /\ \A j \in Session : sess'[j].offset <= sess'[j].length
      <4>1. req[p].sess \in Session
        BY DEF TypeOK, Actor, Request
      <4>. QED
        BY <1>2, <4>1, RowStep DEF CreateInsert, TypeOK
    <3>2. req' \in [Actor -> Request]
      BY <1>2 DEF CreateInsert, Finish, TypeOK, Actor, Request, Control
    <3>3. /\ DOMAIN temp' \subseteq Session
         /\ temp' \in [DOMAIN temp' -> Seq(Piece)]
         /\ DOMAIN objects' \subseteq File /\ files' \subseteq DOMAIN objects'
         /\ objects' \in [DOMAIN objects' -> [from : Session, data : Seq(Piece)]]
         /\ disturbed' \subseteq Session
      BY <1>2 DEF CreateInsert, Finish, TypeOK
    <3>. QED
      BY <3>1, <3>2, <3>3 DEF TypeOK
  <2>2. WorksOnMinted' /\ AppendFits' /\ InsertsStored'
    BY <1>2
       DEF CreateInsert, Finish, WorksOnMinted, TypeOK, Row, Request, Idle,
           Actor, AppendFits, Appends, InsertsStored
  <2>. QED
    BY <2>1, <2>2
<1>3. ASSUME NEW p \in Proc, NEW i \in Session, NEW o \in Length, NEW n \in Length,
             AppendBegin(p, i, o, n)
      PROVE  TypeInv'
  <2>1. TypeOK'
    <3>1. req' \in [Actor -> Request]
      <4>1. sess[i] \in Row /\ o + n <= MaxLength /\ o = sess[i].offset
        BY <1>3, TusConstants DEF AppendBegin, Accepts, TypeOK, Row, Length
      <4>2. o \in Nat /\ n \in Nat
        BY TusConstants DEF Length
      <4>3. Chunk(o, n) \in Seq(Piece)
        BY <4>1, <4>2, ChunkType
      <4> DEFINE next == [Idle EXCEPT !.pc = "append.write", !.sess = i,
                            !.offset = sess[i].offset, !.len = n, !.body = Chunk(o, n)]
      <4>4. sess[i].offset \in Length
        BY DEF TypeOK, Row
      <4>5. next \in Request
        BY <4>3, <4>4 DEF Request, Control
      <4>6. req' = [req EXCEPT ![p] = next]
        BY <1>3 DEF AppendBegin, Start
      <4> HIDE DEF next
      <4>. QED
        BY <4>5, <4>6 DEF TypeOK, Actor
    <3>2. sess' = sess /\ temp' = temp /\ objects' = objects /\ files' = files /\ disturbed' \subseteq Session
      BY <1>3 DEF AppendBegin, TypeOK
    <3>. QED
      BY <3>1, <3>2 DEF TypeOK
  <2>2. WorksOnMinted' /\ AppendFits' /\ InsertsStored'
    BY <1>3
       DEF AppendBegin, Start, Open, Accepts, WorksOnMinted, TypeOK, Row,
           Request, Idle, Actor, AppendFits, Appends, InsertsStored
  <2>. QED
    BY <2>1, <2>2
<1>4. ASSUME NEW p \in Proc, AppendWrite(p)
      PROVE  TypeInv'
  <2>1. TypeOK'
    <3> DEFINE r == [req[p] EXCEPT !.pc = "append.record", !.body = <<>>]
    <3>a. r \in Request
      BY EmptySeq DEF TypeOK, Actor, Request, Control
    <3>b. req' = [req EXCEPT ![p] = r]
      BY <1>4 DEF AppendWrite, TypeOK, Actor
    <3> HIDE DEF r
    <3>1. req' \in [Actor -> Request]
      BY <3>a, <3>b DEF TypeOK
    <3>2. DOMAIN temp' \subseteq Session /\ temp' \in [DOMAIN temp' -> Seq(Piece)]
      <4> DEFINE i == req[p].sess
      <4>1. req[p].body \in Seq(Piece)
        BY DEF TypeOK, Actor, Request
      <4>2. temp[i] \in Seq(Piece)
        BY <1>4 DEF AppendWrite, TypeOK
      <4>3. temp[i] \o req[p].body \in Seq(Piece)
        BY <4>1, <4>2, ConcatProperties
      <4>. QED
        BY <1>4, <4>3 DEF AppendWrite, TypeOK
    <3>3. /\ sess' = sess /\ objects' = objects /\ files' = files
         /\ disturbed' \subseteq Session
      BY <1>4 DEF AppendWrite, TypeOK, Actor, Request
    <3>. QED
      BY <3>1, <3>2, <3>3 DEF TypeOK
  <2>2. WorksOnMinted' /\ AppendFits' /\ InsertsStored'
    BY <1>4
       DEF AppendWrite, WorksOnMinted, TypeOK, Row, Request, Idle, Actor,
           AppendFits, Appends, InsertsStored
  <2>. QED
    BY <2>1, <2>2
<1>5. ASSUME NEW p \in Proc, NEW m \in Length, AppendTorn(p, m)
      PROVE  TypeInv'
  <2>1. TypeOK'
    <3>1. req' \in [Actor -> Request]
      BY <1>5, EmptySeq DEF AppendTorn, Finish, TypeOK, Actor, Request, Control
    <3>2. DOMAIN temp' \subseteq Session /\ temp' \in [DOMAIN temp' -> Seq(Piece)]
      <4> DEFINE i == req[p].sess
      <4>1. SubSeq(req[p].body, 1, m) \in Seq(Piece)
        <5>1. req[p].body = Chunk(req[p].offset, req[p].len)
          BY <1>5 DEF AppendTorn, AppendFits, Appends
        <5>2. req[p].body \in Seq(Piece) /\ Len(req[p].body) = req[p].len
          <6>1. /\ req[p].offset \in Nat /\ req[p].len \in Nat
                /\ req[p].sess \in Session
            BY DEF TypeOK, Actor, Request, Length
          <6>2. sess[req[p].sess].length \in Nat /\ sess[req[p].sess].length <= MaxLength
            BY <6>1 DEF TypeOK, Row, Length
          <6>3. req[p].offset + req[p].len <= sess[req[p].sess].length
            BY <1>5 DEF AppendTorn, AppendFits, Appends
          <6>4. req[p].offset + req[p].len <= MaxLength
            BY <6>1, <6>2, <6>3
          <6>. QED
            BY <5>1, <6>1, <6>4, ChunkType
        <5>3. \A k \in 1..m : req[p].body[k] \in Piece
          BY <1>5, <5>2, ElementOfSeq DEF AppendTorn, Length
        <5>. QED
          BY <5>3, SubSeqProperties DEF Length
      <4>2. temp[i] \in Seq(Piece)
        BY <1>5 DEF AppendTorn, Finish, TypeOK
      <4>3. temp[i] \o SubSeq(req[p].body, 1, m) \in Seq(Piece)
        BY <4>1, <4>2, ConcatProperties
      <4>. QED
        BY <1>5, <4>3 DEF AppendTorn, Finish, TypeOK
    <3>3. /\ sess' = sess /\ objects' = objects /\ files' = files
         /\ disturbed' \subseteq Session
      BY <1>5 DEF AppendTorn, Finish, TypeOK, Actor, Request
    <3>. QED
      BY <3>1, <3>2, <3>3 DEF TypeOK
  <2>2. WorksOnMinted' /\ AppendFits' /\ InsertsStored'
    BY <1>5
       DEF AppendTorn, Finish, WorksOnMinted, TypeOK, Row, Request, Idle,
           Actor, AppendFits, Appends, InsertsStored
  <2>. QED
    BY <2>1, <2>2
<1>6. ASSUME NEW p \in Proc, AppendRecord(p)
      PROVE  TypeInv'
  <2> DEFINE i == req[p].sess
             new == req[p].offset + req[p].len
             next == [Idle EXCEPT !.pc = "fin.read", !.sess = i]
  <2>a. i \in Session /\ new \in Length /\ new <= sess[i].length
    <3>1. i \in Session /\ req[p].offset \in Nat /\ req[p].len \in Nat
      BY DEF TypeOK, Actor, Request, Length
    <3>2. new <= sess[i].length
      BY <1>6 DEF AppendRecord, AppendFits, Appends
    <3>3. sess[i].length \in Length
      BY <3>1 DEF TypeOK, Row
    <3>. QED
      BY <3>1, <3>2, <3>3 DEF Length
  <2>b. req' = [req EXCEPT ![p] = next] \/ req' = [req EXCEPT ![p] = Idle]
    BY <1>6 DEF AppendRecord, Finish
  <2>c. sess' = [sess EXCEPT ![i].offset = new] \/ sess' = sess
    BY <1>6 DEF AppendRecord
  <2>d. /\ next \in Request /\ next.pc = "fin.read" /\ next.sess = i
        /\ Idle.pc = "idle"
    BY <2>a DEF Request, Control, Idle
  <2>e. At(p, "append.record") /\ UNCHANGED <<temp, objects, files, disturbed>>
    BY <1>6 DEF AppendRecord
  <2>g. sess[i].state # "none" /\ sess[i].state # "created"
    BY <2>e DEF WorksOnMinted, Actor
  <2> HIDE DEF i, new, next
  <2>f. \A j \in Session : /\ sess'[j].state = sess[j].state
                           /\ sess'[j].length = sess[j].length
    BY <2>a, <2>c DEF TypeOK, Row
  <2>1. TypeOK'
    <3>1. /\ sess' \in [Session -> Row]
         /\ \A j \in Session : sess'[j].offset <= sess'[j].length
      <4>1. sess[i] \in Row
        BY <2>a DEF TypeOK
      <4> DEFINE r == [sess[i] EXCEPT !.offset = new]
      <4>2. r \in Row /\ r.offset <= r.length
        BY <2>a, <4>1 DEF Row
      <4>3. sess' = [sess EXCEPT ![i] = r] \/ sess' = sess
        BY <2>c
      <4> HIDE DEF r
      <4>. QED
        BY <2>a, <4>2, <4>3 DEF TypeOK
    <3>2. req' \in [Actor -> Request]
      BY <2>b, <2>d DEF TypeOK, Actor
    <3>3. /\ DOMAIN temp' \subseteq Session
         /\ temp' \in [DOMAIN temp' -> Seq(Piece)]
         /\ DOMAIN objects' \subseteq File /\ files' \subseteq DOMAIN objects'
         /\ objects' \in [DOMAIN objects' -> [from : Session, data : Seq(Piece)]]
         /\ disturbed' \subseteq Session
      BY <2>e DEF TypeOK
    <3>. QED
      BY <3>1, <3>2, <3>3 DEF TypeOK
  <2>h. \A q \in Actor : \/ /\ req'[q] = req[q] /\ req[q].sess \in Session
                         \/ /\ q = p /\ req'[q].pc \in {"idle", "fin.read"}
                            /\ req'[q].pc # "idle" => req'[q].sess = i
    BY <2>b, <2>d DEF TypeOK, Actor, Request
  <2>2. WorksOnMinted'
    BY <2>a, <2>f, <2>g, <2>h DEF WorksOnMinted
  <2>3. AppendFits'
    BY <2>f, <2>h DEF AppendFits, Actor, Appends
  <2>4. InsertsStored'
    BY <1>6, <2>a, <2>b, <2>c, <2>d, <2>e
       DEF InsertsStored, TypeOK, Actor, Row
  <2>. QED
    BY <2>1, <2>2, <2>3, <2>4
<1>7. ASSUME NEW p \in Proc, FinRead(p)
      PROVE  TypeInv'
  <2>1. TypeOK'
    <3> DEFINE r == [req[p] EXCEPT !.pc = "fin.meta", !.body = temp[req[p].sess]]
    <3>a. r \in Request
      BY <1>7 DEF FinRead, TypeOK, Actor, Request, Control
    <3>b. req' = [req EXCEPT ![p] = r]
      BY <1>7 DEF FinRead, TypeOK, Actor
    <3>c. UNCHANGED <<sess, temp, objects, files, disturbed>>
      BY <1>7 DEF FinRead
    <3> HIDE DEF r
    <3>. QED
      BY <3>a, <3>b, <3>c DEF TypeOK
  <2>2. WorksOnMinted' /\ AppendFits' /\ InsertsStored'
    BY <1>7
       DEF FinRead, TypeOK, Request, Actor, WorksOnMinted, AppendFits, Appends,
           InsertsStored
  <2>. QED
    BY <2>1, <2>2
<1>8. ASSUME NEW p \in Proc, FinMeta(p)
      PROVE  TypeInv'
  BY <1>8
     DEF FinMeta, Goto, TypeOK, Row, Request, Control, Length, Actor,
         WorksOnMinted, Idle, AppendFits, Appends, InsertsStored
<1>9. ASSUME NEW p \in Proc, NEW f \in File, FinPut(p, f)
      PROVE  TypeInv'
  <2>1. TypeOK'
    <3> DEFINE r == [req[p] EXCEPT !.pc = "fin.insert", !.file = f, !.body = <<>>]
    <3>a. r \in Request
      BY EmptySeq DEF TypeOK, Actor, Request, Control
    <3>b. req' = [req EXCEPT ![p] = r]
      BY <1>9 DEF FinPut, TypeOK, Actor
    <3> HIDE DEF r
    <3>1. req' \in [Actor -> Request]
      BY <3>a, <3>b DEF TypeOK
    <3>2. /\ DOMAIN objects' \subseteq File /\ files' \subseteq DOMAIN objects'
         /\ objects' \in [DOMAIN objects' -> [from : Session, data : Seq(Piece)]]
      BY <1>9 DEF FinPut, TypeOK, Actor, Request
    <3>3. sess' = sess /\ temp' = temp /\ disturbed' = disturbed
      BY <1>9 DEF FinPut
    <3>. QED
      BY <3>1, <3>2, <3>3 DEF TypeOK
  <2>2. WorksOnMinted' /\ AppendFits' /\ InsertsStored'
    BY <1>9
       DEF FinPut, WorksOnMinted, TypeOK, Row, Request, Idle, Actor,
           AppendFits, Appends, InsertsStored
  <2>. QED
    BY <2>1, <2>2
<1>10. ASSUME NEW p \in Proc, FinInsert(p)
      PROVE  TypeInv'
  <2>1. TypeOK'
    <3> DEFINE r == [req[p] EXCEPT !.pc = "fin.complete", !.file = NoFile]
    <3>a. r \in Request
      BY DEF TypeOK, Actor, Request, Control
    <3>b. req' = [req EXCEPT ![p] = r]
      BY <1>10 DEF FinInsert, TypeOK, Actor
    <3> HIDE DEF r
    <3>1. req' \in [Actor -> Request]
      BY <3>a, <3>b DEF TypeOK
    <3>2. /\ DOMAIN objects' \subseteq File /\ files' \subseteq DOMAIN objects'
         /\ objects' \in [DOMAIN objects' -> [from : Session, data : Seq(Piece)]]
      BY <1>10 DEF FinInsert, TypeOK, InsertsStored
    <3>3. sess' = sess /\ temp' = temp /\ disturbed' = disturbed
      BY <1>10 DEF FinInsert
    <3>. QED
      BY <3>1, <3>2, <3>3 DEF TypeOK
  <2>2. WorksOnMinted' /\ AppendFits' /\ InsertsStored'
    BY <1>10
       DEF FinInsert, WorksOnMinted, TypeOK, Row, Request, Idle, Actor,
           AppendFits, Appends, InsertsStored
  <2>. QED
    BY <2>1, <2>2
<1>11. ASSUME NEW p \in Proc, FinComplete(p)
      PROVE  TypeInv'
  <2>1. TypeOK'
    <3>1. /\ sess' \in [Session -> Row]
         /\ \A j \in Session : sess'[j].offset <= sess'[j].length
      <4>1. req[p].sess \in Session
        BY DEF TypeOK, Actor, Request
      <4>. QED
        BY <1>11, <4>1, RowStep DEF FinComplete, TypeOK
    <3>2. req' \in [Actor -> Request]
      BY <1>11 DEF FinComplete, Goto, TypeOK, Actor, Request, Control
    <3>3. /\ DOMAIN temp' \subseteq Session
         /\ temp' \in [DOMAIN temp' -> Seq(Piece)]
         /\ DOMAIN objects' \subseteq File /\ files' \subseteq DOMAIN objects'
         /\ objects' \in [DOMAIN objects' -> [from : Session, data : Seq(Piece)]]
         /\ disturbed' \subseteq Session
      BY <1>11 DEF FinComplete, Goto, TypeOK
    <3>. QED
      BY <3>1, <3>2, <3>3 DEF TypeOK
  <2>2. WorksOnMinted' /\ AppendFits' /\ InsertsStored'
    BY <1>11
       DEF FinComplete, Goto, Open, WorksOnMinted, TypeOK, Row, Request, Idle,
           Actor, AppendFits, Appends, InsertsStored
  <2>. QED
    BY <2>1, <2>2
<1>12. ASSUME NEW p \in Proc, FinUnlink(p)
      PROVE  TypeInv'
  BY <1>12
     DEF FinUnlink, Finish, Unlink, TypeOK, Row, Request, Control, Length,
         Actor, WorksOnMinted, Idle, AppendFits, Appends, InsertsStored
<1>13. ASSUME NEW p \in Proc, NEW i \in Session, Terminate(p, i)
      PROVE  TypeInv'
  BY <1>13
     DEF Terminate, Start, Open, TypeOK, Row, Request, Control, Length, Actor,
         WorksOnMinted, Idle, AppendFits, Appends, InsertsStored
<1>14. ASSUME NEW p \in Proc, TermDelete(p)
      PROVE  TypeInv'
  <2>1. TypeOK'
    <3>1. /\ sess' \in [Session -> Row]
         /\ \A j \in Session : sess'[j].offset <= sess'[j].length
      <4>1. req[p].sess \in Session
        BY DEF TypeOK, Actor, Request
      <4>. QED
        BY <1>14, <4>1, RowStep DEF TermDelete, TypeOK
    <3>2. req' \in [Actor -> Request]
      BY <1>14 DEF TermDelete, Goto, TypeOK, Actor, Request, Control
    <3>3. /\ DOMAIN temp' \subseteq Session
         /\ temp' \in [DOMAIN temp' -> Seq(Piece)]
         /\ DOMAIN objects' \subseteq File /\ files' \subseteq DOMAIN objects'
         /\ objects' \in [DOMAIN objects' -> [from : Session, data : Seq(Piece)]]
         /\ disturbed' \subseteq Session
      BY <1>14 DEF TermDelete, Goto, TypeOK
    <3>. QED
      BY <3>1, <3>2, <3>3 DEF TypeOK
  <2>2. WorksOnMinted' /\ AppendFits' /\ InsertsStored'
    BY <1>14
       DEF TermDelete, Goto, WorksOnMinted, TypeOK, Row, Request, Idle, Actor,
           AppendFits, Appends, InsertsStored
  <2>. QED
    BY <2>1, <2>2
<1>15. ASSUME NEW p \in Proc, TermUnlink(p)
      PROVE  TypeInv'
  BY <1>15
     DEF TermUnlink, Finish, Unlink, TypeOK, Row, Request, Control, Length,
         Actor, WorksOnMinted, Idle, AppendFits, Appends, InsertsStored
<1>16. ASSUME NEW w \in Worker, NEW i \in Session, ReapBegin(w, i)
      PROVE  TypeInv'
  BY <1>16
     DEF ReapBegin, Start, Reapable, Open, TypeOK, Row, Request, Control,
         Length, Actor, WorksOnMinted, Idle, AppendFits, Appends,
         InsertsStored
<1>17. ASSUME NEW w \in Worker, ReapUnlink(w)
      PROVE  TypeInv'
  BY <1>17
     DEF ReapUnlink, Goto, Unlink, TypeOK, Row, Request, Control, Length,
         Actor, WorksOnMinted, Idle, AppendFits, Appends, InsertsStored
<1>18. ASSUME NEW w \in Worker, ReapDelete(w)
      PROVE  TypeInv'
  <2>1. TypeOK'
    <3>1. /\ sess' \in [Session -> Row]
         /\ \A j \in Session : sess'[j].offset <= sess'[j].length
      <4>1. req[w].sess \in Session
        BY DEF TypeOK, Actor, Request
      <4>. QED
        BY <1>18, <4>1, RowStep DEF ReapDelete, TypeOK
    <3>2. req' \in [Actor -> Request]
      BY <1>18 DEF ReapDelete, Finish, TypeOK, Actor, Request, Control
    <3>3. /\ DOMAIN temp' \subseteq Session
         /\ temp' \in [DOMAIN temp' -> Seq(Piece)]
         /\ DOMAIN objects' \subseteq File /\ files' \subseteq DOMAIN objects'
         /\ objects' \in [DOMAIN objects' -> [from : Session, data : Seq(Piece)]]
         /\ disturbed' \subseteq Session
      BY <1>18 DEF ReapDelete, Finish, TypeOK
    <3>. QED
      BY <3>1, <3>2, <3>3 DEF TypeOK
  <2>2. WorksOnMinted' /\ AppendFits' /\ InsertsStored'
    BY <1>18
       DEF ReapDelete, Finish, WorksOnMinted, TypeOK, Row, Request, Idle,
           Actor, AppendFits, Appends, InsertsStored
  <2>. QED
    BY <2>1, <2>2
<1>19. ASSUME NEW p \in Actor, Fail(p)
      PROVE  TypeInv'
  BY <1>19
     DEF Fail, Finish, TypeOK, Row, Request, Control, Length, Actor,
         WorksOnMinted, Idle, AppendFits, Appends, InsertsStored
<1>20. ASSUME NEW i \in Session, ExpiresAt(i)
      PROVE  TypeInv'
  <2>1. TypeOK'
    <3>1. /\ sess' \in [Session -> Row]
         /\ \A j \in Session : sess'[j].offset <= sess'[j].length
      BY <1>20, RowStep DEF ExpiresAt
    <3>2. req' \in [Actor -> Request]
      BY <1>20 DEF ExpiresAt, TypeOK, Actor, Request, Control
    <3>3. /\ DOMAIN temp' \subseteq Session
         /\ temp' \in [DOMAIN temp' -> Seq(Piece)]
         /\ DOMAIN objects' \subseteq File /\ files' \subseteq DOMAIN objects'
         /\ objects' \in [DOMAIN objects' -> [from : Session, data : Seq(Piece)]]
         /\ disturbed' \subseteq Session
      BY <1>20 DEF ExpiresAt, TypeOK
    <3>. QED
      BY <3>1, <3>2, <3>3 DEF TypeOK
  <2>2. WorksOnMinted' /\ AppendFits' /\ InsertsStored'
    BY <1>20
       DEF ExpiresAt, Open, WorksOnMinted, TypeOK, Row, Request, Idle, Actor,
           AppendFits, Appends, InsertsStored
  <2>. QED
    BY <2>1, <2>2
<1>21. CASE UNCHANGED vars
  BY <1>21 DEF vars, TypeOK, WorksOnMinted, AppendFits, InsertsStored
<1>. QED
  BY <1>1, <1>2, <1>3, <1>4, <1>5, <1>6, <1>7, <1>8, <1>9, <1>10, <1>11,
     <1>12, <1>13, <1>14, <1>15, <1>16, <1>17, <1>18, <1>19, <1>20, <1>21
     DEF Next, Patch, Finalise, Reap

-----------------------------------------------------------------------------
(* Offsets and published lengths.  The length a row was created with never   *)
(* changes, so a request may rely on what it saw of temp and offset as long  *)
(* as the temp file exists: nothing shortens one.                            *)

NewAtZero == \A i \in Session : sess[i].state = "none" => sess[i].offset = 0

TempBacksRow == \A i \in DOMAIN temp : Len(temp[i]) >= sess[i].offset

\* What a PATCH read, has appended or has seen complete is in the temp file.
TempBacksPatch ==
    \A p \in Proc : LET i == req[p].sess IN i \in DOMAIN temp =>
        /\ At(p, "append.write")  => Len(temp[i]) >= req[p].offset
        /\ At(p, "append.record") => Len(temp[i]) >= req[p].offset + req[p].len
        /\ At(p, "fin.read")      => Len(temp[i]) >= sess[i].length

BodyIsWhole ==
    \A p \in Proc : req[p].pc \in {"fin.meta", "fin.put"} =>
        Len(req[p].body) >= sess[req[p].sess].length

\* Objects come from minted sessions and hold all their bytes.
StoredIsWhole ==
    \A f \in DOMAIN objects : LET i == objects[f].from IN
        sess[i].state # "none" /\ Len(objects[f].data) >= sess[i].length

WholeInv ==
    /\ TypeInv
    /\ NewAtZero
    /\ TempBacksRow
    /\ TempBacksPatch
    /\ BodyIsWhole
    /\ StoredIsWhole

\* What a PATCH has still to write is a chunk of the length it asked for.
LEMMA PendingChunk ==
    ASSUME TypeInv, NEW p \in Proc, At(p, "append.write")
    PROVE  /\ req[p].sess \in Session
           /\ req[p].offset \in Nat /\ req[p].len \in Nat
           /\ req[p].offset + req[p].len <= MaxLength
           /\ req[p].body = Chunk(req[p].offset, req[p].len)
           /\ req[p].body \in Seq(Piece) /\ Len(req[p].body) = req[p].len
<1>1. /\ req[p].sess \in Session
      /\ req[p].offset \in Nat /\ req[p].len \in Nat
  BY TusConstants DEF TypeInv, TypeOK, Actor, Request, Length
<1>2. sess[req[p].sess].length \in Nat /\ sess[req[p].sess].length <= MaxLength
  BY <1>1, TusConstants DEF TypeInv, TypeOK, Row, Length
<1>3. /\ req[p].offset + req[p].len <= sess[req[p].sess].length
      /\ req[p].body = Chunk(req[p].offset, req[p].len)
  BY DEF TypeInv, AppendFits, Appends, At
<1>4. req[p].offset + req[p].len <= MaxLength
  BY <1>1, <1>2, <1>3, TusConstants
<1>5. req[p].body \in Seq(Piece) /\ Len(req[p].body) = req[p].len
  BY <1>1, <1>3, <1>4, ChunkType
<1>. QED
  BY <1>1, <1>3, <1>4, <1>5

\* Lengths of sequences of pieces are numbers, and add up under append.
LEMMA AppendLength ==
    ASSUME NEW s \in Seq(Piece), NEW t \in Seq(Piece)
    PROVE  Len(s) \in Nat /\ Len(t) \in Nat /\ Len(s \o t) = Len(s) + Len(t)
BY ConcatProperties, LenProperties

\* A write that succeeds lengthens one temp file by the whole chunk.
LEMMA WriteGrows ==
    ASSUME TypeInv, NEW p \in Proc, AppendWrite(p)
    PROVE  /\ DOMAIN temp' = DOMAIN temp
           /\ \A i \in DOMAIN temp : Len(temp[i]) \in Nat /\ Len(temp'[i]) =
                IF i = req[p].sess THEN Len(temp[i]) + req[p].len ELSE Len(temp[i])
<1> DEFINE t == req[p].body
<1>1. /\ req[p].sess \in DOMAIN temp /\ temp \in [DOMAIN temp -> Seq(Piece)]
      /\ temp' = [temp EXCEPT ![req[p].sess] = @ \o t]
  BY DEF AppendWrite, TypeInv, TypeOK
<1>2. t \in Seq(Piece) /\ Len(t) = req[p].len
  BY PendingChunk DEF AppendWrite
<1>3. ASSUME NEW i \in DOMAIN temp
      PROVE  Len(temp[i]) \in Nat /\ Len(temp[i] \o t) = Len(temp[i]) + req[p].len
  BY <1>1, <1>2, AppendLength
<1> HIDE DEF t
<1>. QED
  BY <1>1, <1>3

\* A write that stops half-way lengthens it too.
LEMMA TornGrows ==
    ASSUME TypeInv, NEW p \in Proc, NEW m \in Length, AppendTorn(p, m)
    PROVE  /\ DOMAIN temp' = DOMAIN temp
           /\ \A i \in DOMAIN temp : /\ Len(temp[i]) \in Nat /\ Len(temp'[i]) \in Nat
                                     /\ Len(temp'[i]) >= Len(temp[i])
<1> DEFINE t == SubSeq(req[p].body, 1, m)
<1>1. /\ req[p].sess \in DOMAIN temp /\ temp \in [DOMAIN temp -> Seq(Piece)]
      /\ temp' = [temp EXCEPT ![req[p].sess] = @ \o t]
  BY DEF AppendTorn, TypeInv, TypeOK
<1>2. t \in Seq(Piece)
  <2>1. m \in Int /\ \A k \in 1..m : k \in 1..req[p].len
    BY PendingChunk, TusConstants DEF AppendTorn, Length
  <2>2. \A k \in 1..m : req[p].body[k] \in Piece
    BY <2>1, PendingChunk, ElementOfSeq DEF AppendTorn
  <2>. QED
    BY <2>1, <2>2, SubSeqProperties
<1>3. ASSUME NEW i \in DOMAIN temp
      PROVE  /\ Len(temp[i]) \in Nat /\ Len(temp[i] \o t) \in Nat
             /\ Len(temp[i] \o t) >= Len(temp[i])
  <2>1. Len(temp[i]) \in Nat /\ Len(t) \in Nat /\ Len(temp[i] \o t) = Len(temp[i]) + Len(t)
    BY <1>1, <1>2, AppendLength
  <2> HIDE DEF t
  <2>. QED
    BY <2>1
<1> HIDE DEF t
<1>. QED
  BY <1>1, <1>3

\* A step that leaves the files and what the rows count alone, and moves
\* requests only to where nothing is claimed of them.
LEMMA WholeFrame ==
    ASSUME WholeInv, TypeInv', UNCHANGED <<temp, objects>>,
           \A j \in Session : /\ sess'[j].offset = sess[j].offset
                              /\ sess'[j].length = sess[j].length
                              /\ sess'[j].state = "none" <=> sess[j].state = "none",
           \A q \in Proc : \/ req'[q] = req[q]
                           \/ req'[q].pc \in {"fin.unlink", "term.unlink", "idle"}
    PROVE  WholeInv'
<1> USE DEF WholeInv, At
<1>1. NewAtZero' /\ TempBacksRow'
  BY DEF NewAtZero, TempBacksRow, TypeInv, TypeOK
<1>2. StoredIsWhole'
  BY DEF StoredIsWhole, TypeInv, TypeOK
<1>3. \A q \in Proc : req[q].sess \in Session
  BY DEF TypeInv, TypeOK, Actor, Request
<1>4. TempBacksPatch'
  BY <1>3 DEF TempBacksPatch
<1>5. BodyIsWhole'
  BY <1>3 DEF BodyIsWhole
<1>. QED
  BY <1>1, <1>2, <1>4, <1>5

\* No step leaves an offset, a body or an object short of its bytes.
LEMMA WholeStep == WholeInv /\ [Next]_vars => WholeInv'
<1> SUFFICES ASSUME WholeInv, [Next]_vars
             PROVE  WholeInv'
  OBVIOUS
<1> USE TusConstants, PlaceholderTypes DEF WholeInv, At
<1>t. TypeInv'
  BY TypeStep
<1>1. ASSUME NEW p \in Proc, NEW i \in Session, NEW n \in Length, Create(p, i, n)
      PROVE  WholeInv'
  <2>1. NewAtZero' /\ TempBacksRow'
    BY <1>1
       DEF Create, Start, TypeInv, NewAtZero, WorksOnMinted, TypeOK, Row,
           Request, Actor, TempBacksRow, TempBacksPatch
  <2>2. TempBacksPatch'
    BY <1>1
       DEF Create, Start, TypeInv, TempBacksRow, TempBacksPatch,
           WorksOnMinted, TypeOK, Row, Request, Actor, Idle
  <2>3. BodyIsWhole' /\ StoredIsWhole'
    BY <1>1
       DEF Create, Start, TypeInv, BodyIsWhole, TempBacksPatch, WorksOnMinted,
           TypeOK, Request, Row, Actor, Idle, StoredIsWhole
  <2>. QED
    BY <1>t, <2>1, <2>2, <2>3
<1>2. ASSUME NEW p \in Proc, CreateInsert(p)
      PROVE  WholeInv'
  <2>0. sess[req[p].sess].state # "none"
    BY <1>2 DEF CreateInsert, TypeInv, WorksOnMinted, Actor
  <2>1. \A j \in Session : /\ sess'[j].offset = sess[j].offset
                           /\ sess'[j].length = sess[j].length
                           /\ sess'[j].state = "none" <=> sess[j].state = "none"
    BY <1>2, <2>0 DEF CreateInsert, TypeInv, TypeOK, Row
  <2>2. /\ UNCHANGED <<temp, objects>>
        /\ \A q \in Proc : req'[q] = req[q] \/ req'[q].pc = "idle"
    BY <1>2 DEF CreateInsert, Finish, Idle, TypeInv, TypeOK, Actor, Request
  <2>. QED
    BY <1>t, <2>1, <2>2, WholeFrame
<1>3. ASSUME NEW p \in Proc, NEW i \in Session, NEW o \in Length, NEW n \in Length,
             AppendBegin(p, i, o, n)
      PROVE  WholeInv'
  BY <1>t, <1>3
     DEF AppendBegin, Start, Open, Accepts, TypeInv, NewAtZero, WorksOnMinted,
         TypeOK, Row, Request, Actor, TempBacksRow, TempBacksPatch, Idle,
         BodyIsWhole, StoredIsWhole
<1>4. ASSUME NEW p \in Proc, AppendWrite(p)
      PROVE  WholeInv'
  <2>a. /\ sess' = sess
        /\ DOMAIN temp' = DOMAIN temp
        /\ \A i \in DOMAIN temp : /\ Len(temp[i]) \in Nat
                                   /\ Len(temp'[i]) = IF i = req[p].sess
                                       THEN Len(temp[i]) + req[p].len ELSE Len(temp[i])
    BY <1>4, WriteGrows DEF AppendWrite
  <2>b. /\ req' = [req EXCEPT ![p].pc = "append.record", ![p].body = <<>>]
        /\ At(p, "append.write") /\ req[p].offset \in Nat /\ req[p].len \in Nat
        /\ req \in [Actor -> Request]
    BY <1>4, PendingChunk DEF AppendWrite, TypeInv, TypeOK
  <2>1. NewAtZero' /\ BodyIsWhole' /\ StoredIsWhole'
    BY <1>4
       DEF AppendWrite, TypeInv, NewAtZero, WorksOnMinted, TypeOK, Row,
           Request, Actor, BodyIsWhole, TempBacksPatch, Idle, StoredIsWhole
  <2>2. TempBacksRow'
    <3>1. sess' = sess /\ \A i \in DOMAIN temp : sess[i].offset \in Nat
      BY <1>4 DEF AppendWrite, TypeInv, TypeOK, Row, Length
    <3>2. \A i \in DOMAIN temp : Len(temp'[i]) \in Nat /\ Len(temp'[i]) >= Len(temp[i])
      BY <2>a, <2>b
    <3>. QED
      BY <2>a, <3>1, <3>2 DEF TempBacksRow
  <2>3. TempBacksPatch'
    <3> SUFFICES ASSUME NEW q \in Proc, req'[q].sess \in DOMAIN temp'
                 PROVE  LET i == req'[q].sess IN
                        /\ req'[q].pc = "append.write"  => Len(temp'[i]) >= req'[q].offset
                        /\ req'[q].pc = "append.record" =>
                             Len(temp'[i]) >= req'[q].offset + req'[q].len
                        /\ req'[q].pc = "fin.read"      => Len(temp'[i]) >= sess'[i].length
      BY DEF TempBacksPatch
    <3>1. CASE q = p
      BY <2>a, <2>b, <3>1 DEF TempBacksPatch, Request, Actor
    <3>2. CASE q # p
      <4>1. req'[q] = req[q] /\ req[q].offset \in Nat /\ req[q].len \in Nat
        BY <2>b, <3>2 DEF Request, Actor, Length
      <4>2. req[q].sess \in DOMAIN temp /\ sess[req[q].sess].length \in Nat
        BY <2>a, <4>1 DEF TypeInv, TypeOK, Row, Length
      <4>3. /\ Len(temp[req[q].sess]) \in Nat /\ Len(temp'[req[q].sess]) \in Nat
            /\ Len(temp'[req[q].sess]) >= Len(temp[req[q].sess])
        BY <2>a, <2>b, <4>2
      <4>. QED
        BY <2>a, <4>1, <4>2, <4>3 DEF TempBacksPatch
    <3>. QED
      BY <3>1, <3>2
  <2>. QED
    BY <1>t, <2>1, <2>2, <2>3
<1>5. ASSUME NEW p \in Proc, NEW m \in Length, AppendTorn(p, m)
      PROVE  WholeInv'
  <2>a. /\ sess' = sess
        /\ DOMAIN temp' = DOMAIN temp
        /\ \A i \in DOMAIN temp : /\ Len(temp[i]) \in Nat /\ Len(temp'[i]) \in Nat
                                   /\ Len(temp'[i]) >= Len(temp[i])
    BY <1>5, TornGrows DEF AppendTorn
  <2>b. req' = [req EXCEPT ![p] = Idle] /\ req \in [Actor -> Request]
    BY <1>5 DEF AppendTorn, Finish, TypeInv, TypeOK
  <2>1. NewAtZero' /\ BodyIsWhole' /\ StoredIsWhole'
    BY <1>5
       DEF AppendTorn, Finish, TypeInv, NewAtZero, WorksOnMinted, TypeOK, Row,
           Request, Actor, BodyIsWhole, TempBacksPatch, Idle, StoredIsWhole
  <2>2. TempBacksRow'
    BY <1>5, <2>a DEF TempBacksRow, TypeInv, TypeOK, Row, Length
  <2>3. TempBacksPatch'
    <3> SUFFICES ASSUME NEW q \in Proc, req'[q].sess \in DOMAIN temp'
                 PROVE  LET i == req'[q].sess IN
                        /\ req'[q].pc = "append.write"  => Len(temp'[i]) >= req'[q].offset
                        /\ req'[q].pc = "append.record" =>
                             Len(temp'[i]) >= req'[q].offset + req'[q].len
                        /\ req'[q].pc = "fin.read"      => Len(temp'[i]) >= sess'[i].length
      BY DEF TempBacksPatch
    <3>1. CASE q = p
      BY <2>b, <3>1 DEF Idle, Actor
    <3>2. CASE q # p
      <4>1. req'[q] = req[q] /\ req[q].offset \in Nat /\ req[q].len \in Nat
        BY <2>b, <3>2 DEF Request, Actor, Length
      <4>2. sess[req[q].sess].length \in Nat
        BY <2>a, <4>1 DEF TypeInv, TypeOK, Row, Length
      <4>. QED
        BY <2>a, <4>1, <4>2 DEF TempBacksPatch
    <3>. QED
      BY <3>1, <3>2
  <2>. QED
    BY <1>t, <2>1, <2>2, <2>3
<1>6. ASSUME NEW p \in Proc, AppendRecord(p)
      PROVE  WholeInv'
  <2> DEFINE i == req[p].sess
             new == req[p].offset + req[p].len
             next == [Idle EXCEPT !.pc = "fin.read", !.sess = i]
  <2>a. /\ req \in [Actor -> Request]
        /\ \/ req' = [req EXCEPT ![p] = Idle]
           \/ /\ new = sess[i].length
              /\ req' = [req EXCEPT ![p] = next]
    BY <1>6 DEF AppendRecord, Finish, Reached, TypeInv, TypeOK
  <2>b. \A j \in Session : sess'[j].length = sess[j].length /\ sess'[j].state = sess[j].state
    BY <1>6 DEF AppendRecord, TypeInv, TypeOK, Row
  <2>c. /\ UNCHANGED <<temp, objects, files, disturbed>>
        /\ i \in DOMAIN temp => Len(temp[i]) >= new
    BY <1>6 DEF AppendRecord, TempBacksPatch
  <2>d. /\ i \in Session /\ req[p].offset \in Nat /\ req[p].len \in Nat
        /\ DOMAIN temp \subseteq Session
    BY DEF TypeInv, TypeOK, Actor, Request, Length
  <2>e. next.pc = "fin.read" /\ next.sess = i /\ Idle.pc = "idle"
    BY DEF Idle
  <2> HIDE DEF i, new, next
  <2>1. NewAtZero' /\ TempBacksRow' /\ StoredIsWhole'
    BY <1>6
       DEF AppendRecord, Finish, Reached, Open, TypeInv, NewAtZero,
           WorksOnMinted, TypeOK, Row, Request, Actor, TempBacksRow,
           TempBacksPatch, StoredIsWhole, BodyIsWhole
  <2>2. TempBacksPatch'
    <3> SUFFICES ASSUME NEW q \in Proc, req'[q].sess \in DOMAIN temp'
                 PROVE  LET k == req'[q].sess IN
                        /\ req'[q].pc = "append.write"  => Len(temp'[k]) >= req'[q].offset
                        /\ req'[q].pc = "append.record" =>
                             Len(temp'[k]) >= req'[q].offset + req'[q].len
                        /\ req'[q].pc = "fin.read"      => Len(temp'[k]) >= sess'[k].length
      BY DEF TempBacksPatch
    <3>1. CASE q = p
      BY <2>a, <2>b, <2>c, <2>d, <2>e, <3>1 DEF Actor
    <3>2. CASE q # p
      <4>1. req'[q] = req[q] /\ req[q].sess \in DOMAIN temp
        BY <2>a, <2>c, <3>2 DEF Actor
      <4>. QED
        BY <2>b, <2>c, <2>d, <4>1 DEF TempBacksPatch
    <3>. QED
      BY <3>1, <3>2
  <2>3. BodyIsWhole'
    <3> SUFFICES ASSUME NEW q \in Proc, req'[q].pc \in {"fin.meta", "fin.put"}
                 PROVE  Len(req'[q].body) >= sess'[req'[q].sess].length
      BY DEF BodyIsWhole
    <3>1. q # p
      BY <2>a, <2>e DEF Actor
    <3>2. req'[q] = req[q] /\ req[q].sess \in Session
      BY <2>a, <3>1 DEF Actor, Request
    <3>. QED
      BY <2>b, <3>2 DEF BodyIsWhole
  <2>. QED
    BY <1>t, <2>1, <2>2, <2>3
<1>7. ASSUME NEW p \in Proc, FinRead(p)
      PROVE  WholeInv'
  BY <1>t, <1>7
     DEF FinRead, TypeInv, NewAtZero, WorksOnMinted, TypeOK, Row, Request,
         Actor, TempBacksRow, TempBacksPatch, Idle, BodyIsWhole, StoredIsWhole
<1>8. ASSUME NEW p \in Proc, FinMeta(p)
      PROVE  WholeInv'
  BY <1>t, <1>8
     DEF FinMeta, Goto, TypeInv, NewAtZero, WorksOnMinted, TypeOK, Row,
         Request, Actor, TempBacksRow, TempBacksPatch, Idle, BodyIsWhole,
         StoredIsWhole
<1>9. ASSUME NEW p \in Proc, NEW f \in File, FinPut(p, f)
      PROVE  WholeInv'
  <2>1. NewAtZero' /\ TempBacksRow' /\ TempBacksPatch' /\ BodyIsWhole'
    BY <1>9
       DEF FinPut, TypeInv, NewAtZero, TypeOK, Request, Actor, TempBacksRow,
           TempBacksPatch, BodyIsWhole
  <2>2. StoredIsWhole'
    BY <1>9
       DEF FinPut, TypeInv, TypeOK, Actor, WorksOnMinted, BodyIsWhole,
           StoredIsWhole
  <2>. QED
    BY <1>t, <2>1, <2>2
<1>10. ASSUME NEW p \in Proc, FinInsert(p)
      PROVE  WholeInv'
  BY <1>t, <1>10
     DEF FinInsert, TypeInv, NewAtZero, WorksOnMinted, TypeOK, Row, Request,
         Actor, TempBacksRow, TempBacksPatch, Idle, BodyIsWhole, StoredIsWhole
<1>11. ASSUME NEW p \in Proc, FinComplete(p)
      PROVE  WholeInv'
  <2>1. \A j \in Session : /\ sess'[j].offset = sess[j].offset
                           /\ sess'[j].length = sess[j].length
                           /\ sess'[j].state = "none" <=> sess[j].state = "none"
    BY <1>11 DEF FinComplete, TypeInv, TypeOK, Row
  <2>2. /\ UNCHANGED <<temp, objects>>
        /\ \A q \in Proc : req'[q] = req[q] \/ req'[q].pc = "fin.unlink"
    BY <1>11 DEF FinComplete, Goto, TypeInv, TypeOK, Actor, Request
  <2>. QED
    BY <1>t, <2>1, <2>2, WholeFrame
<1>12. ASSUME NEW p \in Proc, FinUnlink(p)
      PROVE  WholeInv'
  BY <1>t, <1>12
     DEF FinUnlink, Finish, Unlink, TypeInv, NewAtZero, WorksOnMinted, TypeOK,
         Row, Request, Actor, TempBacksRow, TempBacksPatch, Idle, BodyIsWhole,
         StoredIsWhole
<1>13. ASSUME NEW p \in Proc, NEW i \in Session, Terminate(p, i)
      PROVE  WholeInv'
  BY <1>t, <1>13
     DEF Terminate, Start, Open, TypeInv, NewAtZero, WorksOnMinted, TypeOK,
         Row, Request, Actor, TempBacksRow, TempBacksPatch, Idle, BodyIsWhole,
         StoredIsWhole
<1>14. ASSUME NEW p \in Proc, TermDelete(p)
      PROVE  WholeInv'
  <2>0. sess[req[p].sess].state # "none"
    BY <1>14 DEF TermDelete, TypeInv, WorksOnMinted, Actor
  <2>1. \A j \in Session : /\ sess'[j].offset = sess[j].offset
                           /\ sess'[j].length = sess[j].length
                           /\ sess'[j].state = "none" <=> sess[j].state = "none"
    BY <1>14, <2>0 DEF TermDelete, TypeInv, TypeOK, Row
  <2>2. /\ UNCHANGED <<temp, objects>>
        /\ \A q \in Proc : req'[q] = req[q] \/ req'[q].pc = "term.unlink"
    BY <1>14 DEF TermDelete, Goto, TypeInv, TypeOK, Actor, Request
  <2>. QED
    BY <1>t, <2>1, <2>2, WholeFrame
<1>15. ASSUME NEW p \in Proc, TermUnlink(p)
      PROVE  WholeInv'
  BY <1>t, <1>15
     DEF TermUnlink, Finish, Unlink, TypeInv, NewAtZero, WorksOnMinted,
         TypeOK, Row, Request, Actor, TempBacksRow, TempBacksPatch, Idle,
         BodyIsWhole, StoredIsWhole
<1>16. ASSUME NEW w \in Worker, NEW i \in Session, ReapBegin(w, i)
      PROVE  WholeInv'
  BY <1>t, <1>16
     DEF ReapBegin, Start, Reapable, Open, TypeInv, NewAtZero, WorksOnMinted,
         TypeOK, Row, Request, Actor, TempBacksRow, TempBacksPatch, Idle,
         BodyIsWhole, StoredIsWhole
<1>17. ASSUME NEW w \in Worker, ReapUnlink(w)
      PROVE  WholeInv'
  BY <1>t, <1>17
     DEF ReapUnlink, Goto, Unlink, TypeInv, NewAtZero, WorksOnMinted, TypeOK,
         Row, Request, Actor, TempBacksRow, TempBacksPatch, Idle, BodyIsWhole,
         StoredIsWhole
<1>18. ASSUME NEW w \in Worker, ReapDelete(w)
      PROVE  WholeInv'
  <2>0. sess[req[w].sess].state # "none"
    BY <1>18 DEF ReapDelete, TypeInv, WorksOnMinted, Actor
  <2>1. \A j \in Session : /\ sess'[j].offset = sess[j].offset
                           /\ sess'[j].length = sess[j].length
                           /\ sess'[j].state = "none" <=> sess[j].state = "none"
    BY <1>18, <2>0 DEF ReapDelete, TypeInv, TypeOK, Row
  <2>2. /\ UNCHANGED <<temp, objects>>
        /\ \A q \in Proc : req'[q] = req[q] \/ req'[q].pc = "idle"
    BY <1>18 DEF ReapDelete, Finish, Idle, TypeInv, TypeOK, Actor, Request
  <2>. QED
    BY <1>t, <2>1, <2>2, WholeFrame
<1>19. ASSUME NEW p \in Actor, Fail(p)
      PROVE  WholeInv'
  BY <1>t, <1>19
     DEF Fail, Finish, TypeInv, NewAtZero, WorksOnMinted, TypeOK, Row,
         Request, Actor, TempBacksRow, TempBacksPatch, Idle, BodyIsWhole,
         StoredIsWhole
<1>20. ASSUME NEW i \in Session, ExpiresAt(i)
      PROVE  WholeInv'
  BY <1>t, <1>20
     DEF ExpiresAt, Open, TypeInv, NewAtZero, WorksOnMinted, TypeOK, Row,
         Request, Actor, TempBacksRow, TempBacksPatch, Idle, BodyIsWhole,
         StoredIsWhole
<1>21. CASE UNCHANGED vars
  BY <1>t, <1>21
     DEF vars, NewAtZero, TempBacksRow, TempBacksPatch, BodyIsWhole,
         StoredIsWhole
<1>. QED
  BY <1>1, <1>2, <1>3, <1>4, <1>5, <1>6, <1>7, <1>8, <1>9, <1>10, <1>11,
     <1>12, <1>13, <1>14, <1>15, <1>16, <1>17, <1>18, <1>19, <1>20, <1>21
     DEF Next, Patch, Finalise, Reap

-----------------------------------------------------------------------------
(* Exactness.  In a session that is not disturbed one PATCH appends at a     *)
(* time, at the row's offset, and the temp file is the part of the client's *)
(* file that the row, or that PATCH, accounts for.                           *)

\* An id is minted by one handler, which finds it as it left it.
CreatesAlone ==
    \A p \in Proc : At(p, "create.insert") =>
        /\ sess[req[p].sess].state = "created"
        /\ \A q \in Proc \ {p} : At(q, "create.insert") => req[q].sess # req[p].sess

OneAppender ==
    \A p, q \in Proc : p # q /\ req[p].pc \in Appends /\ req[q].pc \in Appends
                       /\ req[p].sess = req[q].sess => req[p].sess \in disturbed

AppendsAtOffset ==
    \A p \in Proc : req[p].pc \in Appends /\ req[p].sess \notin disturbed
                    /\ Open(req[p].sess) => sess[req[p].sess].offset = req[p].offset

AtRest(i) == \A p \in Proc : req[p].pc \in Appends => req[p].sess # i

RestingIsExact ==
    \A i \in DOMAIN temp \ disturbed :
        sess[i].state \in {"created", "open"} /\ AtRest(i) =>
            temp[i] = Source(sess[i].offset)

PatchIsExact ==
    \A p \in Proc : LET i == req[p].sess IN i \in DOMAIN temp \ disturbed =>
        /\ At(p, "append.write")  => temp[i] = Source(req[p].offset)
        /\ At(p, "append.record") => temp[i] = Source(req[p].offset + req[p].len)
        /\ At(p, "fin.read")      => temp[i] = Source(sess[i].length)

BodyIsExact ==
    \A p \in Proc : LET i == req[p].sess IN
        req[p].pc \in {"fin.meta", "fin.put"} /\ i \notin disturbed =>
            req[p].body = Source(sess[i].length)

StoredIsExact ==
    \A f \in DOMAIN objects : LET i == objects[f].from IN
        i \notin disturbed => objects[f].data = Source(sess[i].length)

ExactInv ==
    /\ CreatesAlone
    /\ OneAppender
    /\ AppendsAtOffset
    /\ RestingIsExact
    /\ PatchIsExact
    /\ BodyIsExact
    /\ StoredIsExact

\* A session at rest stays exact when a step neither rewrites its temp file nor
\* its offset, and ends none of its PATCHes.
LEMMA RestingFrame ==
    ASSUME RestingIsExact,
           \A i \in DOMAIN temp' \ disturbed' :
               /\ i \in DOMAIN temp \ disturbed /\ temp'[i] = temp[i]
               /\ sess'[i].offset = sess[i].offset
               /\ sess'[i].state \in {"created", "open"} =>
                    sess[i].state \in {"created", "open"},
           \A q \in Proc : req[q].pc \in Appends =>
               req'[q].pc \in Appends /\ req'[q].sess = req[q].sess
    PROVE  RestingIsExact'
BY DEF RestingIsExact, AtRest

\* No step of an undisturbed session departs from the client's file.
LEMMA ExactStep == WholeInv /\ ExactInv /\ [Next]_vars => ExactInv'
<1> SUFFICES ASSUME WholeInv, ExactInv, [Next]_vars
             PROVE  ExactInv'
  OBVIOUS
<1> USE TusConstants, PlaceholderTypes DEF WholeInv, TypeInv, ExactInv, At
<1>1. ASSUME NEW p \in Proc, NEW i \in Session, NEW n \in Length, Create(p, i, n)
      PROVE  ExactInv'
  <2>1. CreatesAlone' /\ OneAppender' /\ AppendsAtOffset'
    BY <1>1
       DEF Create, Start, CreatesAlone, WorksOnMinted, TypeOK, Row, Request,
           Actor, Idle, OneAppender, Appends, AppendsAtOffset, Open
  <2>2. PatchIsExact' /\ BodyIsExact' /\ StoredIsExact'
    BY <1>1
       DEF Create, Start, PatchIsExact, RestingIsExact, AtRest, TypeOK, Row,
           Request, Actor, Idle, WorksOnMinted, BodyIsExact, StoredIsExact,
           StoredIsWhole
  <2>3. RestingIsExact'
    <3> SUFFICES ASSUME NEW j \in DOMAIN temp' \ disturbed',
                        sess'[j].state \in {"created", "open"}, AtRest(j)'
                 PROVE  temp'[j] = Source(sess'[j].offset)
      BY DEF RestingIsExact
    <3>1. CASE j = i
      <4>1. sess'[i].offset = 0 /\ temp'[i] = <<>>
        BY <1>1 DEF Create, NewAtZero, TypeOK, Row
      <4>. QED
        BY <3>1, <4>1 DEF Source
    <3>2. CASE j # i
      BY <1>1, <3>2 DEF Create, Start, RestingIsExact, AtRest, TypeOK, Actor, Appends
    <3>. QED
      BY <3>1, <3>2
  <2>. QED
    BY <2>1, <2>2, <2>3
<1>2. ASSUME NEW p \in Proc, CreateInsert(p)
      PROVE  ExactInv'
  <2>1. /\ CreatesAlone' /\ OneAppender' /\ PatchIsExact' /\ BodyIsExact'
        /\ StoredIsExact'
    BY <1>2
       DEF CreateInsert, Finish, CreatesAlone, WorksOnMinted, TypeOK, Row,
           Request, Actor, Idle, OneAppender, Appends, PatchIsExact,
           RestingIsExact, AtRest, BodyIsExact, StoredIsExact, StoredIsWhole
  <2>2. AppendsAtOffset'
    <3> SUFFICES ASSUME NEW q \in Proc, req'[q].pc \in Appends,
                        req'[q].sess \notin disturbed', sess'[req'[q].sess].state = "open"
                 PROVE  sess'[req'[q].sess].offset = req'[q].offset
      BY DEF AppendsAtOffset, Open
    <3>1. q # p
      BY <1>2 DEF CreateInsert, Finish, TypeOK, Actor, Idle, Appends
    <3>2. req'[q] = req[q] /\ disturbed' = disturbed
      BY <1>2, <3>1 DEF CreateInsert, Finish, TypeOK, Actor
    <3>3. req[q].sess # req[p].sess
      BY <1>2, <3>2 DEF CreateInsert, CreatesAlone, WorksOnMinted, Actor, Appends
    <3>. QED
      BY <1>2, <3>2, <3>3 DEF CreateInsert, AppendsAtOffset, TypeOK, Open
  <2>3. RestingIsExact'
    <3>1. \A i \in DOMAIN temp' \ disturbed' :
             /\ i \in DOMAIN temp \ disturbed /\ temp'[i] = temp[i]
             /\ sess'[i].offset = sess[i].offset
             /\ sess'[i].state \in {"created", "open"} =>
                  sess[i].state \in {"created", "open"}
      BY <1>2 DEF CreateInsert, Finish, TypeOK, Actor, CreatesAlone, Request, Row
    <3>2. \A q \in Proc : req[q].pc \in Appends =>
             req'[q].pc \in Appends /\ req'[q].sess = req[q].sess
      BY <1>2 DEF CreateInsert, Finish, TypeOK, Actor, Appends
    <3>. QED
      BY <3>1, <3>2, RestingFrame
  <2>. QED
    BY <2>1, <2>2, <2>3
<1>3. ASSUME NEW p \in Proc, NEW i \in Session, NEW o \in Length, NEW n \in Length,
             AppendBegin(p, i, o, n)
      PROVE  ExactInv'
  <2> DEFINE next == [Idle EXCEPT !.pc = "append.write", !.sess = i,
                       !.offset = sess[i].offset, !.len = n, !.body = Chunk(o, n)]
  <2>a. /\ UNCHANGED <<sess, temp, objects, files>> /\ Open(i)
        /\ req' = [req EXCEPT ![p] = next] /\ At(p, "idle")
        /\ disturbed \subseteq disturbed'
        /\ i \notin disturbed' =>
             \A q \in Proc : req[q].sess = i => req[q].pc \notin Appends
    BY <1>3 DEF AppendBegin, Start, Appending, Appends
  <2>b. /\ next.pc = "append.write" /\ next.sess = i
        /\ next.offset = sess[i].offset
    BY DEF Idle
  <2>c. req'[p] = next /\ \A q \in Proc \ {p} : req'[q] = req[q]
    BY <2>a DEF TypeOK, Actor
  <2> HIDE DEF next
  <2>1. /\ CreatesAlone' /\ AppendsAtOffset' /\ RestingIsExact' /\ BodyIsExact'
        /\ StoredIsExact'
    BY <1>3
       DEF AppendBegin, Start, Open, Accepts, CreatesAlone, WorksOnMinted,
           TypeOK, Row, Request, Actor, Idle, AppendsAtOffset, OneAppender,
           Appends, RestingIsExact, AtRest, PatchIsExact, BodyIsExact,
           StoredIsExact, StoredIsWhole
  <2>2. OneAppender'
    BY <1>3, <2>a, <2>b, <2>c DEF OneAppender
  <2>3. PatchIsExact'
    <3> SUFFICES ASSUME NEW q \in Proc, req'[q].sess \in DOMAIN temp' \ disturbed'
                 PROVE  LET j == req'[q].sess IN
                        /\ req'[q].pc = "append.write"  => temp'[j] = Source(req'[q].offset)
                        /\ req'[q].pc = "append.record" =>
                             temp'[j] = Source(req'[q].offset + req'[q].len)
                        /\ req'[q].pc = "fin.read"      => temp'[j] = Source(sess'[j].length)
      BY DEF PatchIsExact
    <3>1. CASE q = p
      <4>1. AtRest(i) /\ temp[i] = Source(sess[i].offset)
        BY <2>a, <2>b, <2>c, <3>1 DEF RestingIsExact, AtRest, Open
      <4>. QED
        BY <2>a, <2>b, <2>c, <3>1, <4>1
    <3>2. CASE q # p
      BY <2>a, <2>c, <3>2 DEF PatchIsExact
    <3>. QED
      BY <3>1, <3>2
  <2>. QED
    BY <2>1, <2>2, <2>3
<1>4. ASSUME NEW p \in Proc, AppendWrite(p)
      PROVE  ExactInv'
  <2> DEFINE i == req[p].sess
  <2>a. /\ UNCHANGED <<sess, objects, files, disturbed>>
        /\ At(p, "append.write") /\ i \in DOMAIN temp
        /\ \A q \in Proc \ {p} : req'[q] = req[q]
    BY <1>4 DEF AppendWrite, TypeOK, Actor
  <2>t. temp' = [temp EXCEPT ![i] = temp[i] \o req[p].body]
    BY <1>4 DEF AppendWrite
  <2>b. /\ DOMAIN temp' = DOMAIN temp
        /\ \A j \in DOMAIN temp \ {i} : temp'[j] = temp[j]
    BY <2>t DEF TypeOK
  <2>c. /\ req'[p].pc = "append.record" /\ req'[p].sess = i
        /\ req'[p].offset = req[p].offset /\ req'[p].len = req[p].len
    BY <1>4 DEF AppendWrite, TypeOK, Actor, Request
  <2>d. i \notin disturbed => /\ temp[i] = Source(req[p].offset)
                              /\ temp'[i] = Source(req[p].offset + req[p].len)
    <3>1. i \notin disturbed => temp[i] = Source(req[p].offset)
      BY <2>a DEF PatchIsExact
    <3>2. temp'[i] = temp[i] \o req[p].body
      <4>1. temp[i] \in Seq(Piece) /\ i \in DOMAIN temp
        BY <2>a DEF TypeOK
      <4>. QED
        BY <2>t, <4>1
    <3>3. req[p].body = Chunk(req[p].offset, req[p].len)
      BY <2>a, PendingChunk
    <3>4. Source(req[p].offset) \o Chunk(req[p].offset, req[p].len) =
            Source(req[p].offset + req[p].len)
      BY <2>a, PendingChunk, SourceContinues
    <3>. QED
      BY <3>1, <3>2, <3>3, <3>4, Zenon
  <2> HIDE DEF i
  <2>1. /\ CreatesAlone' /\ OneAppender' /\ AppendsAtOffset' /\ BodyIsExact'
        /\ StoredIsExact'
    BY <1>4
       DEF AppendWrite, CreatesAlone, WorksOnMinted, TypeOK, Row, Request,
           Actor, Idle, OneAppender, Appends, AppendsAtOffset, Open,
           BodyIsExact, PatchIsExact, StoredIsExact, StoredIsWhole
  <2>2. RestingIsExact'
    <3> SUFFICES ASSUME NEW j \in DOMAIN temp' \ disturbed',
                        sess'[j].state \in {"created", "open"}, AtRest(j)'
                 PROVE  temp'[j] = Source(sess'[j].offset)
      BY DEF RestingIsExact
    <3>1. j # i
      BY <2>c DEF AtRest, Appends
    <3>2. AtRest(j)
      BY <2>a, <3>1 DEF AtRest, i
    <3>. QED
      BY <2>a, <2>b, <3>1, <3>2 DEF RestingIsExact
  <2>3. PatchIsExact'
    <3> SUFFICES ASSUME NEW q \in Proc, req'[q].sess \in DOMAIN temp' \ disturbed'
                 PROVE  LET j == req'[q].sess IN
                        /\ req'[q].pc = "append.write"  => temp'[j] = Source(req'[q].offset)
                        /\ req'[q].pc = "append.record" =>
                             temp'[j] = Source(req'[q].offset + req'[q].len)
                        /\ req'[q].pc = "fin.read"      => temp'[j] = Source(sess'[j].length)
      BY DEF PatchIsExact
    <3>1. CASE q = p
      BY <2>a, <2>c, <2>d, <3>1
    <3>2. CASE q # p /\ req[q].sess # i
      BY <2>a, <2>b, <3>2 DEF PatchIsExact
    <3>3. CASE q # p /\ req[q].sess = i
      <4>1. req'[q] = req[q] /\ i \notin disturbed /\ i \in DOMAIN temp
        BY <2>a, <3>3
      <4>2. req[q].pc \notin Appends
        BY <2>a, <3>3, <4>1 DEF OneAppender, Appends, i
      <4>3. ASSUME req[q].pc = "fin.read"
            PROVE  temp'[i] = Source(sess[i].length)
        <5>1. Source(req[p].offset) = Source(sess[i].length)
          BY <2>d, <3>3, <4>1, <4>3 DEF PatchIsExact
        <5>2. /\ req[p].offset \in Nat /\ req[p].len \in Nat
              /\ req[p].offset + req[p].len <= sess[i].length
              /\ sess[i].length \in Nat /\ sess[i].length <= MaxLength
          <6>1. i \in Session /\ sess[i].length \in Length
            BY DEF TypeOK, Actor, Request, Row, i
          <6>2. req[p].offset + req[p].len <= sess[i].length
            BY <2>a DEF AppendFits, Appends, i
          <6>. QED
            BY <2>a, <6>1, <6>2, PendingChunk DEF Length
        <5>3. req[p].offset <= MaxLength
          BY <5>2
        <5>4. req[p].offset = sess[i].length
          BY <5>1, <5>2, <5>3, SourceInjective
        <5>5. req[p].offset + req[p].len = sess[i].length
          BY <5>2, <5>4
        <5>. QED
          BY <2>d, <4>1, <5>5
      <4>. QED
        BY <2>a, <3>3, <4>1, <4>2, <4>3 DEF Appends
    <3>. QED
      BY <3>1, <3>2, <3>3
  <2>. QED
    BY <2>1, <2>2, <2>3
<1>5. ASSUME NEW p \in Proc, NEW m \in Length, AppendTorn(p, m)
      PROVE  ExactInv'
  <2>1. /\ CreatesAlone' /\ OneAppender' /\ AppendsAtOffset' /\ PatchIsExact'
        /\ BodyIsExact' /\ StoredIsExact'
    BY <1>5
       DEF AppendTorn, Finish, CreatesAlone, WorksOnMinted, TypeOK, Row,
           Request, Actor, Idle, OneAppender, Appends, AppendsAtOffset, Open,
           PatchIsExact, RestingIsExact, AtRest, BodyIsExact, StoredIsExact,
           StoredIsWhole
  <2>2. RestingIsExact'
    <3>1. \A i \in DOMAIN temp' \ disturbed' :
             /\ i \in DOMAIN temp \ disturbed /\ i # req[p].sess
             /\ temp'[i] = temp[i] /\ sess' = sess
      BY <1>5 DEF AppendTorn, TypeOK
    <3>2. \A q \in Proc \ {p} : req'[q] = req[q]
      BY <1>5 DEF AppendTorn, Finish, TypeOK, Actor
    <3>. QED
      BY <3>1, <3>2 DEF RestingIsExact, AtRest
  <2>. QED
    BY <2>1, <2>2
<1>6. ASSUME NEW p \in Proc, AppendRecord(p)
      PROVE  ExactInv'
  <2> DEFINE i == req[p].sess
             new == req[p].offset + req[p].len
             next == [Idle EXCEPT !.pc = "fin.read", !.sess = i]
  <2>a. /\ UNCHANGED <<temp, objects, files, disturbed>>
        /\ At(p, "append.record") /\ i \in Session
        /\ req'[p] = Idle \/ (new = sess[i].length /\ req'[p] = next)
        /\ \A q \in Proc \ {p} : req'[q] = req[q] /\ req[q].sess \in Session
    BY <1>6 DEF AppendRecord, Finish, Reached, TypeOK, Actor, Request
  <2>b. /\ \A j \in Session : sess'[j].length = sess[j].length /\ sess'[j].state = sess[j].state
        /\ \A j \in Session \ {i} : sess'[j] = sess[j]
        /\ Open(i) => sess'[i].offset = new
    BY <1>6, <2>a DEF AppendRecord, TypeOK, Row
  <2>c. i \in DOMAIN temp \ disturbed => temp[i] = Source(new)
    BY <2>a DEF PatchIsExact
  <2>d. /\ next.pc = "fin.read" /\ next.sess = i /\ Idle.pc = "idle"
        /\ DOMAIN temp \subseteq Session /\ sess[i].state # "created"
    BY <2>a DEF Idle, TypeOK, WorksOnMinted, Actor
  <2>e. \A q \in Proc \ {p} : req[q].pc \in Appends /\ req[q].sess = i => i \in disturbed
    BY <2>a DEF OneAppender, Appends
  <2> HIDE DEF i, new, next
  <2>1. CreatesAlone'
    BY <1>6, <2>a, <2>b, <2>d DEF CreatesAlone
  <2>2. OneAppender'
    BY <1>6, <2>a, <2>b, <2>d DEF OneAppender, Appends
  <2>3. AppendsAtOffset'
    BY <1>6, <2>a, <2>b, <2>d, <2>e DEF AppendsAtOffset, Appends, Open
  <2>4. RestingIsExact'
    <3> SUFFICES ASSUME NEW j \in DOMAIN temp' \ disturbed',
                        sess'[j].state \in {"created", "open"}, AtRest(j)'
                 PROVE  temp'[j] = Source(sess'[j].offset)
      BY DEF RestingIsExact
    <3>1. CASE j = i
      BY <2>a, <2>b, <2>c, <2>d, <3>1 DEF Open
    <3>2. CASE j # i
      <4>1. AtRest(j)
        BY <2>a, <3>2 DEF AtRest, i
      <4>. QED
        BY <2>a, <2>b, <2>d, <3>2, <4>1 DEF RestingIsExact
    <3>. QED
      BY <3>1, <3>2
  <2>5. PatchIsExact'
    <3> SUFFICES ASSUME NEW q \in Proc, req'[q].sess \in DOMAIN temp' \ disturbed'
                 PROVE  LET j == req'[q].sess IN
                        /\ req'[q].pc = "append.write"  => temp'[j] = Source(req'[q].offset)
                        /\ req'[q].pc = "append.record" =>
                             temp'[j] = Source(req'[q].offset + req'[q].len)
                        /\ req'[q].pc = "fin.read"      => temp'[j] = Source(sess'[j].length)
      BY DEF PatchIsExact
    <3>1. CASE q = p
      BY <2>a, <2>b, <2>c, <2>d, <3>1
    <3>2. CASE q # p
      BY <2>a, <2>b, <3>2 DEF PatchIsExact
    <3>. QED
      BY <3>1, <3>2
  <2>6. BodyIsExact'
    <3> SUFFICES ASSUME NEW q \in Proc, req'[q].pc \in {"fin.meta", "fin.put"},
                        req'[q].sess \notin disturbed'
                 PROVE  req'[q].body = Source(sess'[req'[q].sess].length)
      BY DEF BodyIsExact
    <3>1. q # p
      BY <2>a, <2>d
    <3>. QED
      BY <2>a, <2>b, <3>1 DEF BodyIsExact
  <2>7. StoredIsExact'
    BY <1>6
       DEF AppendRecord, Finish, Reached, Open, StoredIsExact, BodyIsExact,
           StoredIsWhole, TypeOK, Request, Row, Actor
  <2>. QED
    BY <2>1, <2>2, <2>3, <2>4, <2>5, <2>6, <2>7
<1>7. ASSUME NEW p \in Proc, FinRead(p)
      PROVE  ExactInv'
  <2>1. CreatesAlone' /\ OneAppender'
    BY <1>7
       DEF FinRead, CreatesAlone, WorksOnMinted, TypeOK, Row, Request, Actor,
           Idle, OneAppender, Appends
  <2>2. AppendsAtOffset'
    BY <1>7
       DEF FinRead, AppendsAtOffset, OneAppender, CreatesAlone, TypeOK, Row,
           Request, Actor, Appends, Idle, Open
  <2>3. RestingIsExact'
    BY <1>7
       DEF FinRead, RestingIsExact, AtRest, PatchIsExact, AppendsAtOffset,
           CreatesAlone, TypeOK, Row, Request, Actor, Idle, Open, Appends
  <2>4. PatchIsExact' /\ BodyIsExact' /\ StoredIsExact'
    BY <1>7
       DEF FinRead, PatchIsExact, RestingIsExact, AtRest, TypeOK, Row,
           Request, Actor, Idle, WorksOnMinted, BodyIsExact, StoredIsExact,
           StoredIsWhole
  <2>. QED
    BY <2>1, <2>2, <2>3, <2>4
<1>8. ASSUME NEW p \in Proc, FinMeta(p)
      PROVE  ExactInv'
  <2>1. CreatesAlone' /\ OneAppender' /\ AppendsAtOffset'
    BY <1>8
       DEF FinMeta, Goto, CreatesAlone, TypeOK, Actor, Request, OneAppender, Appends,
           AppendsAtOffset, Open
  <2>2. RestingIsExact' /\ PatchIsExact'
    BY <1>8
       DEF FinMeta, Goto, RestingIsExact, AtRest, PatchIsExact, TypeOK, Actor, Request,
           Appends, Open
  <2>3. BodyIsExact' /\ StoredIsExact'
    BY <1>8
       DEF FinMeta, Goto, BodyIsExact, StoredIsExact, StoredIsWhole, WorksOnMinted, TypeOK,
           Actor, Request, Row, Open
  <2>. QED
    BY <2>1, <2>2, <2>3
<1>9. ASSUME NEW p \in Proc, NEW f \in File, FinPut(p, f)
      PROVE  ExactInv'
  <2>1. CreatesAlone' /\ OneAppender' /\ AppendsAtOffset'
    BY <1>9
       DEF FinPut, CreatesAlone, TypeOK, Actor, Request, OneAppender, Appends,
           AppendsAtOffset, Open
  <2>2. RestingIsExact' /\ PatchIsExact'
    BY <1>9
       DEF FinPut, RestingIsExact, AtRest, PatchIsExact, TypeOK, Actor, Request,
           Appends, Open
  <2>3. BodyIsExact' /\ StoredIsExact'
    BY <1>9
       DEF FinPut, BodyIsExact, StoredIsExact, StoredIsWhole, WorksOnMinted, TypeOK,
           Actor, Request, Row, Open
  <2>. QED
    BY <2>1, <2>2, <2>3
<1>10. ASSUME NEW p \in Proc, FinInsert(p)
      PROVE  ExactInv'
  <2>1. CreatesAlone' /\ OneAppender'
    BY <1>10
       DEF FinInsert, CreatesAlone, WorksOnMinted, TypeOK, Row, Request,
           Actor, Idle, OneAppender, Appends
  <2>2. AppendsAtOffset'
    BY <1>10
       DEF FinInsert, AppendsAtOffset, OneAppender, CreatesAlone, TypeOK, Row,
           Request, Actor, Appends, Idle, Open
  <2>3. RestingIsExact'
    BY <1>10
       DEF FinInsert, RestingIsExact, AtRest, PatchIsExact, AppendsAtOffset,
           CreatesAlone, TypeOK, Row, Request, Actor, Idle, Open, Appends
  <2>4. PatchIsExact' /\ BodyIsExact' /\ StoredIsExact'
    BY <1>10
       DEF FinInsert, PatchIsExact, RestingIsExact, AtRest, TypeOK, Row,
           Request, Actor, Idle, WorksOnMinted, BodyIsExact, StoredIsExact,
           StoredIsWhole
  <2>. QED
    BY <2>1, <2>2, <2>3, <2>4
<1>11. ASSUME NEW p \in Proc, FinComplete(p)
      PROVE  ExactInv'
  <2>a. \A j \in Session : /\ sess'[j].offset = sess[j].offset
                           /\ sess'[j].length = sess[j].length
                           /\ sess'[j].state = sess[j].state \/ sess'[j].state = "gone"
    BY <1>11 DEF FinComplete, TypeOK, Row
  <2>1. /\ CreatesAlone' /\ OneAppender' /\ AppendsAtOffset' /\ PatchIsExact'
        /\ BodyIsExact' /\ StoredIsExact'
    BY <1>11
       DEF FinComplete, Goto, Open, CreatesAlone, WorksOnMinted, TypeOK, Row,
           Request, Actor, Idle, OneAppender, Appends, AppendsAtOffset,
           PatchIsExact, RestingIsExact, AtRest, BodyIsExact, StoredIsExact,
           StoredIsWhole
  <2>2. RestingIsExact'
    <3>1. \A i \in DOMAIN temp' \ disturbed' :
             /\ i \in DOMAIN temp \ disturbed /\ temp'[i] = temp[i]
             /\ sess'[i].offset = sess[i].offset
             /\ sess'[i].state \in {"created", "open"} =>
                  sess[i].state \in {"created", "open"}
      BY <1>11, <2>a DEF FinComplete, Goto, Open, TypeOK, Actor
    <3>2. \A q \in Proc : req[q].pc \in Appends =>
             req'[q].pc \in Appends /\ req'[q].sess = req[q].sess
      BY <1>11 DEF FinComplete, Goto, Open, TypeOK, Actor, Appends
    <3>. QED
      BY <3>1, <3>2, RestingFrame
  <2>. QED
    BY <2>1, <2>2
<1>12. ASSUME NEW p \in Proc, FinUnlink(p)
      PROVE  ExactInv'
  <2>1. /\ CreatesAlone' /\ OneAppender' /\ AppendsAtOffset' /\ PatchIsExact'
        /\ BodyIsExact' /\ StoredIsExact'
    BY <1>12
       DEF FinUnlink, Finish, Unlink, CreatesAlone, WorksOnMinted, TypeOK,
           Row, Request, Actor, Idle, OneAppender, Appends, AppendsAtOffset,
           Open, PatchIsExact, RestingIsExact, AtRest, BodyIsExact,
           StoredIsExact, StoredIsWhole
  <2>2. RestingIsExact'
    <3>1. \A i \in DOMAIN temp' \ disturbed' :
             /\ i \in DOMAIN temp \ disturbed /\ temp'[i] = temp[i]
             /\ sess'[i].offset = sess[i].offset
             /\ sess'[i].state \in {"created", "open"} =>
                  sess[i].state \in {"created", "open"}
      BY <1>12 DEF FinUnlink, Finish, Unlink, TypeOK, Actor
    <3>2. \A q \in Proc : req[q].pc \in Appends =>
             req'[q].pc \in Appends /\ req'[q].sess = req[q].sess
      BY <1>12 DEF FinUnlink, Finish, Unlink, TypeOK, Actor, Appends
    <3>. QED
      BY <3>1, <3>2, RestingFrame
  <2>. QED
    BY <2>1, <2>2
<1>13. ASSUME NEW p \in Proc, NEW i \in Session, Terminate(p, i)
      PROVE  ExactInv'
  <2>1. CreatesAlone' /\ OneAppender' /\ AppendsAtOffset'
    BY <1>13
       DEF Terminate, Start, Idle, CreatesAlone, TypeOK, Actor, Request,
           OneAppender, Appends, AppendsAtOffset, Open
  <2>2. RestingIsExact' /\ PatchIsExact'
    BY <1>13
       DEF Terminate, Start, Idle, RestingIsExact, AtRest, PatchIsExact, TypeOK,
           Actor, Request, Appends, Open
  <2>3. BodyIsExact' /\ StoredIsExact'
    BY <1>13
       DEF Terminate, Start, Idle, BodyIsExact, StoredIsExact, StoredIsWhole,
           WorksOnMinted, TypeOK, Actor, Request, Row, Open
  <2>. QED
    BY <2>1, <2>2, <2>3
<1>14. ASSUME NEW p \in Proc, TermDelete(p)
      PROVE  ExactInv'
  <2>a. \A j \in Session : /\ sess'[j].offset = sess[j].offset
                           /\ sess'[j].length = sess[j].length
                           /\ sess'[j].state = sess[j].state \/ sess'[j].state = "gone"
    BY <1>14 DEF TermDelete, TypeOK, Row
  <2>1. /\ CreatesAlone' /\ OneAppender' /\ AppendsAtOffset' /\ PatchIsExact'
        /\ BodyIsExact' /\ StoredIsExact'
    BY <1>14
       DEF TermDelete, Goto, CreatesAlone, WorksOnMinted, TypeOK, Row,
           Request, Actor, Idle, OneAppender, Appends, AppendsAtOffset, Open,
           PatchIsExact, RestingIsExact, AtRest, BodyIsExact, StoredIsExact,
           StoredIsWhole
  <2>2. RestingIsExact'
    <3>1. \A i \in DOMAIN temp' \ disturbed' :
             /\ i \in DOMAIN temp \ disturbed /\ temp'[i] = temp[i]
             /\ sess'[i].offset = sess[i].offset
             /\ sess'[i].state \in {"created", "open"} =>
                  sess[i].state \in {"created", "open"}
      BY <1>14, <2>a DEF TermDelete, Goto, TypeOK, Actor
    <3>2. \A q \in Proc : req[q].pc \in Appends =>
             req'[q].pc \in Appends /\ req'[q].sess = req[q].sess
      BY <1>14 DEF TermDelete, Goto, TypeOK, Actor, Appends
    <3>. QED
      BY <3>1, <3>2, RestingFrame
  <2>. QED
    BY <2>1, <2>2
<1>15. ASSUME NEW p \in Proc, TermUnlink(p)
      PROVE  ExactInv'
  <2>1. /\ CreatesAlone' /\ OneAppender' /\ AppendsAtOffset' /\ PatchIsExact'
        /\ BodyIsExact' /\ StoredIsExact'
    BY <1>15
       DEF TermUnlink, Finish, Unlink, CreatesAlone, WorksOnMinted, TypeOK,
           Row, Request, Actor, Idle, OneAppender, Appends, AppendsAtOffset,
           Open, PatchIsExact, RestingIsExact, AtRest, BodyIsExact,
           StoredIsExact, StoredIsWhole
  <2>2. RestingIsExact'
    <3>1. \A i \in DOMAIN temp' \ disturbed' :
             /\ i \in DOMAIN temp \ disturbed /\ temp'[i] = temp[i]
             /\ sess'[i].offset = sess[i].offset
             /\ sess'[i].state \in {"created", "open"} =>
                  sess[i].state \in {"created", "open"}
      BY <1>15 DEF TermUnlink, Finish, Unlink, TypeOK, Actor
    <3>2. \A q \in Proc : req[q].pc \in Appends =>
             req'[q].pc \in Appends /\ req'[q].sess = req[q].sess
      BY <1>15 DEF TermUnlink, Finish, Unlink, TypeOK, Actor, Appends
    <3>. QED
      BY <3>1, <3>2, RestingFrame
  <2>. QED
    BY <2>1, <2>2
<1>16. ASSUME NEW w \in Worker, NEW i \in Session, ReapBegin(w, i)
      PROVE  ExactInv'
  BY <1>16
     DEF ReapBegin, Start, Reapable, Open, CreatesAlone, WorksOnMinted,
         TypeOK, Row, Request, Actor, Idle, OneAppender, Appends,
         AppendsAtOffset, RestingIsExact, AtRest, PatchIsExact, BodyIsExact,
         StoredIsExact, StoredIsWhole
<1>17. ASSUME NEW w \in Worker, ReapUnlink(w)
      PROVE  ExactInv'
  <2>1. /\ CreatesAlone' /\ OneAppender' /\ AppendsAtOffset' /\ PatchIsExact'
        /\ BodyIsExact' /\ StoredIsExact'
    BY <1>17
       DEF ReapUnlink, Goto, Unlink, CreatesAlone, WorksOnMinted, TypeOK, Row,
           Request, Actor, Idle, OneAppender, Appends, AppendsAtOffset, Open,
           PatchIsExact, RestingIsExact, AtRest, BodyIsExact, StoredIsExact,
           StoredIsWhole
  <2>2. RestingIsExact'
    <3>1. \A i \in DOMAIN temp' \ disturbed' :
             /\ i \in DOMAIN temp \ disturbed /\ temp'[i] = temp[i]
             /\ sess'[i].offset = sess[i].offset
             /\ sess'[i].state \in {"created", "open"} =>
                  sess[i].state \in {"created", "open"}
      BY <1>17 DEF ReapUnlink, Goto, Unlink, TypeOK, Actor
    <3>2. \A q \in Proc : req[q].pc \in Appends =>
             req'[q].pc \in Appends /\ req'[q].sess = req[q].sess
      BY <1>17 DEF ReapUnlink, Goto, Unlink, TypeOK, Actor, Appends
    <3>. QED
      BY <3>1, <3>2, RestingFrame
  <2>. QED
    BY <2>1, <2>2
<1>18. ASSUME NEW w \in Worker, ReapDelete(w)
      PROVE  ExactInv'
  <2>a. \A j \in Session : /\ sess'[j].offset = sess[j].offset
                           /\ sess'[j].length = sess[j].length
                           /\ sess'[j].state = sess[j].state \/ sess'[j].state = "gone"
    BY <1>18 DEF ReapDelete, TypeOK, Row
  <2>1. /\ CreatesAlone' /\ OneAppender' /\ AppendsAtOffset' /\ PatchIsExact'
        /\ BodyIsExact' /\ StoredIsExact'
    BY <1>18
       DEF ReapDelete, Finish, CreatesAlone, WorksOnMinted, TypeOK, Row,
           Request, Actor, Idle, OneAppender, Appends, AppendsAtOffset, Open,
           PatchIsExact, RestingIsExact, AtRest, BodyIsExact, StoredIsExact,
           StoredIsWhole
  <2>2. RestingIsExact'
    <3>1. \A i \in DOMAIN temp' \ disturbed' :
             /\ i \in DOMAIN temp \ disturbed /\ temp'[i] = temp[i]
             /\ sess'[i].offset = sess[i].offset
             /\ sess'[i].state \in {"created", "open"} =>
                  sess[i].state \in {"created", "open"}
      BY <1>18, <2>a DEF ReapDelete, Finish, TypeOK, Actor
    <3>2. \A q \in Proc : req[q].pc \in Appends =>
             req'[q].pc \in Appends /\ req'[q].sess = req[q].sess
      BY <1>18 DEF ReapDelete, Finish, TypeOK, Actor, Appends
    <3>. QED
      BY <3>1, <3>2, RestingFrame
  <2>. QED
    BY <2>1, <2>2
<1>19. ASSUME NEW p \in Actor, Fail(p)
      PROVE  ExactInv'
  <2>1. /\ CreatesAlone' /\ OneAppender' /\ AppendsAtOffset' /\ PatchIsExact'
        /\ BodyIsExact' /\ StoredIsExact'
    BY <1>19
       DEF Fail, Finish, CreatesAlone, WorksOnMinted, TypeOK, Row, Request,
           Actor, Idle, OneAppender, Appends, AppendsAtOffset, Open,
           PatchIsExact, RestingIsExact, AtRest, BodyIsExact, StoredIsExact,
           StoredIsWhole
  <2>2. RestingIsExact'
    <3> SUFFICES ASSUME NEW j \in DOMAIN temp' \ disturbed',
                        sess'[j].state \in {"created", "open"}, AtRest(j)'
                 PROVE  temp'[j] = Source(sess'[j].offset)
      BY DEF RestingIsExact
    <3>1. /\ UNCHANGED <<sess, temp>> /\ j \notin disturbed
          /\ \A q \in Proc \ {p} : req'[q] = req[q]
      BY <1>19 DEF Fail, Finish, TypeOK, Actor
    <3>2. CASE req[p].sess = j /\ req[p].pc \in Appends /\ p \in Proc
      <4>1. Open(j) /\ sess[j].offset = req[p].offset
        <5>1. sess[j].state # "created"
          BY <3>2 DEF WorksOnMinted, Actor, Appends
        <5>. QED
          BY <3>1, <3>2, <5>1 DEF AppendsAtOffset, Open
      <4>2. At(p, "append.record") => req[p].offset + req[p].len = req[p].offset
        <5>1. At(p, "append.record") => ~(req[p].len > 0)
          BY <1>19, <3>2 DEF Fail
        <5>2. req[p].len \in Nat /\ req[p].offset \in Nat
          BY DEF TypeOK, Request, Length
        <5>. QED
          BY <5>1, <5>2
      <4>. QED
        BY <3>1, <3>2, <4>1, <4>2 DEF PatchIsExact, Appends
    <3>3. CASE ~(req[p].sess = j /\ req[p].pc \in Appends /\ p \in Proc)
      <4>1. AtRest(j)
        BY <3>1, <3>3 DEF AtRest
      <4>. QED
        BY <3>1, <4>1 DEF RestingIsExact
    <3>. QED
      BY <3>2, <3>3
  <2>. QED
    BY <2>1, <2>2
<1>20. ASSUME NEW i \in Session, ExpiresAt(i)
      PROVE  ExactInv'
  <2>a. \A j \in Session : /\ sess'[j].offset = sess[j].offset
                           /\ sess'[j].length = sess[j].length
                           /\ sess'[j].state = sess[j].state \/ sess'[j].state = "gone"
    BY <1>20 DEF ExpiresAt, TypeOK, Row
  <2>1. /\ CreatesAlone' /\ OneAppender' /\ PatchIsExact' /\ BodyIsExact'
        /\ StoredIsExact'
    BY <1>20
       DEF ExpiresAt, Open, CreatesAlone, WorksOnMinted, TypeOK, Row, Request,
           Actor, Idle, OneAppender, Appends, PatchIsExact, RestingIsExact,
           AtRest, BodyIsExact, StoredIsExact, StoredIsWhole
  <2>2. AppendsAtOffset'
    BY <1>20, <2>a
       DEF ExpiresAt, AppendsAtOffset, TypeOK, Request, Actor, Open, Appends
  <2>3. RestingIsExact'
    <3>1. \A k \in DOMAIN temp' \ disturbed' :
             /\ k \in DOMAIN temp \ disturbed /\ temp'[k] = temp[k]
             /\ sess'[k].offset = sess[k].offset
             /\ sess'[k].state \in {"created", "open"} =>
                  sess[k].state \in {"created", "open"}
      BY <1>20, <2>a DEF ExpiresAt, TypeOK, Actor
    <3>2. \A q \in Proc : req[q].pc \in Appends =>
             req'[q].pc \in Appends /\ req'[q].sess = req[q].sess
      BY <1>20 DEF ExpiresAt, TypeOK, Actor, Appends
    <3>. QED
      BY <3>1, <3>2, RestingFrame
  <2>. QED
    BY <2>1, <2>2, <2>3
<1>21. CASE UNCHANGED vars
  BY <1>21
     DEF vars, CreatesAlone, OneAppender, AppendsAtOffset, RestingIsExact,
         PatchIsExact, BodyIsExact, StoredIsExact, AtRest, Open
<1>. QED
  BY <1>1, <1>2, <1>3, <1>4, <1>5, <1>6, <1>7, <1>8, <1>9, <1>10, <1>11,
     <1>12, <1>13, <1>14, <1>15, <1>16, <1>17, <1>18, <1>19, <1>20, <1>21
     DEF Next, Patch, Finalise, Reap


-----------------------------------------------------------------------------
\* The invariants hold before the first POST.
LEMMA InitialState == Init => WholeInv /\ ExactInv
<1> SUFFICES ASSUME Init
             PROVE  WholeInv /\ ExactInv
  OBVIOUS
<1>1. /\ \A p \in Actor : req[p] = Idle
      /\ DOMAIN temp = {} /\ DOMAIN objects = {} /\ files = {} /\ disturbed = {}
      /\ \A i \in Session : sess[i].offset = 0 /\ sess[i].length = 0
  BY DEF Init
<1>2. Idle.pc = "idle"
  BY DEF Idle
<1>3. TypeOK
  <2>1. sess \in [Session -> Row]
    BY TusConstants DEF Init, Row, Length
  <2>2. ASSUME NEW i \in Session
        PROVE  sess[i].offset <= sess[i].length
    <3>1. sess[i].offset = 0 /\ sess[i].length = 0
      BY <1>1
    <3>2. sess[i].offset \in Nat /\ sess[i].length \in Nat
      BY <3>1
    <3>. QED
      BY <3>1, <3>2
  <2>3. temp \in [DOMAIN temp -> Seq(Piece)]
    BY DEF Init
  <2>4. objects \in [DOMAIN objects -> [from : Session, data : Seq(Piece)]]
    BY DEF Init
  <2>5. req \in [Actor -> Request]
    BY PlaceholderTypes DEF Init
  <2>. QED
    BY <1>1, <2>1, <2>2, <2>3, <2>4, <2>5 DEF TypeOK
<1>4. TypeInv
  BY <1>1, <1>2, <1>3
     DEF TypeInv, WorksOnMinted, AppendFits, InsertsStored, Appends, At, Actor
<1>5. WholeInv
  BY <1>1, <1>2, <1>4
     DEF WholeInv, NewAtZero, TempBacksRow, TempBacksPatch, BodyIsWhole,
         StoredIsWhole, At, Actor
<1>6. ExactInv
  BY <1>1, <1>2
     DEF ExactInv, CreatesAlone, OneAppender, AppendsAtOffset, RestingIsExact,
         PatchIsExact, BodyIsExact, StoredIsExact, Appends, At, Actor
<1>. QED
  BY <1>5, <1>6

\* Every reachable state satisfies both inductive invariants.
LEMMA Invariants == Spec => [](WholeInv /\ ExactInv)
<1>1. WholeInv /\ ExactInv /\ [Next]_vars => (WholeInv /\ ExactInv)'
  BY WholeStep, ExactStep
<1>. QED
  BY <1>1, InitialState, PTL DEF Spec

\* Rows, temp files, objects and requests have their types, and no offset
\* passes its Upload-Length.
THEOREM TypeCorrect == Spec => []TypeOK
<1>1. WholeInv => TypeOK
  BY DEF WholeInv, TypeInv
<1>. QED
  BY <1>1, Invariants, PTL

\* A client that resumes from Upload-Offset leaves no hole, however its
\* PATCHes overlap, tear or fail.
THEOREM OffsetsAreBacked == Spec => []OffsetIsBacked
<1>1. WholeInv => OffsetIsBacked
  BY DEF WholeInv, TempBacksRow, OffsetIsBacked
<1>. QED
  BY <1>1, Invariants, PTL

\* No file is published short, whichever handler finalises it and when.
THEOREM PublishedFilesAreWhole == Spec => []PublishedIsWhole
<1>1. WholeInv => PublishedIsWhole
  BY DEF WholeInv, TypeInv, TypeOK, StoredIsWhole, PublishedIsWhole
<1>. QED
  BY <1>1, Invariants, PTL

\* Without overlap and without a stop between append and UPDATE, what is
\* published is the client's file, piece by piece.
THEOREM UndisturbedFilesAreExact == Spec => []UndisturbedIsExact
<1>1. WholeInv /\ ExactInv => UndisturbedIsExact
  BY DEF WholeInv, TypeInv, TypeOK, ExactInv, StoredIsExact, UndisturbedIsExact
<1>. QED
  BY <1>1, Invariants, PTL
-----------------------------------------------------------------------------
(* The refinement.  Two steps are seen from outside: the POST that mints a   *)
(* session and the INSERT of a file; a third breaks a session.               *)

\* What a step must leave alone to be invisible.
SameLengths == \A i \in Session : /\ sess'[i].state = "none" <=> sess[i].state = "none"
                                  /\ sess'[i].length = sess[i].length
SameFiles == UNCHANGED files /\ \A f \in files : objects'[f] = objects[f]

LEMMA SameDeclared == ASSUME SameLengths PROVE Declared' = Declared
BY DEF SameLengths, Declared

LEMMA SamePublished == ASSUME SameFiles PROVE Published' = Published
BY DEF SameFiles, Published

\* The UPDATEs and DELETEs of a row, as AtomicUpload sees them.
LEMMA RowSame ==
    ASSUME TypeOK, NEW i \in Session,
           \/ UNCHANGED sess
           \/ /\ sess[i].state # "none"
              /\ \/ \E s \in {"open", "gone"} : sess' = [sess EXCEPT ![i].state = s]
                 \/ \E o \in Nat : sess' = [sess EXCEPT ![i].offset = o]
                 \/ sess' = [sess EXCEPT ![i].done = TRUE]
                 \/ sess' = [sess EXCEPT ![i].expired = TRUE]
    PROVE  SameLengths
<1>1. \A j \in Session : sess[j] \in Row
  BY DEF TypeOK
<1>2. CASE UNCHANGED sess
  BY <1>2 DEF SameLengths
<1>3. ASSUME sess[i].state # "none", NEW r, r.state # "none", r.length = sess[i].length,
             sess' = [sess EXCEPT ![i] = r]
      PROVE  SameLengths
  BY <1>3 DEF SameLengths, TypeOK
<1>4. ASSUME sess[i].state # "none", NEW s \in {"open", "gone"},
             sess' = [sess EXCEPT ![i].state = s]
      PROVE  SameLengths
  <2>. DEFINE r == [sess[i] EXCEPT !.state = s]
  <2>1. r.state # "none" /\ r.length = sess[i].length
    BY <1>1 DEF Row
  <2>2. sess' = [sess EXCEPT ![i] = r]
    BY <1>4
  <2>. HIDE DEF r
  <2>. QED
    BY <1>3, <1>4, <2>1, <2>2
<1>5. ASSUME sess[i].state # "none", NEW o \in Nat, sess' = [sess EXCEPT ![i].offset = o]
      PROVE  SameLengths
  <2>. DEFINE r == [sess[i] EXCEPT !.offset = o]
  <2>1. r.state # "none" /\ r.length = sess[i].length
    BY <1>1, <1>5 DEF Row
  <2>2. sess' = [sess EXCEPT ![i] = r]
    BY <1>5
  <2>. HIDE DEF r
  <2>. QED
    BY <1>3, <1>5, <2>1, <2>2
<1>6. ASSUME sess[i].state # "none", sess' = [sess EXCEPT ![i].done = TRUE] PROVE SameLengths
  <2>. DEFINE r == [sess[i] EXCEPT !.done = TRUE]
  <2>1. r.state # "none" /\ r.length = sess[i].length
    BY <1>1, <1>6 DEF Row
  <2>2. sess' = [sess EXCEPT ![i] = r]
    BY <1>6
  <2>. HIDE DEF r
  <2>. QED
    BY <1>3, <1>6, <2>1, <2>2
<1>7. ASSUME sess[i].state # "none", sess' = [sess EXCEPT ![i].expired = TRUE] PROVE SameLengths
  <2>. DEFINE r == [sess[i] EXCEPT !.expired = TRUE]
  <2>1. r.state # "none" /\ r.length = sess[i].length
    BY <1>1, <1>7 DEF Row
  <2>2. sess' = [sess EXCEPT ![i] = r]
    BY <1>7
  <2>. HIDE DEF r
  <2>. QED
    BY <1>3, <1>7, <2>1, <2>2
<1>. QED
  BY <1>2, <1>4, <1>5, <1>6, <1>7

\* A step that at most breaks one session.
LEMMA QuietStep ==
    ASSUME SameLengths, SameFiles,
           \/ UNCHANGED disturbed
           \/ \E i \in Session : sess[i].state # "none" /\ disturbed' = disturbed \cup {i}
    PROVE  [Uploads!Next]_<<Declared, disturbed, Published>>
<1>1. Declared' = Declared /\ Published' = Published
  BY SameDeclared, SamePublished
<1>2. ASSUME NEW i \in Session, sess[i].state # "none", disturbed' = disturbed \cup {i}
      PROVE  Uploads!Break(i)
  <2>1. i \in DOMAIN Declared
    BY <1>2 DEF Declared
  <2>. QED
    BY <1>1, <1>2, <2>1 DEF Uploads!Break
<1>. QED
  BY <1>1, <1>2 DEF Uploads!Next

\* The first write of POST mints a session of the length that was asked for.
LEMMA CreateDeclares ==
    ASSUME TypeOK, NEW p \in Proc, NEW i \in Session, NEW n \in Length, Create(p, i, n)
    PROVE  Uploads!Declare(i, n)
<1>1. /\ sess[i].state = "none" /\ UNCHANGED <<objects, files, disturbed>>
      /\ sess' = [sess EXCEPT ![i].state = "created", ![i].length = n]
  BY DEF Create
<1>2. sess \in [Session -> Row]
  BY DEF TypeOK
<1>3. \A j \in Session : j # i => sess'[j] = sess[j]
  BY <1>1, <1>2
<1>4. sess'[i].state = "created" /\ sess'[i].length = n
  <2>1. sess[i] \in Row /\ sess'[i] = [sess[i] EXCEPT !.state = "created", !.length = n]
    BY <1>1, <1>2
  <2>. QED
    BY <2>1 DEF Row
<1>5. /\ i \notin DOMAIN Declared
      /\ {j \in Session : sess'[j].state # "none"} = DOMAIN Declared \cup {i}
  BY <1>1, <1>3, <1>4 DEF Declared
<1>6. Declared' = [j \in DOMAIN Declared \cup {i} |-> IF j = i THEN n ELSE Declared[j]]
  <2>1. Declared' = [j \in {k \in Session : sess'[k].state # "none"} |-> sess'[j].length]
    BY DEF Declared
  <2>2. \A j \in DOMAIN Declared \cup {i} :
           sess'[j].length = IF j = i THEN n ELSE Declared[j]
    BY <1>3, <1>4, <1>5 DEF Declared
  <2>. QED
    BY <1>5, <2>1, <2>2
<1>7. Published' = Published
  BY <1>1, SamePublished DEF SameFiles
<1>. QED
  BY <1>1, <1>5, <1>6, <1>7 DEF Uploads!Declare

\* The INSERT of finalise shows an object that is whole, and exact if need be.
LEMMA InsertPublishes ==
    ASSUME WholeInv, ExactInv, NEW p \in Proc, FinInsert(p)
    PROVE  [Uploads!Next]_<<Declared, disturbed, Published>>
<1>. DEFINE f == req[p].file
            i == objects[f].from
<1>1. /\ At(p, "fin.insert") /\ files' = files \cup {f}
      /\ UNCHANGED <<sess, temp, objects, disturbed>>
  BY DEF FinInsert
<1>2. f \in DOMAIN objects /\ DOMAIN objects \subseteq File /\ files \subseteq DOMAIN objects
      /\ objects \in [DOMAIN objects -> [from : Session, data : Seq(Piece)]]
  BY <1>1 DEF WholeInv, TypeInv, InsertsStored, TypeOK
<1>3. Declared' = Declared
  BY <1>1 DEF Declared
<1>4. CASE f \in files
  BY <1>1, <1>3, <1>4, QuietStep, RowSame DEF SameFiles, SameLengths
<1>5. CASE f \notin files
  <2>1. /\ DOMAIN Published = files /\ DOMAIN Published' = files \cup {f}
        /\ \A g \in files : Published'[g] = Published[g]
        /\ Published'[f] = objects[f]
    BY <1>1 DEF Published
  <2>2. /\ i \in Session /\ sess[i].state # "none"
        /\ Len(objects[f].data) >= sess[i].length
        /\ i \notin disturbed => objects[f].data = Source(sess[i].length)
    BY <1>2 DEF WholeInv, StoredIsWhole, ExactInv, StoredIsExact
  <2>3. i \in DOMAIN Declared /\ Declared[i] = sess[i].length
    BY <2>2 DEF Declared
  <2>. HIDE DEF f, i
  <2>4. Uploads!Holds(i, objects[f].data)
    BY <2>2, <2>3 DEF Uploads!Holds, Source
  <2>5. Uploads!Publish(f)
    BY <1>1, <1>3, <1>5, <2>1, <2>3, <2>4 DEF Uploads!Publish, i
  <2>. QED
    BY <1>2, <2>5 DEF Uploads!Next
<1>. QED
  BY <1>4, <1>5

LEMMA StepRefines ==
    ASSUME WholeInv, ExactInv, [Next]_vars
    PROVE  [Uploads!Next]_<<Declared, disturbed, Published>>
<1>. DEFINE Refined == [Uploads!Next]_<<Declared, disturbed, Published>>
<1>1. TypeOK /\ \A p \in Actor : ~At(p, "idle") => sess[req[p].sess].state # "none"
  BY DEF WholeInv, TypeInv, WorksOnMinted
<1>2. \A p \in Actor : req[p].sess \in Session /\ req[p].offset + req[p].len \in Nat
  BY <1>1 DEF TypeOK, Request, Length
<1>3. ASSUME UNCHANGED <<sess, files, objects>>,
             \/ UNCHANGED disturbed
             \/ \E i \in Session : sess[i].state # "none" /\ disturbed' = disturbed \cup {i}
      PROVE  Refined
  BY <1>3, QuietStep DEF SameLengths, SameFiles
<1>4. ASSUME NEW i \in Session, sess[i].state # "none",
             \/ UNCHANGED sess
             \/ \E s \in {"open", "gone"} : sess' = [sess EXCEPT ![i].state = s]
             \/ \E o \in Nat : sess' = [sess EXCEPT ![i].offset = o]
             \/ sess' = [sess EXCEPT ![i].done = TRUE]
             \/ sess' = [sess EXCEPT ![i].expired = TRUE],
             UNCHANGED <<files, objects, disturbed>>
      PROVE  Refined
  <2>1. SameLengths
    BY <1>1, <1>4, RowSame
  <2>. QED
    BY <1>4, <2>1, QuietStep DEF SameFiles
<1>. HIDE DEF Refined
<1>5. ASSUME NEW p \in Proc, NEW i \in Session, NEW n \in Length, Create(p, i, n) PROVE Refined
  BY <1>1, <1>5, CreateDeclares DEF Refined, Uploads!Next
<1>6. ASSUME NEW p \in Proc, CreateInsert(p) PROVE Refined
  BY <1>1, <1>2, <1>4, <1>6 DEF CreateInsert, Actor, At
<1>7. ASSUME NEW p \in Proc, Patch(p) PROVE Refined
  <2>1. ASSUME NEW i \in Session, NEW o \in Length, NEW n \in Length, AppendBegin(p, i, o, n)
        PROVE  Refined
    BY <1>3, <2>1 DEF AppendBegin, Open
  <2>2. CASE AppendWrite(p)
    BY <1>3, <2>2 DEF AppendWrite
  <2>3. ASSUME NEW m \in Length, AppendTorn(p, m) PROVE Refined
    BY <1>1, <1>2, <1>3, <2>3 DEF AppendTorn, Actor, At
  <2>4. CASE AppendRecord(p)
    BY <1>1, <1>2, <1>4, <2>4 DEF AppendRecord, Actor, At
  <2>. QED
    BY <1>7, <2>1, <2>2, <2>3, <2>4 DEF Patch
<1>8. ASSUME NEW p \in Proc, Finalise(p) PROVE Refined
  <2>1. CASE FinRead(p) \/ FinMeta(p) \/ FinUnlink(p)
    BY <1>3, <2>1 DEF FinRead, FinMeta, FinUnlink
  <2>2. ASSUME NEW f \in File, FinPut(p, f) PROVE Refined
    <3>1. files \subseteq DOMAIN objects
      BY <1>1 DEF TypeOK
    <3>2. SameFiles
      BY <2>2, <3>1 DEF FinPut, SameFiles
    <3>3. SameLengths /\ UNCHANGED disturbed
      BY <2>2 DEF FinPut, SameLengths
    <3>. QED
      BY <3>2, <3>3, QuietStep DEF Refined
  <2>3. CASE FinInsert(p)
    BY <2>3, InsertPublishes DEF Refined
  <2>4. CASE FinComplete(p)
    BY <1>1, <1>2, <1>4, <2>4 DEF FinComplete, Actor, At
  <2>. QED
    BY <1>8, <2>1, <2>2, <2>3, <2>4 DEF Finalise
<1>9. ASSUME NEW p \in Proc, NEW i \in Session, Terminate(p, i) PROVE Refined
  BY <1>3, <1>9 DEF Terminate
<1>10. ASSUME NEW p \in Proc, TermDelete(p) PROVE Refined
  BY <1>1, <1>2, <1>4, <1>10 DEF TermDelete, Actor, At
<1>11. ASSUME NEW p \in Proc, TermUnlink(p) PROVE Refined
  BY <1>3, <1>11 DEF TermUnlink
<1>12. ASSUME NEW w \in Worker, Reap(w) PROVE Refined
  <2>1. ASSUME NEW i \in Session, ReapBegin(w, i) PROVE Refined
    BY <1>3, <2>1 DEF ReapBegin
  <2>2. CASE ReapUnlink(w)
    BY <1>3, <2>2 DEF ReapUnlink
  <2>3. CASE ReapDelete(w)
    BY <1>1, <1>2, <1>4, <2>3 DEF ReapDelete, Actor, At
  <2>. QED
    BY <1>12, <2>1, <2>2, <2>3 DEF Reap
<1>13. ASSUME NEW p \in Actor, Fail(p) PROVE Refined
  <2>1. UNCHANGED disturbed \/ disturbed' = disturbed \cup {req[p].sess}
    BY <1>13 DEF Fail
  <2>. QED
    BY <1>1, <1>2, <1>3, <1>13, <2>1 DEF Fail
<1>14. ASSUME NEW i \in Session, ExpiresAt(i) PROVE Refined
  BY <1>4, <1>14 DEF ExpiresAt, Open
<1>15. ASSUME UNCHANGED vars PROVE Refined
  <2>1. UNCHANGED <<sess, files, objects>> /\ UNCHANGED disturbed
    BY <1>15 DEF vars
  <2>. QED
    BY <1>3, <2>1
<1>. QED
  BY <1>5, <1>6, <1>7, <1>8, <1>9, <1>10, <1>11, <1>12, <1>13, <1>14, <1>15 DEF Next, Refined

\* TusUpload implements AtomicUpload: although appends, offsets, objects and rows
\* are written apart, by requests and reapers nothing orders, a file appears in one
\* step with all that was declared, exactly unless its session had been broken
\* before, and does not change after (tus.rs:191-329).
THEOREM UploadsLookAtomic == Spec => ImplementsUpload
<1>1. ASSUME Init PROVE Uploads!Init
  <2>1. \A i \in Session : sess[i].state = "none"
    BY <1>1 DEF Init
  <2>2. files = {} /\ disturbed = {}
    BY <1>1 DEF Init
  <2>3. Declared = [i \in {} |-> 0]
    BY <2>1 DEF Declared
  <2>4. Published = [f \in {} |-> 0]
    BY <2>2 DEF Published
  <2>. QED
    BY <2>2, <2>3, <2>4 DEF Uploads!Init
<1>2. ASSUME WholeInv, ExactInv, [Next]_vars
      PROVE  [Uploads!Next]_<<Declared, disturbed, Published>>
  BY <1>2, StepRefines
<1>. QED
  BY <1>1, <1>2, Invariants, PTL DEF Spec, ImplementsUpload, Uploads!Spec
=============================================================================
