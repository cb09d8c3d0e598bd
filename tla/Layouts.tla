------------------------------ MODULE Layouts ------------------------------
(***************************************************************************)
(* The four pages that lay out a list of files without paging it           *)
(* (src/frontend/app/files: board, gallery, timeline, calendar).  Each is  *)
(* a function of the rows its fetch returned: lanes, which show some files *)
(* and count the others.                                                   *)
(***************************************************************************)
EXTENDS Integers, Sequences, FiniteSets, SequencesExt

CONSTANTS
    Modified,       \* Seq(File), newest first: ORDER BY modified_at DESC
    StatusOf,       \* [File -> Status]
    OwnerOf,        \* [File -> owner]
    Recent,         \* the files modified within the last 24 hours
    Months,         \* Seq([first, days]): weekday of the first (0 is Sunday), length
    DayOf,          \* [File -> <<month, day>>]: the UTC date of modified_at
    LaneSize,       \* cards of a board lane, 6
    CellSize        \* files of a calendar cell, 3

File == Range(Modified)
Status == {StatusOf[f] : f \in File}

ASSUME LayoutsAssumption ==
    /\ Modified \in Seq(File) /\ IsInjective(Modified)
    /\ Recent \subseteq File
    /\ Months \in Seq([first : 0..6, days : 28..31])
    /\ \A f \in File : \E m \in DOMAIN Months : DayOf[f] \in {m} \X (1..Months[m].days)
    /\ {LaneSize, CellSize} \subseteq Nat

-----------------------------------------------------------------------------
Take(s, n) == SubSeq(s, 1, IF n < Len(s) THEN n ELSE Len(s))

\* The elements of s at the positions I, in order; those that are in S.
Nth(I, k) == CHOOSE i \in I : Cardinality({j \in I : j <= i}) = k
At(s, I) == [k \in 1..Cardinality(I) |-> s[Nth(I, k)]]
Only(s, S) == At(s, {i \in DOMAIN s : s[i] \in S})

\* slice(0, n), and "+ more".
Lane(files, n) == [shown |-> Take(files, n), more |-> Len(files) - Len(Take(files, n))]
Whole(files) == Lane(files, Len(files))

\* The values of a field, in row order and each once.
Distinct(values) ==
    At(values, {i \in DOMAIN values : \A j \in DOMAIN values : values[j] = values[i] => i <= j})

STATUS_COLUMNS == <<"Inbox", "Review", "Approved", "Archived">>

\* statusToCol: a status without a lane is in the inbox.
StatusToCol(f) ==
    CASE StatusOf[f] \in {"Approved", "Active"} -> "Approved"
      [] StatusOf[f] \in {"Review", "Archived"} -> StatusOf[f]
      [] OTHER -> "Inbox"

\* Four fixed lanes, or one per value of another field.
Board(rows, group) ==
    LET col(f) == IF group = "status" THEN StatusToCol(f) ELSE OwnerOf[f]
        columns == IF group = "status" THEN STATUS_COLUMNS ELSE Distinct([i \in DOMAIN rows |-> OwnerOf[rows[i]]])
    IN  [c \in DOMAIN columns |->
            Lane(Only(rows, {f \in File : col(f) = columns[c]}), LaneSize)]

BucketByDay(rows) ==
    <<Only(rows, Recent), Only(rows, File \ Recent)>>
Gallery(rows) == [s \in 1..2 |-> Whole(BucketByDay(rows)[s])]

Timeline(rows) ==
    LET days == Distinct([i \in DOMAIN rows |-> DayOf[rows[i]]])
    IN  [d \in DOMAIN days |-> Whole(Only(rows, {f \in File : DayOf[f] = days[d]}))]

\* Six weeks of cells; 0 is a blank one.
MonthGrid(m) == [c \in 1..42 |-> IF c - m.first \in 1..m.days THEN c - m.first ELSE 0]

Calendar(rows, m) ==
    [c \in DOMAIN MonthGrid(Months[m]) |->
        Lane(Only(rows, {f \in File : DayOf[f] = <<m, MonthGrid(Months[m])[c]>>}), CellSize)]

\* ?month=: the month is read from one and kept from zero.
ReadMonth(year, month) == [year |-> year, month |-> month - 1]
PrevMonth(at) == IF at.month = 0 THEN ReadMonth(at.year - 1, 12) ELSE ReadMonth(at.year, at.month)
NextMonth(at) == IF at.month = 11 THEN ReadMonth(at.year + 1, 1) ELSE ReadMonth(at.year, at.month + 2)

-----------------------------------------------------------------------------
(* What the property of the file browser is built from.                    *)

Lists == UNION {SetToSeqs(F) : F \in SUBSET File}

\* Each row is in exactly one of the lanes, and shown there or counted.
Partition(rows, lanes) ==
    /\ \A f \in Range(rows) :
        Cardinality({l \in DOMAIN lanes : f \in Range(lanes[l].shown)}) <= 1
    /\ SumFunction([l \in DOMAIN lanes |-> Len(lanes[l].shown) + lanes[l].more]) = Len(rows)

\* The lanes of a board under either grouping, the two parts of the gallery, the
\* days of the timeline, the cells of the calendar's months together.
LanesPartition(rows) ==
    /\ \A group \in {"status", "owner"} : Partition(rows, Board(rows, group))
    /\ Partition(rows, Gallery(rows))
    /\ Partition(rows, Timeline(rows))
    /\ Partition(rows, [at \in (DOMAIN Months) \X (1..42) |-> Calendar(rows, at[1])[at[2]]])

\* The arrows of the calendar visit the months one after the other.
MonthsInOrder ==
    \A y \in 1..3, m \in 0..11 :
        LET at == [year |-> y, month |-> m]
            serial(p) == 12 * p.year + p.month
        IN  serial(NextMonth(at)) = serial(at) + 1 /\ serial(PrevMonth(at)) = serial(at) - 1

EveryListPartitions == MonthsInOrder /\ \A rows \in Lists : LanesPartition(rows)
=============================================================================
