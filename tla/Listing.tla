----------------------------- MODULE Listing -----------------------------
(***************************************************************************)
(* The two walks of a listing, page by page (api/paginate.ts), while the   *)
(* account they list changes under them.  The monitor and alert listings   *)
(* are walked by offset, the ping listing by cursor.                       *)
(*                                                                         *)
(* Rows are numbered as they are made, so a greater number is newer, and a *)
(* listing is newest first; rows made in the same second have no order of  *)
(* their own in the monitor listing.  A service that does not advance      *)
(* answers every page as if it were the first.  What the caller is handed  *)
(* is counted row by row; in what order is not kept.                       *)
(***************************************************************************)
EXTENDS Integers, Sequences, FiniteSets, SequencesExt

CONSTANTS
  Rows,      \* rows there may ever be
  First,     \* rows there are when the walk begins
  SameTime,  \* sets of rows made in one second
  Limit,     \* the page size asked for
  PageCap,   \* API_MAX_PAGES
  Changes    \* bound: rows made or deleted during the walk

ASSUME RowsAssumption == Rows \subseteq Nat \ {0} /\ First \subseteq Rows /\ IsFiniteSet(First)
ASSUME PagesAssumption == {Limit, PageCap} \subseteq Nat \ {0} /\ Changes \in Nat

VARIABLES
  account,   \* the rows there are
  walk,      \* "offset" or "cursor"
  advances,  \* whether the service heeds where a page is to begin
  offset,    \* offsetWalk's offset
  cursor,    \* cursorWalk's cursor, 0 for undefined
  handedBack,\* cursors seen
  pages,
  yielded,   \* how often each row was handed to the caller
  outcome,   \* "none" while walking, "done", or the error thrown
  made,      \* history: rows made during the walk
  deleted,   \* history: rows deleted during the walk
  shuffled   \* history: whether rows of one second changed places

walkVars == <<account, walk, advances, offset, cursor, handedBack, pages, yielded,
          outcome, made, deleted, shuffled>>

-----------------------------------------------------------------------------
WalkInit ==
  /\ account = First
  /\ walk \in {"offset", "cursor"}
  /\ advances \in BOOLEAN
  /\ offset = 0
  /\ cursor = 0
  /\ handedBack = {}
  /\ pages = 0
  /\ yielded = [row \in Rows |-> 0]
  /\ outcome = "none"
  /\ made = {}
  /\ deleted = {}
  /\ shuffled = FALSE

\* Those of the rows that are newer.
Newer(row, rows) == {other \in rows : other > row}

\* Each row stands behind as many as are newer.
Sorted(rows) ==
  [i \in 1..Cardinality(rows) |-> CHOOSE row \in rows : Cardinality(Newer(row, rows)) = i - 1]

NewestFirst == Sorted(account)

\* The order a page is taken from: rows of one second may stand either way.
Orders ==
  {NewestFirst} \cup
  {[NewestFirst EXCEPT ![i] = NewestFirst[i + 1], ![i + 1] = NewestFirst[i]] :
     i \in {j \in 1..(Len(NewestFirst) - 1) :
              \E group \in SameTime : {NewestFirst[j], NewestFirst[j + 1]} \subseteq group}}

PageOf(order, from, limit) ==
  SubSeq(order, from + 1, IF from + limit <= Len(order) THEN from + limit ELSE Len(order))

\* How many rows the service says there are; one that does not advance may say
\* there is always more to come.
Totals(order) == {Len(order)} \cup (IF advances THEN {} ELSE {offset + 2 * Limit})

\* What cursorWalk hands out: every row of every page.
YieldAll(data) == [row \in Rows |-> yielded[row] + Cardinality({i \in DOMAIN data : data[i] = row})]

\* A row is handed out the first time it is seen.
YieldUnseen(data) ==
  [row \in Rows |-> IF row \in ToSet(data) /\ yielded[row] = 0 THEN 1 ELSE yielded[row]]

\* Mutant: the next page is the next page, however short this one was.
NextPageIsNext(data) == offset + Limit + 1

OffsetAfter(data) == offset + Len(data)

\* A page is short by the size the service says it answers with, not by the
\* size it was asked for.
IsLastPage(data, answered, total) ==
  Len(data) = 0 \/ Len(data) < answered \/ offset + Len(data) >= total

Exhausted == pages >= PageCap

\* The service answers with the page size it was asked for, or a smaller one.
OffsetPage ==
  /\ walk = "offset" /\ outcome = "none" /\ ~Exhausted
  /\ \E order \in Orders, answered \in 1..Limit : \E total \in Totals(order) :
       LET from == IF advances THEN offset ELSE 0
           data == PageOf(order, from, answered)
       IN /\ yielded' = YieldUnseen(data)
          /\ offset' = OffsetAfter(data)
          /\ outcome' = IF IsLastPage(data, answered, total) THEN "done" ELSE "none"
          /\ shuffled' = (shuffled \/ order # NewestFirst)
  /\ pages' = pages + 1
  /\ UNCHANGED <<account, walk, advances, cursor, handedBack, made, deleted>>

\* A page that echoes a size below one is one no walk can advance by.
OffsetPageUnusable ==
  /\ walk = "offset" /\ outcome = "none" /\ ~Exhausted
  /\ outcome' = "hydration"
  /\ pages' = pages + 1
  /\ UNCHANGED <<account, walk, advances, offset, cursor, handedBack, yielded, made, deleted, shuffled>>

\* Mutant: a cursor seen before is followed again.
NeverHandedBack(next) == FALSE

HandedBack(next) == next \in handedBack

CursorAfter(next) == next

CursorPage ==
  /\ walk = "cursor" /\ outcome = "none" /\ ~Exhausted
  /\ LET older == IF advances /\ cursor # 0
                    THEN Sorted({row \in account : row < cursor}) ELSE NewestFirst
         data  == PageOf(older, 0, Limit)
         next  == IF Len(older) > Limit THEN data[Limit] ELSE 0
     IN /\ yielded' = YieldAll(data)
        /\ outcome' = IF next = 0 THEN "done" ELSE IF HandedBack(next) THEN "unbounded" ELSE "none"
        /\ handedBack' = IF outcome' = "none" THEN handedBack \cup {next} ELSE handedBack
        /\ cursor' = IF outcome' = "none" THEN CursorAfter(next) ELSE cursor
  /\ pages' = pages + 1
  /\ UNCHANGED <<account, walk, advances, offset, made, deleted, shuffled>>

\* Mutant: the walk asks for no more and does not say so.
SayNothing == FALSE

GiveUp ==
  /\ outcome = "none" /\ Exhausted
  /\ outcome' = "unbounded"
  /\ UNCHANGED <<account, walk, advances, offset, cursor, handedBack, pages, yielded,
                 made, deleted, shuffled>>

\* The request for a page failed, retries and all: the walk throws it on.
PageFails ==
  /\ outcome = "none" /\ ~Exhausted
  /\ outcome' = "refused"
  /\ UNCHANGED <<account, walk, advances, offset, cursor, handedBack, pages, yielded,
                 made, deleted, shuffled>>

-----------------------------------------------------------------------------
(* What others do to the account meanwhile.                                 *)

MakeRow ==
  /\ outcome = "none" /\ Cardinality(made \cup deleted) < Changes
  /\ \E row \in Rows \ (account \cup deleted) :
       /\ \A other \in account \cup deleted : row > other
       /\ account' = account \cup {row}
       /\ made' = made \cup {row}
  /\ UNCHANGED <<walk, advances, offset, cursor, handedBack, pages, yielded, outcome,
                 deleted, shuffled>>

DeleteRow ==
  /\ outcome = "none" /\ Cardinality(made \cup deleted) < Changes
  /\ \E row \in account \cap First :
       /\ account' = account \ {row}
       /\ deleted' = deleted \cup {row}
  /\ UNCHANGED <<walk, advances, offset, cursor, handedBack, pages, yielded, outcome,
                 made, shuffled>>

Walk == OffsetPage \/ OffsetPageUnusable \/ CursorPage \/ GiveUp \/ PageFails

WalkNext == Walk \/ MakeRow \/ DeleteRow

\* The caller goes on asking for rows; the account owes nothing.
WalkSpec == WalkInit /\ [][WalkNext]_walkVars /\ WF_walkVars(Walk)

-----------------------------------------------------------------------------
\* Type: every variable holds a value of its kind.
WalkTypeOK ==
  /\ account \subseteq Rows
  /\ walk \in {"offset", "cursor"}
  /\ advances \in BOOLEAN
  /\ offset \in 0..(PageCap * Limit)
  /\ cursor \in Rows \cup {0}
  /\ handedBack \subseteq Rows
  /\ pages \in 0..PageCap
  /\ yielded \in [Rows -> Nat]
  /\ outcome \in {"none", "done", "unbounded", "hydration", "refused"}
  /\ made \subseteq Rows /\ deleted \subseteq First
  /\ shuffled \in BOOLEAN

\* Nobody who lists monitors or alerts sees one twice, though rows made
\* meanwhile push it on to the next page and a page may be answered again.
NoRowTwice == walk = "offset" => \A row \in Rows : yielded[row] <= 1

\* Of the rows that were there all along a finished listing misses no more than
\* others were deleted meanwhile, unless two of one second changed places.
SkippedForACause ==
  walk = "offset" /\ advances /\ outcome = "done" /\ ~shuffled =>
    Cardinality({row \in First \ deleted : yielded[row] = 0}) <= Cardinality(deleted)

\* What a listing by offset leaves out or hands out is accounted for.
OffsetWalkIsExplained == WalkTypeOK /\ NoRowTwice /\ SkippedForACause

\* A walk by cursor is exact whatever is made or deleted meanwhile: each row
\* that was there all along is handed out once.
AdvancingWalkIsExact ==
  walk = "cursor" /\ advances =>
    /\ \A row \in Rows : yielded[row] <= 1
    /\ outcome = "done" => \A row \in First \ deleted : yielded[row] > 0

\* A cursor that is ignored, by a service whose account does not change under
\* the walk, is noticed on the second page: the walk never reads a row a third
\* time, nor passes what it read twice for a whole listing.  Rows made meanwhile
\* change the first page and the cursor with it: PageCap then ends the walk.
RestartIsNoticed ==
  walk = "cursor" /\ ~advances /\ made \cup deleted = {} =>
    /\ \A row \in Rows : yielded[row] <= 2
    /\ outcome = "done" => \A row \in Rows : yielded[row] <= 1

\* A listing by cursor is exact, of a service that follows the cursor; of one
\* that does not, the restart is noticed while the account stays as it is.
CursorWalkIsExact == AdvancingWalkIsExact /\ RestartIsNoticed

\* Every walk ends, were the service never to advance and rows to be made for
\* as long as it lasts.
WalkEnds == <>(outcome # "none")
=============================================================================
