----------------------------- MODULE SkillPaging -----------------------------
(***************************************************************************)
(* Walking the skill list page by page while skills are added, deleted,    *)
(* hidden and downloaded.  Sorted by "latest" the cursor is the last row's *)
(* creation time and id; every other order uses an offset for a cursor.    *)
(* One row more than the page holds tells whether there is a next page.    *)
(***************************************************************************)
EXTENDS Naturals, SequencesExt

CONSTANTS Skills,      \* ids, naturals: their order breaks ties
          MaxTime, MaxLimit,
          MaxChanges,  \* bound on catalog changes during the walk
          None, End

VARIABLES created,     \* creation time; 0 while the skill does not exist
          shown,       \* rows the filter admits: not deleted, visible to the caller
          score,       \* what the other orders sort by first
          sort, limit, \* of this walk
          cursor,      \* None before the first page, End after the last
          pages,       \* ids returned so far, in order
          steady,      \* rows shown ever since the walk began
          order0,      \* the full result when the walk began
          now, changes

vars == <<created, shown, score, sort, limit, cursor, pages, steady, order0, now, changes>>

TypeOK ==
  /\ created \in [Skills -> 0..MaxTime] /\ shown \subseteq Skills /\ score \in [Skills -> 0..1]
  /\ sort \in {"latest", "downloads"} /\ limit \in 1..MaxLimit
  /\ pages \in Seq(Skills) /\ steady \subseteq Skills /\ now \in 1..MaxTime /\ changes \in 0..MaxChanges

(* ORDER BY: newest first, then the larger id; the other orders put the    *)
(* score in front.                                                         *)
Later(a, b) == created[a] > created[b] \/ (created[a] = created[b] /\ a > b)
Before(a, b) ==
  IF sort = "latest" THEN Later(a, b)
  ELSE score[a] > score[b] \/ (score[a] = score[b] /\ Later(a, b))
Ordered(S) == SetToSortSeq(S, Before)

Init ==
  /\ \E S \in SUBSET Skills : shown = S /\ created \in {f \in [Skills -> 0..2] : \A k \in Skills : f[k] > 0 <=> k \in S}
  /\ score = [k \in Skills |-> 0] /\ sort \in {"latest", "downloads"} /\ limit \in 1..MaxLimit
  /\ cursor = None /\ pages = <<>> /\ steady = shown /\ order0 = Ordered(shown)
  /\ now = 2 /\ changes = 0

-----------------------------------------------------------------------------
(* Mutant: rows created at the cursor's instant are left out.              *)
StrictTime(k) == created[k] < cursor.time

(* The keyset condition of the next page.                                  *)
AfterCursor(k) == created[k] < cursor.time \/ (created[k] = cursor.time /\ k < cursor.id)

buildCursor(rows) == LET l == rows[limit] IN [time |-> created[l], id |-> l]

Page(rows) == SubSeq(rows, 1, IF Len(rows) < limit THEN Len(rows) ELSE limit)

(* The keyset page.                                                        *)
queryListResult ==
  LET rows == Ordered({k \in shown : cursor = None \/ AfterCursor(k)}) IN
  /\ sort = "latest" /\ cursor # End
  /\ pages' = pages \o Page(rows)
  /\ cursor' = IF Len(rows) > limit THEN buildCursor(rows) ELSE End
  /\ UNCHANGED <<created, shown, score, sort, limit, steady, order0, now, changes>>

NextOffset(offset) == offset + limit

(* The offset page.                                                        *)
queryOffsetCursorListResult ==
  LET offset == IF cursor = None THEN 0 ELSE cursor.offset
      all == Ordered(shown)
      rows == SubSeq(all, offset + 1, Len(all)) IN
  /\ sort # "latest" /\ cursor # End
  /\ pages' = pages \o Page(rows)
  /\ cursor' = IF Len(rows) > limit THEN [offset |-> NextOffset(offset)] ELSE End
  /\ UNCHANGED <<created, shown, score, sort, limit, steady, order0, now, changes>>

-----------------------------------------------------------------------------
Changes == changes < MaxChanges /\ changes' = changes + 1 /\ cursor \notin {None, End}
Insert(k) ==
  /\ Changes /\ created[k] = 0
  /\ created' = [created EXCEPT ![k] = now] /\ shown' = shown \cup {k}
  /\ UNCHANGED <<score, sort, limit, cursor, pages, steady, order0, now>>
Hide(k) ==
  /\ Changes /\ k \in shown /\ shown' = shown \ {k} /\ steady' = steady \ {k}
  /\ UNCHANGED <<created, score, sort, limit, cursor, pages, order0, now>>
Download(k) ==
  /\ Changes /\ score[k] = 0 /\ score' = [score EXCEPT ![k] = 1]
  /\ UNCHANGED <<created, shown, sort, limit, cursor, pages, steady, order0, now>>
Tick ==
  /\ now < MaxTime /\ now' = now + 1
  /\ UNCHANGED <<created, shown, score, sort, limit, cursor, pages, steady, order0, changes>>

Next ==
  \/ queryListResult \/ queryOffsetCursorListResult \/ Tick
  \/ \E k \in Skills : Insert(k) \/ Hide(k) \/ Download(k)

Spec == Init /\ [][Next]_vars

-----------------------------------------------------------------------------
Returned == {pages[i] : i \in 1..Len(pages)}

(* A keyset walk is complete and repeats nothing: every skill that was     *)
(* listed all along is returned exactly once, in order, whatever was       *)
(* inserted, deleted or hidden and however many share an instant.          *)
KeysetIsComplete ==
  sort = "latest" =>
    /\ \A i, j \in 1..Len(pages) : i < j => Later(pages[i], pages[j])
    /\ cursor = End => steady \subseteq Returned

(* An offset walk over a catalog that does not change returns exactly what *)
(* one query would have returned.                                          *)
QuietOffsetIsComplete ==
  sort # "latest" /\ changes = 0 => IsPrefix(pages, order0) /\ (cursor = End => pages = order0)

(* A walk through the pages is the list (queryListResult,                  *)
(* queryOffsetCursorListResult).                                           *)
PagingComplete ==
  /\ KeysetIsComplete
  /\ QuietOffsetIsComplete
=============================================================================
