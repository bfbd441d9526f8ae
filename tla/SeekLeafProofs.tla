--------------------------- MODULE SeekLeafProofs ---------------------------
(* Theorems about SeekLeaf, for every number of postings and page size. *)
EXTENDS SeekLeaf, FiniteSetTheorems, WellFoundedInduction, TLAPS

\* The postings that were there when the run started.
Earlier == {i \in listed : i <= run.start}

\* As long as a cutoff is in force and no posting was taken off the list, the
\* pages behind the run have been stored: arrivals only push postings down.
PagesStored ==
    run.cutoff # NoTime /\ ~run.disturbed =>
        \A i \in Earlier : run.cutoff < i /\ RankOf(i) <= (run.page - 1) * PageSize => i \in known

PagingInv ==
    run.at = "paging" => run.cutoff \in {NoTime, run.window} /\ PagesStored

\* The postings that were there when the count was read.
Counted == {i \in listed : i <= countedAt}

CountInv == reported # NoCount => Cardinality(Counted) <= reported

LeafInv == TypeOK /\ PagingInv /\ CountInv /\ NothingFallsBetweenRuns
-----------------------------------------------------------------------------
(* The order of the list.                                                  *)

\* The list and the leaf are finite.
LEMMA Finite ==
    ASSUME TypeOK
    PROVE  IsFiniteSet(listed) /\ IsFiniteSet(members)
<1>1. IsFiniteSet(1..posted)
  BY FS_Interval DEF TypeOK
<1>2. listed \subseteq 1..posted /\ members \subseteq 1..posted
  BY DEF TypeOK
<1>3. QED
  BY <1>1, <1>2, FS_Subset

\* Ranks are numbers from 1.
LEMMA RankType ==
    ASSUME TypeOK, NEW i \in listed
    PROVE  RankOf(i) \in Nat \ {0}
<1> DEFINE above == {k \in listed : Above(k, i)}
<1>1. IsFiniteSet(listed)
  BY Finite
<1>2. IsFiniteSet(above) /\ i \in above
  BY <1>1, FS_Subset DEF Above, TypeOK
<1>3. Cardinality(above) \in Nat /\ Cardinality(above) # 0
  BY <1>2, FS_CardinalityType, FS_EmptySet
<1>4. QED
  BY <1>3 DEF RankOf

\* A posting that is not below another has no larger rank.
LEMMA RankOrder ==
    ASSUME TypeOK, NEW c \in listed, NEW i \in listed, ~Above(c, i)
    PROVE  RankOf(i) <= RankOf(c)
<1> DEFINE up(j) == {k \in listed : Above(k, j)}
<1>1. up(i) \subseteq up(c)
  <2> SUFFICES ASSUME NEW k \in listed, Above(k, i) PROVE Above(k, c)
    OBVIOUS
  <2>1. c \in Int /\ i \in Int /\ k \in Int
    BY DEF TypeOK
  <2>2. QED
    BY <2>1 DEF Above
<1>2. IsFiniteSet(up(c))
  BY Finite, FS_Subset
<1>3. Cardinality(up(i)) <= Cardinality(up(c))
  BY <1>1, <1>2, FS_Subset
<1>4. QED
  BY <1>3 DEF RankOf

\* A bounded set of numbers has a greatest one.
LEMMA Greatest ==
    ASSUME NEW n \in Nat, NEW S, S \subseteq 1..n, S # {}
    PROVE  \E m \in S : \A k \in S : k <= m
<1> DEFINE T == {n - k : k \in S}
<1>1. T \subseteq Nat /\ T # {}
  <2>1. \A k \in S : k \in 1..n /\ n - k \in Nat
    OBVIOUS
  <2>2. PICK k \in S : TRUE
    OBVIOUS
  <2>3. n - k \in T
    OBVIOUS
  <2>4. QED
    BY <2>1, <2>3
<1>2. PICK x \in T : \A y \in T : ~ (<<y, x>> \in OpToRel(<, Nat))
  <2> HIDE DEF T
  <2>1. QED
    BY <1>1, NatLessThanWellFounded, WFMin
<1>3. \A y \in T : x <= y
  <2> HIDE DEF T
  <2> SUFFICES ASSUME NEW y \in T PROVE x <= y
    OBVIOUS
  <2>1. x \in Nat /\ y \in Nat
    BY <1>1
  <2>2. ~ (y < x)
    BY <1>2, <2>1 DEF OpToRel
  <2>3. QED
    BY <2>1, <2>2
<1>4. PICK m \in S : x = n - m
  OBVIOUS
<1>5. \A k \in S : k <= m
  <2> SUFFICES ASSUME NEW k \in S PROVE k <= m
    OBVIOUS
  <2>1. x <= n - k
    BY <1>3
  <2>2. k \in 1..n /\ m \in 1..n
    <3> HIDE DEF T
    <3>1. QED
      OBVIOUS
  <2>3. QED
    BY <1>4, <2>1, <2>2
<1>6. QED
  BY <1>5

\* The bounds of a page.
LEMMA PageBounds ==
    ASSUME NEW p \in Nat \ {0}, NEW s \in Nat \ {0}
    PROVE  /\ (p - 1) * s \in Nat /\ p * s \in Nat
           /\ p = 1 => (p - 1) * s = 0 /\ p * s = s
           /\ p # 1 => (p - 1) * s >= s
<1>1. p = 1 => (p - 1) * s = 0 /\ p * s = s
  OBVIOUS
<1>2. p # 1 => (p - 1) * s >= s
  <2>1. \A q \in Nat : q >= 1 => q * s >= s
    OBVIOUS
  <2>2. QED
    BY <2>1
<1>3. (p - 1) * s \in Nat /\ p * s \in Nat
  OBVIOUS
<1>4. QED
  BY <1>1, <1>2, <1>3

\* The types of a run while it pages.
LEMMA PagingType ==
    ASSUME TypeOK, run.at = "paging"
    PROVE  /\ run \in PagingRuns
           /\ run.page \in Nat \ {0} /\ run.start \in 0..posted /\ run.cutoff \in Int
           /\ run.window \in Int /\ run.fresh \in BOOLEAN /\ reported \in Nat
           /\ PageSize \in Nat \ {0}
<1>1. run \in PagingRuns
  BY DEF TypeOK, IdleRuns, StartedRuns
<1>2. QED
  BY <1>1, LeafAssumption DEF TypeOK, PagingRuns

\* A pinned posting lies on the first page, as the list begins with the pinned.
LEMMA PinnedRank ==
    ASSUME TypeOK, NEW c \in listed, c \in Pinned
    PROVE  RankOf(c) <= Cardinality(Pinned) /\ Cardinality(Pinned) \in Nat
<1> DEFINE up == {k \in listed : Above(k, c)}
<1>1. IsFiniteSet(Pinned)
  <2>1. IsFiniteSet(1..MaxPosted) /\ Pinned \subseteq 1..MaxPosted
    BY FS_Interval, LeafAssumption
  <2>2. QED
    BY <2>1, FS_Subset
<1>2. up \subseteq Pinned
  BY DEF Above
<1>3. Cardinality(up) <= Cardinality(Pinned)
  BY <1>1, <1>2, FS_Subset
<1>4. QED
  BY <1>1, <1>3, FS_CardinalityType DEF RankOf

\* The newest posting that is not pinned follows the pinned ones directly.
LEMMA FirstInOrder ==
    ASSUME TypeOK, NEW j \in listed, j \notin Pinned,
           \A k \in listed \ Pinned : k <= j
    PROVE  RankOf(j) <= Cardinality(Pinned) + 1
<1> DEFINE up == {k \in listed : Above(k, j)}
<1>1. IsFiniteSet(Pinned)
  <2>1. IsFiniteSet(1..MaxPosted) /\ Pinned \subseteq 1..MaxPosted
    BY FS_Interval, LeafAssumption
  <2>2. QED
    BY <2>1, FS_Subset
<1>2. IsFiniteSet(Pinned \cup {j}) /\ Cardinality(Pinned \cup {j}) = Cardinality(Pinned) + 1
  BY <1>1, FS_AddElement
<1>3. up \subseteq Pinned \cup {j}
  <2> SUFFICES ASSUME NEW k \in listed, Above(k, j), k \notin Pinned PROVE k = j
    OBVIOUS
  <2>1. k >= j /\ k <= j /\ k \in Int /\ j \in Int
    BY DEF Above, TypeOK
  <2>2. QED
    BY <2>1
<1>4. Cardinality(up) <= Cardinality(Pinned \cup {j})
  BY <1>2, <1>3, FS_Subset
<1>5. QED
  BY <1>2, <1>4 DEF RankOf

\* The types of a run that has not ended.
LEMMA RunType ==
    ASSUME TypeOK, run.at # "idle"
    PROVE  run.start \in 0..posted /\ run.window \in Int /\ run.fresh \in BOOLEAN
<1>1. CASE run \in StartedRuns
  BY <1>1 DEF TypeOK, StartedRuns
<1>2. CASE run \in PagingRuns
  BY <1>2 DEF TypeOK, PagingRuns
<1>3. QED
  BY <1>1, <1>2 DEF TypeOK, IdleRuns

\* The key to a cutoff: when a safe page reaches it, everything after it was on
\* this page or on one before, or else the page would be out of order.
LEMMA CutoffIsSafe ==
    ASSUME TypeOK, PagingInv, run.at = "paging", ~run.disturbed,
           NEW c \in Page(run.page), Safe(Page(run.page)), c <= run.cutoff,
           NEW i \in Earlier, run.cutoff < i
    PROVE  i \in known \cup Kept(Page(run.page))
<1> DEFINE cards == Page(run.page)
           lo == (run.page - 1) * PageSize
           hi == run.page * PageSize
<1>1. /\ lo \in Nat /\ hi \in Nat
      /\ run.page = 1 => lo = 0 /\ hi = PageSize
      /\ run.page # 1 => lo >= PageSize
  BY PagingType, PageBounds
<1>2. i \in listed /\ c \in listed /\ i \in Int /\ c \in Int /\ run.cutoff \in Int
  BY PagingType DEF Earlier, Page, TypeOK
<1>3. RankOf(i) \in Nat /\ RankOf(c) \in Nat
  BY <1>2, RankType
<1>4. lo < RankOf(c) /\ RankOf(c) <= hi
  BY DEF Page
<1>5. CASE RankOf(i) <= lo
  BY <1>5 DEF PagingInv, PagesStored, Safe
<1>6. CASE lo < RankOf(i) /\ RankOf(i) <= hi
  <2>1. i \in cards
    BY <1>2, <1>6 DEF Page
  <2>2. QED
    BY <2>1 DEF Kept
<1>7. CASE hi < RankOf(i)
  <2>1. Above(c, i)
    <3>1. ~Above(c, i) => RankOf(i) <= RankOf(c)
      BY <1>2, RankOrder
    <3> HIDE DEF lo, hi
    <3>2. QED
      BY <1>1, <1>3, <1>4, <1>7, <3>1
  <2>2. c \in Pinned /\ i \notin Pinned
    BY <1>2, <2>1 DEF Above
  <2>3. RankOf(c) < PageSize
    BY <1>2, <1>3, <2>2, PinnedRank, PinnedAssumption, PagingType
  <2>4. run.page = 1 /\ lo = 0 /\ hi = PageSize
    BY <1>1, <1>3, <1>4, <2>3, PagingType
  <2>5. PICK j \in listed \ Pinned : \A k \in listed \ Pinned : k <= j
    <3>1. listed \ Pinned \subseteq 1..posted /\ listed \ Pinned # {} /\ posted \in Nat
      BY <1>2, <2>2 DEF TypeOK
    <3>2. QED
      BY <3>1, Greatest
  <2>6. RankOf(j) \in Nat \ {0} /\ RankOf(j) <= PageSize
    <3>1. RankOf(j) <= Cardinality(Pinned) + 1
      BY <2>5, FirstInOrder
    <3>2. Cardinality(Pinned) \in Nat
      BY <1>2, <2>2, PinnedRank
    <3>3. QED
      BY <2>5, <3>1, <3>2, RankType, PinnedAssumption, PagingType
  <2>7. j \in cards /\ j \in Int /\ i <= j
    BY <1>2, <2>2, <2>4, <2>5, <2>6 DEF Page, TypeOK
  <2>8. c >= j
    BY <2>2, <2>5, <2>7 DEF Safe, Above
  <2>9. QED
    BY <1>2, <2>7, <2>8
<1>8. QED
  BY <1>1, <1>3, <1>5, <1>6, <1>7

-----------------------------------------------------------------------------
(* The steps.                                                              *)

\* Cards are stored by the first part of a page or by all of it.
LEMMA KeptType == ASSUME TypeOK, NEW n PROVE Kept(Page(n)) \subseteq listed
  BY DEF Kept, Page

\* The end of a run keeps the types.
LEMMA FinishType ==
    ASSUME TypeOK, run.at # "idle", NEW status \in Complete, NEW seen, Finish(status, seen),
           members' \subseteq known', known' \subseteq 1..posted,
           reported' \in Nat \cup {NoCount}, countedAt' \in 0..posted,
           UNCHANGED <<world, stops>>
    PROVE  TypeOK'
<1>1. run' = [at |-> "idle", last |-> status] /\ run' \in IdleRuns
  BY DEF Finish, Ended, IdleRuns
<1>2. watermark' \in NoTime..posted
  BY RunType DEF Finish, NewWatermark, TypeOK, NoTime
<1>3. forgone' \in Nat
  BY RunType DEF Finish, GaveUp, TypeOK, NoTime
<1>4. missed' \subseteq 1..posted
  BY DEF Finish, Missing, TypeOK
<1>5. QED
  BY <1>1, <1>2, <1>3, <1>4 DEF TypeOK, world

\* A run that ends leaves no gap below the watermark it may set.
LEMMA FinishLeavesNoGap ==
    ASSUME TypeOK, NothingFallsBetweenRuns, run.at # "idle",
           NEW status \in Complete, NEW seen, Finish(status, seen),
           known \subseteq known', seen \subseteq known', UNCHANGED listed,
           status = "COMPLETE_INCREMENTAL" /\ ~run.disturbed =>
               \A i \in Earlier : run.window < i => i \in known'
    PROVE  NothingFallsBetweenRuns'
<1> SUFFICES ASSUME NEW i \in listed, i <= watermark', i \notin known', i \notin missed'
             PROVE  i <= forgone'
  BY DEF NothingFallsBetweenRuns
<1>1. /\ i \in Nat /\ i \notin known /\ i \notin missed
      /\ watermark \in Int /\ forgone \in Nat
  BY DEF Finish, TypeOK, NoTime
<1>2. i <= watermark => i <= forgone
  BY <1>1 DEF NothingFallsBetweenRuns
<1>3. forgone' \in Nat /\ forgone' >= forgone
  BY <1>1, RunType DEF Finish, GaveUp
<1>4. CASE ~run.fresh
  BY <1>1, <1>2, <1>3, <1>4 DEF Finish, NewWatermark
<1>5. CASE run.fresh
  <2>1. watermark' = run.start /\ GaveUp /\ run.start \in Int /\ run.window \in Int
    BY <1>5, RunType DEF Finish, NewWatermark
  <2>2. i \in Earlier
    BY <2>1 DEF Earlier
  <2>3. i <= run.window
    <3>1. CASE status = "COMPLETE_INCREMENTAL" /\ ~run.disturbed
      BY <1>1, <2>1, <2>2, <3>1
    <3>2. CASE ~(status = "COMPLETE_INCREMENTAL" /\ ~run.disturbed)
      BY <1>1, <2>1, <2>2, <3>2 DEF Finish, Missing, Earlier
    <3>3. QED
      BY <3>1, <3>2
  <2>5. CASE run.window > watermark
    BY <1>1, <1>5, <2>1, <2>3, <2>5 DEF GaveUp
  <2>6. CASE ~(run.window > watermark)
    BY <1>1, <1>2, <1>3, <2>1, <2>3, <2>6
  <2>7. QED
    BY <2>5, <2>6
<1>6. QED
  BY <1>4, <1>5

\* What was counted becomes less as postings are taken off the list.
LEMMA CountKept ==
    ASSUME TypeOK, CountInv, reported' = reported, countedAt' = countedAt,
           Counted' \subseteq Counted
    PROVE  CountInv'
<1>1. IsFiniteSet(Counted)
  BY Finite, FS_Subset DEF Counted
<1>2. /\ Cardinality(Counted') <= Cardinality(Counted)
      /\ Cardinality(Counted) \in Nat /\ Cardinality(Counted') \in Nat
  BY <1>1, FS_Subset, FS_CardinalityType
<1>3. QED
  BY <1>2 DEF CountInv, TypeOK, NoCount

\* The same leaf in the next pass.
LEMMA NextPassKeeps ==
    ASSUME LeafInv, run.at = "paging", NextPass, members' \subseteq known', known \subseteq known',
           known' \subseteq 1..posted, UNCHANGED <<world, count, stops>>
    PROVE  LeafInv'
<1> USE DEF LeafInv
<1>1. run' \in StartedRuns /\ run'.at = "started" /\ run'.start = run.start
  <2>1. /\ run.start \in 0..posted /\ run.window \in Int /\ run.fresh \in BOOLEAN
        /\ run' = Started(run.fresh, run.start, run.window)
    BY RunType DEF NextPass
  <2>2. 0..posted \subseteq 0..MaxPosted
    BY LeafAssumption DEF TypeOK
  <2>3. QED
    BY <2>1, <2>2 DEF Started, StartedRuns
<1>2. TypeOK'
  BY <1>1, RunType DEF NextPass, TypeOK, world, history, count
<1>3. PagingInv'
  BY <1>1 DEF PagingInv
<1>4. CountInv'
  BY DEF CountInv, Counted, count, world
<1>5. NothingFallsBetweenRuns'
  BY DEF NothingFallsBetweenRuns, NextPass, history, world
<1>6. QED
  BY <1>2, <1>3, <1>4, <1>5

\* An arrival is newer than the run and pushes no posting up.
LEMMA PostKeeps == ASSUME LeafInv, Post PROVE LeafInv'
<1> USE DEF LeafInv
<1>1. posted \in Nat /\ listed' = listed \cup {posted + 1} /\ listed \subseteq 1..posted
  BY DEF Post, TypeOK
<1>0. UNCHANGED <<reported, countedAt>> /\ countedAt \in 0..posted
  BY DEF Post, count, TypeOK
<1>2. TypeOK'
  <2>1. posted' \in 0..MaxPosted /\ posted' = posted + 1
    BY LeafAssumption DEF Post, TypeOK
  <2>2. 1..posted \subseteq 1..posted' /\ listed' \subseteq 1..posted'
    BY <1>1, <2>1
  <2>3. midnight' \in 0..posted' /\ watermark' \in NoTime..posted'
    BY <1>1, <2>1 DEF Post, TypeOK, history, NoTime
  <2>4. run'.at # "idle" => run'.start <= posted'
    BY <1>1, <2>1 DEF Post, TypeOK, StartedRuns, PagingRuns, IdleRuns
  <2>5. QED
    BY <1>0, <2>1, <2>2, <2>3, <2>4 DEF Post, TypeOK, history
<1>3. NothingFallsBetweenRuns'
  <2>1. watermark' = watermark /\ watermark <= posted /\ watermark \in Int
    BY DEF Post, history, TypeOK, NoTime
  <2>2. QED
    BY <1>1, <2>1 DEF Post, history, NothingFallsBetweenRuns
<1>4. PagingInv'
  <2> SUFFICES ASSUME run.at = "paging"
               PROVE  run.cutoff \in {NoTime, run.window} /\ PagesStored'
    BY DEF Post, PagingInv
  <2>1. Earlier' = Earlier
    BY <1>1, PagingType DEF Post, Earlier
  <2>2. ASSUME NEW i \in listed PROVE RankOf(i) <= RankOf(i)' /\ RankOf(i)' \in Nat
    <3> DEFINE up == {k \in listed : Above(k, i)}
               after == {k \in listed' : Above(k, i)}
    <3>1. up \subseteq after
      BY <1>1
    <3>2. IsFiniteSet(after)
      <4>1. posted' \in Int /\ listed' \subseteq 1..posted'
        BY <1>2 DEF TypeOK
      <4>2. IsFiniteSet(1..posted')
        BY <4>1, FS_Interval
      <4>3. after \subseteq 1..posted'
        BY <4>1
      <4>4. QED
        BY <4>2, <4>3, FS_Subset
    <3>3. Cardinality(up) <= Cardinality(after) /\ Cardinality(after) \in Nat
      BY <3>1, <3>2, FS_Subset, FS_CardinalityType
    <3>4. QED
      BY <3>3 DEF RankOf, Above
  <2>3. PagesStored'
    <3> SUFFICES ASSUME run.cutoff # NoTime, ~run.disturbed, NEW i \in Earlier,
                        run.cutoff < i, RankOf(i)' <= (run.page - 1) * PageSize
                 PROVE  i \in known
      BY <2>1 DEF Post, PagesStored
    <3>1. RankOf(i) \in Nat /\ RankOf(i) <= RankOf(i)' /\ RankOf(i)' \in Nat
      BY <2>2, RankType DEF Earlier
    <3>2. (run.page - 1) * PageSize \in Nat
      BY PagingType, PageBounds
    <3>3. RankOf(i) <= (run.page - 1) * PageSize
      BY <3>1, <3>2
    <3>4. QED
      BY <3>3 DEF PagingInv, PagesStored
  <2>4. QED
    BY <2>3 DEF PagingInv
<1>5. CountInv'
  <2>1. Counted' \subseteq Counted
    BY <1>0, <1>1 DEF Counted
  <2>2. QED
    BY <1>0, <2>1, CountKept
<1>6. QED
  BY <1>2, <1>3, <1>4, <1>5

\* A withdrawal is noted by the run it disturbs.
LEMMA WithdrawKeeps == ASSUME LeafInv, Withdraw PROVE LeafInv'
<1> USE DEF LeafInv
<1>1. /\ listed' \subseteq listed
      /\ UNCHANGED <<posted, known, midnight, members, history, stops, reported, countedAt>>
  BY DEF Withdraw, count
<1>2. /\ run.at # "paging" => run' = run
      /\ run.at = "paging" => run' = [run EXCEPT !.disturbed = TRUE]
  BY DEF Withdraw
<1>3. TypeOK'
  <2>1. CASE run.at # "paging"
    BY <1>1, <1>2, <2>1, LeafAssumption DEF Withdraw, TypeOK, history
  <2>2. CASE run.at = "paging"
    <3>1. run' \in PagingRuns /\ run'.start = run.start
      BY <1>2, <2>2, PagingType DEF PagingRuns
    <3>2. QED
      BY <1>1, <2>2, <3>1, PagingType, LeafAssumption DEF Withdraw, TypeOK, history
  <2>3. QED
    BY <2>1, <2>2
<1>4. NothingFallsBetweenRuns'
  BY <1>1 DEF NothingFallsBetweenRuns, history
<1>5. PagingInv'
  <2>1. CASE run.at # "paging"
    BY <1>2, <2>1 DEF PagingInv
  <2>2. CASE run.at = "paging"
    <3>1. /\ run'.disturbed /\ run'.start = run.start /\ run'.cutoff = run.cutoff
          /\ run'.window = run.window
      BY <1>2, <2>2, PagingType DEF PagingRuns
    <3>2. QED
      BY <2>2, <3>1, PagingType DEF PagingInv, PagesStored
  <2>3. QED
    BY <2>1, <2>2
<1>6. CountInv'
  BY <1>1, CountKept DEF Counted
<1>7. QED
  BY <1>3, <1>4, <1>5, <1>6

LEMMA MidnightKeeps == ASSUME LeafInv, Midnight PROVE LeafInv'
<1> USE DEF LeafInv
<1>1. UNCHANGED <<posted, listed, run, members, reported, countedAt, known, history, withdrawn, stops>>
      /\ midnight' \in 0..posted
  BY DEF Midnight, TypeOK, count
<1>2. TypeOK'
  BY <1>1 DEF TypeOK, history
<1>3. PagingInv' /\ NothingFallsBetweenRuns'
  BY <1>1 DEF PagingInv, PagesStored, Earlier, RankOf, Above, NothingFallsBetweenRuns, history
<1>4. CountInv'
  BY <1>1 DEF CountInv, Counted
<1>5. QED
  BY <1>2, <1>3, <1>4

LEMMA StartRunKeeps == ASSUME LeafInv, StartRun PROVE LeafInv'
<1> USE DEF LeafInv
<1>0. PICK fresh \in BOOLEAN : \E window \in Cutoffs(fresh) :
          /\ run' = Started(fresh, posted, window)
          /\ members' = IF fresh THEN {} ELSE members
          /\ reported' = IF fresh THEN NoCount ELSE reported
  BY DEF StartRun
<1>1. PICK window \in Cutoffs(fresh) :
          /\ run' = Started(fresh, posted, window)
          /\ members' = IF fresh THEN {} ELSE members
          /\ reported' = IF fresh THEN NoCount ELSE reported
  BY <1>0
<1>2. window \in Int
  BY LeafAssumption DEF Cutoffs, TypeOK, NoTime
<1>3. run' \in StartedRuns /\ run'.at = "started" /\ run'.start = posted
  BY <1>1, <1>2 DEF Started, StartedRuns, TypeOK
<1>4. TypeOK'
  <2>1. UNCHANGED <<posted, listed, midnight, withdrawn, countedAt, known, watermark, forgone, missed, stops>>
    BY DEF StartRun, world, history
  <2>2. members' \subseteq known /\ reported' \in Nat \cup {NoCount}
    BY <1>1 DEF TypeOK
  <2>3. posted <= posted
    BY DEF TypeOK
  <2>4. QED
    BY <1>3, <2>1, <2>2, <2>3 DEF TypeOK
<1>5. NothingFallsBetweenRuns' /\ PagingInv'
  BY <1>3 DEF StartRun, NothingFallsBetweenRuns, PagingInv, world, history
<1>6. CountInv'
  BY <1>1 DEF StartRun, CountInv, Counted, world
<1>7. QED
  BY <1>4, <1>5, <1>6

LEMMA RecoverKeeps == ASSUME LeafInv, Recover PROVE LeafInv'
<1> USE DEF LeafInv
<1>1. /\ run.at = "started" /\ Finish("COMPLETE_RECOVERED", members)
      /\ UNCHANGED <<posted, listed, members, reported, countedAt, known, stops>>
      /\ UNCHANGED world
  BY DEF Recover, world, count
<1>2. "COMPLETE_RECOVERED" \in Complete /\ "COMPLETE_RECOVERED" # "COMPLETE_INCREMENTAL"
  BY DEF Complete, ByCount
<1>3. members \subseteq known /\ known \subseteq 1..posted
      /\ reported \in Nat \cup {NoCount} /\ countedAt \in 0..posted
  BY DEF TypeOK
<1>4. TypeOK'
  BY <1>1, <1>2, <1>3, FinishType
<1>5. NothingFallsBetweenRuns'
  BY <1>1, <1>2, <1>3, FinishLeavesNoGap
<1>6. PagingInv' /\ CountInv'
  BY <1>1 DEF Finish, Ended, PagingInv, CountInv, Counted
<1>7. QED
  BY <1>4, <1>5, <1>6

\* Before the first page nothing is claimed; an empty list leaves no gap.
LEMMA InspectKeeps == ASSUME LeafInv, Inspect PROVE LeafInv'
<1> USE DEF LeafInv
<1>1. /\ run.at = "started" /\ run.start \in 0..posted /\ run.window \in Int
      /\ run.fresh \in BOOLEAN
  BY RunType DEF Inspect
<1>2. IsFiniteSet(listed) /\ Cardinality(listed) \in Nat
  BY Finite, FS_CardinalityType
<1>3. /\ UNCHANGED <<posted, listed, members, known, stops>> /\ UNCHANGED world
      /\ reported' = Cardinality(listed) /\ countedAt' = posted
  BY DEF Inspect, world
<1>4. /\ members \subseteq known /\ known \subseteq 1..posted
      /\ reported' \in Nat \cup {NoCount} /\ countedAt' \in 0..posted
  BY <1>2, <1>3 DEF TypeOK
<1>5. CountInv'
  <2>1. Counted' \subseteq listed
    BY <1>3 DEF Counted
  <2>2. Cardinality(Counted') <= Cardinality(listed)
    BY <1>2, <2>1, FS_Subset
  <2>3. QED
    BY <1>3, <2>2 DEF CountInv
<1>6. CASE listed # {}
  <2>1. /\ run' = [at |-> "paging", fresh |-> run.fresh, start |-> run.start,
                    window |-> run.window, cutoff |-> run.window, page |-> 1,
                    before |-> {}, disturbed |-> FALSE]
        /\ UNCHANGED history
    BY <1>6 DEF Inspect
  <2>2. run' \in PagingRuns
    <3>1. run.start \in 0..MaxPosted /\ 1 \in 1..SafetyPages
      BY <1>1, LeafAssumption DEF TypeOK
    <3>2. QED
      BY <1>1, <2>1, <3>1 DEF PagingRuns
  <2>3. reported' # NoCount
    BY <1>2, <1>3 DEF NoCount
  <2>4. TypeOK'
    BY <1>1, <1>3, <1>4, <2>1, <2>2, <2>3 DEF TypeOK, world, history
  <2>5. NothingFallsBetweenRuns'
    BY <1>3, <2>1 DEF NothingFallsBetweenRuns, history
  <2>6. PagesStored'
    <3> SUFFICES ASSUME NEW i \in listed, RankOf(i)' <= (1 - 1) * PageSize PROVE FALSE
      BY <1>3, <2>1 DEF PagesStored, Earlier
    <3>1. RankOf(i)' = RankOf(i)
      BY <1>3 DEF RankOf, Above
    <3>2. (1 - 1) * PageSize = 0
      BY LeafAssumption
    <3>3. QED
      BY <3>1, <3>2, RankType
  <2>7. PagingInv'
    BY <2>1, <2>6 DEF PagingInv
  <2>8. QED
    BY <1>5, <2>4, <2>5, <2>7
<1>7. CASE listed = {}
  <2>1. Finish("COMPLETE", members)
    BY <1>7 DEF Inspect
  <2>2. "COMPLETE" \in Complete /\ "COMPLETE" # "COMPLETE_INCREMENTAL"
    BY DEF Complete, ByCount
  <2>3. TypeOK'
    BY <1>1, <1>3, <1>4, <2>1, <2>2, FinishType
  <2>4. NothingFallsBetweenRuns'
    BY <1>3, <1>7 DEF NothingFallsBetweenRuns
  <2>5. PagingInv'
    BY <2>1 DEF Finish, Ended, PagingInv
  <2>6. QED
    BY <1>5, <2>3, <2>4, <2>5
<1>8. QED
  BY <1>6, <1>7

LEMMA RepeatedPageKeeps == ASSUME LeafInv, RepeatedPage PROVE LeafInv'
<1>1. members' \subseteq known' /\ known \subseteq known' /\ known' \subseteq 1..posted
  BY DEF RepeatedPage, LeafInv, TypeOK
<1>2. QED
  BY <1>1, NextPassKeeps DEF RepeatedPage

LEMMA PastTheEndKeeps == ASSUME LeafInv, PastTheEnd PROVE LeafInv'
<1> USE DEF LeafInv
<1>1. /\ run.at = "paging" /\ UNCHANGED <<posted, listed, members, reported, countedAt, known, stops>>
      /\ UNCHANGED <<world, count>>
  BY DEF PastTheEnd, world, count
<1>2. members \subseteq known /\ known \subseteq 1..posted
      /\ reported \in Nat \cup {NoCount} /\ countedAt \in 0..posted
  BY DEF TypeOK
<1>3. CASE NextPass
  BY <1>1, <1>2, <1>3, NextPassKeeps
<1>4. CASE Finish("COMPLETE", members)
  <2>1. "COMPLETE" \in Complete /\ "COMPLETE" # "COMPLETE_INCREMENTAL"
    BY DEF Complete, ByCount
  <2>2. TypeOK'
    BY <1>1, <1>2, <1>4, <2>1, FinishType
  <2>3. NothingFallsBetweenRuns'
    BY <1>1, <1>2, <1>4, <2>1, FinishLeavesNoGap
  <2>4. PagingInv' /\ CountInv'
    BY <1>1, <1>4 DEF Finish, Ended, PagingInv, CountInv, Counted
  <2>5. QED
    BY <2>2, <2>3, <2>4
<1>5. QED
  BY <1>3, <1>4 DEF PastTheEnd

LEMMA StopKeeps == ASSUME LeafInv, Stop PROVE LeafInv'
<1> USE DEF LeafInv
<1>1. PICK some : Store(some) /\ some \subseteq listed
  <2>1. \A n : \A some \in FirstOf(Kept(Page(n))) : some \subseteq listed
    BY KeptType DEF FirstOf
  <2>2. \A some \in FirstOf({}) : some \subseteq listed
    BY DEF FirstOf
  <2>3. QED
    BY <2>1, <2>2 DEF Stop
<1>2. members' = members \cup some /\ known' = known \cup some
  BY <1>1 DEF Store
<1>3. run' = [at |-> "idle", last |-> "incomplete"] /\ run' \in IdleRuns
  BY DEF Stop, Ended, IdleRuns
<1>4. UNCHANGED <<posted, listed, midnight, withdrawn, watermark, forgone, missed, reported, countedAt>>
  BY DEF Stop, world, history, count
<1>5. TypeOK'
  <2>1. stops' \in 0..MaxStops
    BY LeafAssumption DEF Stop, TypeOK
  <2>2. members' \subseteq known' /\ known' \subseteq 1..posted
    BY <1>1, <1>2 DEF TypeOK
  <2>3. QED
    BY <1>3, <1>4, <2>1, <2>2 DEF TypeOK
<1>6. NothingFallsBetweenRuns' /\ PagingInv' /\ CountInv'
  BY <1>2, <1>3, <1>4 DEF NothingFallsBetweenRuns, PagingInv, CountInv, Counted
<1>7. QED
  BY <1>5, <1>6

\* A page: it ends the run or makes the pages stored one more.
LEMMA LoadPageKeeps == ASSUME LeafInv, LoadPage PROVE LeafInv'
<1> USE DEF LeafInv
<1> DEFINE cards == Page(run.page)
           seen == members \cup Kept(cards)
<1>1. /\ run.at = "paging" /\ UNCHANGED <<world, count, stops, reported, countedAt>>
      /\ members' = seen /\ known' = known \cup Kept(cards)
  BY DEF LoadPage, Store, count
<1>2. /\ members' \subseteq known' /\ known' \subseteq 1..posted
      /\ known \subseteq known' /\ seen \subseteq known' /\ listed' = listed
      /\ reported \in Nat \cup {NoCount} /\ countedAt \in 0..posted
  BY <1>1, KeptType DEF TypeOK, world
<1>7. CountInv'
  BY <1>1, <1>2 DEF CountInv, Counted
<1>3. ASSUME NEW status \in Complete, Finish(status, seen),
             status = "COMPLETE_INCREMENTAL" => ReachesCutoff(cards)
      PROVE  LeafInv'
  <2>1. TypeOK'
    BY <1>1, <1>2, <1>3, FinishType
  <2>2. status = "COMPLETE_INCREMENTAL" /\ ~run.disturbed =>
            \A i \in Earlier : run.window < i => i \in known'
    <3> SUFFICES ASSUME ReachesCutoff(cards), ~run.disturbed, NEW i \in Earlier, run.window < i
                 PROVE  i \in known'
      BY <1>3
    <3>1. PICK c \in cards : c <= run.cutoff /\ Safe(cards)
      BY DEF ReachesCutoff
    <3>4. run.cutoff = run.window
      BY <1>1, <3>1 DEF PagingInv, Safe
    <3>2. i \in known \cup Kept(cards)
      BY <1>1, <3>1, <3>4, CutoffIsSafe
    <3>3. QED
      BY <1>1, <3>2
  <2>3. NothingFallsBetweenRuns'
    BY <1>1, <1>2, <1>3, <2>2, FinishLeavesNoGap
  <2>4. PagingInv'
    BY <1>3 DEF Finish, Ended, PagingInv
  <2>5. QED
    BY <1>7, <2>1, <2>3, <2>4
<1>4. CASE run.page # SafetyPages /\ NextPage(cards)
  <2>1. run' \in PagingRuns /\ run'.at = "paging" /\ run'.page = run.page + 1
        /\ run'.start = run.start /\ run'.window = run.window
        /\ run'.disturbed = run.disturbed
        /\ run'.cutoff = IF Safe(cards) THEN run.cutoff ELSE NoTime
    <3>1. cards \in SUBSET (1..MaxPosted)
      <4>1. cards \subseteq listed
        BY DEF Page
      <4>2. listed \subseteq 1..MaxPosted
        BY LeafAssumption DEF TypeOK
      <4>3. QED
        BY <4>1, <4>2
    <3>2. run \in PagingRuns
      BY <1>1, PagingType
    <3>3. run.page + 1 \in 1..SafetyPages
      BY <1>4, <3>2, LeafAssumption DEF PagingRuns
    <3> DEFINE cutoff == IF Safe(cards) THEN run.cutoff ELSE NoTime
    <3>4. run' = [run EXCEPT !.page = run.page + 1, !.before = cards, !.cutoff = cutoff]
      BY <1>4 DEF NextPage
    <3>5. cutoff \in Int
      BY <1>1, PagingType DEF NoTime
    <3> HIDE DEF cutoff, cards
    <3>6. run' \in PagingRuns /\ run'.at = "paging" /\ run'.page = run.page + 1
          /\ run'.start = run.start /\ run'.window = run.window
          /\ run'.disturbed = run.disturbed
          /\ run'.cutoff = cutoff
      BY <3>1, <3>2, <3>3, <3>4, <3>5 DEF PagingRuns
    <3>7. QED
      BY <3>6 DEF cutoff
  <2>2. UNCHANGED history
    BY <1>4 DEF NextPage
  <2>3. TypeOK'
    BY <1>1, <1>2, <2>1, <2>2, PagingType DEF TypeOK, world, history, count
  <2>4. NothingFallsBetweenRuns'
    BY <1>2, <2>2 DEF NothingFallsBetweenRuns, history
  <2>5. Earlier' = Earlier
    BY <1>2, <2>1 DEF Earlier
  <2>6. PagesStored'
    <3> SUFFICES ASSUME run'.cutoff # NoTime, ~run'.disturbed, NEW i \in Earlier',
                        run'.cutoff < i, RankOf(i)' <= (run'.page - 1) * PageSize
                 PROVE  i \in known'
      BY DEF PagesStored
    <3>0. i \in Earlier /\ ~run.disturbed
      BY <2>1, <2>5
    <3>1. run'.cutoff = run.cutoff /\ Safe(cards)
      BY <2>1
    <3>2. RankOf(i) = RankOf(i)' /\ i \in listed /\ RankOf(i) \in Nat
      BY <1>2, <3>0, RankType DEF RankOf, Above, Earlier
    <3>3. RankOf(i) <= run.page * PageSize /\ (run.page - 1) * PageSize \in Nat
      <4>1. (run.page - 1) * PageSize \in Nat
        BY <1>1, PagingType, PageBounds
      <4>2. run'.page - 1 = run.page
        BY <1>1, <2>1, PagingType
      <4>3. QED
        BY <3>2, <4>1, <4>2
    <3>4. CASE RankOf(i) <= (run.page - 1) * PageSize
      BY <1>1, <1>2, <3>0, <3>1, <3>4 DEF PagingInv, PagesStored
    <3>5. CASE (run.page - 1) * PageSize < RankOf(i)
      <4>1. i \in cards
        BY <3>2, <3>3, <3>5 DEF Page
      <4>2. i \in Kept(cards)
        BY <3>1, <4>1 DEF Kept
      <4>3. QED
        BY <1>1, <4>2
    <3>6. QED
      BY <3>2, <3>3, <3>4, <3>5
  <2>7. PagingInv'
    BY <1>1, <2>1, <2>6 DEF PagingInv
  <2>8. QED
    BY <1>7, <2>3, <2>4, <2>7
<1>5. CASE NextPass
  BY <1>1, <1>2, <1>5, NextPassKeeps
<1>6. \/ \E status \in Complete : /\ Finish(status, seen)
                                  /\ status = "COMPLETE_INCREMENTAL" => ReachesCutoff(cards)
      \/ NextPass
      \/ run.page # SafetyPages /\ NextPage(cards)
  BY DEF LoadPage, Complete, ByCount
<1>8. QED
  BY <1>3, <1>4, <1>5, <1>6

LEMMA UnionBound ==
    ASSUME NEW S, NEW T, IsFiniteSet(S), IsFiniteSet(T)
    PROVE  /\ IsFiniteSet(S \cup T)
           /\ Cardinality(S \cup T) <= Cardinality(S) + Cardinality(T)
<1>1. /\ IsFiniteSet(S \cup T)
      /\ Cardinality(S \cup T) = Cardinality(S) + Cardinality(T) - Cardinality(S \cap T)
  BY FS_Union
<1>2. IsFiniteSet(S \cap T)
  BY FS_Intersection
<1>3. Cardinality(S) \in Nat /\ Cardinality(T) \in Nat /\ Cardinality(S \cap T) \in Nat
  BY <1>2, FS_CardinalityType
<1>4. QED
  BY <1>1, <1>3

\* A leaf complete by its count lacks few of the postings counted.
LEMMA EnoughIsMost ==
    ASSUME LeafInv, reported # NoCount, NEW seen, Cardinality(seen) + Tolerance >= reported,
           members \subseteq seen, seen \subseteq members \cup listed
    PROVE  Cardinality(Counted \ seen)
               <= Tolerance + (posted - countedAt) + Cardinality(members \ listed)
<1> DEFINE new == countedAt + 1..posted
           left == members \ listed
           found == Counted \cap seen
<1> USE DEF LeafInv
<1>1. posted \in Nat /\ countedAt \in 0..posted /\ reported \in Nat /\ Tolerance \in Nat
  BY LeafAssumption DEF TypeOK, NoCount
<1>2. IsFiniteSet(new) /\ Cardinality(new) = posted - countedAt
  <2>1. countedAt + 1 \in Int /\ posted \in Int /\ countedAt <= posted
    BY <1>1
  <2>2. /\ IsFiniteSet(new)
        /\ Cardinality(new) = IF countedAt + 1 > posted THEN 0 ELSE posted - (countedAt + 1) + 1
    BY <2>1, FS_Interval
  <2>3. QED
    BY <1>1, <2>2
<1>3. IsFiniteSet(left) /\ IsFiniteSet(Counted) /\ IsFiniteSet(found) /\ IsFiniteSet(seen)
  <2>1. left \subseteq members /\ Counted \subseteq listed /\ found \subseteq listed
    BY DEF Counted
  <2>2. IsFiniteSet(members \cup listed)
    BY Finite, FS_Union
  <2>3. QED
    BY <2>1, <2>2, Finite, FS_Subset
<1>4. seen \subseteq (found \cup new) \cup left
  BY <1>1 DEF Counted, TypeOK
<1>5. /\ IsFiniteSet(found \cup new)
      /\ Cardinality(found \cup new) <= Cardinality(found) + Cardinality(new)
  BY <1>2, <1>3, UnionBound
<1>6. /\ IsFiniteSet((found \cup new) \cup left)
      /\ Cardinality((found \cup new) \cup left) <= Cardinality(found \cup new) + Cardinality(left)
  BY <1>3, <1>5, UnionBound
<1>7. /\ Cardinality(found) \in Nat /\ Cardinality(new) \in Nat /\ Cardinality(left) \in Nat
      /\ Cardinality(seen) \in Nat /\ Cardinality(Counted) \in Nat
      /\ Cardinality(found \cup new) \in Nat /\ Cardinality((found \cup new) \cup left) \in Nat
  BY <1>2, <1>3, <1>5, <1>6, FS_CardinalityType
<1>9. Cardinality(seen) <= Cardinality((found \cup new) \cup left)
  BY <1>4, <1>6, FS_Subset
<1>10. Cardinality(Counted \ seen) = Cardinality(Counted) - Cardinality(found)
  BY <1>3, FS_Difference
<1>11. Cardinality(Counted) <= reported /\ Cardinality(seen) + Tolerance >= reported
  BY DEF CountInv
<1>12. QED
  <2> HIDE DEF new, left, found
  <2>1. Cardinality(new) = posted - countedAt
    BY <1>2
  <2>2. Cardinality(left) = Cardinality(members \ listed)
    BY DEF left
  <2>3. QED
    BY <1>1, <1>5, <1>6, <1>7, <1>9, <1>10, <1>11, <2>1, <2>2

-----------------------------------------------------------------------------
(* The theorems.                                                           *)

LEMMA InitHolds == Init => LeafInv
<1> SUFFICES ASSUME Init PROVE LeafInv
  OBVIOUS
<1>1. run \in IdleRuns /\ run.at = "idle"
  BY DEF Init, Idle, IdleRuns
<1>2. TypeOK
  BY <1>1, LeafAssumption DEF Init, TypeOK, NoTime
<1>3. QED
  BY <1>1, <1>2 DEF Init, LeafInv, PagingInv, CountInv, NothingFallsBetweenRuns

LEMMA StepKeeps == LeafInv /\ [Next]_vars => LeafInv'
<1> SUFFICES ASSUME LeafInv, [Next]_vars PROVE LeafInv'
  OBVIOUS
<1>1. CASE UNCHANGED vars
  BY <1>1 DEF vars, LeafInv, TypeOK, PagingInv, PagesStored, Earlier, RankOf, Above,
              CountInv, Counted, NothingFallsBetweenRuns
<1>2. QED
  BY <1>1, PostKeeps, WithdrawKeeps, MidnightKeeps, StartRunKeeps, InspectKeeps, LoadPageKeeps,
     RecoverKeeps,
     RepeatedPageKeeps, PastTheEndKeeps, StopKeeps DEF Next

\* The types, what a paging run may rely on and the absence of gaps are
\* inductive together, whatever the sizes of the list and of its pages.
THEOREM LeafInvariant == Spec => []LeafInv
  BY InitHolds, StepKeeps, PTL DEF Spec

\* Every reachable state of the leaf and its runs is well typed.
THEOREM LeafTypeCorrect == Spec => []TypeOK
  BY LeafInvariant, PTL DEF LeafInv

\* No posting falls between two runs, however runs, cutoffs, resumptions,
\* arrivals and withdrawals follow each other (_seek_incremental_cutoff).
THEOREM NoGapBetweenRuns == Spec => []NothingFallsBetweenRuns
  BY LeafInvariant, PTL DEF LeafInv

\* A leaf complete by its count, one read in this run or in an earlier one, misses
\* no more of what was counted than arrivals, the tolerance and an earlier attempt
\* explain (_collect_leaf, _process_partition).
THEOREM CompleteMissesFew == Spec => FewAreMissed
<1>1. ASSUME LeafInv, [Next]_vars, run.at # "idle", run'.at = "idle", run'.last \in ByCount
      PROVE  Cardinality({i \in listed : i <= countedAt'} \ members')
                 <= Tolerance + (posted - countedAt') + Cardinality(members \ listed)
  <2> USE DEF LeafInv
  <2>1. CASE \/ Post \/ Withdraw \/ Midnight \/ StartRun \/ Stop \/ RepeatedPage \/ UNCHANGED vars
    <3>1. CASE Post \/ Midnight \/ StartRun \/ UNCHANGED vars
      BY <1>1, <3>1 DEF Post, Midnight, StartRun, vars
    <3>2. CASE Withdraw
      BY <1>1, <3>2, PagingType DEF Withdraw, PagingRuns
    <3>3. CASE Stop
      BY <1>1, <3>3 DEF Stop, Ended, ByCount
    <3>4. CASE RepeatedPage
      BY <1>1, <3>4 DEF RepeatedPage, NextPass, Started
    <3>5. QED
      BY <2>1, <3>1, <3>2, <3>3, <3>4
  <2>2. CASE Inspect
    <3>1. listed = {} /\ countedAt' = posted
      BY <1>1, <2>2 DEF Inspect
    <3>2. {i \in listed : i <= countedAt'} \ members' = {} /\ members \ listed = members
      BY <3>1
    <3>3. Cardinality(members) \in Nat /\ posted \in Nat /\ Tolerance \in Nat
      BY <1>1, Finite, FS_CardinalityType, LeafAssumption DEF TypeOK
    <3>4. Cardinality({}) = 0
      BY FS_EmptySet
    <3> DEFINE lacking == {i \in listed : i <= countedAt'} \ members'
    <3>5. Cardinality(lacking) = 0 /\ Cardinality(members \ listed) = Cardinality(members)
      BY <3>2, <3>4
    <3> HIDE DEF lacking
    <3>6. Cardinality(lacking) <= Tolerance + (posted - countedAt') + Cardinality(members \ listed)
      BY <3>1, <3>3, <3>5
    <3>7. QED
      BY <3>6 DEF lacking
  <2>3. CASE LoadPage \/ PastTheEnd \/ Recover
    <3>1. /\ reported # NoCount /\ countedAt' = countedAt
          /\ Cardinality(members') + Tolerance >= reported
          /\ members \subseteq members' /\ members' \subseteq members \cup listed
      <4>1. CASE LoadPage
        <5> DEFINE cards == Page(run.page)
                   seen == members \cup Kept(cards)
        <5>0. ~NextPage(cards) /\ ~NextPass
          <6>1. run \in PagingRuns
            BY <1>1, <4>1, PagingType DEF LoadPage
          <6>2. NextPage(cards) => run'.at = run.at
            <7> HIDE DEF cards
            <7>1. QED
              BY <6>1 DEF NextPage, PagingRuns
          <6>3. NextPass => run'.at = "started"
            BY DEF NextPass, Started
          <6>4. QED
            BY <1>1, <6>2, <6>3
        <5>1. /\ members' = seen
              /\ CASE Enough(seen) -> Finish("COMPLETE", seen)
                   [] ~Enough(seen) /\ ReachesCutoff(cards) -> Finish("COMPLETE_INCREMENTAL", seen)
                   [] OTHER -> IF run.page = SafetyPages THEN NextPass ELSE NextPage(cards)
          BY <4>1 DEF LoadPage, Store
        <5>2. "COMPLETE_INCREMENTAL" \notin ByCount /\
              \A status : Finish(status, seen) => run'.last = status
          BY DEF Finish, Ended, ByCount
        <5>3. seen \subseteq members \cup listed
          BY <1>1, KeptType
        <5>4. members \subseteq seen
          OBVIOUS
        <5>5. reported # NoCount /\ countedAt' = countedAt
          BY <1>1, <4>1 DEF LoadPage, TypeOK, count
        <5> HIDE DEF cards, seen
        <5>6. Enough(seen)
          BY <1>1, <5>0, <5>1, <5>2
        <5>7. QED
          BY <5>1, <5>3, <5>4, <5>5, <5>6 DEF Enough
      <4>2. CASE PastTheEnd
        BY <1>1, <4>2 DEF PastTheEnd, NextPass, Started, Enough, TypeOK, count
      <4>3. CASE Recover
        BY <1>1, <4>3 DEF Recover, Recoverable, count
      <4>4. QED
        BY <2>3, <4>1, <4>2, <4>3
    <3>2. Cardinality(Counted \ members')
              <= Tolerance + (posted - countedAt) + Cardinality(members \ listed)
      BY <1>1, <3>1, EnoughIsMost
    <3>3. QED
      BY <3>1, <3>2 DEF Counted
  <2>4. QED
    BY <1>1, <2>1, <2>2, <2>3 DEF Next
<1>2. QED
  BY <1>1, LeafInvariant, PTL DEF FewAreMissed, Spec

=============================================================================
