------------------------------ MODULE SeekLeaf ------------------------------
(***************************************************************************)
(* Paging through one leaf of SEEK's result list while the list changes    *)
(* (sources/seek_market_map.py), and the cutoffs of one run after another  *)
(* (scripts/run_collection_cycle.py).  A posting is named by the order in  *)
(* which it was posted, so its number is its date; the list is sorted by   *)
(* date, newest first, but for postings the site puts on top.  The leaf is *)
(* the whole state here; how a state is split into leaves is SeekCoverage. *)
(***************************************************************************)
EXTENDS Integers, FiniteSets

CONSTANTS MaxPosted,     \* bound on the postings
          MaxWithdrawn,  \* bound on the postings taken off the list early
          MaxStops,      \* bound on the stops and crashes
          PageSize, SafetyPages, Tolerance,
          Overlap,       \* by how many postings a cutoff is set back
          Undated,       \* postings whose card has no exact date
          Pinned         \* postings shown before all others

ASSUME LeafAssumption ==
    /\ {MaxPosted, MaxWithdrawn, MaxStops, Tolerance, Overlap} \subseteq Nat
    /\ {PageSize, SafetyPages} \subseteq Nat \ {0}
    /\ Undated \cup Pinned \subseteq 1..MaxPosted

\* A page that shows postings out of order shows at least one in order.
ASSUME PinnedAssumption == Cardinality(Pinned) < PageSize

VARIABLES posted,     \* number of postings so far, which is also the time
          listed,     \* postings on the list
          midnight,   \* the midnight with which yesterday began
          run,        \* the run and how far its leaf is
          members,    \* seek_partition_jobs of the leaf
          reported,   \* reported_results of the leaf, or NoCount
          countedAt,  \* history: when that count was read
          known,      \* rows in jobs
          watermark,  \* start of the latest complete fresh run, or -1
          forgone,    \* history: postings before it lay beyond the lookback
          missed,     \* history: postings a changing list hid from a complete run
          withdrawn, stops

vars == <<posted, listed, midnight, run, members, reported, countedAt, known,
          watermark, forgone, missed, withdrawn, stops>>
world == <<posted, listed, midnight, withdrawn>>
count == <<reported, countedAt>>
history == <<watermark, forgone, missed>>

NoTime == -1
NoCount == -1
ByCount == {"COMPLETE", "COMPLETE_RECOVERED"}
Complete == ByCount \cup {"COMPLETE_INCREMENTAL"}

IdleRuns == [at : {"idle"}, last : Complete \cup {"none", "incomplete"}]
StartedRuns == [at : {"started"}, fresh : BOOLEAN, start : 0..MaxPosted, window : Int]
PagingRuns == [at : {"paging"}, fresh : BOOLEAN, start : 0..MaxPosted, window : Int,
               cutoff : Int, page : 1..SafetyPages, before : SUBSET (1..MaxPosted),
               disturbed : BOOLEAN]

TypeOK ==
    /\ posted \in 0..MaxPosted
    /\ listed \subseteq 1..posted
    /\ midnight \in 0..posted
    /\ run \in IdleRuns \cup StartedRuns \cup PagingRuns
    /\ run.at # "idle" => run.start <= posted
    /\ members \subseteq known
    /\ reported \in Nat \cup {NoCount} /\ countedAt \in 0..posted
    /\ run.at = "paging" => reported # NoCount
    /\ known \subseteq 1..posted
    /\ watermark \in NoTime..posted
    /\ forgone \in Nat
    /\ missed \subseteq 1..posted
    /\ withdrawn \in 0..MaxWithdrawn /\ stops \in 0..MaxStops

Idle == [at |-> "idle", last |-> "none"]

Init ==
    /\ posted = 0 /\ listed = {}
    /\ midnight = 0
    /\ run = Idle
    /\ members = {} /\ known = {}
    /\ reported = NoCount /\ countedAt = 0
    /\ watermark = NoTime /\ forgone = 0 /\ missed = {}
    /\ withdrawn = 0 /\ stops = 0

-----------------------------------------------------------------------------
(* The list, which nobody stops.                                           *)

Post ==
    /\ posted < MaxPosted
    /\ posted' = posted + 1
    /\ listed' = listed \cup {posted + 1}
    /\ UNCHANGED <<midnight, run, members, count, known, history, withdrawn, stops>>

Withdraw ==
    /\ withdrawn < MaxWithdrawn
    /\ \E i \in listed : listed' = listed \ {i}
    /\ withdrawn' = withdrawn + 1
    /\ run' = IF run.at = "paging" THEN [run EXCEPT !.disturbed = TRUE] ELSE run
    /\ UNCHANGED <<posted, midnight, members, count, known, history, stops>>

Midnight ==
    /\ \E m \in midnight + 1..posted : midnight' = m
    /\ UNCHANGED <<posted, listed, run, members, count, known, history, withdrawn, stops>>

-----------------------------------------------------------------------------
(* A run: fresh, which empties the leaf, or the resumption of one that was *)
(* stopped before the leaf was complete.                                   *)

Resumable == run.last = "incomplete"

\* The watermark is used unless it lies beyond the lookback of the run.
Cutoffs(fresh) ==
    {midnight} \cup (IF fresh /\ watermark # NoTime THEN {watermark - Overlap} ELSE {})

Started(fresh, start, window) ==
    [at |-> "started", fresh |-> fresh, start |-> start, window |-> window]

StartRun ==
    /\ run.at = "idle"
    /\ \E fresh \in BOOLEAN : \E window \in Cutoffs(fresh) :
           /\ fresh \/ Resumable
           /\ run' = Started(fresh, posted, window)
           /\ members' = IF fresh THEN {} ELSE members
           /\ reported' = IF fresh THEN NoCount ELSE reported
    /\ UNCHANGED <<world, countedAt, known, history, stops>>

Ended(status) == [at |-> "idle", last |-> status]

\* Mistaken: the watermark is the time at which the run ended.
WatermarkAtEnd == watermark' = IF run.fresh THEN posted ELSE watermark
\* Mistaken: a resumed run that completes is a watermark as well.
WatermarkAnyway == watermark' = run.start
NewWatermark == watermark' = IF run.fresh THEN run.start ELSE watermark

\* A run with a gap between its window and the watermark gives up what is in it.
GaveUp ==
    forgone' = IF run.fresh /\ run.window > watermark /\ run.window > forgone
               THEN run.window ELSE forgone

\* What a run that completes misses: nothing is excused when it stopped at its
\* cutoff and no posting was taken off the list under it.
Missing(status, seen) ==
    IF status = "COMPLETE_INCREMENTAL" /\ ~run.disturbed THEN {}
    ELSE {i \in listed : run.window < i /\ i <= run.start} \ seen

Finish(status, seen) ==
    /\ run' = Ended(status)
    /\ NewWatermark
    /\ GaveUp
    /\ missed' = missed \cup Missing(status, known \cup seen)

\* An incomplete leaf is visited again in the next pass of the run.
NextPass ==
    /\ run' = Started(run.fresh, run.start, run.window)
    /\ UNCHANGED history

\* Mistaken: cards are counted, those seen twice as two.
EnoughCards(seen) == run.page * PageSize + Tolerance >= reported
Enough(seen) == Cardinality(seen) + Tolerance >= reported

\* A leaf that was inspected before and whose memberships cover the count read
\* then is complete without another look at the list.
Recoverable == reported # NoCount /\ Cardinality(members) + Tolerance >= reported

Recover ==
    /\ run.at = "started"
    /\ Recoverable
    /\ Finish("COMPLETE_RECOVERED", members)
    /\ UNCHANGED <<world, members, count, known, stops>>

\* The count is read from a page of its own, before the first page is loaded.
Inspect ==
    /\ run.at = "started"
    /\ ~Recoverable
    /\ reported' = Cardinality(listed)
    /\ countedAt' = posted
    /\ IF listed = {}
       THEN Finish("COMPLETE", members)
       ELSE /\ run' = [at |-> "paging", fresh |-> run.fresh, start |-> run.start,
                       window |-> run.window, cutoff |-> run.window, page |-> 1,
                       before |-> {}, disturbed |-> FALSE]
            /\ UNCHANGED history
    /\ UNCHANGED <<world, members, known, stops>>

-----------------------------------------------------------------------------
(* A page.                                                                 *)

Above(k, i) == IF k \in Pinned <=> i \in Pinned THEN k >= i ELSE k \in Pinned
RankOf(i) == Cardinality({k \in listed : Above(k, i)})
Page(n) == {i \in listed : (n - 1) * PageSize < RankOf(i) /\ RankOf(i) <= n * PageSize}

\* A cutoff is safe as long as all dates are exact and newest first, from the
\* page before to this one.
Safe(cards) ==
    /\ cards # {} /\ run.cutoff # NoTime /\ cards \cap Undated = {}
    /\ \A i, k \in cards : Above(k, i) => k >= i
    /\ \A i \in run.before, k \in cards : k <= i

Kept(cards) == IF Safe(cards) THEN {i \in cards : run.cutoff < i} ELSE cards
ReachesCutoff(cards) == Safe(cards) /\ \E i \in cards : i <= run.cutoff

Store(seen) == members' = members \cup seen /\ known' = known \cup seen

NextPage(cards) ==
    /\ run' = [run EXCEPT !.page = @ + 1, !.before = cards,
                          !.cutoff = IF Safe(cards) THEN @ ELSE NoTime]
    /\ UNCHANGED history

LoadPage ==
    /\ run.at = "paging"
    /\ LET cards == Page(run.page)
           seen == members \cup Kept(cards)
       IN /\ cards # {} /\ cards # run.before
          /\ Store(Kept(cards))
          /\ CASE Enough(seen) -> Finish("COMPLETE", seen)
               [] ~Enough(seen) /\ ReachesCutoff(cards) -> Finish("COMPLETE_INCREMENTAL", seen)
               [] OTHER -> IF run.page = SafetyPages THEN NextPass ELSE NextPage(cards)
    /\ UNCHANGED <<world, count, stops>>

RepeatedPage ==
    /\ run.at = "paging"
    /\ Page(run.page) # {} /\ Page(run.page) = run.before
    /\ NextPass
    /\ UNCHANGED <<world, members, count, known, stops>>

\* Beyond the last page the count decides.
PastTheEnd ==
    /\ run.at = "paging"
    /\ Page(run.page) = {}
    /\ IF Enough(members) THEN Finish("COMPLETE", members) ELSE NextPass
    /\ UNCHANGED <<world, members, count, known, stops>>

\* A stop or crash, perhaps with the first cards of a page stored.
FirstOf(cards) == {{i \in cards : RankOf(i) <= k} : k \in 0..Cardinality(listed)}

Stop ==
    /\ run.at \in {"started", "paging"}
    /\ stops < MaxStops
    /\ \E some \in FirstOf(IF run.at = "paging" THEN Kept(Page(run.page)) ELSE {}) : Store(some)
    /\ run' = Ended("incomplete")
    /\ stops' = stops + 1
    /\ UNCHANGED <<world, count, history>>

Next == Post \/ Withdraw \/ Midnight \/ StartRun \/ Recover \/ Inspect \/ LoadPage
        \/ RepeatedPage \/ PastTheEnd \/ Stop

Spec == Init /\ [][Next]_vars

\* Runs start again and again, and a run that is not stopped goes on.
Fairness ==
    /\ WF_vars(StartRun) /\ WF_vars(Recover \/ Inspect)
    /\ WF_vars(LoadPage \/ RepeatedPage \/ PastTheEnd)

FairSpec == Spec /\ Fairness

-----------------------------------------------------------------------------
(* Properties                                                              *)

\* No posting falls between two runs: what was posted before the watermark and
\* is still listed has a row, unless it lay beyond the lookback of a run or the
\* list changed under a run in a way its count could not tell (_collect_leaf,
\* _seek_incremental_cutoff, latest_complete_fresh_seek_started_at).
NothingFallsBetweenRuns ==
    \A i \in listed : i <= watermark => i \in known \/ i \in missed \/ i <= forgone

\* A leaf that is complete by its count lacks at most as many of the postings
\* that were listed when the count was read, and still are, as the tolerance
\* allows, the list has grown by since, and the leaf has kept from an earlier
\* attempt.  The count may be one of an earlier run: a leaf that recovers says
\* nothing of what was posted since (docs/SEEK_COVERAGE.md:50, 81).
FewAreMissed ==
    [][run.at # "idle" /\ run'.at = "idle" /\ run'.last \in ByCount =>
          Cardinality({i \in listed : i <= countedAt'} \ members')
              <= Tolerance + (posted - countedAt') + Cardinality(members \ listed)]_vars

\* Once the list is quiet, every posting on it gets a row, unless it lay beyond
\* the lookback or was missed as above: stops, repeated pages and cards without
\* a date delay it, and none lets the runs pass it by for good.
PostingsAreCollected == <>[](listed \subseteq known \cup missed \cup 1..forgone)

\* A run recorded as a watermark has missed nothing (service_state.py:
\* "Falling back to a full scan is cheaper than missing vacancies").
WatermarkMissesNothing == \A i \in listed : i <= watermark => i \in known \/ i <= forgone

=============================================================================
