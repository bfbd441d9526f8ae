----------------------- MODULE LinkedInCampaignProofs -----------------------
(* Theorems about LinkedInCampaign, for every set of geographies, cap and     *)
(* number of attempts.  Where the keys of cycles matter they are about runs   *)
(* for the slot, that is by the scheduler and from the Admin page.            *)
EXTENDS LinkedInCampaign, FiniteSetTheorems, WellFoundedInduction, TLAPS

\* The keys of slots grow; a cursor is of this cycle, an earlier one, or new.
KeysGrow ==
    /\ IF cycle.status = "none" THEN cycle.key = NoKey ELSE cycle.key \in 1..slot
    /\ \A g \in Geographies :
          IF cursor[g].key = NoKey
          THEN cursor[g].offset = 0 /\ cursor[g].status = "PENDING"
          ELSE cycle.status # "none" /\ cursor[g].key <= cycle.key
    /\ run.phase # "idle" => cycle.status # "none"

\* What is fetched is the page at the cursor of a geography that is not done.
FetchesPending ==
    /\ run.phase \in {"idle", "choose", "wrapup", "jd"} =>
          \A g \in Geographies : fetch[g].state = "none"
    /\ run.phase \in {"ingest", "cursor"} =>
          \A g \in Geographies : fetch[g].state \in {"none", "done"}
    /\ \A g \in Geographies :
          fetch[g].state # "none" =>
              /\ fetch[g].start = GeographyOffset(g)
              /\ GeographyStatus(g) \notin CursorTerminal
    /\ run.phase = "cursor" => Fetched # {} /\ fetch[Turn].start \in stored[Turn]

\* A cursor is behind its pages, and one that is not done is below the cap.
CursorsBehind ==
    \A g \in Geographies :
        /\ 0..GeographyOffset(g) - 1 \subseteq stored[g]
        /\ GeographyStatus(g) \notin CursorTerminal => GeographyOffset(g) < Cap

\* A cycle that is over stays over until the next one.
CompleteStays ==
    /\ run.phase = "jd" => AllComplete
    /\ cycle.status = "COMPLETE" => AllComplete /\ "this" \notin waiting

CampaignInv == TypeOK /\ KeysGrow /\ FetchesPending /\ CursorsBehind /\ CompleteStays
-----------------------------------------------------------------------------
(* What a step needs of numbers, types and of the geography in turn.       *)

LEMMA Least ==
    ASSUME NEW S, S \subseteq Nat, S # {}
    PROVE  Min(S) \in S
<1>1. PICK x \in S : \A y \in S : ~ (<<y, x>> \in OpToRel(<, Nat))
  BY NatLessThanWellFounded, WFMin
<1>2. \A y \in S : x <= y
  <2> SUFFICES ASSUME NEW y \in S PROVE x <= y
    OBVIOUS
  <2>1. x \in Nat /\ y \in Nat
    OBVIOUS
  <2>2. ~ (y < x)
    BY <1>1, <2>1 DEF OpToRel
  <2>3. QED
    BY <2>1, <2>2
<1>3. QED
  BY <1>1, <1>2 DEF Min

LEMMA TurnIsFetched == ASSUME Fetched # {} PROVE Turn \in Fetched /\ Turn \in Geographies
<1>1. Fetched \subseteq Nat /\ Fetched \subseteq Geographies
  BY CampaignConstants DEF Fetched
<1>2. QED
  BY <1>1, Least DEF Turn

LEMMA MinOfCap == ASSUME NEW n \in Nat, n < Cap PROVE Min({Cap, n + 1}) = n + 1
  BY CampaignConstants DEF Min

\* The cursor of a geography of the cycle, or none.
LEMMA GeographyType ==
    ASSUME TypeOK, NEW g \in Geographies
    PROVE  GeographyOffset(g) \in 0..Cap /\ GeographyOffset(g) \in Nat
  BY CampaignConstants DEF GeographyOffset, TypeOK, Cursors

\* A fetch goes on as a fetch of the same page.
LEMMA DoneType ==
    ASSUME NEW f \in Fetches
    PROVE  /\ FetchDone(f) \in Fetches /\ FetchDone(f).start = f.start
           /\ FetchDone(f).state = "done"
<1>1. 0 \in 0..PageAttempts + ProbeAttempts /\ 0 \in 0..ProbePages
  BY CampaignConstants
<1>2. QED
  BY <1>1 DEF FetchDone, Fetches

LEMMA ProbingType ==
    ASSUME NEW f \in Fetches, NEW d \in Nat \ {0}
    PROVE  /\ Probing(f, d) \in Fetches /\ Probing(f, d).start = f.start
           /\ Probing(f, d).state # "none"
<1>1. 0 \in 0..PageAttempts + ProbeAttempts
  BY CampaignConstants
<1>2. CASE d <= ProbePages /\ f.start + d < Cap
  <2>1. d \in 0..ProbePages
    BY <1>2, CampaignConstants
  <2>2. Probing(f, d) = [f EXCEPT !.state = "probe", !.tries = 0, !.ahead = d]
    BY <1>2 DEF Probing
  <2>3. QED
    BY <1>1, <2>1, <2>2 DEF Fetches
<1>3. CASE ~(d <= ProbePages /\ f.start + d < Cap)
  BY <1>3, DoneType DEF Probing
<1>4. QED
  BY <1>2, <1>3

LEMMA PageTriedType ==
    ASSUME NEW f \in Fetches, f.state # "none"
    PROVE  /\ PageTried(f) \in Fetches /\ PageTried(f).start = f.start
           /\ PageTried(f).state # "none"
<1>1. CASE f.full
  BY <1>1, DoneType DEF PageTried
<1>2. CASE ~f.full /\ f.tries + 1 < PageAttempts
  <2>1. f.tries + 1 \in 0..PageAttempts + ProbeAttempts
    BY <1>2, CampaignConstants DEF Fetches
  <2>2. QED
    BY <1>2, <2>1 DEF PageTried, Fetches
<1>3. CASE ~f.full /\ ~(f.tries + 1 < PageAttempts)
  BY <1>3, ProbingType DEF PageTried
<1>4. QED
  BY <1>1, <1>2, <1>3

LEMMA ProbedType ==
    ASSUME NEW f \in Fetches, f.state # "none", NEW rows \in BOOLEAN
    PROVE  /\ Probed(f, rows) \in Fetches /\ Probed(f, rows).start = f.start
           /\ Probed(f, rows).state # "none"
<1>1. CASE rows
  <2>1. [f EXCEPT !.later = TRUE] \in Fetches /\ [f EXCEPT !.later = TRUE].start = f.start
    BY DEF Fetches
  <2>2. QED
    BY <1>1, <2>1, DoneType DEF Probed
<1>2. CASE ~rows /\ f.tries + 1 < ProbeAttempts
  <2>1. f.tries + 1 \in 0..PageAttempts + ProbeAttempts
    BY <1>2, CampaignConstants DEF Fetches
  <2>2. QED
    BY <1>2, <2>1 DEF Probed, Fetches
<1>3. CASE ~rows /\ ~(f.tries + 1 < ProbeAttempts)
  <2>1. f.ahead + 1 \in Nat \ {0}
    BY DEF Fetches
  <2>2. QED
    BY <1>3, <2>1, ProbingType DEF Probed
<1>4. QED
  BY <1>1, <1>2, <1>3

-----------------------------------------------------------------------------
(* The steps.                                                              *)

\* Where a geography stands depends on the cursors and on the key of the cycle.
LEMMA SameCursors ==
    ASSUME UNCHANGED cursor, cycle'.key = cycle.key
    PROVE  /\ \A g \in Geographies : /\ GeographyOffset(g)' = GeographyOffset(g)
                                     /\ GeographyStatus(g)' = GeographyStatus(g)
           /\ AllComplete' <=> AllComplete
  BY DEF GeographyOffset, GeographyStatus, OfCycle, AllComplete

LEMMA NoFetchType == NoFetch \in Fetches /\ NoFetch.state = "none"
  BY CampaignConstants DEF NoFetch, Fetches

\* Steps that change neither cursors nor history nor, but for its status, the
\* cycle: the fetches that are left are fetches of before.
LEMMA KeepsCursors ==
    ASSUME CampaignInv,
           UNCHANGED <<listing, slot, cursor, history>>,
           cycle' \in Cycles, cycle'.key = cycle.key,
           cycle'.status = "none" <=> cycle.status = "none",
           run' \in Runs, fetch' \in [Geographies -> Fetches],
           waiting' \subseteq {"this", "earlier"}, shorts' \in 0..MaxShort, stops' \in 0..MaxStops,
           run'.phase # "idle" => run.phase # "idle",
           run'.phase \in {"idle", "choose", "wrapup", "jd"} =>
               \A g \in Geographies : fetch'[g].state = "none",
           \A g \in Geographies :
               fetch'[g].state # "none" =>
                   fetch[g].state # "none" /\ fetch'[g].start = fetch[g].start,
           run'.phase = "ingest" => \A g \in Geographies : fetch'[g].state \in {"none", "done"},
           run'.phase # "cursor",
           run'.phase = "jd" => AllComplete,
           cycle'.status = "COMPLETE" => AllComplete /\ "this" \notin waiting'
    PROVE  CampaignInv'
<1> USE DEF CampaignInv
<1>1. /\ \A g \in Geographies : /\ GeographyOffset(g)' = GeographyOffset(g)
                                /\ GeographyStatus(g)' = GeographyStatus(g)
      /\ AllComplete' <=> AllComplete
  BY SameCursors
<1>2. TypeOK'
  BY DEF TypeOK, history
<1>3. KeysGrow'
  BY DEF KeysGrow
<1>4. FetchesPending'
  BY <1>1 DEF FetchesPending
<1>5. CursorsBehind'
  BY <1>1 DEF CursorsBehind, history
<1>6. CompleteStays'
  BY <1>1 DEF CompleteStays
<1>7. QED
  BY <1>2, <1>3, <1>4, <1>5, <1>6

LEMMA NextSlotKeeps == ASSUME CampaignInv, NextSlot PROVE CampaignInv'
<1> USE DEF CampaignInv
<1>1. UNCHANGED <<listing, cycle, cursor, run, fetch, waiting, stored, partial, shorts, stops>>
  BY DEF NextSlot, history
<1>2. slot' \in 1..MaxSlots /\ slot' = slot + 1 /\ slot \in Nat
  BY CampaignConstants DEF NextSlot, TypeOK
<1>3. TypeOK'
  BY <1>1, <1>2 DEF TypeOK
<1>4. KeysGrow'
  <2>1. 1..slot \subseteq 1..slot'
    BY <1>2
  <2>2. QED
    BY <1>1, <2>1 DEF KeysGrow
<1>5. FetchesPending' /\ CursorsBehind' /\ CompleteStays'
  BY <1>1 DEF FetchesPending, CursorsBehind, CompleteStays, GeographyOffset, GeographyStatus,
              OfCycle, AllComplete, Fetched, Turn
<1>6. QED
  BY <1>3, <1>4, <1>5

\* A new cycle has a key no cursor has; another run takes the cycle as it is.
LEMMA StartRunKeeps ==
    ASSUME CampaignInv, StartRun("slot")
    PROVE  CampaignInv'
<1> USE DEF CampaignInv
<1>1. /\ run.phase = "idle" /\ UNCHANGED <<listing, slot, cursor, fetch, shorts, stops>>
      /\ run' \in Runs /\ run'.phase = "choose"
  BY DEF StartRun, NoRun, Runs
<1>2. \A g \in Geographies : fetch[g].state = "none"
  BY <1>1 DEF FetchesPending
<1>3. CASE UNCHANGED <<cycle, waiting, history>> /\ cycle.status # "none"
  <2>1. AllComplete' <=> AllComplete
    BY <1>1, <1>3, SameCursors
  <2>2. /\ \A g \in Geographies : /\ GeographyOffset(g)' = GeographyOffset(g)
                                  /\ GeographyStatus(g)' = GeographyStatus(g)
    BY <1>1, <1>3, SameCursors
  <2>3. TypeOK'
    BY <1>1, <1>3 DEF TypeOK, history
  <2>4. KeysGrow'
    BY <1>1, <1>3 DEF KeysGrow
  <2>5. FetchesPending'
    BY <1>1, <1>2 DEF FetchesPending
  <2>6. CursorsBehind' /\ CompleteStays'
    BY <1>1, <1>3, <2>1, <2>2 DEF CursorsBehind, CompleteStays, history
  <2>7. QED
    BY <2>3, <2>4, <2>5, <2>6
<1>4. CASE /\ cycle.status = "none" \/ (cycle.status \in Terminal /\ cycle.key # slot)
           /\ cycle' = [key |-> slot, status |-> "PARTIAL"]
           /\ waiting' = IF waiting = {} THEN {} ELSE {"earlier"}
           /\ stored' = [g \in Geographies |-> {}]
           /\ partial' = {}
  <2>1. slot \in 1..MaxSlots /\ slot # NoKey
    BY CampaignConstants DEF TypeOK, NoKey
  <2>2. \A g \in Geographies : cursor[g].key # slot
    BY <1>4, <2>1, CampaignConstants DEF KeysGrow, TypeOK, Cursors, Terminal, NoKey, Keys
  <2>3. \A g \in Geographies : GeographyOffset(g)' = 0 /\ GeographyStatus(g)' = "PENDING"
    BY <1>1, <1>4, <2>2 DEF GeographyOffset, GeographyStatus, OfCycle
  <2>4. TypeOK'
    <3>1. cycle' \in Cycles
      BY <1>4, <2>1 DEF Cycles, Keys
    <3>2. QED
      BY <1>1, <1>4, <3>1 DEF TypeOK
  <2>5. KeysGrow'
    <3>1. \A g \in Geographies :
              cursor[g].key # NoKey => cursor[g].key <= slot
      BY <1>4, <2>1, CampaignConstants DEF KeysGrow, TypeOK, Cursors, Cycles, Keys, NoKey, Terminal
    <3>2. slot \in 1..slot
      BY <2>1
    <3>3. QED
      BY <1>1, <1>4, <3>1, <3>2 DEF KeysGrow
  <2>6. FetchesPending'
    BY <1>1, <1>2 DEF FetchesPending
  <2>7. CursorsBehind'
    BY <1>4, <2>3, CampaignConstants DEF CursorsBehind
  <2>8. CompleteStays'
    BY <1>1, <1>4 DEF CompleteStays
  <2>9. QED
    BY <2>4, <2>5, <2>6, <2>7, <2>8
<1>5. QED
  BY <1>3, <1>4 DEF StartRun, GetOrStartCycle

LEMMA BeginRoundKeeps == ASSUME CampaignInv, BeginRound PROVE CampaignInv'
<1> USE DEF CampaignInv
<1>1. /\ run.phase = "choose" /\ UNCHANGED <<listing, slot, cycle, cursor, waiting, history, shorts, stops>>
      /\ run' \in Runs /\ run'.phase = IF Pending = {} THEN "wrapup" ELSE "fetch"
  BY DEF BeginRound, TypeOK, Runs
<1>2. \A g \in Pending : /\ g \in Geographies /\ GeographyStatus(g) \notin CursorTerminal
                         /\ BeginFetch(GeographyOffset(g)) \in Fetches
                         /\ BeginFetch(GeographyOffset(g)).start = GeographyOffset(g)
  BY NoFetchType, GeographyType DEF Pending, BeginFetch, NoFetch, Fetches
<1>3. /\ fetch' \in [Geographies -> Fetches]
      /\ \A g \in Geographies \ Pending : fetch'[g].state = "none"
      /\ \A g \in Pending : fetch'[g].start = GeographyOffset(g)
  BY <1>2, NoFetchType DEF BeginRound
<1>4. \A g \in Geographies : /\ GeographyOffset(g)' = GeographyOffset(g)
                             /\ GeographyStatus(g)' = GeographyStatus(g)
  BY <1>1, SameCursors
<1>5. TypeOK'
  BY <1>1, <1>3 DEF TypeOK, history
<1>6. KeysGrow'
  BY <1>1 DEF KeysGrow
<1>7. FetchesPending'
  BY <1>1, <1>2, <1>3, <1>4 DEF FetchesPending
<1>8. CursorsBehind'
  BY <1>1, <1>4 DEF CursorsBehind, history
<1>9. CompleteStays'
  BY <1>1, SameCursors DEF CompleteStays
<1>10. QED
  BY <1>5, <1>6, <1>7, <1>8, <1>9

\* An answer moves one fetch on.
LEMMA AnswerKeeps ==
    ASSUME CampaignInv, NEW g \in Geographies, run.phase = "fetch", fetch[g].state # "none",
           NEW f \in Fetches, f.start = fetch[g].start, fetch' = [fetch EXCEPT ![g] = f],
           UNCHANGED <<listing, slot, cycle, cursor, run, waiting, history, stops>>,
           shorts' \in 0..MaxShort
    PROVE  CampaignInv'
<1>1. /\ fetch' \in [Geographies -> Fetches]
      /\ \A h \in Geographies :
            fetch'[h].state # "none" => fetch[h].state # "none" /\ fetch'[h].start = fetch[h].start
  BY DEF CampaignInv, TypeOK
<1>2. TypeOK /\ KeysGrow /\ CompleteStays
  BY DEF CampaignInv
<1>3. /\ cycle' \in Cycles /\ run' \in Runs /\ waiting' \subseteq {"this", "earlier"}
      /\ stops' \in 0..MaxStops
  BY <1>2 DEF TypeOK
<1>4. cycle'.status = "COMPLETE" => AllComplete /\ "this" \notin waiting'
  BY <1>2 DEF CompleteStays
<1>5. QED
  BY <1>1, <1>3, <1>4, KeepsCursors

LEMMA ShortType == ASSUME TypeOK, Short PROVE shorts' \in 0..MaxShort
  BY CampaignConstants DEF TypeOK, Short

LEMMA PageAnswerKeeps ==
    ASSUME CampaignInv, NEW g \in Geographies, PageAnswer(g) PROVE CampaignInv'
<1>1. TypeOK /\ fetch[g] \in Fetches
  BY DEF CampaignInv, TypeOK
<1>2. /\ run.phase = "fetch" /\ fetch[g].state = "page"
      /\ UNCHANGED <<listing, slot, cycle, cursor, run, waiting, history, stops>>
  BY DEF PageAnswer
<1>3. CASE /\ fetch' = [fetch EXCEPT ![g] =
                  PageTried([fetch[g] EXCEPT !.seen = "all", !.full = Full(g, fetch[g].start)])]
           /\ UNCHANGED shorts
  <2> DEFINE f == [fetch[g] EXCEPT !.seen = "all", !.full = Full(g, fetch[g].start)]
  <2>1. Full(g, fetch[g].start) \in BOOLEAN
    BY DEF Full
  <2>2. f \in Fetches /\ f.start = fetch[g].start /\ f.state # "none"
    BY <1>1, <1>2, <2>1 DEF Fetches
  <2>3. fetch' = [fetch EXCEPT ![g] = PageTried(f)]
    BY <1>3
  <2>4. shorts' \in 0..MaxShort
    BY <1>1, <1>3 DEF TypeOK
  <2> HIDE DEF f
  <2>5. /\ PageTried(f) \in Fetches /\ PageTried(f).start = fetch[g].start
    BY <2>2, PageTriedType
  <2>6. QED
    BY <1>2, <2>3, <2>4, <2>5, AnswerKeeps
<1>4. CASE /\ Short
           /\ \E s \in ShortlySeen(fetch[g].seen) :
                 fetch' = [fetch EXCEPT ![g] = PageTried([fetch[g] EXCEPT !.seen = s])]
  <2>1. PICK s \in ShortlySeen(fetch[g].seen) :
            fetch' = [fetch EXCEPT ![g] = PageTried([fetch[g] EXCEPT !.seen = s])]
    BY <1>4
  <2> DEFINE f == [fetch[g] EXCEPT !.seen = s]
  <2>2. s \in {"none", "part", "all"}
    BY <1>1 DEF ShortlySeen, Fetches
  <2>3. f \in Fetches /\ f.start = fetch[g].start /\ f.state # "none"
    BY <1>1, <1>2, <2>2 DEF Fetches
  <2>4. fetch' = [fetch EXCEPT ![g] = PageTried(f)] /\ shorts' \in 0..MaxShort
    BY <1>1, <1>4, <2>1, ShortType
  <2> HIDE DEF f
  <2>5. PageTried(f) \in Fetches /\ PageTried(f).start = fetch[g].start
    BY <2>3, PageTriedType
  <2>6. QED
    BY <1>2, <2>4, <2>5, AnswerKeeps
<1>5. QED
  BY <1>3, <1>4 DEF PageAnswer

LEMMA ProbeAnswerKeeps ==
    ASSUME CampaignInv, NEW g \in Geographies, ProbeAnswer(g) PROVE CampaignInv'
<1>1. TypeOK /\ fetch[g] \in Fetches /\ fetch \in [Geographies -> Fetches]
  BY DEF CampaignInv, TypeOK
<1>2. /\ run.phase = "fetch" /\ fetch[g].state = "probe"
      /\ UNCHANGED <<listing, slot, cycle, cursor, run, waiting, history, stops>>
  BY DEF ProbeAnswer
<1>3. PICK rows \in BOOLEAN :
         fetch' = [fetch EXCEPT ![g] = Probed(fetch[g], rows)]
  BY <1>1 DEF ProbeAnswer, HasRows, Full, Tail
<1>4. shorts' \in 0..MaxShort
  BY <1>1, ShortType DEF ProbeAnswer, TypeOK
<1>5. Probed(fetch[g], rows) \in Fetches /\ Probed(fetch[g], rows).start = fetch[g].start
  BY <1>1, <1>2, ProbedType
<1>6. QED
  BY <1>2, <1>3, <1>4, <1>5, AnswerKeeps

\* What the steps below leave alone keeps its type.
LEMMA TypesOf ==
    ASSUME CampaignInv
    PROVE  /\ TypeOK
           /\ cycle \in Cycles /\ run \in Runs /\ fetch \in [Geographies -> Fetches]
           /\ waiting \subseteq {"this", "earlier"} /\ shorts \in 0..MaxShort /\ stops \in 0..MaxStops
           /\ [g \in Geographies |-> NoFetch] \in [Geographies -> Fetches]
           /\ \A g \in Geographies : [h \in Geographies |-> NoFetch][g].state = "none"
           /\ NoRun \in Runs /\ NoRun.phase = "idle"
           /\ cycle.status = "COMPLETE" => AllComplete /\ "this" \notin waiting
  BY NoFetchType DEF CampaignInv, TypeOK, CompleteStays, NoRun, Runs

LEMMA FetchFailsKeeps ==
    ASSUME CampaignInv, NEW g \in Geographies, FetchFails(g) PROVE CampaignInv'
<1>1. /\ run.phase = "fetch"
      /\ UNCHANGED <<listing, slot, cycle, cursor, waiting, history, shorts, stops>>
  BY DEF FetchFails
<1>2. run' \in Runs /\ run'.phase = "fetch"
  BY TypesOf DEF FetchFails, Runs
<1>3. /\ fetch' \in [Geographies -> Fetches]
      /\ \A h \in Geographies :
            fetch'[h].state # "none" => fetch[h].state # "none" /\ fetch'[h].start = fetch[h].start
  BY TypesOf, NoFetchType DEF FetchFails
<1>4. QED
  BY <1>1, <1>2, <1>3, TypesOf, KeepsCursors

LEMMA EndFetchKeeps == ASSUME CampaignInv, EndFetch PROVE CampaignInv'
<1>1. UNCHANGED <<listing, slot, cycle, cursor, fetch, waiting, history, shorts, stops>>
  BY DEF EndFetch
<1>2. /\ run.phase = "fetch" /\ run' \in Runs /\ run'.phase = "ingest"
      /\ \A g \in Geographies : fetch'[g].state \in {"none", "done"}
  BY TypesOf DEF EndFetch, Runs
<1>3. QED
  BY <1>1, <1>2, TypesOf, KeepsCursors

LEMMA EndRoundKeeps == ASSUME CampaignInv, EndRound PROVE CampaignInv'
<1>1. UNCHANGED <<listing, slot, cycle, cursor, fetch, waiting, history, shorts, stops>>
  BY DEF EndRound
<1>2. run.phase = "ingest" /\ run' \in Runs /\ run'.phase = "choose"
  BY TypesOf DEF EndRound, Runs
<1>3. \A g \in Geographies : fetch[g].state \in {"none", "done"}
  BY <1>2 DEF CampaignInv, FetchesPending
<1>4. \A g \in Geographies : fetch'[g].state = "none"
  BY <1>1, <1>3 DEF EndRound, Fetched
<1>5. QED
  BY <1>1, <1>2, <1>4, TypesOf, KeepsCursors

LEMMA WrapUpKeeps == ASSUME CampaignInv, WrapUp PROVE CampaignInv'
<1>1. /\ run.phase = "wrapup"
      /\ UNCHANGED <<listing, slot, cursor, fetch, waiting, history, shorts, stops>>
  BY DEF WrapUp
<1>2. \A g \in Geographies : fetch[g].state = "none"
  BY <1>1 DEF CampaignInv, FetchesPending
<1>3. cycle.status # "none"
  BY <1>1 DEF CampaignInv, KeysGrow
<1>4. CASE AllComplete /\ run' = [run EXCEPT !.phase = "jd"] /\ UNCHANGED cycle
  <2>1. run' \in Runs /\ run'.phase = "jd"
    BY <1>4, TypesOf DEF Runs
  <2>2. QED
    BY <1>1, <1>2, <1>4, <2>1, TypesOf, KeepsCursors
<1>5. CASE ~AllComplete /\ SetStatus(EndedAs)
  <2>1. EndedAs \in {"INCOMPLETE_CAP", "PARTIAL", "PARTIAL_FAILURE"}
    BY DEF EndedAs
  <2>2. /\ cycle' \in Cycles /\ cycle'.key = cycle.key
        /\ cycle'.status \notin {"none", "COMPLETE"} /\ run' = NoRun
    BY <1>5, <2>1, TypesOf DEF SetStatus, Cycles, Terminal
  <2>3. QED
    BY <1>1, <1>2, <1>3, <2>2, TypesOf, KeepsCursors
<1>6. QED
  BY <1>4, <1>5 DEF WrapUp

LEMMA EndJDsKeeps == ASSUME CampaignInv, EndJDs PROVE CampaignInv'
<1>1. /\ run.phase = "jd"
      /\ UNCHANGED <<listing, slot, cursor, fetch, history, shorts, stops>>
  BY DEF EndJDs
<1>2. /\ \A g \in Geographies : fetch[g].state = "none"
      /\ cycle.status # "none" /\ AllComplete
  BY <1>1 DEF CampaignInv, FetchesPending, KeysGrow, CompleteStays
<1>3. /\ cycle' \in Cycles /\ cycle'.key = cycle.key /\ cycle'.status # "none" /\ run' = NoRun
      /\ waiting' \subseteq {"this", "earlier"}
      /\ cycle'.status = "COMPLETE" => "this" \notin waiting'
  BY TypesOf DEF EndJDs, SetStatus, Cycles, Terminal
<1>4. QED
  BY <1>1, <1>2, <1>3, TypesOf, KeepsCursors

LEMMA StopKeeps == ASSUME CampaignInv, Stop PROVE CampaignInv'
<1>1. /\ UNCHANGED <<listing, slot, cycle, cursor, waiting, history, shorts>>
      /\ run.phase # "idle" /\ fetch' = [g \in Geographies |-> NoFetch]
  BY DEF Stop
<1>2. run' \in Runs /\ run'.phase = "wrapup"
  BY TypesOf DEF Stop, Runs
<1>3. stops' \in 0..MaxStops
  BY TypesOf, CampaignConstants DEF Stop
<1>4. QED
  BY <1>1, <1>2, <1>3, TypesOf, KeepsCursors

LEMMA CrashKeeps == ASSUME CampaignInv, Crash PROVE CampaignInv'
<1>1. /\ UNCHANGED <<listing, slot, cycle, cursor, waiting, history, shorts>>
      /\ run.phase # "idle" /\ fetch' = [g \in Geographies |-> NoFetch] /\ run' = NoRun
  BY DEF Crash
<1>2. stops' \in 0..MaxStops
  BY TypesOf, CampaignConstants DEF Crash
<1>3. QED
  BY <1>1, <1>2, TypesOf, KeepsCursors

\* A geography in turn is pending, so the cycle is not complete.
LEMMA TurnIsPending ==
    ASSUME CampaignInv, Fetched # {}
    PROVE  /\ Turn \in Geographies /\ fetch[Turn].state = "done"
           /\ fetch[Turn].start = GeographyOffset(Turn)
           /\ GeographyStatus(Turn) \notin CursorTerminal
           /\ GeographyOffset(Turn) < Cap
           /\ ~AllComplete /\ cycle.status # "COMPLETE"
<1>1. Turn \in Geographies /\ fetch[Turn].state = "done"
  BY TurnIsFetched, TypesOf DEF Fetched
<1>2. /\ fetch[Turn].start = GeographyOffset(Turn)
      /\ GeographyStatus(Turn) \notin CursorTerminal
  BY <1>1 DEF CampaignInv, FetchesPending
<1>3. GeographyOffset(Turn) < Cap
  BY <1>1, <1>2 DEF CampaignInv, CursorsBehind
<1>4. ~AllComplete
  BY <1>1, <1>2 DEF AllComplete, CursorTerminal
<1>5. QED
  BY <1>1, <1>2, <1>3, <1>4, TypesOf

LEMMA IngestBreaksKeeps == ASSUME CampaignInv, IngestBreaks PROVE CampaignInv'
<1>1. /\ UNCHANGED <<listing, slot, cycle, cursor, history, shorts>>
      /\ run.phase = "ingest" /\ Fetched # {}
  BY DEF IngestBreaks
<1>2. Turn \in Geographies /\ cycle.status # "COMPLETE"
  BY <1>1, TurnIsPending
<1>3. waiting' \subseteq {"this", "earlier"}
  BY TypesOf DEF IngestBreaks, Discoveries
<1>4. CASE /\ run' = [run EXCEPT !.failed = @ \cup {Turn}]
           /\ fetch' = [fetch EXCEPT ![Turn] = NoFetch]
           /\ UNCHANGED stops
  <2>1. run' \in Runs /\ run'.phase = "ingest"
    BY <1>1, <1>2, <1>4, TypesOf DEF Runs
  <2>2. /\ fetch' \in [Geographies -> Fetches]
        /\ \A h \in Geographies :
              fetch'[h].state # "none" => fetch'[h] = fetch[h]
    BY <1>2, <1>4, TypesOf, NoFetchType
  <2>3. \A h \in Geographies : fetch'[h].state \in {"none", "done"}
    BY <1>1, <1>2, <1>4, TypesOf, NoFetchType DEF CampaignInv, FetchesPending
  <2>4. QED
    BY <1>1, <1>2, <1>3, <1>4, <2>1, <2>2, <2>3, TypesOf, KeepsCursors
<1>5. CASE /\ stops < MaxStops
           /\ stops' = stops + 1
           /\ run' = [run EXCEPT !.phase = "wrapup", !.stopped = TRUE]
           /\ fetch' = [g \in Geographies |-> NoFetch]
  <2>1. run' \in Runs /\ run'.phase = "wrapup"
    BY <1>5, TypesOf DEF Runs
  <2>2. stops' \in 0..MaxStops
    BY <1>5, TypesOf, CampaignConstants
  <2>3. QED
    BY <1>1, <1>2, <1>3, <1>5, <2>1, <2>2, TypesOf, KeepsCursors
<1>6. QED
  BY <1>4, <1>5 DEF IngestBreaks

\* The page in turn is stored; its cursor is saved by the next step.
LEMMA IngestRowsKeeps == ASSUME CampaignInv, IngestRows PROVE CampaignInv'
<1>1. /\ UNCHANGED <<listing, slot, cycle, cursor, fetch, shorts, stops>>
      /\ run.phase = "ingest" /\ Fetched # {} /\ run' = [run EXCEPT !.phase = "cursor"]
  BY DEF IngestRows
<1>2. /\ Turn \in Geographies /\ fetch[Turn].start = GeographyOffset(Turn)
      /\ GeographyOffset(Turn) < Cap /\ cycle.status # "COMPLETE"
  BY <1>1, TurnIsPending
<1>3. fetch[Turn].start \in Pages
  BY <1>2, TypesOf, GeographyType, CampaignConstants DEF Pages
<1>4. /\ run' \in Runs /\ run'.phase = "cursor"
      /\ waiting' \subseteq {"this", "earlier"}
  BY <1>1, TypesOf DEF Runs, IngestRows, Discoveries
<1>5. /\ stored' \in [Geographies -> SUBSET Pages]
      /\ \A g \in Geographies : stored[g] \subseteq stored'[g]
      /\ fetch[Turn].start \in stored'[Turn]
  BY <1>2, <1>3, TypesOf DEF IngestRows, TypeOK
<1>6. partial' \subseteq Geographies \X Pages
  BY <1>2, <1>3, TypesOf DEF IngestRows, TypeOK
<1>7. /\ \A g \in Geographies : /\ GeographyOffset(g)' = GeographyOffset(g)
                                /\ GeographyStatus(g)' = GeographyStatus(g)
      /\ Fetched' = Fetched /\ Turn' = Turn
  BY <1>1, SameCursors DEF Fetched, Turn
<1>8. TypeOK'
  BY <1>1, <1>4, <1>5, <1>6, TypesOf DEF TypeOK
<1>9. KeysGrow'
  BY <1>1 DEF CampaignInv, KeysGrow
<1>10. FetchesPending'
  BY <1>1, <1>4, <1>5, <1>7 DEF CampaignInv, FetchesPending
<1>11. CursorsBehind'
  BY <1>1, <1>5, <1>7 DEF CampaignInv, CursorsBehind
<1>12. CompleteStays'
  BY <1>1, <1>2, <1>4 DEF CompleteStays
<1>13. QED
  BY <1>8, <1>9, <1>10, <1>11, <1>12 DEF CampaignInv

\* What SaveCursor writes.
LEMMA ConcludedType ==
    ASSUME NEW f \in Fetches, f.start < Cap
    PROVE  /\ Concluded(f) \in CursorTerminal \cup {"PARTIAL"}
           /\ f.start + 1 = Cap => Concluded(f) \in CursorTerminal
           /\ Min({Cap, f.start + 1}) = f.start + 1
           /\ f.start \in Nat
<1>1. f.start \in Nat
  BY DEF Fetches
<1>2. QED
  BY <1>1, MinOfCap, CampaignConstants DEF Concluded, CursorTerminal

LEMMA SaveCursorMoves ==
    ASSUME CampaignInv, SaveCursor
    PROVE  /\ UNCHANGED <<listing, slot, cycle, waiting, history, shorts, stops>>
           /\ run' = [run EXCEPT !.phase = "ingest"] /\ fetch' = [fetch EXCEPT ![Turn] = NoFetch]
           /\ Turn \in Geographies /\ GeographyStatus(Turn) \notin CursorTerminal
           /\ ~AllComplete /\ cycle.status \notin {"none", "COMPLETE"}
           /\ GeographyOffset(Turn) \in stored[Turn] /\ GeographyOffset(Turn) < Cap
           /\ cursor' = [cursor EXCEPT ![Turn] = cursor'[Turn]]
           /\ cursor'[Turn] \in Cursors /\ cursor'[Turn].key = cycle.key
           /\ cursor'[Turn].offset = GeographyOffset(Turn) + 1
           /\ cursor'[Turn].status \in CursorTerminal \cup {"PARTIAL"}
           /\ cursor'[Turn].offset = Cap => cursor'[Turn].status \in CursorTerminal
<1>1. run.phase = "cursor" /\ Fetched # {} /\ fetch[Turn].start \in stored[Turn]
  BY DEF SaveCursor, CampaignInv, FetchesPending
<1>2. /\ Turn \in Geographies /\ fetch[Turn].start = GeographyOffset(Turn)
      /\ GeographyStatus(Turn) \notin CursorTerminal
      /\ GeographyOffset(Turn) < Cap /\ ~AllComplete /\ cycle.status # "COMPLETE"
  BY <1>1, TurnIsPending
<1>3. cycle.status # "none"
  BY <1>1 DEF CampaignInv, KeysGrow
<1>4. /\ Concluded(fetch[Turn]) \in CursorTerminal \cup {"PARTIAL"}
      /\ fetch[Turn].start + 1 = Cap => Concluded(fetch[Turn]) \in CursorTerminal
      /\ Min({Cap, fetch[Turn].start + 1}) = fetch[Turn].start + 1
      /\ fetch[Turn].start \in Nat
  BY <1>2, TypesOf, ConcludedType
<1>5. cursor \in [Geographies -> Cursors]
  BY TypesOf DEF TypeOK
<1>6. /\ cursor' = [cursor EXCEPT ![Turn] = cursor'[Turn]]
      /\ cursor'[Turn] = [key |-> cycle.key, offset |-> fetch[Turn].start + 1,
                          status |-> Concluded(fetch[Turn])]
  BY <1>2, <1>4, <1>5 DEF SaveCursor
<1>7. fetch[Turn].start + 1 \in 0..Cap /\ cycle.key \in Keys \cup {NoKey}
  BY <1>2, <1>4, TypesOf, CampaignConstants DEF Cycles
<1>8. cursor'[Turn] \in Cursors
  BY <1>4, <1>6, <1>7 DEF Cursors
<1>9. QED
  BY <1>1, <1>2, <1>3, <1>4, <1>6, <1>8 DEF SaveCursor

LEMMA SaveCursorKeeps == ASSUME CampaignInv, SaveCursor PROVE CampaignInv'
<1>1. PICK t \in Geographies : t = Turn
  BY SaveCursorMoves
<1>2. /\ UNCHANGED <<listing, slot, cycle, waiting, stored, partial, shorts, stops>>
      /\ run' = [run EXCEPT !.phase = "ingest"] /\ fetch' = [fetch EXCEPT ![t] = NoFetch]
      /\ GeographyStatus(t) \notin CursorTerminal
      /\ cycle.status \notin {"none", "COMPLETE"}
      /\ GeographyOffset(t) \in stored[t] /\ GeographyOffset(t) < Cap
      /\ cursor' = [cursor EXCEPT ![t] = cursor'[t]]
      /\ cursor'[t] \in Cursors /\ cursor'[t].key = cycle.key
      /\ cursor'[t].offset = GeographyOffset(t) + 1
      /\ cursor'[t].offset = Cap => cursor'[t].status \in CursorTerminal
  BY <1>1, SaveCursorMoves DEF history
<1>3. /\ cursor' \in [Geographies -> Cursors]
      /\ \A g \in Geographies \ {t} : cursor'[g] = cursor[g] /\ fetch'[g] = fetch[g]
      /\ fetch' \in [Geographies -> Fetches] /\ fetch'[t].state = "none"
  BY <1>2, TypesOf, NoFetchType DEF TypeOK
<1>4. /\ \A g \in Geographies \ {t} : /\ GeographyOffset(g)' = GeographyOffset(g)
                                      /\ GeographyStatus(g)' = GeographyStatus(g)
      /\ GeographyOffset(t)' = GeographyOffset(t) + 1
      /\ GeographyOffset(t)' = Cap => GeographyStatus(t)' \in CursorTerminal
  BY <1>2, <1>3 DEF GeographyOffset, GeographyStatus, OfCycle
<1>5. run' \in Runs /\ run'.phase = "ingest"
  BY <1>2, TypesOf DEF Runs
<1>6. TypeOK'
  BY <1>2, <1>3, <1>5, TypesOf DEF TypeOK
<1>7. KeysGrow'
  BY <1>2, <1>3, <1>5, CampaignConstants DEF CampaignInv, KeysGrow, TypeOK, Cycles, NoKey, Keys
<1>8. FetchesPending'
  <2>1. run.phase = "cursor"
    BY DEF SaveCursor
  <2>2. QED
    BY <1>3, <1>4, <1>5, <2>1 DEF CampaignInv, FetchesPending
<1>9. CursorsBehind'
  <2>1. GeographyOffset(t) \in Nat
    BY TypesOf, GeographyType
  <2>2. 0..GeographyOffset(t) - 1 \subseteq stored[t]
    BY DEF CampaignInv, CursorsBehind
  <2>3. 0..GeographyOffset(t)' - 1 \subseteq stored'[t]
    BY <1>2, <1>4, <2>1, <2>2
  <2>4. GeographyStatus(t)' \notin CursorTerminal => GeographyOffset(t)' < Cap
    BY <1>2, <1>4, <2>1, CampaignConstants
  <2>5. QED
    BY <1>2, <1>4, <2>3, <2>4 DEF CampaignInv, CursorsBehind
<1>10. CompleteStays'
  BY <1>2, <1>5 DEF CompleteStays
<1>11. QED
  BY <1>6, <1>7, <1>8, <1>9, <1>10 DEF CampaignInv

-----------------------------------------------------------------------------
LEMMA InitKeeps == Init => CampaignInv
<1> SUFFICES ASSUME Init PROVE CampaignInv
  OBVIOUS
<1>1. \A g \in Geographies : GeographyOffset(g) = 0 /\ GeographyStatus(g) = "PENDING"
  BY DEF Init, GeographyOffset, GeographyStatus
<1>2. TypeOK
  <2>1. /\ 1 \in 1..MaxSlots /\ 0 \in 0..Cap /\ 0 \in 0..MaxShort /\ 0 \in 0..MaxStops
    BY CampaignConstants
  <2>2. cycle \in Cycles /\ cursor \in [Geographies -> Cursors] /\ run \in Runs
    BY <2>1 DEF Init, Cycles, Cursors, Runs, NoRun
  <2>3. QED
    BY <2>1, <2>2, NoFetchType DEF Init, TypeOK
<1>3. KeysGrow
  BY DEF Init, KeysGrow, NoRun
<1>4. FetchesPending
  BY NoFetchType DEF Init, FetchesPending, NoRun
<1>5. CursorsBehind
  BY <1>1, CampaignConstants DEF CursorsBehind, CursorTerminal
<1>6. CompleteStays
  BY DEF Init, CompleteStays, NoRun
<1>7. QED
  BY <1>2, <1>3, <1>4, <1>5, <1>6 DEF CampaignInv

LEMMA StepKeeps ==
    ASSUME StartedWith \subseteq {"slot"}, CampaignInv, [Next]_vars
    PROVE  CampaignInv'
<1>1. CASE NextSlot
  BY <1>1, NextSlotKeeps
<1>2. CASE \E kind \in StartedWith : StartRun(kind)
  BY <1>2, StartRunKeeps
<1>3. CASE Step
  BY <1>3, BeginRoundKeeps, PageAnswerKeeps, ProbeAnswerKeeps, FetchFailsKeeps, EndFetchKeeps,
     IngestRowsKeeps, IngestBreaksKeeps, SaveCursorKeeps, EndRoundKeeps, WrapUpKeeps, EndJDsKeeps
     DEF Step
<1>4. CASE Stop \/ Crash
  BY <1>4, StopKeeps, CrashKeeps
<1>5. CASE UNCHANGED vars
  BY <1>5 DEF vars, history, CampaignInv, TypeOK, KeysGrow, FetchesPending, CursorsBehind,
     CompleteStays, AllComplete, GeographyOffset, GeographyStatus, OfCycle, Fetched, Turn
<1>6. QED
  BY <1>1, <1>2, <1>3, <1>4, <1>5 DEF Next

\* The inductive invariant of a campaign whose runs all ask for the slot.
THEOREM CampaignInvariant ==
    ASSUME StartedWith \subseteq {"slot"}
    PROVE  Spec => []CampaignInv
<1>1. CampaignInv /\ [Next]_vars => CampaignInv'
  BY StepKeeps
<1>2. QED
  BY <1>1, InitKeeps, PTL DEF Spec

\* Every variable keeps its type, the pages of the cursors and of the fetches
\* within the cap among them.
THEOREM CampaignTypeCorrect ==
    ASSUME StartedWith \subseteq {"slot"}
    PROVE  Spec => []TypeOK
<1>1. CampaignInv => TypeOK
  BY DEF CampaignInv
<1>2. QED
  BY <1>1, CampaignInvariant, PTL

\* A cycle that is COMPLETE has stored every page of every geography up to its
\* cursor, in this cycle, and none of its discoveries waits for a JD.
THEOREM CompleteIsDone ==
    ASSUME StartedWith \subseteq {"slot"}
    PROVE  Spec => []CompleteCycleIsDone
<1>1. ASSUME CampaignInv PROVE CompleteCycleIsDone
  <2> SUFFICES ASSUME cycle.status = "COMPLETE"
               PROVE  /\ \A g \in Geographies :
                            /\ OfCycle(g) /\ cursor[g].status = "COMPLETE"
                            /\ 0..cursor[g].offset - 1 \subseteq stored[g]
                      /\ "this" \notin waiting
    BY DEF CompleteCycleIsDone
  <2>1. AllComplete /\ "this" \notin waiting
    BY <1>1 DEF CampaignInv, CompleteStays
  <2>2. \A g \in Geographies : OfCycle(g) /\ cursor[g].status = "COMPLETE"
    BY <2>1 DEF AllComplete, GeographyStatus
  <2>3. \A g \in Geographies : 0..cursor[g].offset - 1 \subseteq stored[g]
    BY <1>1, <2>2 DEF CampaignInv, CursorsBehind, GeographyOffset
  <2>4. QED
    BY <2>1, <2>2, <2>3
<1>2. QED
  BY <1>1, CampaignInvariant, PTL

-----------------------------------------------------------------------------
(* The campaign implements LinkedInPaging.                                 *)

\* What the mapping sees of a step that leaves cursors and pages alone.
LEMMA PagingStutters ==
    ASSUME UNCHANGED <<cursor, stored>>, cycle'.key = cycle.key
    PROVE  UNCHANGED Paging!vars
<1>1. \A g \in Geographies : /\ GeographyOffset(g)' = GeographyOffset(g)
                             /\ GeographyStatus(g)' = GeographyStatus(g)
  BY DEF GeographyOffset, GeographyStatus, OfCycle
<1>2. [g \in Geographies |-> GeographyOffset(g)]' = [g \in Geographies |-> GeographyOffset(g)]
  BY <1>1
<1>3. {g \in Geographies : GeographyStatus(g) \in CursorTerminal}'
        = {g \in Geographies : GeographyStatus(g) \in CursorTerminal}
  BY <1>1
<1>4. QED
  BY <1>2, <1>3 DEF Paging!vars

LEMMA StartsPaging ==
    ASSUME CampaignInv, StartRun("slot")
    PROVE  Paging!NewCycle \/ UNCHANGED Paging!vars
<1>1. CASE UNCHANGED <<cycle, waiting, history>>
  BY <1>1, PagingStutters DEF StartRun, history
<1>2. CASE /\ cycle.status = "none" \/ (cycle.status \in Terminal /\ cycle.key # slot)
           /\ cycle' = [key |-> slot, status |-> "PARTIAL"]
           /\ stored' = [g \in Geographies |-> {}]
  <2>1. slot \in 1..MaxSlots /\ slot # NoKey /\ cursor' = cursor
    BY CampaignConstants DEF CampaignInv, TypeOK, NoKey, StartRun
  <2>2. \A g \in Geographies : cursor[g].key # slot
    BY <1>2, <2>1, CampaignConstants
       DEF CampaignInv, KeysGrow, TypeOK, Cursors, Terminal, NoKey, Keys
  <2>3. \A g \in Geographies : GeographyOffset(g)' = 0 /\ GeographyStatus(g)' = "PENDING"
    BY <1>2, <2>1, <2>2 DEF GeographyOffset, GeographyStatus, OfCycle
  <2>4. [g \in Geographies |-> GeographyOffset(g)]' = [g \in Geographies |-> 0]
    BY <2>3
  <2>5. {g \in Geographies : GeographyStatus(g) \in CursorTerminal}' = {}
    BY <2>3 DEF CursorTerminal
  <2>6. QED
    BY <1>2, <2>4, <2>5 DEF Paging!NewCycle
<1>3. QED
  BY <1>1, <1>2 DEF StartRun, GetOrStartCycle

LEMMA StoresPage ==
    ASSUME CampaignInv, IngestRows
    PROVE  \E g \in Geographies : Paging!Store(g)
<1>1. /\ UNCHANGED <<cycle, cursor>> /\ Fetched # {}
      /\ stored' = [stored EXCEPT ![Turn] = @ \cup {fetch[Turn].start}]
  BY DEF IngestRows
<1>2. /\ Turn \in Geographies /\ fetch[Turn].start = GeographyOffset(Turn)
      /\ GeographyStatus(Turn) \notin CursorTerminal
  BY <1>1, TurnIsPending
<1>3. PICK t \in Geographies : t = Turn
  BY <1>2
<1> DEFINE next == [g \in Geographies |-> GeographyOffset(g)]
           done == {g \in Geographies : GeographyStatus(g) \in CursorTerminal}
<1>4. \A g \in Geographies : /\ GeographyOffset(g)' = GeographyOffset(g)
                             /\ GeographyStatus(g)' = GeographyStatus(g)
  BY <1>1 DEF GeographyOffset, GeographyStatus, OfCycle
<1>5. UNCHANGED <<next, done>>
  BY <1>4
<1>6. stored' = [stored EXCEPT ![t] = @ \cup {next[t]}] /\ t \notin done
  BY <1>1, <1>2, <1>3
<1>7. Paging!Store(t)
  BY <1>5, <1>6 DEF Paging!Store
<1>8. QED
  BY <1>7

LEMMA AdvancesPage ==
    ASSUME CampaignInv, SaveCursor
    PROVE  \E g \in Geographies : Paging!Advance(g)
<1>1. PICK t \in Geographies : t = Turn
  BY SaveCursorMoves
<1>2. /\ UNCHANGED <<cycle, stored>>
      /\ GeographyStatus(t) \notin CursorTerminal /\ GeographyOffset(t) \in stored[t]
      /\ cursor' = [cursor EXCEPT ![t] = cursor'[t]]
      /\ cursor'[t].key = cycle.key /\ cursor'[t].offset = GeographyOffset(t) + 1
      /\ cursor'[t].offset = Cap => cursor'[t].status \in CursorTerminal
      /\ cursor \in [Geographies -> Cursors]
  BY <1>1, SaveCursorMoves, TypesOf DEF history, TypeOK
<1>3. /\ \A g \in Geographies \ {t} : /\ GeographyOffset(g)' = GeographyOffset(g)
                                      /\ GeographyStatus(g)' = GeographyStatus(g)
      /\ GeographyOffset(t)' = GeographyOffset(t) + 1
      /\ GeographyOffset(t)' = Cap => GeographyStatus(t)' \in CursorTerminal
  BY <1>2 DEF GeographyOffset, GeographyStatus, OfCycle
<1> DEFINE next == [g \in Geographies |-> GeographyOffset(g)]
           done == {g \in Geographies : GeographyStatus(g) \in CursorTerminal}
<1>4. next' = [next EXCEPT ![t] = @ + 1]
  BY <1>3
<1>5. done' \in {done, done \cup {t}} /\ (next[t] + 1 = Cap => t \in done') /\ t \notin done
  BY <1>2, <1>3
<1>6. Paging!Advance(t)
  BY <1>2, <1>4, <1>5 DEF Paging!Advance
<1>7. QED
  BY <1>6

\* Every other step of a run leaves cursors, pages and the key of the cycle.
LEMMA StepPages ==
    ASSUME CampaignInv, [Next]_vars, StartedWith \subseteq {"slot"}
    PROVE  [Paging!Next]_(Paging!vars)
<1>1. CASE \E kind \in StartedWith : StartRun(kind)
  BY <1>1, StartsPaging DEF Paging!Next
<1>2. CASE IngestRows
  BY <1>2, StoresPage DEF Paging!Next
<1>3. CASE SaveCursor
  BY <1>3, AdvancesPage DEF Paging!Next
<1>4. CASE WrapUp \/ EndJDs
  <2>1. cycle'.key = cycle.key
    BY <1>4, TypesOf DEF WrapUp, EndJDs, SetStatus, Cycles
  <2>2. QED
    BY <1>4, <2>1, PagingStutters DEF WrapUp, EndJDs, history
<1>5. CASE \/ NextSlot \/ BeginRound \/ EndFetch \/ IngestBreaks \/ EndRound \/ Stop \/ Crash
           \/ \E g \in Geographies : PageAnswer(g) \/ ProbeAnswer(g) \/ FetchFails(g)
  BY <1>5, PagingStutters
     DEF NextSlot, BeginRound, EndFetch, IngestBreaks, EndRound, Stop, Crash,
         PageAnswer, ProbeAnswer, FetchFails, history
<1>6. CASE UNCHANGED vars
  BY <1>6, PagingStutters DEF vars, history
<1>7. QED
  BY <1>1, <1>2, <1>3, <1>4, <1>5, <1>6 DEF Next, Step

\* Across stops, crashes and retries a cycle stores the pages of a geography in
\* order, and a cursor passes a page only once it is stored.
THEOREM CampaignImplementsPaging ==
    ASSUME StartedWith \subseteq {"slot"}
    PROVE  Spec => ImplementsPaging
<1>1. Init => Paging!Init
  <2> SUFFICES ASSUME Init PROVE Paging!Init
    OBVIOUS
  <2>1. \A g \in Geographies : GeographyOffset(g) = 0 /\ GeographyStatus(g) = "PENDING"
    BY DEF Init, GeographyOffset, GeographyStatus
  <2>2. [g \in Geographies |-> GeographyOffset(g)] = [g \in Geographies |-> 0]
    BY <2>1
  <2>3. {g \in Geographies : GeographyStatus(g) \in CursorTerminal} = {}
    BY <2>1 DEF CursorTerminal
  <2>4. QED
    BY <2>2, <2>3 DEF Init, Paging!Init
<1>2. CampaignInv /\ [Next]_vars => [Paging!Next]_(Paging!vars)
  BY StepPages
<1>3. QED
  BY <1>1, <1>2, CampaignInvariant, PTL DEF Spec, ImplementsPaging, Paging!Spec

-----------------------------------------------------------------------------
(* What short answers can hide.                                            *)

\* The short answers to the page of a fetch, as long as rows of it are missing.
ShortAnswers(f) ==
    IF f.state = "none" \/ f.seen = "all" THEN 0
    ELSE IF f.state = "page" THEN f.tries ELSE PageAttempts

\* One token for every short answer that a page stored with rows missing, or a
\* fetch that still misses some, stands for.
InFlight == {t \in (Geographies \X Pages) \X (1..PageAttempts) :
                /\ t[1][2] = fetch[t[1][1]].start
                /\ t[2] <= ShortAnswers(fetch[t[1][1]])}
Paid == (partial \X (1..PageAttempts)) \cup InFlight

AnswersPaid == IsFiniteSet(partial) /\ IsFiniteSet(Paid) /\ Cardinality(Paid) <= shorts

\* What it takes to see nothing of n pages behind a page.
Costs(n) == PageAttempts + ProbeAttempts * n

\* s short answers are enough to hide the next n pages behind a full page p.
Hidden(g, p, n, s) ==
    Full(g, p) => \A k \in 0..n : p + k < Cap /\ HasRows(g, p + k) => s >= Costs(k)

\* What a fetch has not seen was hidden from it.
FetchPaid(g, f, s) ==
    /\ f.state = "page" /\ Full(g, f.start) => s >= f.tries
    /\ f.state = "probe" /\ ~f.full =>
           /\ Hidden(g, f.start, f.ahead - 1, s)
           /\ HasRows(g, f.start + f.ahead) => s >= Costs(f.ahead - 1) + f.tries
    /\ f.state = "done" /\ ~f.full /\ ~f.later => Hidden(g, f.start, ProbePages, s)

ProbesPaid == \A g \in Geographies : FetchPaid(g, fetch[g], shorts)

\* Nor was what lies behind a geography declared exhausted.
ConclusionsPaid ==
    \A g \in Geographies :
        cursor[g].status = "COMPLETE" =>
            cursor[g].offset # 0 /\ Hidden(g, cursor[g].offset - 1, ProbePages, shorts)

\* Fetches and open cursors are below the cap, attempts below their limits.
FetchLimits(f) ==
    /\ f.state # "none" => f.start < Cap
    /\ f.state = "page" => ~f.full /\ f.tries < PageAttempts
    /\ f.state = "probe" => ~f.full /\ f.ahead # 0 /\ f.tries < ProbeAttempts
WithinLimits ==
    /\ \A g \in Geographies :
          /\ FetchLimits(fetch[g])
          /\ cursor[g].status \notin CursorTerminal => cursor[g].offset < Cap
    /\ run.phase = "cursor" => Fetched # {}

Kinds ==
    /\ listing \in Listings /\ slot \in 1..MaxSlots /\ cycle \in Cycles
    /\ cursor \in [Geographies -> Cursors] /\ run \in Runs
    /\ fetch \in [Geographies -> Fetches] /\ shorts \in Nat

ShortsInv == Kinds /\ WithinLimits /\ AnswersPaid /\ ProbesPaid /\ ConclusionsPaid

LEMMA CostsGrow ==
    ASSUME NEW n \in Nat
    PROVE  /\ Costs(n) \in Nat /\ Costs(0) = PageAttempts
           /\ Costs(n + 1) = Costs(n) + ProbeAttempts
<1>1. ProbeAttempts \in Nat /\ PageAttempts \in Nat
  BY CampaignConstants
<1>2. /\ ProbeAttempts * n \in Nat /\ ProbeAttempts * 0 = 0
      /\ ProbeAttempts * (n + 1) = ProbeAttempts * n + ProbeAttempts
  BY <1>1
<1>3. QED
  BY <1>1, <1>2 DEF Costs

\* A listing has no gaps.
LEMMA NoGaps ==
    ASSUME listing \in Listings, NEW g \in Geographies, NEW p \in Nat, NEW q \in Nat, p <= q
    PROVE  /\ HasRows(g, q) => HasRows(g, p)
           /\ p < q /\ HasRows(g, q) => Full(g, p)
<1>1. listing[g].full \in Nat
  BY CampaignConstants
<1>2. QED
  BY <1>1 DEF HasRows, Full, Tail

\* What is hidden stays hidden.
LEMMA StaysHidden ==
    ASSUME NEW g \in Geographies, NEW p, NEW n, NEW s \in Nat, NEW s2 \in Nat, s <= s2,
           Hidden(g, p, n, s), n \in Int
    PROVE  Hidden(g, p, n, s2)
<1>1. \A k \in 0..n : Costs(k) \in Nat
  BY CostsGrow
<1>2. QED
  BY <1>1 DEF Hidden

LEMMA FetchStaysPaid ==
    ASSUME NEW g \in Geographies, NEW f \in Fetches, NEW s \in Nat, NEW s2 \in Nat, s <= s2,
           FetchPaid(g, f, s), FetchLimits(f)
    PROVE  FetchPaid(g, f, s2)
<1>1. f.ahead \in Nat /\ f.tries \in Nat /\ ProbePages \in Nat
  BY CampaignConstants DEF Fetches
<1>2. f.state = "probe" => Costs(f.ahead - 1) \in Nat
  BY <1>1, CostsGrow DEF FetchLimits
<1>3. \A n \in Int : Hidden(g, f.start, n, s) => Hidden(g, f.start, n, s2)
  BY StaysHidden
<1>4. QED
  BY <1>1, <1>2, <1>3 DEF FetchPaid

\* Nothing is hidden behind a page that is not full.
LEMMA NothingBehind ==
    ASSUME listing \in Listings, NEW g \in Geographies, NEW f \in Fetches, FetchLimits(f),
           ~Full(g, f.start), NEW s
    PROVE  FetchPaid(g, f, s)
<1>1. f.start \in Nat /\ f.ahead \in Nat
  BY CampaignConstants DEF Fetches
<1>2. f.state = "probe" => ~HasRows(g, f.start + f.ahead)
  BY <1>1, NoGaps DEF FetchLimits
<1>3. \A n : Hidden(g, f.start, n, s)
  BY DEF Hidden
<1>4. QED
  BY <1>2, <1>3 DEF FetchPaid

\* The attempts at the pages before the d-th have been paid; on to that one.
LEMMA ProbingPaid ==
    ASSUME listing \in Listings, NEW g \in Geographies, NEW f \in Fetches, f.start < Cap,
           ~f.full, NEW d \in Nat \ {0}, NEW s \in Nat, Hidden(g, f.start, d - 1, s)
    PROVE  /\ FetchPaid(g, Probing(f, d), s) /\ FetchLimits(Probing(f, d))
           /\ Probing(f, d).seen = f.seen
<1>1. /\ f.start \in Nat /\ d - 1 \in Nat /\ ProbePages \in Nat /\ Cap \in Nat
      /\ ProbeAttempts \in Nat \ {0}
  BY CampaignConstants DEF Fetches
<1>2. CASE d <= ProbePages /\ f.start + d < Cap
  <2>1. /\ Probing(f, d).state = "probe" /\ Probing(f, d).tries = 0 /\ Probing(f, d).ahead = d
        /\ Probing(f, d).start = f.start /\ Probing(f, d).seen = f.seen
        /\ ~Probing(f, d).full
    BY <1>2 DEF Probing, Fetches
  <2>2. HasRows(g, f.start + d) => s >= Costs(d - 1) + 0
    <3>1. f.start + (d - 1) < Cap /\ f.start + (d - 1) \in Nat /\ f.start + d \in Nat
          /\ Costs(d - 1) \in Nat
      BY <1>1, <1>2, CostsGrow
    <3>2. HasRows(g, f.start + d) => HasRows(g, f.start + (d - 1)) /\ Full(g, f.start)
      BY <1>1, <3>1, NoGaps
    <3>3. d - 1 \in 0..d - 1
      BY <1>1
    <3>4. QED
      BY <3>1, <3>2, <3>3 DEF Hidden
  <2>3. QED
    BY <1>1, <2>1, <2>2 DEF FetchPaid, FetchLimits
<1>3. CASE ~(d <= ProbePages /\ f.start + d < Cap)
  <2>1. /\ Probing(f, d).state = "done" /\ Probing(f, d).start = f.start
        /\ Probing(f, d).seen = f.seen
    BY <1>3 DEF Probing, FetchDone, Fetches
  <2>2. \A k \in 0..ProbePages : f.start + k < Cap => k \in 0..d - 1
    BY <1>1, <1>3
  <2>3. Hidden(g, f.start, ProbePages, s)
    BY <2>2 DEF Hidden
  <2>4. QED
    BY <2>1, <2>3 DEF FetchPaid, FetchLimits
<1>4. QED
  BY <1>2, <1>3

-----------------------------------------------------------------------------
(* Tokens.                                                                 *)

LEMMA FewerTokens ==
    ASSUME AnswersPaid, Paid' \subseteq Paid, partial' \subseteq partial,
           shorts \in Nat, shorts' \in Nat, shorts <= shorts'
    PROVE  AnswersPaid'
<1>1. IsFiniteSet(partial') /\ IsFiniteSet(Paid') /\ Cardinality(Paid') <= Cardinality(Paid)
  BY FS_Subset DEF AnswersPaid
<1>2. Cardinality(Paid) \in Nat /\ Cardinality(Paid') \in Nat
  BY <1>1, FS_CardinalityType DEF AnswersPaid
<1>3. QED
  BY <1>1, <1>2 DEF AnswersPaid

LEMMA OneTokenMore ==
    ASSUME AnswersPaid, NEW t, Paid' \subseteq Paid \cup {t}, UNCHANGED partial,
           shorts \in Nat, shorts' = shorts + 1
    PROVE  AnswersPaid'
<1>1. /\ IsFiniteSet(Paid \cup {t})
      /\ Cardinality(Paid \cup {t}) = IF t \in Paid THEN Cardinality(Paid) ELSE Cardinality(Paid) + 1
  BY FS_AddElement DEF AnswersPaid
<1>2. IsFiniteSet(Paid') /\ Cardinality(Paid') <= Cardinality(Paid \cup {t})
  BY <1>1, FS_Subset
<1>3. Cardinality(Paid) \in Nat /\ Cardinality(Paid') \in Nat
  BY <1>2, FS_CardinalityType DEF AnswersPaid
<1>4. QED
  BY <1>1, <1>2, <1>3 DEF AnswersPaid

LEMMA NoNewTokens ==
    ASSUME AnswersPaid, Kinds, UNCHANGED shorts, partial' \subseteq partial,
           \A g \in Geographies : fetch'[g] = fetch[g] \/ ShortAnswers(fetch'[g]) = 0
    PROVE  AnswersPaid'
<1>1. InFlight' \subseteq InFlight
  <2> SUFFICES ASSUME NEW t \in InFlight' PROVE t \in InFlight
    OBVIOUS
  <2>1. /\ t \in (Geographies \X Pages) \X (1..PageAttempts) /\ t[1][1] \in Geographies
        /\ t[1][2] = fetch'[t[1][1]].start /\ t[2] <= ShortAnswers(fetch'[t[1][1]])
        /\ t[2] \in Nat /\ t[2] >= 1
    BY CampaignConstants DEF InFlight, Pages
  <2>2. fetch'[t[1][1]] = fetch[t[1][1]]
    BY <2>1
  <2>3. QED
    BY <2>1, <2>2 DEF InFlight
<1>2. Paid' \subseteq Paid
  BY <1>1 DEF Paid
<1>3. QED
  BY <1>2, FewerTokens DEF Kinds

\* What depends on the listing alone does not change with the state.
LEMMA SameListing ==
    ASSUME UNCHANGED listing
    PROVE  \A g, p, n, s : Hidden(g, p, n, s)' <=> Hidden(g, p, n, s)
  BY DEF Hidden, HasRows, Full, Tail, Costs

LEMMA NoFetchIsPaid ==
    /\ FetchLimits(NoFetch) /\ ShortAnswers(NoFetch) = 0
    /\ \A g \in Geographies : FetchPaid(g, NoFetch, shorts)
  BY DEF NoFetch, FetchLimits, ShortAnswers, FetchPaid

-----------------------------------------------------------------------------
(* The steps.                                                              *)

\* Fetches are dropped or begin, and nothing is concluded.
LEMMA QuietKeeps ==
    ASSUME ShortsInv, UNCHANGED <<listing, cursor, shorts>>, run' \in Runs,
           slot' \in 1..MaxSlots, cycle' \in Cycles, fetch' \in [Geographies -> Fetches],
           \A g \in Geographies :
               \/ fetch'[g] = fetch[g]
               \/ /\ ShortAnswers(fetch'[g]) = 0 /\ FetchLimits(fetch'[g])
                  /\ FetchPaid(g, fetch'[g], shorts),
           partial' \subseteq partial, run'.phase = "cursor" => Fetched' # {}
    PROVE  ShortsInv'
<1> USE DEF ShortsInv
<1>1. Kinds'
  BY DEF Kinds
<1>2. \A g \in Geographies : FetchLimits(fetch'[g]) /\ FetchPaid(g, fetch'[g], shorts)
  BY DEF WithinLimits, ProbesPaid
<1>3. WithinLimits'
  BY <1>2 DEF WithinLimits, FetchLimits
<1>4. ProbesPaid'
  BY <1>2, SameListing DEF ProbesPaid, FetchPaid, HasRows, Full, Tail, Costs
<1>5. ConclusionsPaid'
  BY SameListing DEF ConclusionsPaid
<1>6. AnswersPaid'
  BY NoNewTokens
<1>7. QED
  BY <1>1, <1>3, <1>4, <1>5, <1>6

\* An answer moves one fetch on.
LEMMA AnswerIsPaid ==
    ASSUME ShortsInv, NEW g \in Geographies, fetch[g].state \in {"page", "probe"},
           NEW f \in Fetches, f.start = fetch[g].start, fetch' = [fetch EXCEPT ![g] = f],
           UNCHANGED <<listing, slot, cycle, cursor, run, partial>>, run.phase = "fetch",
           \/ UNCHANGED shorts /\ ShortAnswers(f) <= ShortAnswers(fetch[g])
           \/ shorts' = shorts + 1 /\ ShortAnswers(f) <= ShortAnswers(fetch[g]) + 1,
           FetchLimits(f), FetchPaid(g, f, shorts')
    PROVE  ShortsInv'
<1> USE DEF ShortsInv
<1>1. Kinds' /\ shorts \in Nat /\ shorts' \in Nat /\ shorts <= shorts'
  BY DEF Kinds
<1>2. fetch'[g] = f /\ \A h \in Geographies \ {g} : fetch'[h] = fetch[h]
  BY DEF Kinds
<1>3. WithinLimits'
  BY <1>2 DEF WithinLimits, FetchLimits
<1>4. ProbesPaid'
  <2>1. \A h \in Geographies : FetchPaid(h, fetch'[h], shorts')
    BY <1>1, <1>2, FetchStaysPaid DEF Kinds, ProbesPaid, WithinLimits
  <2>2. QED
    BY <2>1, SameListing DEF ProbesPaid, FetchPaid, HasRows, Full, Tail, Costs
<1>5. ConclusionsPaid'
  <2>1. \A h \in Geographies : cursor[h].offset - 1 \in Int
    BY CampaignConstants DEF Kinds, Cursors
  <2>2. ProbePages \in Int
    BY CampaignConstants
  <2>3. \A h \in Geographies :
            Hidden(h, cursor[h].offset - 1, ProbePages, shorts) =>
            Hidden(h, cursor[h].offset - 1, ProbePages, shorts')
    BY <1>1, <2>1, <2>2, StaysHidden
  <2>4. QED
    BY <2>3, SameListing DEF ConclusionsPaid
<1>6. AnswersPaid'
  <2>1. \A h \in Geographies : fetch'[h].start = fetch[h].start
    BY <1>2
  <2>2. /\ ShortAnswers(fetch[g]) \in Nat /\ ShortAnswers(f) \in Nat
    BY CampaignConstants DEF Kinds, ShortAnswers, Fetches
  <2> DEFINE new == <<<<g, fetch[g].start>>, ShortAnswers(fetch[g]) + 1>>
  <2>3. ASSUME NEW t \in InFlight'
        PROVE  t \in InFlight \/ (shorts' = shorts + 1 /\ t = new)
    <3>1. /\ t \in (Geographies \X Pages) \X (1..PageAttempts) /\ t[1][1] \in Geographies
          /\ t[1][2] = fetch'[t[1][1]].start /\ t[2] <= ShortAnswers(fetch'[t[1][1]])
          /\ t[2] \in Nat /\ t = <<<<t[1][1], t[1][2]>>, t[2]>>
      BY CampaignConstants DEF InFlight, ShortAnswers, Pages
    <3>2. CASE t[1][1] # g
      BY <1>2, <3>1, <3>2 DEF InFlight
    <3>3. CASE t[1][1] = g /\ t[2] <= ShortAnswers(fetch[g])
      BY <2>1, <3>1, <3>3 DEF InFlight
    <3>4. CASE t[1][1] = g /\ ~(t[2] <= ShortAnswers(fetch[g]))
      <4>1. t[2] = ShortAnswers(fetch[g]) + 1 /\ shorts' = shorts + 1
        BY <1>1, <1>2, <2>2, <3>1, <3>4
      <4>2. QED
        BY <2>1, <3>1, <3>4, <4>1
    <3>5. QED
      BY <3>2, <3>3, <3>4
  <2>4. CASE UNCHANGED shorts
    <3>1. Paid' \subseteq Paid
      BY <1>1, <2>3, <2>4 DEF Paid
    <3>2. QED
      BY <1>1, <3>1, FewerTokens
  <2>5. CASE shorts' = shorts + 1
    <3>1. Paid' \subseteq Paid \cup {new}
      BY <2>3 DEF Paid
    <3>2. QED
      BY <1>1, <2>5, <3>1, OneTokenMore
  <2>6. QED
    BY <2>4, <2>5
<1>7. QED
  BY <1>1, <1>3, <1>4, <1>5, <1>6

LEMMA PageAnswerIsPaid == ASSUME ShortsInv, NEW g \in Geographies, PageAnswer(g) PROVE ShortsInv'
<1> USE DEF ShortsInv
<1>1. /\ run.phase = "fetch" /\ fetch[g].state = "page"
      /\ UNCHANGED <<listing, slot, cycle, cursor, run, partial>>
  BY DEF PageAnswer, history
<1>2. /\ fetch[g] \in Fetches /\ listing \in Listings /\ shorts \in Nat
      /\ fetch[g].start < Cap /\ ~fetch[g].full /\ fetch[g].tries < PageAttempts
      /\ FetchPaid(g, fetch[g], shorts) /\ fetch[g].tries \in Nat /\ PageAttempts \in Nat \ {0}
      /\ ProbeAttempts \in Nat \ {0} /\ fetch[g].start \in Nat
  BY <1>1, CampaignConstants DEF Kinds, WithinLimits, FetchLimits, ProbesPaid, Fetches
<1>3. CASE /\ fetch' = [fetch EXCEPT ![g] =
                  PageTried([fetch[g] EXCEPT !.seen = "all", !.full = Full(g, fetch[g].start)])]
           /\ UNCHANGED shorts
  <2> DEFINE f == [fetch[g] EXCEPT !.seen = "all", !.full = Full(g, fetch[g].start)]
  <2>0. Full(g, fetch[g].start) \in BOOLEAN
    BY DEF Full
  <2>1. /\ f \in Fetches /\ f.start = fetch[g].start /\ f.seen = "all" /\ f.state = "page"
        /\ f.full = Full(g, fetch[g].start) /\ f.tries = fetch[g].tries
    BY <1>1, <1>2, <2>0 DEF Fetches
  <2> HIDE DEF f
  <2>2. PageTried(f) \in Fetches /\ PageTried(f).start = fetch[g].start
    BY <2>1, PageTriedType
  <2>3. CASE f.full
    <3>1. /\ PageTried(f).state = "done" /\ PageTried(f).full /\ PageTried(f).seen = "all"
          /\ PageTried(f).start = f.start
      BY <2>1, <2>3 DEF PageTried, FetchDone, Fetches
    <3>2. FetchLimits(PageTried(f)) /\ FetchPaid(g, PageTried(f), shorts')
      BY <1>2, <2>1, <3>1 DEF FetchLimits, FetchPaid
    <3>3. ShortAnswers(PageTried(f)) <= ShortAnswers(fetch[g])
      BY <1>1, <1>2, <3>1 DEF ShortAnswers
    <3>4. QED
      BY <1>1, <1>3, <2>2, <3>2, <3>3, AnswerIsPaid DEF f
  <2>4. CASE ~f.full
    <3>1. FetchLimits(PageTried(f)) /\ PageTried(f).seen = "all"
      <4>1. CASE f.tries + 1 < PageAttempts
        BY <1>2, <2>1, <2>4, <4>1 DEF PageTried, FetchLimits, Fetches
      <4>2. CASE ~(f.tries + 1 < PageAttempts)
        <5>1. Hidden(g, f.start, 1 - 1, shorts)
          BY <2>1, <2>4 DEF Hidden
        <5>2. PageTried(f) = Probing(f, 1)
          BY <2>4, <4>2 DEF PageTried
        <5>3. QED
          BY <1>2, <2>1, <2>4, <5>1, <5>2, ProbingPaid
      <4>3. QED
        BY <4>1, <4>2
    <3>2. FetchPaid(g, PageTried(f), shorts')
      BY <1>2, <2>1, <2>2, <2>4, <3>1, NothingBehind
    <3>3. ShortAnswers(PageTried(f)) <= ShortAnswers(fetch[g])
      BY <1>1, <1>2, <3>1 DEF ShortAnswers
    <3>4. QED
      BY <1>1, <1>3, <2>2, <3>1, <3>2, <3>3, AnswerIsPaid DEF f
  <2>5. QED
    BY <2>3, <2>4
<1>4. CASE /\ Short
           /\ \E s \in ShortlySeen(fetch[g].seen) :
                 fetch' = [fetch EXCEPT ![g] = PageTried([fetch[g] EXCEPT !.seen = s])]
  <2>1. PICK s \in ShortlySeen(fetch[g].seen) :
            fetch' = [fetch EXCEPT ![g] = PageTried([fetch[g] EXCEPT !.seen = s])]
    BY <1>4
  <2> DEFINE f == [fetch[g] EXCEPT !.seen = s]
  <2>2. s \in {"none", "part", "all"} /\ (s # "all" => fetch[g].seen # "all")
    BY <1>2 DEF ShortlySeen, Fetches
  <2>3. /\ f \in Fetches /\ f.start = fetch[g].start /\ f.state = "page" /\ f.seen = s
        /\ ~f.full /\ f.tries = fetch[g].tries
    BY <1>1, <1>2, <2>2 DEF Fetches
  <2>4. fetch' = [fetch EXCEPT ![g] = PageTried(f)] /\ shorts' = shorts + 1 /\ shorts' \in Nat
    <3>1. fetch' = [fetch EXCEPT ![g] = PageTried(f)]
      BY <2>1
    <3>2. shorts' = shorts + 1
      BY <1>4 DEF Short
    <3>3. QED
      BY <1>2, <3>1, <3>2
  <2> HIDE DEF f
  <2>5. PageTried(f) \in Fetches /\ PageTried(f).start = fetch[g].start
    BY <2>3, PageTriedType
  <2>6. Full(g, f.start) => shorts' >= f.tries + 1
    BY <1>1, <1>2, <2>3, <2>4 DEF FetchPaid
  <2>7. CASE f.tries + 1 < PageAttempts
    <3>1. /\ PageTried(f).state = "page" /\ PageTried(f).tries = f.tries + 1
          /\ PageTried(f).start = f.start /\ ~PageTried(f).full /\ PageTried(f).seen = s
      BY <2>3, <2>7 DEF PageTried, Fetches
    <3>2. FetchLimits(PageTried(f)) /\ FetchPaid(g, PageTried(f), shorts')
      BY <1>2, <2>3, <2>6, <2>7, <3>1 DEF FetchLimits, FetchPaid
    <3>3. ShortAnswers(PageTried(f)) <= ShortAnswers(fetch[g]) + 1
      BY <1>1, <1>2, <2>2, <2>3, <3>1 DEF ShortAnswers
    <3>4. QED
      BY <1>1, <2>4, <2>5, <3>2, <3>3, AnswerIsPaid
  <2>8. CASE ~(f.tries + 1 < PageAttempts)
    <3>1. PageTried(f) = Probing(f, 1) /\ f.tries + 1 = PageAttempts
      BY <1>2, <2>3, <2>8 DEF PageTried
    <3>2. Hidden(g, f.start, 1 - 1, shorts')
      <4>1. \A k \in 0..1 - 1 : Costs(k) = PageAttempts
        BY CostsGrow
      <4>2. QED
        BY <2>6, <3>1, <4>1 DEF Hidden
    <3>3. /\ FetchLimits(PageTried(f)) /\ FetchPaid(g, PageTried(f), shorts')
          /\ PageTried(f).seen = s
      BY <1>2, <2>3, <2>4, <3>1, <3>2, ProbingPaid
    <3>4. ShortAnswers(PageTried(f)) <= ShortAnswers(fetch[g]) + 1
      <4>1. ShortAnswers(PageTried(f)) = 0 \/ s # "all"
        BY <3>3 DEF ShortAnswers
      <4>2. /\ ShortAnswers(PageTried(f)) \in Nat /\ ShortAnswers(PageTried(f)) <= PageAttempts
        <5>1. PageTried(f).state = "page" => PageTried(f).tries < PageAttempts
          BY <3>3 DEF FetchLimits
        <5>2. PageTried(f).tries \in Nat
          BY <2>5, CampaignConstants DEF Fetches
        <5>3. QED
          BY <1>2, <5>1, <5>2 DEF ShortAnswers
      <4>3. s # "all" => ShortAnswers(fetch[g]) + 1 = PageAttempts
        BY <1>1, <2>2, <2>3, <3>1 DEF ShortAnswers
      <4>4. ShortAnswers(fetch[g]) \in Nat
        BY <1>1, <1>2 DEF ShortAnswers
      <4>5. QED
        BY <4>1, <4>2, <4>3, <4>4
    <3>5. QED
      BY <1>1, <2>4, <2>5, <3>3, <3>4, AnswerIsPaid
  <2>9. QED
    BY <2>7, <2>8
<1>5. QED
  BY <1>3, <1>4 DEF PageAnswer

LEMMA ProbeAnswerIsPaid == ASSUME ShortsInv, NEW g \in Geographies, ProbeAnswer(g) PROVE ShortsInv'
<1> USE DEF ShortsInv
<1> DEFINE f == fetch[g]
           p == fetch[g].start + fetch[g].ahead
<1>1. /\ run.phase = "fetch" /\ f.state = "probe"
      /\ UNCHANGED <<listing, slot, cycle, cursor, run, partial>>
  BY DEF ProbeAnswer, history
<1>2. /\ f \in Fetches /\ listing \in Listings /\ shorts \in Nat /\ f.start < Cap
      /\ ~f.full /\ f.ahead # 0 /\ f.tries < ProbeAttempts /\ f.tries \in Nat /\ f.ahead \in Nat
      /\ Hidden(g, f.start, f.ahead - 1, shorts)
      /\ HasRows(g, p) => shorts >= Costs(f.ahead - 1) + f.tries
      /\ PageAttempts \in Nat /\ ProbeAttempts \in Nat \ {0}
  BY <1>1, CampaignConstants DEF Kinds, WithinLimits, FetchLimits, ProbesPaid, FetchPaid, Fetches
<1>3. PICK rows \in BOOLEAN :
          /\ fetch' = [fetch EXCEPT ![g] = Probed(f, rows)]
          /\ \/ UNCHANGED shorts /\ (rows <=> HasRows(g, p))
             \/ shorts' = shorts + 1 /\ HasRows(g, p) /\ ~rows
  <2>1. HasRows(g, p) \in BOOLEAN
    BY DEF HasRows, Full, Tail
  <2>2. QED
    BY <1>2, <2>1 DEF ProbeAnswer, Short
<1> HIDE DEF f, p
<1>4. Probed(f, rows) \in Fetches /\ Probed(f, rows).start = f.start
  BY <1>1, <1>2, ProbedType
<1>5. /\ Probed(f, rows).seen = f.seen /\ Probed(f, rows).state \in {"probe", "done"}
      /\ FetchLimits(Probed(f, rows)) /\ FetchPaid(g, Probed(f, rows), shorts')
  <2>1. CASE rows
    <3>1. /\ Probed(f, rows).seen = f.seen /\ Probed(f, rows).state = "done"
          /\ Probed(f, rows).later
      BY <1>2, <2>1 DEF Probed, FetchDone, Fetches
    <3>2. QED
      BY <1>2, <1>4, <3>1 DEF FetchLimits, FetchPaid
  <2>2. ~rows /\ HasRows(g, p) => shorts' >= Costs(f.ahead - 1) + f.tries + 1
    <3>1. Costs(f.ahead - 1) \in Nat
      BY <1>2, CostsGrow
    <3>2. QED
      BY <1>2, <1>3, <3>1
  <2>3. shorts' \in Nat /\ shorts <= shorts'
    BY <1>2, <1>3
  <2>4. Hidden(g, f.start, f.ahead - 1, shorts')
    BY <1>2, <2>3, StaysHidden
  <2>5. CASE ~rows /\ f.tries + 1 < ProbeAttempts
    <3>1. /\ Probed(f, rows).seen = f.seen /\ Probed(f, rows).state = "probe"
          /\ Probed(f, rows).ahead = f.ahead /\ Probed(f, rows).tries = f.tries + 1
          /\ ~Probed(f, rows).full
      BY <1>1, <1>2, <2>5 DEF Probed, Fetches
    <3>2. HasRows(g, f.start + f.ahead) => shorts' >= Costs(f.ahead - 1) + (f.tries + 1)
      <4>1. Costs(f.ahead - 1) \in Nat
        BY <1>2, CostsGrow
      <4>2. QED
        BY <1>2, <2>2, <2>3, <2>5, <4>1 DEF p, f
    <3>3. QED
      BY <1>2, <1>4, <2>4, <2>5, <3>1, <3>2 DEF FetchLimits, FetchPaid
  <2>6. CASE ~rows /\ ~(f.tries + 1 < ProbeAttempts)
    <3>1. Probed(f, rows) = Probing(f, f.ahead + 1) /\ f.tries + 1 = ProbeAttempts
      BY <1>2, <2>6 DEF Probed
    <3>2. Hidden(g, f.start, (f.ahead + 1) - 1, shorts')
      <4>1. Costs(f.ahead) = Costs(f.ahead - 1) + ProbeAttempts /\ Costs(f.ahead - 1) \in Nat
        <5>1. f.ahead - 1 \in Nat /\ (f.ahead - 1) + 1 = f.ahead
          BY <1>2
        <5>2. QED
          BY <5>1, CostsGrow
      <4>2. HasRows(g, f.start + f.ahead) => shorts' >= Costs(f.ahead)
        BY <1>2, <2>2, <2>3, <2>6, <3>1, <4>1 DEF p, f
      <4>3. \A k \in 0..(f.ahead + 1) - 1 : k \in 0..f.ahead - 1 \/ k = f.ahead
        BY <1>2
      <4>4. QED
        BY <2>4, <4>2, <4>3 DEF Hidden
    <3>3. /\ FetchPaid(g, Probing(f, f.ahead + 1), shorts') /\ FetchLimits(Probing(f, f.ahead + 1))
          /\ Probing(f, f.ahead + 1).seen = f.seen
      BY <1>2, <2>3, <3>2, ProbingPaid
    <3>4. Probing(f, f.ahead + 1).state \in {"probe", "done"}
      BY <1>2 DEF Probing, FetchDone, Fetches
    <3>5. QED
      BY <3>1, <3>3, <3>4
  <2>7. QED
    BY <2>1, <2>5, <2>6
<1>6. ShortAnswers(Probed(f, rows)) <= ShortAnswers(f) /\ ShortAnswers(f) \in Nat
  BY <1>1, <1>2, <1>5 DEF ShortAnswers
<1>7. /\ ShortAnswers(Probed(f, rows)) <= ShortAnswers(fetch[g])
      /\ ShortAnswers(Probed(f, rows)) <= ShortAnswers(fetch[g]) + 1
  <2>1. ShortAnswers(Probed(f, rows)) \in Nat
    BY <1>2, <1>5 DEF ShortAnswers
  <2>2. QED
    BY <1>6, <2>1 DEF f
<1>8. fetch[g].state \in {"page", "probe"} /\ f.start = fetch[g].start
  BY <1>1 DEF f
<1>9. QED
  BY <1>1, <1>3, <1>4, <1>5, <1>7, <1>8, AnswerIsPaid

LEMMA BeginRoundIsPaid == ASSUME ShortsInv, BeginRound PROVE ShortsInv'
<1> USE DEF ShortsInv
<1>1. /\ UNCHANGED <<listing, slot, cycle, cursor, shorts, partial>>
      /\ run' \in Runs /\ run'.phase # "cursor"
  BY DEF BeginRound, history, Kinds, Runs
<1>2. ASSUME NEW g \in Pending
      PROVE  /\ BeginFetch(GeographyOffset(g)) \in Fetches
             /\ ShortAnswers(BeginFetch(GeographyOffset(g))) = 0
             /\ FetchLimits(BeginFetch(GeographyOffset(g)))
             /\ FetchPaid(g, BeginFetch(GeographyOffset(g)), shorts)
  <2>1. GeographyOffset(g) \in 0..Cap /\ GeographyOffset(g) < Cap
    BY CampaignConstants
       DEF Pending, WithinLimits, GeographyStatus, GeographyOffset, Kinds, Cursors
  <2> DEFINE b == BeginFetch(GeographyOffset(g))
  <2>2. b = [NoFetch EXCEPT !.state = "page", !.start = GeographyOffset(g)]
    <3>1. ~(GeographyOffset(g) >= Cap)
      BY <2>1, CampaignConstants
    <3>2. QED
      BY <3>1 DEF BeginFetch
  <2>3. /\ b \in Fetches /\ b.state = "page" /\ b.tries = 0 /\ ~b.full /\ b.start < Cap
    BY <2>1, <2>2, NoFetchType DEF NoFetch, Fetches
  <2> HIDE DEF b
  <2>4. /\ ShortAnswers(b) = 0 /\ FetchLimits(b) /\ FetchPaid(g, b, shorts)
    BY <2>3, CampaignConstants DEF ShortAnswers, FetchLimits, FetchPaid, Kinds
  <2>5. QED
    BY <2>3, <2>4 DEF b
<1>3. /\ fetch' \in [Geographies -> Fetches]
      /\ \A g \in Geographies : /\ ShortAnswers(fetch'[g]) = 0 /\ FetchLimits(fetch'[g])
                               /\ FetchPaid(g, fetch'[g], shorts)
  BY <1>2, NoFetchType, NoFetchIsPaid DEF BeginRound
<1>4. QED
  BY <1>1, <1>3, QuietKeeps DEF Kinds

\* A page stored with rows missing takes over what its fetch paid.
LEMMA IngestRowsIsPaid == ASSUME ShortsInv, IngestRows PROVE ShortsInv'
<1> USE DEF ShortsInv
<1>1. /\ UNCHANGED <<listing, slot, cycle, cursor, fetch, shorts>> /\ Fetched # {}
      /\ run' = [run EXCEPT !.phase = "cursor"]
  BY DEF IngestRows
<1>2. PICK g \in Geographies : g = Turn /\ fetch[g].state = "done"
  BY <1>1, TurnIsFetched DEF Fetched
<1>3. Kinds'
  BY <1>1 DEF Kinds, Runs
<1>4. WithinLimits'
  BY <1>1 DEF WithinLimits, FetchLimits, Fetched
<1>5. ProbesPaid' /\ ConclusionsPaid'
  BY <1>1, SameListing DEF ProbesPaid, FetchPaid, HasRows, Full, Tail, Costs, ConclusionsPaid
<1>6. AnswersPaid'
  <2> DEFINE p == fetch[g].start
  <2>1. /\ partial' = partial \/ (partial' = partial \cup {<<g, p>>} /\ fetch[g].seen # "all")
    BY <1>2 DEF IngestRows
  <2>2. p \in Pages
    BY <1>2, CampaignConstants DEF Kinds, Fetches, WithinLimits, FetchLimits, Pages
  <2>3. InFlight' = InFlight
    BY <1>1 DEF InFlight, ShortAnswers
  <2>4. fetch[g].seen # "all" => {<<g, p>>} \X (1..PageAttempts) \subseteq InFlight
    <3>1. SUFFICES ASSUME fetch[g].seen # "all", NEW j \in 1..PageAttempts
                   PROVE  <<<<g, p>>, j>> \in InFlight
      OBVIOUS
    <3>2. ShortAnswers(fetch[g]) = PageAttempts
      BY <1>2, <3>1 DEF ShortAnswers
    <3>3. j <= PageAttempts
      BY CampaignConstants
    <3>4. QED
      BY <2>2, <3>2, <3>3 DEF InFlight
  <2>5. Paid' \subseteq Paid
    BY <2>1, <2>3, <2>4 DEF Paid
  <2>6. IsFiniteSet(partial') /\ IsFiniteSet(Paid') /\ Cardinality(Paid') <= Cardinality(Paid)
    BY <2>1, <2>5, FS_AddElement, FS_Subset DEF AnswersPaid
  <2>7. Cardinality(Paid) \in Nat /\ Cardinality(Paid') \in Nat
    BY <2>6, FS_CardinalityType DEF AnswersPaid
  <2>8. QED
    BY <1>1, <2>6, <2>7 DEF AnswersPaid, Kinds
<1>7. QED
  BY <1>3, <1>4, <1>5, <1>6

\* What a fetch did not see is what the cursor it concludes leaves behind.
LEMMA SaveCursorIsPaid == ASSUME ShortsInv, SaveCursor PROVE ShortsInv'
<1> USE DEF ShortsInv
<1>1. /\ UNCHANGED <<listing, slot, cycle, partial, shorts>> /\ Fetched # {}
      /\ run' = [run EXCEPT !.phase = "ingest"]
  BY DEF SaveCursor, history, WithinLimits
<1>2. PICK t \in Geographies : t = Turn /\ fetch[t].state = "done"
  BY <1>1, TurnIsFetched DEF Fetched
<1>3. /\ fetch[t] \in Fetches /\ fetch[t].start < Cap /\ FetchPaid(t, fetch[t], shorts)
  BY <1>2 DEF Kinds, WithinLimits, FetchLimits, ProbesPaid
<1>4. /\ Concluded(fetch[t]) \in CursorTerminal \cup {"PARTIAL"}
      /\ fetch[t].start + 1 = Cap => Concluded(fetch[t]) \in CursorTerminal
      /\ Min({Cap, fetch[t].start + 1}) = fetch[t].start + 1 /\ fetch[t].start \in Nat
  BY <1>3, ConcludedType
<1>5. /\ cursor'[t] = [key |-> cycle.key, offset |-> fetch[t].start + 1,
                        status |-> Concluded(fetch[t])]
      /\ \A g \in Geographies \ {t} : cursor'[g] = cursor[g]
      /\ cursor' = [cursor EXCEPT ![t] = cursor'[t]]
  BY <1>2, <1>4 DEF SaveCursor, Kinds
<1>6. /\ fetch' \in [Geographies -> Fetches]
      /\ \A g \in Geographies : fetch'[g] = fetch[g] \/ fetch'[g] = NoFetch
  BY <1>2, NoFetchType DEF SaveCursor, Kinds
<1>7. Kinds'
  <2>1. fetch[t].start + 1 \in 0..Cap /\ cycle.key \in Keys \cup {NoKey}
    BY <1>3, <1>4, CampaignConstants DEF Kinds, Cycles
  <2>2. cursor'[t] \in Cursors
    BY <1>4, <1>5, <2>1 DEF Cursors
  <2>3. QED
    BY <1>1, <1>5, <1>6, <2>2 DEF Kinds, Runs
<1>8. WithinLimits'
  <2>1. \A g \in Geographies : FetchLimits(fetch'[g])
    BY <1>6, NoFetchIsPaid DEF WithinLimits
  <2>2. cursor'[t].status \notin CursorTerminal => cursor'[t].offset < Cap
    BY <1>3, <1>4, <1>5, CampaignConstants
  <2>3. run'.phase # "cursor"
    BY <1>1 DEF Kinds, Runs
  <2>4. QED
    BY <1>5, <2>1, <2>2, <2>3 DEF WithinLimits, FetchLimits
<1>9. ProbesPaid'
  <2>1. \A g \in Geographies : FetchPaid(g, fetch'[g], shorts)
    BY <1>6, NoFetchIsPaid DEF ProbesPaid
  <2>2. QED
    BY <1>1, <2>1, SameListing DEF ProbesPaid, FetchPaid, HasRows, Full, Tail, Costs
<1>10. ConclusionsPaid'
  <2>1. cursor'[t].status = "COMPLETE" =>
            cursor'[t].offset # 0 /\ Hidden(t, cursor'[t].offset - 1, ProbePages, shorts)
    <3>1. SUFFICES ASSUME Concluded(fetch[t]) = "COMPLETE"
                   PROVE  Hidden(t, fetch[t].start, ProbePages, shorts)
      <4>1. (fetch[t].start + 1) - 1 = fetch[t].start /\ fetch[t].start + 1 # 0
        BY <1>4
      <4>2. QED
        BY <1>5, <4>1
    <3>2. ~fetch[t].full /\ ~fetch[t].later
      BY <3>1 DEF Concluded
    <3>3. QED
      BY <1>2, <1>3, <3>2 DEF FetchPaid
  <2>2. QED
    BY <1>1, <1>5, <2>1, SameListing DEF ConclusionsPaid
<1>11. AnswersPaid'
  BY <1>1, <1>6, NoFetchIsPaid, NoNewTokens
<1>12. QED
  BY <1>7, <1>8, <1>9, <1>10, <1>11

\* All the other steps drop fetches at most.
LEMMA DropsKeep ==
    ASSUME ShortsInv, UNCHANGED <<listing, cursor, shorts>>, run' \in Runs,
           run'.phase # "cursor", slot' \in 1..MaxSlots, cycle' \in Cycles,
           partial' \subseteq partial,
           \/ UNCHANGED fetch
           \/ \E S : fetch' = [g \in Geographies |-> IF g \in S THEN NoFetch ELSE fetch[g]]
    PROVE  ShortsInv'
<1>1. /\ fetch' \in [Geographies -> Fetches]
      /\ \A g \in Geographies : fetch'[g] = fetch[g] \/ fetch'[g] = NoFetch
  BY NoFetchType DEF ShortsInv, Kinds
<1>2. QED
  BY <1>1, NoFetchIsPaid, QuietKeeps

LEMMA OtherStepsArePaid ==
    ASSUME ShortsInv,
           \/ NextSlot \/ EndFetch \/ IngestBreaks \/ EndRound \/ WrapUp \/ EndJDs \/ Stop \/ Crash
           \/ \E kind \in StartedWith : StartRun(kind)
           \/ \E g \in Geographies : FetchFails(g)
    PROVE  ShortsInv'
<1> USE DEF ShortsInv, Kinds, history
<1>1. /\ NoRun \in Runs /\ NoRun.phase = "idle"
      /\ Geographies \subseteq Nat /\ fetch = [g \in Geographies |-> fetch[g]]
  BY CampaignConstants DEF NoRun, Runs
<1>2. CASE NextSlot
  <2>1. slot' \in 1..MaxSlots
    BY <1>2, CampaignConstants DEF NextSlot
  <2>2. UNCHANGED <<listing, cycle, cursor, run, fetch, shorts, partial>>
    BY <1>2 DEF NextSlot
  <2>3. QED
    BY <2>1, <2>2, QuietKeeps DEF WithinLimits, Fetched
<1>3. CASE \E kind \in StartedWith : StartRun(kind)
  <2>1. /\ UNCHANGED <<listing, slot, cursor, fetch, shorts>> /\ run' \in Runs
        /\ run'.phase = "choose"
    BY <1>3, <1>1 DEF StartRun, Runs, NoRun
  <2>2. cycle' \in Cycles /\ partial' \subseteq partial
    BY <1>3, CampaignConstants DEF StartRun, GetOrStartCycle, Cycles, Keys, Day
  <2>3. QED
    BY <2>1, <2>2, DropsKeep
<1>4. CASE EndFetch \/ EndRound
  <2>1. /\ UNCHANGED <<listing, slot, cycle, cursor, fetch, shorts, partial>> /\ run' \in Runs
        /\ run'.phase # "cursor"
    BY <1>4 DEF EndFetch, EndRound, Runs
  <2>2. QED
    BY <2>1, DropsKeep
<1>5. CASE IngestBreaks
  <2>1. UNCHANGED <<listing, slot, cycle, cursor, shorts, partial>> /\ Turn \in Geographies
    BY <1>5, TurnIsFetched DEF IngestBreaks
  <2>2. run' \in Runs /\ run'.phase # "cursor"
    <3>1. run.phase = "ingest" /\ run \in Runs
      BY <1>5 DEF IngestBreaks
    <3>2. CASE run' = [run EXCEPT !.failed = @ \cup {Turn}]
      BY <2>1, <3>1, <3>2 DEF Runs
    <3>3. CASE run' = [run EXCEPT !.phase = "wrapup", !.stopped = TRUE]
      BY <3>1, <3>3 DEF Runs
    <3>4. QED
      BY <1>5, <3>2, <3>3 DEF IngestBreaks
  <2>3. \E S : fetch' = [g \in Geographies |-> IF g \in S THEN NoFetch ELSE fetch[g]]
    <3>1. CASE fetch' = [fetch EXCEPT ![Turn] = NoFetch]
      <4>1. fetch' = [g \in Geographies |-> IF g \in {Turn} THEN NoFetch ELSE fetch[g]]
        BY <2>1, <3>1
      <4>2. QED
        BY <4>1
    <3>2. CASE fetch' = [g \in Geographies |-> NoFetch]
      <4>1. fetch' = [g \in Geographies |-> IF g \in Geographies THEN NoFetch ELSE fetch[g]]
        BY <3>2
      <4>2. QED
        BY <4>1
    <3>3. QED
      BY <1>5, <3>1, <3>2 DEF IngestBreaks
  <2>4. QED
    BY <2>1, <2>2, <2>3, DropsKeep
<1>6. CASE WrapUp \/ EndJDs
  <2>1. UNCHANGED <<listing, slot, cursor, fetch, shorts, partial>>
    BY <1>6 DEF WrapUp, EndJDs
  <2>2. run' \in Runs /\ run'.phase # "cursor"
    BY <1>1, <1>6 DEF WrapUp, EndJDs, SetStatus, Runs
  <2>3. cycle' \in Cycles
    BY <1>6 DEF WrapUp, EndJDs, SetStatus, EndedAs, Cycles, Terminal
  <2>4. QED
    BY <2>1, <2>2, <2>3, DropsKeep
<1>7. CASE Stop \/ Crash
  <2>1. UNCHANGED <<listing, slot, cycle, cursor, shorts, partial>>
    BY <1>7 DEF Stop, Crash
  <2>2. run' \in Runs /\ run'.phase # "cursor"
    BY <1>1, <1>7 DEF Stop, Crash, Runs
  <2>3. fetch' = [g \in Geographies |-> IF g \in Geographies THEN NoFetch ELSE fetch[g]]
    BY <1>7 DEF Stop, Crash
  <2>4. QED
    BY <2>1, <2>2, <2>3, DropsKeep
<1>8. CASE \E g \in Geographies : FetchFails(g)
  <2>1. PICK h \in Geographies : FetchFails(h)
    BY <1>8
  <2>2. UNCHANGED <<listing, slot, cycle, cursor, shorts, partial>>
    BY <2>1 DEF FetchFails
  <2>3. run' \in Runs /\ run'.phase # "cursor"
    BY <2>1 DEF FetchFails, Runs
  <2>4. fetch' = [g \in Geographies |-> IF g \in {h} THEN NoFetch ELSE fetch[g]]
    BY <2>1 DEF FetchFails
  <2>5. QED
    BY <2>2, <2>3, <2>4, DropsKeep
<1>9. QED
  BY <1>2, <1>3, <1>4, <1>5, <1>6, <1>7, <1>8

LEMMA InitIsPaid == Init => ShortsInv
<1> SUFFICES ASSUME Init PROVE ShortsInv
  OBVIOUS
<1>1. /\ 1 \in 1..MaxSlots /\ 0 \in 0..Cap /\ 0 < Cap
  BY CampaignConstants
<1>2. Kinds
  BY <1>1, NoFetchType DEF Init, Kinds, Cycles, Cursors, Runs, NoRun
<1>3. /\ WithinLimits /\ ProbesPaid
  BY <1>1, NoFetchIsPaid DEF Init, WithinLimits, ProbesPaid, NoRun
<1>4. ConclusionsPaid
  BY DEF Init, ConclusionsPaid
<1>5. AnswersPaid
  <2>1. InFlight = {}
    <3> SUFFICES ASSUME NEW t \in InFlight PROVE FALSE
      OBVIOUS
    <3>1. t[1][1] \in Geographies /\ t[2] \in 1..PageAttempts /\ t[2] <= ShortAnswers(fetch[t[1][1]])
      BY DEF InFlight
    <3>2. ShortAnswers(fetch[t[1][1]]) = 0
      BY <3>1, NoFetchIsPaid DEF Init
    <3>3. QED
      BY <3>1, <3>2, CampaignConstants
  <2>2. partial = {} /\ Paid = {} /\ shorts = 0
    BY <2>1 DEF Init, Paid
  <2>3. QED
    BY <2>2, FS_EmptySet DEF AnswersPaid
<1>6. QED
  BY <1>2, <1>3, <1>4, <1>5 DEF ShortsInv

LEMMA StepIsPaid == ASSUME ShortsInv, [Next]_vars PROVE ShortsInv'
<1>1. CASE UNCHANGED vars
  BY <1>1 DEF vars, history, ShortsInv, Kinds, WithinLimits, Fetched, FetchLimits, AnswersPaid,
     Paid, InFlight, ShortAnswers, ProbesPaid, FetchPaid, ConclusionsPaid, Hidden, HasRows, Full,
     Tail, Costs
<1>2. QED
  BY <1>1, OtherStepsArePaid, PageAnswerIsPaid, ProbeAnswerIsPaid, BeginRoundIsPaid,
     IngestRowsIsPaid, SaveCursorIsPaid DEF Next, Step

\* Short answers are counted against what they hide: the rows missing from the
\* pages stored, and the pages behind a geography declared exhausted.
THEOREM ShortsInvariant == Spec => []ShortsInv
<1>1. QED
  BY InitIsPaid, StepIsPaid, PTL DEF Spec

\* A page the cursor has passed is stored with rows missing only if all the
\* attempts at it were answered short.
THEOREM MissingRowsArePaid == Spec => []MissingRowsCostAttempts
<1>1. ASSUME ShortsInv PROVE MissingRowsCostAttempts
  <2>1. IsFiniteSet(1..PageAttempts) /\ Cardinality(1..PageAttempts) = PageAttempts
    BY FS_Interval, CampaignConstants
  <2>2. IsFiniteSet(partial) /\ IsFiniteSet(Paid) /\ Cardinality(Paid) <= shorts
    BY <1>1 DEF ShortsInv, AnswersPaid
  <2>3. Cardinality(partial \X (1..PageAttempts)) = Cardinality(partial) * PageAttempts
    BY <2>1, <2>2, FS_Product
  <2>4. Cardinality(partial \X (1..PageAttempts)) <= Cardinality(Paid)
    BY <2>2, FS_Subset DEF Paid
  <2>5. /\ Cardinality(partial) \in Nat /\ Cardinality(Paid) \in Nat /\ PageAttempts \in Nat
        /\ shorts \in Nat
    BY <1>1, <2>2, FS_CardinalityType, CampaignConstants DEF ShortsInv, Kinds
  <2>6. PageAttempts * Cardinality(partial) = Cardinality(partial) * PageAttempts
    BY <2>5
  <2>7. Cardinality(partial) * PageAttempts \in Nat
    BY <2>5
  <2>8. QED
    BY <2>2, <2>3, <2>4, <2>5, <2>6, <2>7 DEF MissingRowsCostAttempts
<1>2. QED
  BY <1>1, ShortsInvariant, PTL

LEMMA MinOfTwo ==
    ASSUME NEW a \in Nat, NEW b \in Nat
    PROVE  Min({a, b}) = IF a <= b THEN a ELSE b
  BY DEF Min

\* A geography declared exhausted while LinkedIn lists more pages below the cap
\* was answered short at every attempt at the page and at each page probed
\* behind it; whatever the cap, the attempts, and what is listed.
THEOREM ExhaustedIsPaid == Spec => []CompleteIsExhausted
<1>1. ASSUME ShortsInv PROVE CompleteIsExhausted
  <2> SUFFICES ASSUME NEW g \in Geographies, cursor[g].status = "COMPLETE"
               PROVE  /\ \/ Unseen(g) = 0
                         \/ shorts >= PageAttempts + ProbeAttempts * Min({ProbePages, Unseen(g)})
                      /\ ~HasRows(g, Cap) \/ shorts >= PageAttempts
    BY DEF CompleteIsExhausted
  <2> DEFINE o == cursor[g].offset
             m == listing[g].full + (IF listing[g].tail THEN 1 ELSE 0)
             e == IF m < Cap THEN m ELSE Cap
             U == {p \in o..Cap - 1 : HasRows(g, p)}
  <2>1. /\ o \in Nat /\ o # 0 /\ o <= Cap /\ Hidden(g, o - 1, ProbePages, shorts)
        /\ listing \in Listings /\ shorts \in Nat /\ Cap \in Nat /\ ProbePages \in Nat
    BY <1>1, CampaignConstants DEF ShortsInv, Kinds, Cursors, ConclusionsPaid
  <2>2. m \in Nat /\ \A p \in Nat : HasRows(g, p) <=> p < m
    BY <2>1, CampaignConstants DEF HasRows, Full, Tail
  <2>3. Unseen(g) = Cardinality(U)
    BY DEF Unseen
  <2> HIDE DEF o, m
  <2>4. \A k \in 0..ProbePages :
            o - 1 < m - 1 /\ o - 1 + k < Cap /\ o - 1 + k < m => shorts >= Costs(k)
    <3>1. SUFFICES ASSUME NEW k \in 0..ProbePages, o - 1 < m - 1, o - 1 + k < Cap, o - 1 + k < m
                   PROVE  shorts >= Costs(k)
      OBVIOUS
    <3>2. /\ o - 1 \in Nat /\ o \in Nat /\ (o - 1) + k \in Nat /\ o < m
      BY <2>1, <2>2, <3>1
    <3>3. Full(g, o - 1) /\ HasRows(g, (o - 1) + k)
      BY <2>1, <2>2, <3>1, <3>2, NoGaps
    <3>4. QED
      BY <2>1, <3>1, <3>2, <3>3 DEF Hidden
  <2>5. CASE o < e
    <3>1. U = o..e - 1
      BY <2>1, <2>2
    <3>2. Cardinality(U) = e - o /\ e - o \in Nat
      <4>1. /\ e - 1 \in Int /\ o \in Int /\ o <= e - 1 /\ (e - 1) - o + 1 = e - o
            /\ e - o \in Nat
        BY <2>1, <2>2, <2>5
      <4>2. PICK z \in Int : z = e - 1
        BY <4>1
      <4>3. Cardinality(o..z) = IF o > z THEN 0 ELSE z - o + 1
        BY <4>1, FS_Interval
      <4>4. Cardinality(o..z) = z - o + 1
        BY <4>1, <4>2, <4>3
      <4>5. QED
        BY <3>1, <4>1, <4>2, <4>4
    <3> DEFINE k == Min({ProbePages, e - o})
    <3>3. k \in 0..ProbePages /\ k <= e - o
      BY <2>1, <3>2, MinOfTwo
    <3> HIDE DEF k
    <3>4. shorts >= Costs(k)
      BY <2>1, <2>2, <2>4, <2>5, <3>3
    <3>5. shorts >= PageAttempts + ProbeAttempts * Min({ProbePages, Unseen(g)})
      BY <2>3, <3>2, <3>4 DEF Costs, k
    <3>6. shorts >= PageAttempts
      <4>1. 0 \in 0..ProbePages
        BY <2>1
      <4>2. shorts >= Costs(0)
        BY <2>1, <2>2, <2>4, <2>5, <4>1
      <4>3. QED
        BY <4>2, CostsGrow
    <3>7. QED
      BY <3>5, <3>6
  <2>6. CASE ~(o < e)
    <3>1. U = {}
      BY <2>1, <2>2, <2>6
    <3>2. Unseen(g) = 0
      BY <2>3, <3>1, FS_EmptySet
    <3>3. HasRows(g, Cap) => shorts >= PageAttempts
      <4>1. HasRows(g, Cap) => Cap < m
        BY <2>1, <2>2
      <4>2. 0 \in 0..ProbePages
        BY <2>1
      <4>3. HasRows(g, Cap) => shorts >= Costs(0)
        BY <2>1, <2>2, <2>4, <4>1, <4>2
      <4>4. QED
        BY <4>3, CostsGrow
    <3>4. QED
      BY <3>2, <3>3
  <2>7. QED
    BY <2>5, <2>6
<1>2. QED
  BY <1>1, ShortsInvariant, PTL

=============================================================================
