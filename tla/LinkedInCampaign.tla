-------------------------- MODULE LinkedInCampaign --------------------------
(***************************************************************************)
(* run_linkedin_campaign.  A cycle pages every geography by a persisted    *)
(* cursor.  A run of the cycle works in rounds: one page of every pending  *)
(* geography is fetched concurrently, then the pages are stored one after  *)
(* the other, each cursor behind its rows; when every geography is         *)
(* complete the queued JDs are fetched and the cycle ends.  LinkedIn may   *)
(* answer with fewer rows than a page has, so a page is asked for again    *)
(* and the pages behind it are probed before a geography is exhausted.     *)
(* A run may be stopped, reach its deadline or die at any point.           *)
(*                                                                         *)
(* A page is what ten positions hold; its rows are told apart only by      *)
(* whether all of them were seen.  What a geography lists is chosen once.  *)
(***************************************************************************)
EXTENDS Naturals, FiniteSets, FiniteSetsExt

CONSTANTS
    Geographies,      \* the enabled geographies, numbers in the order of their codes
    StartedWith,      \* the keys runs ask for: "slot" (scheduler, Admin), "day" (command line)
    Cap,              \* LINKEDIN_RESULT_CAP in pages
    PageAttempts,     \* LINKEDIN_PAGE_RETRY_ATTEMPTS
    ProbeAttempts,    \* attempts of a probe
    ProbePages,       \* LINKEDIN_TERMINAL_PROBE_PAGES
    Listings,         \* what it may list: full pages, and a page with fewer rows
    MaxSlots, MaxShort, MaxStops

ASSUME CampaignConstants ==
    /\ Geographies \subseteq Nat \ {0} /\ Geographies # {}
    /\ StartedWith \subseteq {"slot", "day"}
    /\ Cap \in Nat \ {0} /\ PageAttempts \in Nat \ {0}
    /\ ProbeAttempts \in Nat \ {0} /\ ProbePages \in Nat
    /\ Listings \subseteq [Geographies -> [full : Nat, tail : BOOLEAN]]
    /\ MaxSlots \in Nat \ {0} /\ MaxShort \in Nat /\ MaxStops \in Nat

VARIABLES
    listing,    \* what LinkedIn lists for each geography
    slot,       \* the LinkedIn slot of the clock
    cycle,      \* the row of source_campaign_state
    cursor,     \* the rows of collection_cursors
    run,        \* the run_linkedin_campaign in progress
    fetch,      \* the fetch_linkedin_geography_page of every geography
    waiting,    \* whose discoveries wait for a JD: this cycle's, an earlier one's
    stored,     \* history: the pages stored in this cycle
    partial,    \* history: those of them stored with rows missing
    shorts,     \* answers with fewer rows than the page has
    stops       \* stops, deadlines and crashes

vars == <<listing, slot, cycle, cursor, run, fetch, waiting, stored, partial,
          shorts, stops>>
history == <<stored, partial>>

Day == 0                     \* the key of the local date
NoKey == MaxSlots + 1
Keys == 0..MaxSlots
Pages == 0..Cap - 1

Terminal == {"COMPLETE", "INCOMPLETE_CAP", "PARTIAL_FAILURE"}
CursorTerminal == {"COMPLETE", "INCOMPLETE_CAP"}

NoRun == [phase |-> "idle", failed |-> {}, stopped |-> FALSE]
NoFetch == [state |-> "none", start |-> 0, tries |-> 0, ahead |-> 0,
            seen |-> "none", full |-> FALSE, later |-> FALSE]

Cycles == [key : Keys \cup {NoKey}, status : Terminal \cup {"PARTIAL", "none"}]
Cursors == [key : Keys \cup {NoKey}, offset : 0..Cap,
            status : CursorTerminal \cup {"PARTIAL", "PENDING"}]
Runs == [phase : {"idle", "choose", "fetch", "ingest", "cursor", "wrapup", "jd"},
         failed : SUBSET Geographies, stopped : BOOLEAN]
Fetches == [state : {"none", "page", "probe", "done"}, start : 0..Cap,
            tries : 0..PageAttempts + ProbeAttempts, ahead : 0..ProbePages,
            seen : {"none", "part", "all"}, full : BOOLEAN, later : BOOLEAN]

TypeOK ==
    /\ listing \in Listings
    /\ slot \in 1..MaxSlots
    /\ cycle \in Cycles
    /\ cursor \in [Geographies -> Cursors]
    /\ run \in Runs
    /\ fetch \in [Geographies -> Fetches]
    /\ waiting \subseteq {"this", "earlier"}
    /\ stored \in [Geographies -> SUBSET Pages]
    /\ partial \subseteq Geographies \X Pages
    /\ shorts \in 0..MaxShort
    /\ stops \in 0..MaxStops

Init ==
    /\ listing \in Listings
    /\ slot = 1
    /\ cycle = [key |-> NoKey, status |-> "none"]
    /\ cursor = [g \in Geographies |-> [key |-> NoKey, offset |-> 0, status |-> "PENDING"]]
    /\ run = NoRun
    /\ fetch = [g \in Geographies |-> NoFetch]
    /\ waiting = {}
    /\ stored = [g \in Geographies |-> {}]
    /\ partial = {}
    /\ shorts = 0
    /\ stops = 0

-----------------------------------------------------------------------------
(* What LinkedIn has. *)

Full(g, p) == p < listing[g].full
Tail(g, p) == listing[g].tail /\ p = listing[g].full
HasRows(g, p) == Full(g, p) \/ Tail(g, p)

Short == shorts < MaxShort /\ shorts' = shorts + 1

-----------------------------------------------------------------------------
(* The cycle and the cursors. *)

NextSlot ==
    /\ slot < MaxSlots
    /\ slot' = slot + 1
    /\ UNCHANGED <<listing, cycle, cursor, run, fetch, waiting, history, shorts, stops>>

OfCycle(g) == cursor[g].key = cycle.key
GeographyStatus(g) == IF OfCycle(g) THEN cursor[g].status ELSE "PENDING"
\* Mistaken: the offset is taken over from the cycle before.
AnyOffset(g) == cursor[g].offset
GeographyOffset(g) == IF OfCycle(g) THEN cursor[g].offset ELSE 0

\* A terminal cycle of another key is succeeded by a new one.
GetOrStartCycle(desired) ==
    IF cycle.status = "none" \/ (cycle.status \in Terminal /\ cycle.key # desired)
    THEN /\ cycle' = [key |-> desired, status |-> "PARTIAL"]
         /\ waiting' = IF waiting = {} THEN {} ELSE {"earlier"}
         /\ stored' = [g \in Geographies |-> {}]
         /\ partial' = {}
    ELSE UNCHANGED <<cycle, waiting, history>>

StartRun(kind) ==
    /\ run.phase = "idle"
    /\ GetOrStartCycle(IF kind = "slot" THEN slot ELSE Day)
    /\ run' = [NoRun EXCEPT !.phase = "choose"]
    /\ UNCHANGED <<listing, slot, cursor, fetch, shorts, stops>>

-----------------------------------------------------------------------------
(* A round: one page of every pending geography. *)

Pending == {g \in Geographies \ run.failed : GeographyStatus(g) \notin CursorTerminal}

\* At the cap nothing is asked for.
BeginFetch(offset) ==
    [NoFetch EXCEPT !.state = IF offset >= Cap THEN "done" ELSE "page", !.start = offset]

BeginRound ==
    /\ run.phase = "choose"
    /\ run' = [run EXCEPT !.phase = IF Pending = {} THEN "wrapup" ELSE "fetch"]
    /\ fetch' = [g \in Geographies |->
                    IF g \in Pending THEN BeginFetch(GeographyOffset(g)) ELSE NoFetch]
    /\ UNCHANGED <<listing, slot, cycle, cursor, waiting, history, shorts, stops>>

FetchDone(f) == [f EXCEPT !.state = "done", !.tries = 0, !.ahead = 0]

\* Probes stop at the cap.
Probing(f, d) ==
    IF d <= ProbePages /\ f.start + d < Cap
    THEN [f EXCEPT !.state = "probe", !.tries = 0, !.ahead = d]
    ELSE FetchDone(f)

\* Mistaken: one short answer ends the attempts.
GivesUp(f) == Probing(f, 1)
PageTried(f) ==
    IF f.full THEN FetchDone(f)
    ELSE IF f.tries + 1 < PageAttempts THEN [f EXCEPT !.tries = f.tries + 1]
    ELSE Probing(f, 1)

\* The answers are united, so two short ones may hold the whole page.
ShortlySeen(s) == CASE s = "none" -> {"none", "part"}
                    [] s = "part" -> {"part", "all"}
                    [] s = "all" -> {"all"}

PageAnswer(g) ==
    /\ run.phase = "fetch" /\ fetch[g].state = "page"
    /\ LET f == fetch[g]
       IN  \/ /\ fetch' = [fetch EXCEPT ![g] =
                     PageTried([f EXCEPT !.seen = "all", !.full = Full(g, f.start)])]
              /\ UNCHANGED shorts
           \/ /\ HasRows(g, f.start)
              /\ Short
              /\ \E s \in ShortlySeen(f.seen) :
                    fetch' = [fetch EXCEPT ![g] = PageTried([f EXCEPT !.seen = s])]
    /\ UNCHANGED <<listing, slot, cycle, cursor, run, waiting, history, stops>>

\* Mistaken: a page is probed only once.
ProbedOnce(f, rows) ==
    IF rows THEN FetchDone([f EXCEPT !.later = TRUE]) ELSE Probing(f, f.ahead + 1)
\* Rows on a probed page decide it, whether or not another attempt is made.
Probed(f, rows) ==
    IF rows THEN FetchDone([f EXCEPT !.later = TRUE])
    ELSE IF f.tries + 1 < ProbeAttempts THEN [f EXCEPT !.tries = f.tries + 1]
    ELSE Probing(f, f.ahead + 1)

ProbeAnswer(g) ==
    /\ run.phase = "fetch" /\ fetch[g].state = "probe"
    /\ LET p == fetch[g].start + fetch[g].ahead
       IN  \/ fetch' = [fetch EXCEPT ![g] = Probed(@, HasRows(g, p))] /\ UNCHANGED shorts
           \/ HasRows(g, p) /\ Short /\ fetch' = [fetch EXCEPT ![g] = Probed(@, FALSE)]
    /\ UNCHANGED <<listing, slot, cycle, cursor, run, waiting, history, stops>>

\* JobSpy reports an error, dies or stalls: the geography is left for this run.
FetchFails(g) ==
    /\ run.phase = "fetch" /\ fetch[g].state \in {"page", "probe"}
    /\ fetch' = [fetch EXCEPT ![g] = NoFetch]
    /\ run' = [run EXCEPT !.failed = @ \cup {g}]
    /\ UNCHANGED <<listing, slot, cycle, cursor, waiting, history, shorts, stops>>

EndFetch ==
    /\ run.phase = "fetch"
    /\ \A g \in Geographies : fetch[g].state \in {"none", "done"}
    /\ run' = [run EXCEPT !.phase = "ingest"]
    /\ UNCHANGED <<listing, slot, cycle, cursor, fetch, waiting, history, shorts, stops>>

-----------------------------------------------------------------------------
(* The pages are stored in the order of the codes. *)

Fetched == {g \in Geographies : fetch[g].state = "done"}
Turn == Min(Fetched)

\* Any of the rows may be a discovery, which is queued as it is stored.
Discoveries(g) ==
    IF HasRows(g, fetch[g].start) THEN {waiting, waiting \cup {"this"}} ELSE {waiting}

IngestRows ==
    /\ run.phase = "ingest" /\ Fetched # {}
    /\ LET g == Turn
           p == fetch[g].start
       IN  /\ waiting' \in Discoveries(g)
           /\ stored' = [stored EXCEPT ![g] = @ \cup {p}]
           /\ partial' = IF fetch[g].seen = "all" \/ p \in stored[g] THEN partial
                         ELSE partial \cup {<<g, p>>}
    /\ run' = [run EXCEPT !.phase = "cursor"]
    /\ UNCHANGED <<listing, slot, cycle, cursor, fetch, shorts, stops>>

\* Some of the rows are stored, then an error or a stop.
IngestBreaks ==
    /\ run.phase = "ingest" /\ Fetched # {}
    /\ waiting' \in Discoveries(Turn)
    /\ \/ /\ run' = [run EXCEPT !.failed = @ \cup {Turn}]
          /\ fetch' = [fetch EXCEPT ![Turn] = NoFetch]
          /\ UNCHANGED stops
       \/ /\ stops < MaxStops
          /\ stops' = stops + 1
          /\ run' = [run EXCEPT !.phase = "wrapup", !.stopped = TRUE]
          /\ fetch' = [g \in Geographies |-> NoFetch]
    /\ UNCHANGED <<listing, slot, cycle, cursor, history, shorts>>

\* What the fetch concluded.  Mistaken: the cap is noticed a page too late.
CapBehind(f) ==
    IF f.full \/ f.later \/ f.start >= Cap
    THEN IF f.start + 1 > Cap THEN "INCOMPLETE_CAP" ELSE "PARTIAL"
    ELSE "COMPLETE"
Concluded(f) ==
    IF f.full \/ f.later \/ f.start >= Cap
    THEN IF f.start + 1 >= Cap THEN "INCOMPLETE_CAP" ELSE "PARTIAL"
    ELSE "COMPLETE"

SaveCursor ==
    /\ run.phase = "cursor"
    /\ cursor' = [cursor EXCEPT ![Turn] = [key |-> cycle.key,
            offset |-> Min({Cap, fetch[Turn].start + 1}), status |-> Concluded(fetch[Turn])]]
    /\ fetch' = [fetch EXCEPT ![Turn] = NoFetch]
    /\ run' = [run EXCEPT !.phase = "ingest"]
    /\ UNCHANGED <<listing, slot, cycle, waiting, history, shorts, stops>>

EndRound ==
    /\ run.phase = "ingest" /\ Fetched = {}
    /\ run' = [run EXCEPT !.phase = "choose"]
    /\ UNCHANGED <<listing, slot, cycle, cursor, fetch, waiting, history, shorts, stops>>

-----------------------------------------------------------------------------
(* The end of a run. *)

\* Also the mistaken form of AllComplete: what is over counts as complete.
AllTerminal == \A g \in Geographies : GeographyStatus(g) \in CursorTerminal
AllComplete == \A g \in Geographies : GeographyStatus(g) = "COMPLETE"

SetStatus(s) == cycle' = [cycle EXCEPT !.status = s] /\ run' = NoRun

\* Mistaken: a failed geography keeps the cycle open.
StaysOpen == IF AllTerminal THEN "INCOMPLETE_CAP" ELSE "PARTIAL"
EndedAs == IF AllTerminal THEN "INCOMPLETE_CAP"
           ELSE IF run.stopped \/ run.failed = {} THEN "PARTIAL"
           ELSE "PARTIAL_FAILURE"

WrapUp ==
    /\ run.phase = "wrapup"
    /\ IF AllComplete
       THEN run' = [run EXCEPT !.phase = "jd"] /\ UNCHANGED cycle
       ELSE SetStatus(EndedAs)
    /\ UNCHANGED <<listing, slot, cursor, fetch, waiting, history, shorts, stops>>

\* seed_new_missing_since and enrich_pending_jds take the discoveries of this
\* cycle and the earlier ones already attempted; one that fails or is not reached
\* leaves the cycle PARTIAL_FAILURE.
EndJDs ==
    /\ run.phase = "jd"
    /\ waiting' \in SUBSET waiting
    /\ \/ "this" \notin waiting' /\ SetStatus("COMPLETE")
       \/ waiting # {} /\ SetStatus("PARTIAL_FAILURE")
    /\ UNCHANGED <<listing, slot, cursor, fetch, history, shorts, stops>>

\* A stop or the deadline: pages fetched and not yet stored are dropped.
Stop ==
    /\ run.phase \in {"choose", "fetch", "ingest"}
    /\ stops < MaxStops
    /\ stops' = stops + 1
    /\ run' = [run EXCEPT !.phase = "wrapup", !.stopped = TRUE]
    /\ fetch' = [g \in Geographies |-> NoFetch]
    /\ UNCHANGED <<listing, slot, cycle, cursor, waiting, history, shorts>>

Crash ==
    /\ run.phase # "idle"
    /\ stops < MaxStops
    /\ stops' = stops + 1
    /\ run' = NoRun
    /\ fetch' = [g \in Geographies |-> NoFetch]
    /\ UNCHANGED <<listing, slot, cycle, cursor, waiting, history, shorts>>

-----------------------------------------------------------------------------

Step ==
    \/ BeginRound
    \/ \E g \in Geographies : PageAnswer(g) \/ ProbeAnswer(g) \/ FetchFails(g)
    \/ EndFetch
    \/ IngestRows \/ IngestBreaks \/ SaveCursor \/ EndRound
    \/ WrapUp \/ EndJDs

Next ==
    \/ NextSlot
    \/ \E kind \in StartedWith : StartRun(kind)
    \/ Step
    \/ Stop \/ Crash

Spec == Init /\ [][Next]_vars

\* linkedin_due_context: an unfinished cycle, or a slot without one.
Due == cycle.status \notin Terminal \/ cycle.key # slot
ScheduledRun == Due /\ StartRun("slot")

\* The scheduler ticks for ever, and a run it started goes on by itself.
FairSpec == Spec /\ WF_vars(ScheduledRun) /\ WF_vars(Step)

-----------------------------------------------------------------------------
(* Properties. *)

\* The pages with rows that a cursor leaves behind, below the cap.
Unseen(g) == Cardinality({p \in cursor[g].offset..Cap - 1 : HasRows(g, p)})

\* A geography is declared exhausted while LinkedIn lists more pages below the
\* cap only after every attempt at the page and at each page probed behind it
\* was answered short: five answers when one page is left, two more for each
\* further page within reach of the probes.  At the cap nothing is probed, so
\* there three short answers hide that the listing goes on.
CompleteIsExhausted ==
    \A g \in Geographies :
        (OfCycle(g) /\ cursor[g].status = "COMPLETE") =>
            /\ \/ Unseen(g) = 0
               \/ shorts >= PageAttempts + ProbeAttempts * Min({ProbePages, Unseen(g)})
            /\ ~HasRows(g, Cap) \/ shorts >= PageAttempts

\* A page the cursor has passed is stored with rows missing only if all the
\* attempts at it were answered short.
MissingRowsCostAttempts == PageAttempts * Cardinality(partial) <= shorts

\* A cycle that is COMPLETE has paged every geography to its end, in this
\* cycle, and none of its discoveries still waits for a JD.
CompleteCycleIsDone ==
    cycle.status = "COMPLETE" =>
        /\ \A g \in Geographies : /\ OfCycle(g) /\ cursor[g].status = "COMPLETE"
                                  /\ 0..cursor[g].offset - 1 \subseteq stored[g]
        /\ "this" \notin waiting

\* Across stops, crashes and retries a cycle stores the pages of a geography
\* in order, and a cursor passes a page only once it is stored: the campaign
\* implements LinkedInPaging.
Paging == INSTANCE LinkedInPaging WITH
    stored <- stored,
    next <- [g \in Geographies |-> GeographyOffset(g)],
    done <- {g \in Geographies : GeographyStatus(g) \in CursorTerminal}
ImplementsPaging == Paging!Spec

\* Every cycle ends: an interrupted one is taken up by the scheduler, and a
\* geography that fails ends it rather than keep it open.
CycleEnds == []<>(cycle.status \in Terminal /\ run.phase = "idle")

\* A new cycle has paged a geography before it calls it complete.  It has not
\* when a cursor was left by an earlier cycle of the same key.
CompleteIsOfThisCycle ==
    cycle.status = "COMPLETE" => \A g \in Geographies : stored[g] # {}

\* Discoveries do not outlive the cycle that queued them without an attempt.
DiscoveriesAreDrained == cycle.status \in Terminal => "this" \notin waiting
=============================================================================
