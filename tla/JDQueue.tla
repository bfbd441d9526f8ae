------------------------------ MODULE JDQueue ------------------------------
(***************************************************************************)
(* The SEEK rows of jd_enrichment_queue across collection runs: what one   *)
(* run of run_collection_cycle queues, drains, charges, defers and leaves  *)
(* behind for the next.                                                    *)
(*                                                                         *)
(* A queue row is a source posting; the unit of work is its vacancy, whose *)
(* canonical JD serves every posting of it.  The grouping is fixed here:   *)
(* VacancyStore is about how it changes.  A drain takes vacancies by       *)
(* primary job id, which moves when a posting returns or an heir is        *)
(* promoted: here it takes them in any order.                              *)
(***************************************************************************)
EXTENDS Naturals, FiniteSets, FiniteSetsExt

CONSTANTS
    Rows,        \* source postings the collector may discover
    Vacancies,   \* canonical vacancies
    VacancyOf,   \* the vacancy of each posting
    BatchSize,   \* collection.seek_jd_batch_size
    MaxQueued    \* bound: how often postings of each vacancy are queued

ASSUME QueueConstants ==
    /\ VacancyOf \in [Rows -> Vacancies]
    /\ \A v \in Vacancies : IsFiniteSet({r \in Rows : VacancyOf[r] = v})
    /\ BatchSize \in Nat \ {0} /\ MaxQueued \in [Vacancies -> Nat]

VARIABLES
    live,       \* postings with a row that is neither archived nor terminal
    dormant,    \* postings with a row that is archived or terminal
    stored,     \* vacancies whose JD is stored
    queue,      \* rows of jd_enrichment_queue
    attempts,   \* attempts, per row of the queue
    error,      \* rows of the queue with last_error IS NOT NULL
    window,     \* rows with queued_at >= the start of the current run
    queued,     \* history: how often a posting of each vacancy was queued
    phase,      \* where the run is
    ids,        \* the candidates of the drain in progress
    again,      \* the candidate whose first attempt has failed, if any
    halt,       \* stop requested or runtime limit reached
    progress,   \* partitions_processed > 0
    outcome     \* final status of the last run

queueVars == <<queue, attempts, error, window>>
rowVars == <<live, dormant, stored, queueVars, queued>>
runVars == <<phase, ids, again, halt, progress, outcome>>
vars    == <<rowVars, runVars>>

RowsOf(v) == {r \in Rows : VacancyOf[r] = v}
Listed == live \cup dormant
LiveRows(v) == RowsOf(v) \cap live

-----------------------------------------------------------------------------

TypeOK ==
    /\ live \subseteq Rows /\ dormant \subseteq Rows /\ live \cap dormant = {}
    /\ stored \subseteq Vacancies
    /\ queue \subseteq Listed
    /\ attempts \in [Rows -> Nat]
    /\ error \subseteq queue /\ window \subseteq queue
    /\ queued \in [Vacancies -> Nat]
    /\ phase \in {"idle", "coverage", "partition", "closing", "final", "finish"}
    /\ ids \subseteq Vacancies /\ again \subseteq ids
    /\ ids # {} => phase \in {"partition", "final"}
    /\ halt \in BOOLEAN /\ progress \in BOOLEAN
    /\ outcome \in {"none", "STOPPED", "BLOCKED", "PARTIAL_JD", "COMPLETE", "FAILED"}

Init ==
    /\ live = {} /\ dormant = {} /\ stored = {} /\ queue = {}
    /\ attempts = [r \in Rows |-> 0]
    /\ error = {} /\ window = {}
    /\ queued = [v \in Vacancies |-> 0]
    /\ phase = "idle" /\ ids = {} /\ again = {}
    /\ halt = FALSE /\ progress = FALSE /\ outcome = "none"

-----------------------------------------------------------------------------
(* The queue's operations. *)

\* The rows of `gone` leave the queue, deleted with their posting or served;
\* record_pending_attempt charges those of `charged`.
Settle(gone, charged, failed) ==
    /\ queue' = queue \ gone
    /\ window' = window \ gone
    /\ attempts' = [r \in Rows |-> IF r \in gone THEN 0
                                   ELSE IF r \in charged \cap queue THEN attempts[r] + 1
                                   ELSE attempts[r]]
    /\ error' = (IF failed THEN error \cup (charged \cap queue) ELSE error \ charged) \ gone

Dequeue(R) == Settle(R, {}, FALSE)

\* Work that is still worth a fetch, whatever its age.  Mistaken: however often
\* it was tried.
Unstored(r) == r \in queue \cap live /\ VacancyOf[r] \notin stored
Unserved(r) == r \in queue \cap live /\ VacancyOf[r] \notin stored /\ attempts[r] < 2

\* The recency clause of pending_primary_ids: this run's rows, and rows that
\* were attempted or deferred before.  Mistaken: forgetting the deferred ones.
AttemptedOrNew(r) == Unserved(r) /\ (r \in window \/ attempts[r] > 0)
Eligible(r) == Unserved(r) /\ (r \in window \/ attempts[r] > 0 \/ r \in error)

\* pending_primary_ids: the distinct vacancies, with a limit so many of them.
Pending == {VacancyOf[r] : r \in {s \in Rows : Eligible(s)}}
FirstOf(V) ==
    {W \in SUBSET V : Cardinality(W) = BatchSize \/ (W = V /\ Cardinality(V) < BatchSize)}

\* mark_pending_deferred: the untouched rows of this run are carried forward.
Deferred == {r \in window \ error : Unserved(r)}

-----------------------------------------------------------------------------
(* One run. *)

StartRun ==
    /\ phase = "idle"
    /\ phase' = "coverage"
    /\ window' = {}
    /\ outcome' = "none"
    /\ UNCHANGED <<live, dormant, stored, queue, attempts, error, queued, ids, again,
                   halt, progress>>

\* ingest_card of a posting without a row, new or seen again after its removal:
\* the row is queued, with no attempt, unless its vacancy has the JD.  The JD may
\* be stored between enqueue_job_for_jd's look and its insert.
Discover(r) ==
    LET v == VacancyOf[r]
    IN  /\ phase = "coverage"
        /\ r \notin Listed
        /\ live' = live \cup {r}
        /\ \/ v \in stored /\ UNCHANGED <<queue, window, queued>>
           \/ /\ queued[v] < MaxQueued[v]
              /\ queue' = queue \cup {r} /\ window' = window \cup {r}
              /\ queued' = [queued EXCEPT ![v] = @ + 1]
        /\ UNCHANGED <<dormant, stored, attempts, error, runVars>>

\* ingest_card of a posting whose row was archived: the row counts again, and
\* what is left of its place in the queue with it.
SeenAgain(r) ==
    /\ phase = "coverage"
    /\ r \in dormant
    /\ live' = live \cup {r} /\ dormant' = dormant \ {r}
    /\ UNCHANGED <<stored, queueVars, queued, runVars>>

\* after_coverage_progress: a bounded drain, unless the run is halting.
PartitionDone ==
    /\ phase = "coverage"
    /\ progress' = TRUE
    /\ IF halt
       THEN UNCHANGED <<phase, ids>>
       ELSE phase' = "partition" /\ ids' \in FirstOf(Pending)
    /\ UNCHANGED <<rowVars, again, halt, outcome>>

\* run_seek_cycle returns.  The halt flag is read once to decide whether to
\* defer and read again to decide whether to drain.
CoverageReturns ==
    /\ phase = "coverage"
    /\ IF halt THEN error' = error \cup Deferred ELSE UNCHANGED error
    /\ phase' = "closing"
    /\ UNCHANGED <<live, dormant, stored, queue, attempts, window, queued, ids, again,
                   halt, progress, outcome>>

StartFinalDrain ==
    /\ phase = "closing"
    /\ IF progress /\ ~halt
       THEN phase' = "final" /\ ids' = Pending
       ELSE phase' = "finish" /\ UNCHANGED ids
    /\ UNCHANGED <<rowVars, again, halt, progress, outcome>>

\* The status computed after the drains.  Mistaken: leaving out the queue.
CoverageStatus(covered) ==
    IF halt THEN "STOPPED" ELSE IF ~covered THEN "BLOCKED" ELSE "COMPLETE"
FinalStatus(covered) ==
    IF halt THEN "STOPPED"
    ELSE IF ~covered THEN "BLOCKED"
    ELSE IF Pending # {} THEN "PARTIAL_JD" ELSE "COMPLETE"

FinishRun ==
    /\ phase = "finish"
    /\ \E covered \in BOOLEAN : outcome' = FinalStatus(covered)
    /\ phase' = "idle" /\ halt' = FALSE /\ progress' = FALSE
    /\ UNCHANGED <<rowVars, ids, again>>

\* An uncaught exception, or the end of the process.
RunDies ==
    /\ phase' = "idle" /\ outcome' = "FAILED" /\ ids' = {} /\ again' = {}
    /\ halt' = FALSE /\ progress' = FALSE
Crash == phase # "idle" /\ RunDies /\ UNCHANGED rowVars

\* SIGTERM, or the configured runtime is over.
RequestHalt ==
    /\ phase # "idle" /\ ~halt
    /\ halt' = TRUE
    /\ UNCHANGED <<rowVars, phase, ids, again, progress, outcome>>

-----------------------------------------------------------------------------
(* _enrich_ids: the drain in progress. *)

Draining == phase \in {"partition", "final"}

\* The halt flag is looked at before each candidate, not between its attempts.
AtHead(v) == Draining /\ v \in ids /\ (again = {v} \/ (again = {} /\ ~halt))

NextCandidate(v) ==
    ids' = ids \ {v} /\ again' = {} /\ UNCHANGED <<phase, halt, progress, outcome>>

\* A call removes the postings that turn out to be closed, and may remove rows
\* that were terminal before.
Remove(gone) == live' = live \ gone /\ dormant' = dormant \ gone

\* A text goes with the last row that could inherit it, unless a posting of
\* another source keeps it.
MayForget(v, gone) ==
    \/ UNCHANGED stored
    \/ gone # {} /\ LiveRows(v) \subseteq gone /\ stored' = stored \ {v}

\* The JD is stored; store_job_jd_once empties the queue of the vacancy.
FetchStores(v) ==
    /\ AtHead(v) /\ v \notin stored
    /\ \E gone \in SUBSET (RowsOf(v) \cap Listed) : ~(LiveRows(v) \subseteq gone) /\ Remove(gone)
    /\ stored' = stored \cup {v}
    /\ Dequeue(RowsOf(v))
    /\ NextCandidate(v)
    /\ UNCHANGED queued

\* Somebody stored it since the list was read: a charge without an error.
FetchCached(v) ==
    /\ AtHead(v) /\ v \in stored /\ LiveRows(v) # {}
    /\ \E gone \in SUBSET (RowsOf(v) \cap dormant) :
          Remove(gone) /\ Settle(gone, RowsOf(v), FALSE)
    /\ NextCandidate(v)
    /\ UNCHANGED <<stored, queued>>

\* No open posting is left: the closed ones are removed, and rows that stay are
\* charged, unless the primary the list named went with the others.
FetchUnavailable(v) ==
    /\ AtHead(v) /\ (v \in stored => LiveRows(v) = {})
    /\ \E gone \in SUBSET (RowsOf(v) \cap Listed) :
          /\ LiveRows(v) \subseteq gone
          /\ Remove(gone) /\ MayForget(v, gone)
          /\ \/ Settle(gone, RowsOf(v), TRUE)
             \/ gone # {} /\ Settle(gone, {}, TRUE)
    /\ NextCandidate(v)
    /\ UNCHANGED queued

\* The fetch fails, after some of the postings turned out closed: once more,
\* then the next candidate.  When the primary the list named was closed, nothing
\* is charged and the second attempt does not find it.
FetchFails(v) ==
    /\ AtHead(v) /\ v \notin stored
    /\ \E gone \in SUBSET (RowsOf(v) \cap Listed) :
          /\ ~(LiveRows(v) \subseteq gone) /\ Remove(gone)
          /\ \/ /\ Settle(gone, RowsOf(v), TRUE)
                /\ IF again = {}
                   THEN again' = {v} /\ UNCHANGED <<ids, phase, halt, progress, outcome>>
                   ELSE NextCandidate(v)
             \/ /\ gone # {} /\ Settle(gone, {}, TRUE)
                /\ IF again = {} THEN RunDies ELSE NextCandidate(v)
    /\ UNCHANGED <<stored, queued>>

\* HTTP 429: the charge, and the whole batch is given up.
FetchRateLimited(v) ==
    /\ AtHead(v) /\ v \notin stored
    /\ \E gone \in SUBSET (RowsOf(v) \cap Listed) :
          /\ ~(LiveRows(v) \subseteq gone) /\ Remove(gone)
          /\ \/ Settle(gone, RowsOf(v), TRUE)
             \/ gone # {} /\ Settle(gone, {}, TRUE)
    /\ ids' = {} /\ again' = {}
    /\ UNCHANGED <<stored, queued, phase, halt, progress, outcome>>

EndDrain ==
    /\ Draining
    /\ ids = {} \/ (halt /\ again = {})
    /\ phase' = (IF phase = "partition" THEN "coverage" ELSE "finish")
    /\ ids' = {}
    /\ UNCHANGED <<rowVars, again, halt, progress, outcome>>

-----------------------------------------------------------------------------
(* The other processes. *)

\* A consumer asked the API for this JD, or another source's posting of the
\* vacancy brought it.
ApiStores(v) ==
    /\ v \notin stored
    /\ stored' = stored \cup {v}
    /\ Dequeue(RowsOf(v))
    /\ UNCHANGED <<live, dormant, queued, runVars>>

\* Retention archives the row, or a card gives it a terminal status; its place
\* in the queue stays.
Archive(r) ==
    /\ r \in live
    /\ live' = live \ {r} /\ dormant' = dormant \cup {r}
    /\ UNCHANGED <<stored, queueVars, queued, runVars>>

\* Retention or a retirement takes the posting away; its queue row cascades.
Close(r) ==
    /\ r \in Listed
    /\ Remove({r}) /\ MayForget(VacancyOf[r], {r})
    /\ Dequeue({r})
    /\ UNCHANGED <<queued, runVars>>

-----------------------------------------------------------------------------

Next ==
    \/ StartRun \/ PartitionDone \/ CoverageReturns \/ StartFinalDrain
    \/ FinishRun \/ Crash \/ RequestHalt \/ EndDrain
    \/ \E r \in Rows : Discover(r) \/ SeenAgain(r) \/ Archive(r) \/ Close(r)
    \/ \E v \in Vacancies :
          \/ FetchStores(v) \/ FetchCached(v) \/ FetchUnavailable(v)
          \/ FetchFails(v) \/ FetchRateLimited(v) \/ ApiStores(v)

Spec == Init /\ [][Next]_vars

-----------------------------------------------------------------------------
(* Properties. *)

\* A posting is never tried without end.  A drain that finds one attempt left
\* spends two, each late posting of the vacancy makes its siblings share its own
\* charges, and a posting that comes back starts again: a row is charged at most
\* three times for each time a posting of its vacancy was queued.
AttemptsBounded ==
    \A r \in queue : attempts[r] <= 3 * queued[VacancyOf[r]]

\* A run that reports COMPLETE leaves no unserved row of its own window.
CompleteLeavesNothing ==
    phase = "idle" /\ outcome = "COMPLETE" =>
        \A r \in window : ~Unserved(r)

\* Attempted and deferred work is not forgotten: as long as final drains keep
\* running to their end, it is served, used up, archived or gone eventually,
\* whatever stops, rate limits and failures the runs in between met.
Carried(r) == Unserved(r) /\ (attempts[r] > 0 \/ r \in error)
FinalDrainEnds == EndDrain /\ phase = "final" /\ ~halt
CarriedIsResolved ==
    []<><<FinalDrainEnds>>_vars => \A r \in Rows : Carried(r) ~> ~Unserved(r)

\* What pending_primary_ids says of a stop or deadline ("preserving legitimate
\* current-run work across a deadline/stop"): a run that ended that way leaves
\* every unserved row of its window attempted or deferred, so that the next run
\* still takes it.
StoppedWorkIsCarried ==
    phase = "idle" /\ outcome = "STOPPED" =>
        \A r \in window : Unserved(r) => Carried(r)
=============================================================================
