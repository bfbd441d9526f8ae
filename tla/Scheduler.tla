----------------------------- MODULE Scheduler -----------------------------
(***************************************************************************)
(* The in-app scheduler, the process manager of the API, the collection    *)
(* lock, the two kinds of collection runner and the records they leave:    *)
(* scheduler_state, market_collection_runs and the LinkedIn cycle.         *)
(*                                                                         *)
(* The scheduler thread, the API's threads and the runner processes        *)
(* interleave between any two uses of the database, of the lock file or of *)
(* the manager's guard.  Time is the current SEEK slot, whether its run    *)
(* window is open, and whether the LinkedIn cycle is that of the current   *)
(* LinkedIn slot.  Statuses are kept as far as they are read again: the     *)
(* scheduler looks for FAILED only, run records also for RUNNING.          *)
(***************************************************************************)
EXTENDS Naturals, Sequences, FiniteSets

CONSTANTS
    Runners,     \* collection processes that may exist at a time
    ByHand,      \* kinds of runner that are also started from a shell
    None,        \* no process
    MaxSlot,     \* bound on SEEK slots
    MaxRuns      \* bound on rows of market_collection_runs

ASSUME SchedulerConstants ==
    /\ ByHand \subseteq {"seek", "linkedin"}
    /\ None \notin Runners /\ MaxSlot \in Nat \ {0} /\ MaxRuns \in Nat

VARIABLES
    slot, open,    \* the SEEK slot of now; is now within its window
    seen,          \* scheduler_state: last_attempt_seek_slot, last_status = FAILED
    runs,          \* market_collection_runs, oldest first (SEEK only)
    cycle,         \* source_campaign_state: ended (terminal), current (this slot's key)
    tick,          \* the scheduler thread: where _tick is, the slot it computed
    managed,       \* PROCESS_MANAGER._process
    lock,          \* holder of data/collection.lock
    proc           \* the runner processes

vars == <<slot, open, seen, runs, cycle, tick, managed, lock, proc>>

NoProc == [kind |-> "none", trigger |-> "none", step |-> "none", row |-> 0,
           from |-> 0, within |-> FALSE]
IdleTick == [step |-> "idle", slot |-> 0]

Records == [trigger : {"manual", "scheduled"}, slot : 0..MaxSlot,
            status : {"RUNNING", "FAILED", "ENDED"}]
Procs == [kind : {"none", "seek", "linkedin"}, trigger : {"none", "manual", "scheduled"},
          step : {"none", "started", "locked", "opened", "running", "failing",
                  "amending", "closing"},
          row : 0..MaxRuns, from : 0..MaxSlot, within : BOOLEAN]

Marks == [slot : 0..MaxSlot, failed : BOOLEAN]
Cycles == [ended : BOOLEAN, current : BOOLEAN]

TypeOK ==
    /\ slot \in 1..MaxSlot /\ open \in BOOLEAN
    /\ seen \in Marks
    /\ runs \in Seq(Records) /\ Len(runs) <= MaxRuns
    /\ cycle \in Cycles
    /\ tick \in [step : {"idle", "linkedin", "mark", "seek"}, slot : 0..MaxSlot]
    /\ managed \in Runners \cup {None}
    /\ lock \in Runners \cup {None}
    /\ proc \in [Runners -> Procs]
    \* A runner at work holds the lock.
    /\ \A p \in Runners : proc[p].step \in {"locked", "opened", "running"} => lock = p

Init ==
    /\ slot = 1 /\ open = TRUE
    /\ seen = [slot |-> 0, failed |-> FALSE]
    /\ runs = <<>>
    /\ cycle = [ended |-> TRUE, current |-> FALSE]
    /\ tick = IdleTick /\ managed = None /\ lock = None
    /\ proc = [p \in Runners |-> NoProc]

-----------------------------------------------------------------------------
(* Run records. *)

\* recover_stale_market_runs: RUNNING rows whose process is gone.  A reused
\* process number is left out.  Mistaken: all but the latest.
AllButLatest ==
    [k \in DOMAIN runs |->
        IF runs[k].status = "RUNNING" /\ k < Len(runs)
        THEN [runs[k] EXCEPT !.status = "ENDED"] ELSE runs[k]]
Recovered ==
    [k \in DOMAIN runs |->
        IF runs[k].status = "RUNNING" /\ \A p \in Runners : proc[p].row # k
        THEN [runs[k] EXCEPT !.status = "ENDED"] ELSE runs[k]]

Scheduled == {k \in DOMAIN runs : runs[k].trigger = "scheduled"}

\* Of the two latest scheduled runs, those of this slot.
AttemptsInSlot == {k \in Scheduled : /\ Cardinality({m \in Scheduled : m > k}) < 2
                                     /\ runs[k].slot = slot}

\* _seek_retry_at, but for the cooling-off time: the slot was attempted, and the
\* latest run is its scheduled failure.  Mistaken: retried without a limit.
LastFailed == /\ seen.failed /\ seen.slot = slot
              /\ runs # <<>>
              /\ LET last == runs[Len(runs)]
                 IN  last.trigger = "scheduled" /\ last.status = "FAILED"
MayRetry == LastFailed /\ Cardinality(AttemptsInSlot) < 2

-----------------------------------------------------------------------------
(* The scheduler thread. *)

\* linkedin_due_context
LinkedInDue == ~cycle.ended \/ ~cycle.current

\* due_now for a slot not yet attempted.  Mistaken: waiting for a failure to be
\* cleared.
UnlessFailed == open /\ seen.slot # slot /\ ~seen.failed
NewSlot == open /\ seen.slot # slot

\* LinkedIn has priority.  Whether the cooling-off time is over is data, so the
\* retry may also be left for a later tick.
TickDecide ==
    /\ tick.step = "idle"
    /\ \/ LinkedInDue /\ tick' = [step |-> "linkedin", slot |-> 0]
       \/ ~LinkedInDue /\ NewSlot /\ tick' = [step |-> "mark", slot |-> slot]
       \/ ~LinkedInDue /\ open /\ MayRetry /\ tick' = [step |-> "mark", slot |-> slot]
    /\ UNCHANGED <<slot, open, seen, runs, cycle, managed, lock, proc>>

\* The slot is recorded as attempted before anything is started.
TickMark ==
    /\ tick.step = "mark"
    /\ seen' = [slot |-> tick.slot, failed |-> FALSE]
    /\ tick' = [step |-> "seek", slot |-> 0]
    /\ UNCHANGED <<slot, open, runs, cycle, managed, lock, proc>>

\* start and start_linkedin, under the manager's guard.
Manages == managed # None /\ proc[managed].step # "none"
Busy == Manages \/ lock # None

Spawn(p, kind, trigger) ==
    /\ proc[p].step = "none"
    /\ proc' = [proc EXCEPT ![p] = [NoProc EXCEPT !.kind = kind, !.step = "started",
                           !.trigger = IF kind = "seek" THEN trigger ELSE "none"]]

TickStartLinkedIn ==
    /\ tick.step = "linkedin"
    /\ \/ Busy /\ UNCHANGED <<managed, proc>>
       \/ ~Busy /\ \E p \in Runners : Spawn(p, "linkedin", "scheduled") /\ managed' = p
    /\ tick' = IdleTick
    /\ UNCHANGED <<slot, open, seen, runs, cycle, lock>>

TickStartSeek ==
    /\ tick.step = "seek"
    /\ \/ /\ Busy   \* SKIPPED_ACTIVE
          /\ seen' = [seen EXCEPT !.failed = FALSE]
          /\ UNCHANGED <<managed, proc>>
       \/ /\ ~Busy /\ \E p \in Runners : Spawn(p, "seek", "scheduled") /\ managed' = p
          /\ UNCHANGED seen
    /\ tick' = IdleTick
    /\ UNCHANGED <<slot, open, runs, cycle, lock>>

\* Run SEEK now, Run LinkedIn now.
ManualStart(kind) ==
    /\ ~Busy
    /\ \E p \in Runners : Spawn(p, kind, "manual") /\ managed' = p
    /\ UNCHANGED <<slot, open, seen, runs, cycle, tick, lock>>

\* A runner started from a shell is not the manager's.
ShellStart(kind) ==
    /\ kind \in ByHand
    /\ \E p \in Runners : Spawn(p, kind, "manual")
    /\ UNCHANGED <<slot, open, seen, runs, cycle, tick, managed, lock>>

\* Any reader of the run records closes stale ones.
StatusPoll ==
    /\ runs' = Recovered
    /\ UNCHANGED <<slot, open, seen, cycle, tick, managed, lock, proc>>

-----------------------------------------------------------------------------
(* A runner. *)

Step(p, s) == proc' = [proc EXCEPT ![p].step = s]
Exit(p) == /\ proc' = [proc EXCEPT ![p] = NoProc]
           /\ lock' = IF lock = p THEN None ELSE lock

\* collection_run_lock: flock without waiting.
LockFree == lock = None

\* A refused runner ends.  It is refused when a run holds the lock, and also when
\* lock_status, which takes the lock to see whether it is free, has it just then.
TakeLock(p) ==
    /\ proc[p].step = "started"
    /\ \/ /\ LockFree
          /\ lock' = p
          /\ proc' = [proc EXCEPT ![p].step = "locked",
                 ![p].from = IF proc[p].trigger = "manual" THEN slot ELSE 0,
                 ![p].within = proc[p].trigger = "manual" /\ open]
       \/ Exit(p)
    /\ UNCHANGED <<slot, open, seen, runs, cycle, tick, managed>>

\* An exception leaves the lock's block before it is recorded anywhere, also one
\* raised after the final status was written.
Raise(p) ==
    /\ proc[p].kind = "seek" /\ lock = p
    /\ Step(p, IF proc[p].row = 0 THEN "closing"
               ELSE IF proc[p].step = "closing" THEN "amending" ELSE "failing")
    /\ lock' = None
    /\ UNCHANGED <<slot, open, seen, runs, cycle, tick, managed>>

\* start_market_run: stale rows are closed first.
OpenRun(p) ==
    /\ proc[p].kind = "seek" /\ proc[p].step = "locked"
    /\ Len(runs) < MaxRuns
    /\ runs' = Append(Recovered,
          [trigger |-> proc[p].trigger, status |-> "RUNNING",
           slot |-> IF proc[p].trigger = "scheduled" THEN slot ELSE 0])
    /\ proc' = [proc EXCEPT ![p].step = "opened", ![p].row = Len(runs) + 1]
    /\ UNCHANGED <<slot, open, seen, cycle, tick, managed, lock>>

\* After the backup and the reset of the coverage.
MarkRunning(p) ==
    /\ proc[p].kind = "seek" /\ proc[p].step = "opened"
    /\ Step(p, "running")
    /\ seen' = IF proc[p].trigger = "scheduled" THEN [seen EXCEPT !.failed = FALSE]
               ELSE seen
    /\ UNCHANGED <<slot, open, runs, cycle, tick, managed, lock>>

\* finish_market_run, with the final status or after an exception.
FinishRun(p) ==
    /\ proc[p].kind = "seek" /\ proc[p].step \in {"running", "failing", "amending"}
    /\ runs' = [runs EXCEPT ![proc[p].row].status =
                   IF proc[p].step = "running" THEN "ENDED" ELSE "FAILED"]
    /\ Step(p, "closing")
    /\ UNCHANGED <<slot, open, seen, cycle, tick, managed, lock>>

\* manual_run_schedule_slot: the slot whose window the run overlapped, 0 if none.
Overlapped(p) == IF proc[p].within THEN proc[p].from
                 ELSE IF slot > proc[p].from THEN slot ELSE 0

Failed(p) == lock # p

\* The scheduler state gets the status of a scheduled run, with or without a
\* row; a complete manual run over the normal horizon satisfies the slot it
\* overlapped.
CloseRun(p) ==
    /\ proc[p].kind = "seek" /\ proc[p].step = "closing"
    /\ \/ /\ proc[p].trigger = "scheduled"
          /\ seen' = [seen EXCEPT !.failed = Failed(p)]
       \/ /\ proc[p].trigger = "manual"
          /\ \/ UNCHANGED seen
             \/ /\ ~Failed(p) /\ Overlapped(p) # 0
                /\ seen' = [slot |-> Overlapped(p), failed |-> FALSE]
    /\ Exit(p)
    /\ UNCHANGED <<slot, open, runs, cycle, tick, managed>>

\* get_or_start_cycle: an unfinished cycle goes on, a terminal one with another
\* key than the runner was started with is replaced.  That key is of this slot,
\* of the slot the start was decided in, or a shell's.
StartCycle(p) ==
    /\ proc[p].kind = "linkedin" /\ proc[p].step = "locked"
    /\ \/ UNCHANGED cycle
       \/ cycle.ended /\ cycle' = [ended |-> FALSE, current |-> FALSE]
       \/ cycle.ended /\ ~cycle.current /\ cycle' = [ended |-> FALSE, current |-> TRUE]
    /\ Step(p, "running")
    /\ UNCHANGED <<slot, open, seen, runs, tick, managed, lock>>

\* set_cycle_status; the process still holds the lock.
FinishCycle(p) ==
    /\ proc[p].kind = "linkedin" /\ proc[p].step = "running"
    /\ \E ended \in BOOLEAN : cycle' = [cycle EXCEPT !.ended = ended]
    /\ Step(p, "closing")
    /\ UNCHANGED <<slot, open, seen, runs, tick, managed, lock>>

EndLinkedIn(p) ==
    /\ proc[p].kind = "linkedin" /\ proc[p].step = "closing"
    /\ Exit(p)
    /\ UNCHANGED <<slot, open, seen, runs, cycle, tick, managed>>

\* The process dies: the kernel releases the lock, the records stay.
Die(p) ==
    /\ proc[p].step # "none"
    /\ Exit(p)
    /\ UNCHANGED <<slot, open, seen, runs, cycle, tick, managed>>

-----------------------------------------------------------------------------
(* Time. *)

CloseWindow ==
    /\ open
    /\ open' = FALSE
    /\ UNCHANGED <<slot, seen, runs, cycle, tick, managed, lock, proc>>

NextSlot ==
    /\ slot < MaxSlot /\ slot' = slot + 1 /\ open' = TRUE
    /\ UNCHANGED <<seen, runs, cycle, tick, managed, lock, proc>>

NextLinkedInSlot ==
    /\ cycle.current
    /\ cycle' = [cycle EXCEPT !.current = FALSE]
    /\ UNCHANGED <<slot, open, seen, runs, tick, managed, lock, proc>>

-----------------------------------------------------------------------------

Thread == TickDecide \/ TickMark \/ TickStartLinkedIn \/ TickStartSeek

Next ==
    \/ Thread \/ StatusPoll
    \/ \E kind \in {"seek", "linkedin"} : ManualStart(kind) \/ ShellStart(kind)
    \/ \E p \in Runners :
          \/ TakeLock(p) \/ Raise(p) \/ OpenRun(p) \/ MarkRunning(p)
          \/ FinishRun(p) \/ CloseRun(p) \/ StartCycle(p) \/ FinishCycle(p)
          \/ EndLinkedIn(p) \/ Die(p)
    \/ CloseWindow \/ NextSlot \/ NextLinkedInSlot

Spec == Init /\ [][Next]_vars

\* The scheduler thread polls for ever.
FairSpec == Spec /\ WF_vars(Thread)

-----------------------------------------------------------------------------
(* Properties. *)

\* As long as a runner is at work its row says RUNNING: recovery by another
\* process, or a second run, never closes it.
LiveRunIsRunning ==
    \A p \in Runners :
        proc[p].row # 0 /\ proc[p].step \in {"opened", "running", "failing"} =>
        runs[proc[p].row].status = "RUNNING"

\* A slot gets one run and one retry, and at most one more when a run decided in
\* the slot before opens its record in this one: no order of failures, deaths and
\* late records makes the retry rule loop over records.
SlotRunsBounded ==
    \A s \in 1..MaxSlot : Cardinality({k \in Scheduled : runs[k].slot = s}) <= 3

\* A SEEK slot that no LinkedIn work precedes is taken up while its window is
\* open: the scheduler thread never misses it.
SlotDue == open /\ seen.slot # slot /\ ~LinkedInDue
SlotIsTaken == SlotDue ~> ~SlotDue

\* What SERVICE.md says of a slot that is due together with LinkedIn ("remains
\* due and starts after LinkedIn releases the singleton lock"): it is never
\* given up because a LinkedIn run holds the lock.
NotSkippedForLinkedIn ==
    [][TickStartSeek /\ Busy => ~(lock # None /\ proc[lock].kind = "linkedin")]_vars
=============================================================================
