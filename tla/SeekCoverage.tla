---------------------------- MODULE SeekCoverage ----------------------------
(***************************************************************************)
(* Coverage of SEEK: the persisted partition tree of every state and the   *)
(* runs that work on it.  A state whose search reports too many results is *)
(* split into the refinements SEEK offers, each child is visited the same  *)
(* way, and a parent is complete when its children are.  A run visits one  *)
(* unfinished partition of each state per pass, may be stopped or killed   *)
(* between any two statements, and the next run resumes from the rows.     *)
(*                                                                         *)
(* todo is the call stack of _process_partition: its head is the next      *)
(* statement, the rest is what the callers still have to do.  How many     *)
(* results a page reports and whether enough cards were read is data; the  *)
(* outcomes a healthy site does not produce, stops, crashes and overrides  *)
(* of the window spend the budget of trouble.                              *)
(***************************************************************************)
EXTENDS Naturals, Sequences, SequencesExt, FiniteSets

CONSTANTS
    States,       \* sequence of the root partitions, one per enabled state
    Kids,         \* partition -> sequence of the refinements SEEK offers for it
    Windows,      \* the date ranges runs are started with
    LookbackDays, \* lookback_days of the profile, the window of a run without --days
    DefaultDays,  \* collection.default_freshness_days, the window that rolls over
    MaxTrouble    \* bound on everything that may go wrong

Nodes == DOMAIN Kids
Roots == ToSet(States)

\* A partition is known by its URL, which holds the window.
Rows == Windows \X Nodes

ASSUME CoverageConstants ==
    /\ States \in Seq(Nodes) /\ LookbackDays \in Windows /\ 0 \notin Windows
    /\ \A n \in Nodes : Kids[n] \in Seq(Nodes \ Roots) /\ IsInjective(Kids[n])
    /\ \A m, n \in Nodes : m # n => ToSet(Kids[m]) \cap ToSet(Kids[n]) = {}
    /\ MaxTrouble \in Nat

VARIABLES
    status,    \* seek_partitions.status per row, "none" where there is no row
    counted,   \* rows whose reported_results is not NULL
    newest,    \* the window of the state root with the largest id, 0 without one
    run,       \* the run_seek_cycle in progress
    todo,      \* the statements of collect_seek_state still to execute
    torn,      \* history: rows whose split was cut off between two children
    short,     \* rows whose children, all complete, hold too few jobs
    trouble    \* what has gone wrong so far

vars == <<status, counted, newest, run, todo, torn, short, trouble>>

NoRun == [phase |-> "idle", days |-> 0, at |-> 0, spent |-> FALSE, progress |-> FALSE]

Complete == {"COMPLETE", "COMPLETE_INCREMENTAL", "COMPLETE_RECOVERED",
             "COMPLETE_BY_PARTITION"}
Incomplete == {"PENDING", "INSPECTED", "INCOMPLETE_OVERSIZE", "INCOMPLETE_LEAF",
               "INCOMPLETE_OVERSIZE_UNSPLITTABLE", "INCOMPLETE_CHILD_COVERAGE",
               "BLOCKED_HUMAN", "FAILED"}

Task == [op : {"visit", "collect", "split", "ensure", "finish"}, row : Rows]

TypeOK ==
    /\ status \in [Rows -> Complete \cup Incomplete \cup {"none"}]
    /\ counted \subseteq {r \in Rows : status[r] # "none"}
    /\ newest \in [Roots -> Windows \cup {0}]
    /\ run \in [phase : {"idle", "pass", "state", "blocked"}, days : Windows \cup {0},
                at : 0..Len(States) + 1, spent : BOOLEAN, progress : BOOLEAN]
    /\ todo \in Seq(Task)
    /\ torn \subseteq Rows
    /\ short \subseteq Rows
    /\ trouble \in 0..MaxTrouble

Init ==
    /\ status = [r \in Rows |-> "none"]
    /\ counted = {}
    /\ newest = [s \in Roots |-> 0]
    /\ run = NoRun
    /\ todo = <<>>
    /\ torn = {}
    /\ short = {}
    /\ trouble = 0

-----------------------------------------------------------------------------
(* What the queries read. *)

Done(r) == status[r] \in Complete

KidRows(r) == {k \in Rows : k[1] = r[1] /\ k[2] \in ToSet(Kids[r[2]])}

\* SELECT ... WHERE parent_id=?: the children that were recorded.
Children(r) == {k \in KidRows(r) : status[k] # "none"}

\* all_states_complete looks at the newest root of each state, whatever window
\* it was collected for.
NewestRoot(s) == <<newest[s], s>>
AllStatesComplete == \A s \in Roots : newest[s] # 0 /\ Done(NewestRoot(s))

\* Trouble costs one unit of the bound.
Trouble == trouble < MaxTrouble /\ trouble' = trouble + 1
Fine == UNCHANGED trouble

-----------------------------------------------------------------------------
(* The run. *)

\* snapshot_and_reset_coverage: children are deleted, roots of every window
\* kept as PENDING.  Mistaken: children are kept, as PENDING too.
KeepsChildren == [r \in Rows |-> IF status[r] = "none" THEN "none" ELSE "PENDING"]
Emptied == [r \in Rows |-> IF r[2] \in Roots /\ status[r] # "none" THEN "PENDING" ELSE "none"]

Reset ==
    /\ status' = Emptied
    /\ counted' = {}
    /\ torn' = {}
    /\ short' = {}

\* Mistaken: a cycle of which one state is complete is over.
SomeStateComplete == \E s \in Roots : newest[s] # 0 /\ Done(NewestRoot(s))
CycleOver == (\A s \in Roots : newest[s] = 0) \/ AllStatesComplete

\* A fresh run empties the workspace, a resumed one takes it as it is.  Any
\* window but the profile's is an override for this run.
StartRun(w) ==
    /\ run.phase = "idle"
    /\ IF w = LookbackDays THEN Fine ELSE Trouble
    /\ IF CycleOver THEN Reset ELSE UNCHANGED <<status, counted, torn, short>>
    /\ run' = [NoRun EXCEPT !.phase = "pass", !.days = w, !.at = 1]
    /\ UNCHANGED <<newest, todo>>

\* One collect_seek_state of a pass: the root is recorded if it is new, and the
\* budget of one partition renewed.
BeginState ==
    /\ run.phase = "pass"
    /\ run.at <= Len(States)
    /\ ~(run.at = 1 /\ AllStatesComplete)
    /\ LET s == States[run.at]
           r == <<run.days, s>>
       IN  /\ IF status[r] = "none"
              THEN /\ status' = [status EXCEPT ![r] = "PENDING"]
                   /\ newest' = [newest EXCEPT ![s] = run.days]
              ELSE UNCHANGED <<status, newest>>
           /\ todo' = <<[op |-> "visit", row |-> r]>>
    /\ run' = [run EXCEPT !.phase = "state", !.spent = FALSE]
    /\ UNCHANGED <<counted, torn, short, trouble>>

EndState ==
    /\ run.phase = "state"
    /\ todo = <<>>
    /\ run' = [run EXCEPT !.phase = "pass", !.at = run.at + 1,
                          !.progress = run.progress \/ run.spent]
    /\ UNCHANGED <<status, counted, newest, todo, torn, short, trouble>>

\* COMPLETE, found at the start or at the end of a pass.
EndComplete ==
    /\ run.phase = "pass"
    /\ run.at \in {1, Len(States) + 1}
    /\ AllStatesComplete
    /\ run' = NoRun
    /\ UNCHANGED <<status, counted, newest, todo, torn, short, trouble>>

\* Mistaken: no progress in the last state is no progress.
LastSpent == run.spent
PassProgress == run.progress

\* After a pass without progress the run is BLOCKED_INCOMPLETE.
EndPass ==
    /\ run.phase = "pass"
    /\ run.at = Len(States) + 1
    /\ ~AllStatesComplete
    /\ run' = IF PassProgress THEN [run EXCEPT !.at = 1, !.progress = FALSE]
              ELSE [run EXCEPT !.phase = "blocked"]
    /\ UNCHANGED <<status, counted, newest, todo, torn, short, trouble>>

\* A blocked run of the normal window archives and empties the workspace, unless
\* it was asked to backfill JDs.  The run's window comes from the profile, the
\* normal one from a setting of its own.
\* Mistaken: it leaves the workspace to the next run.
NoRollover == UNCHANGED <<status, counted, torn, short, trouble>>
Rollover ==
    \/ run.days = DefaultDays /\ Fine /\ Reset
    \/ run.days # DefaultDays /\ Fine /\ UNCHANGED <<status, counted, torn, short>>
    \/ run.days = DefaultDays /\ Trouble /\ UNCHANGED <<status, counted, torn, short>>

EndBlocked ==
    /\ run.phase = "blocked"
    /\ Rollover
    /\ run' = NoRun
    /\ UNCHANGED <<newest, todo>>

-----------------------------------------------------------------------------
(* _process_partition. *)

At(op) == todo # <<>> /\ Head(todo).op = op
Row == Head(todo).row

Then(tasks) == todo' = tasks \o Tail(todo)

Set(r, s) == status' = [status EXCEPT ![r] = s]


\* A complete partition, or one SEEK cannot split further, costs nothing.
Settled(r) == Done(r) \/ status[r] = "INCOMPLETE_OVERSIZE_UNSPLITTABLE"

Skip ==
    /\ At("visit")
    /\ Settled(Row)
    /\ Then(<<>>)
    /\ UNCHANGED <<status, counted, newest, run, torn, short, trouble>>

\* The memberships an interrupted leaf left already cover its count.
Recover ==
    /\ At("visit")
    /\ ~Settled(Row)
    /\ Children(Row) = {}
    /\ Row \in counted
    /\ Set(Row, "COMPLETE_RECOVERED")
    /\ Then(<<>>)
    /\ UNCHANGED <<counted, newest, run, torn, short, trouble>>

\* The children on record are visited in turn, then the parent finished.  Their
\* list is ordered by id; the model leaves the order open.
ResumeTasks(r, list) ==
    Append([k \in 1..Len(list) |-> [op |-> "visit", row |-> list[k]]],
           [op |-> "finish", row |-> r])

\* A partition that was split delegates to its children.
Resume ==
    /\ At("visit")
    /\ ~Settled(Row)
    /\ Children(Row) # {}
    /\ Row \in counted
    /\ \E list \in SetToSeqs(Children(Row)) : Then(ResumeTasks(Row, list))
    /\ UNCHANGED <<status, counted, newest, run, torn, short, trouble>>

\* Anything else is inspected, if the budget allows.
Inspectable == At("visit") /\ ~Settled(Row) /\ ~(Row \in counted /\ Children(Row) # {})

OutOfBudget ==
    /\ Inspectable
    /\ run.spent
    /\ Then(<<>>)
    /\ UNCHANGED <<status, counted, newest, run, torn, short, trouble>>

\* No result at all, a count a leaf can page through, or an oversize count.
Inspect ==
    /\ Inspectable
    /\ ~run.spent
    /\ run' = [run EXCEPT !.spent = TRUE]
    /\ counted' = counted \cup {Row}
    /\ \/ Set(Row, "COMPLETE") /\ Then(<<>>)
       \/ \E op \in {"collect", "split"} :
             /\ op = "split" /\ Kids[Row[2]] = <<>> => trouble < MaxTrouble
             /\ Set(Row, "INSPECTED")
             /\ Then(<<[op |-> op, row |-> Row]>>)
    /\ UNCHANGED <<newest, torn, short, trouble>>

\* _collect_leaf read enough cards, crossed the cutoff, or neither.
Collect ==
    /\ At("collect")
    /\ \/ Fine /\ \E s \in {"COMPLETE", "COMPLETE_INCREMENTAL"} : Set(Row, s)
       \/ Trouble /\ Set(Row, "INCOMPLETE_LEAF")
    /\ Then(<<>>)
    /\ UNCHANGED <<counted, newest, run, torn, short>>

\* Every refinement is recorded and visited in turn, then the parent finished.
SplitTasks(r) ==
    Append([k \in 1..Len(Kids[r[2]]) |-> [op |-> "ensure", row |-> <<r[1], Kids[r[2]][k]>>]],
           [op |-> "finish", row |-> r])

Split ==
    /\ At("split")
    /\ IF Kids[Row[2]] = <<>>
       THEN Trouble /\ Set(Row, "INCOMPLETE_OVERSIZE_UNSPLITTABLE") /\ Then(<<>>)
       ELSE Fine /\ Set(Row, "INCOMPLETE_OVERSIZE") /\ Then(SplitTasks(Row))
    /\ UNCHANGED <<counted, newest, run, torn, short>>

Ensure ==
    /\ At("ensure")
    /\ IF status[Row] = "none" THEN Set(Row, "PENDING") ELSE UNCHANGED status
    /\ Then(<<[op |-> "visit", row |-> Row]>>)
    /\ UNCHANGED <<counted, newest, run, torn, short, trouble>>

\* _aggregate_parent and the recheck of a state's total: the union of the
\* children's jobs is counted unless one of them stopped at the cutoff.  Complete
\* children gain no job, so a shortfall stays one; only a state's total is read
\* again from the site.
\* Mistaken: one complete child is enough.
SomeChildDone(r) == \E k \in Children(r) : Done(k)
ChildrenDone(r) == Children(r) # {} /\ \A k \in Children(r) : Done(k)

Enough(r) ==
    /\ r \in short => r[2] \in Roots
    /\ Fine
    /\ Set(r, "COMPLETE_BY_PARTITION")
    /\ UNCHANGED short

TooFew(r) ==
    /\ IF r \in short THEN Fine ELSE Trouble
    /\ Set(r, "INCOMPLETE_CHILD_COVERAGE")
    /\ short' = short \cup {r}

Aggregate(r) ==
    IF ~ChildrenDone(r)
    THEN Fine /\ Set(r, "INCOMPLETE_CHILD_COVERAGE") /\ UNCHANGED short
    ELSE IF \E k \in Children(r) : status[k] = "COMPLETE_INCREMENTAL"
    THEN Fine /\ Set(r, "COMPLETE_INCREMENTAL") /\ UNCHANGED short
    ELSE Enough(r) \/ TooFew(r)

Finish ==
    /\ At("finish")
    /\ Aggregate(Row)
    /\ Then(<<>>)
    /\ UNCHANGED <<counted, newest, run, torn>>

-----------------------------------------------------------------------------
(* What goes wrong. *)

\* The partitions whose loop over the children is on the call stack.
Callers == {todo[k].row : k \in {j \in DOMAIN todo : todo[j].op = "finish"}}

\* SEEK wants a human, or a page does not settle: the exception marks the
\* partition and, as it passes through the callers, all that are split above
\* it, and the run ends.
Raise ==
    /\ (Inspectable /\ ~run.spent) \/ At("collect") \/ At("split") \/ At("finish")
    /\ Trouble
    /\ \E s \in {"BLOCKED_HUMAN", "FAILED"} :
          status' = [r \in Rows |-> IF r = Row \/ r \in Callers THEN s ELSE status[r]]
    /\ run' = NoRun
    /\ todo' = <<>>
    /\ UNCHANGED <<counted, newest, torn, short>>

\* The stop signal is seen, the deadline has passed or the process dies: the
\* rows stay as they are.  A split is torn if some of its children are on
\* record and others are not.
Halt ==
    /\ run.phase # "idle"
    /\ Trouble
    /\ run' = NoRun
    /\ todo' = <<>>
    /\ torn' = torn \cup {r \in Rows : /\ Children(r) # {}
                                      /\ \E k \in KidRows(r) : status[k] = "none"}
    /\ UNCHANGED <<status, counted, newest, short>>

-----------------------------------------------------------------------------

Visit == Skip \/ Recover \/ Resume \/ OutOfBudget \/ Inspect

Work == \/ BeginState \/ EndState \/ EndComplete \/ EndPass \/ EndBlocked
        \/ Visit \/ Collect \/ Split \/ Ensure \/ Finish

Next == (\E w \in Windows : StartRun(w)) \/ Work \/ Raise \/ Halt

Spec == Init /\ [][Next]_vars

\* The scheduler starts a run of its window again and again, and a run goes on.
FairSpec == Spec /\ WF_vars(Work) /\ WF_vars(StartRun(LookbackDays))

-----------------------------------------------------------------------------
(* Properties. *)

\* What SERVICE.md says of a completed workspace ("COMPLETE always implies
\* incomplete_partitions=0"), for one window and at every level: nothing below
\* a complete partition is incomplete, through resumes, failures that mark the
\* partitions above, later passes and resets.
NothingIncompleteBelow ==
    \A r \in Rows : Done(r) => \A k \in Children(r) : Done(k)

\* A split partition is complete only when every refinement SEEK offered for it
\* is on record and complete, unless a stop tore the split apart.
SplitIsCovered ==
    \A r \in Rows \ torn : Done(r) /\ Children(r) # {} /\ todo = <<>> =>
        \A k \in KidRows(r) : Done(k)

\* What SEEK_COVERAGE.md says without that exception ("every direct child is
\* complete"), the code's rule for a parent.
SplitIsAlwaysCovered ==
    \A r \in Rows : Done(r) /\ Children(r) # {} => \A k \in KidRows(r) : Done(k)

\* A finished partition is not visited again or marked anew before the cycle is
\* over: all states complete, or a run that found nothing left to do.
WorkIsKept ==
    [][\A r \in Rows : Done(r) /\ status'[r] # status[r] =>
          run.phase = "blocked" \/ AllStatesComplete]_vars

\* A run gives up only when no state has a partition left that another visit
\* could finish: every one without children is complete or cannot be split.
BlockedMeansNothingToDo ==
    run.phase = "blocked" =>
        \A r \in Rows : r[1] = run.days /\ status[r] # "none" /\ Children(r) = {} => Settled(r)

\* Whatever stops, crashes, shortfalls and human checks there are, if they end,
\* coverage of all states completes again and again, or a run of another window
\* than the one that rolls over is blocked: no leftover of an earlier run stands
\* in the way of the cycle for good, unless an override recorded roots of its own
\* window after those of the scheduled one.
ScheduledIsNewest == \A s \in Roots : newest[s] \in {0, LookbackDays}
BlockedForGood == run.phase = "blocked" /\ run.days # DefaultDays
CoverageCompletes == []ScheduledIsNewest => []<>(AllStatesComplete \/ BlockedForGood)

\* What test_collection_runner.py says of exhausted coverage ("exhausted normal
\* daily coverage rolls over"), of the runs the scheduler starts: without an
\* override their cycle completes again and again.
ExhaustedRollsOver == []ScheduledIsNewest => []<>AllStatesComplete

\* What the help text of --days says of an override ("for this run only"): later
\* runs of the scheduled window complete as if it had not been.
OverrideIsForOneRun == []<>AllStatesComplete
=============================================================================
