---------------------------- MODULE SchedulerProofs ----------------------------
(* Theorems about Scheduler, for any number of runners, slots and records.  *)
EXTENDS Scheduler, FiniteSetTheorems, WellFoundedInduction, TLAPS

\* A record is of one runner at most, the one that opened it; a process that
\* has the lock is at work or closing.
RecordsOwned ==
    /\ \A p \in Runners :
          /\ proc[p].row <= Len(runs) /\ (proc[p].kind = "seek" => proc[p].trigger # "none")
          /\ proc[p].step \in {"none", "started", "locked"} \/ proc[p].kind = "linkedin"
                => proc[p].row = 0
          /\ proc[p].step \in {"opened", "failing", "amending"} => proc[p].row # 0
          /\ proc[p].step = "running" /\ proc[p].kind = "seek" => proc[p].row # 0
          /\ lock = p => proc[p].step \in {"locked", "opened", "running", "closing"}
    /\ \A p, q \in Runners : p # q /\ proc[p].row # 0 => proc[p].row # proc[q].row

SchedulerInv == TypeOK /\ RecordsOwned /\ LiveRunIsRunning

-----------------------------------------------------------------------------

LEMMA Types ==
    ASSUME SchedulerInv
    PROVE  /\ TypeOK /\ RecordsOwned /\ LiveRunIsRunning
           /\ runs \in Seq(Records) /\ Len(runs) \in Nat /\ DOMAIN runs = 1..Len(runs)
           /\ \A p \in Runners : /\ proc[p] \in Procs /\ proc[p].row \in Nat /\ p # None
                                 /\ proc[p].row # 0 => proc[p].row \in DOMAIN runs
           /\ MaxRuns \in Nat /\ MaxSlot \in Nat \ {0}
<1>1. TypeOK /\ RecordsOwned /\ LiveRunIsRunning /\ runs \in Seq(Records)
  BY DEF SchedulerInv, TypeOK
<1>2. \A m \in Procs : m.row \in Nat
  BY SchedulerConstants DEF Procs
<1>3. \A p \in Runners : proc[p] \in Procs
  BY <1>1 DEF TypeOK
<1>4. Len(runs) \in Nat /\ DOMAIN runs = 1..Len(runs)
  BY <1>1
<1>5. \A p \in Runners : proc[p].row # 0 => proc[p].row \in DOMAIN runs
  BY <1>1, <1>2, <1>3, <1>4 DEF RecordsOwned
<1>6. QED
  BY <1>1, <1>2, <1>3, <1>4, <1>5, SchedulerConstants

\* Recovery keeps the number of records, and every record of a live runner.
LEMMA RecoveredRecords ==
    ASSUME SchedulerInv
    PROVE  /\ Recovered \in Seq(Records) /\ Len(Recovered) = Len(runs)
           /\ \A p \in Runners : proc[p].row # 0 =>
                 Recovered[proc[p].row] = runs[proc[p].row]
<1>1. \A k \in DOMAIN runs : runs[k] \in Records /\ [runs[k] EXCEPT !.status = "ENDED"] \in Records
  <2>1. \A k \in DOMAIN runs : runs[k] \in Records
    BY Types
  <2>2. \A m \in Records : [m EXCEPT !.status = "ENDED"] \in Records
    BY DEF Records
  <2>3. QED
    BY <2>1, <2>2
<1>2. \A k \in DOMAIN runs : Recovered[k] \in Records
  BY <1>1 DEF Recovered
<1>3. DOMAIN Recovered = 1..Len(runs) /\ Len(runs) \in Nat
  BY Types DEF Recovered
<1>4. Recovered = [k \in 1..Len(runs) |-> Recovered[k]]
  BY Types DEF Recovered
<1>5. Recovered \in Seq(Records) /\ Len(Recovered) = Len(runs)
  <2>1. \A k \in 1..Len(runs) : Recovered[k] \in Records
    BY <1>2, Types
  <2> HIDE DEF Recovered
  <2>2. QED
    BY <1>3, <1>4, <2>1
<1>6. ASSUME NEW p \in Runners, proc[p].row # 0
      PROVE  Recovered[proc[p].row] = runs[proc[p].row]
  BY <1>6, Types DEF Recovered
<1>7. QED
  BY <1>5, <1>6

\* The flags of the scheduler's state and of the cycle.
LEMMA Flags ==
    /\ \A f \in Marks : \A b \in BOOLEAN :
          [f EXCEPT !.failed = b] \in Marks
    /\ \A n \in 0..MaxSlot : [slot |-> n, failed |-> FALSE] \in Marks
    /\ \A f \in Cycles : \A b \in BOOLEAN :
          /\ [f EXCEPT !.ended = b] \in Cycles
          /\ [f EXCEPT !.current = b] \in Cycles
    /\ \A b, d \in BOOLEAN : [ended |-> b, current |-> d] \in Cycles
  BY DEF Marks, Cycles

-----------------------------------------------------------------------------
(* Steps that leave records, locks and runners alone.                      *)

LEMMA ClockKeeps ==
    ASSUME SchedulerInv, UNCHANGED <<runs, lock, proc>>,
           slot' \in 1..MaxSlot, open' \in BOOLEAN,
           seen' \in Marks,
           cycle' \in Cycles,
           tick' \in [step : {"idle", "linkedin", "mark", "seek"}, slot : 0..MaxSlot],
           managed' \in Runners \cup {None}
    PROVE  SchedulerInv'
<1>1. TypeOK'
  BY Types DEF TypeOK
<1>2. RecordsOwned' /\ LiveRunIsRunning'
  BY Types DEF RecordsOwned, LiveRunIsRunning
<1>3. QED
  BY <1>1, <1>2 DEF SchedulerInv

\* One runner moves: it takes the lock if it is free, keeps it or leaves it, and
\* keeps its record.
LEMMA RunnerKeeps ==
    ASSUME SchedulerInv, NEW p \in Runners, NEW m \in Procs, proc' = [proc EXCEPT ![p] = m],
           UNCHANGED <<slot, open, runs, tick>>,
           seen' \in Marks,
           cycle' \in Cycles,
           managed' \in Runners \cup {None},
           \/ lock' = lock /\ (m.step \in {"locked", "opened", "running"} => lock = p)
           \/ lock \in {None, p} /\ lock' = p
           \/ lock' = (IF lock = p THEN None ELSE lock)
              /\ m.step \notin {"locked", "opened", "running"},
           lock' = p => m.step \in {"locked", "opened", "running", "closing"},
           m.row \in {0, proc[p].row}, m.kind = "seek" => m.trigger # "none",
           m.step \in {"none", "started", "locked"} \/ m.kind = "linkedin" => m.row = 0,
           m.step \in {"opened", "failing", "amending"} => m.row # 0,
           m.step = "running" /\ m.kind = "seek" => m.row # 0,
           m.row # 0 /\ m.step \in {"opened", "running", "failing"} =>
               proc[p].step \in {"opened", "running", "failing"}
    PROVE  SchedulerInv'
<1>1. TypeOK /\ RecordsOwned /\ LiveRunIsRunning
  BY Types
<1>2. /\ proc' \in [Runners -> Procs] /\ proc'[p] = m
      /\ \A q \in Runners : q # p => proc'[q] = proc[q]
  BY <1>1 DEF TypeOK
<1>3. /\ lock' \in Runners \cup {None}
      /\ \A q \in Runners : q # p => (lock' = q <=> lock = q)
  BY <1>1, Types DEF TypeOK
<1>4. \A q \in Runners : proc'[q].step \in {"locked", "opened", "running"} => lock' = q
  <2> SUFFICES ASSUME NEW q \in Runners, proc'[q].step \in {"locked", "opened", "running"}
               PROVE  lock' = q
    OBVIOUS
  <2>1. CASE q = p
    BY <1>2, <2>1
  <2>2. CASE q # p
    BY <1>1, <1>2, <1>3, <2>2 DEF TypeOK
  <2>3. QED
    BY <2>1, <2>2
<1>5. TypeOK'
  BY <1>1, <1>2, <1>3, <1>4 DEF TypeOK
<1>6. RecordsOwned'
  <2>1. ASSUME NEW q \in Runners
        PROVE  /\ proc'[q].row <= Len(runs)
               /\ proc'[q].kind = "seek" => proc'[q].trigger # "none"
               /\ proc'[q].step \in {"none", "started", "locked"} \/ proc'[q].kind = "linkedin"
                     => proc'[q].row = 0
               /\ proc'[q].step \in {"opened", "failing", "amending"} => proc'[q].row # 0
               /\ proc'[q].step = "running" /\ proc'[q].kind = "seek" => proc'[q].row # 0
               /\ lock' = q => proc'[q].step \in {"locked", "opened", "running", "closing"}
    <3>1. CASE q = p
      BY <1>1, <1>2, <3>1, Types DEF RecordsOwned
    <3>2. CASE q # p
      BY <1>1, <1>2, <1>3, <3>2 DEF RecordsOwned
    <3>3. QED
      BY <3>1, <3>2
  <2>2. ASSUME NEW q \in Runners, NEW r \in Runners, q # r, proc'[q].row # 0
        PROVE  proc'[q].row # proc'[r].row
    <3>1. proc'[q].row = proc[q].row /\ proc'[r].row \in {0, proc[r].row}
      BY <1>2, <2>2
    <3>2. QED
      BY <1>1, <2>2, <3>1 DEF RecordsOwned
  <2>3. QED
    BY <2>1, <2>2 DEF RecordsOwned
<1>7. LiveRunIsRunning'
  BY <1>1, <1>2 DEF LiveRunIsRunning
<1>8. QED
  BY <1>5, <1>6, <1>7 DEF SchedulerInv

LEMMA TickKeeps == ASSUME SchedulerInv, TickDecide \/ TickMark PROVE SchedulerInv'
<1>1. /\ TypeOK /\ UNCHANGED <<slot, open, runs, lock, proc, cycle, managed>>
  BY Types DEF TickDecide, TickMark
<1>2. /\ slot \in 0..MaxSlot /\ 0 \in 0..MaxSlot /\ tick.slot \in 0..MaxSlot
  BY <1>1, Types DEF TypeOK
<1>3. /\ seen' \in Marks
      /\ tick' \in [step : {"idle", "linkedin", "mark", "seek"}, slot : 0..MaxSlot]
  <2>1. CASE TickDecide
    <3>1. seen' = seen /\ \E st \in {"linkedin", "mark"} : \E n \in {0, slot} :
             tick' = [step |-> st, slot |-> n]
      BY <2>1 DEF TickDecide
    <3>2. QED
      BY <1>1, <1>2, <3>1 DEF TypeOK
  <2>2. CASE TickMark
    <3>1. seen' = [slot |-> tick.slot, failed |-> FALSE] /\ tick' = [step |-> "seek", slot |-> 0]
      BY <2>2 DEF TickMark
    <3>2. QED
      BY <1>2, <3>1, Flags
  <2>3. QED
    BY <2>1, <2>2
<1>4. /\ slot' \in 1..MaxSlot /\ open' \in BOOLEAN
      /\ cycle' \in Cycles /\ managed' \in Runners \cup {None}
  BY <1>1 DEF TypeOK
<1>5. QED
  BY <1>1, <1>3, <1>4, ClockKeeps

LEMMA TimeKeeps ==
    ASSUME SchedulerInv, CloseWindow \/ NextSlot \/ NextLinkedInSlot PROVE SchedulerInv'
<1>1. TypeOK /\ UNCHANGED <<runs, lock, proc, seen, tick, managed>>
  BY Types DEF CloseWindow, NextSlot, NextLinkedInSlot
<1>2. slot' \in 1..MaxSlot /\ open' \in BOOLEAN /\ cycle' \in Cycles
  <2>1. slot \in 1..MaxSlot /\ open \in BOOLEAN /\ cycle \in Cycles
    BY <1>1 DEF TypeOK
  <2>2. slot' \in 1..MaxSlot /\ open' \in BOOLEAN
    <3>1. CASE NextSlot
      BY <2>1, <3>1, Types DEF NextSlot
    <3>2. CASE CloseWindow \/ NextLinkedInSlot
      BY <2>1, <3>2 DEF CloseWindow, NextLinkedInSlot
    <3>3. QED
      BY <3>1, <3>2
  <2>3. cycle' \in {cycle, [cycle EXCEPT !.current = FALSE]}
    BY DEF CloseWindow, NextSlot, NextLinkedInSlot
  <2>4. QED
    BY <2>1, <2>2, <2>3, Flags
<1>3. /\ seen' \in Marks /\ managed' \in Runners \cup {None}
      /\ tick' \in [step : {"idle", "linkedin", "mark", "seek"}, slot : 0..MaxSlot]
  BY <1>1 DEF TypeOK
<1>4. QED
  BY <1>1, <1>2, <1>3, ClockKeeps

\* A process that is started has neither a record nor the lock.
LEMMA SpawnKeeps ==
    ASSUME SchedulerInv, NEW p \in Runners, NEW kind \in {"seek", "linkedin"},
           NEW trigger \in {"manual", "scheduled"}, Spawn(p, kind, trigger),
           UNCHANGED <<slot, open, runs, lock>>,
           tick' \in {tick, IdleTick},
           seen' \in Marks,
           cycle' \in Cycles,
           managed' \in Runners \cup {None}
    PROVE  SchedulerInv'
<1> DEFINE m == [NoProc EXCEPT !.kind = kind, !.step = "started",
                               !.trigger = IF kind = "seek" THEN trigger ELSE "none"]
<1>1. /\ m \in Procs /\ m.step = "started" /\ m.row = 0
      /\ m.kind = "seek" => m.trigger # "none"
  <2>1. PICK t \in {"none", "manual", "scheduled"} : t = IF kind = "seek" THEN trigger ELSE "none"
    OBVIOUS
  <2>2. NoProc \in Procs /\ NoProc.row = 0
    BY Types DEF NoProc, Procs
  <2>3. m = [NoProc EXCEPT !.kind = kind, !.step = "started", !.trigger = t]
    BY <2>1
  <2>4. QED
    BY <2>2, <2>3 DEF Procs
<1>2. proc[p].step = "none" /\ proc' = [proc EXCEPT ![p] = m]
  BY DEF Spawn
<1>3. /\ TypeOK /\ RecordsOwned /\ LiveRunIsRunning /\ lock # p
  BY <1>2, Types DEF RecordsOwned
<1> HIDE DEF m
<1>4. /\ proc' \in [Runners -> Procs] /\ proc'[p] = m
      /\ \A q \in Runners : q # p => proc'[q] = proc[q]
  BY <1>1, <1>2, <1>3 DEF TypeOK
<1>5. tick' \in [step : {"idle", "linkedin", "mark", "seek"}, slot : 0..MaxSlot]
  BY <1>3, Types DEF TypeOK, IdleTick
<1>6. TypeOK'
  <2>1. \A q \in Runners : proc'[q].step \in {"locked", "opened", "running"} => lock = q
    BY <1>1, <1>3, <1>4 DEF TypeOK
  <2>2. QED
    BY <1>3, <1>4, <1>5, <2>1 DEF TypeOK
<1>7. RecordsOwned'
  <2>1. /\ m.row <= Len(runs) /\ Len(runs') = Len(runs) /\ lock' = lock
    BY <1>1, Types
  <2>2. ASSUME NEW q \in Runners, NEW r \in Runners, q # r, proc'[q].row # 0
        PROVE  proc'[q].row # proc'[r].row
    <3>1. proc'[q].row = proc[q].row /\ proc'[r].row \in {0, proc[r].row}
      BY <1>1, <1>4, <2>2
    <3>2. QED
      BY <1>3, <2>2, <3>1 DEF RecordsOwned
  <2>3. QED
    BY <1>1, <1>3, <1>4, <2>1, <2>2 DEF RecordsOwned
<1>8. LiveRunIsRunning'
  BY <1>1, <1>3, <1>4 DEF LiveRunIsRunning
<1>9. QED
  BY <1>6, <1>7, <1>8 DEF SchedulerInv

LEMMA StartKeeps ==
    ASSUME SchedulerInv,
           \/ TickStartLinkedIn \/ TickStartSeek
           \/ \E kind \in {"seek", "linkedin"} : ManualStart(kind) \/ ShellStart(kind)
    PROVE  SchedulerInv'
<1>1. /\ TypeOK /\ UNCHANGED <<slot, open, runs, lock, cycle>> /\ tick' \in {tick, IdleTick}
  BY Types DEF TickStartLinkedIn, TickStartSeek, ManualStart, ShellStart
<1>2. /\ seen' \in Marks
      /\ cycle' \in Cycles
  <2>1. seen \in Marks
    BY <1>1 DEF TypeOK
  <2>2. [seen EXCEPT !.failed = FALSE] \in Marks
    BY <2>1, Flags
  <2>3. seen' \in {seen, [seen EXCEPT !.failed = FALSE]}
    BY DEF TickStartLinkedIn, TickStartSeek, ManualStart, ShellStart
  <2>4. QED
    BY <1>1, <2>1, <2>2, <2>3 DEF TypeOK
<1>3. \/ UNCHANGED <<managed, proc>>
      \/ \E p \in Runners : \E kind \in {"seek", "linkedin"} : \E trigger \in {"manual", "scheduled"} :
            Spawn(p, kind, trigger) /\ managed' \in Runners \cup {None}
  BY <1>1 DEF TickStartLinkedIn, TickStartSeek, ManualStart, ShellStart, TypeOK
<1>4. CASE UNCHANGED <<managed, proc>>
  <2>1. /\ slot' \in 1..MaxSlot /\ open' \in BOOLEAN /\ managed' \in Runners \cup {None}
    BY <1>1, <1>4 DEF TypeOK
  <2>2. tick' \in [step : {"idle", "linkedin", "mark", "seek"}, slot : 0..MaxSlot]
    BY <1>1, Types DEF TypeOK, IdleTick
  <2>3. QED
    BY <1>1, <1>2, <1>4, <2>1, <2>2, ClockKeeps
<1>5. QED
  BY <1>1, <1>2, <1>3, <1>4, SpawnKeeps

-----------------------------------------------------------------------------
(* Steps of a runner.                                                      *)

\* A process that ends gives up its lock, and its record is nobody's.
LEMMA ExitKeeps ==
    ASSUME SchedulerInv, NEW p \in Runners, Exit(p), UNCHANGED <<slot, open, runs, tick, cycle, managed>>,
           seen' \in Marks
    PROVE  SchedulerInv'
<1>1. /\ NoProc \in Procs /\ NoProc.step = "none" /\ NoProc.row = 0 /\ NoProc.kind = "none"
  BY Types DEF NoProc, Procs
<1>2. /\ proc' = [proc EXCEPT ![p] = NoProc] /\ lock' = (IF lock = p THEN None ELSE lock)
      /\ lock' # p
  BY Types DEF Exit
<1>3. /\ cycle' \in Cycles /\ managed' \in Runners \cup {None}
  BY Types DEF TypeOK
<1>4. QED
  BY <1>1, <1>2, <1>3, RunnerKeeps

LEMMA EndingKeeps ==
    ASSUME SchedulerInv, NEW p \in Runners, CloseRun(p) \/ EndLinkedIn(p) \/ Die(p)
    PROVE  SchedulerInv'
<1>1. Exit(p) /\ UNCHANGED <<slot, open, runs, tick, cycle, managed>>
  BY DEF CloseRun, EndLinkedIn, Die
<1>2. seen' \in Marks
  <2>1. /\ seen \in Marks /\ slot \in 0..MaxSlot
        /\ proc[p].from \in 0..MaxSlot
    BY Types DEF TypeOK, Procs
  <2>2. Overlapped(p) \in 0..MaxSlot /\ Failed(p) \in BOOLEAN /\ 0 \in 0..MaxSlot
    BY <2>1, Types DEF Overlapped, Failed
  <2>3. \/ seen' = seen \/ seen' = [seen EXCEPT !.failed = Failed(p)]
        \/ seen' = [slot |-> Overlapped(p), failed |-> FALSE]
    BY DEF CloseRun, EndLinkedIn, Die
  <2> HIDE DEF Overlapped, Failed
  <2>4. QED
    BY <2>1, <2>2, <2>3, Flags
<1>3. QED
  BY <1>1, <1>2, ExitKeeps

LEMMA TakeLockKeeps ==
    ASSUME SchedulerInv, NEW p \in Runners, TakeLock(p) PROVE SchedulerInv'
<1>1. /\ TypeOK /\ RecordsOwned /\ proc[p] \in Procs /\ proc[p].step = "started" /\ proc[p].row = 0
      /\ UNCHANGED <<slot, open, runs, tick, cycle, managed, seen>>
  BY Types DEF TakeLock, RecordsOwned
<1>2. /\ seen' \in Marks
      /\ cycle' \in Cycles /\ managed' \in Runners \cup {None}
  BY <1>1 DEF TypeOK
<1>3. CASE Exit(p)
  BY <1>1, <1>2, <1>3, ExitKeeps
<1>4. CASE ~Exit(p)
  <2> DEFINE from == IF proc[p].trigger = "manual" THEN slot ELSE 0
             within == proc[p].trigger = "manual" /\ open
             m == [proc[p] EXCEPT !.step = "locked", !.from = from, !.within = within]
  <2>1. lock = None /\ lock' = p /\ proc' = [proc EXCEPT ![p] = m]
    BY <1>1, <1>4 DEF TakeLock, LockFree, TypeOK
  <2>2. from \in 0..MaxSlot /\ within \in BOOLEAN
    BY <1>1, Types DEF TypeOK
  <2> HIDE DEF from, within
  <2>3. /\ m \in Procs /\ m.step = "locked" /\ m.row = 0
        /\ m.kind = "seek" => m.trigger # "none"
    BY <1>1, <2>2 DEF Procs, RecordsOwned
  <2> HIDE DEF m
  <2>4. QED
    BY <1>1, <1>2, <2>1, <2>3, RunnerKeeps
<1>5. QED
  BY <1>3, <1>4

LEMMA StepOf ==
    ASSUME SchedulerInv, NEW p \in Runners, NEW s, Step(p, s),
           s \in {"opened", "running", "failing", "amending", "closing"}
    PROVE  LET m == [proc[p] EXCEPT !.step = s]
           IN  /\ m \in Procs /\ proc' = [proc EXCEPT ![p] = m]
               /\ m.step = s /\ m.row = proc[p].row /\ m.kind = proc[p].kind
      /\ m.trigger = proc[p].trigger
<1>1. proc \in [Runners -> Procs] /\ proc[p] \in Procs
  BY Types DEF TypeOK
<1>2. QED
  BY <1>1 DEF Step, Procs

LEMMA RaiseKeeps == ASSUME SchedulerInv, NEW p \in Runners, Raise(p) PROVE SchedulerInv'
<1> DEFINE s == IF proc[p].row = 0 THEN "closing"
                ELSE IF proc[p].step = "closing" THEN "amending" ELSE "failing"
           m == [proc[p] EXCEPT !.step = s]
<1>1. /\ TypeOK /\ RecordsOwned /\ Step(p, s) /\ lock = p /\ lock' = None
      /\ UNCHANGED <<slot, open, runs, tick, cycle, managed, seen>> /\ proc[p].kind = "seek"
  BY Types DEF Raise
<1>2. /\ m \in Procs /\ proc' = [proc EXCEPT ![p] = m]
      /\ m.step = s /\ m.row = proc[p].row /\ m.kind = proc[p].kind
      /\ m.trigger = proc[p].trigger
  BY <1>1, StepOf
<1>3. /\ m.kind = "seek" => m.trigger # "none"
      /\ s \in {"closing", "amending", "failing"} /\ (s \in {"amending", "failing"} => m.row # 0)
      /\ s = "failing" => proc[p].step \in {"opened", "running"}
  BY <1>1, <1>2 DEF RecordsOwned
<1>4. /\ seen' \in Marks /\ p # None
      /\ cycle' \in Cycles /\ managed' \in Runners \cup {None}
  BY <1>1, Types DEF TypeOK
<1> HIDE DEF m, s
<1>5. QED
  BY <1>1, <1>2, <1>3, <1>4, RunnerKeeps

LEMMA MarkRunningKeeps ==
    ASSUME SchedulerInv, NEW p \in Runners, MarkRunning(p) PROVE SchedulerInv'
<1> DEFINE m == [proc[p] EXCEPT !.step = "running"]
<1>1. /\ TypeOK /\ RecordsOwned /\ Step(p, "running") /\ proc[p].step = "opened" /\ lock = p
      /\ UNCHANGED <<slot, open, runs, tick, cycle, managed, lock>> /\ proc[p].kind = "seek"
  BY Types DEF MarkRunning, TypeOK
<1>2. /\ m \in Procs /\ proc' = [proc EXCEPT ![p] = m]
      /\ m.step = "running" /\ m.row = proc[p].row /\ m.kind = proc[p].kind
      /\ m.trigger = proc[p].trigger
  BY <1>1, StepOf
<1>3. m.row # 0 /\ (m.kind = "seek" => m.trigger # "none")
  BY <1>1, <1>2 DEF RecordsOwned
<1>4. /\ seen' \in Marks
      /\ cycle' \in Cycles /\ managed' \in Runners \cup {None}
  <2>1. seen' \in {seen, [seen EXCEPT !.failed = FALSE]}
    BY DEF MarkRunning
  <2>2. QED
    BY <1>1, <2>1, Flags DEF TypeOK
<1> HIDE DEF m
<1>5. QED
  BY <1>1, <1>2, <1>3, <1>4, RunnerKeeps

LEMMA CycleKeeps ==
    ASSUME SchedulerInv, NEW p \in Runners, StartCycle(p) \/ FinishCycle(p) PROVE SchedulerInv'
<1>1. PICK s \in {"running", "closing"} :
         /\ Step(p, s) /\ proc[p].kind = "linkedin" /\ proc[p].step \in {"locked", "running"}
  BY DEF StartCycle, FinishCycle
<1> DEFINE m == [proc[p] EXCEPT !.step = s]
<1>2. /\ TypeOK /\ RecordsOwned /\ lock = p
      /\ UNCHANGED <<slot, open, runs, tick, seen, managed, lock>>
  BY <1>1, Types DEF StartCycle, FinishCycle, TypeOK
<1>3. /\ m \in Procs /\ proc' = [proc EXCEPT ![p] = m]
      /\ m.step = s /\ m.row = proc[p].row /\ m.kind = proc[p].kind
      /\ m.trigger = proc[p].trigger
  BY <1>1, StepOf
<1>4. m.row = 0
  BY <1>1, <1>2, <1>3 DEF RecordsOwned
<1>5. cycle' \in Cycles
  <2>1. cycle \in Cycles
    BY <1>2 DEF TypeOK
  <2>2. \/ cycle' = cycle \/ \E b \in BOOLEAN : cycle' = [cycle EXCEPT !.ended = b]
        \/ \E b \in BOOLEAN : cycle' = [ended |-> FALSE, current |-> b]
    BY DEF StartCycle, FinishCycle
  <2>3. QED
    BY <2>1, <2>2, Flags
<1>6. /\ seen' \in Marks /\ managed' \in Runners \cup {None}
  BY <1>2 DEF TypeOK
<1> HIDE DEF m
<1>7. QED
  BY <1>1, <1>2, <1>3, <1>4, <1>5, <1>6, RunnerKeeps

-----------------------------------------------------------------------------
(* Steps that write records.                                               *)

LEMMA StatusPollKeeps == ASSUME SchedulerInv, StatusPoll PROVE SchedulerInv'
<1>1. /\ TypeOK /\ RecordsOwned /\ LiveRunIsRunning /\ runs' = Recovered
      /\ UNCHANGED <<slot, open, seen, cycle, tick, managed, lock, proc>>
  BY Types DEF StatusPoll
<1>2. /\ runs' \in Seq(Records) /\ Len(runs') = Len(runs)
      /\ \A p \in Runners : proc[p].row # 0 => runs'[proc[p].row] = runs[proc[p].row]
  BY <1>1, RecoveredRecords
<1>3. TypeOK'
  BY <1>1, <1>2 DEF TypeOK
<1>4. RecordsOwned'
  BY <1>1, <1>2 DEF RecordsOwned
<1>5. LiveRunIsRunning'
  BY <1>1, <1>2 DEF LiveRunIsRunning
<1>6. QED
  BY <1>3, <1>4, <1>5 DEF SchedulerInv

LEMMA OpenRunKeeps == ASSUME SchedulerInv, NEW p \in Runners, OpenRun(p) PROVE SchedulerInv'
<1> DEFINE n == Len(runs) + 1
           rec == [trigger |-> proc[p].trigger, status |-> "RUNNING",
                   slot |-> IF proc[p].trigger = "scheduled" THEN slot ELSE 0]
           m == [proc[p] EXCEPT !.step = "opened", !.row = n]
<1>1. /\ TypeOK /\ RecordsOwned /\ LiveRunIsRunning /\ runs' = Append(Recovered, rec)
      /\ UNCHANGED <<slot, open, seen, cycle, tick, managed, lock>> /\ lock = p
      /\ proc[p].kind = "seek" /\ proc[p].step = "locked" /\ Len(runs) < MaxRuns
      /\ proc \in [Runners -> Procs] /\ proc' = [proc EXCEPT ![p] = m]
  BY Types DEF OpenRun, TypeOK
<1>2. proc[p].trigger \in {"manual", "scheduled"}
  BY <1>1 DEF RecordsOwned, Procs
<1>3. rec \in Records /\ rec.status = "RUNNING"
  <2>1. slot \in 0..MaxSlot /\ 0 \in 0..MaxSlot
    BY <1>1, Types DEF TypeOK
  <2>2. QED
    BY <1>2, <2>1 DEF Records
<1>4. n \in 0..MaxRuns /\ n # 0 /\ n \in Nat
  BY <1>1, Types
<1>5. /\ m \in Procs /\ m.step = "opened" /\ m.row = n /\ m.kind = "seek" /\ m.trigger # "none"
  BY <1>1, <1>2, <1>4 DEF Procs
<1>6. /\ runs' \in Seq(Records) /\ Len(runs') = n /\ runs'[n] = rec
      /\ \A k \in 1..Len(runs) : runs'[k] = Recovered[k]
  <2> HIDE DEF rec
  <2>1. QED
    BY <1>1, <1>3, Types, RecoveredRecords
<1>7. \A q \in Runners : proc[q].row # 0 => runs'[proc[q].row] = runs[proc[q].row]
  BY <1>6, Types, RecoveredRecords
<1> HIDE DEF m, rec, n
<1>8. /\ proc' \in [Runners -> Procs] /\ proc'[p] = m
      /\ \A q \in Runners : q # p => proc'[q] = proc[q]
  BY <1>1, <1>5
<1>9. TypeOK'
  BY <1>1, <1>4, <1>5, <1>6, <1>8 DEF TypeOK
<1>10. \A q \in Runners : proc[q].row <= Len(runs) /\ proc[q].row # n /\ proc[q].row <= n
  BY <1>1, Types DEF RecordsOwned, n
<1>11. RecordsOwned'
  <2>1. ASSUME NEW q \in Runners, NEW r \in Runners, q # r, proc'[q].row # 0
        PROVE  proc'[q].row # proc'[r].row
    BY <1>1, <1>5, <1>8, <1>10, <2>1 DEF RecordsOwned
  <2>2. ASSUME NEW q \in Runners
        PROVE  /\ proc'[q].row <= Len(runs')
               /\ proc'[q].kind = "seek" => proc'[q].trigger # "none"
               /\ proc'[q].step \in {"none", "started", "locked"} \/ proc'[q].kind = "linkedin"
                     => proc'[q].row = 0
               /\ proc'[q].step \in {"opened", "failing", "amending"} => proc'[q].row # 0
               /\ proc'[q].step = "running" /\ proc'[q].kind = "seek" => proc'[q].row # 0
               /\ lock' = q => proc'[q].step \in {"locked", "opened", "running", "closing"}
    <3>1. CASE q = p
      BY <1>4, <1>5, <1>6, <1>8, <3>1
    <3>2. CASE q # p
      BY <1>1, <1>6, <1>8, <1>10, <3>2 DEF RecordsOwned
    <3>3. QED
      BY <3>1, <3>2
  <2>3. QED
    BY <2>1, <2>2 DEF RecordsOwned
<1>12. LiveRunIsRunning'
  BY <1>1, <1>3, <1>5, <1>6, <1>7, <1>8 DEF LiveRunIsRunning
<1>13. QED
  BY <1>9, <1>11, <1>12 DEF SchedulerInv

LEMMA FinishRunKeeps == ASSUME SchedulerInv, NEW p \in Runners, FinishRun(p) PROVE SchedulerInv'
<1> DEFINE k == proc[p].row
           st == IF proc[p].step = "running" THEN "ENDED" ELSE "FAILED"
           m == [proc[p] EXCEPT !.step = "closing"]
<1>1. /\ TypeOK /\ RecordsOwned /\ LiveRunIsRunning
      /\ runs' = [runs EXCEPT ![k].status = st] /\ Step(p, "closing")
      /\ UNCHANGED <<slot, open, seen, cycle, tick, managed, lock>>
      /\ proc[p].kind = "seek" /\ proc[p].step \in {"running", "failing", "amending"}
  BY Types DEF FinishRun
<1>2. /\ m \in Procs /\ proc' = [proc EXCEPT ![p] = m]
      /\ m.step = "closing" /\ m.row = k /\ m.kind = "seek" /\ m.trigger # "none"
  BY <1>1, StepOf DEF RecordsOwned
<1>3. k \in DOMAIN runs /\ k # 0 /\ k \in Nat
  BY <1>1, Types DEF RecordsOwned
<1>4. [runs[k] EXCEPT !.status = st] \in Records
  <2>1. runs[k] \in Records /\ st \in {"ENDED", "FAILED"}
    BY <1>3, Types
  <2>2. QED
    BY <2>1 DEF Records
<1> HIDE DEF m, st
<1>5. /\ runs' \in Seq(Records) /\ Len(runs') = Len(runs)
      /\ \A j \in DOMAIN runs : j # k => runs'[j] = runs[j]
  BY <1>1, <1>3, <1>4, Types
<1> HIDE DEF k
<1>6. /\ proc' \in [Runners -> Procs] /\ proc'[p] = m
      /\ \A q \in Runners : q # p => proc'[q] = proc[q]
      /\ \A q \in Runners : proc'[q].row = proc[q].row /\ proc'[q].kind = proc[q].kind
  BY <1>1, <1>2 DEF TypeOK, k
<1>7. TypeOK'
  BY <1>1, <1>2, <1>5, <1>6 DEF TypeOK
<1>8. RecordsOwned'
  BY <1>1, <1>2, <1>3, <1>5, <1>6 DEF RecordsOwned
<1>9. LiveRunIsRunning'
  <2> SUFFICES ASSUME NEW q \in Runners, proc'[q].row # 0,
                      proc'[q].step \in {"opened", "running", "failing"}
               PROVE  runs'[proc'[q].row].status = "RUNNING"
    BY DEF LiveRunIsRunning
  <2>1. q # p /\ proc'[q] = proc[q]
    BY <1>2, <1>6
  <2>2. proc[q].row # k /\ proc[q].row \in DOMAIN runs
    BY <1>1, <2>1, Types DEF RecordsOwned, k
  <2>3. QED
    BY <1>1, <1>5, <2>1, <2>2 DEF LiveRunIsRunning
<1>10. QED
  BY <1>7, <1>8, <1>9 DEF SchedulerInv

-----------------------------------------------------------------------------
(* The theorems.                                                           *)

LEMMA InitHolds == Init => SchedulerInv
<1> SUFFICES ASSUME Init PROVE SchedulerInv
  OBVIOUS
<1>1. /\ 1 \in 1..MaxSlot /\ 0 \in 0..MaxSlot /\ 0 \in 0..MaxRuns
  BY SchedulerConstants
<1>2. NoProc \in Procs /\ NoProc.step = "none" /\ NoProc.row = 0 /\ NoProc.kind = "none"
  BY <1>1 DEF NoProc, Procs
<1>3. /\ proc = [p \in Runners |-> NoProc] /\ runs = <<>> /\ lock = None
      /\ \A p \in Runners : proc[p] = NoProc
  BY DEF Init
<1>4. TypeOK
  <2>1. seen \in Marks /\ cycle \in Cycles
    BY <1>1 DEF Init, Marks, Cycles
  <2>2. tick \in [step : {"idle", "linkedin", "mark", "seek"}, slot : 0..MaxSlot]
    BY <1>1 DEF Init, IdleTick
  <2>3. runs \in Seq(Records) /\ Len(runs) <= MaxRuns
    BY <1>3, SchedulerConstants
  <2>4. QED
    BY <1>1, <1>2, <1>3, <2>1, <2>2, <2>3 DEF Init, TypeOK
<1>5. RecordsOwned /\ LiveRunIsRunning
  <2>1. \A p \in Runners : lock # p
    BY <1>3, SchedulerConstants
  <2>2. QED
    BY <1>2, <1>3, <2>1 DEF RecordsOwned, LiveRunIsRunning
<1>6. QED
  BY <1>4, <1>5 DEF SchedulerInv

LEMMA StepKeeps == ASSUME SchedulerInv, [Next]_vars PROVE SchedulerInv'
<1>1. CASE Thread
  BY <1>1, TickKeeps, StartKeeps DEF Thread
<1>2. CASE StatusPoll
  BY <1>2, StatusPollKeeps
<1>3. CASE \E kind \in {"seek", "linkedin"} : ManualStart(kind) \/ ShellStart(kind)
  BY <1>3, StartKeeps
<1>4. ASSUME NEW p \in Runners,
             \/ TakeLock(p) \/ Raise(p) \/ OpenRun(p) \/ MarkRunning(p)
             \/ FinishRun(p) \/ CloseRun(p) \/ StartCycle(p) \/ FinishCycle(p)
             \/ EndLinkedIn(p) \/ Die(p)
      PROVE  SchedulerInv'
  BY <1>4, TakeLockKeeps, RaiseKeeps, OpenRunKeeps, MarkRunningKeeps, FinishRunKeeps,
     EndingKeeps, CycleKeeps
<1>5. CASE CloseWindow \/ NextSlot \/ NextLinkedInSlot
  BY <1>5, TimeKeeps
<1>6. CASE UNCHANGED vars
  BY <1>6, ClockKeeps, Types DEF vars, TypeOK
<1>7. QED
  BY <1>1, <1>2, <1>3, <1>4, <1>5, <1>6 DEF Next

\* Who owns a record and who holds the lock is known in every state.
THEOREM SchedulerInvariant == Spec => []SchedulerInv
<1>1. SchedulerInv /\ [Next]_vars => SchedulerInv'
  BY StepKeeps
<1>2. QED
  BY InitHolds, <1>1, PTL DEF Spec

\* At most one runner is at work, the one that holds the collection lock, however
\* many are started by the scheduler, by hand and from a shell.
THEOREM OneRunAtATime ==
    Spec => [](\A p, q \in Runners :
        {proc[p].step, proc[q].step} \subseteq {"locked", "opened", "running"} => p = q)
<1>1. SchedulerInv => \A p, q \in Runners :
        {proc[p].step, proc[q].step} \subseteq {"locked", "opened", "running"} => p = q
  BY DEF SchedulerInv, TypeOK
<1>2. QED
  BY <1>1, SchedulerInvariant, PTL

\* The record of a runner at work says RUNNING until the runner itself ends it:
\* recover_stale_market_runs of another process never closes it.
THEOREM LiveRunsStayRunning == Spec => []LiveRunIsRunning
<1>1. SchedulerInv => LiveRunIsRunning
  BY DEF SchedulerInv
<1>2. QED
  BY <1>1, SchedulerInvariant, PTL

-----------------------------------------------------------------------------
(* How many runs a slot gets.                                              *)

One(b) == IF b THEN 1 ELSE 0
RunsOf(s) == {k \in Scheduled : runs[k].slot = s}

\* Runs of the current slot still to come: the one the tick has decided, and the
\* one whose process has not opened its record.
Decided == tick.step \in {"mark", "seek"}
Unopened == \E p \in Runners : /\ proc[p].trigger = "scheduled"
                               /\ proc[p].step \in {"started", "locked"}
Ahead == One(Decided) + One(Unopened)

\* The slot may still be taken up as a new one.
Due == slot # (IF tick.step = "mark" THEN tick.slot ELSE seen.slot)

\* Records are in the order of their slots; the only scheduled process is the
\* manager's; a manual run, which can make an older slot the last attempted one,
\* has let no run of a later slot open its record.
RecordsInOrder ==
    \A k \in Scheduled : /\ runs[k].slot <= slot
                         /\ \A j \in Scheduled : j < k => runs[j].slot <= runs[k].slot
ScheduledIsManaged ==
    \A p \in Runners : proc[p].trigger = "scheduled" => managed = p /\ proc[p].step # "none"
ManualHoldsOff ==
    \A p \in Runners : lock = p /\ proc[p].trigger = "manual" =>
        /\ proc[p].from <= slot
        /\ \A k \in Scheduled : runs[k].slot <= proc[p].from

\* A new slot is taken up with two runs at most made or to come, a retry with one
\* record at most: three in all.
RetryBudget ==
    /\ \A s \in 1..MaxSlot : Cardinality(RunsOf(s)) <= 3
    /\ Cardinality(RunsOf(slot)) + Ahead <= 3
    /\ Due => Cardinality(RunsOf(slot)) + Ahead <= 2

RetryInv == RecordsInOrder /\ ScheduledIsManaged /\ ManualHoldsOff /\ RetryBudget

LEMMA RunsFinite ==
    ASSUME SchedulerInv
    PROVE  /\ Scheduled \subseteq 1..Len(runs) /\ \A k \in Scheduled : k \in Nat /\ runs[k].slot \in Nat
           /\ IsFiniteSet(Scheduled) /\ Cardinality(Scheduled) \in Nat
           /\ \A s : IsFiniteSet(RunsOf(s)) /\ Cardinality(RunsOf(s)) \in Nat
           /\ slot \in Nat
<1>1. Scheduled \subseteq 1..Len(runs) /\ Len(runs) \in Nat
  BY Types DEF Scheduled
<1>2. \A k \in Scheduled : k \in Nat /\ runs[k] \in Records
  BY <1>1, Types
<1>3. \A m \in Records : m.slot \in Nat
  BY Types DEF Records
<1>4. slot \in Nat
  BY Types DEF TypeOK
<1>5. IsFiniteSet(1..Len(runs))
  BY <1>1, FS_Interval
<1>6. IsFiniteSet(Scheduled) /\ Cardinality(Scheduled) \in Nat
  BY <1>1, <1>5, FS_Subset, FS_CardinalityType
<1>7. ASSUME NEW s PROVE IsFiniteSet(RunsOf(s)) /\ Cardinality(RunsOf(s)) \in Nat
  <2>1. RunsOf(s) \subseteq Scheduled
    BY DEF RunsOf
  <2>2. QED
    BY <1>6, <2>1, FS_Subset, FS_CardinalityType
<1>8. QED
  BY <1>1, <1>2, <1>3, <1>4, <1>6, <1>7

LEMMA AheadIs == Ahead \in {0, 1, 2} /\ One(Decided) \in {0, 1} /\ One(Unopened) \in {0, 1}
  BY DEF Ahead, One

\* The latest of some records.
LEMMA LatestOf ==
    ASSUME NEW n \in Nat, NEW S, S \subseteq 1..n, S # {}
    PROVE  \E m \in S : \A k \in S : k <= m
<1> DEFINE After(k) == n - k
           T == {After(k) : k \in S}
<1>1. \A k \in S : k \in 1..n /\ After(k) \in Nat /\ After(k) \in T
  OBVIOUS
<1>2. T \subseteq Nat /\ T # {}
  BY <1>1
<1> HIDE DEF T
<1>3. PICK x \in T : \A y \in T : ~ (<<y, x>> \in OpToRel(<, Nat))
  BY <1>2, NatLessThanWellFounded, WFMin
<1>4. PICK m \in S : x = After(m)
  BY DEF T
<1>5. ASSUME NEW k \in S PROVE k <= m
  <2>1. After(k) \in Nat /\ After(m) \in Nat /\ k \in 1..n /\ m \in 1..n
    BY <1>1
  <2>2. ~ (After(k) < After(m))
    BY <1>1, <1>3, <1>4, <2>1 DEF OpToRel
  <2>3. QED
    BY <2>1, <2>2
<1>6. QED
  BY <1>5

\* The two latest scheduled records are those a retry counts, so when fewer than
\* two of them are of this slot, no more than one record of it exists.
LEMMA FewAttempts ==
    ASSUME SchedulerInv, RecordsInOrder, Cardinality(AttemptsInSlot) < 2
    PROVE  Cardinality(RunsOf(slot)) <= 1
<1> DEFINE R == RunsOf(slot)
           Later(k) == {m \in Scheduled : m > k}
<1>1. /\ R \subseteq Scheduled /\ IsFiniteSet(R) /\ Cardinality(R) \in Nat
      /\ Scheduled \subseteq Nat /\ slot \in Nat
      /\ Scheduled \subseteq 1..Len(runs) /\ Len(runs) \in Nat
  BY RunsFinite, Types DEF RunsOf
<1>2. ASSUME NEW k \in R PROVE Later(k) = {m \in R : m > k}
  <2>1. k \in Scheduled /\ runs[k].slot = slot
    BY DEF RunsOf
  <2>2. \A m \in Scheduled : m > k => runs[m].slot = slot
    <3>1. ASSUME NEW m \in Scheduled, m > k PROVE runs[m].slot = slot
      <4>1. runs[k].slot <= runs[m].slot /\ runs[m].slot <= slot
        BY <2>1, <3>1, <1>1 DEF RecordsInOrder
      <4>2. runs[m].slot \in Nat
        BY RunsFinite
      <4>3. QED
        BY <1>1, <2>1, <4>1, <4>2
    <3>2. QED
      BY <3>1
  <2>3. QED
    BY <2>1, <2>2 DEF RunsOf
<1> SUFFICES ASSUME Cardinality(R) > 1 PROVE FALSE
  BY <1>1
<1>3. PICK a \in R : \A m \in R : m <= a
  <2>1. R # {}
    BY FS_EmptySet
  <2>2. QED
    BY <1>1, <2>1, LatestOf
<1>4. PICK b \in R \ {a} : \A m \in R \ {a} : m <= b
  <2>1. R \ {a} # {}
    BY <1>1, FS_EmptySet, FS_RemoveElement
  <2>2. R \ {a} \subseteq 1..Len(runs)
    BY <1>1
  <2> HIDE DEF R
  <2>3. QED
    BY <1>1, <2>1, <2>2, LatestOf
<1>5. Later(a) = {} /\ Later(b) = {a}
  <2>1. a \in Nat /\ b \in Nat /\ b < a
    <3>1. a \in Nat /\ b \in Nat /\ b # a /\ b \in R
      BY <1>1
    <3>2. b <= a
      BY <1>3, <3>1
    <3>3. QED
      BY <3>1, <3>2
  <2>2. \A m \in R : m \in Nat /\ ~(m > a) /\ (m > b => m = a)
    BY <1>1, <1>3, <1>4, <2>1
  <2>3. {m \in R : m > a} = {} /\ {m \in R : m > b} = {a}
    BY <2>1, <2>2
  <2>4. QED
    BY <1>2, <2>3, <1>4
<1>6. {a, b} \subseteq AttemptsInSlot
  <2>1. Cardinality(Later(a)) < 2 /\ Cardinality(Later(b)) < 2
    BY <1>5, FS_EmptySet, FS_Singleton
  <2>2. a \in Scheduled /\ b \in Scheduled /\ runs[a].slot = slot /\ runs[b].slot = slot
    BY <1>4 DEF RunsOf
  <2>3. QED
    BY <2>1, <2>2 DEF AttemptsInSlot
<1>7. IsFiniteSet(AttemptsInSlot) /\ Cardinality(AttemptsInSlot) \in Nat
  <2>1. AttemptsInSlot \subseteq Scheduled
    BY DEF AttemptsInSlot
  <2>2. QED
    BY <2>1, RunsFinite, FS_Subset, FS_CardinalityType
<1>8. Cardinality({a, b}) = 2
  <2>1. IsFiniteSet({b}) /\ Cardinality({b}) = 1 /\ a \notin {b} /\ {b} \cup {a} = {a, b}
    BY <1>4, FS_Singleton
  <2>2. QED
    BY <2>1, FS_AddElement
<1>9. Cardinality({a, b}) <= Cardinality(AttemptsInSlot)
  BY <1>6, <1>7, FS_Subset
<1>10. QED
  BY <1>7, <1>8, <1>9

\* The records that stay scheduled records of their slots.
SameRecords ==
    /\ DOMAIN runs' = DOMAIN runs
    /\ \A k \in DOMAIN runs : runs'[k].trigger = runs[k].trigger /\ runs'[k].slot = runs[k].slot

LEMMA SameRuns ==
    ASSUME SameRecords
    PROVE  /\ Scheduled' = Scheduled /\ \A k \in Scheduled : runs'[k].slot = runs[k].slot
           /\ \A s : {k \in Scheduled' : runs'[k].slot = s} = RunsOf(s)
<1>1. Scheduled' = {k \in DOMAIN runs : runs[k].trigger = "scheduled"}
  BY DEF SameRecords, Scheduled
<1>2. Scheduled' = Scheduled /\ \A k \in Scheduled : runs'[k].slot = runs[k].slot
  BY <1>1 DEF Scheduled, SameRecords
<1>3. QED
  BY <1>2 DEF RunsOf

\* A step that neither opens a record nor moves the clock, and makes no slot due
\* but one that has no record yet.
LEMMA BudgetKept ==
    ASSUME SchedulerInv, RetryInv, SameRecords, slot' = slot,
           Ahead' <= Ahead, Due' => Due \/ RunsOf(slot) = {},
           ScheduledIsManaged', ManualHoldsOff'
    PROVE  RetryInv'
<1>1. /\ Scheduled' = Scheduled /\ \A k \in Scheduled : runs'[k].slot = runs[k].slot
      /\ \A s : {k \in Scheduled' : runs'[k].slot = s} = RunsOf(s)
  BY SameRuns
<1>2. RecordsInOrder'
  BY <1>1 DEF RetryInv, RecordsInOrder
<1>3. /\ RunsOf(slot)' = RunsOf(slot)
      /\ (\A s \in 1..MaxSlot : Cardinality(RunsOf(s)) <= 3)' <=>
         (\A s \in 1..MaxSlot : Cardinality(RunsOf(s)) <= 3)
  BY <1>1 DEF RunsOf
<1>4. /\ Ahead \in {0, 1, 2} /\ Ahead' \in {0, 1, 2} /\ Cardinality(RunsOf(slot)) \in Nat
      /\ RunsOf(slot) = {} => Cardinality(RunsOf(slot)) = 0
  BY AheadIs, RunsFinite, FS_EmptySet DEF Ahead, One
<1>5. /\ \A s \in 1..MaxSlot : Cardinality(RunsOf(s)) <= 3
      /\ Cardinality(RunsOf(slot)) + Ahead <= 3
      /\ Due => Cardinality(RunsOf(slot)) + Ahead <= 2
  BY DEF RetryInv, RetryBudget
<1>6. /\ Cardinality(RunsOf(slot)) + Ahead' <= 3
      /\ Due' => Cardinality(RunsOf(slot)) + Ahead' <= 2
  BY <1>4, <1>5
<1>7. RetryBudget'
  BY <1>3, <1>5, <1>6 DEF RetryBudget
<1>8. QED
  BY <1>2, <1>7 DEF RetryInv

\* A runner's step: it starts no scheduled run, and takes the lock as of now.
LEMMA RunnerBudget ==
    ASSUME SchedulerInv, RetryInv, NEW p \in Runners, NEW m,
           proc' = [proc EXCEPT ![p] = m], SameRecords, UNCHANGED <<slot, tick, managed>>,
           m.trigger = "scheduled" =>
               /\ proc[p].trigger = "scheduled" /\ m.step # "none"
               /\ m.step \in {"started", "locked"} => proc[p].step \in {"started", "locked"},
           lock' \in {lock, p, None},
           lock' = p /\ m.trigger = "manual" =>
               \/ m.from = slot
               \/ lock = p /\ proc[p].trigger = "manual" /\ m.from = proc[p].from,
           seen'.slot \in {seen.slot, slot} \/ RunsOf(slot) = {}
    PROVE  RetryInv'
<1>1. /\ proc \in [Runners -> Procs] /\ proc'[p] = m
      /\ \A q \in Runners : q # p => proc'[q] = proc[q]
      /\ \A q \in Runners : q # None
  BY Types DEF TypeOK
<1>2. ScheduledIsManaged'
  <2>1. ASSUME NEW q \in Runners, proc'[q].trigger = "scheduled"
        PROVE  managed' = q /\ proc'[q].step # "none"
    BY <1>1, <2>1 DEF RetryInv, ScheduledIsManaged
  <2>2. QED
    BY <2>1 DEF ScheduledIsManaged
<1>3. ManualHoldsOff'
  <2> SUFFICES ASSUME NEW q \in Runners, lock' = q, proc'[q].trigger = "manual"
               PROVE  proc'[q].from <= slot /\ \A k \in Scheduled' : runs'[k].slot <= proc'[q].from
    BY DEF ManualHoldsOff
  <2>1. \A k \in Scheduled' : k \in Scheduled /\ runs'[k].slot = runs[k].slot
    BY SameRuns
  <2>2. CASE q = p /\ m.from = slot
    BY <1>1, <2>1, <2>2, RunsFinite DEF RetryInv, RecordsInOrder
  <2>3. CASE lock = q /\ proc[q].trigger = "manual" /\ proc'[q].from = proc[q].from
    BY <2>1, <2>3 DEF RetryInv, ManualHoldsOff
  <2>4. QED
    BY <1>1, <2>2, <2>3
<1>4. Ahead' <= Ahead
  <2>1. Unopened' => Unopened
    <3> SUFFICES ASSUME NEW q \in Runners, proc'[q].trigger = "scheduled",
                        proc'[q].step \in {"started", "locked"}
                 PROVE  proc[q].trigger = "scheduled" /\ proc[q].step \in {"started", "locked"}
      BY DEF Unopened
    <3>1. QED
      BY <1>1
  <2>2. Decided' <=> Decided
    BY DEF Decided
  <2>3. QED
    BY <2>1, <2>2 DEF Ahead, One
<1>5. Due' => Due \/ RunsOf(slot) = {}
  BY DEF Due
<1>6. QED
  BY <1>2, <1>3, <1>4, <1>5, BudgetKept

\* A new process, which the manager has, or which is not scheduled.
LEMMA SpawnBudget ==
    ASSUME SchedulerInv, RetryInv, NEW p \in Runners, NEW kind \in {"seek", "linkedin"},
           NEW trigger \in {"manual", "scheduled"}, Spawn(p, kind, trigger),
           UNCHANGED <<slot, runs, lock>>, seen'.slot = seen.slot,
           \/ managed' = p /\ ~Busy
           \/ managed' = managed /\ trigger = "manual",
           \/ tick' = tick /\ (trigger = "manual" \/ kind = "linkedin")
           \/ tick' = IdleTick /\ tick.step = "linkedin" /\ kind = "linkedin"
           \/ tick' = IdleTick /\ tick.step = "seek"
    PROVE  RetryInv'
<1> DEFINE m == [NoProc EXCEPT !.kind = kind, !.step = "started",
                               !.trigger = IF kind = "seek" THEN trigger ELSE "none"]
<1>1. /\ m.step = "started" /\ m.trigger \in {trigger, "none"}
      /\ m.trigger = "scheduled" => kind = "seek" /\ trigger = "scheduled"
  BY DEF NoProc
<1>2. proc[p].step = "none" /\ proc' = [proc EXCEPT ![p] = m]
  BY DEF Spawn
<1> HIDE DEF m
<1>3. /\ proc \in [Runners -> Procs] /\ proc'[p] = m
      /\ \A q \in Runners : q # p => proc'[q] = proc[q]
      /\ \A q \in Runners : q # None
  BY <1>2, Types DEF TypeOK
<1>4. lock # p
  BY <1>2, Types DEF RecordsOwned
<1>5. SameRecords
  BY DEF SameRecords
<1>6. ~Busy => \A q \in Runners : proc[q].trigger # "scheduled"
  BY <1>3 DEF Busy, Manages, RetryInv, ScheduledIsManaged
<1>7. ScheduledIsManaged'
  <2> SUFFICES ASSUME NEW q \in Runners, proc'[q].trigger = "scheduled"
               PROVE  managed' = q /\ proc'[q].step # "none"
    BY DEF ScheduledIsManaged
  <2>1. CASE q = p
    BY <1>1, <1>3, <2>1
  <2>2. CASE q # p
    BY <1>3, <1>6, <2>2 DEF RetryInv, ScheduledIsManaged
  <2>3. QED
    BY <2>1, <2>2
<1>8. ManualHoldsOff'
  <2> SUFFICES ASSUME NEW q \in Runners, lock' = q, proc'[q].trigger = "manual"
               PROVE  proc'[q].from <= slot /\ \A k \in Scheduled' : runs'[k].slot <= proc'[q].from
    BY DEF ManualHoldsOff
  <2>1. \A k \in Scheduled' : k \in Scheduled /\ runs'[k].slot = runs[k].slot
    BY <1>5, SameRuns
  <2>2. lock = q /\ proc'[q] = proc[q]
    BY <1>3, <1>4
  <2>3. QED
    BY <2>1, <2>2 DEF RetryInv, ManualHoldsOff
<1>9. Ahead' <= Ahead
  <2>1. CASE m.trigger # "scheduled"
    <3>1. Unopened' => Unopened
      <4> SUFFICES ASSUME NEW q \in Runners, proc'[q].trigger = "scheduled",
                          proc'[q].step \in {"started", "locked"}
                   PROVE  proc[q].trigger = "scheduled" /\ proc[q].step \in {"started", "locked"}
        BY DEF Unopened
      <4>1. QED
        BY <1>3, <2>1
    <3>2. Decided' => Decided
      BY DEF Decided, IdleTick
    <3>3. QED
      BY <3>1, <3>2 DEF Ahead, One
  <2>2. CASE m.trigger = "scheduled"
    <3>1. Decided /\ ~Decided' /\ ~Busy
      BY <1>1, <2>2 DEF Decided, IdleTick
    <3>2. ~Unopened
      BY <1>6, <3>1 DEF Unopened
    <3>3. QED
      BY <3>1, <3>2 DEF Ahead, One
  <2>3. QED
    BY <2>1, <2>2
<1>10. Due' => Due
  BY DEF Due, IdleTick
<1>11. QED
  BY <1>5, <1>7, <1>8, <1>9, <1>10, BudgetKept

-----------------------------------------------------------------------------
(* The actions and the bound.                                              *)

\* Steps that leave the records and the runners alone.
LEMMA IdleBudget ==
    ASSUME SchedulerInv, RetryInv, UNCHANGED <<slot, proc, lock, managed>>, SameRecords,
           Decided' => Decided, Due' => Due
    PROVE  RetryInv'
<1>1. ScheduledIsManaged'
  BY DEF ScheduledIsManaged, RetryInv
<1>2. ManualHoldsOff'
  BY SameRuns DEF ManualHoldsOff, RetryInv
<1>3. Ahead' <= Ahead
  <2>1. Unopened' <=> Unopened
    BY DEF Unopened
  <2>2. QED
    BY <2>1 DEF Ahead, One
<1>4. QED
  BY <1>1, <1>2, <1>3, BudgetKept

\* A decision of the tick is one more run to come: that of a slot still due, or a
\* retry, which has one record at most before it.
LEMMA DecideBudget == ASSUME SchedulerInv, RetryInv, TickDecide PROVE RetryInv'
<1>1. /\ UNCHANGED <<slot, proc, lock, managed, runs, seen>> /\ tick.step = "idle"
      /\ SameRecords
  BY DEF TickDecide, SameRecords
<1>2. CASE LinkedInDue
  <2>1. Due' => Due
    BY <1>1, <1>2 DEF Due, TickDecide
  <2>2. Decided' => Decided
    BY <1>1, <1>2 DEF Decided, TickDecide
  <2>3. QED
    BY <1>1, <2>1, <2>2, IdleBudget
<1>3. CASE ~LinkedInDue
  <2>1. tick' = [step |-> "mark", slot |-> slot] /\ (NewSlot \/ MayRetry)
    BY <1>3 DEF TickDecide
  <2>2. ~Due' /\ Decided' /\ ~Decided /\ (Unopened' <=> Unopened)
    BY <1>1, <2>1 DEF Due, Decided, Unopened
  <2>3. Ahead' = Ahead + 1 /\ Ahead = One(Unopened)
    BY <2>2 DEF Ahead, One
  <2>4. /\ Cardinality(RunsOf(slot)) \in Nat /\ One(Unopened) \in {0, 1}
        /\ Due => Cardinality(RunsOf(slot)) + Ahead <= 2
        /\ \A s \in 1..MaxSlot : Cardinality(RunsOf(s)) <= 3
    BY RunsFinite, AheadIs DEF RetryInv, RetryBudget
  <2>5. Cardinality(RunsOf(slot)) + Ahead <= 2
    <3>1. CASE NewSlot
      BY <1>1, <2>4, <3>1 DEF NewSlot, Due
    <3>2. CASE MayRetry
      <4>1. Cardinality(RunsOf(slot)) <= 1
        BY <3>2, FewAttempts DEF MayRetry, RetryInv
      <4>2. QED
        BY <2>3, <2>4, <4>1
    <3>3. QED
      BY <2>1, <3>1, <3>2
  <2>6. /\ RunsOf(slot)' = RunsOf(slot)
        /\ (\A s \in 1..MaxSlot : Cardinality(RunsOf(s)) <= 3)'
    BY <1>1, <2>4 DEF RunsOf, Scheduled
  <2>7. RetryBudget'
    <3>1. Ahead \in {0, 1}
      BY <2>3, <2>4
    <3>2. Cardinality(RunsOf(slot)) + Ahead' <= 3
      BY <2>3, <2>4, <2>5, <3>1
    <3>3. QED
      BY <2>2, <2>6, <3>2 DEF RetryBudget
  <2>8. RecordsInOrder' /\ ScheduledIsManaged' /\ ManualHoldsOff'
    BY <1>1 DEF RetryInv, RecordsInOrder, ScheduledIsManaged, ManualHoldsOff, Scheduled
  <2>9. QED
    BY <2>7, <2>8 DEF RetryInv
<1>4. QED
  BY <1>2, <1>3

LEMMA MarkBudget == ASSUME SchedulerInv, RetryInv, TickMark PROVE RetryInv'
<1>1. /\ UNCHANGED <<slot, proc, lock, managed>> /\ SameRecords
      /\ (Decided' => Decided) /\ (Due' => Due)
  BY DEF TickMark, SameRecords, Decided, Due
<1>2. QED
  BY <1>1, IdleBudget

LEMMA StartBudget ==
    ASSUME SchedulerInv, RetryInv,
           \/ TickStartLinkedIn \/ TickStartSeek
           \/ \E kind \in {"seek", "linkedin"} : ManualStart(kind) \/ ShellStart(kind)
    PROVE  RetryInv'
<1>1. /\ UNCHANGED <<slot, runs, lock>> /\ SameRecords
      /\ seen'.slot = seen.slot
  <2>1. seen \in Marks
    BY Types DEF TypeOK
  <2>2. seen' \in {seen, [seen EXCEPT !.failed = FALSE]}
    BY DEF TickStartLinkedIn, TickStartSeek, ManualStart, ShellStart
  <2>3. seen'.slot = seen.slot
    BY <2>1, <2>2 DEF Marks
  <2>4. QED
    BY <2>3 DEF TickStartLinkedIn, TickStartSeek, ManualStart, ShellStart, SameRecords
<1>2. CASE UNCHANGED <<managed, proc>> /\ (TickStartLinkedIn \/ TickStartSeek)
  <2>1. tick' = IdleTick /\ tick.step \in {"linkedin", "seek"}
    BY <1>2 DEF TickStartLinkedIn, TickStartSeek
  <2>2. (Decided' => Decided) /\ (Due' => Due)
    BY <1>1, <2>1 DEF IdleTick, Decided, Due
  <2>3. QED
    BY <1>1, <1>2, <2>2, IdleBudget
<1>3. CASE TickStartLinkedIn /\ ~Busy
  <2>1. PICK p \in Runners : Spawn(p, "linkedin", "scheduled") /\ managed' = p
    BY <1>3 DEF TickStartLinkedIn
  <2>2. tick' = IdleTick /\ tick.step = "linkedin"
    BY <1>3 DEF TickStartLinkedIn
  <2>3. QED
    BY <1>1, <1>3, <2>1, <2>2, SpawnBudget
<1>4. CASE TickStartSeek /\ ~Busy
  <2>1. PICK p \in Runners : Spawn(p, "seek", "scheduled") /\ managed' = p
    BY <1>4 DEF TickStartSeek
  <2>2. tick' = IdleTick /\ tick.step = "seek"
    BY <1>4 DEF TickStartSeek
  <2>3. QED
    BY <1>1, <1>4, <2>1, <2>2, SpawnBudget
<1>5. ASSUME NEW kind \in {"seek", "linkedin"}, ManualStart(kind) \/ ShellStart(kind)
      PROVE  RetryInv'
  <2>1. PICK p \in Runners : /\ Spawn(p, kind, "manual") /\ tick' = tick
                             /\ (managed' = p /\ ~Busy) \/ managed' = managed
    BY <1>5 DEF ManualStart, ShellStart
  <2>2. QED
    BY <1>1, <2>1, SpawnBudget
<1>6. QED
  BY <1>2, <1>3, <1>4, <1>5 DEF TickStartLinkedIn, TickStartSeek

\* Nobody's process.
LEMMA ExitBudget ==
    ASSUME SchedulerInv, RetryInv, NEW p \in Runners, Exit(p),
           UNCHANGED <<slot, runs, tick, managed>>,
           seen'.slot \in {seen.slot, slot} \/ RunsOf(slot) = {}
    PROVE  RetryInv'
<1>1. /\ proc' = [proc EXCEPT ![p] = NoProc] /\ NoProc.trigger = "none" /\ lock' \in {lock, p, None}
      /\ SameRecords
  BY DEF Exit, NoProc, SameRecords
<1> HIDE DEF NoProc
<1>2. NoProc.trigger # "scheduled" /\ NoProc.trigger # "manual"
  BY <1>1
<1>3. QED
  BY <1>1, <1>2, RunnerBudget

LEMMA EndingBudget ==
    ASSUME SchedulerInv, RetryInv, NEW p \in Runners, CloseRun(p) \/ EndLinkedIn(p) \/ Die(p)
    PROVE  RetryInv'
<1>1. Exit(p) /\ UNCHANGED <<slot, runs, tick, managed>>
  BY DEF CloseRun, EndLinkedIn, Die
<1>2. seen'.slot \in {seen.slot, slot} \/ RunsOf(slot) = {}
  <2>1. seen \in Marks /\ slot \in Nat /\ proc[p].from \in Nat
    BY Types DEF TypeOK, Procs
  <2>2. CASE seen' \in {seen, [seen EXCEPT !.failed = Failed(p)]}
    <3>1. seen'.slot = seen.slot
      BY <2>1, <2>2 DEF Marks
    <3>2. QED
      BY <3>1
  <2>3. CASE /\ proc[p].trigger = "manual" /\ ~Failed(p) /\ Overlapped(p) # 0
             /\ seen' = [slot |-> Overlapped(p), failed |-> FALSE]
    <3>1. lock = p /\ seen'.slot = Overlapped(p)
      BY <2>3 DEF Failed
    <3>2. CASE Overlapped(p) = slot
      BY <3>1, <3>2
    <3>3. CASE Overlapped(p) # slot
      <4>1. seen'.slot = proc[p].from /\ Overlapped(p) = proc[p].from
        BY <2>3, <3>1, <3>3 DEF Overlapped
      <4>2. CASE proc[p].from < slot
        <5>1. \A k \in Scheduled : runs[k].slot <= proc[p].from /\ runs[k].slot \in Nat
          BY <2>3, <3>1, RunsFinite DEF RetryInv, ManualHoldsOff
        <5>2. \A k \in Scheduled : runs[k].slot # slot
          BY <2>1, <4>2, <5>1
        <5>3. QED
          BY <5>2 DEF RunsOf
      <4>3. proc[p].from <= slot /\ proc[p].from # slot
        BY <2>3, <3>1, <3>3, <4>1 DEF RetryInv, ManualHoldsOff
      <4>4. QED
        BY <2>1, <4>2, <4>3
    <3>4. QED
      BY <3>2, <3>3
  <2>4. QED
    BY <2>2, <2>3 DEF CloseRun, EndLinkedIn, Die
<1>3. QED
  BY <1>1, <1>2, ExitBudget

LEMMA TakeLockBudget ==
    ASSUME SchedulerInv, RetryInv, NEW p \in Runners, TakeLock(p) PROVE RetryInv'
<1>1. UNCHANGED <<slot, runs, tick, managed, seen>> /\ proc[p].step = "started" /\ SameRecords
  BY DEF TakeLock, SameRecords
<1>2. CASE Exit(p)
  BY <1>1, <1>2, ExitBudget
<1>3. CASE ~Exit(p)
  <2> DEFINE from == IF proc[p].trigger = "manual" THEN slot ELSE 0
             m == [proc[p] EXCEPT !.step = "locked", !.from = from,
                                  !.within = proc[p].trigger = "manual" /\ open]
  <2>1. lock' = p /\ proc' = [proc EXCEPT ![p] = m]
    BY <1>3, Types DEF TakeLock, TypeOK
  <2>2. /\ m.step = "locked" /\ m.trigger = proc[p].trigger
        /\ m.trigger = "manual" => m.from = slot
    BY Types DEF Procs
  <2> HIDE DEF m
  <2>3. QED
    BY <1>1, <2>1, <2>2, RunnerBudget
<1>4. QED
  BY <1>2, <1>3

\* A step of a process on its own record or cycle.
LEMMA StepBudget ==
    ASSUME SchedulerInv, RetryInv, NEW p \in Runners, NEW s, Step(p, s),
           s \in {"opened", "running", "failing", "amending", "closing"},
           UNCHANGED <<slot, tick, managed>>, SameRecords, lock' \in {lock, None},
           seen'.slot = seen.slot
    PROVE  RetryInv'
<1> DEFINE m == [proc[p] EXCEPT !.step = s]
<1>1. proc' = [proc EXCEPT ![p] = m]
  BY Types DEF Step, TypeOK
<1>2. m.step = s /\ m.trigger = proc[p].trigger /\ m.from = proc[p].from
  BY Types DEF Procs
<1>3. p # None
  BY Types
<1> HIDE DEF m
<1>4. QED
  BY <1>1, <1>2, <1>3, RunnerBudget

LEMMA RunBudget ==
    ASSUME SchedulerInv, RetryInv, NEW p \in Runners,
           \/ Raise(p) \/ MarkRunning(p) \/ FinishRun(p) \/ StartCycle(p) \/ FinishCycle(p)
    PROVE  RetryInv'
<1>1. PICK s \in {"opened", "running", "failing", "amending", "closing"} : Step(p, s)
  BY DEF Raise, MarkRunning, FinishRun, StartCycle, FinishCycle
<1>2. UNCHANGED <<slot, tick, managed>> /\ lock' \in {lock, None}
  BY DEF Raise, MarkRunning, FinishRun, StartCycle, FinishCycle
<1>3. seen'.slot = seen.slot
  <2>1. seen \in Marks
    BY Types DEF TypeOK
  <2>2. seen' \in {seen, [seen EXCEPT !.failed = FALSE]}
    BY DEF Raise, MarkRunning, FinishRun, StartCycle, FinishCycle
  <2>3. QED
    BY <2>1, <2>2 DEF Marks
<1>4. SameRecords
  <2>1. CASE UNCHANGED runs
    BY <2>1 DEF SameRecords
  <2>2. CASE FinishRun(p)
    <3>1. PICK st \in {"ENDED", "FAILED"} : runs' = [runs EXCEPT ![proc[p].row].status = st]
      BY <2>2 DEF FinishRun
    <3>2. \A k \in DOMAIN runs : runs[k] \in Records
      BY Types
    <3>3. QED
      BY <3>1, <3>2, Types DEF SameRecords, Records
  <2>3. QED
    BY <2>1, <2>2 DEF Raise, MarkRunning, StartCycle, FinishCycle
<1>5. QED
  BY <1>1, <1>2, <1>3, <1>4, StepBudget

LEMMA RecoveredSame ==
    ASSUME SchedulerInv
    PROVE  /\ DOMAIN Recovered = DOMAIN runs
           /\ \A k \in DOMAIN runs : /\ Recovered[k].trigger = runs[k].trigger
                                     /\ Recovered[k].slot = runs[k].slot
<1>1. \A k \in DOMAIN runs : runs[k] \in Records
  BY Types
<1>2. DOMAIN Recovered = DOMAIN runs
  BY DEF Recovered
<1>3. ASSUME NEW k \in DOMAIN runs
      PROVE  Recovered[k].trigger = runs[k].trigger /\ Recovered[k].slot = runs[k].slot
  <2>1. Recovered[k] \in {runs[k], [runs[k] EXCEPT !.status = "ENDED"]}
    BY DEF Recovered
  <2> HIDE DEF Recovered
  <2>2. QED
    BY <1>1, <2>1 DEF Records
<1>4. QED
  BY <1>2, <1>3

LEMMA PollBudget == ASSUME SchedulerInv, RetryInv, StatusPoll PROVE RetryInv'
<1>1. /\ UNCHANGED <<slot, proc, lock, managed>> /\ runs' = Recovered
      /\ (Decided' => Decided) /\ (Due' => Due)
  BY DEF StatusPoll, Decided, Due
<1>2. SameRecords
  BY <1>1, RecoveredSame DEF SameRecords
<1>3. QED
  BY <1>1, <1>2, IdleBudget

\* The record takes the place of its process; a manual run's counts for no slot.
LEMMA OpenBudget == ASSUME SchedulerInv, RetryInv, NEW p \in Runners, OpenRun(p) PROVE RetryInv'
<1> DEFINE n == Len(runs) + 1
           rec == [trigger |-> proc[p].trigger, status |-> "RUNNING",
                   slot |-> IF proc[p].trigger = "scheduled" THEN slot ELSE 0]
           m == [proc[p] EXCEPT !.step = "opened", !.row = n]
<1>1. /\ UNCHANGED <<slot, open, seen, cycle, tick, managed, lock>>
      /\ runs' = Append(Recovered, rec) /\ proc[p].kind = "seek" /\ proc[p].step = "locked"
      /\ proc' = [proc EXCEPT ![p] = m] /\ lock = p
  BY Types DEF OpenRun, TypeOK
<1>2. /\ m.step = "opened" /\ m.trigger = proc[p].trigger /\ m.from = proc[p].from
      /\ proc[p].trigger \in {"manual", "scheduled"}
  BY <1>1, Types DEF Procs, RecordsOwned
<1>3. /\ rec.trigger = proc[p].trigger
      /\ rec.trigger = "scheduled" => rec.slot = slot
  OBVIOUS
<1>4. /\ n \in Nat /\ Len(runs) \in Nat /\ n \notin 1..Len(runs)
      /\ DOMAIN runs = 1..Len(runs)
  BY Types
<1> HIDE DEF rec, m
<1>5. /\ DOMAIN runs' = 1..n /\ runs'[n] = rec
      /\ \A k \in 1..Len(runs) : runs'[k] = Recovered[k]
  <2> HIDE DEF Recovered
  <2>1. QED
    BY <1>1, <1>4, RecoveredRecords
<1> HIDE DEF n
<1>6. \A k \in 1..Len(runs) : /\ k \in 1..n /\ runs'[k].slot = runs[k].slot
                              /\ runs'[k].trigger = runs[k].trigger
  BY <1>4, <1>5, RecoveredSame DEF n
<1>7. 1..n = 1..Len(runs) \cup {n}
  BY <1>4 DEF n
<1>8. /\ proc \in [Runners -> Procs] /\ proc'[p] = m
      /\ \A q \in Runners : q # p => proc'[q] = proc[q]
  BY <1>1, Types DEF TypeOK
<1>9. ScheduledIsManaged'
  <2>1. ASSUME NEW q \in Runners, proc'[q].trigger = "scheduled"
        PROVE  managed' = q /\ proc'[q].step # "none"
    BY <1>1, <1>2, <1>8, <2>1 DEF RetryInv, ScheduledIsManaged
  <2>2. QED
    BY <2>1 DEF ScheduledIsManaged
<1>10. CASE proc[p].trigger = "manual"
  <2>1. Scheduled' = Scheduled /\ \A k \in Scheduled : runs'[k].slot = runs[k].slot
    BY <1>3, <1>4, <1>5, <1>6, <1>7, <1>10 DEF Scheduled
  <2>2. \A s : {k \in Scheduled' : runs'[k].slot = s} = RunsOf(s)
    BY <2>1 DEF RunsOf
  <2>3. Ahead' = Ahead /\ (Due' <=> Due)
    <3>1. (Decided' <=> Decided) /\ (Due' <=> Due)
      BY <1>1 DEF Decided, Due
    <3>2. Unopened' <=> Unopened
      BY <1>2, <1>8, <1>10 DEF Unopened
    <3>3. QED
      BY <3>1, <3>2 DEF Ahead, One
  <2>4. RunsOf(slot)' = RunsOf(slot)
    BY <1>1, <2>2 DEF RunsOf
  <2>5. (\A s \in 1..MaxSlot : Cardinality(RunsOf(s)) <= 3)'
    BY <2>2 DEF RunsOf, RetryInv, RetryBudget
  <2>6. RetryBudget'
    BY <2>3, <2>4, <2>5 DEF RetryInv, RetryBudget
  <2>7. RecordsInOrder'
    BY <1>1, <2>1 DEF RetryInv, RecordsInOrder
  <2>8. ManualHoldsOff'
    <3>1. ASSUME NEW q \in Runners, lock' = q, proc'[q].trigger = "manual"
          PROVE  /\ proc'[q].from <= slot' /\ proc[q].trigger = "manual" /\ lock = q
                 /\ proc'[q].from = proc[q].from
      BY <1>1, <1>2, <1>8, <3>1 DEF RetryInv, ManualHoldsOff
    <3>2. QED
      BY <2>1, <3>1 DEF RetryInv, ManualHoldsOff
  <2>9. QED
    BY <1>9, <2>6, <2>7, <2>8 DEF RetryInv
<1>11. CASE proc[p].trigger = "scheduled"
  <2>1. Scheduled' = Scheduled \cup {n} /\ n \notin Scheduled
    BY <1>3, <1>4, <1>5, <1>6, <1>7, <1>11 DEF Scheduled
  <2>2. /\ \A k \in Scheduled : runs'[k].slot = runs[k].slot /\ k < n /\ k \in Nat
        /\ runs'[n].slot = slot
    <3>1. Scheduled \subseteq 1..Len(runs)
      BY RunsFinite
    <3>2. \A k \in 1..Len(runs) : k < n /\ k \in Nat
      BY <1>4 DEF n
    <3>3. QED
      BY <1>3, <1>5, <1>6, <1>11, <3>1, <3>2
  <2>3. \A s : {k \in Scheduled' : runs'[k].slot = s} =
               IF s = slot THEN RunsOf(s) \cup {n} ELSE RunsOf(s)
    BY <2>1, <2>2 DEF RunsOf
  <2>4. /\ IsFiniteSet(RunsOf(slot)) /\ Cardinality(RunsOf(slot)) \in Nat /\ n \notin RunsOf(slot)
    BY RunsFinite, <2>1 DEF RunsOf
  <2>5. Cardinality(RunsOf(slot)') = Cardinality(RunsOf(slot)) + 1
    <3>1. RunsOf(slot)' = RunsOf(slot) \cup {n}
      BY <1>1, <2>3 DEF RunsOf
    <3>2. QED
      BY <2>4, <3>1, FS_AddElement
  <2>6. Unopened /\ ~Unopened' /\ (Decided' <=> Decided) /\ (Due' <=> Due)
    <3>1. \A q \in Runners : proc[q].trigger = "scheduled" => q = p
      BY <1>11 DEF RetryInv, ScheduledIsManaged
    <3>2. ~Unopened'
      BY <1>2, <1>8, <3>1 DEF Unopened
    <3>3. QED
      BY <1>1, <1>11, <3>2 DEF Unopened, Decided, Due
  <2>7. Ahead = Ahead' + 1 /\ Ahead' \in {0, 1}
    BY <2>6 DEF Ahead, One
  <2>8. /\ Cardinality(RunsOf(slot)) + Ahead <= 3 /\ (Due => Cardinality(RunsOf(slot)) + Ahead <= 2)
        /\ \A s \in 1..MaxSlot : Cardinality(RunsOf(s)) <= 3
    BY DEF RetryInv, RetryBudget
  <2>9. /\ Cardinality(RunsOf(slot)') + Ahead' <= 3 /\ (Due' => Cardinality(RunsOf(slot)') + Ahead' <= 2)
        /\ Cardinality(RunsOf(slot)') <= 3
    BY <2>4, <2>5, <2>6, <2>7, <2>8
  <2>10. (\A s \in 1..MaxSlot : Cardinality(RunsOf(s)) <= 3)'
    <3>1. RunsOf(slot)' = RunsOf(slot) \cup {n}
      BY <1>1, <2>3 DEF RunsOf
    <3>2. \A s \in 1..MaxSlot : Cardinality({k \in Scheduled' : runs'[k].slot = s}) <= 3
      BY <2>3, <2>8, <2>9, <3>1
    <3>3. QED
      BY <3>2 DEF RunsOf
  <2>11. RetryBudget'
    BY <2>9, <2>10 DEF RetryBudget
  <2>12. RecordsInOrder'
    <3>1. \A k \in Scheduled' : runs'[k].slot <= slot
      BY <2>1, <2>2, RunsFinite DEF RetryInv, RecordsInOrder
    <3>2. ASSUME NEW k \in Scheduled', NEW j \in Scheduled', j < k
          PROVE  runs'[j].slot <= runs'[k].slot
      <4>1. CASE k = n
        BY <2>2, <3>1, <4>1
      <4>2. CASE k # n
        <5>1. k \in Scheduled /\ k < n /\ k \in Nat
          BY <2>1, <2>2, <4>2
        <5>2. j \in Scheduled
          BY <1>4, <2>1, <3>2, <5>1
        <5>3. QED
          BY <2>2, <3>2, <5>1, <5>2 DEF RetryInv, RecordsInOrder
      <4>3. QED
        BY <4>1, <4>2
    <3>3. QED
      BY <1>1, <3>1, <3>2 DEF RecordsInOrder
  <2>13. ManualHoldsOff'
    BY <1>1, <1>2, <1>8, <1>11 DEF ManualHoldsOff
  <2>14. QED
    BY <1>9, <2>11, <2>12, <2>13 DEF RetryInv
<1>12. QED
  BY <1>2, <1>10, <1>11

\* A new slot has no record yet, and two runs at most were decided before it.
LEMMA TimeBudget ==
    ASSUME SchedulerInv, RetryInv, CloseWindow \/ NextSlot \/ NextLinkedInSlot PROVE RetryInv'
<1>1. UNCHANGED <<runs, lock, proc, seen, tick, managed>>
  BY DEF CloseWindow, NextSlot, NextLinkedInSlot
<1>2. CASE slot' = slot
  <2>1. SameRecords /\ (Decided' => Decided) /\ (Due' => Due)
    BY <1>1, <1>2 DEF SameRecords, Decided, Due
  <2>2. QED
    BY <1>1, <1>2, <2>1, IdleBudget
<1>3. CASE NextSlot
  <2>1. slot' = slot + 1 /\ slot \in Nat /\ \A k \in Scheduled : runs[k].slot \in Nat
    BY <1>3, RunsFinite DEF NextSlot
  <2>2. RecordsInOrder' /\ ManualHoldsOff' /\ ScheduledIsManaged'
    <3>1. RecordsInOrder'
      BY <1>1, <2>1 DEF RetryInv, RecordsInOrder, Scheduled
    <3>2. ScheduledIsManaged'
      BY <1>1 DEF RetryInv, ScheduledIsManaged
    <3>3. ManualHoldsOff'
      <4>1. \A q \in Runners : proc[q].from \in Nat
        BY Types DEF Procs
      <4>2. ASSUME NEW q \in Runners, lock = q, proc[q].trigger = "manual"
            PROVE  /\ proc[q].from <= slot + 1
                   /\ \A k \in Scheduled : runs[k].slot <= proc[q].from
        BY <2>1, <4>1, <4>2 DEF RetryInv, ManualHoldsOff
      <4>3. QED
        BY <1>1, <2>1, <4>2 DEF ManualHoldsOff, Scheduled
    <3>4. QED
      BY <3>1, <3>2, <3>3
  <2>3. RunsOf(slot)' = {}
    <3>1. \A k \in Scheduled : runs[k].slot # slot + 1
      BY <2>1 DEF RetryInv, RecordsInOrder
    <3>2. QED
      BY <1>1, <2>1, <3>1 DEF RunsOf, Scheduled
  <2>4. Cardinality(RunsOf(slot)') = 0
    BY <2>3, FS_EmptySet
  <2>5. Ahead' \in {0, 1, 2}
    BY DEF Ahead, One
  <2>6. (\A s \in 1..MaxSlot : Cardinality(RunsOf(s)) <= 3)'
    BY <1>1 DEF RetryInv, RetryBudget, RunsOf, Scheduled
  <2>7. RetryBudget'
    <3>1. \A a \in {0, 1, 2} : 0 + a <= 2 /\ 0 + a <= 3
      OBVIOUS
    <3>2. Cardinality(RunsOf(slot)') + Ahead' <= 2 /\ Cardinality(RunsOf(slot)') + Ahead' <= 3
      BY <2>4, <2>5, <3>1, Zenon
    <3>3. QED
      BY <2>6, <3>2 DEF RetryBudget
  <2>8. QED
    BY <2>2, <2>7 DEF RetryInv
<1>4. QED
  BY <1>2, <1>3 DEF CloseWindow, NextSlot, NextLinkedInSlot

LEMMA RetryInitHolds == Init => RetryInv
<1> SUFFICES ASSUME Init PROVE RetryInv
  OBVIOUS
<1>1. /\ runs = <<>> /\ tick.step = "idle" /\ lock = None
      /\ \A p \in Runners : proc[p].trigger = "none"
  BY DEF Init, NoProc, IdleTick
<1>2. Scheduled = {} /\ \A s : RunsOf(s) = {}
  BY <1>1 DEF Scheduled, RunsOf
<1>3. Ahead = 0
  BY <1>1 DEF Ahead, One, Decided, Unopened
<1>4. \A s : Cardinality(RunsOf(s)) = 0
  BY <1>2, FS_EmptySet
<1>5. RetryBudget
  BY <1>3, <1>4 DEF RetryBudget
<1>6. RecordsInOrder /\ ScheduledIsManaged /\ ManualHoldsOff
  BY <1>1, <1>2 DEF RecordsInOrder, ScheduledIsManaged, ManualHoldsOff
<1>7. QED
  BY <1>5, <1>6 DEF RetryInv

LEMMA RetryStepKeeps == ASSUME SchedulerInv, RetryInv, [Next]_vars PROVE RetryInv'
<1>1. CASE Thread
  BY <1>1, DecideBudget, MarkBudget, StartBudget DEF Thread
<1>2. CASE StatusPoll
  BY <1>2, PollBudget
<1>3. CASE \E kind \in {"seek", "linkedin"} : ManualStart(kind) \/ ShellStart(kind)
  BY <1>3, StartBudget
<1>4. ASSUME NEW p \in Runners,
             \/ TakeLock(p) \/ Raise(p) \/ OpenRun(p) \/ MarkRunning(p)
             \/ FinishRun(p) \/ CloseRun(p) \/ StartCycle(p) \/ FinishCycle(p)
             \/ EndLinkedIn(p) \/ Die(p)
      PROVE  RetryInv'
  BY <1>4, TakeLockBudget, RunBudget, OpenBudget, EndingBudget
<1>5. CASE CloseWindow \/ NextSlot \/ NextLinkedInSlot
  BY <1>5, TimeBudget
<1>6. CASE UNCHANGED vars
  <2>1. UNCHANGED <<slot, proc, lock, managed>> /\ SameRecords
    BY <1>6 DEF vars, SameRecords
  <2>2. (Decided' => Decided) /\ (Due' => Due)
    BY <1>6 DEF vars, Decided, Due
  <2>3. QED
    BY <2>1, <2>2, IdleBudget
<1>7. QED
  BY <1>1, <1>2, <1>3, <1>4, <1>5, <1>6 DEF Next

\* Every SEEK slot gets three scheduled runs at most, whichever processes fail or
\* die and whenever: one taken up as new, one retry, one left over from the slot
\* before.  With processes started by hand as well.
THEOREM RetriesAreBounded == Spec => []SlotRunsBounded
<1>1. RetryInv => SlotRunsBounded
  BY DEF RetryInv, RetryBudget, RunsOf, SlotRunsBounded
<1>2. SchedulerInv /\ RetryInv /\ [Next]_vars => RetryInv'
  BY RetryStepKeeps
<1>3. Spec => []SchedulerInv
  BY SchedulerInvariant
<1>4. QED
  BY RetryInitHolds, <1>1, <1>2, <1>3, PTL DEF Spec

=============================================================================
