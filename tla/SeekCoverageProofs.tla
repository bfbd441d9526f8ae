------------------------- MODULE SeekCoverageProofs -------------------------
(* Theorems about SeekCoverage, for every tree of refinements, every number  *)
(* of states and windows, and any trouble.                                   *)
EXTENDS SeekCoverage, FiniteSetTheorems, SequenceTheorems, TLAPS

\* The row and everything that may ever be recorded below it.
Below(q) ==
    {r \in Rows : \A S \in SUBSET Rows :
                     q \in S /\ (\A p \in S : KidRows(p) \subseteq S) => r \in S}

\* The root of the state a run is at.
Base == <<run.days, States[run.at]>>

\* A row just recorded.
Fresh(r) == status[r] = "PENDING" /\ r \notin counted /\ Children(r) = {}

\* Only a state that is being collected, its root on record, has statements left.
RunInv ==
    /\ run.phase # "idle" => run.days \in Windows /\ run.at # 0
    /\ run.phase = "state" => run.at \in DOMAIN States /\ status[Base] # "none"
    /\ run.phase # "state" => todo = <<>>

\* A statement is about the root, or about a refinement of a partition whose
\* finish waits further down.
Parented(k) ==
    \/ todo[k].row = Base
    \/ \E j \in DOMAIN todo : k < j /\ todo[j].op = "finish" /\ todo[k].row \in KidRows(todo[j].row)

\* No row is on the stack twice: the finishes are a path from the root.
StackInv ==
    /\ \A k \in DOMAIN todo : Parented(k)
    /\ \A j, k \in DOMAIN todo : j # k => todo[j].row # todo[k].row

\* What a waiting statement may rely on.  A partition that waits for its children
\* is not complete, only the head can be a leaf or a split, and while a split is
\* recorded the budget is spent, so that none of its children is worked on.
TaskInv(k) ==
    /\ todo[k].op = "visit" => status[todo[k].row] # "none"
    /\ todo[k].op = "finish" => todo[k].row \in counted /\ ~Done(todo[k].row)
    /\ todo[k].op \in {"collect", "split"} =>
          /\ k = 1 /\ run.spent
          /\ todo[k].row \in counted
          /\ status[todo[k].row] = "INSPECTED" /\ Children(todo[k].row) = {}
    /\ todo[k].op = "ensure" =>
          /\ status[todo[k].row] = "none"
          /\ run.spent
          /\ \A j \in 1..(k - 1) : \/ todo[j].op = "ensure"
                                   \/ j = 1 /\ todo[j].op = "visit" /\ Fresh(todo[j].row)

\* On the list of children, or about to be.
OnList(k) == status[k] # "none" \/ \E j \in DOMAIN todo : todo[j].op = "ensure" /\ todo[j].row = k

\* Children are recorded below counted rows only; a split not torn apart has all
\* refinements on its list or none; whatever is on record, some state has a root.
TreeInv ==
    /\ \A r \in Rows : Children(r) # {} => r \in counted
    /\ \A r \in Rows : status[r] = "INCOMPLETE_OVERSIZE_UNSPLITTABLE" => KidRows(r) = {}
    /\ \A r \in Rows : status[r] # "none" => \E s \in Roots : newest[s] # 0
    /\ \A r \in Rows \ torn : \A k, l \in KidRows(r) : OnList(k) => OnList(l)

\* Every row on record is below a root of its window.
Rooted == \A r \in Rows : status[r] # "none" => \E s \in Roots : r \in Below(<<r[1], s>>)

\* A row of the window of the run that another visit could finish.
Unfinished(r) == r[1] = run.days /\ status[r] # "none" /\ Children(r) = {} /\ ~Settled(r)

\* In a state the pass comes to from position i on.
Ahead(r, i) == \E j \in DOMAIN States : i <= j /\ r \in Below(<<run.days, States[j]>>)

\* While a pass has spent nothing, whatever is unfinished is still ahead: in a
\* later state, or below a row the stack will visit.
PassInv ==
    /\ run.phase = "pass" /\ ~run.progress =>
          \A r \in Rows : Unfinished(r) => Ahead(r, run.at)
    /\ run.phase = "state" /\ ~run.progress /\ ~run.spent =>
          /\ \A r \in Rows : Unfinished(r) =>
                \/ Ahead(r, run.at + 1)
                \/ \E k \in DOMAIN todo : todo[k].op = "visit" /\ r \in Below(todo[k].row)
          /\ \A k \in DOMAIN todo : todo[k].op = "finish" => Children(todo[k].row) # {}

CoverageInv ==
    /\ TypeOK
    /\ RunInv
    /\ StackInv
    /\ \A k \in DOMAIN todo : TaskInv(k)
    /\ TreeInv
    /\ NothingIncompleteBelow
    /\ Rooted
    /\ PassInv
    /\ BlockedMeansNothingToDo
-----------------------------------------------------------------------------
(* The tree.                                                               *)

\* A refinement belongs to one partition and is never a root.
LEMMA KidFacts ==
    ASSUME NEW p \in Rows, NEW k \in KidRows(p)
    PROVE  /\ k \in Rows
           /\ k[1] = p[1]
           /\ k[2] \notin Roots
           /\ \A q \in Rows : k \in KidRows(q) => q = p
<1>1. p[1] \in Windows /\ p[2] \in Nodes /\ p = <<p[1], p[2]>>
  BY DEF Rows
<1>2. k \in Rows /\ k[1] = p[1] /\ k[2] \in ToSet(Kids[p[2]])
  BY DEF KidRows
<1>3. k[2] \notin Roots
  <2>1. Kids[p[2]] \in Seq(Nodes \ Roots)
    BY <1>1, CoverageConstants
  <2>2. QED
    BY <1>2, <2>1 DEF ToSet
<1>4. ASSUME NEW q \in Rows, k \in KidRows(q)
      PROVE  q = p
  <2>1. q[1] \in Windows /\ q[2] \in Nodes /\ q = <<q[1], q[2]>>
    BY DEF Rows
  <2>2. k[1] = q[1] /\ k[2] \in ToSet(Kids[q[2]])
    BY <1>4 DEF KidRows
  <2>3. q[2] = p[2]
    BY <1>1, <1>2, <2>1, <2>2, CoverageConstants
  <2>4. QED
    BY <1>1, <1>2, <2>1, <2>2, <2>3
<1>5. QED
  BY <1>2, <1>3, <1>4

\* The refinements of a row, one for each position on SEEK's list.
LEMMA KidList ==
    ASSUME NEW r \in Rows
    PROVE  /\ Len(Kids[r[2]]) \in Nat
           /\ \A i \in 1..Len(Kids[r[2]]) : <<r[1], Kids[r[2]][i]>> \in KidRows(r)
           /\ \A k \in KidRows(r) : \E i \in 1..Len(Kids[r[2]]) : k = <<r[1], Kids[r[2]][i]>>
           /\ \A i, j \in 1..Len(Kids[r[2]]) : Kids[r[2]][i] = Kids[r[2]][j] => i = j
           /\ IsFiniteSet(KidRows(r))
<1>1. r[1] \in Windows /\ r[2] \in Nodes
  BY DEF Rows
<1>2. Kids[r[2]] \in Seq(Nodes \ Roots) /\ IsInjective(Kids[r[2]])
  BY <1>1, CoverageConstants
<1>3. DOMAIN Kids[r[2]] = 1..Len(Kids[r[2]]) /\ Len(Kids[r[2]]) \in Nat
  BY <1>2
<1>4. \A i \in 1..Len(Kids[r[2]]) : <<r[1], Kids[r[2]][i]>> \in KidRows(r)
  BY <1>1, <1>2, <1>3 DEF KidRows, Rows, ToSet
<1>5. \A k \in KidRows(r) : \E i \in 1..Len(Kids[r[2]]) : k = <<r[1], Kids[r[2]][i]>>
  BY <1>3 DEF KidRows, Rows, ToSet
<1>6. \A i, j \in 1..Len(Kids[r[2]]) : Kids[r[2]][i] = Kids[r[2]][j] => i = j
  BY <1>2, <1>3 DEF IsInjective
<1>7. IsFiniteSet(KidRows(r))
  <2>1. IsFiniteSet(1..Len(Kids[r[2]]))
    <3>1. \A n \in Nat : IsFiniteSet(1..n)
      BY FS_Interval
    <3>2. QED
      BY <1>3, <3>1
  <2> DEFINE n == Len(Kids[r[2]])
             f == [i \in 1..n |-> <<r[1], Kids[r[2]][i]>>]
  <2>2. f \in Surjection(1..n, KidRows(r))
    BY <1>4, <1>5 DEF Surjection
  <2>3. QED
    BY <2>1, <2>2, FS_Surjection
<1>8. QED
  BY <1>3, <1>4, <1>5, <1>6, <1>7

LEMMA BelowSelf ==
    ASSUME NEW q \in Rows
    PROVE  q \in Below(q)
BY DEF Below

LEMMA BelowKid ==
    ASSUME NEW q, NEW p \in Below(q), NEW k \in KidRows(p)
    PROVE  k \in Below(q)
<1>1. k \in Rows
  BY DEF KidRows
<1>2. ASSUME NEW S \in SUBSET Rows, q \in S, \A x \in S : KidRows(x) \subseteq S
      PROVE  k \in S
  BY <1>2 DEF Below
<1>3. QED
  BY <1>1, <1>2 DEF Below

\* What is below a row is the row or below one of its refinements.
LEMMA BelowCases ==
    ASSUME NEW q \in Rows, NEW r \in Below(q), r # q
    PROVE  \E k \in KidRows(q) : r \in Below(k)
<1> DEFINE S == {q} \cup {x \in Rows : \E k \in KidRows(q) : x \in Below(k)}
<1>1. S \in SUBSET Rows /\ q \in S
  OBVIOUS
<1>2. ASSUME NEW p \in S, NEW x \in KidRows(p)
      PROVE  x \in S
  <2>1. x \in Rows
    BY DEF KidRows
  <2>2. CASE p = q
    BY <1>2, <2>1, <2>2, BelowSelf
  <2>3. CASE p # q
    <3>1. PICK k \in KidRows(q) : p \in Below(k)
      BY <2>3
    <3>2. x \in Below(k)
      BY <3>1, <1>2, BelowKid
    <3>3. QED
      BY <3>1, <3>2, <2>1
  <2>4. QED
    BY <2>2, <2>3
<1>3. r \in S
  BY <1>1, <1>2 DEF Below
<1>4. QED
  BY <1>3
-----------------------------------------------------------------------------
(* The rows on record.                                                     *)

\* A row without a record has no counted results and no children.
LEMMA NoRecord ==
    ASSUME TypeOK, TreeInv, NEW r \in Rows, status[r] = "none"
    PROVE  r \notin counted /\ Children(r) = {}
BY DEF TypeOK, TreeInv

\* What is on record below a row without children is the row.
LEMMA RecordedBelow ==
    ASSUME TypeOK, TreeInv, NEW q \in Rows, NEW r \in Below(q), status[r] # "none", r # q
    PROVE  \E k \in Children(q) : r \in Below(k)
<1>1. PICK k \in KidRows(q) : r \in Below(k)
  BY BelowCases
<1>2. k \in Rows
  BY KidFacts
<1>3. SUFFICES ASSUME status[k] = "none" PROVE FALSE
  BY <1>1 DEF Children
<1> DEFINE S == {x \in Rows : status[x] = "none"}
<1>4. \A p \in S : KidRows(p) \subseteq S
  BY NoRecord DEF Children, KidRows
<1>5. r \in S
  BY <1>1, <1>2, <1>3, <1>4 DEF Below
<1>6. QED
  BY <1>5

\* Below a finished partition everything on record is finished.
LEMMA DoneBelow ==
    ASSUME TypeOK, TreeInv, NothingIncompleteBelow, NEW q \in Rows, Done(q),
           NEW r \in Below(q), status[r] # "none"
    PROVE  Done(r)
<1> DEFINE S == {x \in Rows : status[x] = "none" \/ Done(x)}
<1>1. \A p \in S : KidRows(p) \subseteq S
  BY NoRecord DEF Children, KidRows, NothingIncompleteBelow
<1>2. r \in S
  BY <1>1 DEF Below
<1>3. QED
  BY <1>2

\* A step that records no new row changes no list of children.
LEMMA SameRows ==
    ASSUME \A r \in Rows : status'[r] = "none" <=> status[r] = "none"
    PROVE  \A r \in Rows : Children(r)' = Children(r)
BY DEF Children, KidRows
-----------------------------------------------------------------------------
(* The call stack.                                                         *)

LEMMA HeadFacts ==
    ASSUME TypeOK, todo # <<>>
    PROVE  /\ Len(todo) \in Nat /\ 1 \in DOMAIN todo /\ DOMAIN todo = 1..Len(todo)
           /\ todo[1] \in Task /\ Head(todo) = todo[1] /\ Row = todo[1].row /\ Row \in Rows
           /\ Head(todo).op = todo[1].op
           /\ \A k \in DOMAIN todo : todo[k].row \in Rows
<1>1. todo \in Seq(Task)
  BY DEF TypeOK
<1>2. Len(todo) \in Nat /\ DOMAIN todo = 1..Len(todo) /\ 1 \in DOMAIN todo /\ Head(todo) = todo[1]
  BY <1>1
<1>3. \A k \in DOMAIN todo : todo[k] \in Task
  BY <1>1, <1>2
<1>4. \A k \in DOMAIN todo : todo[k].row \in Rows
  BY <1>3 DEF Task
<1>5. QED
  BY <1>2, <1>3, <1>4 DEF Row

\* The statements after a step: those the step calls for, then the rest.
LEMMA ThenShape ==
    ASSUME TypeOK, todo # <<>>, NEW t \in Seq(Task), Then(t)
    PROVE  /\ todo' \in Seq(Task)
           /\ Len(t) \in Nat
           /\ DOMAIN todo' = 1..(Len(t) + Len(todo) - 1)
           /\ \A k \in 1..Len(t) : k \in DOMAIN todo' /\ todo'[k] = t[k]
           /\ \A k \in DOMAIN todo' : k > Len(t) =>
                 /\ k - Len(t) + 1 \in DOMAIN todo
                 /\ k - Len(t) + 1 > 1
                 /\ todo'[k] = todo[k - Len(t) + 1]
           /\ \A m \in DOMAIN todo : m > 1 =>
                 m + Len(t) - 1 \in DOMAIN todo' /\ todo'[m + Len(t) - 1] = todo[m]
<1>1. todo \in Seq(Task) /\ Len(todo) \in Nat /\ Len(todo) > 0 /\ DOMAIN todo = 1..Len(todo)
  BY DEF TypeOK
<1>2. /\ Tail(todo) \in Seq(Task) /\ Len(Tail(todo)) = Len(todo) - 1
      /\ \A i \in 1..(Len(todo) - 1) : Tail(todo)[i] = todo[i + 1]
  BY <1>1
<1>3. Len(t) \in Nat
  OBVIOUS
<1>4. todo' = t \o Tail(todo)
  BY DEF Then
<1>5. todo' \in Seq(Task) /\ Len(todo') = Len(t) + Len(todo) - 1 /\ DOMAIN todo' = 1..Len(todo')
  BY <1>1, <1>2, <1>3, <1>4
<1>6. \A k \in 1..Len(todo') : todo'[k] = IF k <= Len(t) THEN t[k] ELSE Tail(todo)[k - Len(t)]
  BY <1>1, <1>2, <1>3, <1>4, <1>5
<1>7. \A k \in 1..Len(todo') : k > Len(t) => todo'[k] = Tail(todo)[k - Len(t)]
  BY <1>3, <1>5, <1>6
<1>8. \A k \in 1..Len(t) : k \in DOMAIN todo' /\ todo'[k] = t[k]
  BY <1>1, <1>3, <1>5, <1>6
<1>9. ASSUME NEW k \in DOMAIN todo', k > Len(t)
      PROVE  /\ k - Len(t) + 1 \in DOMAIN todo
             /\ k - Len(t) + 1 > 1
             /\ todo'[k] = todo[k - Len(t) + 1]
  <2>1. k - Len(t) \in 1..(Len(todo) - 1)
    BY <1>1, <1>3, <1>5, <1>9
  <2>2. todo'[k] = Tail(todo)[k - Len(t)]
    BY <1>5, <1>9, <1>7
  <2>3. Tail(todo)[k - Len(t)] = todo[(k - Len(t)) + 1]
    BY <1>2, <2>1
  <2>4. k - Len(t) + 1 \in DOMAIN todo /\ k - Len(t) + 1 > 1
    BY <1>1, <1>3, <1>5, <2>1
  <2>5. QED
    BY <2>2, <2>3, <2>4
<1>10. ASSUME NEW m \in DOMAIN todo, m > 1
      PROVE  m + Len(t) - 1 \in DOMAIN todo' /\ todo'[m + Len(t) - 1] = todo[m]
  <2>1. m + Len(t) - 1 \in 1..Len(todo') /\ m + Len(t) - 1 > Len(t)
    BY <1>1, <1>3, <1>5, <1>10
  <2>2. todo'[m + Len(t) - 1] = Tail(todo)[m - 1]
    <3>1. todo'[m + Len(t) - 1] = Tail(todo)[(m + Len(t) - 1) - Len(t)]
      BY <1>7, <2>1
    <3>2. (m + Len(t) - 1) - Len(t) = m - 1
      BY <1>1, <1>3
    <3>3. QED
      BY <3>1, <3>2
  <2>3. m - 1 \in 1..(Len(todo) - 1) /\ (m - 1) + 1 = m
    BY <1>1, <1>10
  <2>4. Tail(todo)[m - 1] = todo[m]
    BY <1>2, <2>3
  <2>5. QED
    BY <1>5, <2>1, <2>2, <2>4
<1>11. QED
  BY <1>1, <1>3, <1>5, <1>8, <1>9, <1>10

\* The root of a state is nobody's refinement.
LEMMA BaseFacts ==
    ASSUME TypeOK, RunInv, todo # <<>>
    PROVE  /\ run.phase = "state" /\ run.at \in DOMAIN States
           /\ Base \in Rows /\ Base[2] \in Roots
<1>1. run.phase = "state" /\ run.at \in DOMAIN States
  BY DEF RunInv
<1>2. run.days \in Windows
  BY <1>1 DEF RunInv
<1>3. States[run.at] \in Nodes /\ States[run.at] \in Roots
  BY <1>1, CoverageConstants DEF Roots, ToSet
<1>4. QED
  BY <1>1, <1>2, <1>3 DEF Base, Rows

\* A step that replaces its statement by statements about its row or, under a
\* finish of its row, about refinements of it keeps the stack in order.
LEMMA ThenKeepsStack ==
    ASSUME TypeOK, RunInv, StackInv, todo # <<>>, NEW t \in Seq(Task), Then(t),
           run'.days = run.days, run'.at = run.at,
           \A i, j \in 1..Len(t) : i # j => t[i].row # t[j].row,
           \A i \in 1..Len(t) :
              \/ t[i].row = Row
              \/ /\ t[i].row \in KidRows(Row)
                 /\ \E j \in 1..Len(t) : i < j /\ t[j].op = "finish" /\ t[j].row = Row
    PROVE  StackInv'
<1> DEFINE n == Len(t)
<1>1. Base' = Base
  BY DEF Base
<1>2. Row = todo[1].row /\ Row \in Rows /\ 1 \in DOMAIN todo /\ DOMAIN todo = 1..Len(todo) /\ Len(todo) \in Nat
  BY HeadFacts
<1>3. \A m \in DOMAIN todo : todo[m].row \in Rows
  BY HeadFacts
<1>4. ASSUME NEW k \in DOMAIN todo'
      PROVE  Parented(k)'
  <2>1. ASSUME NEW m \in DOMAIN todo, m > 1 \/ k <= n, k <= m + n - 1, todo'[k].row = todo[m].row
        PROVE  Parented(k)'
    <3>1. CASE todo[m].row = Base
      BY <1>1, <2>1, <3>1 DEF Parented
    <3>2. CASE todo[m].row # Base
      <4>1. PICK j \in DOMAIN todo : m < j /\ todo[j].op = "finish" /\ todo[m].row \in KidRows(todo[j].row)
        BY <3>2 DEF StackInv, Parented
      <4>2. j > 1
        BY <1>2, <4>1
      <4>3. j + n - 1 \in DOMAIN todo' /\ todo'[j + n - 1] = todo[j]
        BY <4>2, ThenShape
      <4>4. n \in Nat /\ k \in Nat
        BY <1>2, ThenShape
      <4>5. k < j + n - 1
        BY <1>2, <2>1, <4>1, <4>4
      <4>6. QED
        BY <2>1, <4>1, <4>3, <4>5 DEF Parented
    <3>3. QED
      BY <3>1, <3>2
  <2>2. CASE k <= n
    <3>1. n \in Nat /\ k \in 1..n /\ todo'[k] = t[k]
      BY <1>2, <2>2, ThenShape
    <3>2. CASE t[k].row = Row
      BY <1>2, <2>1, <2>2, <3>1, <3>2
    <3>3. CASE t[k].row # Row
      <4>1. PICK j \in 1..n : k < j /\ t[j].op = "finish" /\ t[j].row = Row /\ t[k].row \in KidRows(Row)
        BY <3>1, <3>3
      <4>2. j \in DOMAIN todo' /\ todo'[j] = t[j]
        BY <4>1, ThenShape
      <4>3. QED
        BY <3>1, <4>1, <4>2 DEF Parented
    <3>4. QED
      BY <3>2, <3>3
  <2>3. CASE ~(k <= n)
    <3>1. n \in Nat /\ k \in Nat /\ k > n
      BY <1>2, <2>3, ThenShape
    <3>2. k - n + 1 \in DOMAIN todo /\ k - n + 1 > 1 /\ todo'[k] = todo[k - n + 1]
      BY <3>1, ThenShape
    <3>3. k <= (k - n + 1) + n - 1
      BY <3>1
    <3>4. QED
      BY <2>1, <3>2, <3>3
  <2>4. QED
    BY <2>2, <2>3
<1>5. ASSUME NEW i \in 1..n, NEW m \in DOMAIN todo, m > 1
      PROVE  t[i].row # todo[m].row
  <2>1. todo[m].row # Row
    BY <1>2, <1>5 DEF StackInv
  <2>2. CASE t[i].row = Row
    BY <2>1, <2>2
  <2>3. CASE t[i].row # Row
    <3>1. t[i].row \in KidRows(Row)
      BY <2>3
    <3>2. SUFFICES ASSUME t[i].row = todo[m].row PROVE FALSE
      OBVIOUS
    <3>3. todo[m].row # Base
      BY <1>2, <3>1, <3>2, KidFacts, BaseFacts
    <3>4. PICK j \in DOMAIN todo : m < j /\ todo[j].op = "finish" /\ todo[m].row \in KidRows(todo[j].row)
      BY <3>3 DEF StackInv, Parented
    <3>5. todo[j].row = Row
      BY <1>2, <1>3, <3>1, <3>2, <3>4, KidFacts
    <3>6. j # 1
      BY <1>2, <1>5, <3>4
    <3>7. QED
      BY <1>2, <3>5, <3>6 DEF StackInv
  <2>4. QED
    BY <2>2, <2>3
<1>6. ASSUME NEW j \in DOMAIN todo', NEW k \in DOMAIN todo', j # k
      PROVE  todo'[j].row # todo'[k].row
  <2>1. n \in Nat /\ j \in Nat /\ k \in Nat /\ j >= 1 /\ k >= 1
    BY <1>2, ThenShape
  <2>2. CASE j <= n /\ k <= n
    BY <1>6, <2>1, <2>2, ThenShape
  <2>3. CASE j <= n /\ k > n
    <3>1. j \in 1..n /\ todo'[j] = t[j]
      BY <2>1, <2>3, ThenShape
    <3>2. k - n + 1 \in DOMAIN todo /\ k - n + 1 > 1 /\ todo'[k] = todo[k - n + 1]
      BY <2>3, ThenShape
    <3>3. QED
      BY <1>5, <3>1, <3>2
  <2>4. CASE j > n /\ k <= n
    <3>1. k \in 1..n /\ todo'[k] = t[k]
      BY <2>1, <2>4, ThenShape
    <3>2. j - n + 1 \in DOMAIN todo /\ j - n + 1 > 1 /\ todo'[j] = todo[j - n + 1]
      BY <2>4, ThenShape
    <3>3. QED
      BY <1>5, <3>1, <3>2
  <2>5. CASE j > n /\ k > n
    <3>1. /\ k - n + 1 \in DOMAIN todo /\ todo'[k] = todo[k - n + 1]
          /\ j - n + 1 \in DOMAIN todo /\ todo'[j] = todo[j - n + 1]
      BY <2>5, ThenShape
    <3>2. j - n + 1 # k - n + 1
      BY <1>6, <2>1
    <3>3. QED
      BY <3>1, <3>2 DEF StackInv
  <2>6. QED
    BY <2>1, <2>2, <2>3, <2>4, <2>5
<1>7. QED
  BY <1>4, <1>6 DEF StackInv

\* The statements of the callers wait undisturbed.
LEMMA CallersWait ==
    ASSUME TypeOK, StackInv, \A k \in DOMAIN todo : TaskInv(k), todo # <<>>,
           NEW t \in Seq(Task), Then(t),
           run.spent => run'.spent, counted \subseteq counted',
           \A r \in Rows : r # Row => status'[r] = status[r],
           \/ \A i \in 1..Len(t) : t[i].op = "ensure"
           \/ Len(t) = 1 /\ t[1].op = "visit" /\ Fresh(t[1].row)'
           \/ \A m \in DOMAIN todo : todo[m].op # "ensure"
    PROVE  \A k \in DOMAIN todo' : k > Len(t) => TaskInv(k)'
<1> DEFINE n == Len(t)
<1>1. /\ Row = todo[1].row /\ Row \in Rows /\ 1 \in DOMAIN todo /\ DOMAIN todo = 1..Len(todo)
      /\ Len(todo) \in Nat /\ \A m \in DOMAIN todo : todo[m].row \in Rows
  BY HeadFacts
<1> SUFFICES ASSUME NEW k \in DOMAIN todo', k > n PROVE TaskInv(k)'
  OBVIOUS
<1>2. n \in Nat /\ k \in Nat /\ DOMAIN todo' = 1..(n + Len(todo) - 1)
  <2>1. n \in Nat /\ DOMAIN todo' = 1..(n + Len(todo) - 1)
    BY ThenShape
  <2>2. QED
    BY <1>1, <2>1
<1>3. PICK m \in DOMAIN todo : m = k - n + 1 /\ m > 1 /\ todo'[k] = todo[m]
  BY ThenShape
<1>4. todo[m].row \in Rows /\ todo[m].row # Row /\ status'[todo[m].row] = status[todo[m].row]
  BY <1>1, <1>3 DEF StackInv
<1>5. TaskInv(m)
  OBVIOUS
<1>6. ~(todo[m].op \in {"collect", "split"})
  BY <1>1, <1>3, <1>5 DEF TaskInv
<1>7. ASSUME todo[m].op = "ensure", NEW j \in 1..(k - 1)
      PROVE  \/ todo'[j].op = "ensure"
             \/ j = 1 /\ todo'[j].op = "visit" /\ Fresh(todo[j].row)'
  <2>1. CASE j <= n
    <3>1. j \in 1..n /\ todo'[j] = t[j]
      BY <1>2, <2>1, ThenShape
    <3>2. CASE \A i \in 1..n : t[i].op = "ensure"
      BY <3>1, <3>2
    <3>3. CASE n = 1 /\ t[1].op = "visit" /\ Fresh(t[1].row)'
      <4>1. j = 1
        BY <3>1, <3>3
      <4>2. QED
        BY <3>1, <3>3, <4>1 DEF Fresh, Children, KidRows
    <3>4. QED
      BY <1>7, <3>2, <3>3
  <2>2. CASE j > n
    <3>1. j \in DOMAIN todo'
      BY <1>2, <1>7
    <3>2. j - n + 1 \in DOMAIN todo /\ j - n + 1 > 1 /\ todo'[j] = todo[j - n + 1]
      BY <2>2, <3>1, ThenShape
    <3>3. j - n + 1 \in 1..(m - 1) /\ j - n + 1 # 1
      BY <1>2, <1>3, <2>2, <3>2
    <3>4. todo[j - n + 1].op = "ensure"
      BY <1>5, <1>7, <3>3 DEF TaskInv
    <3>5. QED
      BY <3>2, <3>4
  <2>3. QED
    BY <1>2, <2>1, <2>2
<1>8. QED
  BY <1>3, <1>4, <1>5, <1>6, <1>7 DEF TaskInv, Done

\* What a step of the call stack leaves in order, whatever it does.
LEMMA StackStep ==
    ASSUME TypeOK, RunInv, StackInv, \A k \in DOMAIN todo : TaskInv(k), todo # <<>>,
           NEW t \in Seq(Task), Then(t),
           run'.phase = run.phase, run'.days = run.days, run'.at = run.at,
           run.spent => run'.spent, counted \subseteq counted',
           \A r \in Rows : r # Row => status'[r] = status[r],
           status'[Row] # "none",
           \A i, j \in 1..Len(t) : i # j => t[i].row # t[j].row,
           \A i \in 1..Len(t) :
              \/ t[i].row = Row
              \/ /\ t[i].row \in KidRows(Row)
                 /\ \E j \in 1..Len(t) : i < j /\ t[j].op = "finish" /\ t[j].row = Row,
           \/ \A i \in 1..Len(t) : t[i].op = "ensure"
           \/ Len(t) = 1 /\ t[1].op = "visit" /\ Fresh(t[1].row)'
           \/ \A m \in DOMAIN todo : todo[m].op # "ensure",
           \A k \in 1..Len(t) : TaskInv(k)'
    PROVE  RunInv' /\ StackInv' /\ \A k \in DOMAIN todo' : TaskInv(k)'
<1>1. StackInv'
  BY ThenKeepsStack
<1>2. \A k \in DOMAIN todo' : k > Len(t) => TaskInv(k)'
  BY CallersWait
<1>3. \A k \in DOMAIN todo' : k \in 1..Len(t) \/ k > Len(t)
  <2>1. Len(t) \in Nat /\ Len(todo) \in Nat /\ DOMAIN todo' = 1..(Len(t) + Len(todo) - 1)
    BY ThenShape, HeadFacts
  <2>2. QED
    BY <2>1
<1>4. run.phase = "state" /\ Base \in Rows
  BY BaseFacts
<1>5. Base' = Base
  BY DEF Base
<1>6. status'[Base] # "none"
  BY <1>4 DEF RunInv
<1>7. RunInv'
  BY <1>4, <1>5, <1>6 DEF RunInv
<1>8. QED
  BY <1>1, <1>2, <1>3, <1>7

\* A step that records no row and neither starts nor ends the recording of the
\* refinements of one.
LEMMA ListKept ==
    ASSUME TypeOK, todo # <<>>, NEW t \in Seq(Task), Then(t),
           \A r \in Rows : status'[r] = "none" <=> status[r] = "none",
           todo[1].op # "ensure", \A i \in 1..Len(t) : t[i].op # "ensure"
    PROVE  \A k \in Rows : OnList(k)' <=> OnList(k)
<1>1. Len(t) \in Nat /\ Len(todo) \in Nat /\ DOMAIN todo = 1..Len(todo)
  BY ThenShape, HeadFacts
<1> SUFFICES ASSUME NEW k \in Rows PROVE OnList(k)' <=> OnList(k)
  OBVIOUS
<1>2. ASSUME NEW j \in DOMAIN todo', todo'[j].op = "ensure", todo'[j].row = k
      PROVE  OnList(k)
  <2>1. DOMAIN todo' = 1..(Len(t) + Len(todo) - 1)
    BY ThenShape
  <2>2. ~(j \in 1..Len(t))
    BY <1>2, ThenShape
  <2>3. j > Len(t)
    BY <1>1, <2>1, <2>2
  <2>4. QED
    BY <1>2, <2>3, ThenShape DEF OnList
<1>3. ASSUME NEW m \in DOMAIN todo, todo[m].op = "ensure", todo[m].row = k
      PROVE  OnList(k)'
  <2>1. m > 1
    BY <1>1, <1>3
  <2>2. QED
    BY <1>3, <2>1, ThenShape DEF OnList
<1>4. QED
  BY <1>2, <1>3 DEF OnList

LEMMA TreeKept ==
    ASSUME TreeInv, counted \subseteq counted', newest' = newest, torn \subseteq torn',
           \A r \in Rows : status'[r] = "none" <=> status[r] = "none",
           \A k \in Rows : OnList(k)' <=> OnList(k),
           \A r \in Rows : status'[r] = "INCOMPLETE_OVERSIZE_UNSPLITTABLE" =>
              status[r] = "INCOMPLETE_OVERSIZE_UNSPLITTABLE" \/ KidRows(r) = {}
    PROVE  TreeInv'
<1>1. \A r \in Rows : Children(r)' = Children(r)
  BY SameRows
<1>2. \A r \in Rows : KidRows(r) \subseteq Rows
  BY DEF KidRows
<1>3. \A r \in Rows \ torn' : \A k, l \in KidRows(r) : OnList(k)' => OnList(l)'
  BY <1>2 DEF TreeInv
<1>4. \A r \in Rows : Children(r)' # {} => r \in counted'
  BY <1>1 DEF TreeInv
<1>5. \A r \in Rows : status'[r] # "none" => \E s \in Roots : newest'[s] # 0
  BY DEF TreeInv
<1>6. \A r \in Rows : status'[r] = "INCOMPLETE_OVERSIZE_UNSPLITTABLE" => KidRows(r) = {}
  BY DEF TreeInv
<1>7. QED
  BY <1>3, <1>4, <1>5, <1>6 DEF TreeInv

LEMMA DoneKept ==
    ASSUME NothingIncompleteBelow,
           \A r \in Rows : status'[r] = "none" <=> status[r] = "none",
           \A r \in Rows : Done(r) => Done(r)',
           \A r \in Rows : Done(r)' => Done(r) \/ \A k \in Children(r) : Done(k)
    PROVE  NothingIncompleteBelow'
<1>1. \A r \in Rows : Children(r)' = Children(r) /\ Children(r) \subseteq Rows
  BY SameRows DEF Children, KidRows
<1>2. QED
  BY <1>1 DEF NothingIncompleteBelow

\* A step of a pass that has found nothing to do so far keeps account of what
\* is still to be visited.
LEMMA PassKept ==
    ASSUME PassInv, TypeOK, todo # <<>>, run.phase = "state",
           NEW t \in Seq(Task), Then(t),
           run'.phase = run.phase, run'.days = run.days, run'.at = run.at,
           run'.progress = run.progress,
           \/ run'.spent \/ run.progress
           \/ /\ ~run.spent
              /\ \A r \in Rows : Unfinished(r)' => Unfinished(r)
              /\ \A r \in Rows : todo[1].op = "visit" /\ Unfinished(r)' /\ r \in Below(Row) =>
                    \E i \in 1..Len(t) : t[i].op = "visit" /\ r \in Below(t[i].row)
              /\ \A i \in 1..Len(t) : t[i].op = "finish" => Children(t[i].row) # {}
              /\ \A r \in Rows : Children(r)' = Children(r)
    PROVE  PassInv'
<1>1. /\ Row = todo[1].row /\ Row \in Rows /\ 1 \in DOMAIN todo /\ DOMAIN todo = 1..Len(todo)
      /\ Len(todo) \in Nat /\ \A m \in DOMAIN todo : todo[m].row \in Rows
  BY HeadFacts
<1>2. CASE run'.spent
  BY <1>2 DEF PassInv
<1>3. CASE run.progress
  BY <1>3 DEF PassInv
<1>4. CASE ~run'.spent /\ ~run.progress
  <2>1. ASSUME NEW r \in Rows, Unfinished(r)'
        PROVE  \/ Ahead(r, run.at + 1)'
               \/ \E k \in DOMAIN todo' : todo'[k].op = "visit" /\ r \in Below(todo'[k].row)
    <3>1. Unfinished(r)
      BY <1>4, <2>1
    <3>2. CASE Ahead(r, run.at + 1)
      BY <3>2 DEF Ahead
    <3>3. ASSUME NEW m \in DOMAIN todo, todo[m].op = "visit", r \in Below(todo[m].row)
          PROVE  \E k \in DOMAIN todo' : todo'[k].op = "visit" /\ r \in Below(todo'[k].row)
      <4>1. CASE m > 1
        BY <3>3, <4>1, ThenShape
      <4>2. CASE ~(m > 1)
        <5>1. m = 1
          BY <1>1, <4>2
        <5>2. PICK i \in 1..Len(t) : t[i].op = "visit" /\ r \in Below(t[i].row)
          BY <1>1, <1>4, <2>1, <3>3, <5>1
        <5>3. QED
          BY <5>2, ThenShape
      <4>3. QED
        BY <4>1, <4>2
    <3>4. QED
      BY <1>4, <3>1, <3>2, <3>3 DEF PassInv
  <2>2. ASSUME NEW k \in DOMAIN todo', todo'[k].op = "finish"
        PROVE  Children(todo[k].row)' # {}
    <3>1. Len(t) \in Nat /\ DOMAIN todo' = 1..(Len(t) + Len(todo) - 1)
      BY ThenShape
    <3>2. CASE k <= Len(t)
      <4>1. k \in 1..Len(t) /\ todo'[k] = t[k] /\ t[k] \in Task
        BY <1>1, <3>1, <3>2, ThenShape
      <4>2. t[k].row \in Rows /\ Children(t[k].row) # {}
        BY <1>4, <2>2, <4>1 DEF Task
      <4>3. QED
        BY <1>4, <4>1, <4>2 DEF Children, KidRows
    <3>3. CASE k > Len(t)
      <4>1. PICK m \in DOMAIN todo : todo'[k] = todo[m]
        BY <3>3, ThenShape
      <4>2. todo[m].row \in Rows /\ Children(todo[m].row) # {}
        BY <1>1, <1>4, <2>2, <4>1 DEF PassInv
      <4>3. QED
        BY <1>4, <4>1, <4>2 DEF Children, KidRows
    <3>4. QED
      BY <1>1, <3>1, <3>2, <3>3
  <2>3. QED
    BY <1>4, <2>1, <2>2 DEF PassInv
<1>5. QED
  BY <1>2, <1>3, <1>4
-----------------------------------------------------------------------------
(* Types.                                                                  *)

LEMMA RowsType ==
    ASSUME TypeOK, Reset \/ UNCHANGED <<status, counted, torn, short>>
    PROVE  /\ status' \in [Rows -> Complete \cup Incomplete \cup {"none"}]
           /\ counted' \subseteq {r \in Rows : status'[r] # "none"}
           /\ torn' \subseteq Rows /\ short' \subseteq Rows
<1>1. CASE Reset
  <2>1. status' = Emptied /\ counted' = {} /\ torn' = {} /\ short' = {}
    BY <1>1 DEF Reset
  <2>2. Emptied \in [Rows -> Complete \cup Incomplete \cup {"none"}]
    BY DEF Emptied, Incomplete
  <2>3. QED
    BY <2>1, <2>2
<1>2. CASE UNCHANGED <<status, counted, torn, short>>
  BY <1>2 DEF TypeOK
<1>3. QED
  BY <1>1, <1>2

LEMMA StartRunType ==
    ASSUME TypeOK, NEW w \in Windows, StartRun(w)
    PROVE  TypeOK'
<1>1. 1 \in 0..(Len(States) + 1)
  BY CoverageConstants
<1>2. run' \in [phase : {"idle", "pass", "state", "blocked"}, days : Windows \cup {0},
                at : 0..Len(States) + 1, spent : BOOLEAN, progress : BOOLEAN]
  BY <1>1 DEF StartRun, NoRun
<1>3. trouble' \in 0..MaxTrouble
  BY CoverageConstants DEF StartRun, Trouble, Fine, TypeOK
<1>4. Reset \/ UNCHANGED <<status, counted, torn, short>>
  BY DEF StartRun
<1>5. newest' = newest /\ todo' = todo
  BY DEF StartRun
<1>6. QED
  BY <1>2, <1>3, <1>4, <1>5, RowsType DEF TypeOK

LEMMA PassType ==
    ASSUME CoverageInv, BeginState \/ EndState \/ EndComplete \/ EndPass \/ EndBlocked
    PROVE  TypeOK'
<1>1. TypeOK /\ RunInv
  BY DEF CoverageInv
<1>2. CASE BeginState
  <2>1. run.at \in DOMAIN States /\ run.days \in Windows
    BY <1>1, <1>2, CoverageConstants DEF BeginState, TypeOK, RunInv
  <2>2. States[run.at] \in Roots /\ <<run.days, States[run.at]>> \in Rows
    BY <2>1, CoverageConstants DEF Rows, Roots, ToSet
  <2>3. [op |-> "visit", row |-> <<run.days, States[run.at]>>] \in Task
    BY <2>2 DEF Task
  <2>4. todo' \in Seq(Task)
    BY <1>2, <2>3 DEF BeginState
  <2>5. status' \in [Rows -> Complete \cup Incomplete \cup {"none"}] /\ newest' \in [Roots -> Windows \cup {0}]
    BY <1>1, <1>2, <2>1, <2>2 DEF BeginState, TypeOK, Incomplete
  <2>6. counted' \subseteq {r \in Rows : status'[r] # "none"}
    BY <1>1, <1>2, <2>2 DEF BeginState, TypeOK
  <2>7. QED
    BY <1>1, <1>2, <2>4, <2>5, <2>6 DEF BeginState, TypeOK
<1>3. CASE EndState
  <2>1. run.at \in DOMAIN States
    BY <1>1, <1>3 DEF EndState, RunInv
  <2>2. run.at + 1 \in 0..(Len(States) + 1)
    BY <2>1, CoverageConstants
  <2>3. QED
    BY <1>1, <1>3, <2>2 DEF EndState, TypeOK
<1>4. CASE EndComplete
  BY <1>1, <1>4, CoverageConstants DEF EndComplete, TypeOK, NoRun
<1>5. CASE EndPass
  <2>1. 1 \in 0..(Len(States) + 1)
    BY CoverageConstants
  <2>2. run' \in [phase : {"idle", "pass", "state", "blocked"}, days : Windows \cup {0},
                  at : 0..Len(States) + 1, spent : BOOLEAN, progress : BOOLEAN]
    BY <1>1, <1>5, <2>1 DEF EndPass, TypeOK
  <2>3. QED
    BY <1>1, <1>5, <2>2 DEF EndPass, TypeOK
<1>6. CASE EndBlocked
  <2>1. Reset \/ UNCHANGED <<status, counted, torn, short>>
    BY <1>6 DEF EndBlocked, Rollover
  <2>2. 0 \in 0..(Len(States) + 1)
    BY CoverageConstants
  <2>3. trouble' \in 0..MaxTrouble
    BY <1>1, <1>6, CoverageConstants DEF EndBlocked, Rollover, Fine, Trouble, TypeOK
  <2>4. run' = NoRun /\ newest' = newest /\ todo' = todo
    BY <1>6 DEF EndBlocked
  <2>5. QED
    BY <1>1, <2>1, <2>2, <2>3, <2>4, RowsType DEF TypeOK, NoRun
<1>7. QED
  BY <1>2, <1>3, <1>4, <1>5, <1>6

\* The types a statement of _process_partition has to keep.
LEMMA TaskType ==
    ASSUME TypeOK, todo # <<>>, NEW t \in Seq(Task), Then(t),
           run' = run \/ run' = [run EXCEPT !.spent = TRUE],
           counted' = counted \/ counted' = counted \cup {Row},
           newest' = newest, torn' = torn, short' = short \/ short' = short \cup {Row}, Fine \/ Trouble,
           status' = status \/ \E s \in Complete \cup Incomplete : Set(Row, s),
           status'[Row] # "none"
    PROVE  TypeOK'
<1>1. Row \in Rows
  BY HeadFacts
<1>2. todo' \in Seq(Task)
  BY ThenShape
<1>3. status' \in [Rows -> Complete \cup Incomplete \cup {"none"}]
  BY DEF TypeOK, Set
<1>4. \A r \in Rows : r # Row => status'[r] = status[r]
  BY DEF TypeOK, Set
<1>5. counted' \subseteq {r \in Rows : status'[r] # "none"}
  BY <1>1, <1>4 DEF TypeOK
<1>6. run' \in [phase : {"idle", "pass", "state", "blocked"}, days : Windows \cup {0},
                at : 0..Len(States) + 1, spent : BOOLEAN, progress : BOOLEAN]
  BY DEF TypeOK
<1>7. trouble' \in 0..MaxTrouble
  BY CoverageConstants DEF Trouble, Fine, TypeOK
<1>8. short' \subseteq Rows /\ torn' \subseteq Rows /\ newest' \in [Roots -> Windows \cup {0}]
  BY <1>1 DEF TypeOK
<1>9. QED
  BY <1>2, <1>3, <1>5, <1>6, <1>7, <1>8 DEF TypeOK
-----------------------------------------------------------------------------
(* The statements of _process_partition.                                   *)

\* The head of the stack.
LEMMA AtHead ==
    ASSUME CoverageInv, todo # <<>>
    PROVE  /\ run.phase = "state" /\ Row \in Rows /\ Row = todo[1].row /\ todo[1] \in Task
           /\ TaskInv(1) /\ Head(todo).op = todo[1].op
           /\ DOMAIN todo = 1..Len(todo) /\ 1 \in DOMAIN todo /\ Len(todo) \in Nat
           /\ TypeOK /\ RunInv /\ StackInv /\ TreeInv /\ (\A k \in DOMAIN todo : TaskInv(k))
<1>1. TypeOK /\ RunInv
  BY DEF CoverageInv
<1>2. /\ Row \in Rows /\ Row = todo[1].row /\ todo[1] \in Task /\ 1 \in DOMAIN todo
      /\ DOMAIN todo = 1..Len(todo) /\ Len(todo) \in Nat /\ Head(todo).op = todo[1].op
  BY <1>1, HeadFacts
<1>3. run.phase = "state"
  BY <1>1 DEF RunInv
<1>4. QED
  BY <1>1, <1>2, <1>3 DEF CoverageInv

LEMMA EmptyThen ==
    /\ <<>> \in Seq(Task) /\ Len(<<>>) = 0 /\ 1..Len(<<>>) = {}
OBVIOUS

\* A step of the stack that keeps these four keeps the rest.
LEMMA TaskStep ==
    ASSUME CoverageInv, todo # <<>>,
           run'.phase = run.phase,
           \A r \in Rows : status'[r] = "none" <=> status[r] = "none",
           TypeOK', RunInv', StackInv', \A k \in DOMAIN todo' : TaskInv(k)',
           TreeInv', NothingIncompleteBelow', PassInv'
    PROVE  CoverageInv'
<1>1. Rooted'
  BY DEF CoverageInv, Rooted
<1>2. BlockedMeansNothingToDo'
  BY AtHead DEF BlockedMeansNothingToDo
<1>3. QED
  BY <1>1, <1>2 DEF CoverageInv

LEMMA SkipKeeps ==
    ASSUME CoverageInv, Skip
    PROVE  CoverageInv'
<1> DEFINE t == <<>>
<1>1. todo # <<>> /\ todo[1].op = "visit" /\ Settled(Row) /\ Then(t)
  BY AtHead DEF Skip, At
<1>2. t \in Seq(Task) /\ Len(t) = 0 /\ 1..Len(t) = {}
  BY EmptyThen
<1> HIDE DEF t
<1>3. UNCHANGED <<status, counted, newest, run, torn, short, trouble>>
  BY DEF Skip
<1>4. status[Row] # "none"
  BY <1>1, AtHead DEF TaskInv
<1>5. TypeOK'
  BY <1>1, <1>2, <1>3, <1>4, AtHead, TaskType DEF Fine
<1>6. RunInv' /\ StackInv' /\ \A k \in DOMAIN todo' : TaskInv(k)'
  BY <1>1, <1>2, <1>3, <1>4, AtHead, StackStep
<1>7. TreeInv'
  BY <1>1, <1>2, <1>3, AtHead, ListKept, TreeKept
<1>8. NothingIncompleteBelow'
  BY <1>3 DEF CoverageInv, NothingIncompleteBelow, Children, Done
<1>9. \A r \in Rows : Children(r)' = Children(r)
  BY <1>3, SameRows
<1>10. ASSUME NEW r \in Rows, Unfinished(r), r \in Below(Row)
       PROVE  FALSE
  <2>1. status[r] # "none" /\ Children(r) = {} /\ ~Settled(r)
    BY <1>10 DEF Unfinished
  <2>2. CASE Done(Row)
    BY <1>10, <2>1, <2>2, AtHead, <1>1, DoneBelow DEF CoverageInv, Settled
  <2>3. CASE ~Done(Row)
    <3>1. KidRows(Row) = {}
      BY <1>1, <2>3, AtHead DEF Settled, TreeInv
    <3>2. r = Row
      BY <1>1, <1>10, <2>1, <3>1, AtHead, RecordedBelow DEF Children
    <3>3. QED
      BY <1>1, <2>1, <3>2
  <2>4. QED
    BY <2>2, <2>3
<1>11. \A r \in Rows : Unfinished(r)' <=> Unfinished(r)
  BY <1>3, <1>9 DEF Unfinished, Settled, Done
<1>12. PassInv'
  <2>1. PassInv /\ TypeOK /\ run.phase = "state"
    BY <1>1, AtHead DEF CoverageInv
  <2>2. CASE run.spent
    BY <1>1, <1>2, <1>3, <2>1, <2>2, PassKept
  <2>3. CASE ~run.spent
    BY <1>1, <1>2, <1>3, <1>9, <1>10, <1>11, <2>1, <2>3, PassKept
  <2>4. QED
    BY <2>2, <2>3
<1>13. QED
  BY <1>1, <1>3, <1>5, <1>6, <1>7, <1>8, <1>12, TaskStep

\* A statement that writes the status of its row touches no other, and takes no
\* row off the record.
LEMMA SetFacts ==
    ASSUME TypeOK, NEW r \in Rows, NEW s, Set(r, s), status[r] # "none", s # "none"
    PROVE  /\ status'[r] = s
           /\ \A q \in Rows : q # r => status'[q] = status[q]
           /\ \A q \in Rows : status'[q] = "none" <=> status[q] = "none"
           /\ \A q \in Rows : Children(q)' = Children(q)
<1>1. /\ status'[r] = s
      /\ \A q \in Rows : q # r => status'[q] = status[q]
      /\ \A q \in Rows : status'[q] = "none" <=> status[q] = "none"
  BY DEF TypeOK, Set
<1>2. QED
  BY <1>1, SameRows

LEMMA RecoverKeeps ==
    ASSUME CoverageInv, Recover
    PROVE  CoverageInv'
<1> DEFINE t == <<>>
<1>1. /\ todo # <<>> /\ todo[1].op = "visit" /\ ~Settled(Row) /\ Children(Row) = {}
      /\ Then(t) /\ Set(Row, "COMPLETE_RECOVERED")
  BY AtHead DEF Recover, At
<1>2. t \in Seq(Task) /\ Len(t) = 0 /\ 1..Len(t) = {}
  BY EmptyThen
<1> HIDE DEF t
<1>3. UNCHANGED <<counted, newest, run, torn, short, trouble>>
  BY DEF Recover
<1>4. status[Row] # "none"
  BY <1>1, AtHead DEF TaskInv
<1>5. /\ status'[Row] = "COMPLETE_RECOVERED"
      /\ \A r \in Rows : r # Row => status'[r] = status[r]
      /\ \A r \in Rows : status'[r] = "none" <=> status[r] = "none"
      /\ \A r \in Rows : Children(r)' = Children(r)
  BY <1>1, <1>4, AtHead, SetFacts
<1>6. TypeOK'
  BY <1>1, <1>2, <1>3, <1>5, AtHead, TaskType DEF Fine, Complete
<1>7. RunInv' /\ StackInv' /\ \A k \in DOMAIN todo' : TaskInv(k)'
  BY <1>1, <1>2, <1>3, <1>5, AtHead, StackStep
<1>8. TreeInv'
  <2>1. \A r \in Rows : status'[r] = "INCOMPLETE_OVERSIZE_UNSPLITTABLE" =>
                           status[r] = "INCOMPLETE_OVERSIZE_UNSPLITTABLE"
    BY <1>5
  <2>2. QED
    BY <1>1, <1>2, <1>3, <1>5, <2>1, AtHead, ListKept, TreeKept
<1>9. NothingIncompleteBelow'
  <2>1. \A r \in Rows : Done(r) => Done(r)'
    BY <1>5 DEF Done, Complete
  <2>2. \A r \in Rows : Done(r)' => Done(r) \/ \A k \in Children(r) : Done(k)
    BY <1>1, <1>5 DEF Done
  <2>3. QED
    BY <1>5, <2>1, <2>2, DoneKept DEF CoverageInv
<1>10. ASSUME NEW r \in Rows, Unfinished(r)'
       PROVE  Unfinished(r) /\ r \notin Below(Row)
  <2>1. r # Row
    BY <1>5, <1>10 DEF Unfinished, Settled, Done, Complete
  <2>2. Unfinished(r)
    BY <1>3, <1>5, <1>10, <2>1 DEF Unfinished, Settled, Done
  <2>3. r \notin Below(Row)
    BY <1>1, <2>1, <2>2, AtHead, RecordedBelow DEF Unfinished
  <2>4. QED
    BY <2>2, <2>3
<1>11. PassInv'
  <2>1. PassInv /\ TypeOK /\ run.phase = "state"
    BY <1>1, AtHead DEF CoverageInv
  <2>2. CASE run.spent
    BY <1>1, <1>2, <1>3, <2>1, <2>2, PassKept
  <2>3. CASE ~run.spent
    BY <1>1, <1>2, <1>3, <1>5, <1>10, <2>1, <2>3, PassKept
  <2>4. QED
    BY <2>2, <2>3
<1>12. QED
  BY <1>1, <1>3, <1>5, <1>6, <1>7, <1>8, <1>9, <1>11, TaskStep

LEMMA OutOfBudgetKeeps ==
    ASSUME CoverageInv, OutOfBudget
    PROVE  CoverageInv'
<1> DEFINE t == <<>>
<1>1. todo # <<>> /\ todo[1].op = "visit" /\ run.spent /\ Then(t)
  BY AtHead DEF OutOfBudget, Inspectable, At
<1>2. t \in Seq(Task) /\ Len(t) = 0 /\ 1..Len(t) = {}
  BY EmptyThen
<1> HIDE DEF t
<1>3. UNCHANGED <<status, counted, newest, run, torn, short, trouble>>
  BY DEF OutOfBudget
<1>4. status[Row] # "none"
  BY <1>1, AtHead DEF TaskInv
<1>5. TypeOK'
  BY <1>1, <1>2, <1>3, <1>4, AtHead, TaskType DEF Fine
<1>6. RunInv' /\ StackInv' /\ \A k \in DOMAIN todo' : TaskInv(k)'
  BY <1>1, <1>2, <1>3, <1>4, AtHead, StackStep
<1>7. TreeInv'
  BY <1>1, <1>2, <1>3, AtHead, ListKept, TreeKept
<1>8. NothingIncompleteBelow'
  BY <1>3 DEF CoverageInv, NothingIncompleteBelow, Children, Done
<1>9. PassInv'
  BY <1>1, <1>2, <1>3, AtHead, PassKept DEF CoverageInv
<1>10. QED
  BY <1>1, <1>3, <1>5, <1>6, <1>7, <1>8, <1>9, TaskStep

\* No row on the stack is its own refinement.
LEMMA HeadIsNoKid ==
    ASSUME CoverageInv, todo # <<>>
    PROVE  Row \notin KidRows(Row)
<1> SUFFICES ASSUME Row \in KidRows(Row) PROVE FALSE
  OBVIOUS
<1>1. todo[1].row = Row /\ Row \in Rows /\ 1 \in DOMAIN todo /\ StackInv /\ TypeOK /\ RunInv
  BY AtHead
<1>2. Row # Base
  BY <1>1, KidFacts, BaseFacts
<1>3. PICK j \in DOMAIN todo : 1 < j /\ Row \in KidRows(todo[j].row)
  BY <1>1, <1>2 DEF StackInv, Parented
<1>4. todo[j].row = Row
  BY <1>1, <1>3, KidFacts, HeadFacts
<1>5. QED
  BY <1>1, <1>3, <1>4 DEF StackInv

\* The visits a partition that was split delegates to: one for every child on
\* record, before the partition is finished.
LEMMA DelegationFacts ==
    ASSUME NEW r \in Rows, r \notin KidRows(r), NEW list \in SetToSeqs(Children(r))
    PROVE  LET t == ResumeTasks(r, list) IN
           /\ t \in Seq(Task) /\ Len(t) \in Nat
           /\ \A i, j \in 1..Len(t) : i # j => t[i].row # t[j].row
           /\ \A i \in 1..Len(t) :
                 \/ i = Len(t) /\ t[i].op = "finish" /\ t[i].row = r
                 \/ i < Len(t) /\ t[i].op = "visit" /\ t[i].row \in Children(r)
           /\ \A k \in Children(r) : \E i \in 1..Len(t) : t[i].op = "visit" /\ t[i].row = k
           /\ Len(t) \in 1..Len(t) /\ t[Len(t)].op = "finish" /\ t[Len(t)].row = r
<1> DEFINE t == ResumeTasks(r, list)
           S == Children(r)
           c == Cardinality(S)
<1>1. S \subseteq KidRows(r) /\ S \subseteq Rows
  BY DEF Children, KidRows
<1>2. IsFiniteSet(S) /\ c \in Nat
  BY <1>1, KidList, FS_Subset, FS_CardinalityType
<1> HIDE DEF t, S, c
<1>3. list \in [1..c -> S] /\ \A i, j \in 1..c : i # j => list[i] # list[j]
  BY DEF SetToSeqs, S, c
<1>4. \A k \in S : \E i \in 1..c : list[i] = k
  <2>1. list \in Injection(1..c, S)
    BY <1>3 DEF Injection, IsInjective
  <2>2. IsFiniteSet(1..c) /\ Cardinality(1..c) = c
    <3>1. \A n \in Nat : IsFiniteSet(1..n) /\ Cardinality(1..n) = n
      BY FS_Interval
    <3>2. QED
      BY <1>2, <3>1
  <2>3. Cardinality(1..c) = Cardinality(S)
    BY <2>2 DEF c
  <2>4. list \in Surjection(1..c, S)
    BY <1>2, <2>1, <2>3, FS_Injection
  <2>5. QED
    BY <2>4 DEF Surjection
<1>5. list \in Seq(S)
  BY <1>2, <1>3, SeqDef
<1>6. Len(list) = c
  BY <1>2, <1>3, <1>5, LenProperties
<1> DEFINE v == [k \in 1..Len(list) |-> [op |-> "visit", row |-> list[k]]]
           f == [op |-> "finish", row |-> r]
<1>7. v \in Seq(Task) /\ Len(v) = c /\ \A i \in 1..c : v[i].op = "visit" /\ v[i].row = list[i]
  <2>1. v = [i \in 1..c |-> [op |-> "visit", row |-> list[i]]]
    BY <1>6
  <2>2. \A i \in 1..c : [op |-> "visit", row |-> list[i]] \in Task
    BY <1>1, <1>3 DEF Task
  <2>3. v \in [1..c -> Task]
    BY <2>1, <2>2
  <2>4. v \in Seq(Task)
    BY <1>2, <2>3, SeqDef
  <2>5. Len(v) = c
    BY <1>2, <2>3, <2>4, LenProperties
  <2> HIDE DEF v
  <2>6. \A i \in 1..c : v[i] = [op |-> "visit", row |-> list[i]]
    BY <2>1
  <2>7. \A i \in 1..c : v[i].op = "visit" /\ v[i].row = list[i]
    <3> SUFFICES ASSUME NEW i \in 1..c PROVE v[i].op = "visit" /\ v[i].row = list[i]
      OBVIOUS
    <3>1. v[i] = [op |-> "visit", row |-> list[i]]
      BY <2>6
    <3>2. QED
      BY <3>1
  <2>8. QED
    BY <2>4, <2>5, <2>7
<1>8. f \in Task /\ f.op = "finish" /\ f.row = r
  BY DEF Task
<1> HIDE DEF v, f
<1>9. t = Append(v, f)
  BY DEF t, v, f, ResumeTasks
<1>10. /\ t \in Seq(Task) /\ Len(t) = c + 1 /\ t[c + 1] = f
       /\ \A i \in 1..c : t[i] = v[i]
  <2>1. /\ Append(v, f) \in Seq(Task) /\ Len(Append(v, f)) = Len(v) + 1
        /\ \A i \in 1..Len(v) : Append(v, f)[i] = v[i]
        /\ Append(v, f)[Len(v) + 1] = f
    BY <1>7, <1>8, AppendProperties
  <2>2. Len(v) = c
    BY <1>7
  <2>3. QED
    BY <1>9, <2>1, <2>2, Zenon
<1>11. r \notin S
  BY <1>1
<1>12. \A i \in 1..Len(t) : i = c + 1 \/ i \in 1..c
  BY <1>2, <1>10
<1>13. ASSUME NEW i \in 1..c
       PROVE  t[i].op = "visit" /\ t[i].row = list[i] /\ t[i].row \in S
  BY <1>3, <1>7, <1>10
<1>14. t[c + 1].op = "finish" /\ t[c + 1].row = r
  BY <1>8, <1>10
<1>15. ASSUME NEW i \in 1..Len(t), NEW j \in 1..Len(t), i # j
       PROVE  t[i].row # t[j].row
  BY <1>3, <1>11, <1>12, <1>13, <1>14, <1>15
<1>16. \A i \in 1..Len(t) :
          \/ i = Len(t) /\ t[i].op = "finish" /\ t[i].row = r
          \/ i < Len(t) /\ t[i].op = "visit" /\ t[i].row \in S
  BY <1>2, <1>10, <1>12, <1>13, <1>14
<1>17. \A k \in S : \E i \in 1..Len(t) : t[i].op = "visit" /\ t[i].row = k
  BY <1>2, <1>4, <1>10, <1>13
<1>18. QED
  BY <1>2, <1>10, <1>14, <1>15, <1>16, <1>17 DEF S, t

LEMMA ResumeKeeps ==
    ASSUME CoverageInv, Resume
    PROVE  CoverageInv'
<1>1. /\ todo # <<>> /\ todo[1].op = "visit" /\ ~Settled(Row) /\ Children(Row) # {} /\ Row \in counted
      /\ UNCHANGED <<status, counted, newest, run, torn, short, trouble>>
  BY AtHead DEF Resume, At
<1>2. PICK list \in SetToSeqs(Children(Row)) :
         Then(ResumeTasks(Row, list))
  BY DEF Resume
<1> DEFINE t == ResumeTasks(Row, list)
<1>3. Then(t)
  BY <1>2
<1>4. /\ t \in Seq(Task) /\ Len(t) \in Nat
      /\ \A i, j \in 1..Len(t) : i # j => t[i].row # t[j].row
      /\ \A i \in 1..Len(t) :
            \/ i = Len(t) /\ t[i].op = "finish" /\ t[i].row = Row
            \/ i < Len(t) /\ t[i].op = "visit" /\ t[i].row \in Children(Row)
      /\ \A k \in Children(Row) : \E i \in 1..Len(t) : t[i].op = "visit" /\ t[i].row = k
      /\ Len(t) \in 1..Len(t) /\ t[Len(t)].op = "finish" /\ t[Len(t)].row = Row
  BY <1>1, AtHead, HeadIsNoKid, DelegationFacts
<1> HIDE DEF t
<1>5. status[Row] # "none" /\ Children(Row) \subseteq KidRows(Row) /\ \A k \in Children(Row) : status[k] # "none"
  BY <1>1, AtHead DEF TaskInv, Children
<1>6. TypeOK'
  BY <1>1, <1>4, <1>3, <1>5, AtHead, TaskType DEF Fine
<1>7. \A k \in 1..Len(t) : TaskInv(k)'
  <2> SUFFICES ASSUME NEW k \in 1..Len(t) PROVE TaskInv(k)'
    OBVIOUS
  <2>1. todo'[k] = t[k]
    BY <1>1, <1>4, <1>3, AtHead, ThenShape
  <2>2. CASE t[k].op = "finish" /\ t[k].row = Row
    BY <1>1, <2>1, <2>2 DEF TaskInv, Settled, Done
  <2>3. CASE t[k].op = "visit" /\ t[k].row \in Children(Row)
    BY <1>1, <1>5, <2>1, <2>3 DEF TaskInv
  <2>4. QED
    BY <1>4, <2>2, <2>3
<1>8. \A m \in DOMAIN todo : todo[m].op # "ensure"
  <2> SUFFICES ASSUME NEW m \in DOMAIN todo, todo[m].op = "ensure" PROVE FALSE
    OBVIOUS
  <2>1. m # 1 /\ m \in Nat /\ m > 1
    BY <1>1, AtHead
  <2>2. TaskInv(m) /\ 1 \in 1..(m - 1)
    BY <1>1, <2>1, AtHead
  <2>3. Fresh(todo[1].row)
    BY <1>1, <2>2 DEF TaskInv
  <2>4. QED
    BY <1>1, <2>3, AtHead DEF Fresh
<1>9. RunInv' /\ StackInv' /\ \A k \in DOMAIN todo' : TaskInv(k)'
  <2>1. \A i \in 1..Len(t) :
           \/ t[i].row = Row
           \/ /\ t[i].row \in KidRows(Row)
              /\ \E j \in 1..Len(t) : i < j /\ t[j].op = "finish" /\ t[j].row = Row
    BY <1>4, <1>5
  <2>2. QED
    BY <1>1, <1>4, <1>3, <1>5, <1>7, <1>8, <2>1, AtHead, StackStep
<1>10. TreeInv'
  <2>1. \A i \in 1..Len(t) : t[i].op # "ensure"
    BY <1>4
  <2>2. QED
    BY <1>1, <1>4, <1>3, <2>1, AtHead, ListKept, TreeKept
<1>11. NothingIncompleteBelow'
  BY <1>1 DEF CoverageInv, NothingIncompleteBelow, Children, Done
<1>12. \A r \in Rows : Children(r)' = Children(r)
  BY <1>1, SameRows
<1>13. \A r \in Rows : Unfinished(r)' <=> Unfinished(r)
  BY <1>1, <1>12 DEF Unfinished, Settled, Done
<1>14. ASSUME NEW r \in Rows, Unfinished(r), r \in Below(Row)
       PROVE  \E i \in 1..Len(t) : t[i].op = "visit" /\ r \in Below(t[i].row)
  <2>1. r # Row /\ status[r] # "none"
    BY <1>1, <1>14 DEF Unfinished
  <2>2. PICK k \in Children(Row) : r \in Below(k)
    BY <1>1, <1>14, <2>1, AtHead, RecordedBelow
  <2>3. QED
    BY <1>4, <2>2
<1>15. PassInv'
  <2>1. PassInv /\ TypeOK /\ run.phase = "state"
    BY <1>1, AtHead DEF CoverageInv
  <2>2. CASE run.spent
    BY <1>1, <1>4, <1>3, <2>1, <2>2, PassKept
  <2>3. CASE ~run.spent
    <3>1. \A i \in 1..Len(t) : t[i].op = "finish" => Children(t[i].row) # {}
      BY <1>1, <1>4
    <3>2. QED
      BY <1>1, <1>4, <1>3, <1>12, <1>13, <1>14, <2>1, <2>3, <3>1, PassKept
  <2>4. QED
    BY <2>2, <2>3
<1>16. QED
  BY <1>1, <1>6, <1>9, <1>10, <1>11, <1>15, TaskStep

LEMMA OneTask ==
    ASSUME NEW x \in Task
    PROVE  /\ <<x>> \in Seq(Task) /\ Len(<<x>>) = 1 /\ <<x>>[1] = x
           /\ \A i \in 1..Len(<<x>>) : i = 1
OBVIOUS

\* As long as the budget is not spent, no split is being recorded.
LEMMA NoSplitYet ==
    ASSUME CoverageInv, todo # <<>>,
           \/ ~run.spent
           \/ todo[1].op \notin {"ensure", "visit"}
           \/ todo[1].op = "visit" /\ ~Fresh(Row)
    PROVE  \A m \in DOMAIN todo : todo[m].op = "ensure" => m = 1
<1> SUFFICES ASSUME NEW m \in DOMAIN todo, todo[m].op = "ensure", m # 1 PROVE FALSE
  OBVIOUS
<1>1. TaskInv(m) /\ Row = todo[1].row
  BY AtHead
<1>2. 1 \in 1..(m - 1)
  BY AtHead
<1>3. QED
  BY <1>1, <1>2 DEF TaskInv

LEMMA InspectKeeps ==
    ASSUME CoverageInv, Inspect
    PROVE  CoverageInv'
<1>1. /\ todo # <<>> /\ todo[1].op = "visit" /\ ~Settled(Row) /\ ~run.spent
      /\ ~(Row \in counted /\ Children(Row) # {})
      /\ run' = [run EXCEPT !.spent = TRUE] /\ counted' = counted \cup {Row}
      /\ UNCHANGED <<newest, torn, short, trouble>>
  BY AtHead DEF Inspect, Inspectable, At
<1>2. Children(Row) = {} /\ status[Row] # "none" /\ Row \in Rows
  BY <1>1, AtHead DEF TreeInv, TaskInv
<1>3. /\ run' \in [phase : {"idle", "pass", "state", "blocked"}, days : Windows \cup {0},
                   at : 0..Len(States) + 1, spent : BOOLEAN, progress : BOOLEAN]
      /\ run'.spent /\ run'.phase = run.phase /\ run'.days = run.days /\ run'.at = run.at
      /\ run'.progress = run.progress
  BY <1>1, AtHead DEF TypeOK
<1>4. \A m \in DOMAIN todo : todo[m].op # "ensure"
  BY <1>1, NoSplitYet
<1>5. ASSUME NEW t \in Seq(Task), Then(t), NEW s \in {"COMPLETE", "INSPECTED"}, Set(Row, s),
             \A i \in 1..Len(t) : /\ i = 1 /\ s = "INSPECTED"
                                  /\ t[1].row = Row /\ t[1].op \in {"collect", "split"}
      PROVE  CoverageInv'
  <2>1. /\ status'[Row] = s
        /\ \A r \in Rows : r # Row => status'[r] = status[r]
        /\ \A r \in Rows : status'[r] = "none" <=> status[r] = "none"
        /\ \A r \in Rows : Children(r)' = Children(r)
    BY <1>2, <1>5, AtHead, <1>1, SetFacts
  <2>2. TypeOK'
    BY <1>1, <1>5, <2>1, AtHead, TaskType DEF Fine, Complete, Incomplete
  <2>3. \A k \in 1..Len(t) : TaskInv(k)'
    <3> SUFFICES ASSUME NEW k \in 1..Len(t) PROVE TaskInv(k)'
      OBVIOUS
    <3>1. todo'[k] = t[k] /\ k = 1
      BY <1>1, <1>5, AtHead, ThenShape
    <3>2. todo'[k].row = Row /\ todo'[k].op \in {"collect", "split"}
      BY <1>5, <3>1
    <3>3. Children(todo[k].row)' = {}
      BY <1>2, <2>1, <3>2 DEF Children, KidRows
    <3>4. QED
      BY <1>1, <1>3, <1>5, <2>1, <3>1, <3>2, <3>3 DEF TaskInv
  <2>4. RunInv' /\ StackInv' /\ \A k \in DOMAIN todo' : TaskInv(k)'
    BY <1>1, <1>3, <1>4, <1>5, <2>1, <2>3, AtHead, StackStep
  <2>5. TreeInv'
    <3>1. \A r \in Rows : status'[r] = "INCOMPLETE_OVERSIZE_UNSPLITTABLE" =>
                             status[r] = "INCOMPLETE_OVERSIZE_UNSPLITTABLE"
      BY <2>1
    <3>2. \A i \in 1..Len(t) : t[i].op # "ensure"
      BY <1>5
    <3>3. \A k \in Rows : OnList(k)' <=> OnList(k)
      BY <1>1, <1>5, <2>1, <3>2, AtHead, ListKept
    <3>4. QED
      BY <1>1, <2>1, <3>1, <3>3, AtHead, TreeKept
  <2>6. NothingIncompleteBelow'
    <3>1. \A r \in Rows : Done(r) => Done(r)'
      BY <1>1, <2>1 DEF Done, Settled
    <3>2. \A r \in Rows : Done(r)' => Done(r) \/ \A k \in Children(r) : Done(k)
      BY <1>2, <2>1 DEF Done
    <3>3. QED
      BY <2>1, <3>1, <3>2, DoneKept DEF CoverageInv
  <2>7. PassInv'
    BY <1>1, <1>3, <1>5, AtHead, PassKept DEF CoverageInv
  <2>8. QED
    BY <1>1, <1>3, <2>1, <2>2, <2>4, <2>5, <2>6, <2>7, TaskStep
<1>6. CASE Set(Row, "COMPLETE") /\ Then(<<>>)
  <2>1. \A i \in 1..Len(<<>>) : FALSE
    BY EmptyThen
  <2>2. QED
    BY <1>5, <1>6, <2>1, EmptyThen
<1>7. ASSUME NEW op \in {"collect", "split"}, Set(Row, "INSPECTED"), Then(<<[op |-> op, row |-> Row]>>)
      PROVE  CoverageInv'
  <2> DEFINE x == [op |-> op, row |-> Row]
  <2>1. x \in Task /\ x.row = Row /\ x.op \in {"collect", "split"}
    BY <1>2 DEF Task
  <2> HIDE DEF x
  <2>2. Then(<<x>>)
    BY <1>7 DEF x
  <2>3. QED
    BY <1>5, <1>7, <2>1, <2>2, OneTask
<1>8. QED
  BY <1>6, <1>7 DEF Inspect

LEMMA CollectKeeps ==
    ASSUME CoverageInv, Collect
    PROVE  CoverageInv'
<1> DEFINE t == <<>>
<1>1. todo # <<>> /\ todo[1].op = "collect" /\ Then(t) /\ UNCHANGED <<counted, newest, run, torn, short>>
  BY AtHead DEF Collect, At
<1>2. t \in Seq(Task) /\ Len(t) = 0 /\ 1..Len(t) = {}
  BY EmptyThen
<1> HIDE DEF t
<1>3. /\ status[Row] = "INSPECTED" /\ Children(Row) = {} /\ run.spent
  BY <1>1, AtHead DEF TaskInv
<1>4. PICK s \in {"COMPLETE", "COMPLETE_INCREMENTAL", "INCOMPLETE_LEAF"} : Set(Row, s)
  BY DEF Collect
<1>5. /\ status'[Row] = s
      /\ \A r \in Rows : r # Row => status'[r] = status[r]
      /\ \A r \in Rows : status'[r] = "none" <=> status[r] = "none"
  BY <1>1, <1>3, <1>4, AtHead, SetFacts
<1>6. TypeOK'
  <2>1. Fine \/ Trouble
    BY DEF Collect
  <2>2. s \in Complete \cup Incomplete
    BY DEF Complete, Incomplete
  <2>3. QED
    BY <1>1, <1>2, <1>4, <1>5, <2>1, <2>2, AtHead, TaskType
<1>7. RunInv' /\ StackInv' /\ \A k \in DOMAIN todo' : TaskInv(k)'
  BY <1>1, <1>2, <1>5, AtHead, StackStep
<1>8. TreeInv'
  <2>1. \A r \in Rows : status'[r] = "INCOMPLETE_OVERSIZE_UNSPLITTABLE" =>
                           status[r] = "INCOMPLETE_OVERSIZE_UNSPLITTABLE"
    BY <1>5
  <2>2. QED
    BY <1>1, <1>2, <1>5, <2>1, AtHead, ListKept, TreeKept
<1>9. NothingIncompleteBelow'
  <2>1. \A r \in Rows : Done(r) => Done(r)'
    BY <1>3, <1>5 DEF Done, Complete
  <2>2. \A r \in Rows : Done(r)' => Done(r) \/ \A k \in Children(r) : Done(k)
    BY <1>3, <1>5 DEF Done
  <2>3. QED
    BY <1>5, <2>1, <2>2, DoneKept DEF CoverageInv
<1>10. PassInv'
  BY <1>1, <1>2, <1>3, AtHead, PassKept DEF CoverageInv
<1>11. QED
  BY <1>1, <1>5, <1>6, <1>7, <1>8, <1>9, <1>10, TaskStep

\* The statements of a split: every refinement is recorded, in SEEK's order,
\* before the partition is finished.
LEMMA SplitFacts ==
    ASSUME NEW r \in Rows, r \notin KidRows(r)
    PROVE  LET t == SplitTasks(r) IN
           /\ t \in Seq(Task) /\ Len(t) \in Nat
           /\ \A i, j \in 1..Len(t) : i # j => t[i].row # t[j].row
           /\ \A i \in 1..Len(t) :
                 \/ i = Len(t) /\ t[i].op = "finish" /\ t[i].row = r
                 \/ i < Len(t) /\ t[i].op = "ensure" /\ t[i].row \in KidRows(r)
           /\ \A k \in KidRows(r) : \E i \in 1..Len(t) : t[i].op = "ensure" /\ t[i].row = k
           /\ Len(t) \in 1..Len(t) /\ t[Len(t)].op = "finish" /\ t[Len(t)].row = r
<1> DEFINE t == SplitTasks(r)
           c == Len(Kids[r[2]])
           kid(i) == <<r[1], Kids[r[2]][i]>>
           v == [k \in 1..c |-> [op |-> "ensure", row |-> kid(k)]]
           f == [op |-> "finish", row |-> r]
<1>1. t = Append(v, f)
  BY DEF SplitTasks
<1>2. f \in Task /\ f.op = "finish" /\ f.row = r
  BY DEF Task
<1>3. /\ c \in Nat
      /\ \A i \in 1..c : kid(i) \in KidRows(r) /\ kid(i) \in Rows
      /\ \A k \in KidRows(r) : \E i \in 1..c : k = kid(i)
      /\ \A i, j \in 1..c : i # j => kid(i) # kid(j)
  BY KidList DEF KidRows
<1> HIDE DEF t, c, kid, f
<1>4. v \in Seq(Task) /\ Len(v) = c /\ \A i \in 1..c : v[i].op = "ensure" /\ v[i].row = kid(i)
  <2>1. \A i \in 1..c : [op |-> "ensure", row |-> kid(i)] \in Task
    BY <1>3 DEF Task
  <2>2. v \in [1..c -> Task]
    BY <2>1
  <2>3. v \in Seq(Task)
    BY <1>3, <2>2, SeqDef
  <2>4. Len(v) = c
    BY <1>3, <2>2, <2>3, LenProperties
  <2>5. \A i \in 1..c : v[i] = [op |-> "ensure", row |-> kid(i)]
    OBVIOUS
  <2> HIDE DEF v
  <2>6. ASSUME NEW i \in 1..c
        PROVE  v[i].op = "ensure" /\ v[i].row = kid(i)
    <3>1. v[i] = [op |-> "ensure", row |-> kid(i)]
      BY <2>5
    <3>2. QED
      BY <3>1
  <2>7. QED
    BY <2>3, <2>4, <2>6
<1> HIDE DEF v
<1>5. /\ t \in Seq(Task) /\ Len(t) = c + 1 /\ t[c + 1] = f
      /\ \A i \in 1..c : t[i] = v[i]
  <2>1. /\ Append(v, f) \in Seq(Task) /\ Len(Append(v, f)) = Len(v) + 1
        /\ \A i \in 1..Len(v) : Append(v, f)[i] = v[i]
        /\ Append(v, f)[Len(v) + 1] = f
    BY <1>2, <1>4, AppendProperties
  <2>2. Len(v) = c
    BY <1>4
  <2>3. QED
    BY <1>1, <2>1, <2>2, Zenon
<1>6. \A i \in 1..Len(t) : i = c + 1 \/ i \in 1..c
  BY <1>3, <1>5
<1>7. ASSUME NEW i \in 1..c
      PROVE  t[i].op = "ensure" /\ t[i].row = kid(i) /\ t[i].row \in KidRows(r)
  BY <1>3, <1>4, <1>5
<1>8. t[c + 1].op = "finish" /\ t[c + 1].row = r
  BY <1>2, <1>5
<1>9. ASSUME NEW i \in 1..Len(t), NEW j \in 1..Len(t), i # j
      PROVE  t[i].row # t[j].row
  BY <1>3, <1>6, <1>7, <1>8, <1>9
<1>10. \A i \in 1..Len(t) :
          \/ i = Len(t) /\ t[i].op = "finish" /\ t[i].row = r
          \/ i < Len(t) /\ t[i].op = "ensure" /\ t[i].row \in KidRows(r)
  BY <1>3, <1>5, <1>6, <1>7, <1>8
<1>11. \A k \in KidRows(r) : \E i \in 1..Len(t) : t[i].op = "ensure" /\ t[i].row = k
  BY <1>3, <1>5, <1>7
<1>12. QED
  BY <1>3, <1>5, <1>8, <1>9, <1>10, <1>11 DEF t

LEMMA SplitKeeps ==
    ASSUME CoverageInv, Split
    PROVE  CoverageInv'
<1>1. todo # <<>> /\ todo[1].op = "split" /\ UNCHANGED <<counted, newest, run, torn, short>>
  BY AtHead DEF Split, At
<1>2. /\ status[Row] = "INSPECTED" /\ Children(Row) = {} /\ run.spent /\ Row \in Rows
      /\ Row \in counted
  BY <1>1, AtHead DEF TaskInv
<1>3. \A m \in DOMAIN todo : todo[m].op # "ensure"
  BY <1>1, NoSplitYet
<1>4. PICK t : /\ Then(t)
               /\ \/ t = <<>> /\ Kids[Row[2]] = <<>> /\ Set(Row, "INCOMPLETE_OVERSIZE_UNSPLITTABLE")
                  \/ t = SplitTasks(Row) /\ Set(Row, "INCOMPLETE_OVERSIZE")
  BY DEF Split
<1>5. PICK s \in {"INCOMPLETE_OVERSIZE_UNSPLITTABLE", "INCOMPLETE_OVERSIZE"} :
         Set(Row, s) /\ (s = "INCOMPLETE_OVERSIZE_UNSPLITTABLE" => KidRows(Row) = {})
  <2>1. Kids[Row[2]] = <<>> => KidRows(Row) = {}
    BY DEF KidRows, ToSet
  <2>2. QED
    BY <1>4, <2>1
<1>6. /\ status'[Row] = s
      /\ \A r \in Rows : r # Row => status'[r] = status[r]
      /\ \A r \in Rows : status'[r] = "none" <=> status[r] = "none"
      /\ \A r \in Rows : Children(r)' = Children(r)
  BY <1>1, <1>2, <1>5, AtHead, SetFacts
<1>7. /\ t \in Seq(Task) /\ Len(t) \in Nat
      /\ \A i, j \in 1..Len(t) : i # j => t[i].row # t[j].row
      /\ \A i \in 1..Len(t) :
            \/ /\ t[i].op = "finish" /\ t[i].row = Row
            \/ /\ t[i].op = "ensure" /\ t[i].row \in KidRows(Row)
               /\ \A j \in 1..(i - 1) : t[j].op = "ensure"
               /\ \E j \in 1..Len(t) : i < j /\ t[j].op = "finish" /\ t[j].row = Row
      /\ \A k \in KidRows(Row) : \E i \in 1..Len(t) : t[i].op = "ensure" /\ t[i].row = k
  <2>1. CASE t = <<>> /\ Kids[Row[2]] = <<>>
    <3>1. KidRows(Row) = {}
      BY <2>1 DEF KidRows, ToSet
    <3>2. QED
      BY <2>1, <3>1, EmptyThen
  <2>2. CASE t = SplitTasks(Row)
    <3>1. Row \notin KidRows(Row)
      BY <1>1, HeadIsNoKid
    <3>2. /\ t \in Seq(Task) /\ Len(t) \in Nat
          /\ \A i, j \in 1..Len(t) : i # j => t[i].row # t[j].row
          /\ \A i \in 1..Len(t) :
                \/ i = Len(t) /\ t[i].op = "finish" /\ t[i].row = Row
                \/ i < Len(t) /\ t[i].op = "ensure" /\ t[i].row \in KidRows(Row)
          /\ \A k \in KidRows(Row) : \E i \in 1..Len(t) : t[i].op = "ensure" /\ t[i].row = k
          /\ Len(t) \in 1..Len(t) /\ t[Len(t)].op = "finish" /\ t[Len(t)].row = Row
      BY <1>2, <2>2, <3>1, SplitFacts
    <3>3. \A i \in 1..Len(t) : i < Len(t) => \A j \in 1..(i - 1) : t[j].op = "ensure"
      BY <3>2
    <3>4. QED
      BY <3>2, <3>3
  <2>3. QED
    BY <1>4, <2>1, <2>2
<1>8. TypeOK'
  <2>1. Fine \/ Trouble
    BY DEF Split
  <2>2. s \in Complete \cup Incomplete
    BY DEF Complete, Incomplete
  <2>3. QED
    BY <1>1, <1>4, <1>5, <1>6, <1>7, <2>1, <2>2, AtHead, TaskType
<1>9. \A k \in 1..Len(t) : TaskInv(k)'
  <2> SUFFICES ASSUME NEW k \in 1..Len(t) PROVE TaskInv(k)'
    OBVIOUS
  <2>1. todo'[k] = t[k] /\ \A j \in 1..(k - 1) : todo'[j] = t[j]
    <3>1. \A j \in 1..Len(t) : todo'[j] = t[j]
      BY <1>1, <1>4, <1>7, AtHead, ThenShape
    <3>2. \A j \in 1..(k - 1) : j \in 1..Len(t)
      BY <1>7
    <3>3. QED
      BY <3>1, <3>2
  <2>2. CASE t[k].op = "finish" /\ t[k].row = Row
    BY <1>1, <1>2, <1>6, <2>1, <2>2 DEF TaskInv, Done, Complete
  <2>3. CASE t[k].op = "ensure" /\ t[k].row \in KidRows(Row)
    <3>1. status[t[k].row] = "none" /\ t[k].row \in Rows
      BY <1>2, <2>3 DEF Children, KidRows
    <3>2. status'[t[k].row] = "none"
      BY <1>6, <3>1
    <3>3. \A j \in 1..(k - 1) : todo'[j].op = "ensure"
      BY <1>7, <2>1, <2>3
    <3>4. QED
      BY <1>1, <1>2, <2>1, <2>3, <3>2, <3>3 DEF TaskInv
  <2>4. QED
    BY <1>7, <2>2, <2>3
<1>10. RunInv' /\ StackInv' /\ \A k \in DOMAIN todo' : TaskInv(k)'
  <2>1. status'[Row] # "none"
    BY <1>6
  <2>2. \A i \in 1..Len(t) :
           \/ t[i].row = Row
           \/ /\ t[i].row \in KidRows(Row)
              /\ \E j \in 1..Len(t) : i < j /\ t[j].op = "finish" /\ t[j].row = Row
    BY <1>7
  <2>3. QED
    BY <1>1, <1>3, <1>4, <1>6, <1>7, <1>9, <2>1, <2>2, AtHead, StackStep
<1>11. \A k \in KidRows(Row) : OnList(k)'
  <2> SUFFICES ASSUME NEW k \in KidRows(Row) PROVE OnList(k)'
    OBVIOUS
  <2>1. PICK i \in 1..Len(t) : t[i].op = "ensure" /\ t[i].row = k
    BY <1>7
  <2>2. i \in DOMAIN todo' /\ todo'[i] = t[i]
    BY <1>1, <1>4, <1>7, AtHead, ThenShape
  <2>3. QED
    BY <2>1, <2>2 DEF OnList
<1>12. ASSUME NEW k \in Rows, k \notin KidRows(Row)
       PROVE  OnList(k)' <=> OnList(k)
  <2>1. ASSUME NEW i \in DOMAIN todo', todo'[i].op = "ensure"
        PROVE  todo'[i].row # k
    <3>1. DOMAIN todo' = 1..(Len(t) + Len(todo) - 1) /\ Len(todo) \in Nat
      BY <1>1, <1>4, <1>7, AtHead, ThenShape
    <3>2. CASE i <= Len(t)
      <4>1. i \in 1..Len(t) /\ todo'[i] = t[i]
        BY <1>1, <1>4, <1>7, <3>1, <3>2, AtHead, ThenShape
      <4>2. QED
        BY <1>7, <1>12, <2>1, <4>1
    <3>3. CASE i > Len(t)
      <4>1. PICK m \in DOMAIN todo : todo'[i] = todo[m]
        BY <1>1, <1>4, <1>7, <3>3, AtHead, ThenShape
      <4>2. QED
        BY <1>3, <2>1, <4>1
    <3>4. QED
      BY <1>7, <3>1, <3>2, <3>3
  <2>2. QED
    BY <1>3, <1>6, <2>1 DEF OnList
<1>13. TreeInv'
  <2>1. ASSUME NEW r \in Rows \ torn', NEW k \in KidRows(r), NEW l \in KidRows(r), OnList(k)'
        PROVE  OnList(l)'
    <3>1. CASE r = Row
      BY <1>11, <3>1
    <3>2. CASE r # Row
      <4>1. k \in Rows /\ l \in Rows /\ k \notin KidRows(Row) /\ l \notin KidRows(Row)
        BY <1>2, <3>2, KidFacts
      <4>2. OnList(k)
        BY <1>12, <2>1, <4>1
      <4>3. OnList(l)
        BY <1>1, <2>1, <4>2, AtHead DEF TreeInv
      <4>4. QED
        BY <1>12, <4>1, <4>3
    <3>3. QED
      BY <3>1, <3>2
  <2>2. \A r \in Rows : Children(r)' # {} => r \in counted'
    BY <1>1, <1>6, AtHead DEF TreeInv
  <2>3. \A r \in Rows : status'[r] = "INCOMPLETE_OVERSIZE_UNSPLITTABLE" => KidRows(r) = {}
    BY <1>1, <1>5, <1>6, AtHead DEF TreeInv
  <2>4. \A r \in Rows : status'[r] # "none" => \E q \in Roots : newest'[q] # 0
    BY <1>1, <1>6, AtHead DEF TreeInv
  <2>5. QED
    BY <2>1, <2>2, <2>3, <2>4 DEF TreeInv
<1>14. NothingIncompleteBelow'
  <2>1. \A r \in Rows : Done(r) => Done(r)'
    BY <1>2, <1>6 DEF Done, Complete
  <2>2. \A r \in Rows : Done(r)' => Done(r) \/ \A k \in Children(r) : Done(k)
    BY <1>2, <1>6 DEF Done
  <2>3. QED
    BY <1>6, <2>1, <2>2, DoneKept DEF CoverageInv
<1>15. PassInv'
  BY <1>1, <1>2, <1>4, <1>7, AtHead, PassKept DEF CoverageInv
<1>16. QED
  BY <1>1, <1>6, <1>8, <1>10, <1>13, <1>14, <1>15, TaskStep

LEMMA EnsureKeeps ==
    ASSUME CoverageInv, Ensure
    PROVE  CoverageInv'
<1>0. PICK q \in Rows : q = Row
  BY AtHead DEF Ensure, At
<1> DEFINE x == [op |-> "visit", row |-> q]
           t == <<x>>
<1>1. /\ todo # <<>> /\ todo[1].op = "ensure" /\ Then(t)
      /\ UNCHANGED <<counted, newest, run, torn, short, trouble>>
  BY <1>0, AtHead DEF Ensure, At
<1>2. status[Row] = "none" /\ run.spent /\ Row \in Rows /\ Row \notin counted /\ Children(Row) = {}
  BY <1>1, AtHead, NoRecord DEF TaskInv
<1>3. /\ status'[Row] = "PENDING"
      /\ \A r \in Rows : r # Row => status'[r] = status[r]
      /\ Set(Row, "PENDING")
  BY <1>1, <1>2, AtHead DEF Ensure, Set, TypeOK
<1>4. PICK p \in Rows : Row \in KidRows(p) /\ p \in counted /\ ~Done(p) /\ status[p] # "none"
  <2>1. Row # Base
    BY <1>1, <1>2, AtHead DEF RunInv
  <2>2. PICK j \in DOMAIN todo : todo[j].op = "finish" /\ Row \in KidRows(todo[j].row)
    BY <1>1, <2>1, AtHead DEF StackInv, Parented
  <2>3. TaskInv(j) /\ todo[j].row \in Rows
    BY <1>1, <2>2, AtHead, HeadFacts
  <2>4. todo[j].row \in counted /\ ~Done(todo[j].row)
    BY <2>2, <2>3 DEF TaskInv
  <2>5. status[todo[j].row] # "none"
    BY <1>1, <2>4, AtHead DEF TypeOK
  <2>6. QED
    BY <2>2, <2>3, <2>4, <2>5
<1>5. x \in Task /\ x.row = q /\ x.op = "visit"
  BY DEF Task
<1> HIDE DEF x
<1>6. t \in Seq(Task) /\ Len(t) = 1 /\ t[1] = x /\ \A i \in 1..Len(t) : i = 1
  BY <1>5, OneTask
<1> HIDE DEF t
<1>7. /\ \A r \in Rows : r # p => Children(r)' = Children(r)
      /\ Children(p)' = Children(p) \cup {Row}
      /\ Children(q)' = {}
  <2>1. \A r \in Rows : r # p => Row \notin KidRows(r)
    BY <1>4, KidFacts
  <2>2. \A r \in Rows : r # p => Children(r)' = Children(r)
    BY <1>3, <2>1 DEF Children, KidRows
  <2>3. Children(p)' = Children(p) \cup {Row}
    BY <1>2, <1>3, <1>4 DEF Children, KidRows
  <2>4. p # Row
    BY <1>2, <1>4
  <2>5. QED
    BY <1>0, <1>2, <2>2, <2>3, <2>4
<1>8. TypeOK'
  BY <1>1, <1>3, <1>6, AtHead, TaskType DEF Fine, Incomplete
<1>9. Fresh(t[1].row)'
  <2>1. t[1].row = q
    BY <1>5, <1>6
  <2>2. Fresh(t[1].row)' <=> (status'[q] = "PENDING" /\ q \notin counted' /\ Children(q)' = {})
    BY <2>1 DEF Fresh, Children, KidRows
  <2>3. QED
    BY <1>0, <1>1, <1>2, <1>3, <1>7, <2>2
<1>10. \A k \in 1..Len(t) : TaskInv(k)'
  <2>1. todo'[1] = x
    BY <1>1, <1>6, AtHead, ThenShape
  <2>2. TaskInv(1)'
    <3>1. todo'[1].op = "visit" /\ status'[todo'[1].row] # "none"
      BY <1>0, <1>3, <1>5, <2>1
    <3>2. QED
      BY <3>1 DEF TaskInv
  <2>3. QED
    BY <1>6, <2>2
<1>11. RunInv' /\ StackInv' /\ \A k \in DOMAIN todo' : TaskInv(k)'
  <2>1. t[1].row = Row /\ t[1].op = "visit" /\ status'[Row] # "none"
    BY <1>0, <1>3, <1>5, <1>6
  <2>2. \A i, j \in 1..Len(t) : i # j => t[i].row # t[j].row
    BY <1>6
  <2>3. \A i \in 1..Len(t) : t[i].row = Row
    BY <1>6, <2>1
  <2>4. QED
    BY <1>1, <1>3, <1>6, <1>9, <1>10, <2>1, <2>2, <2>3, AtHead, StackStep
<1>12. \A k \in Rows : OnList(k)' <=> OnList(k)
  <2> SUFFICES ASSUME NEW k \in Rows PROVE OnList(k)' <=> OnList(k)
    OBVIOUS
  <2>1. ASSUME NEW j \in DOMAIN todo', todo'[j].op = "ensure", todo'[j].row = k
        PROVE  OnList(k)
    <3> TypeOK /\ todo # <<>> /\ Then(t) /\ t \in Seq(Task)
      BY <1>1, <1>6, AtHead
    <3>1. todo'[1] = x /\ DOMAIN todo' = 1..(Len(t) + Len(todo) - 1) /\ Len(todo) \in Nat
      <4>1. \A i \in 1..Len(t) : todo'[i] = t[i]
        BY ThenShape
      <4>2. DOMAIN todo' = 1..(Len(t) + Len(todo) - 1) /\ Len(todo) \in Nat
        BY ThenShape, HeadFacts
      <4>3. QED
        BY <1>6, <4>1, <4>2
    <3>2. j > Len(t)
      BY <1>5, <1>6, <2>1, <3>1
    <3>3. PICK m \in DOMAIN todo : todo'[j] = todo[m]
      BY <3>2, ThenShape
    <3>4. QED
      BY <2>1, <3>3 DEF OnList
  <2>2. ASSUME NEW m \in DOMAIN todo, todo[m].op = "ensure", todo[m].row = k
        PROVE  OnList(k)'
    <3>1. CASE m = 1
      BY <1>1, <1>3, <2>2, <3>1, AtHead DEF OnList
    <3>2. CASE m # 1
      <4>1. m > 1
        BY <1>1, <3>2, AtHead
      <4>2. QED
        BY <1>1, <1>6, <2>2, <4>1, AtHead, ThenShape DEF OnList
    <3>3. QED
      BY <3>1, <3>2
  <2>3. CASE k = Row
    BY <1>1, <1>3, <2>3, AtHead DEF OnList
  <2>4. CASE k # Row
    BY <1>3, <2>1, <2>2, <2>4 DEF OnList
  <2>5. QED
    BY <2>3, <2>4
<1>13. TreeInv'
  <2>1. \A r \in Rows : Children(r)' # {} => r \in counted'
    BY <1>1, <1>4, <1>7, AtHead DEF TreeInv
  <2>2. \A r \in Rows : status'[r] = "INCOMPLETE_OVERSIZE_UNSPLITTABLE" => KidRows(r) = {}
    BY <1>1, <1>3, AtHead DEF TreeInv
  <2>3. \A r \in Rows : status'[r] # "none" => \E s \in Roots : newest'[s] # 0
    BY <1>1, <1>3, <1>4, AtHead DEF TreeInv
  <2>4. \A r \in Rows \ torn' : \A k, l \in KidRows(r) : OnList(k)' => OnList(l)'
    <3>1. \A r \in Rows : KidRows(r) \subseteq Rows
      BY DEF KidRows
    <3>2. QED
      BY <1>1, <1>12, <3>1, AtHead DEF TreeInv
  <2>5. QED
    BY <2>1, <2>2, <2>3, <2>4 DEF TreeInv
<1>14. NothingIncompleteBelow'
  <2> SUFFICES ASSUME NEW r \in Rows, Done(r)', NEW k \in Children(r)' PROVE Done(k)'
    BY DEF NothingIncompleteBelow
  <2>1. r # Row
    BY <1>3 DEF Done, Complete
  <2>2. Done(r) /\ r # p
    BY <1>3, <1>4, <2>1 DEF Done
  <2>3. k \in Children(r) /\ k \in Rows /\ status[k] # "none"
    BY <1>7, <2>2 DEF Children, KidRows
  <2>4. Done(k)
    BY <2>2, <2>3 DEF CoverageInv, NothingIncompleteBelow
  <2>5. QED
    BY <1>2, <1>3, <2>3, <2>4 DEF Done
<1>15. Rooted'
  <2> SUFFICES ASSUME NEW r \in Rows, status'[r] # "none"
               PROVE  \E s \in Roots : r \in Below(<<r[1], s>>)
    BY DEF Rooted
  <2>1. CASE r # Row
    BY <1>3, <2>1 DEF CoverageInv, Rooted
  <2>2. CASE r = Row
    <3>1. PICK s \in Roots : p \in Below(<<p[1], s>>)
      BY <1>4 DEF CoverageInv, Rooted
    <3>2. Row[1] = p[1]
      BY <1>4, KidFacts
    <3>3. QED
      BY <1>4, <2>2, <3>1, <3>2, BelowKid
  <2>3. QED
    BY <2>1, <2>2
<1>16. PassInv'
  BY <1>1, <1>2, <1>6, AtHead, PassKept DEF CoverageInv
<1>17. BlockedMeansNothingToDo'
  BY <1>1, AtHead DEF BlockedMeansNothingToDo
<1>18. QED
  BY <1>8, <1>11, <1>13, <1>14, <1>15, <1>16, <1>17 DEF CoverageInv

LEMMA FinishKeeps ==
    ASSUME CoverageInv, Finish
    PROVE  CoverageInv'
<1> DEFINE t == <<>>
<1>1. /\ todo # <<>> /\ todo[1].op = "finish" /\ Then(t) /\ Aggregate(Row)
      /\ UNCHANGED <<counted, newest, run, torn>>
  BY AtHead DEF Finish, At
<1>2. t \in Seq(Task) /\ Len(t) = 0 /\ 1..Len(t) = {}
  BY EmptyThen
<1> HIDE DEF t
<1>3. Row \in counted /\ ~Done(Row) /\ status[Row] # "none" /\ Row \in Rows
  BY <1>1, AtHead DEF TaskInv, TypeOK
<1>4. PICK s \in {"INCOMPLETE_CHILD_COVERAGE", "COMPLETE_INCREMENTAL", "COMPLETE_BY_PARTITION"} :
         Set(Row, s) /\ (s # "INCOMPLETE_CHILD_COVERAGE" => ChildrenDone(Row))
  BY <1>1 DEF Aggregate, Enough, TooFew
<1>5. (Fine \/ Trouble) /\ (short' = short \/ short' = short \cup {Row})
  BY <1>1 DEF Aggregate, Enough, TooFew
<1>6. /\ status'[Row] = s
      /\ \A r \in Rows : r # Row => status'[r] = status[r]
      /\ \A r \in Rows : status'[r] = "none" <=> status[r] = "none"
      /\ \A r \in Rows : Children(r)' = Children(r)
  BY <1>1, <1>3, <1>4, AtHead, SetFacts
<1>7. TypeOK'
  <2>1. s \in Complete \cup Incomplete
    BY DEF Complete, Incomplete
  <2>2. QED
    BY <1>1, <1>2, <1>4, <1>5, <1>6, <2>1, AtHead, TaskType
<1>8. RunInv' /\ StackInv' /\ \A k \in DOMAIN todo' : TaskInv(k)'
  BY <1>1, <1>2, <1>6, AtHead, StackStep
<1>9. TreeInv'
  <2>1. \A r \in Rows : status'[r] = "INCOMPLETE_OVERSIZE_UNSPLITTABLE" =>
                           status[r] = "INCOMPLETE_OVERSIZE_UNSPLITTABLE"
    BY <1>6
  <2>2. QED
    BY <1>1, <1>2, <1>6, <2>1, AtHead, ListKept, TreeKept
<1>10. NothingIncompleteBelow'
  <2>1. \A r \in Rows : Done(r) => Done(r)'
    BY <1>3, <1>6 DEF Done
  <2>2. \A r \in Rows : Done(r)' => Done(r) \/ \A k \in Children(r) : Done(k)
    BY <1>4, <1>6 DEF Done, Complete, ChildrenDone
  <2>3. QED
    BY <1>6, <2>1, <2>2, DoneKept DEF CoverageInv
<1>11. PassInv'
  <2>1. PassInv /\ TypeOK /\ run.phase = "state"
    BY <1>1, AtHead DEF CoverageInv
  <2>2. CASE run.spent \/ run.progress
    BY <1>1, <1>2, <2>1, <2>2, PassKept
  <2>3. CASE ~run.spent /\ ~run.progress
    <3>1. Children(Row) # {}
      BY <1>1, <2>1, <2>3, AtHead DEF PassInv
    <3>2. \A r \in Rows : Unfinished(r)' => Unfinished(r)
      BY <1>1, <1>6, <3>1 DEF Unfinished, Settled, Done
    <3>3. QED
      BY <1>1, <1>2, <1>6, <2>1, <2>3, <3>2, PassKept
  <2>4. QED
    BY <2>2, <2>3
<1>12. QED
  BY <1>1, <1>6, <1>7, <1>8, <1>9, <1>10, <1>11, TaskStep
-----------------------------------------------------------------------------
(* The run.                                                                *)

\* With no statement left, what is on a list of children is on record.
LEMMA EmptyStack ==
    ASSUME todo' = <<>>
    PROVE  /\ StackInv' /\ (\A k \in DOMAIN todo' : TaskInv(k)')
           /\ \A k \in Rows : OnList(k)' <=> status'[k] # "none"
<1>1. DOMAIN todo' = {}
  OBVIOUS
<1>2. QED
  BY <1>1 DEF StackInv, OnList

\* Between runs there is nothing to account for.
LEMMA RunEnds ==
    ASSUME run' = NoRun, todo' = <<>>
    PROVE  /\ RunInv' /\ PassInv' /\ BlockedMeansNothingToDo'
           /\ StackInv' /\ (\A k \in DOMAIN todo' : TaskInv(k)')
BY EmptyStack DEF NoRun, RunInv, PassInv, BlockedMeansNothingToDo

\* A reset leaves nothing but roots to inspect.
LEMMA ResetKeeps ==
    ASSUME TypeOK, TreeInv, Rooted, Reset, newest' = newest, todo' = <<>>
    PROVE  TreeInv' /\ NothingIncompleteBelow' /\ Rooted'
<1>1. /\ status' = Emptied /\ counted' = {}
      /\ \A r \in Rows : status'[r] # "none" =>
            status[r] # "none" /\ r[2] \in Roots /\ status'[r] = "PENDING"
  BY DEF Reset, Emptied
<1>2. \A r \in Rows : \A k \in KidRows(r) : status'[k] = "none"
  BY <1>1, KidFacts
<1>3. \A r \in Rows : Children(r)' = {}
  BY <1>2 DEF Children, KidRows
<1>4. \A r \in Rows : \A k \in KidRows(r) : ~OnList(k)'
  BY <1>2, EmptyStack, KidFacts
<1>5. TreeInv'
  <2>1. \A r \in Rows : Children(r)' # {} => r \in counted'
    BY <1>3
  <2>2. \A r \in Rows : status'[r] = "INCOMPLETE_OVERSIZE_UNSPLITTABLE" => KidRows(r) = {}
    BY <1>1
  <2>3. \A r \in Rows : status'[r] # "none" => \E q \in Roots : newest'[q] # 0
    BY <1>1 DEF TreeInv
  <2>4. \A r \in Rows \ torn' : \A k, l \in KidRows(r) : OnList(k)' => OnList(l)'
    BY <1>4
  <2>5. QED
    BY <2>1, <2>2, <2>3, <2>4 DEF TreeInv
<1>6. NothingIncompleteBelow'
  BY <1>3 DEF NothingIncompleteBelow
<1>7. Rooted'
  BY <1>1 DEF Rooted
<1>8. QED
  BY <1>5, <1>6, <1>7

\* A step that leaves rows, roots and an empty stack alone keeps the tree.
LEMMA RowsKept ==
    ASSUME TreeInv, NothingIncompleteBelow, Rooted, UNCHANGED <<status, counted, newest, torn, todo>>
    PROVE  TreeInv' /\ NothingIncompleteBelow' /\ Rooted'
<1>1. \A r \in Rows : Children(r)' = Children(r)
  BY SameRows
<1>2. NothingIncompleteBelow'
  BY <1>1 DEF NothingIncompleteBelow, Done
<1>3. Rooted'
  BY DEF Rooted
<1>4. \A k \in Rows : OnList(k)' <=> OnList(k)
  BY DEF OnList
<1>5. TreeInv'
  BY <1>4, TreeKept
<1>6. QED
  BY <1>2, <1>3, <1>5

\* Every row of the window of a run is ahead of a pass that begins.
LEMMA AllAhead ==
    ASSUME Rooted', NEW r \in Rows, Unfinished(r)'
    PROVE  Ahead(r, 1)'
<1>1. PICK s \in Roots : r \in Below(<<r[1], s>>)
  BY DEF Rooted, Unfinished
<1>2. PICK j \in DOMAIN States : States[j] = s
  BY DEF Roots, ToSet
<1>3. 1 <= j
  BY CoverageConstants
<1>4. r[1] = run'.days
  BY DEF Unfinished
<1>5. QED
  BY <1>1, <1>2, <1>3, <1>4 DEF Ahead

LEMMA StartRunKeeps ==
    ASSUME CoverageInv, NEW w \in Windows, StartRun(w)
    PROVE  CoverageInv'
<1>1. TypeOK /\ RunInv /\ TreeInv /\ NothingIncompleteBelow /\ Rooted
  BY DEF CoverageInv
<1>2. /\ run' = [NoRun EXCEPT !.phase = "pass", !.days = w, !.at = 1]
      /\ newest' = newest /\ todo' = todo /\ todo = <<>>
      /\ Reset \/ UNCHANGED <<status, counted, torn, short>>
  BY <1>1 DEF StartRun, RunInv
<1>3. TypeOK'
  BY <1>1, StartRunType
<1>4. TreeInv' /\ NothingIncompleteBelow' /\ Rooted'
  BY <1>1, <1>2, ResetKeeps, RowsKept
<1>5. RunInv'
  BY <1>2 DEF RunInv, NoRun
<1>6. StackInv' /\ \A k \in DOMAIN todo' : TaskInv(k)'
  BY <1>2, EmptyStack
<1>7. PassInv'
  <2>1. run'.phase = "pass" /\ run'.at = 1
    BY <1>2 DEF NoRun
  <2>2. \A r \in Rows : Unfinished(r)' => Ahead(r, 1)'
    BY <1>4, AllAhead
  <2>3. \A r \in Rows : Unfinished(r)' => Ahead(r, run.at)'
    BY <2>1, <2>2 DEF Ahead
  <2>4. QED
    BY <2>1, <2>3 DEF PassInv
<1>8. BlockedMeansNothingToDo'
  BY <1>2 DEF BlockedMeansNothingToDo, NoRun
<1>9. QED
  BY <1>3, <1>4, <1>5, <1>6, <1>7, <1>8 DEF CoverageInv

LEMMA BeginStateKeeps ==
    ASSUME CoverageInv, BeginState
    PROVE  CoverageInv'
<1>1. TypeOK /\ RunInv /\ TreeInv /\ NothingIncompleteBelow /\ Rooted /\ PassInv
  BY DEF CoverageInv
<1>2. /\ run.phase = "pass" /\ todo = <<>> /\ run.days \in Windows
      /\ run.at \in Nat /\ run.at # 0 /\ run.at <= Len(States)
      /\ run' = [run EXCEPT !.phase = "state", !.spent = FALSE]
      /\ UNCHANGED <<counted, torn, short, trouble>>
  BY <1>1, CoverageConstants DEF BeginState, RunInv, TypeOK
<1>3. PICK s \in Roots : s = States[run.at] /\ run.at \in DOMAIN States
  BY <1>2, CoverageConstants DEF Roots, ToSet
<1>4. s \in Nodes
  BY <1>3, CoverageConstants DEF Roots, ToSet
<1>5. PICK q \in Rows : q = <<run.days, s>> /\ q = Base /\ q[2] = s
  <2>1. <<run.days, s>> \in Rows
    BY <1>2, <1>4 DEF Rows
  <2>2. <<run.days, s>> = Base
    BY <1>3 DEF Base
  <2>3. <<run.days, s>>[2] = s
    OBVIOUS
  <2>4. QED
    BY <2>1, <2>2, <2>3
<1>6. /\ todo' = <<[op |-> "visit", row |-> q]>>
      /\ IF status[q] = "none"
         THEN status' = [status EXCEPT ![q] = "PENDING"] /\ newest' = [newest EXCEPT ![s] = run.days]
         ELSE UNCHANGED <<status, newest>>
  BY <1>3, <1>5 DEF BeginState
<1>7. TypeOK'
  BY PassType
<1>8. /\ run'.phase = "state" /\ run'.days = run.days /\ run'.at = run.at
      /\ run'.progress = run.progress /\ ~run'.spent
  BY <1>1, <1>2 DEF TypeOK
<1>9. Base' = q
  BY <1>5, <1>8 DEF Base
<1>10. /\ status'[q] # "none"
       /\ \A x \in Rows : x # q => status'[x] = status[x]
       /\ status[q] # "none" => status'[q] = status[q]
       /\ status[q] = "none" => status'[q] = "PENDING"
  BY <1>1, <1>6 DEF TypeOK
<1>11. \A x \in Rows : q \notin KidRows(x)
  BY <1>3, <1>5, KidFacts
<1>12. \A x \in Rows : Children(x)' = Children(x)
  BY <1>10, <1>11 DEF Children, KidRows
<1>13. DOMAIN todo' = {1} /\ todo'[1].op = "visit" /\ todo'[1].row = q
  BY <1>6
<1>14. RunInv'
  BY <1>2, <1>3, <1>8, <1>9, <1>10 DEF RunInv
<1>15. StackInv'
  BY <1>9, <1>13 DEF StackInv, Parented
<1>16. \A k \in DOMAIN todo' : TaskInv(k)'
  BY <1>10, <1>13 DEF TaskInv
<1>17. TreeInv'
  <2>1. ASSUME NEW x \in Rows, NEW k \in KidRows(x)
        PROVE  OnList(k)' <=> OnList(k)
    <3>1. k \in Rows /\ k # q
      BY <1>11, <2>1, KidFacts
    <3>2. status'[k] = status[k]
      BY <1>10, <3>1
    <3>3. OnList(k) <=> status[k] # "none"
      BY <1>2 DEF OnList
    <3>4. OnList(k)' <=> status'[k] # "none"
      BY <1>13 DEF OnList
    <3>5. QED
      BY <3>2, <3>3, <3>4
  <2>2. \A x \in Rows \ torn' : \A k, l \in KidRows(x) : OnList(k)' => OnList(l)'
    BY <1>1, <1>2, <2>1 DEF TreeInv
  <2>3. \A x \in Rows : Children(x)' # {} => x \in counted'
    BY <1>1, <1>2, <1>12 DEF TreeInv
  <2>4. \A x \in Rows : status'[x] = "INCOMPLETE_OVERSIZE_UNSPLITTABLE" => KidRows(x) = {}
    BY <1>1, <1>10 DEF TreeInv
  <2>5. ASSUME NEW x \in Rows, status'[x] # "none"
        PROVE  \E y \in Roots : newest'[y] # 0
    <3>1. CASE status[q] = "none"
      <4>1. newest'[s] = run.days
        BY <1>1, <1>3, <1>6, <3>1 DEF TypeOK
      <4>2. QED
        BY <1>2, <1>3, <4>1, CoverageConstants
    <3>2. CASE status[q] # "none"
      BY <1>1, <1>6, <3>2 DEF TreeInv
    <3>3. QED
      BY <3>1, <3>2
  <2>6. QED
    BY <2>2, <2>3, <2>4, <2>5 DEF TreeInv
<1>18. NothingIncompleteBelow'
  <2> SUFFICES ASSUME NEW x \in Rows, Done(x)', NEW k \in Children(x)' PROVE Done(k)'
    BY DEF NothingIncompleteBelow
  <2>1. k \in Children(x) /\ k \in Rows /\ k # q
    BY <1>11, <1>12, KidFacts DEF Children
  <2>2. Done(x)
    BY <1>10 DEF Done, Complete
  <2>3. Done(k)
    BY <1>1, <2>1, <2>2 DEF NothingIncompleteBelow
  <2>4. QED
    BY <1>10, <2>1, <2>3 DEF Done
<1>19. Rooted'
  <2> SUFFICES ASSUME NEW x \in Rows, status'[x] # "none"
               PROVE  \E y \in Roots : x \in Below(<<x[1], y>>)
    BY DEF Rooted
  <2>1. CASE x # q
    BY <1>1, <1>10, <2>1 DEF Rooted
  <2>2. CASE x = q
    <3>1. x = <<x[1], s>>
      BY <1>5, <2>2
    <3>2. QED
      BY <1>3, <3>1, BelowSelf
  <2>3. QED
    BY <2>1, <2>2
<1>20. PassInv'
  <2> SUFFICES ASSUME ~run.progress
               PROVE  \A x \in Rows : Unfinished(x)' =>
                         \/ Ahead(x, run.at + 1)'
                         \/ \E k \in DOMAIN todo' : todo'[k].op = "visit" /\ x \in Below(todo'[k].row)
    BY <1>8, <1>13 DEF PassInv
  <2> SUFFICES ASSUME NEW x \in Rows, Unfinished(x)', x \notin Below(q)
               PROVE  Ahead(x, run.at + 1)'
    BY <1>13
  <2>1. x # q
    BY BelowSelf
  <2>2. Unfinished(x)
    BY <1>8, <1>10, <1>12, <2>1 DEF Unfinished, Settled, Done
  <2>3. PICK j \in DOMAIN States : run.at <= j /\ x \in Below(<<run.days, States[j]>>)
    BY <1>1, <1>2, <2>2 DEF PassInv, Ahead
  <2>4. j # run.at
    BY <1>3, <1>5, <2>3
  <2>5. run.at + 1 <= j
    BY <1>2, <2>3, <2>4, CoverageConstants
  <2>6. QED
    BY <1>8, <2>3, <2>5 DEF Ahead
<1>21. BlockedMeansNothingToDo'
  BY <1>8 DEF BlockedMeansNothingToDo
<1>22. QED
  BY <1>7, <1>14, <1>15, <1>16, <1>17, <1>18, <1>19, <1>20, <1>21 DEF CoverageInv

LEMMA EndStateKeeps ==
    ASSUME CoverageInv, EndState
    PROVE  CoverageInv'
<1>1. TypeOK /\ RunInv /\ TreeInv /\ NothingIncompleteBelow /\ Rooted /\ PassInv
  BY DEF CoverageInv
<1>2. /\ run.phase = "state" /\ todo = <<>>
      /\ UNCHANGED <<status, counted, newest, todo, torn, short, trouble>>
  BY DEF EndState
<1>3. /\ run'.phase = "pass" /\ run'.days = run.days /\ run'.at = run.at + 1
      /\ run'.progress = (run.progress \/ run.spent)
      /\ run.at \in Nat
  BY <1>1, CoverageConstants DEF EndState, TypeOK
<1>4. TypeOK'
  BY PassType
<1>5. TreeInv' /\ NothingIncompleteBelow' /\ Rooted'
  BY <1>1, <1>2, RowsKept
<1>6. StackInv' /\ \A k \in DOMAIN todo' : TaskInv(k)'
  BY <1>2, EmptyStack
<1>7. RunInv'
  BY <1>1, <1>2, <1>3 DEF RunInv
<1>8. PassInv'
  <2> SUFFICES ASSUME ~run.progress, ~run.spent, NEW r \in Rows, Unfinished(r)'
               PROVE  Ahead(r, run.at)'
    BY <1>3 DEF PassInv
  <2>1. Unfinished(r)
    <3>1. Children(r)' = Children(r)
      BY <1>2, SameRows
    <3>2. QED
      BY <1>2, <1>3, <3>1 DEF Unfinished, Settled, Done
  <2>2. Ahead(r, run.at + 1)
    BY <1>1, <1>2, <2>1 DEF PassInv
  <2>3. QED
    BY <1>3, <2>2 DEF Ahead
<1>9. BlockedMeansNothingToDo'
  BY <1>3 DEF BlockedMeansNothingToDo
<1>10. QED
  BY <1>4, <1>5, <1>6, <1>7, <1>8, <1>9 DEF CoverageInv

LEMMA EndPassKeeps ==
    ASSUME CoverageInv, EndPass
    PROVE  CoverageInv'
<1>1. TypeOK /\ RunInv /\ TreeInv /\ NothingIncompleteBelow /\ Rooted /\ PassInv
  BY DEF CoverageInv
<1>2. /\ run.phase = "pass" /\ run.at = Len(States) + 1 /\ todo = <<>>
      /\ UNCHANGED <<status, counted, newest, todo, torn, short, trouble>>
  BY <1>1 DEF EndPass, RunInv
<1>3. TypeOK'
  BY PassType
<1>4. TreeInv' /\ NothingIncompleteBelow' /\ Rooted'
  BY <1>1, <1>2, RowsKept
<1>5. StackInv' /\ \A k \in DOMAIN todo' : TaskInv(k)'
  BY <1>2, EmptyStack
<1>6. CASE run.progress
  <2>1. run'.phase = "pass" /\ run'.at = 1 /\ run'.days = run.days
    BY <1>1, <1>6 DEF EndPass, PassProgress, TypeOK
  <2>2. RunInv'
    BY <1>1, <1>2, <2>1 DEF RunInv
  <2>3. \A r \in Rows : Unfinished(r)' => Ahead(r, 1)'
    BY <1>4, AllAhead
  <2>4. \A r \in Rows : Unfinished(r)' => Ahead(r, run.at)'
    BY <2>1, <2>3 DEF Ahead
  <2>5. PassInv'
    BY <2>1, <2>4 DEF PassInv
  <2>6. BlockedMeansNothingToDo'
    BY <2>1 DEF BlockedMeansNothingToDo
  <2>7. QED
    BY <1>3, <1>4, <1>5, <2>2, <2>5, <2>6 DEF CoverageInv
<1>7. CASE ~run.progress
  <2>1. run'.phase = "blocked" /\ run'.at = run.at /\ run'.days = run.days
    BY <1>1, <1>7 DEF EndPass, PassProgress, TypeOK
  <2>2. RunInv'
    BY <1>1, <1>2, <2>1 DEF RunInv
  <2>3. PassInv'
    BY <2>1 DEF PassInv
  <2>4. \A r \in Rows : ~Unfinished(r)
    <3> SUFFICES ASSUME NEW r \in Rows, Unfinished(r) PROVE FALSE
      OBVIOUS
    <3>1. PICK j \in DOMAIN States : run.at <= j
      BY <1>1, <1>2, <1>7 DEF PassInv, Ahead
    <3>2. QED
      BY <1>2, <3>1, CoverageConstants
  <2>5. BlockedMeansNothingToDo'
    <3> SUFFICES ASSUME NEW r \in Rows, r[1] = run'.days, status'[r] # "none", Children(r)' = {}
                 PROVE  Settled(r)'
      BY DEF BlockedMeansNothingToDo
    <3>1. Children(r) = {}
      BY <1>2, SameRows
    <3>2. Settled(r)
      BY <1>2, <2>1, <2>4, <3>1 DEF Unfinished
    <3>3. QED
      BY <1>2, <3>2 DEF Settled, Done
  <2>6. QED
    BY <1>3, <1>4, <1>5, <2>2, <2>3, <2>5 DEF CoverageInv
<1>8. QED
  BY <1>6, <1>7

LEMMA EndKeeps ==
    ASSUME CoverageInv, EndComplete \/ EndBlocked
    PROVE  CoverageInv'
<1>1. TypeOK /\ RunInv /\ TreeInv /\ NothingIncompleteBelow /\ Rooted
  BY DEF CoverageInv
<1>2. /\ todo = <<>> /\ todo' = todo /\ run' = NoRun /\ newest' = newest
      /\ Reset \/ UNCHANGED <<status, counted, torn, short>>
  BY <1>1 DEF EndComplete, EndBlocked, Rollover, RunInv
<1>3. TypeOK'
  BY PassType
<1>4. TreeInv' /\ NothingIncompleteBelow' /\ Rooted'
  BY <1>1, <1>2, ResetKeeps, RowsKept
<1>5. QED
  BY <1>2, <1>3, <1>4, RunEnds DEF CoverageInv
-----------------------------------------------------------------------------
(* What goes wrong.                                                        *)

LEMMA NoRunType ==
    /\ NoRun \in [phase : {"idle", "pass", "state", "blocked"}, days : Windows \cup {0},
                  at : 0..Len(States) + 1, spent : BOOLEAN, progress : BOOLEAN]
    /\ <<>> \in Seq(Task)
<1>1. 0 \in 0..(Len(States) + 1)
  BY CoverageConstants
<1>2. QED
  BY <1>1 DEF NoRun

\* What an exception marks was on record and not complete.
LEMMA MarkedRows ==
    ASSUME CoverageInv, Raise
    PROVE  /\ todo # <<>>
           /\ \A r \in Rows : r = Row \/ r \in Callers => status[r] # "none" /\ ~Done(r)
           /\ \A m \in DOMAIN todo : todo[m].op # "ensure"
<1>1. /\ todo # <<>>
      /\ \/ todo[1].op = "visit" /\ ~Settled(Row) /\ ~run.spent
         \/ todo[1].op \in {"collect", "split", "finish"}
  BY AtHead DEF Raise, Inspectable, At
<1>2. \A m \in DOMAIN todo : todo[m].op # "ensure"
  BY <1>1, NoSplitYet, AtHead
<1>3. ASSUME NEW k \in DOMAIN todo, todo[k].op = "finish"
      PROVE  status[todo[k].row] # "none" /\ ~Done(todo[k].row)
  <2>1. TaskInv(k)
    BY <1>1, AtHead
  <2>2. todo[k].row \in counted /\ ~Done(todo[k].row)
    BY <1>3, <2>1 DEF TaskInv
  <2>3. QED
    BY <1>1, <2>2, AtHead DEF TypeOK
<1>4. status[Row] # "none" /\ ~Done(Row)
  <2>1. CASE todo[1].op = "visit" /\ ~Settled(Row)
    BY <1>1, <2>1, AtHead DEF TaskInv, Settled
  <2>2. CASE todo[1].op \in {"collect", "split"}
    BY <1>1, <2>2, AtHead DEF TaskInv, Done, Complete
  <2>3. CASE todo[1].op = "finish"
    BY <1>1, <1>3, <2>3, AtHead
  <2>4. QED
    BY <1>1, <2>1, <2>2, <2>3
<1>5. QED
  BY <1>1, <1>2, <1>3, <1>4 DEF Callers

LEMMA RaiseKeeps ==
    ASSUME CoverageInv, Raise
    PROVE  CoverageInv'
<1>1. TypeOK /\ RunInv /\ TreeInv /\ NothingIncompleteBelow /\ Rooted
  BY DEF CoverageInv
<1>2. PICK s \in {"BLOCKED_HUMAN", "FAILED"} :
         status' = [r \in Rows |-> IF r = Row \/ r \in Callers THEN s ELSE status[r]]
  BY DEF Raise
<1>3. /\ run' = NoRun /\ todo' = <<>> /\ UNCHANGED <<counted, newest, torn, short>> /\ Trouble
  BY DEF Raise
<1>4. \A r \in Rows : \/ status'[r] = status[r]
                      \/ status[r] # "none" /\ ~Done(r) /\ status'[r] = s
  BY <1>2, MarkedRows
<1>5. \A r \in Rows : status'[r] = "none" <=> status[r] = "none"
  BY <1>4
<1>6. TypeOK'
  <2>1. status' \in [Rows -> Complete \cup Incomplete \cup {"none"}]
    <3>1. s \in Incomplete
      BY DEF Incomplete
    <3>2. \A r \in Rows : status[r] \in Complete \cup Incomplete \cup {"none"}
      BY <1>1 DEF TypeOK
    <3>3. QED
      BY <1>2, <3>1, <3>2
  <2>2. counted' \subseteq {r \in Rows : status'[r] # "none"}
    BY <1>1, <1>3, <1>5 DEF TypeOK
  <2>3. trouble' \in 0..MaxTrouble
    BY <1>1, <1>3, CoverageConstants DEF Trouble, TypeOK
  <2>4. newest' \in [Roots -> Windows \cup {0}] /\ torn' \subseteq Rows /\ short' \subseteq Rows
    BY <1>1, <1>3 DEF TypeOK
  <2>5. QED
    BY <1>3, <2>1, <2>2, <2>3, <2>4, NoRunType DEF TypeOK
<1>7. \A k \in Rows : OnList(k)' <=> OnList(k)
  BY <1>3, <1>5, MarkedRows, EmptyStack DEF OnList
<1>8. TreeInv'
  <2>1. \A r \in Rows : status'[r] = "INCOMPLETE_OVERSIZE_UNSPLITTABLE" =>
                           status[r] = "INCOMPLETE_OVERSIZE_UNSPLITTABLE"
    BY <1>4
  <2>2. QED
    BY <1>1, <1>3, <1>5, <1>7, <2>1, TreeKept
<1>9. NothingIncompleteBelow'
  <2>1. \A r \in Rows : Done(r) => Done(r)'
    BY <1>4 DEF Done
  <2>2. \A r \in Rows : Done(r)' => Done(r)
    BY <1>4 DEF Done, Complete
  <2>3. QED
    BY <1>1, <1>5, <2>1, <2>2, DoneKept
<1>10. Rooted'
  BY <1>1, <1>5 DEF Rooted
<1>11. QED
  BY <1>3, <1>6, <1>8, <1>9, <1>10, RunEnds DEF CoverageInv

LEMMA HaltKeeps ==
    ASSUME CoverageInv, Halt
    PROVE  CoverageInv'
<1>1. TypeOK /\ RunInv /\ TreeInv /\ NothingIncompleteBelow /\ Rooted
  BY DEF CoverageInv
<1>2. /\ run' = NoRun /\ todo' = <<>> /\ UNCHANGED <<status, counted, newest, short>> /\ Trouble
      /\ torn' = torn \cup {r \in Rows : /\ Children(r) # {}
                                         /\ \E k \in KidRows(r) : status[k] = "none"}
  BY DEF Halt
<1>3. TypeOK'
  <2>1. trouble' \in 0..MaxTrouble
    BY <1>1, <1>2, CoverageConstants DEF Trouble, TypeOK
  <2>2. /\ status' \in [Rows -> Complete \cup Incomplete \cup {"none"}]
        /\ counted' \subseteq {r \in Rows : status'[r] # "none"}
        /\ newest' \in [Roots -> Windows \cup {0}] /\ torn' \subseteq Rows /\ short' \subseteq Rows
    BY <1>1, <1>2 DEF TypeOK
  <2>3. QED
    BY <1>2, <2>1, <2>2, NoRunType DEF TypeOK
<1>4. \A r \in Rows : Children(r)' = Children(r)
  BY <1>2, SameRows
<1>5. TreeInv'
  <2>1. ASSUME NEW r \in Rows \ torn', NEW k \in KidRows(r), NEW l \in KidRows(r), OnList(k)'
        PROVE  OnList(l)'
    <3>1. k \in Rows /\ l \in Rows
      BY <2>1, KidFacts
    <3>2. status[k] # "none"
      BY <1>2, <2>1, <3>1, EmptyStack
    <3>3. Children(r) # {}
      BY <2>1, <3>2 DEF Children
    <3>4. status[l] # "none"
      BY <1>2, <2>1, <3>3
    <3>5. QED
      BY <1>2, <3>1, <3>4, EmptyStack
  <2>2. \A r \in Rows : Children(r)' # {} => r \in counted'
    BY <1>1, <1>2, <1>4 DEF TreeInv
  <2>3. \A r \in Rows : status'[r] = "INCOMPLETE_OVERSIZE_UNSPLITTABLE" => KidRows(r) = {}
    BY <1>1, <1>2 DEF TreeInv
  <2>4. \A r \in Rows : status'[r] # "none" => \E q \in Roots : newest'[q] # 0
    BY <1>1, <1>2 DEF TreeInv
  <2>5. QED
    BY <2>1, <2>2, <2>3, <2>4 DEF TreeInv
<1>6. NothingIncompleteBelow'
  BY <1>1, <1>2, <1>4 DEF NothingIncompleteBelow, Done
<1>7. Rooted'
  BY <1>1, <1>2 DEF Rooted
<1>8. QED
  BY <1>2, <1>3, <1>5, <1>6, <1>7, RunEnds DEF CoverageInv
-----------------------------------------------------------------------------
(* The theorems.                                                           *)

LEMMA InitKeeps ==
    ASSUME Init
    PROVE  CoverageInv
<1>1. todo = <<>> /\ DOMAIN todo = {} /\ run = NoRun
  BY DEF Init
<1>2. TypeOK
  <2>1. /\ status \in [Rows -> Complete \cup Incomplete \cup {"none"}]
        /\ counted \subseteq {r \in Rows : status[r] # "none"}
        /\ newest \in [Roots -> Windows \cup {0}] /\ torn \subseteq Rows /\ short \subseteq Rows
    BY DEF Init
  <2>2. trouble \in 0..MaxTrouble
    BY CoverageConstants DEF Init
  <2>3. QED
    BY <1>1, <2>1, <2>2, NoRunType DEF TypeOK
<1>3. \A r \in Rows : status[r] = "none"
  BY DEF Init
<1>4. \A r \in Rows : Children(r) = {} /\ ~Done(r)
  BY <1>3 DEF Children, KidRows, Done, Complete
<1>5. TreeInv
  <2>1. \A r \in Rows : \A k \in KidRows(r) : ~OnList(k)
    BY <1>1, <1>3, KidFacts DEF OnList
  <2>2. QED
    BY <1>3, <1>4, <2>1 DEF TreeInv
<1>6. QED
  BY <1>1, <1>2, <1>3, <1>4, <1>5 DEF CoverageInv, RunInv, StackInv, NothingIncompleteBelow,
     Rooted, PassInv, BlockedMeansNothingToDo, NoRun

LEMMA StutterKeeps ==
    ASSUME CoverageInv, UNCHANGED vars
    PROVE  CoverageInv'
<1>1. /\ UNCHANGED <<status, counted, newest, torn, todo>> /\ run' = run /\ trouble' = trouble /\ short' = short
      /\ TypeOK /\ RunInv /\ StackInv /\ (\A k \in DOMAIN todo : TaskInv(k)) /\ TreeInv
      /\ NothingIncompleteBelow /\ Rooted /\ PassInv /\ BlockedMeansNothingToDo
  BY DEF CoverageInv, vars
<1>2. TypeOK'
  BY <1>1 DEF TypeOK
<1>3. RunInv'
  BY <1>1 DEF RunInv, Base
<1>4. StackInv'
  BY <1>1 DEF StackInv, Parented, Base
<1>5. \A r : Children(r)' = Children(r)
  BY <1>1 DEF Children, KidRows
<1>6. \A k \in DOMAIN todo' : TaskInv(k)'
  BY <1>1 DEF TaskInv, Fresh, Done, Children, KidRows
<1>7. TreeInv' /\ NothingIncompleteBelow' /\ Rooted'
  BY <1>1, RowsKept
<1>8. \A r \in Rows : Unfinished(r)' <=> Unfinished(r)
  BY <1>1, <1>5 DEF Unfinished, Settled, Done
<1>9. PassInv'
  BY <1>1, <1>8 DEF PassInv, Ahead, Children, KidRows
<1>10. BlockedMeansNothingToDo'
  BY <1>1, <1>5 DEF BlockedMeansNothingToDo, Settled, Done
<1>11. QED
  BY <1>2, <1>3, <1>4, <1>6, <1>7, <1>9, <1>10 DEF CoverageInv

\* Nothing a run, a stop, a crash, a human check or an override does leads out
\* of the invariant: the call stack is a path of the tree, what waits on it
\* matches the rows, and a pass without progress has looked at everything.
THEOREM CoverageInvariant == Spec => []CoverageInv
<1>1. Init => CoverageInv
  BY InitKeeps
<1>2. CoverageInv /\ [Next]_vars => CoverageInv'
  <2> SUFFICES ASSUME CoverageInv, [Next]_vars PROVE CoverageInv'
    OBVIOUS
  <2>1. CASE \E w \in Windows : StartRun(w)
    BY <2>1, StartRunKeeps
  <2>2. CASE BeginState
    BY <2>2, BeginStateKeeps
  <2>3. CASE EndState
    BY <2>3, EndStateKeeps
  <2>4. CASE EndComplete \/ EndBlocked
    BY <2>4, EndKeeps
  <2>5. CASE EndPass
    BY <2>5, EndPassKeeps
  <2>6. CASE Skip
    BY <2>6, SkipKeeps
  <2>7. CASE Recover
    BY <2>7, RecoverKeeps
  <2>8. CASE Resume
    BY <2>8, ResumeKeeps
  <2>9. CASE OutOfBudget
    BY <2>9, OutOfBudgetKeeps
  <2>10. CASE Inspect
    BY <2>10, InspectKeeps
  <2>11. CASE Collect
    BY <2>11, CollectKeeps
  <2>12. CASE Split
    BY <2>12, SplitKeeps
  <2>13. CASE Ensure
    BY <2>13, EnsureKeeps
  <2>14. CASE Finish
    BY <2>14, FinishKeeps
  <2>15. CASE Raise
    BY <2>15, RaiseKeeps
  <2>16. CASE Halt
    BY <2>16, HaltKeeps
  <2>17. CASE UNCHANGED vars
    BY <2>17, StutterKeeps
  <2>18. QED
    BY <2>1, <2>2, <2>3, <2>4, <2>5, <2>6, <2>7, <2>8, <2>9, <2>10, <2>11, <2>12, <2>13, <2>14,
       <2>15, <2>16, <2>17 DEF Next, Work, Visit
<1>3. QED
  BY <1>1, <1>2, PTL DEF Spec

\* Nothing below a complete partition is incomplete, at any depth, through any
\* stops, crashes, failures and resets.
THEOREM NoGapBelow == Spec => []NothingIncompleteBelow
<1>1. CoverageInv => NothingIncompleteBelow
  BY DEF CoverageInv
<1>2. QED
  BY <1>1, CoverageInvariant, PTL

\* A complete partition that was split, and not torn apart by a stop, has every
\* refinement SEEK offered on record and complete.
THEOREM SplitsAreCovered == Spec => []SplitIsCovered
<1>1. CoverageInv => SplitIsCovered
  <2> SUFFICES ASSUME CoverageInv, NEW r \in Rows \ torn, Done(r), Children(r) # {}, todo = <<>>,
                      NEW k \in KidRows(r)
               PROVE  Done(k)
    BY DEF SplitIsCovered
  <2>1. TreeInv /\ NothingIncompleteBelow
    BY DEF CoverageInv
  <2>2. PICK l \in KidRows(r) : status[l] # "none"
    BY DEF Children
  <2>3. OnList(k)
    BY <2>1, <2>2 DEF TreeInv, OnList
  <2>4. status[k] # "none"
    BY <2>3 DEF OnList
  <2>5. QED
    BY <2>1, <2>4 DEF NothingIncompleteBelow, Children
<1>2. QED
  BY <1>1, CoverageInvariant, PTL

\* A run that gives up for lack of progress has left no partition of its window
\* that another visit could finish.
THEOREM BlockedIsExhausted == Spec => []BlockedMeansNothingToDo
<1>1. CoverageInv => BlockedMeansNothingToDo
  BY DEF CoverageInv
<1>2. QED
  BY <1>1, CoverageInvariant, PTL

\* A finished partition is neither visited again nor marked anew until the
\* cycle is over or the run has given up.
THEOREM FinishedWorkIsKept == Spec => WorkIsKept
<1>1. CoverageInv /\ [Next]_vars =>
         [\A r \in Rows : Done(r) /\ status'[r] # status[r] =>
             run.phase = "blocked" \/ AllStatesComplete]_vars
  <2> SUFFICES ASSUME CoverageInv, Next, NEW r \in Rows, Done(r), status'[r] # status[r]
               PROVE  run.phase = "blocked" \/ AllStatesComplete
    BY DEF vars
  <2>1. TypeOK /\ TreeInv
    BY DEF CoverageInv
  <2>2. status[r] # "none"
    BY DEF Done, Complete
  <2>3. CASE \E w \in Windows : StartRun(w)
    BY <2>1, <2>2, <2>3 DEF StartRun, CycleOver, TreeInv
  <2>4. CASE BeginState
    BY <2>1, <2>2, <2>4 DEF BeginState, TypeOK
  <2>5. CASE EndState \/ EndComplete \/ EndPass \/ EndBlocked \/ Halt
    BY <2>5 DEF EndState, EndComplete, EndPass, EndBlocked, Halt
  <2>6. ASSUME NEW s, Set(Row, s), ~Done(Row)
        PROVE  FALSE
    BY <2>1, <2>6 DEF Set, TypeOK, Done
  <2>7. CASE Skip \/ Resume \/ OutOfBudget
    BY <2>7 DEF Skip, Resume, OutOfBudget
  <2>8. CASE Recover \/ Inspect
    <3>1. ~Done(Row)
      BY <2>8 DEF Recover, Inspect, Inspectable, Settled
    <3>2. \E s : Set(Row, s)
      BY <2>8 DEF Recover, Inspect
    <3>3. QED
      BY <2>6, <3>1, <3>2
  <2>9. CASE Collect \/ Split
    <3>1. todo # <<>> /\ todo[1].op \in {"collect", "split"}
      BY <2>9, AtHead DEF Collect, Split, At
    <3>2. ~Done(Row)
      BY <3>1, AtHead DEF TaskInv, Done, Complete
    <3>3. \E s : Set(Row, s)
      BY <2>9 DEF Collect, Split
    <3>4. QED
      BY <2>6, <3>2, <3>3
  <2>10. CASE Ensure
    <3>1. todo # <<>> /\ todo[1].op = "ensure"
      BY <2>10, AtHead DEF Ensure, At
    <3>2. status[Row] = "none"
      BY <3>1, AtHead DEF TaskInv
    <3>3. QED
      BY <2>1, <2>2, <2>10, <3>2 DEF Ensure, Set, TypeOK
  <2>11. CASE Finish
    <3>1. todo # <<>> /\ todo[1].op = "finish"
      BY <2>11, AtHead DEF Finish, At
    <3>2. ~Done(Row)
      BY <3>1, AtHead DEF TaskInv
    <3>3. \E s : Set(Row, s)
      BY <2>11 DEF Finish, Aggregate, Enough, TooFew
    <3>4. QED
      BY <2>6, <3>2, <3>3
  <2>12. CASE Raise
    BY <2>1, <2>12, MarkedRows DEF Raise
  <2>13. QED
    BY <2>3, <2>4, <2>5, <2>7, <2>8, <2>9, <2>10, <2>11, <2>12 DEF Next, Work, Visit
<1>2. QED
  BY <1>1, CoverageInvariant, PTL DEF Spec, WorkIsKept
=============================================================================
