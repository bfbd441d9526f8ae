--------------------------- MODULE JDQueueProofs ---------------------------
(* Theorems about JDQueue: for any postings, any grouping of them, any batch  *)
(* size and however often postings come back.  How often a posting is charged *)
(* is counted against the times a posting of its vacancy was queued and is    *)
(* used up since.                                                             *)
EXTENDS JDQueue, Integers, FiniteSetTheorems, TLAPS

\* A row out of the queue has no attempts.
RowsServed == \A r \in Rows \ queue : attempts[r] = 0

\* The queued rows of a vacancy that were never tried, and those tried once.  A
\* place in the queue earns its vacancy one charge when it is tried first, two
\* more when it is used up, and three when it is given up untried.
Fresh(v) == {r \in RowsOf(v) \cap queue : attempts[r] = 0}
Once(v) == {r \in RowsOf(v) \cap queue : attempts[r] = 1}
Worth(q, F, O) == 3 * q - 3 * Cardinality(F) - 2 * Cardinality(O)
Budget(v) == Worth(queued[v], Fresh(v), Once(v))

\* No row was charged more often than the budget of its vacancy.
WithinBudget ==
    /\ \A v \in Vacancies : Budget(v) >= 0
    /\ \A r \in queue : attempts[r] <= Budget(VacancyOf[r])

\* A candidate has a row to serve, open or archived since, or the budget for the
\* attempts it gets.
Open(r) == r \in queue /\ VacancyOf[r] \notin stored /\ attempts[r] < 2
HasOpen(v) == \E r \in RowsOf(v) : Open(r)
Left(v) == IF v \in again THEN 1 ELSE 2
Affords(v, n) ==
    /\ n <= Budget(v)
    /\ \A r \in RowsOf(v) \cap queue : attempts[r] + n <= Budget(v)
CandidatesAfforded == \A v \in ids : HasOpen(v) \/ Affords(v, Left(v))

QueueInv == TypeOK /\ RowsServed /\ WithinBudget /\ CandidatesAfforded

-----------------------------------------------------------------------------
(* Budgets.                                                                *)

LEMMA BudgetType ==
    ASSUME NEW v \in Vacancies
    PROVE  IsFiniteSet(RowsOf(v)) /\ IsFiniteSet(Fresh(v)) /\ IsFiniteSet(Once(v))
<1>1. IsFiniteSet(RowsOf(v))
  BY QueueConstants DEF RowsOf
<1>2. Fresh(v) \subseteq RowsOf(v) /\ Once(v) \subseteq RowsOf(v)
  BY DEF Fresh, Once
<1>3. QED
  BY <1>1, <1>2, FS_Subset

\* The parts of a finite set in and out of another add up.
LEMMA SplitCard ==
    ASSUME NEW S, IsFiniteSet(S), NEW T
    PROVE  /\ IsFiniteSet(S \cap T) /\ IsFiniteSet(S \ T)
           /\ Cardinality(S \cap T) \in Nat /\ Cardinality(S \ T) \in Nat /\ Cardinality(S) \in Nat
           /\ Cardinality(S) = Cardinality(S \cap T) + Cardinality(S \ T)
           /\ \A u \in S : u \notin T => Cardinality(S \ T) >= 1
<1> DEFINE A == S \cap T
           B == S \ T
<1>1. IsFiniteSet(A) /\ IsFiniteSet(B)
  <2>1. A \subseteq S /\ B \subseteq S
    OBVIOUS
  <2>2. QED
    BY <2>1, FS_Subset
<1>2. Cardinality(A) \in Nat /\ Cardinality(B) \in Nat /\ Cardinality(S) \in Nat
  BY <1>1, FS_CardinalityType
<1>3. A \cap B = {} /\ A \cup B = S
  OBVIOUS
<1>4. Cardinality(A \cup B) = Cardinality(A) + Cardinality(B) - Cardinality(A \cap B)
  BY <1>1, FS_Union
<1>5. Cardinality(A \cap B) = 0
  BY <1>3, FS_EmptySet
<1>6. ASSUME NEW u \in S, u \notin T PROVE Cardinality(B) >= 1
  <2>1. B # {}
    BY <1>6
  <2>2. Cardinality(B) # 0
    BY <1>1, <2>1, FS_EmptySet
  <2>3. QED
    BY <1>2, <2>2
<1>7. Cardinality(S) = Cardinality(A) + Cardinality(B)
  <2>1. Cardinality(S) = Cardinality(A) + Cardinality(B) - Cardinality(A \cap B)
    BY <1>3, <1>4, Zenon
  <2>2. QED
    BY <1>2, <1>5, <2>1
<1>8. QED
  BY <1>1, <1>2, <1>6, <1>7

\* Rows that are not queued anew are tried, tried again or leave: the budget
\* never falls, and grows by one with a row that is fresh no more and by two
\* with one that is used up or gone.
LEMMA BudgetGrows ==
    ASSUME NEW F, NEW O, NEW F2, NEW O2, NEW q \in Int, IsFiniteSet(F), IsFiniteSet(O),
           IsFiniteSet(F2), IsFiniteSet(O2), F2 \subseteq F, O2 \subseteq F \cup O,
           F \cap O = {}, F2 \cap O2 = {}
    PROVE  /\ Worth(q, F, O) \in Int /\ Worth(q, F2, O2) \in Int
           /\ Worth(q, F, O) <= Worth(q, F2, O2)
           /\ \A u \in F : u \notin F2 => Worth(q, F, O) + 1 <= Worth(q, F2, O2)
           /\ \A u \in F \cup O :
                 u \notin F2 \cup O2 => Worth(q, F, O) + 2 <= Worth(q, F2, O2)
<1> DEFINE D == F \ F2
           X == O2 \ O
           Y == O2 \cap O
           E == O \ O2
           a == Worth(q, F, O)
           b == Worth(q, F2, O2)
<1>1. /\ Cardinality(F2) \in Nat /\ Cardinality(D) \in Nat
      /\ Cardinality(F) = Cardinality(F2) + Cardinality(D)
      /\ \A u \in F : u \notin F2 => Cardinality(D) >= 1
  <2>1. F \cap F2 = F2
    OBVIOUS
  <2>2. QED
    BY <2>1, SplitCard
<1>2. /\ Cardinality(X) \in Nat /\ Cardinality(Y) \in Nat
      /\ Cardinality(O2) = Cardinality(Y) + Cardinality(X)
  BY SplitCard
<1>3. /\ Cardinality(E) \in Nat
      /\ Cardinality(O) = Cardinality(Y) + Cardinality(E)
      /\ \A u \in O : u \notin O2 => Cardinality(E) >= 1
  <2>1. O \cap O2 = Y
    OBVIOUS
  <2>2. QED
    BY <2>1, SplitCard
<1>4. /\ Cardinality(X) <= Cardinality(D)
      /\ \A u \in F : u \notin F2 \cup O2 => Cardinality(X) + 1 <= Cardinality(D)
  <2>1. IsFiniteSet(D)
    BY SplitCard
  <2>2. D \cap X = X
    OBVIOUS
  <2>3. /\ Cardinality(D \ X) \in Nat
        /\ Cardinality(D) = Cardinality(X) + Cardinality(D \ X)
        /\ \A u \in D : u \notin X => Cardinality(D \ X) >= 1
    BY <2>1, <2>2, SplitCard
  <2> HIDE DEF D, X
  <2>4. Cardinality(X) <= Cardinality(D)
    BY <1>1, <1>2, <2>3
  <2>5. ASSUME NEW u \in F, u \notin F2 \cup O2 PROVE Cardinality(X) + 1 <= Cardinality(D)
    <3>1. u \in D /\ u \notin X
      BY <2>5 DEF D, X
    <3>2. Cardinality(D \ X) >= 1
      BY <2>3, <3>1
    <3>3. QED
      BY <1>1, <1>2, <2>3, <3>2
  <2>6. QED
    BY <2>4, <2>5
<1> HIDE DEF D, X, Y, E
<1>5. /\ a \in Int /\ b \in Int
      /\ b - a = 3 * Cardinality(D) + 2 * Cardinality(E) - 2 * Cardinality(X)
  BY <1>1, <1>2, <1>3 DEF Worth
<1> HIDE DEF a, b
<1>6. a <= b
  BY <1>1, <1>2, <1>3, <1>4, <1>5
<1>7. ASSUME NEW u \in F, u \notin F2 PROVE a + 1 <= b
  <2>1. Cardinality(D) >= 1
    BY <1>1, <1>7
  <2>2. QED
    BY <1>1, <1>2, <1>3, <1>4, <1>5, <2>1
<1>8. ASSUME NEW u \in F \cup O, u \notin F2 \cup O2 PROVE a + 2 <= b
  <2>1. CASE u \in F
    <3>1. Cardinality(X) + 1 <= Cardinality(D)
      BY <1>4, <1>8, <2>1
    <3>2. QED
      BY <1>1, <1>2, <1>3, <1>5, <3>1
  <2>2. CASE u \in O
    <3>1. Cardinality(E) >= 1
      BY <1>3, <1>8, <2>2
    <3>2. QED
      BY <1>1, <1>2, <1>3, <1>4, <1>5, <3>1
  <2>3. QED
    BY <1>8, <2>1, <2>2
<1>9. QED
  BY <1>5, <1>6, <1>7, <1>8 DEF a, b

\* The same of the budget of a vacancy.
LEMMA BudgetMoves ==
    ASSUME NEW v \in Vacancies, queued \in [Vacancies -> Nat], UNCHANGED queued,
           Fresh(v)' \subseteq Fresh(v), Once(v)' \subseteq Fresh(v) \cup Once(v)
    PROVE  /\ Budget(v) \in Int /\ Budget(v)' \in Int /\ Budget(v) <= Budget(v)'
           /\ \A u \in Fresh(v) : u \notin Fresh(v)' => Budget(v) + 1 <= Budget(v)'
           /\ \A u \in Fresh(v) \cup Once(v) :
                 u \notin Fresh(v)' \cup Once(v)' => Budget(v) + 2 <= Budget(v)'
<1>1. /\ IsFiniteSet(Fresh(v)) /\ IsFiniteSet(Once(v)) /\ Fresh(v) \cap Once(v) = {}
  BY BudgetType DEF Fresh, Once
<1>2. /\ IsFiniteSet(Fresh(v)') /\ IsFiniteSet(Once(v)') /\ Fresh(v)' \cap Once(v)' = {}
  <2>1. /\ Fresh(v)' \subseteq RowsOf(v) /\ Once(v)' \subseteq RowsOf(v)
        /\ Fresh(v)' \cap Once(v)' = {}
    BY DEF Fresh, Once, RowsOf
  <2>2. QED
    BY <2>1, BudgetType, FS_Subset
<1>3. /\ Budget(v) = Worth(queued[v], Fresh(v), Once(v))
      /\ Budget(v)' = Worth(queued[v], Fresh(v)', Once(v)')
  BY DEF Budget, Worth
<1>4. queued[v] \in Int
  OBVIOUS
<1> DEFINE q == queued[v]
           F == Fresh(v)
           O == Once(v)
           F2 == Fresh(v)'
           O2 == Once(v)'
<1>5. q \in Int /\ F2 \subseteq F /\ O2 \subseteq F \cup O
  BY <1>4
<1>6. /\ IsFiniteSet(F) /\ IsFiniteSet(O) /\ F \cap O = {}
      /\ IsFiniteSet(F2) /\ IsFiniteSet(O2) /\ F2 \cap O2 = {}
  BY <1>1, <1>2
<1> HIDE DEF q, F, O, F2, O2
<1>7. /\ Worth(q, F, O) \in Int /\ Worth(q, F2, O2) \in Int
      /\ Worth(q, F, O) <= Worth(q, F2, O2)
      /\ \A u \in F : u \notin F2 => Worth(q, F, O) + 1 <= Worth(q, F2, O2)
      /\ \A u \in F \cup O :
            u \notin F2 \cup O2 => Worth(q, F, O) + 2 <= Worth(q, F2, O2)
  BY <1>5, <1>6, BudgetGrows
<1>8. QED
  BY <1>3, <1>7 DEF q, F, O, F2, O2

-----------------------------------------------------------------------------
(* The steps.                                                              *)

\* Steps that leave the queue alone; candidates are dropped or pending.
LEMMA RowsStay ==
    ASSUME QueueInv, UNCHANGED <<stored, queue, attempts, queued>>, TypeOK',
           \A v \in ids' : HasOpen(v) \/ (v \in ids /\ (Left(v) = 2 \/ Left(v)' = Left(v)))
    PROVE  QueueInv'
<1> USE DEF QueueInv
<1>1. RowsServed'
  BY DEF RowsServed
<1>2. \A v : /\ Fresh(v)' = Fresh(v) /\ Once(v)' = Once(v) /\ HasOpen(v)' = HasOpen(v)
  BY DEF Fresh, Once, RowsOf, HasOpen, Open
<1>3. \A v : Budget(v)' = Budget(v)
  BY <1>2 DEF Budget, Worth
<1>4. WithinBudget'
  BY <1>3 DEF WithinBudget
<1>5. CandidatesAfforded'
  <2> SUFFICES ASSUME NEW v \in ids', ~HasOpen(v)'
               PROVE  /\ Left(v)' <= Budget(v)
                      /\ \A r \in RowsOf(v) \cap queue : attempts[r] + Left(v)' <= Budget(v)
    BY <1>3 DEF CandidatesAfforded, Affords, RowsOf
  <2>1. v \in ids /\ Affords(v, Left(v)) /\ (Left(v) = 2 \/ Left(v)' = Left(v)) /\ v \in Vacancies
    BY <1>2 DEF CandidatesAfforded, TypeOK
  <2>2. Left(v) \in {1, 2} /\ Left(v)' \in {1, 2} /\ Left(v)' <= Left(v)
    BY <2>1 DEF Left
  <2>3. /\ Left(v) <= Budget(v)
        /\ \A r \in RowsOf(v) \cap queue : attempts[r] + Left(v) <= Budget(v) /\ attempts[r] \in Nat
    BY <2>1 DEF Affords, TypeOK, RowsOf
  <2>4. Budget(v) \in Int
    BY <1>2, <2>1, BudgetMoves DEF TypeOK
  <2>5. QED
    BY <2>2, <2>3, <2>4
<1>6. QED
  BY <1>1, <1>4, <1>5

\* Rows of one vacancy leave the queue, and those that stay are charged or not:
\* to an open one among them, or to what the candidate can afford.
LEMMA RowsMove ==
    ASSUME QueueInv, TypeOK', RowsServed', UNCHANGED queued,
           NEW v \in Vacancies, NEW c \in {0, 1}, queue' \subseteq queue,
           \A r \in queue \ RowsOf(v) : r \in queue' /\ attempts'[r] = attempts[r],
           \A r \in RowsOf(v) \cap queue' : attempts'[r] = attempts[r] + c,
           \A w \in stored' : w \in stored \/ (w = v /\ RowsOf(v) \cap queue' = {}),
           ids' \subseteq ids, c = 1 => v \in ids,
           \A w \in ids' : \/ Left(w)' = Left(w) /\ (w = v => c = 0)
                           \/ Left(w) = 2 /\ (w = v => c = 0 \/ Left(w)' = 1)
    PROVE  QueueInv'
<1> USE DEF QueueInv
<1>1. /\ \A r \in Rows : attempts[r] \in Nat
      /\ queue \subseteq Rows /\ ids \subseteq Vacancies /\ queued \in [Vacancies -> Nat]
      /\ \A r \in queue : VacancyOf[r] \in Vacancies /\ r \in RowsOf(VacancyOf[r])
  BY QueueConstants DEF TypeOK, RowsOf, Listed
<1>2. \A w \in Vacancies : /\ RowsOf(w)' = RowsOf(w)
                           /\ w # v => RowsOf(w) \cap queue' = RowsOf(w) \cap queue
                           /\ w # v => \A r \in RowsOf(w) \cap queue : attempts'[r] = attempts[r]
  BY DEF RowsOf
<1>3. \A w \in Vacancies \ {v} : /\ Fresh(w)' = Fresh(w) /\ Once(w)' = Once(w)
                                 /\ HasOpen(w) => HasOpen(w)'
  <2> SUFFICES ASSUME NEW w \in Vacancies, w # v
               PROVE  /\ Fresh(w)' = Fresh(w) /\ Once(w)' = Once(w)
                      /\ HasOpen(w) => HasOpen(w)'
    OBVIOUS
  <2>1. Fresh(w)' = Fresh(w) /\ Once(w)' = Once(w)
    BY <1>2 DEF Fresh, Once
  <2>2. HasOpen(w) => HasOpen(w)'
    <3> SUFFICES ASSUME NEW r \in RowsOf(w), Open(r) PROVE Open(r)'
      BY <1>2 DEF HasOpen
    <3>1. r \in queue' /\ attempts'[r] = attempts[r] /\ VacancyOf[r] = w
      BY <1>2 DEF Open, RowsOf
    <3>2. QED
      BY <3>1 DEF Open
  <2>3. QED
    BY <2>1, <2>2
<1>4. \A w \in Vacancies \ {v} : Budget(w)' = Budget(w)
  BY <1>3 DEF Budget, Worth
<1>5. Fresh(v)' \subseteq Fresh(v) /\ Once(v)' \subseteq Fresh(v) \cup Once(v)
  <2>1. \A r \in RowsOf(v) \cap queue' : attempts[r] \in Nat /\ attempts'[r] = attempts[r] + c
    BY <1>1
  <2>2. QED
    BY <1>2, <2>1 DEF Fresh, Once
<1>6. /\ Budget(v) \in Int /\ Budget(v)' \in Int /\ Budget(v) <= Budget(v)'
      /\ \A u \in Fresh(v) : u \notin Fresh(v)' => Budget(v) + 1 <= Budget(v)'
      /\ \A u \in Fresh(v) \cup Once(v) :
            u \notin Fresh(v)' \cup Once(v)' => Budget(v) + 2 <= Budget(v)'
  BY <1>1, <1>5, BudgetMoves
<1>7. ASSUME HasOpen(v)
      PROVE  /\ Budget(v) + c <= Budget(v)'
             /\ HasOpen(v)' \/ Budget(v) + 2 <= Budget(v)'
  <2>1. PICK u \in RowsOf(v) : Open(u)
    BY <1>7 DEF HasOpen
  <2>2. u \in queue /\ attempts[u] \in {0, 1} /\ u \in Fresh(v) \cup Once(v) /\ v \notin stored
    BY <1>1, <2>1 DEF Open, Fresh, Once, RowsOf
  <2>3. CASE u \notin Fresh(v)' \cup Once(v)'
    BY <1>6, <2>2, <2>3
  <2>4. CASE u \in Fresh(v)' \cup Once(v)'
    <3>1. u \in queue' /\ attempts'[u] \in {0, 1} /\ attempts'[u] = attempts[u] + c
      BY <2>1, <2>4 DEF Fresh, Once
    <3>2. v \notin stored'
      BY <2>1, <2>2, <3>1
    <3>3. HasOpen(v)'
      BY <1>2, <2>1, <3>1, <3>2 DEF HasOpen, Open, RowsOf
    <3>4. c = 1 => u \in Fresh(v) /\ u \notin Fresh(v)'
      BY <2>1, <2>2, <3>1 DEF Fresh
    <3>5. QED
      BY <1>6, <3>3, <3>4
  <2>5. QED
    BY <2>3, <2>4
<1>8. \A w \in Vacancies : /\ Budget(w) \in Int /\ Budget(w)' \in Int /\ Budget(w) <= Budget(w)'
                           /\ Budget(w) >= 0
  <2>1. \A w \in Vacancies \ {v} : Budget(w) \in Int
    <3> SUFFICES ASSUME NEW w \in Vacancies PROVE Budget(w) \in Int
      OBVIOUS
    <3>1. Cardinality(Fresh(w)) \in Nat /\ Cardinality(Once(w)) \in Nat /\ queued[w] \in Nat
      BY <1>1, BudgetType, FS_CardinalityType
    <3>2. QED
      BY <3>1 DEF Budget, Worth
  <2>2. QED
    BY <1>4, <1>6, <2>1 DEF WithinBudget
<1>9. v \in ids => HasOpen(v) \/ Affords(v, Left(v))
  BY DEF CandidatesAfforded
<1>10. WithinBudget'
  <2>1. \A w \in Vacancies : Budget(w)' >= 0
    BY <1>8
  <2>2. ASSUME NEW r \in queue' PROVE attempts'[r] <= Budget(VacancyOf[r])'
    <3>1. r \in queue /\ attempts[r] \in Nat /\ attempts[r] <= Budget(VacancyOf[r])
      BY <1>1, <2>2 DEF WithinBudget
    <3>2. CASE VacancyOf[r] # v
      <4>1. attempts'[r] = attempts[r]
        BY <3>1, <3>2 DEF RowsOf
      <4>2. QED
        BY <1>1, <1>4, <3>1, <3>2, <4>1
    <3>3. CASE VacancyOf[r] = v
      <4>1. r \in RowsOf(v) /\ attempts'[r] = attempts[r] + c
        BY <1>1, <2>2, <3>1, <3>3
      <4>2. CASE c = 0
        BY <1>6, <3>1, <3>3, <4>1, <4>2
      <4>3. CASE c = 1 /\ HasOpen(v)
        BY <1>6, <1>7, <3>1, <3>3, <4>1, <4>3
      <4>4. CASE c = 1 /\ Affords(v, Left(v))
        <5>1. attempts[r] + Left(v) <= Budget(v) /\ Left(v) \in {1, 2}
          BY <3>1, <4>1, <4>4 DEF Affords, Left
        <5>2. QED
          BY <1>6, <3>1, <3>3, <4>1, <4>4, <5>1
      <4>5. QED
        BY <1>9, <4>2, <4>3, <4>4
    <3>4. QED
      BY <3>2, <3>3
  <2>3. QED
    BY <2>1, <2>2 DEF WithinBudget
<1>11. CandidatesAfforded'
  <2> SUFFICES ASSUME NEW w \in ids', ~HasOpen(w)'
               PROVE  /\ Left(w)' <= Budget(w)'
                      /\ \A r \in RowsOf(w) \cap queue' : attempts'[r] + Left(w)' <= Budget(w)'
    BY <1>2 DEF CandidatesAfforded, Affords, TypeOK, RowsOf
  <2>a. Left(w)' <= Budget(w)'
    <3>1. /\ w \in ids /\ w \in Vacancies /\ Left(w) \in {1, 2} /\ Left(w)' \in {1, 2}
          /\ Left(w)' <= Left(w) /\ (HasOpen(w) \/ Left(w) <= Budget(w))
      BY <1>1 DEF Left, CandidatesAfforded, Affords
    <3>2. HasOpen(w) => w = v /\ Budget(v) + 2 <= Budget(v)'
      BY <1>3, <1>7, <3>1
    <3>3. QED
      BY <1>8, <3>1, <3>2
  <2> SUFFICES ASSUME NEW r \in RowsOf(w) \cap queue'
               PROVE  attempts'[r] + Left(w)' <= Budget(w)'
    BY <2>a
  <2>1. /\ w \in ids /\ w \in Vacancies /\ r \in queue /\ VacancyOf[r] = w /\ attempts[r] \in Nat
        /\ Left(w) \in {1, 2} /\ Left(w)' \in {1, 2}
        /\ attempts[r] <= Budget(w)
        /\ HasOpen(w) \/ attempts[r] + Left(w) <= Budget(w)
    BY <1>1 DEF Left, RowsOf, WithinBudget, CandidatesAfforded, Affords
  <2>2. CASE w # v
    <3>1. ~HasOpen(w) /\ attempts'[r] = attempts[r] /\ Budget(w)' = Budget(w)
      BY <1>2, <1>3, <1>4, <2>1, <2>2
    <3>2. Left(w)' <= Left(w)
      BY <2>1, <2>2
    <3>3. QED
      BY <1>8, <2>1, <3>1, <3>2
  <2>3. CASE w = v
    <3>1. attempts'[r] = attempts[r] + c
      BY <2>3
    <3>2. HasOpen(v) => Budget(v) + 2 <= Budget(v)'
      BY <1>7, <2>3
    <3>3. c + Left(v)' <= Left(v)
      BY <2>1, <2>3
    <3>4. QED
      BY <1>6, <2>1, <2>3, <3>1, <3>2, <3>3
  <2>4. QED
    BY <2>2, <2>3
<1>12. QED
  BY <1>10, <1>11

RunType ==
    /\ phase \in {"idle", "coverage", "partition", "closing", "final", "finish"}
    /\ ids \subseteq Vacancies /\ again \subseteq ids
    /\ ids # {} => phase \in {"partition", "final"}
    /\ halt \in BOOLEAN /\ progress \in BOOLEAN
    /\ outcome \in {"none", "STOPPED", "BLOCKED", "PARTIAL_JD", "COMPLETE", "FAILED"}

\* What the queue, its charges and the removals of one vacancy's rows preserve.
LEMMA SettleKeeps ==
    ASSUME QueueInv, NEW v \in Vacancies, NEW gone \in SUBSET RowsOf(v), NEW removed \in SUBSET gone,
           NEW charged \in {{}, RowsOf(v)}, NEW failed \in BOOLEAN, Settle(gone, charged, failed),
           Remove(removed), UNCHANGED queued, RunType',
           stored' \subseteq Vacancies,
           \A w \in stored' : w \in stored \/ (w = v /\ RowsOf(v) \subseteq gone),
           ids' \subseteq ids, charged # {} => v \in ids,
           \A w \in ids' : \/ Left(w)' = Left(w) /\ (w = v => charged = {})
                           \/ Left(w) = 2 /\ (w = v => charged = {} \/ Left(w)' = 1)
    PROVE  QueueInv'
<1> DEFINE c == IF charged = {} THEN 0 ELSE 1
<1>1. /\ TypeOK /\ RowsServed /\ queue \subseteq Rows /\ attempts \in [Rows -> Nat]
      /\ error \subseteq queue /\ window \subseteq queue /\ queue \subseteq live \cup dormant
  BY DEF QueueInv, TypeOK, Listed
<1>2. /\ queue' = queue \ gone /\ window' = window \ gone /\ error' \subseteq queue \ gone
      /\ attempts' \in [Rows -> Nat]
      /\ \A r \in Rows : attempts'[r] = IF r \in gone THEN 0
                                        ELSE IF r \in charged \cap queue THEN attempts[r] + 1
                                        ELSE attempts[r]
  BY <1>1 DEF Settle
<1>3. TypeOK'
  <2>1. /\ live' \subseteq Rows /\ dormant' \subseteq Rows /\ live' \cap dormant' = {}
        /\ queue' \subseteq live' \cup dormant' /\ queued' \in [Vacancies -> Nat]
    BY <1>1, <1>2 DEF Remove, TypeOK
  <2>2. error' \subseteq queue' /\ window' \subseteq queue'
    BY <1>1, <1>2
  <2>3. QED
    BY <1>2, <2>1, <2>2 DEF TypeOK, RunType, Listed
<1>4. RowsServed'
  BY <1>1, <1>2 DEF RowsServed
<1>5. /\ queue' \subseteq queue
      /\ \A r \in queue \ RowsOf(v) : r \in queue' /\ attempts'[r] = attempts[r]
      /\ \A r \in RowsOf(v) \cap queue' : attempts'[r] = attempts[r] + c
  <2>1. ASSUME NEW r \in queue \ RowsOf(v) PROVE r \in queue' /\ attempts'[r] = attempts[r]
    BY <1>1, <1>2
  <2>2. ASSUME NEW r \in RowsOf(v) \cap queue' PROVE attempts'[r] = attempts[r] + c
    BY <1>1, <1>2
  <2>3. QED
    BY <1>2, <2>1, <2>2
<1>6. \A w \in stored' : w \in stored \/ (w = v /\ RowsOf(v) \cap queue' = {})
  BY <1>2
<1>7. c \in {0, 1} /\ (charged = {} <=> c = 0) /\ (c = 1 => charged # {})
  OBVIOUS
<1> HIDE DEF c
<1>8. /\ c = 1 => v \in ids
      /\ \A w \in ids' : \/ Left(w)' = Left(w) /\ (w = v => c = 0)
                         \/ Left(w) = 2 /\ (w = v => c = 0 \/ Left(w)' = 1)
  BY <1>7
<1>9. QED
  BY <1>3, <1>4, <1>5, <1>6, <1>7, <1>8, RowsMove

LEMMA DiscoverKeeps == ASSUME QueueInv, NEW r \in Rows, Discover(r) PROVE QueueInv'
<1> USE DEF QueueInv
<1> DEFINE v == VacancyOf[r]
<1>1. /\ r \notin live /\ r \notin dormant /\ r \notin queue /\ attempts[r] = 0 /\ v \in Vacancies
      /\ live' = live \cup {r}
      /\ UNCHANGED <<dormant, stored, attempts, error, phase, ids, again, halt, progress, outcome>>
      /\ \/ UNCHANGED <<queue, window, queued>>
         \/ /\ queue' = queue \cup {r} /\ window' = window \cup {r}
            /\ queued' = [queued EXCEPT ![v] = @ + 1]
  BY QueueConstants DEF Discover, runVars, TypeOK, RowsServed, Listed
<1>2. /\ queue \subseteq Rows /\ attempts \in [Rows -> Nat] /\ queued \in [Vacancies -> Nat]
      /\ live' \subseteq Rows /\ live' \cap dormant' = {} /\ queue \subseteq live \cup dormant
  BY <1>1 DEF TypeOK, Listed
<1>3. TypeOK'
  <2>1. queue' \subseteq live' \cup dormant' /\ error' \subseteq queue' /\ window' \subseteq queue'
    BY <1>1, <1>2 DEF TypeOK
  <2>2. queued' \in [Vacancies -> Nat]
    BY <1>1, <1>2
  <2>3. QED
    BY <1>1, <1>2, <2>1, <2>2 DEF TypeOK, Listed
<1>4. CASE UNCHANGED <<queue, window, queued>>
  BY <1>1, <1>3, <1>4, RowsStay DEF Left
<1>5. CASE /\ queue' = queue \cup {r} /\ window' = window \cup {r}
           /\ queued' = [queued EXCEPT ![v] = @ + 1]
  <2>1. RowsServed'
    BY <1>1, <1>5 DEF RowsServed
  <2>2. \A w \in Vacancies : w # v => /\ Fresh(w)' = Fresh(w) /\ Once(w)' = Once(w)
                                      /\ queued'[w] = queued[w]
    BY <1>1, <1>2, <1>5 DEF Fresh, Once, RowsOf
  <2>3. /\ Fresh(v)' = Fresh(v) \cup {r} /\ r \notin Fresh(v) /\ Once(v)' = Once(v)
        /\ queued'[v] = queued[v] + 1
    BY <1>1, <1>2, <1>5 DEF Fresh, Once, RowsOf
  <2>4. \A w \in Vacancies : /\ IsFiniteSet(Fresh(w))
                             /\ Cardinality(Fresh(w)) \in Nat /\ Cardinality(Once(w)) \in Nat
    BY BudgetType, FS_CardinalityType
  <2>5. Cardinality(Fresh(v) \cup {r}) = Cardinality(Fresh(v)) + 1
    BY <1>1, <2>3, <2>4, FS_AddElement
  <2>6. \A w \in Vacancies : Budget(w)' = Budget(w) /\ Budget(w) \in Int
    <3>1. Budget(v)' = 3 * (queued[v] + 1) - 3 * (Cardinality(Fresh(v)) + 1) - 2 * Cardinality(Once(v))
      BY <2>3, <2>5 DEF Budget, Worth
    <3>2. \A w \in Vacancies : queued[w] \in Nat
      BY <1>2
    <3>3. Budget(v)' = Budget(v) /\ Budget(v) \in Int
      BY <1>1, <2>4, <3>1, <3>2 DEF Budget, Worth
    <3>4. \A w \in Vacancies : w # v => Budget(w)' = Budget(w) /\ Budget(w) \in Int
      BY <2>2, <2>4, <3>2 DEF Budget, Worth
    <3>5. QED
      BY <3>3, <3>4
  <2>7. WithinBudget'
    <3>1. \A w \in Vacancies : Budget(w)' >= 0
      BY <2>6 DEF WithinBudget
    <3>2. ASSUME NEW u \in queue' PROVE attempts[u] <= Budget(VacancyOf[u])'
      <4>1. CASE u = r
        BY <1>1, <2>6, <4>1 DEF WithinBudget
      <4>2. CASE u \in queue
        <5>1. VacancyOf[u] \in Vacancies
          BY <1>2, <4>2, QueueConstants
        <5>2. QED
          BY <2>6, <4>2, <5>1 DEF WithinBudget
      <4>3. QED
        BY <1>5, <4>1, <4>2
    <3>3. QED
      BY <1>1, <3>1, <3>2 DEF WithinBudget
  <2>8. CandidatesAfforded'
    <3> SUFFICES ASSUME NEW w \in ids, ~HasOpen(w)'
                 PROVE  /\ Left(w) <= Budget(w)'
                        /\ \A u \in RowsOf(w) \cap queue' : attempts[u] + Left(w) <= Budget(w)'
      BY <1>1 DEF CandidatesAfforded, Affords, RowsOf, Left
    <3>1. \A x : Open(x) => Open(x)'
      BY <1>1, <1>5 DEF Open
    <3>2. ~HasOpen(w) /\ w \in Vacancies
      BY <3>1 DEF HasOpen, RowsOf, TypeOK
    <3>3. /\ Left(w) \in {1, 2} /\ Left(w) <= Budget(w)
          /\ \A u \in RowsOf(w) \cap queue : attempts[u] + Left(w) <= Budget(w)
      BY <3>2 DEF CandidatesAfforded, Affords, Left
    <3>4. \A u \in RowsOf(w) \cap queue' : u \in RowsOf(w) \cap queue \/ attempts[u] = 0
      BY <1>1, <1>5
    <3>5. Budget(w)' = Budget(w) /\ Budget(w) \in Int
      BY <2>6, <3>2
    <3>6. QED
      BY <3>3, <3>4, <3>5
  <2>9. QED
    BY <1>3, <2>1, <2>7, <2>8
<1>6. QED
  BY <1>1, <1>4, <1>5

LEMMA PendingIsOpen == ASSUME NEW v \in Pending PROVE HasOpen(v)
<1>1. PICK r \in Rows : Eligible(r) /\ v = VacancyOf[r]
  BY DEF Pending
<1>2. QED
  BY <1>1 DEF HasOpen, Open, Eligible, Unserved, RowsOf

\* A candidate at its turn, and what is left of the candidates after it.
LEMMA Turn ==
    ASSUME TypeOK, NEW v \in Vacancies, AtHead(v)
    PROVE  /\ v \in ids /\ again \subseteq {v}
           /\ NextCandidate(v) => /\ RunType' /\ ids' \subseteq ids /\ v \notin ids'
                                  /\ \A w \in ids' : Left(w) = 2
<1>1. v \in ids /\ again \subseteq {v}
  BY DEF AtHead
<1>2. ASSUME NextCandidate(v)
      PROVE  RunType' /\ ids' \subseteq ids /\ v \notin ids' /\ \A w \in ids' : Left(w) = 2
  <2>1. ids' = ids \ {v} /\ again' = {} /\ UNCHANGED <<phase, halt, progress, outcome>>
    BY <1>2 DEF NextCandidate
  <2>2. RunType'
    BY <2>1 DEF RunType, TypeOK
  <2>3. QED
    BY <1>1, <2>1, <2>2 DEF Left
<1>3. QED
  BY <1>1, <1>2

\* A fetch, whatever came of it.
LEMMA FetchKeeps ==
    ASSUME QueueInv, NEW v \in Vacancies,
           \/ FetchStores(v) \/ FetchCached(v) \/ FetchUnavailable(v)
           \/ FetchFails(v) \/ FetchRateLimited(v)
    PROVE  QueueInv'
<1>1. TypeOK
  BY DEF QueueInv
<1>2. AtHead(v)
  BY DEF FetchStores, FetchCached, FetchUnavailable, FetchFails, FetchRateLimited
<1>3. /\ v \in ids /\ again \subseteq {v}
      /\ NextCandidate(v) => /\ RunType' /\ ids' \subseteq ids /\ v \notin ids'
                             /\ \A w \in ids' : Left(w) = 2
  BY <1>1, <1>2, Turn
<1>4. CASE FetchStores(v)
  <2>1. PICK gone \in SUBSET (RowsOf(v) \cap Listed) : Remove(gone)
    BY <1>4 DEF FetchStores
  <2>2. /\ Settle(RowsOf(v), {}, FALSE) /\ stored' = stored \cup {v} /\ UNCHANGED queued
        /\ NextCandidate(v)
    BY <1>4 DEF FetchStores, Dequeue
  <2>3. stored' \subseteq Vacancies /\ \A w \in stored' : w \in stored \/ (w = v /\ RowsOf(v) \subseteq RowsOf(v))
    BY <1>1, <2>2 DEF TypeOK
  <2>4. gone \in SUBSET RowsOf(v) /\ RowsOf(v) \in SUBSET RowsOf(v)
    OBVIOUS
  <2>5. /\ RunType' /\ ids' \subseteq ids
        /\ \A w \in ids' : Left(w) = 2 /\ (w = v => {} = {} \/ Left(w)' = 1)
    BY <1>3, <2>2
  <2>6. QED
    BY <2>1, <2>2, <2>3, <2>4, <2>5, SettleKeeps
<1>5. ASSUME NEW gone \in SUBSET RowsOf(v), Remove(gone), NEW charged \in {{}, RowsOf(v)},
             NEW failed \in BOOLEAN, Settle(gone, charged, failed),
             stored' = stored \/ stored' = stored \ {v}, UNCHANGED queued, RunType', ids' \subseteq ids,
             \A w \in ids' : w # v => Left(w) = 2,
             v \in ids' => Left(v) = 2 /\ Left(v)' = 1
      PROVE  QueueInv'
  <2>1. stored' \subseteq Vacancies /\ \A w \in stored' : w \in stored
    BY <1>1, <1>5 DEF TypeOK
  <2>2. \A w \in ids' : Left(w) = 2 /\ (w = v => charged = {} \/ Left(w)' = 1)
    BY <1>5
  <2>3. gone \in SUBSET gone
    OBVIOUS
  <2>4. QED
    BY <1>3, <1>5, <2>1, <2>2, <2>3, SettleKeeps
<1>6. CASE FetchCached(v)
  <2>1. PICK gone \in SUBSET (RowsOf(v) \cap dormant) : Remove(gone) /\ Settle(gone, RowsOf(v), FALSE)
    BY <1>6 DEF FetchCached
  <2>2. NextCandidate(v) /\ UNCHANGED <<stored, queued>>
    BY <1>6 DEF FetchCached
  <2>3. gone \in SUBSET RowsOf(v)
    OBVIOUS
  <2>4. QED
    BY <1>3, <1>5, <2>1, <2>2, <2>3
<1>7. CASE FetchUnavailable(v)
  <2>1. PICK gone \in SUBSET (RowsOf(v) \cap Listed) :
            /\ Remove(gone) /\ MayForget(v, gone)
            /\ Settle(gone, RowsOf(v), TRUE) \/ Settle(gone, {}, TRUE)
    BY <1>7 DEF FetchUnavailable
  <2>2. NextCandidate(v) /\ UNCHANGED queued
    BY <1>7 DEF FetchUnavailable
  <2>3. gone \in SUBSET RowsOf(v) /\ (stored' = stored \/ stored' = stored \ {v})
    BY <2>1 DEF MayForget
  <2>4. QED
    BY <1>3, <1>5, <2>1, <2>2, <2>3
<1>8. CASE FetchFails(v)
  <2>1. PICK gone \in SUBSET (RowsOf(v) \cap Listed) :
          /\ Remove(gone)
          /\ \/ /\ Settle(gone, RowsOf(v), TRUE)
                /\ IF again = {}
                   THEN again' = {v} /\ UNCHANGED <<ids, phase, halt, progress, outcome>>
                   ELSE NextCandidate(v)
             \/ /\ gone # {} /\ Settle(gone, {}, TRUE)
                /\ IF again = {} THEN RunDies ELSE NextCandidate(v)
    BY <1>8 DEF FetchFails
  <2>2. UNCHANGED <<stored, queued>> /\ gone \in SUBSET RowsOf(v)
    BY <1>8, <2>1 DEF FetchFails
  <2>3. CASE NextCandidate(v)
    BY <1>3, <1>5, <2>1, <2>2, <2>3
  <2>4. CASE again = {} /\ again' = {v} /\ UNCHANGED <<ids, phase, halt, progress, outcome>>
    <3>1. RunType'
      BY <1>1, <1>3, <2>4 DEF RunType, TypeOK
    <3>2. ids' = ids /\ Left(v)' = 1 /\ \A w : Left(w) = 2
      BY <2>4 DEF Left
    <3>3. QED
      BY <1>5, <2>1, <2>2, <3>1, <3>2
  <2>5. CASE RunDies
    <3>1. RunType' /\ ids' = {}
      BY <2>5 DEF RunDies, RunType
    <3>2. QED
      BY <1>5, <2>1, <2>2, <3>1
  <2>6. QED
    BY <2>1, <2>3, <2>4, <2>5
<1>9. CASE FetchRateLimited(v)
  <2>1. PICK gone \in SUBSET (RowsOf(v) \cap Listed) :
            Remove(gone) /\ (Settle(gone, RowsOf(v), TRUE) \/ Settle(gone, {}, TRUE))
    BY <1>9 DEF FetchRateLimited
  <2>2. UNCHANGED <<stored, queued, phase, halt, progress, outcome>> /\ ids' = {} /\ again' = {}
    BY <1>9 DEF FetchRateLimited
  <2>3. RunType' /\ gone \in SUBSET RowsOf(v)
    BY <1>1, <2>2 DEF RunType, TypeOK
  <2>4. QED
    BY <1>5, <2>1, <2>2, <2>3
<1>10. QED
  BY <1>4, <1>6, <1>7, <1>8, <1>9

LEMMA QueueStep == QueueInv /\ [Next]_vars => QueueInv'
<1> SUFFICES ASSUME QueueInv, [Next]_vars PROVE QueueInv'
  OBVIOUS
<1>1. TypeOK
  BY DEF QueueInv
<1>2. Pending \subseteq Vacancies /\ \A W \in FirstOf(Pending) : W \subseteq Pending
  BY QueueConstants DEF Pending, FirstOf
<1>3. CASE StartRun \/ PartitionDone \/ CoverageReturns \/ StartFinalDrain \/ FinishRun
  <2>1. UNCHANGED <<live, dormant, stored, queue, attempts, queued, again>>
    BY <1>3 DEF StartRun, PartitionDone, CoverageReturns, StartFinalDrain, FinishRun, rowVars, queueVars
  <2>2. ids' = ids \/ (ids' \subseteq Pending /\ phase \in {"coverage", "closing"})
    BY <1>2, <1>3 DEF StartRun, PartitionDone, CoverageReturns, StartFinalDrain, FinishRun
  <2>3. TypeOK'
    <3>1. Pending \subseteq Vacancies /\ Deferred \subseteq queue /\ ids = {} /\ again = {}
      BY <1>1, <1>2, <1>3 DEF TypeOK, Deferred, Unserved, StartRun, PartitionDone, CoverageReturns,
         StartFinalDrain, FinishRun
    <3>2. RunType'
      <4>1. /\ phase' \in {"idle", "coverage", "partition", "closing", "final", "finish"}
            /\ outcome' \in {"none", "STOPPED", "BLOCKED", "PARTIAL_JD", "COMPLETE", "FAILED"}
            /\ halt' \in BOOLEAN /\ progress' \in BOOLEAN
        BY <1>1, <1>3 DEF TypeOK, StartRun, PartitionDone, CoverageReturns,
           StartFinalDrain, FinishRun, FinalStatus
      <4>2. ids' = {} \/ (ids' \subseteq Pending /\ phase' \in {"partition", "final"})
        BY <1>2, <1>3, <3>1 DEF StartRun, PartitionDone, CoverageReturns, StartFinalDrain, FinishRun
      <4>3. QED
        BY <2>1, <3>1, <4>1, <4>2 DEF RunType
    <3>3. error' \subseteq queue' /\ window' \subseteq queue'
      BY <1>1, <1>3, <2>1, <3>1 DEF TypeOK, StartRun, PartitionDone, CoverageReturns,
         StartFinalDrain, FinishRun, rowVars, queueVars
    <3>4. QED
      BY <1>1, <2>1, <3>2, <3>3 DEF TypeOK, RunType, Listed
  <2>4. \A v \in ids' : HasOpen(v) \/ (v \in ids /\ Left(v)' = Left(v))
    BY <2>1, <2>2, PendingIsOpen DEF Left
  <2>5. QED
    BY <2>1, <2>3, <2>4, RowsStay
<1>4. CASE Crash \/ RequestHalt \/ EndDrain
  <2>1. UNCHANGED <<live, dormant, stored, queue, attempts, error, window, queued>>
    BY <1>4 DEF Crash, RequestHalt, EndDrain, rowVars, queueVars
  <2>2. ids' = {} \/ UNCHANGED <<ids, again>>
    BY <1>4 DEF Crash, RunDies, RequestHalt, EndDrain
  <2>3. RunType'
    <3>1. CASE Crash
      BY <1>1, <3>1 DEF RunType, TypeOK, Crash, RunDies
    <3>2. CASE RequestHalt
      BY <1>1, <3>2 DEF RunType, TypeOK, RequestHalt
    <3>3. CASE EndDrain
      BY <1>1, <3>3 DEF RunType, TypeOK, EndDrain
    <3>4. QED
      BY <1>4, <3>1, <3>2, <3>3
  <2>4. TypeOK'
    BY <1>1, <2>1, <2>3 DEF TypeOK, RunType, Listed
  <2>5. \A v \in ids' : v \in ids /\ Left(v)' = Left(v)
    BY <2>2 DEF Left
  <2>6. QED
    BY <2>1, <2>4, <2>5, RowsStay
<1>5. CASE \E r \in Rows : Discover(r)
  BY <1>5, DiscoverKeeps
<1>6. CASE \E r \in Rows : SeenAgain(r) \/ Archive(r)
  <2>1. PICK r \in Rows : SeenAgain(r) \/ Archive(r)
    BY <1>6
  <2>2. /\ UNCHANGED <<stored, queue, attempts, error, window, queued, phase, ids, again, halt,
                      progress, outcome>>
        /\ live' \cup dormant' = live \cup dormant /\ live' \cap dormant' = {}
    BY <1>1, <2>1 DEF SeenAgain, Archive, queueVars, runVars, TypeOK
  <2>3. TypeOK'
    BY <1>1, <2>2 DEF TypeOK, Listed
  <2>4. \A v \in ids' : v \in ids /\ Left(v)' = Left(v)
    BY <2>2 DEF Left
  <2>5. QED
    BY <2>2, <2>3, <2>4, RowsStay
<1>7. ASSUME NEW v \in Vacancies, NEW gone \in SUBSET RowsOf(v), NEW removed \in SUBSET gone,
             Dequeue(gone), Remove(removed), UNCHANGED <<queued, runVars>>,
             stored' \subseteq Vacancies,
             \A w \in stored' : w \in stored \/ (w = v /\ RowsOf(v) \subseteq gone)
      PROVE  QueueInv'
  <2>1. Settle(gone, {}, FALSE) /\ UNCHANGED <<phase, ids, again, halt, progress, outcome>>
    BY <1>7 DEF Dequeue, runVars
  <2>2. RunType' /\ ids' \subseteq ids /\ \A w \in ids' : Left(w)' = Left(w) /\ (w = v => {} = {})
    BY <1>1, <2>1 DEF RunType, TypeOK, Left
  <2>3. QED
    BY <1>7, <2>1, <2>2, SettleKeeps
<1>8. CASE \E r \in Rows : Close(r)
  <2>1. PICK r \in Rows : Close(r)
    BY <1>8
  <2>2. /\ Remove({r}) /\ Dequeue({r}) /\ UNCHANGED <<queued, runVars>>
        /\ stored' = stored \/ stored' = stored \ {VacancyOf[r]}
    BY <2>1 DEF Close, MayForget
  <2>3. VacancyOf[r] \in Vacancies /\ {r} \in SUBSET RowsOf(VacancyOf[r]) /\ {r} \in SUBSET {r}
    BY QueueConstants DEF RowsOf
  <2>4. stored' \subseteq Vacancies /\ \A w \in stored' : w \in stored
    BY <1>1, <2>2 DEF TypeOK
  <2>5. QED
    BY <1>7, <2>2, <2>3, <2>4
<1>9. CASE \E v \in Vacancies : ApiStores(v)
  <2>1. PICK v \in Vacancies : ApiStores(v)
    BY <1>9
  <2>2. /\ Dequeue(RowsOf(v)) /\ stored' = stored \cup {v}
        /\ UNCHANGED <<live, dormant, queued, runVars>>
    BY <2>1 DEF ApiStores
  <2>3. Remove({}) /\ {} \in SUBSET RowsOf(v) /\ RowsOf(v) \in SUBSET RowsOf(v)
    BY <2>2 DEF Remove
  <2>4. stored' \subseteq Vacancies /\ \A w \in stored' : w \in stored \/ (w = v /\ RowsOf(v) \subseteq RowsOf(v))
    BY <1>1, <2>2 DEF TypeOK
  <2>5. UNCHANGED <<queued, runVars>>
    BY <2>2
  <2>6. QED
    BY <1>7, <2>2, <2>3, <2>4, <2>5
<1>10. CASE \E v \in Vacancies : \/ FetchStores(v) \/ FetchCached(v) \/ FetchUnavailable(v)
                                 \/ FetchFails(v) \/ FetchRateLimited(v)
  BY <1>10, FetchKeeps
<1>11. CASE UNCHANGED vars
  <2>1. UNCHANGED <<live, dormant, stored, queue, attempts, error, window, queued, phase, ids, again,
                    halt, progress, outcome>>
    BY <1>11 DEF vars, rowVars, queueVars, runVars
  <2>2. TypeOK' /\ \A v \in ids' : v \in ids /\ Left(v)' = Left(v)
    BY <1>1, <2>1 DEF TypeOK, Left, Listed
  <2>3. QED
    BY <2>1, <2>2, RowsStay
<1>12. QED
  BY <1>3, <1>4, <1>5, <1>6, <1>8, <1>9, <1>10, <1>11 DEF Next

\* The queue and its attempts: what a vacancy was charged is covered by the
\* places in the queue its postings had, for any number of runs, stops, crashes,
\* failures, removals and returns.
THEOREM QueueInvariant == Spec => []QueueInv
<1>1. Init => QueueInv
  <2> SUFFICES ASSUME Init PROVE QueueInv
    OBVIOUS
  <2>1. TypeOK
    <3>1. attempts \in [Rows -> Nat] /\ queued \in [Vacancies -> Nat]
      BY DEF Init
    <3>2. QED
      BY <3>1 DEF Init, TypeOK, Listed
  <2>2. \A v \in Vacancies : Budget(v) = 0
    <3> SUFFICES ASSUME NEW v \in Vacancies PROVE Budget(v) = 0
      OBVIOUS
    <3>1. Fresh(v) = {} /\ Once(v) = {} /\ queued[v] = 0
      BY DEF Init, Fresh, Once
    <3>2. Cardinality(Fresh(v)) = 0 /\ Cardinality(Once(v)) = 0
      BY <3>1, FS_EmptySet
    <3>3. QED
      BY <3>1, <3>2 DEF Budget, Worth
  <2>3. RowsServed /\ WithinBudget /\ CandidatesAfforded
    BY <2>2 DEF Init, RowsServed, WithinBudget, CandidatesAfforded
  <2>4. QED
    BY <2>1, <2>3 DEF QueueInv
<1>2. QED
  BY <1>1, QueueStep, PTL DEF Spec

\* A posting is never tried without end: a queued row has been charged at most
\* three times for each time a posting of its vacancy was queued.
THEOREM AttemptsAreBounded == Spec => []AttemptsBounded
<1>1. ASSUME QueueInv PROVE AttemptsBounded
  <2> SUFFICES ASSUME NEW r \in queue PROVE attempts[r] <= 3 * queued[VacancyOf[r]]
    BY DEF AttemptsBounded
  <2> DEFINE v == VacancyOf[r]
  <2>1. v \in Vacancies /\ attempts[r] \in Nat /\ attempts[r] <= Budget(v) /\ queued[v] \in Nat
    BY <1>1, QueueConstants DEF QueueInv, TypeOK, WithinBudget, Listed
  <2> HIDE DEF v
  <2>2. Cardinality(Fresh(v)) \in Nat /\ Cardinality(Once(v)) \in Nat
    BY <2>1, BudgetType, FS_CardinalityType
  <2>3. attempts[r] <= 3 * queued[v]
    BY <2>1, <2>2 DEF Budget, Worth
  <2>4. QED
    BY <2>3 DEF v
<1>2. QED
  BY <1>1, QueueInvariant, PTL

\* A run that reports COMPLETE leaves no unserved row of its own window behind,
\* and none appears before the next run starts.
THEOREM CompleteIsServed == Spec => []CompleteLeavesNothing
<1>1. Init => CompleteLeavesNothing
  BY DEF Init, CompleteLeavesNothing
<1>2. ASSUME TypeOK, CompleteLeavesNothing, [Next]_vars PROVE CompleteLeavesNothing'
  <2> SUFFICES ASSUME phase' = "idle", outcome' = "COMPLETE", NEW r \in window', Unserved(r)'
               PROVE  FALSE
    BY DEF CompleteLeavesNothing
  <2>1. CASE FinishRun
    <3>1. UNCHANGED <<live, stored, queue, window, attempts>> /\ Pending = {}
      BY <2>1 DEF FinishRun, FinalStatus, rowVars, queueVars
    <3>2. Eligible(r) /\ r \in Rows
      BY <1>2, <3>1 DEF Eligible, Unserved, TypeOK
    <3>3. VacancyOf[r] \in Pending
      BY <3>2 DEF Pending
    <3>4. QED
      BY <3>1, <3>3
  <2>2. CASE \E v \in Vacancies : ApiStores(v)
    <3>1. PICK v \in Vacancies : ApiStores(v)
      BY <2>2
    <3>2. /\ Dequeue(RowsOf(v)) /\ stored' = stored \cup {v} /\ live' = live
          /\ UNCHANGED <<phase, outcome>>
      BY <3>1 DEF ApiStores, runVars
    <3>3. r \in queue' /\ r \in window /\ r \in Rows /\ r \in queue /\ attempts'[r] = attempts[r]
      BY <1>2, <3>2 DEF Dequeue, Settle, Unserved, TypeOK, Listed
    <3>4. Unserved(r)
      BY <3>2, <3>3 DEF Unserved
    <3>5. QED
      BY <1>2, <3>2, <3>3, <3>4 DEF CompleteLeavesNothing
  <2>3. CASE \E q \in Rows : Close(q)
    <3>1. PICK q \in Rows : Close(q)
      BY <2>3
    <3>2. /\ Dequeue({q}) /\ live' = live \ {q} /\ UNCHANGED <<phase, outcome>>
          /\ \/ stored' = stored
             \/ stored' = stored \ {VacancyOf[q]} /\ LiveRows(VacancyOf[q]) \subseteq {q}
      BY <3>1 DEF Close, Remove, MayForget, runVars
    <3>3. /\ r \in queue' /\ r \in window /\ r \in Rows /\ r \in queue /\ attempts'[r] = attempts[r]
          /\ r # q /\ r \in live
      BY <1>2, <3>2 DEF Dequeue, Settle, Unserved, TypeOK, Listed
    <3>4. VacancyOf[r] \notin stored
      BY <3>2, <3>3 DEF Unserved, LiveRows, RowsOf
    <3>5. Unserved(r)
      BY <3>3, <3>4 DEF Unserved
    <3>6. QED
      BY <1>2, <3>2, <3>3, <3>5 DEF CompleteLeavesNothing
  <2>4. CASE \E q \in Rows : Archive(q)
    <3>1. PICK q \in Rows : Archive(q)
      BY <2>4
    <3>2. live' = live \ {q} /\ UNCHANGED <<stored, queue, attempts, window, phase, outcome>>
      BY <3>1 DEF Archive, queueVars, runVars
    <3>3. QED
      BY <1>2, <3>2 DEF CompleteLeavesNothing, Unserved
  <2>5. CASE UNCHANGED vars
    BY <1>2, <2>5 DEF vars, rowVars, queueVars, runVars, CompleteLeavesNothing, Unserved
  <2>6. CASE \/ StartRun \/ PartitionDone \/ CoverageReturns \/ StartFinalDrain
             \/ Crash \/ RequestHalt \/ EndDrain
             \/ \E q \in Rows : Discover(q) \/ SeenAgain(q)
    BY <2>6 DEF StartRun, PartitionDone, CoverageReturns, StartFinalDrain, Crash, RunDies,
       RequestHalt, EndDrain, Discover, SeenAgain, runVars
  <2>7. CASE \E v \in Vacancies : \/ FetchStores(v) \/ FetchCached(v) \/ FetchUnavailable(v)
                                  \/ FetchFails(v) \/ FetchRateLimited(v)
    BY <2>7 DEF FetchStores, FetchCached, FetchUnavailable, FetchFails, FetchRateLimited, AtHead,
       Draining, NextCandidate, RunDies
  <2>8. QED
    BY <1>2, <2>1, <2>2, <2>3, <2>4, <2>5, <2>6, <2>7 DEF Next
<1>3. QueueInv => TypeOK
  BY DEF QueueInv
<1>4. QED
  BY <1>1, <1>2, <1>3, QueueInvariant, PTL DEF Spec
=============================================================================
