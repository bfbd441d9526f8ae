------------------------- MODULE VacancyStoreProofs -------------------------
(* Theorems about VacancyStore and the two modules that act on its rows, for  *)
(* every set of identities and every MaxId: the store by itself, a call of    *)
(* JDEnrichment while another process works on the store, and the pages and   *)
(* checkpoints of ConsumerFeed.  Of the store the feed needs nothing but that *)
(* it keeps out of the feed's own variables.                                  *)
EXTENDS ConsumerFeed, JDEnrichment, FiniteSetTheorems, WellFoundedInduction, TLAPS

\* Deleting rows keeps every column in its type.
LEMMA DeleteType ==
    ASSUME TypeOK, NEW R, R \subseteq Live,
           NEW pointers \in [Ids -> 0..MaxId], NEW audit \in [Ids -> 0..MaxId],
           NEW texts \in [Ids -> Postings \cup {None}],
           NEW stale \in [Ids -> BOOLEAN],
           Delete(R, pointers, audit, texts, stale),
           registry' \subseteq Postings, UNCHANGED <<observed, ingest>>
    PROVE  TypeOK'
<1> USE StoreConstants DEF TypeOK, Ids
<1>1. posting' \in [Ids -> Postings \cup {None}] /\ jd' \in [Ids -> Postings \cup {None}]
  BY DEF Delete, Without
<1>2. primary' \in [Ids -> 0..MaxId] /\ links' \in [Ids -> 0..MaxId]
  BY DEF Delete, NullPointers, CascadeLinks
<1>3. terminal' \in [Ids -> BOOLEAN] /\ archived' \in [Ids -> BOOLEAN]
  BY DEF Delete, Without
<1>4. \A i \in R : posting[i] \in Postings
  BY DEF Live
<1>5. tomb' \subseteq Postings
  <2>1. tomb' = tomb \cup {posting[i] : i \in R}
    BY DEF Delete, Tombstones
  <2>2. {posting[i] : i \in R} \subseteq Postings
    BY <1>4
  <2>3. QED
    BY <2>1, <2>2
<1>7. queued' \subseteq Ids
  BY DEF Delete
<1>6. QED
  BY <1>1, <1>2, <1>3, <1>5, <1>7

\* Every step keeps the types; that a registered root is a row needs flatness.
LEMMA TypeStep == TypeOK /\ FlatFamilies /\ [Next]_vars => TypeOK'
<1> SUFFICES ASSUME TypeOK, FlatFamilies, [Next]_vars PROVE TypeOK'
  OBVIOUS
<1> USE StoreConstants DEF TypeOK, Ids
<1>0. Idle \in [step : {"idle", "link", "enqueue"}, job : 0..MaxId,
                 fresh : BOOLEAN]
  BY DEF Idle
<1>1. ASSUME NEW p \in Postings, IngestInsert(p) PROVE TypeOK'
  BY <1>1 DEF IngestInsert, memory
<1>2. ASSUME NEW i \in Ids, IngestUpdate(i) PROVE TypeOK'
  BY <1>2 DEF IngestUpdate, memory
<1>3. CASE IngestLink
  <2>1. ingest' \in [step : {"idle", "link", "enqueue"}, job : 0..MaxId,
                     fresh : BOOLEAN]
    BY <1>0, <1>3 DEF IngestLink, AfterLink
  <2>2. CASE UNCHANGED <<primary, links>>
    BY <1>3, <2>1, <2>2 DEF IngestLink, memory
  <2>3. ASSUME NEW c \in Live \ {ingest.job}, Merge(ingest.job, c)
        PROVE  TypeOK'
    <3>1. ingest.job \in Ids
      BY <1>3 DEF IngestLink, Live
    <3>2. Root(ingest.job) \in 0..MaxId /\ Root(c) \in 0..MaxId
      BY <2>3, <3>1 DEF Root, Live
    <3>3. primary' \in [Ids -> 0..MaxId] /\ links' \in [Ids -> 0..MaxId]
      BY <2>3, <3>2 DEF Merge, Members
    <3>4. QED
      BY <1>3, <2>1, <3>3 DEF IngestLink, memory
  <2>4. QED
    BY <1>3, <2>2, <2>3 DEF IngestLink
<1>4. CASE IngestEnqueue
  <2>1. ingest.job \in Ids
    BY <1>4 DEF IngestEnqueue, Live
  <2>2. queued' \subseteq Ids
    BY <1>4, <2>1 DEF IngestEnqueue
  <2>3. QED
    BY <1>0, <1>4, <2>2 DEF IngestEnqueue, memory
<1>5. CASE IngestAbort
  BY <1>0, <1>5 DEF IngestAbort, rowVars, memory
<1>6. ASSUME NEW i \in Ids, RetireTerminal(i) PROVE TypeOK'
  <2>1. ASSUME NEW r \in Heirs(i), Promote(i, r) PROVE TypeOK'
    <3>1. r \in Ids
      BY <2>1 DEF Heirs, Live
    <3> DEFINE pointers == Repoint(primary, i, r)
               audit == Repoint(links, i, r)
               texts == IF Inherits(i, r) THEN [jd EXCEPT ![r] = jd[i]] ELSE jd
    <3>2. pointers \in [Ids -> 0..MaxId] /\ audit \in [Ids -> 0..MaxId]
      BY <3>1 DEF Repoint
    <3>3. texts \in [Ids -> Postings \cup {None}]
      BY <3>1
    <3>4. posting[r] \in Postings
      BY <2>1, <3>1 DEF Heirs, Live
    <3>5. registry' \subseteq Postings
      BY <2>1, <3>4 DEF Promote
    <3>6. Delete({i}, pointers, audit, texts, archived)
      BY <2>1 DEF Promote
    <3> HIDE DEF pointers, audit, texts
    <3>7. i \in Live
      BY <1>6 DEF RetireTerminal
    <3>8. QED
      BY <1>6, <3>2, <3>3, <3>5, <3>6, <3>7, DeleteType DEF RetireTerminal, Live
  <2>2. CASE Delete({i}, primary, links, jd, archived) /\ UNCHANGED registry
    BY <1>6, <2>2, DeleteType DEF RetireTerminal, Live
  <2>3. QED
    BY <1>6, <2>1, <2>2 DEF RetireTerminal
<1>7. CASE Retention
  <2>0. PICK A \in SUBSET {i \in Live : ~archived[i]} :
           \E R \in SUBSET {i \in Live : Removable(A, i)} :
           /\ Delete(R, primary, links, jd, [i \in Ids |-> archived[i] \/ i \in A])
           /\ UNCHANGED <<registry, observed, ingest>>
    BY <1>7 DEF Retention
  <2>1. PICK R \in SUBSET {i \in Live : Removable(A, i)} :
           /\ Delete(R, primary, links, jd, [i \in Ids |-> archived[i] \/ i \in A])
           /\ UNCHANGED <<registry, observed, ingest>>
    BY <2>0
  <2> DEFINE stale == [i \in Ids |-> archived[i] \/ i \in A]
  <2>2. stale \in [Ids -> BOOLEAN]
    OBVIOUS
  <2>3. R \subseteq Live
    BY <2>1
  <2> HIDE DEF stale
  <2>4. Delete(R, primary, links, jd, stale)
    BY <2>1 DEF stale
  <2>5. QED
    BY <2>1, <2>2, <2>3, <2>4, DeleteType
<1>8. ASSUME NEW i \in Ids, SetSourceStatus(i) PROVE TypeOK'
  BY <1>8 DEF SetSourceStatus, memory
<1>9. ASSUME NEW c \in Ids, StoreJD(c) PROVE TypeOK'
  <2>1. c \in Live /\ posting[c] \in Postings
    BY <1>9 DEF StoreJD, StoreText, Live
  <2>2. jd' \in [Ids -> Postings \cup {None}]
    BY <1>9, <2>1 DEF StoreJD, StoreText, Target, Written
  <2>3. registry' \subseteq Postings
    <3>1. Root(c) \in Live
      BY <2>1 DEF Root, FlatFamilies, Live
    <3>2. posting[Root(c)] \in Postings
      BY <3>1 DEF Live
    <3>3. QED
      BY <1>9, <3>2 DEF StoreJD, StoreText, Canonical
  <2>4. queued' \subseteq Ids
    BY <1>9 DEF StoreJD, StoreText
  <2>5. QED
    BY <1>9, <2>2, <2>3, <2>4 DEF StoreJD, StoreText
<1>10. ASSUME NEW i \in Ids, TouchKnown(i) PROVE TypeOK'
  BY <1>10 DEF TouchKnown, memory
<1>11. CASE UNCHANGED vars
  BY <1>11 DEF vars
<1>12. QED
  BY <1>1, <1>2, <1>3, <1>4, <1>5, <1>6, <1>7, <1>8, <1>9, <1>10, <1>11 DEF Next

-----------------------------------------------------------------------------

\* Deleting rows keeps families flat if the pointers written before it are.
LEMMA DeleteFlat ==
    ASSUME NEW R, R \subseteq Ids,
           NEW pointers \in [Ids -> 0..MaxId],
           \A k \in Ids : pointers[k] # 0 =>
               /\ posting[k] # None
               /\ pointers[k] \in Live \cup R
               /\ pointers[k] \notin R => pointers[pointers[k]] = 0,
           NEW texts, NEW stale,
           Delete(R, pointers, pointers, texts, stale)
    PROVE  FlatFamilies' /\ AuditMatchesGrouping'
<1> USE StoreConstants DEF Ids, Live
<1>1. /\ primary' = [k \in Ids |-> IF k \in R \/ pointers[k] \in R THEN 0 ELSE pointers[k]]
      /\ links' = primary'
      /\ posting' = [k \in Ids |-> IF k \in R THEN None ELSE posting[k]]
  BY DEF Delete, Without, NullPointers, CascadeLinks
<1>2. FlatFamilies'
  BY <1>1 DEF FlatFamilies
<1>3. QED
  BY <1>1, <1>2 DEF AuditMatchesGrouping

\* Every step keeps families flat and the audit table equal to the grouping.
LEMMA FlatStep ==
    TypeOK /\ FlatFamilies /\ AuditMatchesGrouping /\ [Next]_vars
        => FlatFamilies' /\ AuditMatchesGrouping'
<1> SUFFICES ASSUME TypeOK, FlatFamilies, AuditMatchesGrouping, [Next]_vars
             PROVE  FlatFamilies' /\ AuditMatchesGrouping'
  OBVIOUS
<1> USE StoreConstants DEF Ids
<1>0. ASSUME UNCHANGED <<posting, primary, links>>
      PROVE  FlatFamilies' /\ AuditMatchesGrouping'
  BY <1>0 DEF FlatFamilies, AuditMatchesGrouping, Live
<1>1. ASSUME NEW p \in Postings, IngestInsert(p)
      PROVE  FlatFamilies' /\ AuditMatchesGrouping'
  <2>1. PICK i \in Ids : IsNextId(i) /\ posting' = [posting EXCEPT ![i] = p]
    BY <1>1 DEF IngestInsert
  <2>2. p # None /\ UNCHANGED <<primary, links>>
    BY <1>1 DEF IngestInsert
  <2>3. Live' = Live \cup {i}
    BY <2>1, <2>2 DEF Live, TypeOK
  <2>4. QED
    BY <2>1, <2>2, <2>3 DEF FlatFamilies, AuditMatchesGrouping, TypeOK
<1>2. ASSUME NEW i \in Ids, IngestUpdate(i)
      PROVE  FlatFamilies' /\ AuditMatchesGrouping'
  BY <1>0, <1>2 DEF IngestUpdate
<1>3. CASE IngestLink
  <2>1. CASE UNCHANGED <<primary, links>>
    BY <1>0, <1>3, <2>1 DEF IngestLink
  <2>2. ASSUME NEW c \in Live \ {ingest.job}, Merge(ingest.job, c)
        PROVE  FlatFamilies' /\ AuditMatchesGrouping'
    <3> DEFINE i == ingest.job
               roots == {Root(i), Root(c), i, c}
               oldest == IF Root(i) <= Root(c) THEN Root(i) ELSE Root(c)
               moved == {j \in Live : j \in roots \/ primary[j] \in roots} \ {oldest}
    <3>1. i \in Live /\ c \in Live
      BY <1>3 DEF IngestLink
    <3>2. /\ Root(i) \in Live /\ primary[Root(i)] = 0
          /\ Root(c) \in Live /\ primary[Root(c)] = 0
      BY <3>1 DEF Root, FlatFamilies, Live
    <3>3. oldest \in Live /\ primary[oldest] = 0 /\ oldest \in roots
      BY <3>2
    <3>4. roots \subseteq Live
      BY <3>1, <3>2
    <3>5. /\ primary' = [j \in Ids |-> IF j \in moved THEN oldest ELSE primary[j]]
          /\ links' = [j \in Ids |-> IF j \in moved THEN oldest ELSE links[j]]
      BY <2>2 DEF Merge, Members
    <3>6. \A j \in Ids : primary[j] # 0 /\ j \notin moved => primary[j] \notin moved
      <4> SUFFICES ASSUME NEW j \in Ids, primary[j] # 0, j \notin moved,
                          primary[j] \in moved
                   PROVE  FALSE
        OBVIOUS
      <4>1. j \in Live /\ primary[j] \in Live /\ primary[primary[j]] = 0
        BY DEF FlatFamilies, Live
      <4>2. 0 \notin roots
        BY <3>4 DEF Live
      <4>3. primary[j] \in roots
        BY <4>1, <4>2
      <4>4. j # oldest
        BY <3>3
      <4>5. QED
        BY <4>1, <4>3, <4>4
    <3>7. posting' = posting /\ Live' = Live
      BY <1>3 DEF IngestLink, Live
    <3>8. moved \subseteq Live /\ oldest \notin moved
      OBVIOUS
    <3> HIDE DEF moved, oldest, roots
    <3>9. FlatFamilies'
      BY <3>3, <3>5, <3>6, <3>7, <3>8 DEF FlatFamilies, Live
    <3>10. AuditMatchesGrouping'
      BY <3>5 DEF AuditMatchesGrouping
    <3>11. QED
      BY <3>9, <3>10
  <2>3. QED
    BY <1>3, <2>1, <2>2 DEF IngestLink
<1>4. CASE IngestEnqueue
  BY <1>0, <1>4 DEF IngestEnqueue
<1>5. CASE IngestAbort
  BY <1>0, <1>5 DEF IngestAbort, rowVars
<1>6. ASSUME NEW i \in Ids, RetireTerminal(i)
      PROVE  FlatFamilies' /\ AuditMatchesGrouping'
  <2>1. ASSUME NEW r \in Heirs(i), Promote(i, r), primary[i] = 0
        PROVE  FlatFamilies' /\ AuditMatchesGrouping'
    <3> DEFINE pointers == Repoint(primary, i, r)
               texts == IF Inherits(i, r) THEN [jd EXCEPT ![r] = jd[i]] ELSE jd
    <3>1. r \in Live /\ primary[r] = i /\ r # i /\ r \in Ids
      BY <2>1 DEF Heirs, Live
    <3>2. pointers \in [Ids -> 0..MaxId]
      BY <3>1 DEF TypeOK, Repoint
    <3>3. Delete({i}, pointers, pointers, texts, archived)
      BY <2>1 DEF Promote, AuditMatchesGrouping
    <3>4. \A k \in Ids : pointers[k] # 0 =>
               /\ posting[k] # None
               /\ pointers[k] \in Live \cup {i}
               /\ pointers[k] \notin {i} => pointers[pointers[k]] = 0
      BY <2>1, <3>1 DEF FlatFamilies, Live, Repoint
    <3> HIDE DEF pointers, texts
    <3>5. QED
      BY <3>2, <3>3, <3>4, DeleteFlat
  <2>2. CASE Delete({i}, primary, links, jd, archived)
    <3>1. Delete({i}, primary, primary, jd, archived)
      BY <2>2 DEF AuditMatchesGrouping
    <3>2. QED
      BY <3>1, DeleteFlat DEF FlatFamilies, TypeOK
  <2>3. QED
    BY <1>6, <2>1, <2>2 DEF RetireTerminal
<1>7. CASE Retention
  <2>1. PICK A \in SUBSET {i \in Live : ~archived[i]} :
           \E R \in SUBSET {i \in Live : Removable(A, i)} :
               Delete(R, primary, links, jd, [i \in Ids |-> archived[i] \/ i \in A])
    BY <1>7 DEF Retention
  <2>2. PICK R \in SUBSET {i \in Live : Removable(A, i)} :
           Delete(R, primary, links, jd, [i \in Ids |-> archived[i] \/ i \in A])
    BY <2>1
  <2>3. R \subseteq Ids
    BY DEF Live
  <2>4. Delete(R, primary, primary, jd, [i \in Ids |-> archived[i] \/ i \in A])
    BY <2>2 DEF AuditMatchesGrouping
  <2>5. QED
    BY <2>3, <2>4, DeleteFlat DEF FlatFamilies, TypeOK
<1>8. ASSUME NEW i \in Ids, SetSourceStatus(i)
      PROVE  FlatFamilies' /\ AuditMatchesGrouping'
  BY <1>0, <1>8 DEF SetSourceStatus
<1>9. ASSUME NEW c \in Ids, StoreJD(c)
      PROVE  FlatFamilies' /\ AuditMatchesGrouping'
  BY <1>0, <1>9 DEF StoreJD, StoreText
<1>10. ASSUME NEW i \in Ids, TouchKnown(i)
       PROVE  FlatFamilies' /\ AuditMatchesGrouping'
  BY <1>0, <1>10 DEF TouchKnown
<1>11. CASE UNCHANGED vars
  BY <1>0, <1>11 DEF vars
<1>12. QED
  BY <1>1, <1>2, <1>3, <1>4, <1>5, <1>6, <1>7, <1>8, <1>9, <1>10, <1>11 DEF Next

-----------------------------------------------------------------------------

\* The inductive invariant: types, flat families and a matching audit table.
StoreInv == TypeOK /\ FlatFamilies /\ AuditMatchesGrouping

\* Every reachable state satisfies the inductive invariant of the store: the
\* three parts are preserved together because merging relies on flatness.
THEOREM StoreInvariant == Spec => []StoreInv
<1>1. Init => StoreInv
  BY StoreConstants
  DEF Init, StoreInv, TypeOK, FlatFamilies, AuditMatchesGrouping, Ids, Idle
<1>2. StoreInv /\ [Next]_vars => StoreInv'
  BY TypeStep, FlatStep DEF StoreInv
<1>3. QED
  BY <1>1, <1>2, PTL DEF Spec

\* Type correctness of the store.
THEOREM TypeCorrect == Spec => []TypeOK
  BY StoreInvariant, PTL DEF StoreInv

\* Families are one level deep in every reachable state.
THEOREM FamiliesAreFlat == Spec => []FlatFamilies
  BY StoreInvariant, PTL DEF StoreInv

\* The audit table always equals the grouping.
THEOREM AuditIsFaithful == Spec => []AuditMatchesGrouping
  BY StoreInvariant, PTL DEF StoreInv

-----------------------------------------------------------------------------
(* What the store remembers: identities of rows and tombstones, and the      *)
(* registry of fetched texts.                                                *)

\* Removing rows turns their identities into tombstones, and only theirs.
LEMMA DeleteIdentity ==
    ASSUME TypeOK, IdentityRecordedOnce, NEW R, R \subseteq Live,
           NEW pointers, NEW audit, NEW texts, NEW stale,
           Delete(R, pointers, audit, texts, stale), UNCHANGED observed
    PROVE  IdentityRecordedOnce'
<1> USE DEF TypeOK, Live, LivePostings
<1>1. /\ posting' = [i \in Ids |-> IF i \in R THEN None ELSE posting[i]]
      /\ tomb' = tomb \cup {posting[i] : i \in R}
  BY DEF Delete, Without, Tombstones
<1>2. Live' = Live \ R /\ \A i \in Live' : posting'[i] = posting[i]
  BY <1>1
<1>3. \A i, j \in Live' : posting'[i] = posting'[j] => i = j
  BY <1>2 DEF IdentityRecordedOnce
<1>4. LivePostings' = LivePostings \ {posting[i] : i \in R}
  <2>1. ASSUME NEW i \in Live', NEW j \in R, posting'[i] = posting[j]
        PROVE  FALSE
    BY <2>1, <1>2 DEF IdentityRecordedOnce
  <2>2. ASSUME NEW i \in Live, posting[i] \notin {posting[j] : j \in R}
        PROVE  i \in Live' /\ posting'[i] = posting[i]
    BY <2>2, <1>2
  <2>3. LivePostings' \subseteq LivePostings \ {posting[i] : i \in R}
    BY <2>1, <1>2
  <2>4. LivePostings \ {posting[i] : i \in R} \subseteq LivePostings'
    BY <2>2
  <2>5. QED
    BY <2>3, <2>4
<1>5. QED
  BY <1>1, <1>3, <1>4 DEF IdentityRecordedOnce

\* Every step keeps one record of each identity.
LEMMA IdentityStep ==
    TypeOK /\ IdentityRecordedOnce /\ [Next]_vars => IdentityRecordedOnce'
<1> SUFFICES ASSUME TypeOK, IdentityRecordedOnce, [Next]_vars
             PROVE  IdentityRecordedOnce'
  OBVIOUS
<1>0. ASSUME UNCHANGED <<posting, tomb, observed>> PROVE IdentityRecordedOnce'
  BY <1>0 DEF IdentityRecordedOnce, LivePostings, Live
<1>1. ASSUME NEW p \in Postings, IngestInsert(p) PROVE IdentityRecordedOnce'
  <2>1. PICK i \in Ids : IsNextId(i) /\ posting' = [posting EXCEPT ![i] = p]
    BY <1>1 DEF IngestInsert
  <2>2. /\ p \notin LivePostings /\ tomb' = tomb \ {p}
        /\ observed' = observed \cup {p} /\ p # None
    BY <1>1, StoreConstants DEF IngestInsert
  <2>3. i \notin Live
    BY <2>1 DEF IsNextId, Ids
  <2>4. /\ Live' = Live \cup {i} /\ posting'[i] = p
        /\ \A j \in Live : posting'[j] = posting[j]
    BY <2>1, <2>2, <2>3 DEF Live, TypeOK
  <2>5. LivePostings' = LivePostings \cup {p}
    BY <2>4 DEF LivePostings
  <2>6. \A j, k \in Live' : posting'[j] = posting'[k] => j = k
    BY <2>2, <2>4 DEF IdentityRecordedOnce, LivePostings
  <2>7. QED
    BY <2>2, <2>5, <2>6 DEF IdentityRecordedOnce
<1>2. ASSUME NEW i \in Ids, RetireTerminal(i) PROVE IdentityRecordedOnce'
  BY <1>2, DeleteIdentity DEF RetireTerminal, Promote
<1>3. CASE Retention
  <2>1. PICK A \in SUBSET {i \in Live : ~archived[i]} :
           \E R \in SUBSET {i \in Live : Removable(A, i)} :
           /\ Delete(R, primary, links, jd, [i \in Ids |-> archived[i] \/ i \in A])
           /\ UNCHANGED observed
    BY <1>3 DEF Retention
  <2>2. PICK R \in SUBSET {i \in Live : Removable(A, i)} :
           /\ Delete(R, primary, links, jd, [i \in Ids |-> archived[i] \/ i \in A])
           /\ UNCHANGED observed
    BY <2>1
  <2>3. R \subseteq Live
    OBVIOUS
  <2>4. QED
    BY <2>2, <2>3, DeleteIdentity
<1>4. CASE UNCHANGED vars
  BY <1>0, <1>4 DEF vars
<1>5. ASSUME NEW i \in Ids, IngestUpdate(i) \/ TouchKnown(i) \/ SetSourceStatus(i)
      PROVE  IdentityRecordedOnce'
  BY <1>0, <1>5 DEF IngestUpdate, TouchKnown, SetSourceStatus, memory
<1>6. CASE IngestLink \/ IngestEnqueue \/ IngestAbort
  BY <1>0, <1>6 DEF IngestLink, IngestEnqueue, IngestAbort, rowVars, memory
<1>7. ASSUME NEW c \in Ids, StoreJD(c) PROVE IdentityRecordedOnce'
  BY <1>0, <1>7 DEF StoreJD, StoreText
<1>8. QED
  BY <1>1, <1>2, <1>3, <1>4, <1>5, <1>6, <1>7 DEF Next

\* An identity once ingested is held by exactly one of a row and a tombstone.
THEOREM IdentitiesAreKept == Spec => []IdentityRecordedOnce
<1>1. Init => IdentityRecordedOnce
  BY DEF Init, IdentityRecordedOnce, LivePostings, Live
<1>2. StoreInv /\ IdentityRecordedOnce /\ [Next]_vars => IdentityRecordedOnce'
  BY IdentityStep DEF StoreInv
<1>3. QED
  BY <1>1, <1>2, StoreInvariant, PTL DEF Spec

-----------------------------------------------------------------------------

\* Where there is no row there is no text.
EmptyRows == \A i \in Ids : posting[i] = None => jd[i] = None

\* What StoredJDIsRegistered needs to be inductive.
RegistryInv == StoredJDIsRegistered /\ EmptyRows

\* Removing rows keeps the registry complete if it was after the texts moved.
LEMMA DeleteRegistry ==
    ASSUME NEW R, NEW pointers, NEW audit, NEW texts, NEW stale, TypeOK,
           \A i \in Ids : posting[i] # None /\ texts[i] # None =>
               posting[i] \in registry',
           \A i \in Ids : posting[i] = None => texts[i] = None,
           Delete(R, pointers, audit, texts, stale)
    PROVE  RegistryInv'
<1>1. /\ posting' = [i \in Ids |-> IF i \in R THEN None ELSE posting[i]]
      /\ jd' = [i \in Ids |-> IF i \in R THEN None ELSE texts[i]]
  BY DEF Delete, Without
<1>2. QED
  BY <1>1 DEF RegistryInv, StoredJDIsRegistered, EmptyRows, Live

\* Every step keeps stored texts registered.
LEMMA RegistryStep ==
    StoreInv /\ RegistryInv /\ [Next]_vars => RegistryInv'
<1> SUFFICES ASSUME StoreInv, RegistryInv, [Next]_vars PROVE RegistryInv'
  OBVIOUS
<1> USE DEF StoreInv
<1>0. ASSUME UNCHANGED <<posting, jd, registry>> PROVE RegistryInv'
  BY <1>0 DEF RegistryInv, StoredJDIsRegistered, EmptyRows, Live
<1>1. ASSUME NEW p \in Postings, IngestInsert(p) PROVE RegistryInv'
  <2>1. PICK i \in Ids : IsNextId(i) /\ posting' = [posting EXCEPT ![i] = p]
    BY <1>1 DEF IngestInsert
  <2>2. i \notin Live /\ UNCHANGED <<jd, registry>>
    BY <1>1, <2>1 DEF IngestInsert, IsNextId, Ids
  <2>3. posting[i] = None
    BY <2>2 DEF Live
  <2>4. QED
    BY <2>1, <2>2, <2>3 DEF RegistryInv, StoredJDIsRegistered, EmptyRows, Live, TypeOK
<1>2. ASSUME NEW i \in Ids, RetireTerminal(i) PROVE RegistryInv'
  <2>1. ASSUME NEW r \in Heirs(i), Promote(i, r) PROVE RegistryInv'
    <3> DEFINE texts == IF Inherits(i, r) THEN [jd EXCEPT ![r] = jd[i]] ELSE jd
    <3>1. r \in Ids /\ posting[r] # None
      BY DEF Heirs, Live
    <3>2. registry \subseteq registry' /\ (Inherits(i, r) => posting[r] \in registry')
      BY <2>1 DEF Promote
    <3>3. \A k \in Ids : posting[k] # None /\ texts[k] # None => posting[k] \in registry'
      BY <3>1, <3>2 DEF RegistryInv, StoredJDIsRegistered, Live, TypeOK
    <3>4. \A k \in Ids : posting[k] = None => texts[k] = None
      BY <3>1 DEF RegistryInv, EmptyRows, TypeOK
    <3>5. Delete({i}, Repoint(primary, i, r), Repoint(links, i, r), texts, archived)
      BY <2>1 DEF Promote
    <3> HIDE DEF texts
    <3>6. QED
      BY <3>3, <3>4, <3>5, DeleteRegistry
  <2>2. CASE Delete({i}, primary, links, jd, archived) /\ UNCHANGED registry
    BY <2>2, DeleteRegistry DEF RegistryInv, StoredJDIsRegistered, EmptyRows, Live
  <2>3. QED
    BY <1>2, <2>1, <2>2 DEF RetireTerminal
<1>3. CASE Retention
  <2>1. PICK A \in SUBSET {i \in Live : ~archived[i]} :
           \E R \in SUBSET {i \in Live : Removable(A, i)} :
           /\ Delete(R, primary, links, jd, [i \in Ids |-> archived[i] \/ i \in A])
           /\ UNCHANGED registry
    BY <1>3 DEF Retention
  <2>2. PICK R \in SUBSET {i \in Live : Removable(A, i)} :
           /\ Delete(R, primary, links, jd, [i \in Ids |-> archived[i] \/ i \in A])
           /\ UNCHANGED registry
    BY <2>1
  <2>3. QED
    BY <2>2, DeleteRegistry DEF RegistryInv, StoredJDIsRegistered, EmptyRows, Live
<1>4. CASE UNCHANGED vars
  BY <1>0, <1>4 DEF vars
<1>5. ASSUME NEW i \in Ids, IngestUpdate(i) \/ TouchKnown(i) \/ SetSourceStatus(i)
      PROVE  RegistryInv'
  BY <1>0, <1>5 DEF IngestUpdate, TouchKnown, SetSourceStatus, memory
<1>6. CASE IngestLink \/ IngestEnqueue \/ IngestAbort
  BY <1>0, <1>6 DEF IngestLink, IngestEnqueue, IngestAbort, rowVars, memory
<1>7. ASSUME NEW c \in Ids, StoreJD(c) PROVE RegistryInv'
  <2>1. c \in Live /\ posting' = posting
    BY <1>7 DEF StoreJD, StoreText
  <2>2. Root(c) \in Live
    BY <2>1 DEF Root, FlatFamilies, Live
  <2>3. /\ jd' = [jd EXCEPT ![Root(c)] = Written(Root(c), posting[c])]
        /\ registry' = registry \cup {posting[Root(c)]}
    BY <1>7 DEF StoreJD, StoreText, Target, Canonical
  <2>4. QED
    BY <2>1, <2>2, <2>3 DEF RegistryInv, StoredJDIsRegistered, EmptyRows, Live, TypeOK
<1>8. QED
  BY <1>1, <1>2, <1>3, <1>4, <1>5, <1>6, <1>7 DEF Next

\* A row with a text has its identity in the permanent registry.
THEOREM TextsAreRegistered == Spec => []StoredJDIsRegistered
<1>1. Init => RegistryInv
  BY DEF Init, RegistryInv, StoredJDIsRegistered, EmptyRows, Live
<1>2. Spec => []RegistryInv
  BY <1>1, RegistryStep, StoreInvariant, PTL DEF Spec
<1>3. QED
  BY <1>2, PTL DEF RegistryInv

-----------------------------------------------------------------------------
(* What a step of the store may never do: replace a text, cost a vacancy its *)
(* JD by removing a row, or split a vacancy.                                 *)

\* The steps that neither remove rows nor move texts and families.
Quiet ==
    \/ \E i \in Ids : IngestUpdate(i) \/ TouchKnown(i) \/ SetSourceStatus(i)
    \/ IngestEnqueue \/ IngestAbort \/ UNCHANGED vars

\* They leave rows, pointers and texts alone.
LEMMA QuietStep == Quiet => UNCHANGED <<posting, primary, links, jd>>
BY DEF Quiet, IngestUpdate, TouchKnown, SetSourceStatus, IngestEnqueue,
       IngestAbort, rowVars, memory, vars

\* The cases of a step.
LEMMA StepCases ==
    [Next]_vars =>
        \/ Quiet \/ IngestLink \/ Retention
        \/ \E p \in Postings : IngestInsert(p)
        \/ \E i \in Ids : RetireTerminal(i)
        \/ \E c \in Ids : StoreJD(c)
BY DEF Next, Quiet

\* A new row takes an id that no row has.
LEMMA InsertStep ==
    ASSUME TypeOK, NEW p \in Postings, IngestInsert(p)
    PROVE  /\ \A i \in Live : posting'[i] = posting[i]
           /\ UNCHANGED <<primary, links, jd>>
<1>1. PICK i \in Ids : IsNextId(i) /\ posting' = [posting EXCEPT ![i] = p]
  BY DEF IngestInsert
<1>2. i \notin Live
  BY <1>1 DEF IsNextId, Ids
<1>3. QED
  BY <1>1, <1>2 DEF IngestInsert, TypeOK, Live

-----------------------------------------------------------------------------

\* What JDWriteOnce says of a step.
RowsKeepTexts ==
    \A i \in Ids : posting[i] # None /\ posting'[i] = posting[i] /\ jd[i] # None
        => jd'[i] = jd[i]

\* Every step keeps the text of a row that stays.
LEMMA RowsKeepTextsStep == TypeOK /\ [Next]_vars => RowsKeepTexts
<1> SUFFICES ASSUME TypeOK, [Next]_vars PROVE RowsKeepTexts
  OBVIOUS
<1> USE DEF RowsKeepTexts
<1>1. CASE Quiet
  BY <1>1, QuietStep
<1>2. CASE IngestLink
  BY <1>2 DEF IngestLink
<1>3. ASSUME NEW p \in Postings, IngestInsert(p) PROVE RowsKeepTexts
  BY <1>3, InsertStep
<1>4. ASSUME NEW i \in Ids, RetireTerminal(i) PROVE RowsKeepTexts
  <2>1. ASSUME NEW r \in Heirs(i), Promote(i, r) PROVE RowsKeepTexts
    BY <2>1 DEF Promote, Delete, Without, Inherits, Heirs, Live, TypeOK
  <2>2. CASE Delete({i}, primary, links, jd, archived)
    BY <2>2 DEF Delete, Without
  <2>3. QED
    BY <1>4, <2>1, <2>2 DEF RetireTerminal
<1>5. CASE Retention
  BY <1>5 DEF Retention, Delete, Without
<1>6. ASSUME NEW c \in Ids, StoreJD(c) PROVE RowsKeepTexts
  BY <1>6 DEF StoreJD, StoreText, Written, TypeOK
<1>7. QED
  BY StepCases, <1>1, <1>2, <1>3, <1>4, <1>5, <1>6

\* While a row lives, nothing replaces the text it holds.
THEOREM TextsAreWrittenOnce == Spec => JDWriteOnce
<1>1. TypeOK /\ [Next]_vars => [RowsKeepTexts]_vars
  BY RowsKeepTextsStep
<1>2. QED
  BY <1>1, TypeCorrect, PTL DEF Spec, JDWriteOnce, RowsKeepTexts

-----------------------------------------------------------------------------

\* What RetirementKeepsJD says of a step.
HeirsKeepJD ==
    \A i \in Live : posting'[i] = None /\ jd[i] # None =>
        \A j \in Family(i) \ {i} : Active(j) /\ Active(j)' => jd'[Root(j)'] # None

\* Every step that removes a root with a JD leaves its active aliases a JD.
LEMMA HeirsKeepJDStep == StoreInv /\ [Next]_vars => HeirsKeepJD
<1> SUFFICES ASSUME StoreInv, [Next]_vars,
                    NEW i \in Live, posting'[i] = None, jd[i] # None,
                    NEW j \in Family(i) \ {i}, Active(j), Active(j)'
             PROVE  jd'[Root(j)'] # None
  BY DEF HeirsKeepJD
<1> USE DEF StoreInv
<1>1. i \in Ids /\ j \in Ids /\ j \in Live /\ primary[j] = i /\ j # i /\ posting[i] # None
  BY DEF Family, Live
<1>2. primary[i] = 0 /\ j \in Heirs(i)
  BY <1>1 DEF FlatFamilies, Heirs, Ids
<1>3. CASE Quiet
  BY <1>1, <1>3, QuietStep
<1>4. CASE IngestLink
  BY <1>1, <1>4 DEF IngestLink
<1>5. ASSUME NEW p \in Postings, IngestInsert(p) PROVE FALSE
  BY <1>1, <1>5, InsertStep
<1>6. ASSUME NEW k \in Ids, RetireTerminal(k) PROVE jd'[Root(j)'] # None
  <2>1. k = i
    <3>1. posting' = Without(posting, {k}, None)
      BY <1>6 DEF RetireTerminal, Promote, Delete
    <3>2. QED
      BY <1>1, <3>1 DEF Without
  <2>2. PICK r \in Heirs(i) : Promote(i, r)
    BY <1>2, <1>6, <2>1 DEF RetireTerminal
  <2>3. r \in Ids /\ r # i /\ r # 0
    BY <1>2, <2>2 DEF Heirs, Live, Ids
  <2>4. primary' = NullPointers(Repoint(primary, i, r), {i})
    BY <2>2 DEF Promote, Delete
  <2>5. Root(j)' = r
    BY <1>1, <2>3, <2>4 DEF Root, NullPointers, Repoint
  <2>6. jd'[r] # None
    BY <2>2, <2>3 DEF Promote, Delete, Without, Inherits, TypeOK
  <2>7. QED
    BY <2>5, <2>6
<1>7. CASE Retention
  <2>1. PICK A \in SUBSET {k \in Live : ~archived[k]} :
           \E R \in SUBSET {k \in Live : Removable(A, k)} :
               Delete(R, primary, links, jd, [k \in Ids |-> archived[k] \/ k \in A])
    BY <1>7 DEF Retention
  <2>2. PICK R \in SUBSET {k \in Live : Removable(A, k)} :
           Delete(R, primary, links, jd, [k \in Ids |-> archived[k] \/ k \in A])
    BY <2>1
  <2>3. posting' = Without(posting, R, None)
    BY <2>2 DEF Delete
  <2>4. i \in R /\ j \notin R
    BY <1>1, <2>3 DEF Without, Active
  <2>5. archived[j] \/ j \in A
    BY <1>1, <2>4 DEF Removable
  <2>6. archived' = Without([k \in Ids |-> archived[k] \/ k \in A], R, FALSE)
    BY <2>2 DEF Delete
  <2>7. archived'[j]
    BY <1>1, <2>4, <2>5, <2>6 DEF Without
  <2>8. QED
    BY <2>7 DEF Active
<1>8. ASSUME NEW c \in Ids, StoreJD(c) PROVE FALSE
  BY <1>1, <1>8 DEF StoreJD, StoreText
<1>9. QED
  BY StepCases, <1>3, <1>4, <1>5, <1>6, <1>7, <1>8

\* Removing a root never costs its active aliases the canonical JD.
THEOREM RemovalKeepsJD == Spec => RetirementKeepsJD
<1>1. StoreInv /\ [Next]_vars => [HeirsKeepJD]_vars
  BY HeirsKeepJDStep
<1>2. QED
  BY <1>1, StoreInvariant, PTL DEF Spec, RetirementKeepsJD, HeirsKeepJD
-----------------------------------------------------------------------------

\* What ActiveFamilyStaysTogether says of a step.
FamiliesStay ==
    primary' # primary => \A i, j \in {k \in Live : Active(k) /\ Active(k)'} :
        Root(i) = Root(j) => Root(i)' = Root(j)'

\* Removing rows does not move a row that stays, unless its root is removed.
LEMMA DeleteKeepsRoots ==
    ASSUME StoreInv, NEW R, R \subseteq Live, NEW texts, NEW stale,
           NEW i \in Live, Active(i)', Root(i) \notin R \/ Root(i) = i,
           Delete(R, primary, links, texts, stale)
    PROVE  Root(i)' = Root(i)
<1> USE DEF StoreInv
<1>1. /\ posting' = Without(posting, R, None)
      /\ primary' = NullPointers(primary, R)
  BY DEF Delete
<1>2. i \notin R
  BY <1>1 DEF Without, Active, Live
<1>3. QED
  BY <1>1, <1>2 DEF NullPointers, Root, Live, FlatFamilies, TypeOK, Ids

\* A merge moves the members of a vacancy together.
LEMMA LinkMovesTogether ==
    ASSUME StoreInv, IngestLink, NEW i \in Live, NEW j \in Live, Root(i) = Root(j)
    PROVE  Root(i)' = Root(j)'
<1> USE DEF StoreInv
<1>0. 0 \notin Ids
  BY DEF Ids
<1>1. CASE UNCHANGED primary
  BY <1>1 DEF Root
<1>2. CASE ~ UNCHANGED primary
  <2>1. PICK c \in Live \ {ingest.job} : Merge(ingest.job, c)
    BY <1>2 DEF IngestLink
  <2> DEFINE a == ingest.job
             roots == {Root(a), Root(c), a, c}
             oldest == IF Root(a) <= Root(c) THEN Root(a) ELSE Root(c)
             moved == {k \in Live : k \in roots \/ primary[k] \in roots} \ {oldest}
  <2>2. a \in Live /\ c \in Live /\ a \in Ids /\ c \in Ids
    BY <1>2 DEF IngestLink, Live
  <2>3. /\ Root(a) \in Live /\ primary[Root(a)] = 0
        /\ Root(c) \in Live /\ primary[Root(c)] = 0
    BY <2>2 DEF Root, FlatFamilies, Live
  <2>4. 0 \notin roots /\ oldest \in roots /\ oldest \in Ids /\ primary[oldest] = 0
    BY <1>0, <2>2, <2>3 DEF Live
  <2>5. \A k \in roots : Root(k) \in roots
    BY <2>3 DEF Root
  <2>6. primary' = [k \in Ids |-> IF k \in moved THEN oldest ELSE primary[k]]
    BY <2>1 DEF Merge, Members
  <2> HIDE DEF roots, oldest
  <2>7. ASSUME NEW k \in Live
        PROVE  Root(k)' = IF Root(k) \in roots THEN oldest ELSE Root(k)
    <3>1. k \in Ids
      BY DEF Live
    <3>2. CASE Root(k) \in roots
      <4>1. k \in moved \/ k = oldest
        BY <3>2 DEF Root
      <4>2. QED
        BY <2>4, <2>6, <3>1, <3>2, <4>1 DEF Root
    <3>3. CASE Root(k) \notin roots
      <4>1. k \notin moved
        BY <2>4, <2>5, <3>3 DEF Root
      <4>2. QED
        BY <2>6, <3>1, <3>3, <4>1 DEF Root
    <3>4. QED
      BY <3>2, <3>3
  <2>8. QED
    BY <2>7
<1>3. QED
  BY <1>1, <1>2

\* A promotion moves the vacancy of the retired root to the heir, and no other.
LEMMA PromoteMovesRoots ==
    ASSUME StoreInv, NEW k \in Ids, NEW r \in Heirs(k), Promote(k, r),
           NEW l \in Live, l # k
    PROVE  Root(l)' = IF Root(l) = k THEN r ELSE Root(l)
<1>1. r \in Ids /\ r # 0 /\ r # k /\ primary[r] = k /\ l \in Ids
  BY DEF Heirs, Live, Ids, StoreInv, FlatFamilies
<1>2. primary' = NullPointers(Repoint(primary, k, r), {k})
  BY DEF Promote, Delete
<1>3. QED
  BY <1>1, <1>2 DEF NullPointers, Repoint, Root, Ids

\* Every step keeps two active postings of a vacancy together.
LEMMA FamiliesStayStep == StoreInv /\ [Next]_vars => FamiliesStay
<1> SUFFICES ASSUME StoreInv, [Next]_vars, primary' # primary,
                    NEW i \in Live, Active(i), Active(i)',
                    NEW j \in Live, Active(j), Active(j)',
                    Root(i) = Root(j)
             PROVE  Root(i)' = Root(j)'
  BY DEF FamiliesStay
<1> USE DEF StoreInv
<1>0. i \in Ids /\ j \in Ids /\ 0 \notin Ids
  BY DEF Live, Ids
<1>1. CASE Quiet
  BY <1>1, QuietStep
<1>2. ASSUME NEW p \in Postings, IngestInsert(p) PROVE FALSE
  BY <1>2, InsertStep
<1>3. ASSUME NEW c \in Ids, StoreJD(c) PROVE FALSE
  BY <1>3 DEF StoreJD, StoreText
<1>4. CASE IngestLink
  BY <1>4, LinkMovesTogether
<1>5. ASSUME NEW k \in Ids, RetireTerminal(k) PROVE Root(i)' = Root(j)'
  <2>1. posting' = Without(posting, {k}, None)
    BY <1>5 DEF RetireTerminal, Promote, Delete
  <2>2. i # k /\ j # k /\ k \in Live
    BY <1>0, <1>5, <2>1 DEF Without, Active, RetireTerminal
  <2>3. ASSUME NEW r \in Heirs(k), Promote(k, r), primary[k] = 0
        PROVE  Root(i)' = Root(j)'
    BY <2>2, <2>3, PromoteMovesRoots
  <2>4. CASE /\ primary[k] # 0 \/ Heirs(k) = {}
             /\ Delete({k}, primary, links, jd, archived)
    <3>1. Root(i) # k /\ Root(j) # k
      BY <1>0, <2>2, <2>4 DEF Root, Heirs, FlatFamilies
    <3>2. Root(i)' = Root(i) /\ Root(j)' = Root(j)
      BY <2>2, <2>4, <3>1, DeleteKeepsRoots
    <3>3. QED
      BY <3>2
  <2>5. QED
    BY <1>5, <2>3, <2>4 DEF RetireTerminal
<1>6. CASE Retention
  <2>1. PICK A \in SUBSET {k \in Live : ~archived[k]} :
           \E R \in SUBSET {k \in Live : Removable(A, k)} :
               Delete(R, primary, links, jd, [k \in Ids |-> archived[k] \/ k \in A])
    BY <1>6 DEF Retention
  <2>2. PICK R \in SUBSET {k \in Live : Removable(A, k)} :
           Delete(R, primary, links, jd, [k \in Ids |-> archived[k] \/ k \in A])
    BY <2>1
  <2>3. /\ posting' = Without(posting, R, None)
        /\ archived' = Without([k \in Ids |-> archived[k] \/ k \in A], R, FALSE)
    BY <2>2 DEF Delete
  <2>4. ASSUME NEW l \in Live, Active(l)' PROVE Root(l) \notin R \/ Root(l) = l
    <3>1. l \in Ids /\ l \notin R
      BY <2>3, <2>4 DEF Live, Without, Active
    <3>2. ~(archived[l] \/ l \in A)
      BY <2>3, <2>4, <3>1 DEF Without, Active
    <3>3. QED
      BY <3>2 DEF Removable, Root
  <2>5. Root(i)' = Root(i) /\ Root(j)' = Root(j)
    BY <2>2, <2>4, DeleteKeepsRoots
  <2>6. QED
    BY <2>5
<1>7. QED
  BY StepCases, <1>1, <1>2, <1>3, <1>4, <1>5, <1>6

\* No step that rewrites pointers splits a vacancy with two active postings.
THEOREM FamiliesStayTogether == Spec => ActiveFamilyStaysTogether
<1>1. StoreInv /\ [Next]_vars => [FamiliesStay]_vars
  BY FamiliesStayStep
<1>2. QED
  BY <1>1, StoreInvariant, PTL DEF Spec, ActiveFamilyStaysTogether, FamiliesStay

-----------------------------------------------------------------------------
(* JDEnrichment: what an answer of get_or_enrich_job_jd is worth while another *)
(* process works on the store, for any number of postings and rows.           *)

Calls == [step : {"idle", "list", "clean", "survive", "select", "try", "facts", "store"},
          job : 0..MaxId, asked : Postings \cup {None}, root : 0..MaxId,
          first : 0..MaxId, todo : SUBSET Ids, cands : SUBSET (Ids \X Postings),
          failed : BOOLEAN, all : BOOLEAN, alone : BOOLEAN, moved : BOOLEAN]

CallTypes ==
    /\ call \in Calls
    /\ call.step # "idle" => call.job \in Ids /\ call.asked \in Postings
    /\ call.step = "clean" => call.todo # {}

\* The promises of an answer: the call was not disturbed and the requested
\* posting is open.
Counts == /\ call.step # "idle" /\ call.alone
          /\ posting[call.job] = call.asked /\ Active(call.job)

Before == call.step \in {"list", "clean", "survive", "select"}
After == call.step \in {"try", "facts", "store"}

\* Up to the candidates, the requested posting is in the vacancy of the root.
SameVacancy == Counts /\ Before /\ call.root \in Live => Root(call.job) = Root(call.root)

\* The root has its row unless the call found no survivor, and is a root where
\* it will be retired or listed as one.
RootKept ==
    Counts /\ Before =>
        /\ call.root \in Live \cup {0}
        /\ ~call.moved =>
              /\ call.root # 0
              /\ call.step = "select" \/ (call.step = "clean" /\ call.root \in call.todo)
                     => primary[call.root] = 0

\* While the primary the family was listed with is to be removed, it is the
\* survivor so far and every row of the list is known to be terminal; afterwards
\* the survivor is not on the list, so it is not removed.
SurvivorKept ==
    call.step = "clean" /\ call.alone =>
        /\ call.first \in call.todo =>
              /\ call.root = call.first
              /\ \A i \in call.todo : i \in Live /\ terminal[i]
        /\ call.first \notin call.todo => call.root \notin call.todo

\* The rows of the candidates still hold the postings read with them, and are
\* in the vacancy of the requested one.
CandidatesKept ==
    call.alone /\ After => \A c \in call.cands :
        /\ posting[c[1]] = c[2]
        /\ c = <<call.job, call.asked>> => Active(call.job)
        /\ Counts => Root(c[1]) = Root(call.job)

\* As long as every candidate was unavailable, the requested one is to be tried.
JobIsTried ==
    Counts /\ ~call.moved /\ call.step = "try" /\ EveryOneGone
        => <<call.job, call.asked>> \in call.cands

EnrichInv ==
    /\ StoreInv /\ IdentityRecordedOnce /\ CallTypes
    /\ SameVacancy /\ RootKept /\ SurvivorKept /\ CandidatesKept /\ JobIsTried

-----------------------------------------------------------------------------
(* The store under a call.                                                    *)

\* A step of another process that removes nothing keeps rows and vacancies.
LEMMA OtherKeeps ==
    ASSUME StoreInv, [Next]_vars, \A i \in Live : posting'[i] # None
    PROVE  /\ \A i \in Live : posting'[i] = posting[i]
           /\ \A i, j \in Live : Root(i) = Root(j) => Root(i)' = Root(j)'
<1> USE DEF StoreInv
<1>1. CASE Quiet
  BY <1>1, QuietStep DEF Root
<1>2. CASE IngestLink
  BY <1>2, LinkMovesTogether DEF IngestLink
<1>3. ASSUME NEW p \in Postings, IngestInsert(p)
      PROVE  UNCHANGED primary /\ \A i \in Live : posting'[i] = posting[i]
  BY <1>3, InsertStep
<1>4. ASSUME NEW c \in Ids, StoreJD(c) PROVE UNCHANGED <<posting, primary>>
  BY <1>4 DEF StoreJD, StoreText
<1>5. ASSUME NEW i \in Ids, RetireTerminal(i) PROVE FALSE
  BY <1>5 DEF RetireTerminal, Promote, Delete, Without, Live
<1>6. CASE Retention
  <2>1. PICK A \in SUBSET {k \in Live : ~archived[k]} :
           \E R \in SUBSET {k \in Live : Removable(A, k)} :
               Delete(R, primary, links, jd, [k \in Ids |-> archived[k] \/ k \in A])
    BY <1>6 DEF Retention
  <2>2. PICK R \in SUBSET {k \in Live : Removable(A, k)} :
           Delete(R, primary, links, jd, [k \in Ids |-> archived[k] \/ k \in A])
    BY <2>1
  <2>3. posting' = Without(posting, R, None) /\ primary' = NullPointers(primary, R)
    BY <2>2 DEF Delete
  <2>4. R = {}
    BY <2>2, <2>3 DEF Without, Live
  <2>5. \A i \in Ids : posting'[i] = posting[i] /\ primary'[i] = primary[i]
    BY <2>3, <2>4 DEF Without, NullPointers
  <2>6. QED
    BY <2>5 DEF Live, Root
<1>7. QED
  BY StepCases, <1>1, <1>2, <1>3, <1>4, <1>5, <1>6 DEF Root

\* Retiring a row takes that row only.
LEMMA RetireRows ==
    ASSUME StoreInv, NEW i \in Ids, RetireTerminal(i)
    PROVE  /\ posting'[i] = None
           /\ \A j \in Ids \ {i} : posting'[j] = posting[j] /\ Active(j)' = Active(j)
           /\ \A j \in Ids \ {i} : primary[j] = 0 => primary'[j] = 0
<1> USE DEF StoreInv
<1>1. /\ posting' = Without(posting, {i}, None)
      /\ terminal' = Without(terminal, {i}, FALSE)
      /\ archived' = Without(archived, {i}, FALSE)
  BY DEF RetireTerminal, Promote, Delete
<1>2. \/ primary' = NullPointers(primary, {i})
      \/ \E r \in Heirs(i) : primary' = NullPointers(Repoint(primary, i, r), {i})
  BY DEF RetireTerminal, Promote, Delete
<1>3. \A j \in Ids \ {i} : posting'[j] = posting[j] /\ Active(j)' = Active(j)
  BY <1>1 DEF Without, Active
<1>4. \A j \in Ids \ {i} : primary[j] = 0 => primary'[j] = 0
  <2>1. ASSUME NEW j \in Ids \ {i}, primary[j] = 0,
               NEW r \in Heirs(i), primary' = NullPointers(Repoint(primary, i, r), {i})
        PROVE  primary'[j] = 0
    <3>1. Repoint(primary, i, r)[j] = 0
      BY <2>1 DEF Repoint, Ids
    <3>2. QED
      BY <2>1, <3>1 DEF NullPointers
  <2>2. ASSUME NEW j \in Ids \ {i}, primary[j] = 0, primary' = NullPointers(primary, {i})
        PROVE  primary'[j] = 0
    BY <2>2 DEF NullPointers
  <2>3. QED
    BY <1>2, <2>1, <2>2
<1>5. QED
  BY <1>1, <1>3, <1>4 DEF Without

\* An open posting stays with the members of its vacancy.
LEMMA RetireKeepsTogether ==
    ASSUME StoreInv, NEW i \in Ids, RetireTerminal(i),
           NEW j \in Live \ {i}, Active(j), NEW k \in Live \ {i}, Root(j) = Root(k)
    PROVE  Root(j)' = Root(k)'
<1> USE DEF StoreInv
<1>0. j \in Ids /\ k \in Ids /\ 0 \notin Ids
  BY DEF Live, Ids
<1>1. ASSUME NEW r \in Heirs(i), Promote(i, r) PROVE Root(j)' = Root(k)'
  BY <1>1, PromoteMovesRoots
<1>2. CASE /\ primary[i] # 0 \/ Heirs(i) = {}
           /\ Delete({i}, primary, links, jd, archived)
  <2>1. Root(j) # i
    BY <1>0, <1>2 DEF Root, Heirs, FlatFamilies
  <2>2. primary' = NullPointers(primary, {i})
    BY <1>2 DEF Delete
  <2>3. Root(j)' = Root(j) /\ Root(k)' = Root(k)
    BY <1>0, <2>1, <2>2 DEF Root, NullPointers
  <2>4. QED
    BY <2>3
<1>3. QED
  BY <1>1, <1>2 DEF RetireTerminal

\* The survivor of a retired root is the root of its open members.
LEMMA SurvivorIsRoot ==
    ASSUME StoreInv, NEW i \in Live, RetireTerminal(i), NEW r, Replacement(i, r),
           NEW j \in Live \ {i}, Active(j), Root(j) = i
    PROVE  r \in Live' /\ primary'[r] = 0 /\ Root(j)' = r
<1> USE DEF StoreInv
<1>0. i \in Ids /\ j \in Ids /\ 0 \notin Ids
  BY DEF Live, Ids
<1>1. primary[j] = i /\ j \in Heirs(i) /\ primary[i] = 0
  BY <1>0 DEF Root, Heirs, FlatFamilies
<1>2. PICK h \in Heirs(i) : Promote(i, h)
  BY <1>1 DEF RetireTerminal
<1>3. r \in Heirs(i) /\ primary'[r] = 0
  BY <1>1 DEF Replacement
<1>4. h \in Ids /\ r \in Ids /\ h # i /\ r # i /\ primary[r] = i
  BY <1>0, <1>1, <1>2, <1>3 DEF Heirs, Live
<1>5. primary' = NullPointers(Repoint(primary, i, h), {i})
  BY <1>2 DEF Promote, Delete
<1>6. r = h
  BY <1>0, <1>3, <1>4, <1>5 DEF NullPointers, Repoint
<1>7. Root(j)' = r
  BY <1>0, <1>1, <1>2, <1>6, PromoteMovesRoots DEF Root
<1>8. posting'[r] # None
  BY <1>3, <1>4, RetireRows DEF Heirs, Live
<1>9. QED
  BY <1>3, <1>4, <1>7, <1>8 DEF Live

\* What a call does to the store keeps its invariants.
LEMMA CallKeepsStore ==
    ASSUME EnrichInv, [EnrichNext]_enrichVars
    PROVE  StoreInv' /\ IdentityRecordedOnce'
<1> USE DEF EnrichInv
<1>1. CASE [Next]_vars
  BY <1>1, TypeStep, FlatStep, IdentityStep DEF StoreInv
<1>2. ASSUME NEW c \in call.cands, WriteFacts(c) PROVE [Next]_vars
  <2>1. c[1] \in Ids /\ c[1] \in Live
    BY <1>2 DEF WriteFacts, Live
  <2>2. CASE terminal' = terminal
    BY <1>2, <2>2 DEF WriteFacts, vars, memory
  <2>3. CASE terminal' = [terminal EXCEPT ![c[1]] = FALSE] /\ terminal' # terminal
    <3>1. terminal[c[1]] = TRUE
      BY <2>1, <2>3 DEF StoreInv, TypeOK
    <3>2. terminal' = [terminal EXCEPT ![c[1]] = ~terminal[c[1]]]
      BY <2>3, <3>1
    <3>3. SetSourceStatus(c[1])
      BY <1>2, <2>1, <3>2 DEF WriteFacts, SetSourceStatus
    <3>4. QED
      BY <2>1, <3>3 DEF Next
  <2>4. QED
    BY <1>2, <2>2, <2>3 DEF WriteFacts
<1>3. ASSUME NEW c \in call.cands, AnswerEnriched(c)
      PROVE  StoreInv' /\ IdentityRecordedOnce'
  <2>1. /\ c[1] \in Live /\ c[2] \in Postings
        /\ jd' = [jd EXCEPT ![Root(c[1])] = Written(Root(c[1]), c[2])]
        /\ registry' = registry \cup {posting[Root(c[1])]}
        /\ queued' = queued \ Family(Root(c[1]))
        /\ UNCHANGED <<posting, primary, links, terminal, archived, tomb, observed, ingest>>
    BY <1>3 DEF AnswerEnriched, StoreText, Target, Canonical, CallTypes, Calls
  <2>2. Root(c[1]) \in Live
    <3>1. c[1] \in Ids
      BY <2>1 DEF Live
    <3>2. QED
      BY <2>1, <3>1 DEF StoreInv, FlatFamilies, Root
  <2>3. posting[Root(c[1])] \in Postings
    BY <2>2 DEF StoreInv, TypeOK, Live
  <2>4. Written(Root(c[1]), c[2]) \in Postings \cup {None}
    BY <2>1, <2>2 DEF Written, StoreInv, TypeOK, Live
  <2>5. TypeOK'
    BY <2>1, <2>2, <2>3, <2>4 DEF StoreInv, TypeOK, Live
  <2>6. FlatFamilies' /\ AuditMatchesGrouping'
    BY <2>1 DEF StoreInv, FlatFamilies, AuditMatchesGrouping, Live
  <2>7. IdentityRecordedOnce'
    BY <2>1 DEF IdentityRecordedOnce, LivePostings, Live
  <2>8. QED
    BY <2>5, <2>6, <2>7 DEF StoreInv
<1>4. ASSUME NEW i \in Live, RetireTerminal(i) PROVE [Next]_vars
  BY <1>4 DEF Next, Live
<1>5. CASE CallStep
  <2>1. ASSUME NEW c \in call.cands,
               FetchText(c) \/ FetchTerminal(c) \/ FetchFails(c)
        PROVE  [Next]_vars
    BY <2>1, <1>4 DEF FetchText, FetchTerminal, FetchFails
  <2>2. CASE \/ \E i \in Ids : Begin(i)
             \/ ListFamily \/ CleanNext \/ Survive \/ NoSurvivor
             \/ Select \/ AnswerCached \/ GiveUp
    <3>1. CleanNext => [Next]_vars
      BY <1>4 DEF CleanNext
    <3>2. QED
      BY <1>1, <2>2, <3>1 DEF Begin, ListFamily, Survive, NoSurvivor, Select,
                              AnswerCached, GiveUp
  <2>3. QED
    BY <1>1, <1>2, <1>3, <1>5, <2>1, <2>2 DEF CallStep
<1>6. QED
  BY <1>1, <1>5 DEF EnrichNext, OtherStep, enrichVars
-----------------------------------------------------------------------------
(* The steps.                                                                 *)

Parts == CallTypes /\ SameVacancy /\ RootKept /\ SurvivorKept /\ CandidatesKept /\ JobIsTried

\* A step that ends the call leaves nothing to keep.
LEMMA NoCallKeeps ==
    ASSUME call' = NoCall
    PROVE  Parts'
<1> USE DEF Parts
<1>1. call'.step = "idle" /\ call' \in Calls
  BY StoreConstants DEF NoCall, Calls, Ids
<1>2. QED
  BY <1>1 DEF CallTypes, SameVacancy, RootKept, SurvivorKept, CandidatesKept,
              JobIsTried, Counts, Before, After

\* The requested row, when the call counts after a step.
LEMMA CountsAfter ==
    ASSUME CallTypes, call.step # "idle", call'.job = call.job,
           call'.asked = call.asked, call'.alone = call.alone, Counts'
    PROVE  /\ call.alone /\ call.asked \in Postings
           /\ \E j \in Ids : j = call.job /\ posting'[j] = call.asked /\ Active(j)'
  BY DEF CallTypes, Counts, Active

\* What flat families give a root.
LEMMA RootsAreRoots ==
    ASSUME StoreInv, NEW i \in Live
    PROVE  /\ i \in Ids /\ 0 \notin Ids
           /\ Root(i) \in Live /\ primary[Root(i)] = 0 /\ Root(Root(i)) = Root(i)
           /\ \A j \in Family(i) : j \in Live /\ Root(j) = Root(i)
<1>1. i \in Ids /\ 0 \notin Ids
  BY DEF Live, Ids
<1>2. Root(i) \in Live /\ primary[Root(i)] = 0
  BY <1>1 DEF Root, StoreInv, FlatFamilies
<1>3. ASSUME NEW j \in Family(i) PROVE j \in Live /\ Root(j) = Root(i)
  <2>1. j \in Ids /\ j \in Live /\ (j = i \/ primary[j] = i)
    BY DEF Family, Live
  <2>2. CASE primary[j] = i
    BY <1>1, <2>1, <2>2 DEF Root, StoreInv, FlatFamilies
  <2>3. QED
    BY <2>1, <2>2
<1>4. QED
  BY <1>1, <1>2, <1>3 DEF Root

LEMMA BeginKeeps ==
    ASSUME EnrichInv, NEW i \in Ids, Begin(i)
    PROVE  Parts'
<1> USE DEF EnrichInv
<1>1. i \in Live /\ posting[i] \in Postings /\ UNCHANGED vars
  BY DEF Begin, Live, StoreInv, TypeOK
<1>2. Root(i) \in Live /\ Root(Root(i)) = Root(i) /\ 0 \notin Ids
  BY <1>1, RootsAreRoots
<1>3. call' = [NoCall EXCEPT !.step = "list", !.job = i, !.asked = posting[i],
                             !.root = Root(i)]
  BY DEF Begin
<1>4. call' = [step |-> "list", job |-> i, asked |-> posting[i], root |-> Root(i),
               first |-> 0, todo |-> {}, cands |-> {}, failed |-> FALSE, all |-> FALSE,
               alone |-> TRUE, moved |-> FALSE]
  BY <1>3 DEF NoCall
<1>5. i \in 0..MaxId /\ Root(i) \in 0..MaxId
  BY <1>2 DEF Ids, Live
<1>6. /\ call'.step = "list" /\ call'.job = i /\ call'.root = Root(i)
      /\ call'.asked \in Postings /\ call' \in Calls
  <2>1. {} \in SUBSET Ids /\ {} \in SUBSET (Ids \X Postings) /\ 0 \in 0..MaxId
    BY StoreConstants
  <2>2. call' \in Calls
    BY <1>1, <1>4, <1>5, <2>1, Zenon DEF Calls
  <2>3. QED
    BY <1>1, <1>4, <2>2
<1>7. QED
  BY <1>1, <1>2, <1>6 DEF Parts, vars, memory, CallTypes, SameVacancy, RootKept,
      SurvivorKept, CandidatesKept, JobIsTried, Counts, Before, After, Root, Live

LEMMA ListKeeps ==
    ASSUME EnrichInv, ListFamily
    PROVE  Parts'
<1> USE DEF EnrichInv
<1>1. /\ call.step = "list" /\ call.root \in Live /\ UNCHANGED vars
      /\ call' = [call EXCEPT !.root = Root(call.root), !.first = Root(call.root),
                     !.todo = KnownTerminal(Root(call.root)),
                     !.step = IF KnownTerminal(Root(call.root)) = {}
                              THEN "select" ELSE "clean"]
  BY DEF ListFamily
<1>2. /\ Root(call.root) \in Live /\ primary[Root(call.root)] = 0
      /\ Root(Root(call.root)) = Root(call.root) /\ 0 \notin Ids
  BY <1>1, RootsAreRoots
<1>3. KnownTerminal(Root(call.root)) \subseteq Ids
  BY DEF KnownTerminal, Family, Live
<1>4. Root(call.root) \in 0..MaxId
  BY <1>2 DEF Live, Ids
<1>5. /\ call' \in Calls /\ call'.job = call.job /\ call'.asked = call.asked
      /\ call'.alone = call.alone /\ call'.root = Root(call.root)
      /\ call'.first = Root(call.root) /\ call'.todo = KnownTerminal(Root(call.root))
      /\ call'.step \in {"select", "clean"}
      /\ call'.step = "clean" => call'.todo # {}
  BY <1>1, <1>3, <1>4 DEF CallTypes, Calls
<1>6. CallTypes'
  BY <1>1, <1>5 DEF CallTypes
<1>7. Counts' => Counts
  BY <1>1, <1>5 DEF Counts, Active, vars, memory
<1>8. SameVacancy'
  BY <1>1, <1>2, <1>5, <1>7 DEF SameVacancy, Before, Root, vars, memory
<1>9. RootKept'
  BY <1>1, <1>2, <1>5 DEF RootKept, Live, vars, memory
<1>10. SurvivorKept'
  BY <1>1, <1>3, <1>5 DEF SurvivorKept, KnownTerminal, Family, Live, vars
<1>11. QED
  BY <1>5, <1>6, <1>8, <1>9, <1>10 DEF Parts, CandidatesKept, JobIsTried, After

LEMMA SurviveKeeps ==
    ASSUME EnrichInv, Survive
    PROVE  Parts'
<1> USE DEF EnrichInv
<1>1. /\ call.step = "survive" /\ call.root \in Live /\ UNCHANGED vars
      /\ call' = [call EXCEPT !.root = Root(call.root), !.step = "select"]
  BY DEF Survive
<1>2. /\ Root(call.root) \in Live /\ primary[Root(call.root)] = 0
      /\ Root(Root(call.root)) = Root(call.root) /\ 0 \notin Ids
  BY <1>1, RootsAreRoots
<1>3. Root(call.root) \in 0..MaxId
  BY <1>2 DEF Live, Ids
<1>4. /\ call' \in Calls /\ call'.job = call.job /\ call'.asked = call.asked
      /\ call'.alone = call.alone /\ call'.root = Root(call.root)
      /\ call'.step = "select"
  BY <1>1, <1>3 DEF CallTypes, Calls
<1>5. CallTypes'
  BY <1>1, <1>4 DEF CallTypes
<1>6. Counts' => Counts
  BY <1>1, <1>4 DEF Counts, Active, vars, memory
<1>7. SameVacancy'
  BY <1>1, <1>2, <1>4, <1>6 DEF SameVacancy, Before, Root, vars, memory
<1>8. RootKept'
  BY <1>1, <1>2, <1>4 DEF RootKept, Live, vars, memory
<1>9. QED
  BY <1>4, <1>5, <1>7, <1>8 DEF Parts, SurvivorKept, CandidatesKept, JobIsTried, After

LEMMA SelectKeeps ==
    ASSUME EnrichInv, Select
    PROVE  Parts'
<1> USE DEF EnrichInv
<1>1. PICK C \in SUBSET Candidates(call.root) \ {{}} :
         call' = [call EXCEPT !.cands = C, !.step = "try",
                              !.all = C = Candidates(call.root)]
  BY DEF Select
<1>2. call.step = "select" /\ call.root \in Live /\ UNCHANGED vars
  BY DEF Select
<1>3. ASSUME NEW c \in Candidates(call.root)
      PROVE  /\ c \in Ids \X Postings /\ c[1] \in Family(call.root)
             /\ posting[c[1]] = c[2] /\ Active(c[1])
  BY DEF Candidates, Family, Live, StoreInv, TypeOK
<1>4. /\ call' \in Calls /\ call'.job = call.job /\ call'.asked = call.asked
      /\ call'.alone = call.alone /\ call'.moved = call.moved
      /\ call'.step = "try" /\ call'.cands = C
      /\ call'.all = (C = Candidates(call.root))
  BY <1>1, <1>3 DEF CallTypes, Calls
<1>5. CallTypes'
  BY <1>2, <1>4 DEF CallTypes
<1>6. Counts' => Counts
  BY <1>2, <1>4 DEF Counts, Active, vars, memory
<1>7. CandidatesKept'
  <2>1. SUFFICES ASSUME call'.alone, NEW c \in C
                 PROVE  /\ posting'[c[1]] = c[2]
                        /\ (c = <<call.job, call.asked>> => Active(call.job))'
                        /\ Counts' => Root(c[1])' = Root(call.job)'
    BY <1>4 DEF CandidatesKept
  <2>2. posting'[c[1]] = c[2] /\ Active(c[1])' /\ c[1] \in Family(call.root)
    BY <1>2, <1>3 DEF Active, vars, memory
  <2>3. Counts => Root(c[1]) = Root(call.job)
    BY <1>2, <2>2, RootsAreRoots DEF SameVacancy, Before
  <2>4. (c = <<call.job, call.asked>> => Active(call.job))'
    BY <2>2 DEF Active
  <2>5. Root(c[1])' = Root(c[1]) /\ Root(call.job)' = Root(call.job)
    BY <1>2, <1>4 DEF Root, vars
  <2>6. QED
    BY <1>6, <2>2, <2>3, <2>4, <2>5
<1>8. JobIsTried'
  <2>1. SUFFICES ASSUME Counts', ~call'.moved, C = Candidates(call.root)
                 PROVE  <<call.job, call.asked>> \in C
    BY <1>4 DEF JobIsTried, EveryOneGone
  <2>a. Counts /\ Before /\ ~call.moved
    BY <1>2, <1>4, <1>6, <2>1 DEF Before
  <2>2. /\ Counts /\ primary[call.root] = 0
        /\ Root(call.job) = Root(call.root)
    BY <1>2, <2>a DEF RootKept, SameVacancy
  <2>3. call.job \in Ids /\ call.job \in Live /\ posting[call.job] = call.asked
    BY <1>2, <2>2 DEF Counts, CallTypes, Live, Active
  <2>4. call.job \in Family(call.root) /\ Active(call.job)
    BY <2>2, <2>3 DEF Family, Root, Counts
  <2>5. QED
    BY <2>1, <2>3, <2>4 DEF Candidates
<1>9. QED
  BY <1>4, <1>5, <1>7, <1>8 DEF Parts, SameVacancy, RootKept, SurvivorKept, Before

\* The row the loop takes next is one of the list.
LEMMA LeastId ==
    ASSUME NEW S, S \subseteq Ids, S # {}
    PROVE  (CHOOSE i \in S : \A j \in S : i <= j) \in S
<1>1. S \subseteq Nat
  BY StoreConstants DEF Ids
<1>2. PICK x \in S : \A y \in S : ~ (<<y, x>> \in OpToRel(<, Nat))
  BY <1>1, NatLessThanWellFounded, WFMin
<1>3. ASSUME NEW y \in S PROVE x <= y
  <2>1. x \in Nat /\ y \in Nat
    BY <1>1
  <2>2. ~ (y < x)
    BY <1>2, <2>1 DEF OpToRel
  <2>3. QED
    BY <2>1, <2>2
<1>4. QED
  BY <1>3

LEMMA CleanKeeps ==
    ASSUME EnrichInv, CleanNext
    PROVE  Parts'
<1> USE DEF EnrichInv
<1> DEFINE i == NextTerminal
           left == call.todo \ {i}
<1>1. PICK r \in 0..MaxId :
         /\ IF i \in Live /\ i = call.first THEN Replacement(i, r) ELSE r = call.root
         /\ call' = [call EXCEPT !.todo = left, !.root = r,
                                 !.step = IF left = {} THEN "survive" ELSE "clean"]
  BY DEF CleanNext
<1>2. call.step = "clean" /\ (IF i \in Live THEN RetireTerminal(i) ELSE UNCHANGED vars)
  BY DEF CleanNext
<1>3. (call.first \in call.todo <=> i = call.first) /\ i \in call.todo
  BY <1>2, LeastId DEF NextTerminal, CallTypes, Calls
<1> HIDE DEF i
<1>4. /\ call' \in Calls /\ call'.job = call.job /\ call'.asked = call.asked
      /\ call'.alone = call.alone /\ call'.moved = call.moved /\ call'.root = r
      /\ call'.todo = left /\ call'.first = call.first
      /\ call'.step \in {"survive", "clean"} /\ (call'.step = "clean" => left # {})
  BY <1>1 DEF CallTypes, Calls
<1>5. CallTypes'
  BY <1>2, <1>4 DEF CallTypes
<1>6. ASSUME Counts'
      PROVE  \E j \in Live : /\ j \in Ids /\ j = call.job /\ Active(j) /\ Counts
                             /\ i \in Live => i \in Ids /\ j # i
  <2>1. call.alone /\ call.asked \in Postings
    BY <1>2, <1>4, <1>6, CountsAfter
  <2>2. PICK j \in Ids : j = call.job /\ posting'[j] = call.asked /\ Active(j)'
    BY <1>2, <1>4, <1>6, CountsAfter
  <2>3. CASE i \in Live
    <3>1. i \in Ids /\ RetireTerminal(i)
      BY <1>2, <2>3 DEF Live
    <3>2. j # i
      BY <2>1, <2>2, <3>1, RetireRows, StoreConstants
    <3>3. posting[j] = call.asked /\ Active(j)
      BY <2>2, <3>1, <3>2, RetireRows
    <3>4. QED
      BY <1>2, <2>1, <2>2, <3>1, <3>2, <3>3, StoreConstants DEF Counts, Live
  <2>4. CASE i \notin Live
    <3>1. posting[j] = call.asked /\ Active(j)
      BY <1>2, <2>2, <2>4 DEF Active, vars
    <3>2. QED
      BY <1>2, <2>1, <2>2, <2>4, <3>1, StoreConstants DEF Counts, Live
  <2>5. QED
    BY <2>3, <2>4
<1>7. 0 \notin Ids /\ \A j \in Live : j \in Ids
  BY DEF Ids, Live
<1>12. ASSUME call.alone
       PROVE  /\ i = call.first <=> i = call.root
              /\ i # call.first => call.root \notin call.todo
  BY <1>2, <1>3, <1>12 DEF SurvivorKept
<1>13. SurvivorKept'
  <2>1. SUFFICES ASSUME call.alone, call'.step = "clean"
                 PROVE  call.first \notin left /\ r \notin left
    BY <1>4 DEF SurvivorKept
  <2>2. CASE i # call.first
    BY <1>1, <1>3, <1>12, <2>1, <2>2
  <2>3. CASE i = call.first
    <3>1. i \in Live /\ \A k \in call.todo : terminal[k]
      BY <1>2, <1>3, <2>1, <2>3 DEF SurvivorKept
    <3>2. r \in Heirs(i) \/ r = 0
      BY <1>1, <2>3, <3>1 DEF Replacement
    <3>3. r = 0 \/ ~terminal[r]
      BY <3>2 DEF Heirs, Active
    <3>4. r \notin left
      BY <1>7, <3>1, <3>3 DEF CallTypes, Calls
    <3>5. QED
      BY <2>3, <3>4
  <2>4. QED
    BY <2>2, <2>3
<1>8. ASSUME Counts'
      PROVE  /\ \E j \in Ids : j = call.job /\ (r \in Live' => Root(j)' = Root(r)')
             /\ r \in Live' \cup {0}
             /\ ~call.moved => r # 0
             /\ call'.step = "clean" /\ r \in left /\ ~call.moved => primary'[r] = 0
  <2> PICK j \in Live : /\ j \in Ids /\ j = call.job /\ Active(j) /\ Counts
                        /\ i \in Live => i \in Ids /\ j # i
    BY <1>6, <1>8
  <2>1. /\ call.root \in Live \cup {0}
        /\ call.root \in Live => Root(j) = Root(call.root)
        /\ ~call.moved => call.root # 0
        /\ ~call.moved /\ call.root \in call.todo => primary[call.root] = 0
        /\ call.alone
    BY <1>2 DEF Before, RootKept, SameVacancy, Counts
  <2>7. /\ i = call.first <=> i = call.root
        /\ i # call.first => call.root \notin call.todo
    BY <1>12, <2>1
  <2>2. CASE i \in Live /\ i = call.root /\ primary[i] = 0
    <3>1. Root(j) = i /\ j \in Live \ {i}
      BY <2>1, <2>2 DEF Root
    <3>2. r \in Live' /\ primary'[r] = 0 /\ Root(j)' = r
      BY <1>1, <1>2, <2>2, <2>7, <3>1, SurvivorIsRoot
    <3>3. Root(r)' = r
      BY <3>2 DEF Root
    <3>4. QED
      BY <1>7, <3>2, <3>3 DEF Live
  <2>3. CASE i \in Live /\ i = call.root /\ primary[i] # 0
    <3>1. r = 0
      BY <1>1, <2>3, <2>7 DEF Replacement
    <3>2. call.moved
      BY <1>3, <2>1, <2>3
    <3>3. QED
      BY <1>7, <3>1, <3>2 DEF Live
  <2>4. CASE i \in Live /\ i # call.root
    <3>1. r = call.root /\ r \notin left
      BY <1>1, <2>4, <2>7
    <3>2. CASE r \in Live
      <4>1. i \in Ids /\ RetireTerminal(i) /\ r \in Live \ {i} /\ r \in Ids
        BY <1>2, <1>7, <2>4, <3>1, <3>2
      <4>2. posting'[r] = posting[r]
        BY <4>1, RetireRows
      <4>3. Root(j) = Root(r) /\ j \in Live \ {i}
        BY <2>1, <2>4, <3>1, <3>2
      <4>4. Root(j)' = Root(r)'
        BY <4>1, <4>3, RetireKeepsTogether
      <4>5. QED
        BY <1>7, <3>1, <4>1, <4>2, <4>4 DEF Live
    <3>3. CASE r \notin Live
      BY <1>7, <2>1, <3>1, <3>3 DEF Live
    <3>4. QED
      BY <3>2, <3>3
  <2>5. CASE i \notin Live
    <3>1. r = call.root /\ UNCHANGED vars /\ r \notin left
      BY <1>1, <1>2, <2>5, <2>7
    <3>2. r \in Live => Root(j)' = Root(r)'
      BY <2>1, <3>1 DEF vars, Root
    <3>3. Live' = Live
      BY <3>1 DEF vars, Live
    <3>4. QED
      BY <2>1, <3>1, <3>2, <3>3
  <2>6. QED
    BY <2>2, <2>3, <2>4, <2>5
<1>9. SameVacancy'
  BY <1>4, <1>8 DEF SameVacancy, Root
<1>10. RootKept'
  BY <1>4, <1>8 DEF RootKept
<1>11. QED
  BY <1>4, <1>5, <1>9, <1>10, <1>13 DEF Parts, CandidatesKept, JobIsTried, After

LEMMA FetchTextKeeps ==
    ASSUME EnrichInv, NEW c \in call.cands, FetchText(c)
    PROVE  Parts'
<1> USE DEF EnrichInv
<1>1. /\ call.step = "try" /\ UNCHANGED vars
      /\ call' = [call EXCEPT !.step = "facts", !.cands = {c}]
  BY DEF FetchText
<1>2. /\ call' \in Calls /\ call'.job = call.job /\ call'.asked = call.asked
      /\ call'.alone = call.alone /\ call'.step = "facts" /\ call'.cands = {c}
  BY <1>1 DEF CallTypes, Calls
<1>3. CandidatesKept'
  BY <1>1, <1>2 DEF CandidatesKept, After, Counts, Active, Root, vars
<1>4. QED
  BY <1>1, <1>2, <1>3 DEF Parts, CallTypes, SameVacancy, RootKept, SurvivorKept, JobIsTried, Before

LEMMA FetchFailsKeeps ==
    ASSUME EnrichInv, NEW c \in call.cands, FetchFails(c)
    PROVE  Parts'
<1> USE DEF EnrichInv
<1>1. CASE call' = NoCall
  BY <1>1, NoCallKeeps
<1>2. CASE call' # NoCall
  <2>1. /\ call.step = "try" /\ UNCHANGED vars
        /\ call' = [call EXCEPT !.cands = @ \ {c}, !.failed = @ \/ TRUE]
    BY <1>2 DEF FetchFails, Tried
  <2>2. /\ call' \in Calls /\ call'.job = call.job /\ call'.asked = call.asked
        /\ call'.alone = call.alone /\ call'.step = "try" /\ call'.cands \subseteq call.cands
        /\ call'.failed
    BY <2>1 DEF CallTypes, Calls
  <2>3. CandidatesKept'
    BY <2>1, <2>2 DEF CandidatesKept, After, Counts, Active, Root, vars
  <2>4. QED
    BY <2>1, <2>2, <2>3 DEF Parts, CallTypes, SameVacancy, RootKept, SurvivorKept, JobIsTried,
                            Before, EveryOneGone
<1>3. QED
  BY <1>1, <1>2

LEMMA FetchTerminalKeeps ==
    ASSUME EnrichInv, NEW c \in call.cands, FetchTerminal(c)
    PROVE  Parts'
<1> USE DEF EnrichInv
<1>1. CASE call' = NoCall
  BY <1>1, NoCallKeeps
<1>2. CASE call' # NoCall
  <2>1. /\ call.step = "try"
        /\ IF c[1] \in Live THEN RetireTerminal(c[1]) ELSE UNCHANGED vars
        /\ call' = [call EXCEPT !.cands = @ \ {c}, !.failed = @ \/ FALSE]
    BY <1>2 DEF FetchTerminal, Tried
  <2>2. /\ call' \in Calls /\ call'.job = call.job /\ call'.asked = call.asked
        /\ call'.alone = call.alone /\ call'.step = "try" /\ call'.cands = call.cands \ {c}
        /\ call'.failed = call.failed /\ call'.all = call.all
        /\ call'.moved = call.moved
    BY <2>1 DEF CallTypes, Calls
  <2>3. \A d \in call.cands : d \in Ids \X Postings
    BY DEF CallTypes, Calls
  <2>4. CASE ~call.alone
    BY <2>1, <2>2, <2>4 DEF Parts, CallTypes, SameVacancy, RootKept, SurvivorKept, CandidatesKept,
                            JobIsTried, Counts
  <2>5. CASE call.alone
    <3>1. /\ c[1] \in Ids /\ c[1] \in Live /\ posting[c[1]] = c[2] /\ RetireTerminal(c[1])
      BY <2>1, <2>3, <2>5, StoreConstants DEF CandidatesKept, After, Live
    <3>2. ASSUME NEW d \in call.cands \ {c}
          PROVE  /\ d[1] \in Ids \ {c[1]} /\ d[1] \in Live /\ posting[d[1]] = d[2]
                 /\ posting'[d[1]] = d[2]
      <4>1. d[1] \in Ids /\ d[2] \in Postings /\ posting[d[1]] = d[2]
        BY <2>1, <2>3, <2>5 DEF CandidatesKept, After
      <4>2. d[1] # c[1]
        BY <2>3, <3>1, <4>1
      <4>3. posting'[d[1]] = posting[d[1]]
        BY <3>1, <4>1, <4>2, RetireRows
      <4>4. QED
        BY <4>1, <4>2, <4>3, StoreConstants DEF Live
    <3>3. ASSUME Counts'
          PROVE  /\ Counts /\ call.job \in Live \ {c[1]} /\ Active(call.job)
                 /\ call.job \in Ids
      <4>1. call.asked \in Postings
        BY <2>1, <2>2, <3>3, CountsAfter
      <4>2. PICK j \in Ids : j = call.job /\ posting'[j] = call.asked /\ Active(j)'
        BY <2>1, <2>2, <3>3, CountsAfter
      <4>3. j # c[1]
        BY <3>1, <4>1, <4>2, RetireRows, StoreConstants
      <4>4. posting[j] = call.asked /\ Active(j)
        BY <3>1, <4>2, <4>3, RetireRows
      <4>5. QED
        BY <2>1, <2>5, <4>1, <4>2, <4>3, <4>4, StoreConstants DEF Counts, Live
    <3>4. CandidatesKept'
      <4>1. SUFFICES ASSUME NEW d \in call.cands \ {c}
            PROVE  /\ posting'[d[1]] = d[2]
                   /\ (d = <<call.job, call.asked>> => Active(call.job))'
                   /\ (Counts => Root(d[1]) = Root(call.job))'
        BY <2>2 DEF CandidatesKept
      <4>2. (d = <<call.job, call.asked>> => Active(call.job))'
        <5>1. CASE d = <<call.job, call.asked>>
          <6>1. d[1] = call.job /\ Active(call.job)
            BY <2>1, <2>5, <5>1 DEF CandidatesKept, After
          <6>2. PICK j \in Ids \ {c[1]} : j = call.job /\ Active(j)
            BY <3>2, <6>1
          <6>3. Active(j)'
            BY <3>1, <6>2, RetireRows
          <6>4. QED
            BY <2>2, <6>2, <6>3 DEF Active
        <5>2. QED
          BY <2>2, <5>1
      <4>3. Counts' => Root(d[1])' = Root(call.job)'
        <5>1. SUFFICES ASSUME Counts' PROVE Root(call.job)' = Root(d[1])'
          OBVIOUS
        <5>2. Root(call.job) = Root(d[1])
          BY <2>1, <2>5, <3>3, <5>1 DEF CandidatesKept, After
        <5>3. d[1] \in Live \ {c[1]} /\ call.job \in Live \ {c[1]} /\ Active(call.job)
          BY <3>2, <3>3, <5>1
        <5>4. Root(call.job)' = Root(d[1])' \/ call'.job # call.job
          BY <2>2, <3>1, <5>2, <5>3, RetireKeepsTogether
        <5>5. QED
          BY <2>2, <5>4
      <4>4. QED
        BY <3>2, <4>2, <4>3
    <3>5. JobIsTried'
      <4>1. SUFFICES ASSUME Counts', ~call.moved, EveryOneGone
                     PROVE  <<call.job, call.asked>> \in call.cands \ {c}
        BY <2>2 DEF JobIsTried, EveryOneGone
      <4>2. <<call.job, call.asked>> \in call.cands
        BY <2>1, <3>3, <4>1 DEF JobIsTried
      <4>3. QED
        BY <3>3, <4>1, <4>2
    <3>6. QED
      BY <2>1, <2>2, <3>4, <3>5 DEF Parts, CallTypes, SameVacancy, RootKept, SurvivorKept, Before
  <2>6. QED
    BY <2>4, <2>5
<1>3. QED
  BY <1>1, <1>2

LEMMA WriteFactsKeeps ==
    ASSUME EnrichInv, NEW c \in call.cands, WriteFacts(c)
    PROVE  Parts'
<1> USE DEF EnrichInv
<1>1. /\ call.step = "facts" /\ c[1] \in Live
      /\ terminal' \in {terminal, [terminal EXCEPT ![c[1]] = FALSE]}
      /\ call' = [call EXCEPT !.step = "store"]
      /\ UNCHANGED <<posting, primary, archived>>
  BY DEF WriteFacts
<1>2. /\ call' \in Calls /\ call'.job = call.job /\ call'.asked = call.asked
      /\ call'.alone = call.alone /\ call'.step = "store" /\ call'.cands = call.cands
  BY <1>1 DEF CallTypes, Calls
<1>3. \A d \in call.cands : d \in Ids \X Postings
  BY DEF CallTypes, Calls
<1>4. \A j \in Ids : Active(j) => Active(j)'
  BY <1>1 DEF Active, StoreInv, TypeOK
<1>5. \A j \in Ids : j # c[1] => Active(j)' = Active(j)
  BY <1>1 DEF Active, StoreInv, TypeOK
<1>6. call.job \in Ids
  BY <1>1 DEF CallTypes
<1>7. Counts' => Counts
  <2>1. SUFFICES ASSUME Counts' PROVE Counts
    OBVIOUS
  <2>2. call.alone /\ posting[call.job] = call.asked /\ Active(call.job)'
    BY <1>1, <1>2, <2>1 DEF Counts, Active
  <2>3. CASE call.job = c[1]
    <3>1. c = <<call.job, call.asked>>
      BY <1>1, <1>3, <2>2, <2>3 DEF CandidatesKept, After
    <3>2. QED
      BY <1>1, <2>2, <3>1 DEF CandidatesKept, After, Counts
  <2>4. QED
    BY <1>1, <1>5, <1>6, <2>2, <2>3 DEF Counts
<1>8. CandidatesKept'
  <2>1. SUFFICES ASSUME call.alone, NEW d \in call.cands
        PROVE  /\ posting'[d[1]] = d[2]
               /\ (d = <<call.job, call.asked>> => Active(call.job))'
               /\ (Counts => Root(d[1]) = Root(call.job))'
    BY <1>2 DEF CandidatesKept
  <2>2. /\ posting[d[1]] = d[2]
        /\ d = <<call.job, call.asked>> => Active(call.job)
        /\ Counts => Root(d[1]) = Root(call.job)
    BY <1>1, <2>1 DEF CandidatesKept, After
  <2>3. (d = <<call.job, call.asked>> => Active(call.job))'
    BY <1>2, <1>4, <1>6, <2>2 DEF Active
  <2>4. (Counts => Root(d[1]) = Root(call.job))'
    BY <1>1, <1>2, <1>7, <2>2 DEF Root
  <2>5. QED
    BY <1>1, <2>2, <2>3, <2>4
<1>9. QED
  BY <1>1, <1>2, <1>8 DEF Parts, CallTypes, SameVacancy, RootKept, SurvivorKept, JobIsTried, Before

LEMMA OtherKeepsCall ==
    ASSUME EnrichInv, OtherStep, IdentityRecordedOnce'
    PROVE  Parts'
<1> USE DEF EnrichInv
<1>1. CASE call.step = "idle"
  <2>1. call' = call
    BY <1>1 DEF OtherStep
  <2>2. QED
    BY <1>1, <2>1 DEF Parts, CallTypes, SameVacancy, RootKept, SurvivorKept, CandidatesKept,
                      JobIsTried, Counts, Before, After
<1>2. CASE call.step # "idle"
  <2>1. call' = [call EXCEPT !.alone = @ /\ ~Disturbed, !.moved = @ \/ MovedUnder]
    BY <1>2 DEF OtherStep
  <2>2. /\ call'.step = call.step /\ call'.job = call.job /\ call'.asked = call.asked
        /\ call'.root = call.root /\ call'.first = call.first /\ call'.todo = call.todo
        /\ call'.cands = call.cands
        /\ call'.failed = call.failed /\ call'.all = call.all
        /\ call'.alone = (call.alone /\ ~Disturbed)
        /\ call'.moved = (call.moved \/ MovedUnder)
    BY <2>1 DEF CallTypes, Calls
  <2>3. call' \in Calls
    BY <2>1 DEF CallTypes, Calls
  <2>4. CASE ~call'.alone
    BY <2>2, <2>3, <2>4 DEF Parts, CallTypes, SameVacancy, RootKept, SurvivorKept, CandidatesKept,
                            JobIsTried, Counts
  <2>5. CASE call'.alone
    <3>1. call.alone /\ ~Disturbed
      BY <2>2, <2>5
    <3>2. /\ \A i \in Live : posting'[i] = posting[i]
          /\ \A i, j \in Live : Root(i) = Root(j) => Root(i)' = Root(j)'
      BY <3>1, OtherKeeps DEF Disturbed, OtherStep
    <3>3. \A i \in Live : i \in Live' /\ i \in Ids
      BY <3>2 DEF Live
    <3> PICK job \in Ids : job = call.job
      BY <1>2 DEF CallTypes
    <3> PICK asked \in Postings : asked = call.asked
      BY <1>2 DEF CallTypes
    <3>4. (\E j \in Live : posting[j] = asked /\ Active(j))
             <=> \E j \in Live' : posting'[j] = asked /\ Active(j)'
      BY <3>1 DEF Disturbed, ActivePosting
    <3>5. \A i, j \in Live' : posting'[i] = posting'[j] => i = j
      BY DEF IdentityRecordedOnce
    <3>6. posting[job] = asked /\ Active(job) <=> posting'[job] = asked /\ Active(job)'
      <4>1. ASSUME posting[job] = asked, Active(job)
            PROVE  posting'[job] = asked /\ Active(job)'
        <5>1. job \in Live
          BY <4>1, StoreConstants DEF Live
        <5>2. PICK j \in Live' : posting'[j] = asked /\ Active(j)'
          BY <3>4, <4>1, <5>1
        <5>3. job = j
          BY <3>2, <3>3, <3>5, <4>1, <5>1, <5>2
        <5>4. QED
          BY <5>2, <5>3
      <4>2. ASSUME posting'[job] = asked, Active(job)'
            PROVE  posting[job] = asked /\ Active(job)
        <5>1. job \in Live'
          BY <4>2, StoreConstants DEF Live
        <5>2. PICK j \in Live : posting[j] = asked /\ Active(j)
          BY <3>4, <4>2, <5>1
        <5>3. job = j
          BY <3>2, <3>3, <3>5, <4>2, <5>1, <5>2
        <5>4. QED
          BY <5>2, <5>3
      <4>3. QED
        BY <4>1, <4>2
    <3>7. Counts <=> posting[job] = asked /\ Active(job)
      BY <1>2, <3>1 DEF Counts
    <3>8. Counts' <=> posting'[job] = asked /\ Active(job)'
      BY <1>2, <2>2, <2>5 DEF Counts, Active
    <3>9. /\ Counts' => Counts
          /\ Counts => job \in Live
      BY <3>6, <3>7, <3>8, StoreConstants DEF Live
    <3>10. CallTypes'
      BY <1>2, <2>2, <2>3 DEF CallTypes
    <3>11. RootKept'
      <4>1. SUFFICES ASSUME Counts', Before'
                     PROVE  /\ call'.root \in Live' \cup {0}
                            /\ ~call'.moved =>
                                 /\ call'.root # 0
                                 /\ call'.step = "select"
                                      \/ (call'.step = "clean" /\ call'.root \in call'.todo)
                                      => primary'[call'.root] = 0
        BY DEF RootKept
      <4>2. /\ call.root \in Live \cup {0}
            /\ ~call.moved =>
                  /\ call.root # 0
                  /\ call.step = "select" \/ (call.step = "clean" /\ call.root \in call.todo)
                       => primary[call.root] = 0
        BY <2>2, <3>9, <4>1 DEF RootKept, Before
      <4>3. ~call'.moved => ~call.moved /\ ~MovedUnder
        BY <2>2
      <4>4. QED
        BY <2>2, <3>3, <4>2, <4>3 DEF MovedUnder
    <3>12. SameVacancy'
      <4>1. SUFFICES ASSUME Counts', Before', call.root \in Live'
                     PROVE  \E r \in Ids : r = call.root /\ Root(job)' = Root(r)'
        BY <2>2 DEF SameVacancy, Root
      <4>2. call.root \in Live
        BY <2>2, <3>9, <3>11, <4>1 DEF RootKept, Before, Ids, Live
      <4>3. Root(job) = Root(call.root) /\ job \in Live
        BY <2>2, <3>9, <4>1, <4>2 DEF SameVacancy, Before
      <4>4. QED
        BY <3>2, <3>3, <4>2, <4>3
    <3>13. CandidatesKept'
      <4>1. SUFFICES ASSUME After, NEW c \in call.cands
            PROVE  /\ posting'[c[1]] = c[2]
                   /\ (c = <<call.job, call.asked>> => Active(call.job))'
                   /\ (Counts => Root(c[1]) = Root(call.job))'
        BY <2>2 DEF CandidatesKept, After
      <4>2. /\ posting[c[1]] = c[2]
            /\ c = <<call.job, call.asked>> => Active(job)
            /\ Counts => Root(c[1]) = Root(job)
        BY <3>1, <4>1 DEF CandidatesKept
      <4>3. c \in Ids \X Postings
        BY DEF CallTypes, Calls
      <4>4. c[1] \in Live
        BY <4>2, <4>3, StoreConstants DEF Live
      <4>5. posting'[c[1]] = c[2]
        BY <3>2, <4>2, <4>4
      <4>6. c = <<job, asked>> => Active(job)'
        BY <3>6, <4>2
      <4>7. Counts' => Root(c[1])' = Root(job)'
        BY <3>2, <3>9, <4>2, <4>4
      <4>8. QED
        BY <2>2, <4>5, <4>6, <4>7 DEF Active, Root
    <3>14. JobIsTried'
      BY <2>2, <3>9 DEF JobIsTried, EveryOneGone
    <3>15. SurvivorKept'
      <4>1. ASSUME call.step = "clean", call.first \in call.todo, NEW i \in call.todo
            PROVE  i \in Live' /\ terminal'[i]
        <5>1. i \in Live /\ terminal[i]
          BY <3>1, <4>1 DEF SurvivorKept
        <5>2. QED
          BY <3>1, <3>3, <4>1, <5>1 DEF Disturbed, Reopened
      <4>2. call.step = "clean" => /\ call.first \in call.todo => call.root = call.first
                                   /\ call.first \notin call.todo => call.root \notin call.todo
        BY <3>1 DEF SurvivorKept
      <4>3. SurvivorKept' <=>
              (call.step = "clean" =>
                 /\ call.first \in call.todo =>
                       /\ call.root = call.first
                       /\ \A i \in call.todo : i \in Live' /\ terminal'[i]
                 /\ call.first \notin call.todo => call.root \notin call.todo)
        BY <2>2, <2>5 DEF SurvivorKept
      <4>4. CASE call.step = "clean"
        <5>1. CASE call.first \in call.todo
          BY <4>1, <4>2, <4>3, <4>4, <5>1
        <5>2. CASE call.first \notin call.todo
          BY <4>2, <4>3, <4>4, <5>2
        <5>3. QED
          BY <5>1, <5>2
      <4>5. QED
        BY <4>3, <4>4
    <3>16. QED
      BY <3>10, <3>11, <3>12, <3>13, <3>14, <3>15 DEF Parts
  <2>6. QED
    BY <2>4, <2>5
<1>3. QED
  BY <1>1, <1>2

LEMMA EnrichStep == EnrichInv /\ [EnrichNext]_enrichVars => EnrichInv'
<1> SUFFICES ASSUME EnrichInv, [EnrichNext]_enrichVars PROVE EnrichInv'
  OBVIOUS
<1>1. StoreInv' /\ IdentityRecordedOnce'
  BY CallKeepsStore
<1>2. Parts'
  <2>1. CASE UNCHANGED enrichVars
    BY <2>1 DEF EnrichInv, Parts, enrichVars, vars, CallTypes, SameVacancy, RootKept, SurvivorKept,
        CandidatesKept, JobIsTried, Counts, Before, After, EveryOneGone, Active, Root, Live
  <2>2. CASE OtherStep
    BY <1>1, <2>2, OtherKeepsCall
  <2>3. CASE CallStep
    <3>1. CASE \E i \in Ids : Begin(i)
      BY <3>1, BeginKeeps
    <3>2. CASE NoSurvivor \/ AnswerCached \/ GiveUp
      BY <3>2, NoCallKeeps DEF NoSurvivor, AnswerCached, GiveUp
    <3>3. CASE ListFamily \/ CleanNext \/ Survive \/ Select
      BY <3>3, ListKeeps, CleanKeeps, SurviveKeeps, SelectKeeps
    <3>4. ASSUME NEW c \in call.cands,
                 \/ FetchText(c) \/ FetchTerminal(c) \/ FetchFails(c) \/ WriteFacts(c)
          PROVE  Parts'
      BY <3>4, FetchTextKeeps, FetchTerminalKeeps, FetchFailsKeeps, WriteFactsKeeps
    <3>5. ASSUME NEW c \in call.cands, AnswerEnriched(c) PROVE Parts'
      BY <3>5, NoCallKeeps DEF AnswerEnriched
    <3>6. QED
      BY <2>3, <3>1, <3>2, <3>3, <3>4, <3>5 DEF CallStep
  <2>4. QED
    BY <2>1, <2>2, <2>3 DEF EnrichNext
<1>3. QED
  BY <1>1, <1>2 DEF EnrichInv, Parts

\* A call that other processes leave alone knows the vacancy of the requested
\* posting, in every reachable state.
THEOREM EnrichInvariant == EnrichSpec => []EnrichInv
<1>1. EnrichInit => EnrichInv
  <2> SUFFICES ASSUME EnrichInit PROVE EnrichInv
    OBVIOUS
  <2>1. StoreInv
    BY StoreConstants DEF EnrichInit, Init, StoreInv, TypeOK, FlatFamilies,
        AuditMatchesGrouping, Ids, Idle
  <2>2. IdentityRecordedOnce
    BY DEF EnrichInit, Init, IdentityRecordedOnce, LivePostings, Live
  <2>3. call.step = "idle" /\ call \in Calls
    BY StoreConstants DEF EnrichInit, NoCall, Calls, Ids
  <2>4. QED
    BY <2>1, <2>2, <2>3 DEF EnrichInv, CallTypes, SameVacancy, RootKept, SurvivorKept, CandidatesKept,
                      JobIsTried, Counts, Before, After
<1>2. QED
  BY <1>1, EnrichStep, PTL DEF EnrichSpec

\* An undisturbed call that answers with a JD has served the posting it was
\* asked for, however families are merged meanwhile.
THEOREM AnswersServe == EnrichSpec => AnswerServesRequest
<1> DEFINE Serves == call.alone /\ Answered /\ Open
                        => \A j \in Ids : j = call.job => jd'[Root(j)'] # None
<1>1. EnrichInv => Serves
  <2> SUFFICES ASSUME EnrichInv, call.alone, Answered, Open, NEW j \in Ids, j = call.job
               PROVE  jd'[Root(j)'] # None
    OBVIOUS
  <2>1. posting'[j] = call.asked /\ Active(j)'
    BY DEF Open
  <2>2. CASE AnswerCached
    <3>1. /\ UNCHANGED vars /\ call.step = "select" /\ call.root \in Live
          /\ jd[Root(call.root)] # None
      BY <2>2 DEF AnswerCached
    <3>2. Counts /\ Before
      BY <2>1, <3>1 DEF Counts, Before, Active, vars
    <3>3. Root(j) = Root(call.root)
      BY <3>1, <3>2 DEF EnrichInv, SameVacancy
    <3>4. QED
      BY <3>1, <3>3 DEF Root, vars
  <2>3. ASSUME NEW c \in call.cands, AnswerEnriched(c) PROVE jd'[Root(j)'] # None
    <3>1. /\ call.step = "store" /\ c[1] \in Live
          /\ jd' = [jd EXCEPT ![Root(c[1])] = Written(Root(c[1]), c[2])]
          /\ UNCHANGED <<posting, primary, terminal, archived>>
      BY <2>3 DEF AnswerEnriched, StoreText, Target
    <3>2. Counts /\ After
      BY <2>1, <3>1 DEF Counts, After, Active
    <3>3. Root(c[1]) = Root(j)
      BY <3>2 DEF EnrichInv, CandidatesKept
    <3>4. c[2] \in Postings /\ Root(j) \in Ids
      BY <3>1, <3>3 DEF EnrichInv, CallTypes, Calls, StoreInv, FlatFamilies, Root, Live
    <3>5. jd'[Root(j)] # None
      BY <3>1, <3>3, <3>4, StoreConstants DEF EnrichInv, StoreInv, TypeOK, Written
    <3>6. QED
      BY <3>1, <3>5 DEF Root
  <2>4. QED
    BY <2>2, <2>3 DEF Answered
<1>2. EnrichInv => [Serves]_enrichVars
  BY <1>1
<1>3. QED
  BY <1>2, EnrichInvariant, PTL DEF AnswerServesRequest

\* 410 is true: a call that was left alone, and whose family was not merged
\* under another row at the wrong moment, never answers it for an open posting.
THEOREM UnavailableMeansClosed == EnrichSpec => UnavailableIsTrue
<1> DEFINE True410 == call.alone /\ ~call.moved /\ Unavailable => ~Open
<1>1. EnrichInv => True410
  <2> SUFFICES ASSUME EnrichInv, call.alone, ~call.moved, Unavailable, Open PROVE FALSE
    OBVIOUS
  <2> PICK j \in Ids : j = call.job /\ posting'[j] = call.asked /\ Active(j)'
    BY DEF Open
  <2>1. call.step # "idle" /\ call' = NoCall /\ call.asked \in Postings
    BY DEF Unavailable, EnrichInv, CallTypes
  <2>2. CASE NoSurvivor
    <3>1. Counts /\ Before /\ call.root \notin Live
      BY <2>1, <2>2 DEF NoSurvivor, Counts, Before, Active, vars
    <3>2. QED
      BY <3>1 DEF EnrichInv, RootKept
  <2>3. ASSUME NEW c \in call.cands, FetchTerminal(c), EveryOneGone PROVE FALSE
    <3>1. call.step = "try" /\ After
      BY <2>3 DEF FetchTerminal, After
    <3>2. c \in Ids \X Postings /\ posting[c[1]] = c[2]
      BY <3>1 DEF EnrichInv, CallTypes, Calls, CandidatesKept
    <3>3. c[1] \in Ids /\ RetireTerminal(c[1])
      BY <2>3, <3>2, StoreConstants DEF FetchTerminal, Live
    <3>4. j # c[1]
      BY <2>1, <3>3, RetireRows, StoreConstants DEF EnrichInv
    <3>5. posting[j] = call.asked /\ Active(j)
      BY <3>3, <3>4, RetireRows DEF EnrichInv
    <3>6. <<call.job, call.asked>> \in call.cands
      BY <2>1, <2>3, <3>1, <3>5 DEF Counts, EnrichInv, JobIsTried
    <3>7. Tried(c, FALSE) = NoCall
      BY <2>1, <2>3 DEF FetchTerminal
    <3>8. call.cands = {c}
      <4>1. ASSUME call.cands # {c} PROVE FALSE
        <5>1. NoCall = [call EXCEPT !.cands = @ \ {c}, !.failed = @ \/ FALSE]
          BY <3>7, <4>1 DEF Tried
        <5>2. NoCall.step = call.step
          BY <5>1 DEF EnrichInv, CallTypes, Calls
        <5>3. QED
          BY <2>1, <5>2 DEF NoCall
      <4>2. QED
        BY <4>1
    <3>9. QED
      BY <3>4, <3>6, <3>8
  <2>4. QED
    BY <2>2, <2>3 DEF Unavailable
<1>2. EnrichInv => [True410]_enrichVars
  BY <1>1
<1>3. QED
  BY <1>2, EnrichInvariant, PTL DEF UnavailableIsTrue

-----------------------------------------------------------------------------
(* ConsumerFeed: what a checkpoint passes, for any number of rows, page sizes  *)
(* and overlapping runs of one consumer.                                      *)

Runs == [step : {"idle", "mark", "read", "post", "write", "ask"}, through : 0..MaxId,
         cursor : 0..MaxId, more : BOOLEAN]

Types ==
    /\ checkpoint \in 0..MaxId
    /\ client \in [Clients -> Runs]
    /\ owed \subseteq Ids
    /\ steady \in [Clients -> SUBSET Ids]

\* The owed rows up to n were fed.
FedUpTo(n) == \A i \in owed : i <= n => posting[i] \in fed

\* The owed rows are in the feed, and were fed up to the checkpoint and up to
\* the cursor of every run, be it where its page starts or where it ended.
OwedInv ==
    /\ \A i \in owed : FeedRow(i)
    /\ FedUpTo(checkpoint)
    /\ \A c \in Clients : FedUpTo(client[c].cursor)

\* The snapshot of a run is owed and lies below its high-water id; after the
\* last page all of it was fed.
SnapshotInv(c) ==
    /\ client[c].step \in {"read", "post", "write", "ask"} =>
          \A i \in steady[c] : i \in owed /\ i <= client[c].through
    /\ client[c].step \in {"post", "write"} /\ ~client[c].more =>
          \A i \in steady[c] : posting[i] \in fed

FeedInv == Types /\ OwedInv /\ \A c \in Clients : SnapshotInv(c)

-----------------------------------------------------------------------------

\* The largest of some ids.
LEMMA Largest ==
    ASSUME NEW S, S \subseteq 0..MaxId, S # {}
    PROVE  \E m \in S : \A i \in S : i <= m
<1> USE StoreConstants
<1> DEFINE T == {MaxId - i : i \in S}
<1>1. T \subseteq Nat /\ T # {}
  <2>1. \A i \in S : MaxId - i \in Nat
    OBVIOUS
  <2>2. QED
    BY <2>1
<1>2. PICK t \in T : \A u \in T : t <= u
  <2> HIDE DEF T
  <2>1. PICK t \in T : \A u \in T : ~ (<<u, t>> \in OpToRel(<, Nat))
    BY <1>1, NatLessThanWellFounded, WFMin
  <2>2. \A u \in T : t <= u
    <3> SUFFICES ASSUME NEW u \in T PROVE t <= u
      OBVIOUS
    <3>1. t \in Nat /\ u \in Nat
      BY <1>1
    <3>2. ~ (u < t)
      BY <2>1, <3>1 DEF OpToRel
    <3>3. QED
      BY <3>1, <3>2
  <2>3. QED
    BY <2>2
<1>3. PICK m \in S : t = MaxId - m
  OBVIOUS
<1>4. \A i \in S : t <= MaxId - i
  BY <1>2
<1>5. QED
  BY <1>3, <1>4

\* The high-water id is one.
LEMMA MaxLiveType == MaxLive \in 0..MaxId
<1>1. PICK m \in Live \cup {0} : \A i \in Live \cup {0} : i <= m
  <2> DEFINE S == Live \cup {0}
  <2>1. S \subseteq 0..MaxId /\ S # {}
    BY StoreConstants DEF Live, Ids
  <2> HIDE DEF S
  <2>2. \E m \in S : \A i \in S : i <= m
    BY <2>1, Largest
  <2>3. QED
    BY <2>2 DEF S
<1>2. m \in Ids \cup {0} /\ \A i \in Live : i <= m
  BY <1>1 DEF Live
<1>3. MaxLive \in Ids \cup {0}
  BY <1>1, <1>2 DEF MaxLive
<1>4. QED
  BY <1>3, StoreConstants DEF Ids

\* A page has no gap: it ends with its cursor, and holds all rows up to it.
LEMMA PageHasNoGap ==
    ASSUME NEW after \in 0..MaxId, NEW through \in 0..MaxId,
           NEW page, page = Page(after, through),
           NEW next, next = NextCursor(page, after, through)
    PROVE  /\ next \in 0..MaxId
           /\ \A i \in Above(after, through) : i <= next => i \in page
<1> USE StoreConstants DEF Ids
<1> DEFINE rows == Above(after, through)
           Earlier(i) == {j \in rows : j < i}
<1>1. page = {i \in rows : Cardinality(Earlier(i)) < PageLimit} /\ rows \subseteq Ids
  BY DEF Page, Above
<1>2. CASE page = {}
  BY <1>1, <1>2 DEF NextCursor, Above
<1>3. CASE page # {}
  <2>0. page \subseteq 0..MaxId
    BY <1>1
  <2>1. \E m \in page : \A j \in page : j <= m
    BY <2>0, <1>3, Largest
  <2>2. next \in page /\ \A j \in page : j <= next
    BY <2>1, <1>3 DEF NextCursor
  <2>3. ASSUME NEW i \in rows, i <= next PROVE i \in page
    <3>1. Earlier(i) \subseteq Earlier(next)
      BY <2>2, <2>3, <1>1
    <3>2. IsFiniteSet(Earlier(next))
      <4>1. Earlier(next) \subseteq 1..MaxId
        BY <1>1
      <4> HIDE DEF Earlier
      <4>2. IsFiniteSet(1..MaxId)
        BY FS_Interval
      <4>3. QED
        BY <4>1, <4>2, FS_Subset
    <3>3. Cardinality(Earlier(i)) <= Cardinality(Earlier(next))
      BY <3>1, <3>2, FS_Subset
    <3>4. Cardinality(Earlier(i)) \in Nat /\ Cardinality(Earlier(next)) \in Nat
      BY <3>1, <3>2, FS_Subset, FS_CardinalityType
    <3>5. Cardinality(Earlier(next)) < PageLimit
      BY <1>1, <2>2
    <3> HIDE DEF Earlier
    <3>6. Cardinality(Earlier(i)) < PageLimit
      BY <3>3, <3>4, <3>5, FeedConstants
    <3>7. QED
      BY <1>1, <2>3, <3>6
  <2>4. QED
    BY <1>1, <2>2, <2>3
<1>4. QED
  BY <1>2, <1>3

-----------------------------------------------------------------------------

\* A row that is newly owed is ahead of every cursor, so the steps need to care
\* for the ones that were owed before only.
LEMMA OweKeeps ==
    ASSUME FeedInv, Types', Owe,
           \A i \in owed : i <= checkpoint' => posting[i] \in fed',
           \A c \in Clients : \A i \in owed : i <= client'[c].cursor => posting[i] \in fed'
    PROVE  OwedInv'
<1>1. ASSUME NEW i \in owed'
      PROVE  /\ i \in Ids /\ FeedRow(i)'
             /\ \/ i \in owed /\ posting'[i] = posting[i]
                \/ checkpoint' < i /\ \A c \in Clients : client'[c].cursor < i
  BY <1>1 DEF Owe, Ahead
<1>2. ASSUME NEW i \in Nat, NEW n \in Nat, n < i PROVE ~(i <= n)
  BY <1>2
<1>3. Ids \subseteq Nat /\ checkpoint' \in Nat /\ \A c \in Clients : client'[c].cursor \in Nat
  BY StoreConstants DEF Ids, Types, Runs
<1>4. FedUpTo(checkpoint)'
  BY <1>1, <1>2, <1>3 DEF FedUpTo
<1>5. ASSUME NEW c \in Clients PROVE FedUpTo(client[c].cursor)'
  BY <1>1, <1>2, <1>3 DEF FedUpTo
<1>6. QED
  BY <1>1, <1>4, <1>5 DEF OwedInv

\* The store's steps touch a run only through the rows that leave the feed.
LEMMA StoreKeeps == FeedInv /\ StoreStep => FeedInv'
<1> SUFFICES ASSUME FeedInv, StoreStep PROVE FeedInv'
  OBVIOUS
<1>1. /\ UNCHANGED <<checkpoint, client, fed>> /\ Owe
      /\ steady' = [c \in Clients |->
                      {i \in steady[c] : i \in owed' /\ posting'[i] = posting[i]}]
  BY DEF StoreStep
<1>2. Types'
  BY <1>1 DEF FeedInv, Types, Owe
<1>3. OwedInv'
  BY <1>1, <1>2, OweKeeps DEF FeedInv, OwedInv, FedUpTo
<1>5. ASSUME NEW c \in Clients PROVE SnapshotInv(c)'
  <2>1. \A i \in steady'[c] : i \in steady[c] /\ i \in owed' /\ posting'[i] = posting[i]
    BY <1>1
  <2>2. client'[c] = client[c] /\ SnapshotInv(c)
    BY <1>1 DEF FeedInv
  <2>3. QED
    BY <1>1, <2>1, <2>2 DEF SnapshotInv
<1>6. QED
  BY <1>2, <1>3, <1>5 DEF FeedInv

\* A step of one run leaves the others theirs: what was fed stays fed, and what
\* is owed stays owed.
LEMMA OtherRuns ==
    ASSUME FeedInv, UNCHANGED vars, fed \subseteq fed', Owe,
           NEW d \in Clients, client'[d] = client[d], steady'[d] = steady[d]
    PROVE  SnapshotInv(d)'
<1>1. \A i \in Ids : FeedRow(i)' = FeedRow(i)
  BY DEF FeedRow, VacancyActive, Family, Active, Live, vars
<1>2. owed \subseteq owed' /\ posting' = posting
  BY <1>1 DEF Owe, FeedInv, Types, OwedInv, vars
<1>3. QED
  BY <1>2 DEF FeedInv, SnapshotInv

\* A step of a run that moves no cursor beyond what is known to be fed.
LEMMA RunMoves ==
    ASSUME FeedInv, NEW c \in Clients, UNCHANGED vars, Owe, fed \subseteq fed',
           checkpoint' \in {checkpoint, client[c].cursor},
           NEW run \in Runs, client' = [client EXCEPT ![c] = run],
           \A i \in owed : i <= run.cursor => posting[i] \in fed',
           steady' = steady, SnapshotInv(c)'
    PROVE  FeedInv'
<1>1. Types'
  <2>1. checkpoint' \in 0..MaxId
    BY DEF FeedInv, Types, Runs
  <2>2. QED
    BY <2>1 DEF FeedInv, Types, Owe
<1>2. client'[c] = run /\ \A d \in Clients \ {c} : client'[d] = client[d]
  BY DEF FeedInv, Types
<1>3. \A i \in owed : i <= checkpoint' => posting[i] \in fed'
  BY DEF FeedInv, OwedInv, FedUpTo
<1>4. \A d \in Clients : \A i \in owed : i <= client'[d].cursor => posting[i] \in fed'
  BY <1>2 DEF FeedInv, OwedInv, FedUpTo
<1>5. OwedInv'
  BY <1>1, <1>3, <1>4, OweKeeps
<1>6. QED
  BY <1>1, <1>2, <1>5, OtherRuns DEF FeedInv

\* The steps of a run.
LEMMA RunKeeps ==
    ASSUME FeedInv, NEW c \in Clients, RunStep(c)
    PROVE  FeedInv'
<1>0. /\ Types /\ OwedInv /\ client[c] \in Runs /\ steady[c] \subseteq Ids /\ NoRun \in Runs
      /\ FedUpTo(checkpoint) /\ FedUpTo(client[c].cursor) /\ SnapshotInv(c) /\ Owe
  BY StoreConstants DEF FeedInv, Types, OwedInv, Runs, NoRun, RunStep
<1>1. UNCHANGED vars
  BY DEF RunStep, BeginRun, CaptureHighWater, AskAgain, ReadPage, PostCheckpoint,
         WriteCheckpoint, RunFails, vars
<1>2. /\ \A i \in Ids : FeedRow(i)' = FeedRow(i)
      /\ posting' = posting
  BY <1>1 DEF FeedRow, VacancyActive, Family, Active, Live, vars
<1>3. owed \subseteq owed' /\ owed \subseteq Ids
  BY <1>0, <1>2 DEF Owe, Types, OwedInv
<1>4. \A i \in owed : i \in Nat /\ ~(i <= 0)
  BY <1>3, StoreConstants DEF Ids
<1>5. CASE BeginRun(c)
  <2> DEFINE run == [NoRun EXCEPT !.step = "mark", !.cursor = checkpoint]
  <2>1. /\ client' = [client EXCEPT ![c] = run] /\ UNCHANGED <<checkpoint, fed, steady>>
        /\ run \in Runs /\ run.cursor = checkpoint /\ run.step = "mark"
    BY <1>0, <1>5 DEF BeginRun, NoRun, Runs, Types
  <2> HIDE DEF run
  <2>2. client'[c] = run
    BY <1>0, <2>1 DEF Types
  <2>3. SnapshotInv(c)'
    BY <2>1, <2>2 DEF SnapshotInv
  <2>4. QED
    BY <1>0, <1>1, <2>1, <2>3, RunMoves DEF FedUpTo
<1>6. CASE CaptureHighWater(c)
  <2> DEFINE run == [client[c] EXCEPT !.step = "read", !.through = MaxLive]
  <2>1. /\ client' = [client EXCEPT ![c] = run] /\ UNCHANGED <<checkpoint, fed>>
        /\ steady' = [steady EXCEPT ![c] = {i \in owed : i <= MaxLive}]
    BY <1>6, <1>0 DEF CaptureHighWater, Types
  <2>2. /\ run \in Runs /\ run.cursor = client[c].cursor /\ run.step = "read"
        /\ run.through = MaxLive
    BY <1>0, MaxLiveType DEF Runs
  <2> HIDE DEF run
  <2>3. /\ client'[c] = run /\ steady'[c] = {i \in owed : i <= MaxLive}
        /\ \A d \in Clients \ {c} : client'[d] = client[d] /\ steady'[d] = steady[d]
    BY <1>0, <2>1 DEF Types
  <2>4. Types'
    BY <1>0, <1>3, <2>1, <2>2 DEF Types, Owe
  <2>5. SnapshotInv(c)'
    BY <1>3, <2>2, <2>3 DEF SnapshotInv
  <2>6. /\ \A i \in owed : i <= checkpoint' => posting[i] \in fed'
        /\ \A d \in Clients : \A i \in owed : i <= client'[d].cursor => posting[i] \in fed'
    BY <1>0, <2>1, <2>2, <2>3 DEF OwedInv, FedUpTo
  <2>7. OwedInv'
    BY <1>0, <2>4, <2>6, OweKeeps
  <2>8. QED
    BY <1>0, <1>1, <2>1, <2>3, <2>4, <2>5, <2>7, OtherRuns DEF FeedInv
<1>7. CASE AskAgain(c)
  <2> DEFINE run == [client[c] EXCEPT !.step = "read", !.cursor = checkpoint]
  <2>1. /\ client' = [client EXCEPT ![c] = run] /\ UNCHANGED <<checkpoint, fed, steady>>
        /\ client[c].step = "ask"
    BY <1>7, <1>0 DEF AskAgain, Types
  <2>2. /\ run \in Runs /\ run.cursor = checkpoint /\ run.step = "read"
        /\ run.through = client[c].through
    BY <1>0 DEF Runs, Types
  <2> HIDE DEF run
  <2>3. client'[c] = run
    BY <1>0, <2>1 DEF Types
  <2>4. SnapshotInv(c)'
    BY <1>0, <1>3, <2>1, <2>2, <2>3 DEF SnapshotInv
  <2>5. QED
    BY <1>0, <1>1, <2>1, <2>2, <2>4, RunMoves DEF FedUpTo
<1>8. CASE ReadPage(c)
  <2> DEFINE old == client[c]
             page == Page(old.cursor, old.through)
             next == NextCursor(page, old.cursor, old.through)
             rest == page # Above(old.cursor, old.through)
             run == [old EXCEPT !.step = "post", !.cursor = next, !.more = rest]
  <2>1. /\ fed' = fed \cup {posting[i] : i \in page}
        /\ client' = [client EXCEPT ![c] = run]
        /\ old.step = "read" /\ UNCHANGED <<checkpoint, steady>>
    BY <1>8 DEF ReadPage
  <2>2. /\ next \in 0..MaxId
        /\ \A i \in Above(old.cursor, old.through) : i <= next => i \in page
    <3>1. old.cursor \in 0..MaxId /\ old.through \in 0..MaxId
      BY <1>0 DEF Runs
    <3>2. QED
      BY <3>1, PageHasNoGap
  <2>3. \A i \in owed : i > old.cursor /\ i <= old.through
                            => i \in Above(old.cursor, old.through)
    BY <1>0, <1>3, StoreConstants DEF OwedInv, Above, Runs, Ids
  <2>4. \A i \in owed : posting[i] \in fed \/ i > old.cursor
    BY <1>0, <1>4, StoreConstants DEF FedUpTo, Runs
  <2>5. page \subseteq Above(old.cursor, old.through)
    BY DEF Page
  <2>6. ASSUME NEW i \in owed, i <= next PROVE posting[i] \in fed'
    <3>1. CASE page = {}
      BY <1>0, <2>1, <2>6, <3>1 DEF NextCursor, FedUpTo
    <3>2. CASE page # {} /\ i > old.cursor
      <4>1. next \in page
        <5>1. page \subseteq 0..MaxId
          BY <2>5 DEF Above, Ids
        <5>2. \E m \in page : \A j \in page : j <= m
          BY <3>2, <5>1, Largest
        <5>3. QED
          BY <3>2, <5>2 DEF NextCursor
      <4>2. next <= old.through
        BY <2>5, <4>1 DEF Above
      <4>3. i <= old.through
        <5> HIDE DEF next
        <5>1. i \in Nat /\ next \in Nat /\ old.through \in Nat
          BY <1>0, <1>4, <2>2, StoreConstants DEF Runs
        <5>2. QED
          BY <2>6, <4>2, <5>1
      <4>4. i \in page
        BY <2>2, <2>3, <2>6, <3>2, <4>3
      <4>5. QED
        BY <2>1, <4>4
    <3>3. QED
      BY <2>1, <2>4, <3>1, <3>2
  <2>7. /\ run \in Runs /\ run.cursor = next /\ run.through = old.through
        /\ run.step = "post" /\ run.more = rest
    <3>1. rest \in BOOLEAN
      OBVIOUS
    <3> HIDE DEF next, rest
    <3>2. QED
      BY <1>0, <2>2, <3>1 DEF Runs
  <2>8. \A i \in owed : i <= old.through /\ ~rest => posting[i] \in fed'
    BY <2>1, <2>3, <2>4
  <2> HIDE DEF run, rest, next, page
  <2>9. client'[c] = run
    BY <1>0, <2>1 DEF Types
  <2>10. SnapshotInv(c)'
    BY <1>0, <1>2, <1>3, <2>1, <2>7, <2>8, <2>9 DEF SnapshotInv
  <2>11. fed \subseteq fed'
    BY <2>1
  <2>12. \A i \in owed : i <= run.cursor => posting[i] \in fed'
    BY <2>6, <2>7
  <2>13. QED
    BY <1>0, <1>1, <2>1, <2>7, <2>10, <2>11, <2>12, RunMoves
<1>9. ASSUME \/ PostCheckpoint(c) /\ client'[c] = NoRun
             \/ RunFails(c)
      PROVE  FeedInv'
  <2>1. UNCHANGED <<checkpoint, fed, steady>> /\ client' = [client EXCEPT ![c] = NoRun]
    BY <1>0, <1>9 DEF PostCheckpoint, RunFails, Types
  <2>2. client'[c] = NoRun
    BY <1>0, <2>1 DEF Types
  <2>3. SnapshotInv(c)' /\ NoRun.cursor = 0
    BY <2>2 DEF SnapshotInv, NoRun
  <2>4. QED
    BY <1>0, <1>1, <1>4, <2>1, <2>3, RunMoves
<1>10. ASSUME PostCheckpoint(c), client'[c] # NoRun PROVE FeedInv'
  <2> DEFINE run == [client[c] EXCEPT !.step = "write"]
  <2>1. /\ client' = [client EXCEPT ![c] = run] /\ UNCHANGED <<checkpoint, fed, steady>>
        /\ client[c].step = "post"
    BY <1>10, <1>0 DEF PostCheckpoint, Types
  <2>2. /\ run \in Runs /\ run.cursor = client[c].cursor /\ run.step = "write"
        /\ run.through = client[c].through /\ run.more = client[c].more
    BY <1>0 DEF Runs
  <2> HIDE DEF run
  <2>3. client'[c] = run
    BY <1>0, <2>1 DEF Types
  <2>4. SnapshotInv(c)'
    BY <1>0, <1>2, <1>3, <2>1, <2>2, <2>3 DEF SnapshotInv
  <2>5. QED
    BY <1>0, <1>1, <2>1, <2>2, <2>4, RunMoves DEF FedUpTo
<1>11. CASE WriteCheckpoint(c)
  <2> DEFINE goes == [NoRun EXCEPT !.step = "ask", !.through = client[c].through]
             run == IF client[c].more THEN goes ELSE NoRun
  <2>1. /\ client' = [client EXCEPT ![c] = run] /\ UNCHANGED <<fed, steady>>
        /\ checkpoint' = client[c].cursor /\ client[c].step = "write"
    BY <1>11 DEF WriteCheckpoint
  <2>2. /\ run \in Runs /\ run.cursor = 0 /\ run.step \in {"ask", "idle"}
        /\ run.step = "ask" => run.through = client[c].through
    BY <1>0 DEF Runs, NoRun
  <2> HIDE DEF run
  <2>3. client'[c] = run
    BY <1>0, <2>1 DEF Types
  <2>4. SnapshotInv(c)'
    BY <1>0, <1>2, <1>3, <2>1, <2>2, <2>3 DEF SnapshotInv
  <2>5. QED
    BY <1>0, <1>1, <1>4, <2>1, <2>2, <2>4, RunMoves
<1>12. QED
  BY <1>5, <1>6, <1>7, <1>8, <1>9, <1>10, <1>11 DEF RunStep

\* The cases of a step.
LEMMA FeedStep == FeedInv /\ [FeedNext]_allVars => FeedInv'
<1> SUFFICES ASSUME FeedInv, [FeedNext]_allVars PROVE FeedInv'
  OBVIOUS
<1>1. CASE UNCHANGED allVars
  BY <1>1 DEF allVars, feedVars, vars, FeedInv, Types, OwedInv, SnapshotInv, FedUpTo,
              FeedRow, VacancyActive, Family, Active, Live
<1>2. QED
  BY <1>1, StoreKeeps, RunKeeps DEF FeedNext

\* What is owed was fed up to the checkpoint and up to every cursor in use, and
\* a run that is through has fed its snapshot, in every reachable state.
THEOREM FeedInvariant == FeedSpec => []FeedInv
<1>1. FeedInit => FeedInv
  BY StoreConstants DEF FeedInit, FeedInv, Types, OwedInv, SnapshotInv, FedUpTo, NoRun, Runs
<1>2. QED
  BY <1>1, FeedStep, PTL DEF FeedSpec

\* For any number of overlapping runs of one consumer, the shared checkpoint
\* never passes a row that came into the feed ahead of it, stayed, and was
\* handed over by none of them.
THEOREM CheckpointsPassFed == FeedSpec => []CheckpointPassesOnlyFed
<1>1. FeedInv => CheckpointPassesOnlyFed
  BY DEF FeedInv, OwedInv, FedUpTo, CheckpointPassesOnlyFed
<1>2. QED
  BY <1>1, FeedInvariant, PTL

\* A run that ends by itself leaves nothing of its snapshot unfed, whoever moved
\* the checkpoint its pages started from.
THEOREM RunsCoverTheirSnapshot == FeedSpec => RunCoversSnapshot
<1> DEFINE Covers == \A c \in Clients : WriteCheckpoint(c) /\ ~client[c].more =>
              \A i \in steady[c] : posting[i] \in fed
<1>1. FeedInv => Covers
  BY DEF FeedInv, SnapshotInv, WriteCheckpoint
<1>2. FeedInv => [Covers]_allVars
  BY <1>1
<1>3. QED
  BY <1>2, FeedInvariant, PTL DEF RunCoversSnapshot
=============================================================================
