-------------------------- MODULE PostingDatesProofs --------------------------
(* Theorems about PostingDates, for every row an earlier version may have   *)
(* left, every date cards and detail pages may show, whether it parses or   *)
(* not, and every number of crashes.                                        *)
EXTENDS PostingDates, TLAPS

\* What is written was decided on a row that was there, or stores its first.
RowStays ==
    date = "absent" =>
        /\ ingest.at \in {"idle", "read"} /\ (ingest.at = "read" => ingest.row.date = "absent")
        /\ \A w \in Writers : facts[w] = Idle

Typed == TypeOK /\ RowStays

\* A SEEK row has a usable date once its card is stored, and is known at rest.
SeekKeepsKnown ==
    source = "seek" =>
        /\ repair = Idle /\ date \notin Malformed
        /\ facts["jd"] # Idle => facts["jd"].date \in Evidence
        /\ ingest.at = "read" => /\ ingest.row.date \notin Malformed
                                 /\ ingest.row.date \in Usable => date \in Usable
        /\ ingest.at \in {"stored", "checked", "merged"} => date \in Usable
        /\ ingest.at = "checked" => ingest.usable
        /\ ingest.at = "merged" => ingest.state = "known"
        /\ crashes = 0 /\ date \in Evidence /\ ingest = Idle => state = "known"

\* A repair that found no date has cleared the row.
Cleared == attempt = "unavailable" \/ (repair.at = "record" /\ repair.date = "none")

\* A row is repaired only once.  Until a mishap, a repair that has found a date
\* leaves a usable one, and a card holds an old state of the field only when
\* a repair has cleared the row.
RepairKeepsDate ==
    /\ attempt # "none" => repair = Idle
    /\ facts["repair"] # Idle => facts["repair"].date = repair.date
    /\ mishaps = {} =>
           /\ date \notin Malformed
           /\ facts["repair"] # Idle /\ facts["repair"].row.date \in Usable => date \in Usable
           /\ repair.at = "record" /\ repair.date # "none" => date \in Usable
           /\ ingest.at = "read" => /\ ingest.row.date \notin Malformed
                                    /\ ingest.row.date \in Usable => date \in Usable \/ Cleared
           /\ ingest.at = "stored" => date \in Usable \/ Cleared
           /\ ingest.at = "checked" /\ ~ingest.usable => Cleared
           /\ ingest.at = "merged" /\ ingest.state # "known" => Cleared
    /\ FilledIsFound

States == {"missing", "unknown", "known", "not_present"}
-----------------------------------------------------------------------------
(* Types, and what one step does to the row.                               *)

LEMMA RowType == TypeOK <=> /\ source \in Sources /\ date \in Dates /\ state \in States
                            /\ captures \subseteq Evidence
                            /\ ingest \in Ingests /\ facts \in [Writers -> Facts]
                            /\ repair \in Repairs
                            /\ attempt \in {"none", "filled", "unavailable"}
                            /\ crashes \in 0..MaxCrashes
                            /\ mishaps \subseteq {"malformed", "unrecorded"}
                            /\ date = "absent" => state = "missing" /\ captures = {} /\ repair = Idle
                            /\ facts["repair"] # Idle => repair.at = "found" /\ repair.date # "none"
  BY DEF TypeOK, Row, Rows, States

LEMMA HealedType == ASSUME state \in States PROVE Healed \in States
  BY DEF Healed, States

LEMMA HealedKeeps == ASSUME state \in States, state # "missing" PROVE Healed = state
<1>1. date = "absent" \/ state # "missing"
  OBVIOUS
<1>2. QED
  BY <1>1 DEF Healed, States

\* A card shows some evidence, that of its search window at least.
LEMMA NormalizedType ==
    ASSUME NEW shown \in Cards
    PROVE  Normalized(shown) \in Evidence
<1>1. \E d \in shown : \A e \in shown : Rank(e) <= Rank(d)
  <2>1. CASE "instant" \in shown
    BY <2>1 DEF Rank, Evidence, Cards
  <2>2. CASE "instant" \notin shown /\ "day" \in shown
    BY <2>2 DEF Rank, Evidence, Cards
  <2>3. CASE "instant" \notin shown /\ "day" \notin shown /\ "relative" \in shown
    BY <2>3 DEF Rank, Evidence, Cards
  <2>4. CASE "instant" \notin shown /\ "day" \notin shown /\ "relative" \notin shown
    BY <2>4 DEF Rank, Evidence, Cards
  <2>5. QED
    BY <2>1, <2>2, <2>3, <2>4
<1>2. QED
  BY <1>1 DEF Normalized, Cards

\* What the steps of a writer hold.
LEMMA HeldByIngest ==
    ASSUME TypeOK
    PROVE  /\ ingest.at = "read" => /\ ingest.card \in Cards /\ ingest.row \in Rows
                                    /\ Normalized(ingest.card) \in Evidence
           /\ ingest.at = "checked" => ingest.usable \in BOOLEAN
           /\ ingest.at = "merged" => ingest.state \in States
           /\ ingest.at \in {"idle", "read", "stored", "checked", "merged"}
           /\ ingest = Idle <=> ingest.at = "idle"
  BY RowType, NormalizedType DEF Ingests, Idle, States

LEMMA HeldByFacts ==
    ASSUME TypeOK, NEW w \in Writers
    PROVE  /\ facts[w].at = "read" => /\ facts[w].date \in Evidence \cup Malformed
                                      /\ facts[w].row \in Rows
           /\ facts[w] = Idle <=> facts[w].at = "idle"
           /\ facts[w].at \in {"idle", "read"}
  BY RowType DEF Facts, Idle

LEMMA HeldByRepair ==
    ASSUME TypeOK
    PROVE  /\ repair.at \in {"found", "record"} => repair.date \in Evidence \cup {"none"}
           /\ repair = Idle <=> repair.at = "idle"
           /\ repair.at \in {"idle", "fetch", "found", "record"}
  BY RowType DEF Repairs, Idle

LEMMA DateTypes == /\ Evidence \subseteq Usable /\ Usable \subseteq Dates
                   /\ Malformed \subseteq Dates \ Usable
                   /\ "none" \in Dates \ (Usable \cup Malformed)
                   /\ "absent" \notin Usable \cup Malformed
                   /\ "broken" \notin Usable \cup Malformed
                   /\ \A d \in Dates : d \in Usable \cup Malformed \/ d \in {"absent", "none", "broken"}
  BY DEF Evidence, Malformed, Usable, Dates

-----------------------------------------------------------------------------
(* The steps keep the types.                                               *)

LEMMA BeginIngestType ==
    ASSUME Typed, NEW shown \in Cards, BeginIngest(shown) PROVE Typed'
<1>1. TypeOK /\ RowStays
  BY DEF Typed
<1>2. Healed \in States /\ (date = "absent" => Healed = state)
  BY <1>1, RowType, HealedType DEF Healed
<1>3. ingest' \in Ingests /\ ingest'.at = "read" /\ ingest'.row.date = date
  BY <1>1, <1>2, RowType DEF BeginIngest, Ingests, Rows, States
<1>4. TypeOK'
  BY <1>1, <1>2, <1>3, RowType DEF BeginIngest, TypeOK, Row, Rows, States
<1>5. RowStays'
  BY <1>1, <1>3 DEF BeginIngest, RowStays
<1>6. QED
  BY <1>4, <1>5 DEF Typed

LEMMA IngestType ==
    ASSUME Typed, StoreCard \/ ReadDate \/ ReadStates \/ StoreStates PROVE Typed'
<1>1. TypeOK /\ RowStays
  BY DEF Typed
<1>2. CASE StoreCard
  <2>1. date' \in Dates /\ date' # "absent"
    BY <1>1, <1>2, RowType, HeldByIngest, DateTypes DEF StoreCard, Replaces, RowStays
  <2>2. ingest' \in Ingests /\ captures' \subseteq Evidence
    BY <1>1, <1>2, RowType, HeldByIngest DEF StoreCard, Ingests, Cards
  <2>3. TypeOK'
    BY <1>1, <1>2, <2>1, <2>2, RowType DEF StoreCard, TypeOK, Row, Rows, States
  <2>4. QED
    BY <2>1, <2>3 DEF Typed, RowStays
<1>3. CASE ReadDate
  <2>1. ingest' \in Ingests /\ date # "absent" /\ date' = date
    BY <1>1, <1>3 DEF ReadDate, RowStays, Ingests
  <2>2. QED
    BY <1>1, <1>3, <2>1, RowType DEF ReadDate, TypeOK, Row, Typed, RowStays
<1>4. CASE StoreStates
  <2>1. ingest' \in Ingests /\ date # "absent" /\ date' = date /\ state' \in States
    BY <1>1, <1>4, RowType, HeldByIngest DEF StoreStates, RowStays, Ingests, States
  <2>2. QED
    BY <1>1, <1>4, <2>1, RowType DEF StoreStates, TypeOK, Row, Rows, States, Typed, RowStays
<1>5. CASE ReadStates
  <2>1. ingest'.state \in States /\ ingest'.at = "merged" /\ date # "absent" /\ date' = date
    BY <1>1, <1>5, RowType DEF ReadStates, RowStays, States
  <2>2. ingest' \in Ingests
    BY <1>1, <1>5, <2>1, RowType DEF ReadStates, Ingests, States
  <2>3. QED
    BY <1>1, <1>5, <2>1, <2>2, RowType DEF ReadStates, TypeOK, Row, Typed, RowStays
<1>6. QED
  BY <1>2, <1>3, <1>4, <1>5

LEMMA ReadRowType ==
    ASSUME Typed, NEW w \in Writers, NEW d \in Evidence \cup Malformed, ReadRow(w, d),
           UNCHANGED repair, w = "repair" => repair.at = "found" /\ repair.date # "none"
    PROVE  Typed'
<1>1. TypeOK /\ RowStays
  BY DEF Typed
<1>2. Healed \in States
  BY <1>1, RowType, HealedType
<1>3. [at |-> "read", date |-> d, row |-> [date |-> date, state |-> Healed]] \in Facts
  BY <1>1, <1>2, RowType DEF Facts, Rows, States
<1>4. facts' \in [Writers -> Facts] /\ (facts'["repair"] # Idle => repair.at = "found" /\ repair.date # "none")
  BY <1>1, <1>3, RowType DEF ReadRow, Writers
<1>5. TypeOK'
  BY <1>1, <1>2, <1>4, RowType DEF ReadRow, TypeOK, Row, Rows, States
<1>6. QED
  BY <1>5 DEF ReadRow, Typed, RowStays

LEMMA StoreFactsType ==
    ASSUME Typed, NEW w \in Writers, UpdateSourceFacts(w), repair' \in Repairs,
           repair = Idle <=> repair' = Idle, w = "repair" \/ UNCHANGED repair
    PROVE  Typed'
<1>1. TypeOK /\ RowStays
  BY DEF Typed
<1>2. /\ facts[w].date \in Dates \ {"absent"} /\ date # "absent"
  BY <1>1, HeldByFacts, DateTypes DEF UpdateSourceFacts, RowStays, Idle
<1>3. date' \in Dates \ {"absent"} /\ state' \in States
  BY <1>1, <1>2, RowType DEF UpdateSourceFacts, StoreFacts, States
<1>4. /\ facts' \in [Writers -> Facts] /\ (facts'["repair"] # Idle => repair'.at = "found" /\ repair'.date # "none")
  BY <1>1, RowType DEF UpdateSourceFacts, Facts, Writers
<1>5. TypeOK'
  <2>1. mishaps' \subseteq {"malformed", "unrecorded"}
    BY <1>1, RowType DEF UpdateSourceFacts
  <2>2. QED
    BY <1>1, <1>3, <1>4, <2>1, RowType DEF UpdateSourceFacts, TypeOK, Row, Rows, States
<1>6. QED
  BY <1>3, <1>5 DEF Typed, RowStays

LEMMA RepairType ==
    ASSUME Typed, \/ SelectForRepair \/ RepairFetched \/ RepairFetchFails \/ RepairClears
                  \/ RepairRecords
    PROVE  Typed'
<1>1. TypeOK /\ RowStays
  BY DEF Typed
<1>2. CASE SelectForRepair \/ RepairFetched
  <2>1. repair' \in Repairs /\ date # "absent"
    BY <1>1, <1>2, HeldByRepair, RowType
       DEF SelectForRepair, RepairFetched, Repairs, Evidence
  <2>2. /\ UNCHANGED <<source, date, state, captures, ingest, facts, attempt, crashes, mishaps>>
        /\ facts["repair"] = Idle
    BY <1>1, <1>2, RowType DEF SelectForRepair, RepairFetched, Idle
  <2>3. TypeOK'
    BY <1>1, <2>1, <2>2, RowType DEF TypeOK, Row
  <2>4. QED
    BY <1>1, <2>2, <2>3 DEF Typed, RowStays
<1>3. CASE RepairFetchFails
  <2>1. repair' \in Repairs /\ date # "absent" /\ facts["repair"] = Idle
    BY <1>1, <1>3, RowType DEF RepairFetchFails, Repairs, Idle
  <2>2. QED
    BY <1>1, <1>3, <2>1, RowType DEF RepairFetchFails, TypeOK, Row, Typed, RowStays
<1>4. CASE RepairClears
  <2>1. /\ repair' \in Repairs /\ date # "absent" /\ facts["repair"] = Idle
        /\ state' \in States
    BY <1>1, <1>4, RowType, HealedType DEF RepairClears, Repairs, Idle
  <2>2. QED
    BY <1>1, <1>4, <2>1, RowType, DateTypes
       DEF RepairClears, TypeOK, Row, Rows, States, Typed, RowStays
<1>5. CASE RepairRecords
  <2>1. date # "absent" /\ facts["repair"] = Idle /\ repair.date \in Evidence \cup {"none"}
    BY <1>1, <1>5, RowType, HeldByRepair DEF RepairRecords, Idle
  <2>2. /\ state' \in States /\ captures' \subseteq Evidence
        /\ attempt' \in {"none", "filled", "unavailable"} /\ repair' \in Repairs
    BY <1>1, <1>5, <2>1, RowType DEF RepairRecords, States, Repairs, Evidence
  <2>3. QED
    BY <1>1, <1>5, <2>1, <2>2, RowType
       DEF RepairRecords, TypeOK, Row, Rows, States, Typed, RowStays
<1>6. QED
  BY <1>2, <1>3, <1>4, <1>5

\* The rest: the backfill, pruning and crashes.
LEMMA UpkeepType ==
    ASSUME Typed, Backfill \/ PruneCaptures \/ CollectorCrashes \/ RepairCrashes PROVE Typed'
<1>1. TypeOK /\ RowStays
  BY DEF Typed
<1>2. CASE Backfill
  <2>1. PICK kinds \in Counting :
           \/ date' \in Strongest(kinds) /\ state' = "known"
           \/ date' = "none" /\ state' = "unknown"
    BY <1>2 DEF Backfill
  <2>2. Strongest(kinds) \subseteq Evidence
    BY <1>1, <2>1, RowType DEF Counting, Strongest
  <2>3. date' \in Dates \ {"absent"} /\ state' \in States
    BY <2>1, <2>2, DateTypes DEF States
  <2>4. QED
    BY <1>1, <1>2, <2>3, RowType DEF Backfill, TypeOK, Row, Rows, States, Typed, RowStays
<1>3. CASE PruneCaptures
  BY <1>1, <1>3, RowType DEF PruneCaptures, TypeOK, Row, Typed, RowStays
<1>4. CASE CollectorCrashes
  <2>1. crashes' \in 0..MaxCrashes /\ ingest' \in Ingests
    BY <1>1, <1>4, RowType, DatesAssumption DEF CollectorCrashes, Ingests
  <2>2. QED
    BY <1>1, <1>4, <2>1, RowType DEF CollectorCrashes, TypeOK, Row, Typed, RowStays, Idle
<1>5. CASE RepairCrashes
  <2>1. crashes' \in 0..MaxCrashes /\ repair' \in Repairs
        /\ facts' \in [Writers -> Facts] /\ facts'["repair"] = Idle
        /\ mishaps' \subseteq {"malformed", "unrecorded"}
    BY <1>1, <1>5, RowType, DatesAssumption DEF RepairCrashes, Repairs, Facts, Writers
  <2>2. \A w \in Writers : facts[w] = Idle => facts'[w] = Idle
    BY <1>1, <1>5, RowType DEF RepairCrashes
  <2>3. QED
    BY <1>1, <1>5, <2>1, <2>2, RowType DEF RepairCrashes, TypeOK, Row, Typed, RowStays
<1>6. QED
  BY <1>2, <1>3, <1>4, <1>5

LEMMA StepType == ASSUME Typed, [Next]_vars PROVE Typed'
<1>1. CASE Listed
  <2>1. CardDates[source] \in Cards
    BY RowType, DatesAssumption DEF Typed, Cards
  <2>2. QED
    BY <1>1, <2>1, BeginIngestType DEF Listed
<1>2. CASE Seen
  BY <1>2, BeginIngestType DEF Seen
<1>3. CASE StoreCard \/ ReadDate \/ ReadStates \/ StoreStates
  BY <1>3, IngestType
<1>4. CASE FetchJD
  <2>1. PICK d \in DetailDates[source] : ReadRow("jd", d)
    BY <1>4 DEF FetchJD
  <2>2. UNCHANGED repair /\ "jd" \in Writers /\ d \in Evidence \cup Malformed
    BY <2>1, RowType, DatesAssumption DEF ReadRow, Writers, Typed
  <2>3. QED
    BY <2>1, <2>2, ReadRowType
<1>5. CASE StoreJDFacts
  BY <1>5, StoreFactsType, RowType DEF StoreJDFacts, Writers, Typed
<1>6. CASE RepairReads
  <2>1. repair.date \in Evidence /\ UNCHANGED repair /\ ReadRow("repair", repair.date)
    BY <1>6, HeldByRepair DEF RepairReads, ReadRow, Typed
  <2>2. QED
    BY <1>6, <2>1, ReadRowType DEF RepairReads, Writers
<1>7. CASE RepairStores
  <2>1. repair.at = "found" /\ repair \in Repairs
    BY <1>7, RowType DEF RepairStores, UpdateSourceFacts, Typed, Idle
  <2>2. repair' \in Repairs /\ repair # Idle /\ repair' # Idle
    BY <1>7, <2>1 DEF RepairStores, Repairs, Idle
  <2>3. QED
    BY <1>7, <2>2, StoreFactsType DEF RepairStores, Writers
<1>8. CASE SelectForRepair \/ RepairFetched \/ RepairFetchFails \/ RepairClears \/ RepairRecords
  BY <1>8, RepairType
<1>9. CASE Backfill \/ PruneCaptures \/ CollectorCrashes \/ RepairCrashes
  BY <1>9, UpkeepType
<1>10. CASE UNCHANGED vars
  BY <1>10 DEF vars, Typed, TypeOK, Row, RowStays
<1>11. QED
  BY <1>1, <1>2, <1>3, <1>4, <1>5, <1>6, <1>7, <1>8, <1>9, <1>10 DEF Next

LEMMA InitType == Init => Typed
<1> SUFFICES ASSUME Init PROVE Typed
  OBVIOUS
<1>1. date \in Dates /\ state \in States /\ (date = "absent" => state = "missing")
  <2>1. PICK row \in Initial \cup {[date |-> "absent", state |-> "missing"]} :
            date = row.date /\ state = row.state
    BY DEF Init
  <2>2. CASE row \in Initial
    BY <2>1, <2>2, DatesAssumption DEF Dates, Usable, States
  <2>3. CASE row = [date |-> "absent", state |-> "missing"]
    BY <2>1, <2>3 DEF Dates, Usable, States
  <2>4. QED
    BY <2>2, <2>3
<1>2. Idle \in Ingests /\ Idle \in Facts /\ Idle \in Repairs /\ 0 \in 0..MaxCrashes
      /\ mishaps = {}
  BY DatesAssumption DEF Ingests, Facts, Repairs, Init
<1>3. /\ source \in Sources /\ captures = {} /\ ingest = Idle /\ repair = Idle
      /\ facts = [w \in Writers |-> Idle] /\ attempt = "none" /\ crashes = 0
  BY DEF Init
<1>4. TypeOK
  <2>1. facts \in [Writers -> Facts] /\ facts["repair"] = Idle
    BY <1>2, <1>3 DEF Writers
  <2>2. QED
    BY <1>1, <1>2, <1>3, <2>1, RowType
<1>5. RowStays
  BY <1>3 DEF RowStays, Idle
<1>6. QED
  BY <1>4, <1>5 DEF Typed

-----------------------------------------------------------------------------
(* A SEEK row with evidence is known.                                      *)

\* What a card is given to store, and when its row keeps what it has.
LEMMA CardStores ==
    ASSUME TypeOK, StoreCard
    PROVE  /\ date' \in Evidence \/ date' = date
           /\ ingest.row.date \in Dates
           /\ ingest.row.date \notin Usable \cup Malformed => date' \in Evidence
<1>1. Normalized(ingest.card) \in Evidence /\ ingest.row.date \in Dates
  BY HeldByIngest DEF StoreCard, Rows
<1> DEFINE d == Normalized(ingest.card)
<1>2. date' = IF Replaces(d, ingest.row, CardRank(ingest.row)) THEN d ELSE date
  BY DEF StoreCard
<1> HIDE DEF d
<1>3. d \in Evidence
  BY <1>1 DEF d
<1>4. Rank(d) \in 1..3
  BY <1>3 DEF Rank, Evidence
<1>5. ASSUME ingest.row.date \notin Usable \cup Malformed
      PROVE  Replaces(d, ingest.row, CardRank(ingest.row))
  <2>1. CASE ingest.row.date \in {"absent", "none"}
    BY <2>1 DEF Replaces
  <2>2. CASE ingest.row.date = "broken"
    <3>1. CardRank(ingest.row) = 0
      BY <2>2 DEF CardRank, Rank, Malformed
    <3>2. QED
      BY <1>4, <3>1 DEF Replaces
  <2>3. QED
    BY <1>1, <1>5, <2>1, <2>2, DateTypes
<1>6. QED
  BY <1>1, <1>2, <1>3, <1>5

\* What a detail page is given to store.
LEMMA FactsStore ==
    ASSUME TypeOK, NEW w \in Writers, UpdateSourceFacts(w)
    PROVE  /\ \/ date' = facts[w].date /\ state' = "known"
              \/ date' = date /\ state' = state /\ facts[w].row.date \in Usable \cup Malformed
           /\ facts[w].date \in Evidence /\ facts[w].row.date \notin Usable => date' = facts[w].date
<1> DEFINE f == facts[w]
<1>1. f.at = "read" /\ f.date \in Evidence \cup Malformed /\ f.row.date \in Dates
  BY HeldByFacts DEF UpdateSourceFacts, Rows
<1>2. IF Replaces(f.date, f.row, FactsRank(f.row))
      THEN date' = f.date /\ state' = "known" ELSE UNCHANGED <<date, state>>
  BY DEF UpdateSourceFacts, StoreFacts
<1> HIDE DEF f
<1>3. Rank(f.date) \in 1..3
  BY <1>1 DEF Rank, Evidence, Malformed
<1>4. ASSUME f.row.date \in {"absent", "none", "broken"} \cup Malformed
      PROVE  Replaces(f.date, f.row, FactsRank(f.row))
  <2>1. CASE f.row.date \in {"absent", "none"}
    BY <2>1 DEF Replaces
  <2>2. CASE f.row.date \in {"broken"} \cup Malformed
    <3>1. FactsRank(f.row) = 0
      BY <2>2 DEF FactsRank, CardRank, Rank, Malformed
    <3>2. QED
      BY <1>3, <3>1 DEF Replaces
  <2>3. QED
    BY <1>4, <2>1, <2>2
<1>5. QED
  BY <1>1, <1>2, <1>4, DateTypes DEF f

LEMMA SeekStep == ASSUME Typed, SeekKeepsKnown, [Next]_vars PROVE SeekKeepsKnown'
<1> SUFFICES ASSUME source' = "seek" PROVE SeekKeepsKnown'
  BY DEF SeekKeepsKnown
<1>1. source = "seek" /\ TypeOK
  BY DEF Typed, Next, vars, Listed, Seen, BeginIngest, StoreCard, ReadDate, ReadStates,
     StoreStates, FetchJD, ReadRow, StoreJDFacts, UpdateSourceFacts, SelectForRepair,
     RepairFetched, RepairFetchFails, RepairReads, RepairStores, RepairClears, RepairRecords,
     Backfill, PruneCaptures, CollectorCrashes, RepairCrashes
<1>2. /\ repair = Idle /\ date \notin Malformed
      /\ facts["jd"] # Idle => facts["jd"].date \in Evidence
      /\ ingest.at = "read" => /\ ingest.row.date \notin Malformed
                               /\ ingest.row.date \in Usable => date \in Usable
      /\ ingest.at \in {"stored", "checked", "merged"} => date \in Usable
      /\ ingest.at = "checked" => ingest.usable
      /\ ingest.at = "merged" => ingest.state = "known"
      /\ crashes = 0 /\ date \in Evidence /\ ingest = Idle => state = "known"
  BY <1>1 DEF SeekKeepsKnown
<1>3. facts["repair"] = Idle
  BY <1>1, <1>2, RowType DEF Idle
<1>4. CASE Listed \/ Seen
  <2>1. PICK shown : BeginIngest(shown)
    BY <1>4 DEF Listed, Seen
  <2>2. /\ UNCHANGED <<date, facts, repair, crashes>>
        /\ ingest'.at = "read" /\ ingest'.row.date = date
    BY <2>1 DEF BeginIngest
  <2>3. QED
    BY <1>2, <2>2 DEF SeekKeepsKnown, Idle
<1>5. CASE StoreCard
  <2>1. date' \in Evidence \/ date' = date
    BY <1>1, <1>5, CardStores
  <2>2. date' \in Usable
    <3>1. CASE ingest.row.date \in Usable
      BY <1>2, <1>5, <2>1, <3>1, DateTypes DEF StoreCard
    <3>2. CASE ingest.row.date \notin Usable
      BY <1>1, <1>2, <1>5, <3>2, CardStores, DateTypes DEF StoreCard
    <3>3. QED
      BY <3>1, <3>2
  <2>3. UNCHANGED <<facts, repair, crashes>> /\ ingest'.at = "stored" /\ ingest' # Idle
    BY <1>5 DEF StoreCard, Idle
  <2>4. QED
    BY <1>2, <2>2, <2>3, DateTypes DEF SeekKeepsKnown
<1>6. CASE ReadDate
  <2>1. /\ UNCHANGED <<date, facts, repair, crashes>> /\ date \in Usable
        /\ ingest'.at = "checked" /\ ingest'.usable /\ ingest' # Idle
    BY <1>2, <1>6 DEF ReadDate, Idle
  <2>2. QED
    BY <1>2, <2>1 DEF SeekKeepsKnown
<1>7. CASE ReadStates
  <2>1. /\ UNCHANGED <<date, facts, repair, crashes>> /\ date \in Usable
        /\ ingest'.at = "merged" /\ ingest'.state = "known" /\ ingest' # Idle
    BY <1>2, <1>7 DEF ReadStates, Idle
  <2>2. QED
    BY <1>2, <2>1 DEF SeekKeepsKnown
<1>8. CASE StoreStates
  BY <1>2, <1>8 DEF StoreStates, SeekKeepsKnown, Idle
<1>9. CASE FetchJD
  <2>1. PICK d \in DetailDates[source] : ReadRow("jd", d)
    BY <1>9 DEF FetchJD
  <2>2. d \in Evidence /\ facts'["jd"].date = d
    BY <1>1, <2>1, RowType, DatesAssumption DEF ReadRow, Writers
  <2>3. state = "known" => state' = "known"
    BY <1>1, <2>1, RowType, HealedKeeps DEF ReadRow
  <2>4. QED
    BY <1>2, <2>1, <2>2, <2>3 DEF ReadRow, SeekKeepsKnown
<1>10. CASE StoreJDFacts
  <2>1. facts["jd"] # Idle /\ facts'["jd"] = Idle /\ UNCHANGED <<ingest, repair, crashes>>
    BY <1>1, <1>10, RowType DEF StoreJDFacts, UpdateSourceFacts, Writers, Idle
  <2>2. \/ date' \in Evidence /\ state' = "known"
        \/ date' = date /\ state' = state
    BY <1>1, <1>2, <1>10, <2>1, FactsStore DEF StoreJDFacts, Writers
  <2>3. QED
    BY <1>2, <2>1, <2>2, DateTypes DEF SeekKeepsKnown
<1>11. CASE \/ SelectForRepair \/ RepairFetched \/ RepairFetchFails \/ RepairClears
            \/ RepairRecords \/ RepairReads \/ RepairStores \/ RepairCrashes
  BY <1>1, <1>2, <1>3, <1>11
     DEF SelectForRepair, RepairFetched, RepairFetchFails, RepairClears, RepairRecords,
         RepairReads, RepairStores, UpdateSourceFacts, RepairCrashes, Idle
<1>12. CASE Backfill
  <2>1. PICK kinds \in Counting :
           \/ date' \in Strongest(kinds) /\ state' = "known"
           \/ date' = "none" /\ state' = "unknown"
    BY <1>12 DEF Backfill
  <2>2. (date' \in Evidence /\ state' = "known") \/ date' = "none"
    BY <1>1, <2>1, RowType DEF Counting, Strongest
  <2>3. UNCHANGED <<ingest, facts, repair>> /\ ingest.at = "idle"
    BY <1>12 DEF Backfill, Idle
  <2>4. QED
    BY <1>2, <2>2, <2>3, DateTypes DEF SeekKeepsKnown
<1>13. CASE PruneCaptures
  BY <1>2, <1>13 DEF PruneCaptures, SeekKeepsKnown
<1>14. CASE CollectorCrashes
  BY <1>1, <1>2, <1>14, RowType DEF CollectorCrashes, SeekKeepsKnown, Idle
<1>15. CASE UNCHANGED vars
  BY <1>2, <1>15 DEF vars, SeekKeepsKnown
<1>16. QED
  BY <1>4, <1>5, <1>6, <1>7, <1>8, <1>9, <1>10, <1>11, <1>12, <1>13, <1>14, <1>15 DEF Next

LEMMA SeekInit == Init => SeekKeepsKnown
<1> SUFFICES ASSUME Init PROVE SeekKeepsKnown
  OBVIOUS
<1>1. PICK row \in Initial \cup {[date |-> "absent", state |-> "missing"]} :
          date = row.date /\ state = row.state
  BY DEF Init
<1>2. date \in {"absent", "none", "legacy", "broken"}
  BY <1>1, DatesAssumption
<1>3. QED
  BY <1>2 DEF Init, SeekKeepsKnown, Evidence, Malformed, Idle, Writers

-----------------------------------------------------------------------------
(* A repair that found a date leaves one.                                  *)

LEMMA RepairStep == ASSUME Typed, RepairKeepsDate, [Next]_vars PROVE RepairKeepsDate'
<1>1. TypeOK
  BY DEF Typed
<1>2. /\ attempt # "none" => repair = Idle
      /\ facts["repair"] # Idle => /\ facts["repair"].date = repair.date
                                   /\ repair.at = "found" /\ repair.date # "none"
      /\ state \in States
  BY <1>1, RowType DEF RepairKeepsDate
<1>3. mishaps = {} =>
      /\ date \notin Malformed
      /\ facts["repair"] # Idle /\ facts["repair"].row.date \in Usable => date \in Usable
      /\ repair.at = "record" /\ repair.date # "none" => date \in Usable
      /\ ingest.at = "read" => /\ ingest.row.date \notin Malformed
                               /\ ingest.row.date \in Usable => date \in Usable \/ Cleared
      /\ ingest.at = "stored" => date \in Usable \/ Cleared
      /\ ingest.at = "checked" /\ ~ingest.usable => Cleared
      /\ ingest.at = "merged" /\ ingest.state # "known" => Cleared
      /\ attempt = "filled" => date \in Usable /\ state = "known"
  BY DEF RepairKeepsDate, FilledIsFound
<1>4. CASE Listed \/ Seen
  <2>1. PICK shown : BeginIngest(shown)
    BY <1>4 DEF Listed, Seen
  <2>2. /\ UNCHANGED <<date, facts, repair, attempt, mishaps>>
        /\ ingest'.at = "read" /\ ingest'.row.date = date
        /\ state = "known" => state' = "known"
    BY <1>2, <2>1, HealedKeeps DEF BeginIngest
  <2>3. QED
    BY <1>2, <1>3, <2>2 DEF RepairKeepsDate, FilledIsFound
<1>5. CASE StoreCard
  <2>1. /\ UNCHANGED <<state, facts, repair, attempt, mishaps>> /\ Cleared' = Cleared
        /\ ingest.at = "read" /\ ingest'.at = "stored"
    BY <1>5 DEF StoreCard, Cleared
  <2>2. /\ date' \in Evidence \/ date' = date
        /\ ingest.row.date \notin Usable \cup Malformed => date' \in Evidence
    BY <1>1, <1>5, CardStores
  <2>3. mishaps = {} => date' \notin Malformed /\ (date \in Usable => date' \in Usable)
    BY <1>3, <2>2, DateTypes
  <2>4. mishaps = {} => date' \in Usable \/ Cleared
    BY <1>3, <2>1, <2>2, DateTypes
  <2>5. QED
    BY <1>2, <1>3, <2>1, <2>3, <2>4 DEF RepairKeepsDate, FilledIsFound
<1>6. CASE ReadDate \/ ReadStates
  <2>1. UNCHANGED <<date, state, facts, repair, attempt, mishaps>> /\ Cleared' = Cleared
    BY <1>6 DEF ReadDate, ReadStates, Cleared
  <2>2. /\ ingest'.at \in {"checked", "merged"}
        /\ mishaps = {} /\ ingest'.at = "checked" /\ ~ingest'.usable => Cleared
        /\ mishaps = {} /\ ingest'.at = "merged" /\ ingest'.state # "known" => Cleared
    <3>1. CASE ReadDate
      <4>1. ingest.at = "stored" /\ ingest'.at = "checked" /\ ingest'.usable = (date \in Usable)
        BY <3>1 DEF ReadDate
      <4>2. QED
        BY <1>3, <4>1
    <3>2. CASE ReadStates
      <4>1. /\ ingest.at = "checked" /\ ingest'.at = "merged"
            /\ ingest.usable => ingest'.state = "known"
        BY <3>2 DEF ReadStates
      <4>2. QED
        BY <1>3, <4>1
    <3>3. QED
      BY <1>6, <3>1, <3>2
  <2>3. QED
    BY <1>2, <1>3, <2>1, <2>2 DEF RepairKeepsDate, FilledIsFound
<1>7. CASE StoreStates
  <2>1. /\ UNCHANGED <<date, facts, repair, attempt, mishaps>>
        /\ ingest.at = "merged" /\ ingest'.at = "idle" /\ state' = ingest.state
    BY <1>7 DEF StoreStates, Idle
  <2>2. attempt = "filled" => ~Cleared
    BY <1>2 DEF Cleared, Idle
  <2>3. QED
    BY <1>2, <1>3, <2>1, <2>2 DEF RepairKeepsDate, FilledIsFound
<1>8. CASE FetchJD
  <2>1. PICK d : ReadRow("jd", d)
    BY <1>8 DEF FetchJD
  <2>2. /\ UNCHANGED <<date, ingest, repair, attempt, mishaps>> /\ Cleared' = Cleared
        /\ facts'["repair"] = facts["repair"]
        /\ state = "known" => state' = "known"
    BY <1>1, <1>2, <2>1, RowType, HealedKeeps DEF ReadRow, Writers, Cleared
  <2>3. QED
    BY <1>2, <1>3, <2>2 DEF RepairKeepsDate, FilledIsFound
<1>9. CASE StoreJDFacts
  <2>1. /\ facts'["repair"] = facts["repair"] /\ UNCHANGED <<ingest, repair, attempt>>
        /\ Cleared' = Cleared
        /\ mishaps' = {} => mishaps = {} /\ date' \notin Malformed
    BY <1>1, <1>9, RowType DEF StoreJDFacts, UpdateSourceFacts, Writers, Cleared
  <2>2. /\ date' \in Evidence \cup Malformed \/ date' = date
        /\ state = "known" => state' = "known"
    BY <1>1, <1>9, FactsStore, HeldByFacts DEF StoreJDFacts, UpdateSourceFacts, Writers
  <2>3. mishaps' = {} => (date \in Usable => date' \in Usable)
    BY <2>1, <2>2, DateTypes
  <2>4. QED
    BY <1>2, <1>3, <2>1, <2>2, <2>3 DEF RepairKeepsDate, FilledIsFound
<1>10. CASE SelectForRepair \/ RepairFetched \/ RepairFetchFails
  <2>1. /\ facts["repair"] = Idle /\ attempt = "none"
        /\ repair.at \in {"idle", "fetch"} /\ repair'.at \in {"idle", "fetch", "found"}
    BY <1>2, <1>10 DEF SelectForRepair, RepairFetched, RepairFetchFails, Idle
  <2>2. UNCHANGED <<facts, attempt, date, state, ingest, mishaps>> /\ ~Cleared
    BY <1>10, <2>1 DEF SelectForRepair, RepairFetched, RepairFetchFails, Cleared
  <2>3. QED
    BY <1>3, <2>1, <2>2 DEF RepairKeepsDate, FilledIsFound
<1>11. CASE RepairReads
  <2>1. /\ ReadRow("repair", repair.date)
        /\ UNCHANGED <<repair, date, ingest, attempt, mishaps>> /\ Cleared' = Cleared
        /\ repair.at = "found" /\ attempt = "none"
    BY <1>2, <1>11 DEF RepairReads, ReadRow, Idle, Cleared
  <2>2. facts'["repair"].date = repair.date /\ facts'["repair"].row.date = date
    BY <1>1, <2>1, RowType DEF ReadRow, Writers
  <2>3. QED
    BY <1>3, <2>1, <2>2 DEF RepairKeepsDate, FilledIsFound
<1>12. CASE RepairStores
  <2> DEFINE f == facts["repair"]
  <2>1. /\ UpdateSourceFacts("repair") /\ f # Idle /\ f.at = "read" /\ f.date = repair.date
        /\ repair.at = "found" /\ repair.date # "none" /\ attempt = "none"
        /\ repair'.at = "record" /\ repair'.date = repair.date
    BY <1>1, <1>2, <1>12, HeldByRepair, RowType
       DEF RepairStores, UpdateSourceFacts, Idle, Repairs
  <2>2. f.date \in Evidence
    BY <1>1, <2>1, HeldByRepair
  <2>3. /\ f.row.date \notin Usable => date' = f.date
        /\ date' = f.date \/ date' = date
    BY <1>1, <2>1, <2>2, FactsStore DEF Writers
  <2>4. facts'["repair"] = Idle /\ UNCHANGED <<ingest, attempt>>
        /\ (mishaps' = {} => mishaps = {})
    BY <1>1, <2>1, RowType DEF UpdateSourceFacts, Writers
  <2>5. Cleared' = Cleared /\ ~Cleared
    BY <2>1, <2>4 DEF Cleared
  <2> HIDE DEF f
  <2>6. mishaps = {} => date' \in Usable
    <3>1. CASE f.row.date \in Usable
      BY <1>3, <2>1, <2>2, <2>3, <3>1, DateTypes DEF f
    <3>2. CASE f.row.date \notin Usable
      BY <2>2, <2>3, <3>2, DateTypes
    <3>3. QED
      BY <3>1, <3>2
  <2>7. QED
    BY <1>3, <2>1, <2>4, <2>5, <2>6, DateTypes DEF RepairKeepsDate, FilledIsFound
<1>13. CASE RepairClears
  <2>1. /\ facts["repair"] = Idle /\ attempt = "none" /\ date' = "none"
        /\ repair.at = "found" /\ repair'.at = "record" /\ repair'.date = "none"
        /\ UNCHANGED <<facts, ingest, attempt, mishaps>>
    BY <1>1, <1>2, <1>13, RowType DEF RepairClears, Idle, Repairs
  <2>2. Cleared'
    BY <2>1 DEF Cleared
  <2>3. QED
    BY <1>3, <2>1, <2>2, DateTypes DEF RepairKeepsDate, FilledIsFound
<1>14. CASE RepairRecords
  <2>1. /\ facts["repair"] = Idle /\ repair' = Idle /\ UNCHANGED <<date, facts, ingest, mishaps>>
        /\ repair.at = "record" /\ attempt = "none"
        /\ repair.date = "none" => attempt' = "unavailable"
        /\ repair.date # "none" => attempt' = "filled" /\ state' = "known"
    BY <1>2, <1>14 DEF RepairRecords, Idle
  <2>2. Cleared => Cleared'
    BY <2>1 DEF Cleared
  <2>3. QED
    BY <1>3, <2>1, <2>2 DEF RepairKeepsDate, FilledIsFound, Idle
<1>15. CASE Backfill
  <2>1. /\ facts["repair"] = Idle /\ repair = Idle /\ ingest = Idle
        /\ UNCHANGED <<facts, repair, attempt, ingest, mishaps>>
    BY <1>15 DEF Backfill, Writers
  <2>2. mishaps = {} => attempt # "filled"
    BY <1>3, <1>15 DEF Backfill, Stale
  <2>3. PICK kinds \in Counting :
           \/ date' \in Strongest(kinds) /\ state' = "known"
           \/ date' = "none" /\ state' = "unknown"
    BY <1>15 DEF Backfill
  <2>4. date' \notin Malformed
    BY <1>1, <2>3, RowType, DateTypes DEF Counting, Strongest
  <2>5. QED
    BY <1>2, <2>1, <2>2, <2>4 DEF RepairKeepsDate, FilledIsFound, Idle
<1>16. CASE PruneCaptures \/ CollectorCrashes
  <2>1. /\ UNCHANGED <<date, state, facts, repair, attempt, mishaps>> /\ Cleared' = Cleared
        /\ ingest' = ingest \/ ingest'.at = "idle"
    BY <1>16 DEF PruneCaptures, CollectorCrashes, Cleared, Idle
  <2>2. QED
    BY <1>2, <1>3, <2>1 DEF RepairKeepsDate, FilledIsFound
<1>17. CASE RepairCrashes
  <2>1. /\ facts'["repair"] = Idle /\ repair' = Idle /\ repair # Idle /\ attempt = "none"
        /\ UNCHANGED <<date, state, attempt, ingest>>
    BY <1>1, <1>2, <1>17, RowType DEF RepairCrashes, Writers
  <2>2. mishaps' = {} => mishaps = {} /\ ~Cleared
    BY <1>17, <2>1 DEF RepairCrashes, Cleared
  <2>3. QED
    BY <1>3, <2>1, <2>2 DEF RepairKeepsDate, FilledIsFound, Idle
<1>18. CASE UNCHANGED vars
  <2>1. UNCHANGED <<date, state, ingest, facts, repair, attempt, mishaps>> /\ Cleared' = Cleared
    BY <1>18 DEF vars, Cleared
  <2>2. QED
    BY <1>2, <1>3, <2>1 DEF RepairKeepsDate, FilledIsFound
<1>19. QED
  BY <1>4, <1>5, <1>6, <1>7, <1>8, <1>9, <1>10, <1>11, <1>12, <1>13, <1>14, <1>15, <1>16,
     <1>17, <1>18 DEF Next

LEMMA RepairInit == Init => RepairKeepsDate
<1> SUFFICES ASSUME Init PROVE RepairKeepsDate
  OBVIOUS
<1>1. PICK row \in Initial \cup {[date |-> "absent", state |-> "missing"]} :
          date = row.date /\ state = row.state
  BY DEF Init
<1>2. date \notin Malformed
  BY <1>1, DatesAssumption DEF Malformed
<1>3. QED
  BY <1>2 DEF Init, RepairKeepsDate, FilledIsFound, Idle, Writers

-----------------------------------------------------------------------------
(* Evidence is not lost.                                                   *)

\* A write leaves no less than the row it was decided on.
LEMMA ReplacesIsNoLess ==
    ASSUME NEW row \in Rows, NEW d \in Evidence, NEW rank \in {CardRank(row), FactsRank(row)},
           Replaces(d, row, rank), NEW s \in States \ {"not_present"}
    PROVE  TrustOf([date |-> d, state |-> s]) >= TrustOf(row)
<1>1. row.date \in Dates /\ row.state \in States
  BY DEF Rows, States
<1>2. CASE row.state = "not_present" \/ row.date \notin Usable
  BY <1>2 DEF TrustOf, Rank, Usable, Evidence, States
<1>3. CASE row.state # "not_present" /\ row.date \in Usable
  <2>1. rank = IF row.date = "legacy" THEN 3 ELSE Rank(row.date)
    BY <1>3, DateTypes DEF CardRank, FactsRank
  <2>2. \/ Rank(d) > rank
        \/ Rank(d) = 3 /\ Rank(row.date) = 3 /\ Length(d) > Length(row.date)
    BY <1>3, DateTypes DEF Replaces, MorePrecise
  <2>3. TrustOf([date |-> d, state |-> s]) = IF d = "instant" THEN 4 ELSE Rank(d)
    BY DEF TrustOf, Usable, Evidence
  <2>4. TrustOf(row) = IF row.date = "instant" THEN 4 ELSE IF row.date = "legacy" THEN 3
                       ELSE Rank(row.date)
    BY <1>3 DEF TrustOf
  <2>5. QED
    BY <1>3, <2>1, <2>2, <2>3, <2>4 DEF Rank, Length, Usable, Evidence, Malformed
<1>4. QED
  BY <1>2, <1>3

\* A step that leaves the date and does not call the field absent loses nothing.
LEMMA SameDate ==
    ASSUME TypeOK, UNCHANGED date, state' = state \/ state' # "not_present"
    PROVE  Trust' >= Trust
<1>1. date \in Dates
  BY RowType
<1>2. QED
  BY <1>1 DEF Trust, TrustOf, Row, Rank, Usable, Evidence, Dates, Malformed

\* A row whose field is said to be absent is trusted in nothing.
LEMMA NothingLess ==
    ASSUME TypeOK, TypeOK', state = "not_present"
    PROVE  Trust' >= Trust
<1>1. date' \in Dates
  BY DEF TypeOK, Row, Rows
<1>2. QED
  BY <1>1 DEF Trust, TrustOf, Row, Rank, Usable, Evidence, Dates, Malformed

LEMMA EvidenceStep ==
    ASSUME Typed, Typed', SeekKeepsKnown, RepairKeepsDate, [Next]_vars
    PROVE  Trust' >= Trust \/ Overtaken \/ LinkedInLoss
<1>1. TypeOK /\ Row \in Rows /\ state \in States /\ date \in Dates
  BY RowType DEF Typed, TypeOK
<1>2. CASE StoreCard
  <2> DEFINE d == Normalized(ingest.card)
  <2>1. d \in Evidence /\ UNCHANGED state /\ ingest.row \in Rows
    BY <1>1, <1>2, HeldByIngest DEF StoreCard
  <2>2. CASE state = "not_present"
    BY <1>1, <2>2, NothingLess DEF Typed
  <2>3. CASE state # "not_present" /\ Replaces(d, ingest.row, CardRank(ingest.row))
    <3>1. Row' = [date |-> d, state |-> state]
      BY <1>2, <2>1, <2>3 DEF StoreCard, Row
    <3> HIDE DEF d
    <3>2. Trust' >= TrustOf(ingest.row)
      BY <1>1, <2>1, <2>3, <3>1, ReplacesIsNoLess DEF Trust
    <3>3. CASE ingest.row = Row
      BY <3>2, <3>3 DEF Trust
    <3>4. CASE ingest.row # Row
      BY <1>2, <3>2, <3>4 DEF Overtaken
    <3>5. QED
      BY <3>3, <3>4
  <2>4. CASE ~Replaces(d, ingest.row, CardRank(ingest.row))
    BY <1>1, <1>2, <2>1, <2>4, SameDate DEF StoreCard
  <2>5. QED
    BY <2>2, <2>3, <2>4
<1>3. CASE StoreJDFacts \/ RepairStores
  <2>1. PICK w \in Writers : /\ UpdateSourceFacts(w)
                             /\ (w = "jd" /\ StoreJDFacts) \/ (w = "repair" /\ RepairStores)
    BY <1>3 DEF StoreJDFacts, RepairStores, Writers
  <2> DEFINE f == facts[w]
  <2>2. f.date \in Evidence \cup Malformed /\ f.row \in Rows /\ f # Idle
    BY <1>1, <2>1, HeldByFacts DEF UpdateSourceFacts, Idle
  <2>3. CASE f.date \in Malformed
    <3>1. w = "jd" /\ StoreJDFacts
      <4>1. w = "repair" => f.date = repair.date /\ repair.at = "found" /\ repair.date # "none"
        BY <1>1, <2>2, RowType DEF RepairKeepsDate
      <4>2. w # "repair"
        BY <1>1, <2>3, <4>1, HeldByRepair, DateTypes
      <4>3. QED
        BY <2>1, <4>2
    <3>2. source # "seek"
      BY <2>2, <2>3, <3>1, DateTypes DEF SeekKeepsKnown
    <3>3. QED
      BY <1>1, <2>3, <3>1, <3>2, RowType DEF LinkedInLoss, Sources
  <2>4. CASE f.date \in Evidence /\ Replaces(f.date, f.row, FactsRank(f.row))
    <3>1. Row' = [date |-> f.date, state |-> "known"]
      BY <2>1, <2>4 DEF UpdateSourceFacts, StoreFacts, Row
    <3> HIDE DEF f
    <3>2. Trust' >= TrustOf(f.row)
      BY <2>2, <2>4, <3>1, ReplacesIsNoLess DEF Trust, States
    <3>3. CASE f.row = Row
      BY <3>2, <3>3 DEF Trust
    <3>4. CASE f.row # Row
      BY <2>1, <3>2, <3>4 DEF Overtaken, f
    <3>5. QED
      BY <3>3, <3>4
  <2>5. CASE ~Replaces(f.date, f.row, FactsRank(f.row))
    BY <1>1, <2>1, <2>5, SameDate DEF UpdateSourceFacts, StoreFacts
  <2>6. QED
    BY <2>2, <2>3, <2>4, <2>5
<1>4. CASE Backfill
  <2>1. Trust = 0
    BY <1>4 DEF Backfill, Stale, Trust, TrustOf, Row
  <2>2. PICK kinds \in Counting :
           \/ date' \in Strongest(kinds) /\ state' = "known"
           \/ date' = "none" /\ state' = "unknown"
    BY <1>4 DEF Backfill
  <2>3. date' \in Evidence \cup {"none"}
    BY <1>1, <2>2, RowType DEF Counting, Strongest
  <2>4. Trust' \in 0..4
    BY <2>3 DEF Trust, TrustOf, Row, Rank, Evidence, Malformed
  <2>5. QED
    BY <2>1, <2>4
<1>5. CASE RepairClears
  <2>1. source # "seek"
    BY <1>5 DEF RepairClears, SeekKeepsKnown, Idle
  <2>2. QED
    BY <1>1, <1>5, <2>1, RowType DEF LinkedInLoss, Sources
<1>6. CASE StoreStates
  <2>1. CASE ingest.state = "not_present"
    <3>1. source # "seek"
      BY <1>6, <2>1 DEF StoreStates, SeekKeepsKnown
    <3>2. QED
      BY <1>1, <1>6, <2>1, <3>1, RowType DEF LinkedInLoss, Sources
  <2>2. CASE ingest.state # "not_present"
    BY <1>1, <1>6, <2>2, SameDate DEF StoreStates
  <2>3. QED
    BY <2>1, <2>2
<1>7. CASE \/ Listed \/ Seen \/ ReadDate \/ ReadStates \/ FetchJD \/ RepairReads
           \/ SelectForRepair \/ RepairFetched \/ RepairFetchFails \/ RepairRecords
           \/ PruneCaptures \/ CollectorCrashes \/ RepairCrashes \/ UNCHANGED vars
  <2>1. UNCHANGED date
    BY <1>7 DEF Listed, Seen, BeginIngest, ReadDate, ReadStates, FetchJD, RepairReads, ReadRow,
       SelectForRepair, RepairFetched, RepairFetchFails, RepairRecords, PruneCaptures,
       CollectorCrashes, RepairCrashes, vars
  <2>2. Healed = state \/ Healed # "not_present"
    BY DEF Healed
  <2>3. state' = state \/ state' # "not_present"
    BY <1>7, <2>2
       DEF Listed, Seen, BeginIngest, ReadDate, ReadStates, FetchJD, RepairReads, ReadRow,
       SelectForRepair, RepairFetched, RepairFetchFails, RepairRecords, PruneCaptures,
       CollectorCrashes, RepairCrashes, vars
  <2>4. QED
    BY <1>1, <2>1, <2>3, SameDate
<1>8. QED
  BY <1>2, <1>3, <1>4, <1>5, <1>6, <1>7 DEF Next

-----------------------------------------------------------------------------
LEMMA TypedAlways == Spec => []Typed
<1>1. Typed /\ [Next]_vars => Typed'
  BY StepType
<1>2. QED
  BY <1>1, InitType, PTL DEF Spec

\* Every variable keeps its type; a write, a repair or a card under way is of a
\* row that is there.
THEOREM DatesTypeCorrect == Spec => []TypeOK
<1>1. Typed => TypeOK
  BY DEF Typed
<1>2. QED
  BY <1>1, TypedAlways, PTL

\* A SEEK row with evidence is found by a search for recent postings as soon as
\* no card of it is being stored, unless the collector crashed on its way; not
\* even two writers that decide on the same row at once hide it.
THEOREM SeekRowsAreKnown == Spec => []SeekDatesAreFound
<1>1. Typed /\ SeekKeepsKnown /\ [Next]_vars => SeekKeepsKnown'
  BY SeekStep
<1>2. SeekKeepsKnown => SeekDatesAreFound
  BY DEF SeekKeepsKnown, SeekDatesAreFound
<1>3. QED
  BY <1>1, <1>2, SeekInit, TypedAlways, PTL DEF Spec

\* A repair recorded as filled has left a usable date that a search finds, for
\* ever, unless the row was given a date that does not parse or a repair stopped
\* between clearing its date and recording so.
THEOREM FilledStaysFound == Spec => []FilledIsFound
<1>1. Typed /\ RepairKeepsDate /\ [Next]_vars => RepairKeepsDate'
  BY RepairStep
<1>2. RepairKeepsDate => FilledIsFound
  BY DEF RepairKeepsDate
<1>3. QED
  BY <1>1, <1>2, RepairInit, TypedAlways, PTL DEF Spec

\* Evidence of a SEEK row gives way only to as good evidence and to a write
\* decided on an older row, which leaves no less than that row had; on LinkedIn
\* also to a repair without a date, to a date that does not parse and to an old
\* state of the field.
THEOREM EvidenceIsKept == Spec => EvidenceNeverDegrades
<1>1. Typed /\ Typed' /\ SeekKeepsKnown /\ RepairKeepsDate /\ [Next]_vars
          => [Trust' >= Trust \/ Overtaken \/ LinkedInLoss]_vars
  BY EvidenceStep
<1>2. Typed /\ SeekKeepsKnown /\ [Next]_vars => SeekKeepsKnown'
  BY SeekStep
<1>3. Typed /\ RepairKeepsDate /\ [Next]_vars => RepairKeepsDate'
  BY RepairStep
<1>4. QED
  BY <1>1, <1>2, <1>3, SeekInit, RepairInit, TypedAlways, PTL DEF Spec, EvidenceNeverDegrades

=============================================================================
