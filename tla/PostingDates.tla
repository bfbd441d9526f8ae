---------------------------- MODULE PostingDates ----------------------------
(***************************************************************************)
(* The posting date of a row (`jobs.posted_at`, `posted_at_basis`) and the *)
(* state of that field (`job_field_states`), which the API filters by.  No *)
(* writer relates two rows, so one row of either source stands for all.    *)
(* Four writers decide on it from the row they have read: the ingestion of *)
(* a card, the facts of a detail page, the LinkedIn repair and the         *)
(* backfill from retained captures.  The connections are in SQLite's       *)
(* deferred mode: a row is read outside the transaction that writes it, so *)
(* a read and the write it decides are two steps here.  A date stands for  *)
(* its kind of evidence; its value is left out.                            *)
(***************************************************************************)
EXTENDS Naturals, FiniteSets

CONSTANTS CardDates,   \* [source -> kinds of date a complete card shows]
          DetailDates, \* [source -> kinds of date a detail page shows]
          Initial,     \* [date, state] of a row an earlier version left
          MaxCrashes   \* bound on the crashes of a process

Evidence == {"instant", "day", "relative", "bound"}
\* Dates that do not parse and are stored as exact: one shorter than a day, one
\* longer than an instant.
Malformed == {"truncated", "malformed"}
Sources == {"seek", "linkedin"}

ASSUME DatesAssumption ==
    /\ CardDates \in [Sources -> SUBSET Evidence]
    /\ \A s \in Sources : /\ "bound" \in CardDates[s]
                           /\ Cardinality(CardDates[s] \cap {"instant", "day"}) = 1
    /\ DetailDates \in [Sources -> SUBSET (Evidence \cup Malformed)]
    /\ DetailDates["seek"] \subseteq Evidence
    /\ Initial \subseteq [date : {"none", "legacy", "broken"},
                          state : {"missing", "unknown", "known", "not_present"}]
    /\ MaxCrashes \in Nat

VARIABLES source,    \* of the posting
          date,      \* of its row, "absent" without a row
          state,     \* of the field posted_at
          captures,  \* the evidence in its retained captures
          ingest,    \* the card being ingested
          facts,     \* [writer -> the facts being written]
          repair,    \* the recheck of its page
          attempt,   \* the outcome of its repair
          crashes,
          mishaps    \* history: what may leave the row without a date

vars == <<source, date, state, captures, ingest, facts, repair, attempt, crashes, mishaps>>

\* "legacy" is a date without a basis, "broken" one that does not parse.
Usable == Evidence \cup {"legacy"}
Dates == Usable \cup Malformed \cup {"absent", "none", "broken"}
Rows == [date : Dates, state : {"missing", "unknown", "known", "not_present"}]
Writers == {"jd", "repair"}

Cards == {shown \in SUBSET Evidence : "bound" \in shown}
Idle == [at |-> "idle"]
Ingests == {Idle, [at |-> "stored"]}
           \cup [at : {"read"}, card : Cards, row : Rows]
           \cup [at : {"checked"}, usable : BOOLEAN]
           \cup [at : {"merged"}, state : {"missing", "unknown", "known", "not_present"}]
Facts == {Idle} \cup [at : {"read"}, date : Evidence \cup Malformed, row : Rows]
Repairs == {Idle, [at |-> "fetch"]} \cup [at : {"found", "record"}, date : Evidence \cup {"none"}]

Row == [date |-> date, state |-> state]

TypeOK ==
    /\ source \in Sources
    /\ Row \in Rows
    /\ captures \subseteq Evidence
    /\ ingest \in Ingests
    /\ facts \in [Writers -> Facts]
    /\ repair \in Repairs
    /\ attempt \in {"none", "filled", "unavailable"}
    /\ crashes \in 0..MaxCrashes
    /\ mishaps \subseteq {"malformed", "unrecorded"}
    /\ date = "absent" => state = "missing" /\ captures = {} /\ repair = Idle
    /\ facts["repair"] # Idle => repair.at = "found" /\ repair.date # "none"

Init ==
    /\ source \in Sources
    /\ \E row \in Initial \cup {[date |-> "absent", state |-> "missing"]} :
           date = row.date /\ state = row.state
    /\ captures = {}
    /\ ingest = Idle
    /\ facts = [w \in Writers |-> Idle]
    /\ repair = Idle
    /\ attempt = "none"
    /\ crashes = 0
    /\ mishaps = {}

-----------------------------------------------------------------------------
(* Which evidence replaces which.                                          *)

Rank(d) == CASE d \in {"instant", "day"} \cup Malformed -> 3
             [] d = "relative" -> 2
             [] d = "bound" -> 1
             [] OTHER -> 0

\* A date of an earlier version counts as exact when it parses.  The ingestion
\* of a card takes the basis at its word, the facts of a detail page do not.
CardRank(row) == IF row.state = "not_present" THEN 0
                 ELSE IF row.date = "legacy" THEN 3 ELSE Rank(row.date)
\* Mistaken: a value without a basis is exact, whether it parses or not.
RankOfAny(row) == IF row.date = "broken" THEN 3 ELSE CardRank(row)
FactsRank(row) == IF row.date \in Malformed THEN 0 ELSE CardRank(row)

\* An exact date goes before a label, and a label before the searched window.
Normalized(shown) == CHOOSE d \in shown : \A e \in shown : Rank(e) <= Rank(d)

\* Of two exact dates the longer text is taken for the more precise one.
Length(d) == CASE d = "truncated" -> 1 [] d = "day" -> 2
               [] d = "instant" -> 3 [] d = "malformed" -> 4 [] OTHER -> 0
MorePrecise(d, row) == Rank(d) = 3 /\ Rank(row.date) = 3 /\ Length(d) > Length(row.date)

\* Mistaken: a date of the same rank is let in.
ReplacesEqual(d, row, rank) ==
    row.date \in {"absent", "none"} \/ Rank(d) >= rank \/ MorePrecise(d, row)

Replaces(d, row, rank) ==
    row.date \in {"absent", "none"} \/ Rank(d) > rank \/ MorePrecise(d, row)

\* init_db gives rows without a state one, from the value alone.
Healed == IF date = "absent" \/ state # "missing" THEN state
          ELSE IF date = "none" THEN "unknown" ELSE "known"

-----------------------------------------------------------------------------
(* Ingestion of a card: the row, then its field states.                    *)

\* Mistaken: only the value is looked at, not what its state says of it.
ChangedValue(d) ==
    date = "none" \/ Rank(d) > (IF date \in {"legacy", "broken"} THEN 3 ELSE Rank(date))

\* SEEK cards of known rows are ingested only when they bring something new.
KnownCardChanged(d) ==
    \/ state = "not_present"
    \/ date = "none"
    \/ Rank(d) > (IF date \in {"legacy", "broken"} THEN 3 ELSE Rank(date))

BeginIngest(shown) ==
    /\ ingest = Idle
    /\ state' = Healed
    /\ ingest' = [at |-> "read", card |-> shown, row |-> [date |-> date, state |-> Healed]]
    /\ UNCHANGED <<source, date, captures, facts, repair, attempt, crashes, mishaps>>

\* A complete card, which the gate may hold back.
Listed ==
    /\ \/ source = "linkedin" \/ date = "absent"
       \/ KnownCardChanged(Normalized(CardDates[source]))
    /\ BeginIngest(CardDates[source])

\* A card with less on it, or one that differs in another field.
Seen == \E shown \in Cards : shown \subseteq CardDates[source] /\ BeginIngest(shown)

StoreCard ==
    /\ ingest.at = "read"
    /\ LET d == Normalized(ingest.card)
       IN date' = IF Replaces(d, ingest.row, CardRank(ingest.row)) THEN d ELSE date
    /\ captures' = captures \cup ingest.card
    /\ ingest' = [at |-> "stored"]
    /\ UNCHANGED <<source, state, facts, repair, attempt, crashes, mishaps>>

ReadDate ==
    /\ ingest.at = "stored"
    /\ ingest' = [at |-> "checked", usable |-> date \in Usable]
    /\ UNCHANGED <<source, date, state, captures, facts, repair, attempt, crashes, mishaps>>

\* An unknown date keeps the state that is there, as read before the write.
ReadStates ==
    /\ ingest.at = "checked"
    /\ ingest' = [at |-> "merged",
                  state |-> IF ingest.usable THEN "known"
                            ELSE IF state = "missing" THEN "unknown" ELSE state]
    /\ UNCHANGED <<source, date, state, captures, facts, repair, attempt, crashes, mishaps>>

StoreStates ==
    /\ ingest.at = "merged"
    /\ state' = ingest.state
    /\ ingest' = Idle
    /\ UNCHANGED <<source, date, captures, facts, repair, attempt, crashes, mishaps>>

-----------------------------------------------------------------------------
(* Facts of a detail page, from a JD fetch or from the repair.             *)

ReadRow(w, d) ==
    /\ facts[w] = Idle
    /\ date # "absent"
    /\ state' = Healed
    /\ facts' = [facts EXCEPT ![w] =
                    [at |-> "read", date |-> d, row |-> [date |-> date, state |-> Healed]]]
    /\ UNCHANGED <<source, date, captures, ingest, repair, attempt, crashes, mishaps>>

FetchJD == \E d \in DetailDates[source] : ReadRow("jd", d)

\* Mistaken: the state of the field is left to others.
ValueOnly(f) ==
    /\ date' = IF Replaces(f.date, f.row, FactsRank(f.row)) THEN f.date ELSE date
    /\ UNCHANGED state

StoreFacts(f) ==
    IF Replaces(f.date, f.row, FactsRank(f.row))
    THEN date' = f.date /\ state' = "known"
    ELSE UNCHANGED <<date, state>>

UpdateSourceFacts(w) ==
    /\ facts[w].at = "read"
    /\ StoreFacts(facts[w])
    /\ facts' = [facts EXCEPT ![w] = Idle]
    /\ mishaps' = IF date' \in Malformed THEN mishaps \cup {"malformed"} ELSE mishaps
    /\ UNCHANGED <<source, captures, ingest, attempt, crashes>>

StoreJDFacts == UpdateSourceFacts("jd") /\ UNCHANGED repair

-----------------------------------------------------------------------------
(* Repair of a LinkedIn row without a usable date: one recheck of its page. *)

Stale == date \notin Usable \/ state = "not_present"

SelectForRepair ==
    /\ source = "linkedin" /\ date # "absent" /\ Stale
    /\ repair = Idle /\ attempt = "none"
    /\ repair' = [at |-> "fetch"]
    /\ UNCHANGED <<source, date, state, captures, ingest, facts, attempt, crashes, mishaps>>

\* The page shows an exact date, a relative label in its header, or neither.
RepairFetched ==
    /\ repair.at = "fetch"
    /\ \E d \in (DetailDates["linkedin"] \cap Evidence) \cup {"relative", "none"} :
           repair' = [at |-> "found", date |-> d]
    /\ UNCHANGED <<source, date, state, captures, ingest, facts, attempt, crashes, mishaps>>

RepairFetchFails ==
    /\ repair.at = "fetch"
    /\ repair' = Idle
    /\ UNCHANGED <<source, date, state, captures, ingest, facts, attempt, crashes, mishaps>>

\* Mistaken: a page without a date is not told apart.
RepairReadsAny == repair.at = "found" /\ ReadRow("repair", repair.date)

RepairReads == repair.at = "found" /\ repair.date # "none" /\ ReadRow("repair", repair.date)

RepairStores == UpdateSourceFacts("repair") /\ repair' = [repair EXCEPT !.at = "record"]

\* Without a date the old value is removed, whatever it is by now.
RepairClears ==
    /\ repair.at = "found" /\ repair.date = "none"
    /\ date' = "none" /\ state' = Healed
    /\ repair' = [repair EXCEPT !.at = "record"]
    /\ UNCHANGED <<source, captures, ingest, facts, attempt, crashes, mishaps>>

RepairRecords ==
    /\ repair.at = "record"
    /\ state' = IF repair.date = "none" THEN "unknown" ELSE "known"
    /\ captures' = captures \cup ({repair.date} \cap {"relative"})
    /\ attempt' = IF repair.date = "none" THEN "unavailable" ELSE "filled"
    /\ repair' = Idle
    /\ UNCHANGED <<source, date, ingest, facts, crashes, mishaps>>

-----------------------------------------------------------------------------
(* Backfill from retained captures, with every process stopped.            *)

\* What counts: SEEK windows do not, a LinkedIn window does when one run alone
\* can have taken the capture.
Counting == IF source = "seek" THEN {captures \ {"bound"}}
            ELSE {captures, captures \ {"bound"}}
Strongest(kinds) == {d \in kinds : \A e \in kinds : Rank(e) <= Rank(d)}

\* A stale row without evidence is cleared, on LinkedIn only by a backfill that
\* finds a date for another row.
Backfill ==
    /\ date # "absent" /\ Stale
    /\ ingest = Idle /\ repair = Idle /\ \A w \in Writers : facts[w] = Idle
    /\ \E kinds \in Counting :
           \/ date' \in Strongest(kinds) /\ state' = "known"
           \/ /\ kinds = {}
              /\ date # "none" \/ state = "not_present"
              /\ date' = "none" /\ state' = "unknown"
    /\ UNCHANGED <<source, captures, ingest, facts, repair, attempt, crashes, mishaps>>

PruneCaptures ==
    /\ captures # {}
    /\ captures' = {}
    /\ UNCHANGED <<source, date, state, ingest, facts, repair, attempt, crashes, mishaps>>

CollectorCrashes ==
    /\ ingest # Idle /\ crashes < MaxCrashes
    /\ ingest' = Idle
    /\ crashes' = crashes + 1
    /\ UNCHANGED <<source, date, state, captures, facts, repair, attempt, mishaps>>

RepairCrashes ==
    /\ repair # Idle /\ crashes < MaxCrashes
    /\ repair' = Idle
    /\ facts' = [facts EXCEPT !["repair"] = Idle]
    /\ crashes' = crashes + 1
    /\ mishaps' = IF repair.at = "record" /\ repair.date = "none"
                  THEN mishaps \cup {"unrecorded"} ELSE mishaps
    /\ UNCHANGED <<source, date, state, captures, ingest, attempt>>

Next ==
    \/ Listed \/ Seen \/ StoreCard \/ ReadDate \/ ReadStates \/ StoreStates
    \/ FetchJD \/ StoreJDFacts
    \/ SelectForRepair \/ RepairFetched \/ RepairFetchFails
    \/ RepairReads \/ RepairStores \/ RepairClears \/ RepairRecords
    \/ Backfill \/ PruneCaptures
    \/ CollectorCrashes \/ RepairCrashes

Spec == Init /\ [][Next]_vars

\* A process that has begun goes on, and a posting that stays on the listing
\* is scanned again and again.
Fairness ==
    /\ WF_vars(StoreCard) /\ WF_vars(ReadDate) /\ WF_vars(ReadStates)
    /\ WF_vars(StoreStates)
    /\ WF_vars(StoreJDFacts)
    /\ WF_vars(RepairFetched \/ RepairFetchFails)
    /\ WF_vars(RepairReads) /\ WF_vars(RepairStores)
    /\ WF_vars(RepairClears) /\ WF_vars(RepairRecords)
    /\ SF_vars(Listed)

FairSpec == Spec /\ Fairness

-----------------------------------------------------------------------------
(* Properties                                                              *)

\* How far a stored date is trusted.
TrustOf(row) == IF row.state = "not_present" \/ row.date \notin Usable THEN 0
                ELSE IF row.date = "instant" THEN 4
                ELSE IF row.date = "legacy" THEN 3 ELSE Rank(row.date)
Trust == TrustOf(Row)

\* This step writes what was decided on a row that has changed since; what it
\* leaves is no worse than what the writer had read.
Overtaken ==
    \/ StoreCard /\ ingest.row # Row /\ Trust' >= TrustOf(ingest.row)
    \/ \E w \in Writers : /\ UpdateSourceFacts(w)
                          /\ facts[w].row # Row /\ Trust' >= TrustOf(facts[w].row)

\* What only a LinkedIn row meets: a repair whose page shows no date, a page
\* whose date does not parse, and a card that writes back an old state.
LinkedInLoss ==
    /\ source = "linkedin"
    /\ \/ RepairClears
       \/ StoreJDFacts /\ facts["jd"].date \in Malformed
       \/ StoreStates /\ ingest.state = "not_present"

\* Evidence is never replaced by weaker or coarser evidence, except by a write
\* decided on a row that changed in between, which leaves at least what it was
\* decided on, and on LinkedIn in three ways more (ingest_card,
\* update_job_source_facts, set_job_field_states, the backfills).
EvidenceNeverDegrades == [][Trust' >= Trust \/ Overtaken \/ LinkedInLoss]_vars

\* A SEEK row with evidence is found by a search for recent postings as soon as
\* no card of it is being stored, unless the collector crashed on its way.
SeekDatesAreFound ==
    source = "seek" /\ crashes = 0 /\ date \in Evidence /\ ingest = Idle => state = "known"

\* A repair recorded as filled has left a usable date that a search finds, and
\* nothing that is done later takes it away: the page is never asked again.
\* Exempt are rows that were given a date that does not parse, and those whose
\* date a repair cleared without recording it.
FilledIsFound ==
    attempt = "filled" /\ mishaps = {} => date \in Usable /\ state = "known"

\* A posting that stays listed with an exact date ends with one that a search
\* finds, whatever an earlier version, a repair or a race left on its row, if
\* its detail page gives none that does not parse.  A SEEK date of an earlier
\* version that does not parse waits for its detail page or the backfill: the
\* test for changed cards takes it for an exact one (_known_seek_card_changed).
EvidenceArrives ==
    [](crashes = 0 /\ mishaps = {}) => <>[](\/ (Trust >= 3 /\ state = "known")
                                           \/ (source = "seek" /\ date = "broken"))

\* A row at rest is unknown only when it has no usable date (docs/DECISIONS.md:
\* "Unknown is used only when no usable evidence exists").  A crash after the
\* row of a card was stored and before its states breaks it for good on SEEK,
\* where the card no longer counts as changed; so does a repair that records
\* its failure after another writer found a date.
UnknownMeansNoEvidence ==
    ingest = Idle /\ repair = Idle /\ state = "unknown" => date \notin Usable

=============================================================================
