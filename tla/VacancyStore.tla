---------------------------- MODULE VacancyStore ----------------------------
(***************************************************************************)
(* The SQLite vacancy store of Job Market Map: source postings (rows of    *)
(* jobs), the same-vacancy families they form through primary_job_id, the  *)
(* canonical job description (JD) of a family, the JD queue, the permanent *)
(* JD fetch registry and the tombstones of removed rows.                   *)
(*                                                                         *)
(* One action is one committed transaction.  ingest_card runs as three of  *)
(* them (row, family link, queue row), and the collector process may stop  *)
(* between any two; every other operation belongs to any of the processes  *)
(* that write the database (collector, API, maintenance scripts) and may   *)
(* be committed between the steps of an ingest.                            *)
(*                                                                         *)
(* Row contents are reduced to what decides a branch: whether the source   *)
(* status is terminal, whether the row is archived, and which posting's    *)
(* page the stored JD text was read from.                                  *)
(***************************************************************************)
EXTENDS Naturals, FiniteSets

CONSTANTS
    Postings,   \* stable source identities (identity_key)
    MaxId,      \* bound on the row ids SQLite hands out
    None        \* SQL NULL where a posting could stand

ASSUME StoreConstants == MaxId \in Nat /\ None \notin Postings

Ids == 1..MaxId

VARIABLES
    posting,    \* jobs: the identity a row holds, None where there is no row
    primary,    \* jobs.primary_job_id, 0 for NULL
    links,      \* same_vacancy_links.primary_job_id per job_id, 0 for no link row
    terminal,   \* is jobs.source_status one of TERMINAL_SOURCE_STATUSES
    archived,   \* job_observation_state.archived
    jd,         \* jobs.full_description: the posting it was fetched from, or None
    queued,     \* job_ids of jd_enrichment_queue
    tomb,       \* identities of job_tombstones
    registry,   \* identities of jd_fetch_registry
    observed,   \* history: every identity ever ingested
    ingest      \* the ingest_card call in progress

rowVars  == <<posting, primary, links, terminal, archived, jd, queued>>
memory   == <<tomb, registry, observed>>
vars     == <<posting, primary, links, terminal, archived, jd, queued,
              tomb, registry, observed, ingest>>

Idle == [step |-> "idle", job |-> 0, fresh |-> FALSE]

-----------------------------------------------------------------------------
(* What the queries read. *)

Live == {i \in Ids : posting[i] # None}

LivePostings == {posting[i] : i \in Live}

\* COALESCE(primary_job_id, id); the chain walk of resolve_primary_job_id
\* stops there too as long as families are flat (FlatFamilies).
Root(i) == IF primary[i] = 0 THEN i ELSE primary[i]

Family(r) == {j \in Live : j = r \/ primary[j] = r}

Active(i) == posting[i] # None /\ ~archived[i] /\ ~terminal[i]

\* SQLite reuses the id after the largest one in use (no AUTOINCREMENT).
IsNextId(i) == /\ \A j \in Live : j < i
               /\ i = 1 \/ i - 1 \in Live

\* The identity a fetch is registered under.  A mistaken variant confuses the
\* row id with the identity, another takes the row that was fetched.
RowId(c) == Root(c)
OwnIdentity(c) == posting[c]
Canonical(c) == posting[Root(c)]

-----------------------------------------------------------------------------

TypeOK ==
    /\ posting \in [Ids -> Postings \cup {None}]
    /\ primary \in [Ids -> 0..MaxId]
    /\ links \in [Ids -> 0..MaxId]
    /\ terminal \in [Ids -> BOOLEAN]
    /\ archived \in [Ids -> BOOLEAN]
    /\ jd \in [Ids -> Postings \cup {None}]
    /\ queued \subseteq Ids
    /\ tomb \subseteq Postings
    /\ registry \subseteq Postings
    /\ observed \subseteq Postings
    /\ ingest \in [step : {"idle", "link", "enqueue"}, job : 0..MaxId,
                   fresh : BOOLEAN]

Init ==
    /\ posting = [i \in Ids |-> None]
    /\ primary = [i \in Ids |-> 0]
    /\ links = [i \in Ids |-> 0]
    /\ terminal = [i \in Ids |-> FALSE]
    /\ archived = [i \in Ids |-> FALSE]
    /\ jd = [i \in Ids |-> None]
    /\ queued = {}
    /\ tomb = {}
    /\ registry = {}
    /\ observed = {}
    /\ ingest = Idle

-----------------------------------------------------------------------------
(* ingest_card: three transactions. *)

\* A posting without a row: INSERT, taking identity and first_seen_at from its
\* tombstone if it has one (and deleting that tombstone).
IngestInsert(p) ==
    /\ ingest = Idle
    /\ p \notin LivePostings
    /\ \E i \in Ids :
        /\ IsNextId(i)
        /\ posting' = [posting EXCEPT ![i] = p]
        /\ ingest' = [step |-> "link", job |-> i, fresh |-> TRUE]
    /\ tomb' = tomb \ {p}
    /\ observed' = observed \cup {p}
    /\ UNCHANGED <<primary, links, terminal, archived, jd, queued, registry>>

\* A posting that has a row: refreshed fields, last_seen_at, archived = 0.
IngestUpdate(i) ==
    /\ ingest = Idle
    /\ i \in Live
    /\ archived' = [archived EXCEPT ![i] = FALSE]
    /\ ingest' = [step |-> "link", job |-> i, fresh |-> FALSE]
    /\ UNCHANGED <<posting, primary, links, terminal, jd, queued, memory>>

\* The rows that move with a merge: the roots and every member of them.
\* Mistaken: leaving the other members where they were.
Alone(roots) == Live \cap roots
Members(roots) == {j \in Live : j \in roots \/ primary[j] \in roots}

\* The members of both families, and the rows compared, go to the older root.
Merge(i, c) ==
    LET roots == {Root(i), Root(c), i, c}
        oldest == IF Root(i) <= Root(c) THEN Root(i) ELSE Root(c)
        moved == Members(roots) \ {oldest}
    IN  /\ primary' = [j \in Ids |-> IF j \in moved THEN oldest ELSE primary[j]]
        /\ links' = [j \in Ids |-> IF j \in moved THEN oldest ELSE links[j]]

AfterLink == IF ingest.fresh THEN [ingest EXCEPT !.step = "enqueue"] ELSE Idle

\* refresh_duplicate_links: no confirmed match keeps the posting as it is, a
\* confirmed one merges the two families.  Which card texts match is data.
IngestLink ==
    /\ ingest.step = "link"
    /\ ingest.job \in Live
    /\ \/ UNCHANGED <<primary, links>>
       \/ \E c \in Live \ {ingest.job} : Merge(ingest.job, c)
    /\ ingest' = AfterLink
    /\ UNCHANGED <<posting, terminal, archived, jd, queued, memory>>

\* Only a row this call inserted is queued, and only if the JD is missing.
IngestEnqueue ==
    /\ ingest.step = "enqueue"
    /\ ingest.job \in Live
    /\ queued' = IF jd[Root(ingest.job)] = None
                 THEN queued \cup {ingest.job} ELSE queued
    /\ ingest' = Idle
    /\ UNCHANGED <<posting, primary, links, terminal, archived, jd, memory>>

\* The process stops, or the row was retired by another process and the next
\* transaction raises: what was committed stays, the rest never happens.
IngestAbort ==
    /\ ingest # Idle
    /\ ingest' = Idle
    /\ UNCHANGED <<rowVars, memory>>

\* A SEEK card that changes nothing only refreshes the observation row.
TouchKnown(i) ==
    /\ ingest = Idle
    /\ i \in Live
    /\ archived' = [archived EXCEPT ![i] = FALSE]
    /\ UNCHANGED <<posting, primary, links, terminal, jd, queued, memory, ingest>>

-----------------------------------------------------------------------------
(* Removal. *)

Without(f, R, null) == [i \in Ids |-> IF i \in R THEN null ELSE f[i]]

\* jobs.primary_job_id ... ON DELETE SET NULL.
NullPointers(pointers, R) ==
    [i \in Ids |-> IF i \in R \/ pointers[i] \in R THEN 0 ELSE pointers[i]]

\* Both columns of same_vacancy_links are ON DELETE CASCADE.  Mistaken: only
\* the removed row's own link goes.
OwnLinks(audit, R) == Without(audit, R, 0)
CascadeLinks(audit, R) ==
    [i \in Ids |-> IF i \in R \/ audit[i] \in R THEN 0 ELSE audit[i]]

\* One tombstone per removed row.  Mistaken: per removed vacancy.
VacancyTombstones(R) == {posting[i] : i \in {j \in R : primary[j] = 0}}
Tombstones(R) == {posting[i] : i \in R}

\* DELETE FROM jobs of the rows R, given what the transaction has written so
\* far: foreign keys null the pointers to a removed row and cascade to its
\* link, observation and queue rows.  A tombstone keeps each identity.
Delete(R, pointers, audit, texts, stale) ==
    /\ posting' = Without(posting, R, None)
    /\ terminal' = Without(terminal, R, FALSE)
    /\ archived' = Without(stale, R, FALSE)
    /\ jd' = Without(texts, R, None)
    /\ primary' = NullPointers(pointers, R)
    /\ links' = CascadeLinks(audit, R)
    /\ queued' = queued \ R
    /\ tomb' = tomb \cup Tombstones(R)

Heirs(i) == {j \in Live : primary[j] = i /\ Active(j)}

\* _transfer_primary_jd moves the JD of i to r.  Mistaken: only to replace one.
Replaces(i, r) == jd[i] # None /\ jd[r] # None
Inherits(i, r) == jd[i] # None /\ jd[r] = None

\* The members of i follow r, which becomes a root.
Repoint(f, i, r) ==
    [j \in Ids |-> IF j = r THEN 0 ELSE IF f[j] = i THEN r ELSE f[j]]

\* A retired root hands its family, and its JD, to an active member.
Promote(i, r) ==
    /\ Delete({i}, Repoint(primary, i, r), Repoint(links, i, r),
              IF Inherits(i, r) THEN [jd EXCEPT ![r] = jd[i]] ELSE jd, archived)
    /\ registry' = IF Inherits(i, r) THEN registry \cup {posting[r]} ELSE registry

\* retire_terminal_source_job: the posting is known, or was just found, closed.
\* The freshest active member takes over; which one that is is data.
RetireTerminal(i) ==
    /\ i \in Live
    /\ \/ primary[i] = 0 /\ \E r \in Heirs(i) : Promote(i, r)
       \/ /\ primary[i] # 0 \/ Heirs(i) = {}
          /\ Delete({i}, primary, links, jd, archived)
          /\ UNCHANGED registry
    /\ UNCHANGED <<observed, ingest>>

\* The rows apply_retention may remove once those in A are archived.  Mistaken:
\* without looking at the aliases.
ArchivedRow(A, i) == i \in Live /\ (archived[i] \/ i \in A)
Removable(A, i) ==
    /\ i \in Live
    /\ archived[i] \/ i \in A
    /\ \A j \in Live : primary[j] = i => archived[j] \/ j \in A

\* apply_retention: archive the rows not seen for long, then remove archived
\* ones no unarchived alias depends on.  How old a row is is data.
Retention ==
    \E A \in SUBSET {i \in Live : ~archived[i]} :
    \E R \in SUBSET {i \in Live : Removable(A, i)} :
        /\ Delete(R, primary, links, jd, [i \in Ids |-> archived[i] \/ i \in A])
        /\ UNCHANGED <<registry, observed, ingest>>

-----------------------------------------------------------------------------
(* Source detail. *)

\* update_job_source_facts: explicit source evidence refreshes source_status.
SetSourceStatus(i) ==
    /\ i \in Live
    /\ terminal' = [terminal EXCEPT ![i] = ~terminal[i]]
    /\ UNCHANGED <<posting, primary, links, archived, jd, queued, memory, ingest>>

\* What root r holds after text of p was fetched.  Mistaken: the latest wins.
Latest(r, p) == p
Written(r, p) == IF jd[r] = None THEN p ELSE jd[r]

\* The row that gets the JD of c.  Mistaken: the row that was fetched.
FetchedRow(c) == c
Target(c) == Root(c)

\* store_job_jd_once(c) with text read from the page of p: written to the root
\* unless it has a JD; either way the fetch is registered and the queue rows of
\* the family go.
StoreText(c, p) ==
    /\ c \in Live
    /\ jd' = [jd EXCEPT ![Target(c)] = Written(Target(c), p)]
    /\ registry' = registry \cup {Canonical(c)}
    /\ queued' = queued \ Family(Root(c))
    /\ UNCHANGED <<posting, primary, links, terminal, archived, tomb, observed,
                   ingest>>

\* The page is that of the row the text is stored for.
StoreJD(c) == StoreText(c, posting[c])

-----------------------------------------------------------------------------

Next ==
    \/ \E p \in Postings : IngestInsert(p)
    \/ \E i \in Ids : IngestUpdate(i)
    \/ IngestLink
    \/ IngestEnqueue
    \/ IngestAbort
    \/ \E i \in Ids : TouchKnown(i)
    \/ \E i \in Ids : RetireTerminal(i)
    \/ Retention
    \/ \E i \in Ids : SetSourceStatus(i)
    \/ \E c \in Ids : StoreJD(c)

Spec == Init /\ [][Next]_vars

-----------------------------------------------------------------------------
(* Properties. *)

\* Families stay one level deep: an alias points at an existing row that is
\* itself a root.  The queue, feed and lifecycle queries follow primary_job_id
\* one step only, so a deeper chain would make them disagree with
\* resolve_primary_job_id.  Merging, promotion and removal all rewrite pointers.
FlatFamilies ==
    \A i \in Ids : primary[i] # 0 =>
        /\ posting[i] # None
        /\ primary[i] \in Live
        /\ primary[primary[i]] = 0

\* The audit table same_vacancy_links records exactly the current grouping,
\* although merging, promotion and foreign-key cascades maintain it separately
\* from jobs.primary_job_id.
AuditMatchesGrouping == links = primary

\* An identity that was ever ingested is held by exactly one of a live row and
\* a tombstone, and by one row at most: removal never forgets it (it would come
\* back as falsely new) and rediscovery never leaves both records behind.
IdentityRecordedOnce ==
    /\ \A p \in observed : p \in LivePostings <=> p \notin tomb
    /\ LivePostings \subseteq observed
    /\ \A i, j \in Live : posting[i] = posting[j] => i = j

\* A stored JD came from a fetch the permanent registry knows for that row's
\* identity, also after a JD moved to the promoted heir of a retired root.
StoredJDIsRegistered ==
    \A i \in Live : jd[i] # None => posting[i] \in registry

\* A JD is written once: while a row lives, no second fetch, promotion or
\* merge replaces the text it holds.
JDWriteOnce ==
    [][\A i \in Ids : posting[i] # None /\ posting'[i] = posting[i] /\ jd[i] # None
            => jd'[i] = jd[i]]_vars

\* Removing a root never costs its active aliases the canonical JD.
RetirementKeepsJD ==
    [][\A i \in Live : posting'[i] = None /\ jd[i] # None =>
          \A j \in Family(i) \ {i} : Active(j) /\ Active(j)' => jd'[Root(j)'] # None]_vars

\* Two active postings of one vacancy are never split into two vacancies by a
\* step that rewrites pointers: the removal of the row that held them together,
\* the promotion of another, or a merge with a third.
ActiveFamilyStaysTogether ==
    [][primary' # primary => \A i, j \in {k \in Live : Active(k) /\ Active(k)'} :
          Root(i) = Root(j) => Root(i)' = Root(j)']_vars

\* What CONSUMER_CONTRACT.md promises of a vacancy with a JD ("returns an
\* existing canonical JD without refetching"): an active posting whose vacancy
\* has its JD never again belongs to a vacancy without one.
CanonicalJDIsKept ==
    [][\A i \in Ids : Active(i) /\ jd[Root(i)] # None /\ Active(i)'
            => jd'[Root(i)'] # None]_vars

\* What SOURCES.md says of the permanent fetch marker ("prevents normal future
\* refetches after a successful detail capture"): ingest never queues a posting
\* whose canonical identity has a registered fetch, the test that
\* job_jd_fetch_completed makes.
RegisteredIsNotRequeued ==
    [][\A i \in queued' \ queued : posting[Root(i)] \notin registry]_vars

\* What SOURCES.md says of a vacancy without the marker ("its job page is opened
\* once"): between two ingests an active posting of a vacancy that has neither
\* JD nor registered fetch has a queue row in its family.
MissingJDIsQueued ==
    ingest = Idle =>
        \A i \in Live : Active(i) /\ jd[Root(i)] = None /\ Canonical(i) \notin registry
            => Family(Root(i)) \cap queued # {}
=============================================================================
