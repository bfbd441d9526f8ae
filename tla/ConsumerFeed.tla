---------------------------- MODULE ConsumerFeed ----------------------------
(***************************************************************************)
(* The incremental feed of one named consumer over the vacancy store: a    *)
(* run captures a high-water id with its first page, reads pages of active *)
(* primary rows above the saved checkpoint, processes them, and posts the  *)
(* page's cursor as the new checkpoint.  Rows are collected, merged,       *)
(* promoted and removed all the while.                                     *)
(*                                                                         *)
(* Every HTTP request of the API is served in a thread of its own, and     *)
(* each of its reads and writes uses the database by itself: the saved     *)
(* checkpoint, the high-water id, the page, the checkpoint to compare with *)
(* and its update are separate steps.  Clients are runs made with the same *)
(* consumer key: every page of each starts at the checkpoint they share.   *)
(***************************************************************************)
EXTENDS VacancyStore

CONSTANTS
    Clients,    \* runs of one consumer that may overlap
    PageLimit   \* rows of a feed page

ASSUME FeedConstants == PageLimit \in Nat \ {0}

VARIABLES
    checkpoint, \* consumer_checkpoints.last_job_id, 0 when there is no row
    client,     \* the run of each client
    fed,        \* history: identities handed to the consumer, by any run
    owed,       \* history: the rows the consumer must not miss
    steady      \* history: those a run was started with, per client

feedVars == <<checkpoint, client, fed, owed, steady>>
allVars  == <<vars, feedVars>>

NoRun == [step |-> "idle", through |-> 0, cursor |-> 0, more |-> FALSE]

-----------------------------------------------------------------------------

\* _vacancy_active_clause: some posting of the vacancy is active.
VacancyActive(i) == \E j \in Family(i) : Active(j)

\* What job_feed may return.
FeedRow(i) == i \in Live /\ primary[i] = 0 /\ VacancyActive(i)

MaxLive == CHOOSE m \in Ids \cup {0} :
              /\ m \in Live \cup {0}
              /\ \A i \in Live : i <= m

Above(after, through) == {i \in Ids : FeedRow(i) /\ after < i /\ i <= through}

\* ORDER BY id LIMIT n: the rows with fewer than n rows before them.  Mistaken:
\* the newest n rows.
NewestPage(after, through) ==
    LET rows == Above(after, through)
    IN  {i \in rows : Cardinality({j \in rows : j > i}) < PageLimit}
Page(after, through) ==
    LET rows == Above(after, through)
    IN  {i \in rows : Cardinality({j \in rows : j < i}) < PageLimit}

\* The last row of a page, or the cursor it was asked with.  Mistaken: the
\* high-water id.
HighWater(page, after, through) == through
NextCursor(page, after, through) ==
    IF page = {} THEN after ELSE CHOOSE i \in page : \A j \in page : j <= i

-----------------------------------------------------------------------------

FeedTypeOK ==
    /\ checkpoint \in 0..MaxId
    /\ client \in [Clients -> [step : {"idle", "mark", "read", "post", "write", "ask"},
                               through : 0..MaxId, cursor : 0..MaxId,
                               more : BOOLEAN]]
    /\ fed \subseteq Postings
    /\ owed \subseteq Ids
    /\ steady \in [Clients -> SUBSET Ids]

FeedInit ==
    /\ Init
    /\ checkpoint = 0
    /\ client = [c \in Clients |-> NoRun]
    /\ fed = {}
    /\ owed = {}
    /\ steady = [c \in Clients |-> {}]

\* Ahead of the checkpoint and of every page in progress.
Ahead(i) ==
    /\ checkpoint < i
    /\ \A c \in Clients : client[c].cursor < i

\* A row is owed once it is in the feed ahead of all of them, for as long as it
\* stays in the feed.
Owe == owed' = {i \in Ids : /\ FeedRow(i)'
                            /\ \/ i \in owed /\ posting'[i] = posting[i]
                               \/ Ahead(i)'}

\* The store changes.  A JD never decides what the feed shows, so StoreJD is
\* left to VacancyStore.
StoreStep ==
    /\ \/ \E p \in Postings : IngestInsert(p)
       \/ \E i \in Ids : IngestUpdate(i) \/ TouchKnown(i) \/ RetireTerminal(i)
                         \/ SetSourceStatus(i)
       \/ IngestLink \/ IngestEnqueue \/ IngestAbort \/ Retention
    /\ UNCHANGED <<checkpoint, client, fed>>
    /\ Owe
    /\ steady' = [c \in Clients |->
                    {i \in steady[c] : i \in owed' /\ posting'[i] = posting[i]}]

\* The first request of a run reads the saved checkpoint,
BeginRun(c) ==
    /\ client[c].step = "idle"
    /\ client' = [client EXCEPT ![c] = [NoRun EXCEPT !.step = "mark",
                                                     !.cursor = checkpoint]]
    /\ UNCHANGED <<vars, checkpoint, fed, steady>>

\* and then, as it was given none, the high-water id.
CaptureHighWater(c) ==
    /\ client[c].step = "mark"
    /\ client' = [client EXCEPT ![c].step = "read", ![c].through = MaxLive]
    /\ steady' = [steady EXCEPT ![c] = {i \in owed : i <= MaxLive}]
    /\ UNCHANGED <<vars, checkpoint, fed>>

\* A later request starts at what is the saved checkpoint by then.
AskAgain(c) ==
    /\ client[c].step = "ask"
    /\ client' = [client EXCEPT ![c].step = "read", ![c].cursor = checkpoint]
    /\ UNCHANGED <<vars, checkpoint, fed, steady>>

\* The page is read and its items are processed.
ReadPage(c) ==
    /\ client[c].step = "read"
    /\ LET run == client[c]
           page == Page(run.cursor, run.through)
       IN  /\ fed' = fed \cup {posting[i] : i \in page}
           /\ client' = [client EXCEPT ![c] =
                [run EXCEPT !.step = "post",
                            !.cursor = NextCursor(page, run.cursor, run.through),
                            !.more = page # Above(run.cursor, run.through)]]
    /\ UNCHANGED <<vars, checkpoint, steady>>

\* advance_checkpoint first reads the current checkpoint and refuses an older
\* one (the run then ends in an error).
NotBackwards(run) == run.cursor >= checkpoint
PostCheckpoint(c) ==
    /\ client[c].step = "post"
    /\ client' = [client EXCEPT ![c] =
                    IF NotBackwards(client[c])
                    THEN [client[c] EXCEPT !.step = "write"] ELSE NoRun]
    /\ UNCHANGED <<vars, checkpoint, fed, steady>>

\* Then it writes; the run goes on when there was more than the page.
WriteCheckpoint(c) ==
    /\ client[c].step = "write"
    /\ checkpoint' = client[c].cursor
    /\ client' = [client EXCEPT ![c] =
                    IF client[c].more
                    THEN [NoRun EXCEPT !.step = "ask", !.through = client[c].through]
                    ELSE NoRun]
    /\ UNCHANGED <<vars, fed, steady>>

\* The consumer fails, or a request of it does; the checkpoint stays.
RunFails(c) ==
    /\ client[c].step # "idle"
    /\ client' = [client EXCEPT ![c] = NoRun]
    /\ UNCHANGED <<vars, checkpoint, fed, steady>>

RunStep(c) ==
    /\ \/ BeginRun(c) \/ CaptureHighWater(c) \/ AskAgain(c) \/ ReadPage(c)
       \/ PostCheckpoint(c) \/ WriteCheckpoint(c) \/ RunFails(c)
    /\ Owe

FeedNext == StoreStep \/ \E c \in Clients : RunStep(c)

FeedSpec == FeedInit /\ [][FeedNext]_allVars

-----------------------------------------------------------------------------
(* Properties. *)

\* The checkpoint passes only what was handed over: a row that came into the
\* feed ahead of the checkpoint and of every page in progress, and stayed in it,
\* was fed by one of the runs before the checkpoint reaches it, whatever is
\* inserted, merged, promoted or removed, however runs of the consumer overlap,
\* and although the check and the write of a checkpoint are two steps.
CheckpointPassesOnlyFed ==
    \A i \in owed : i <= checkpoint => posting[i] \in fed

\* A run that ends by itself leaves nothing of its snapshot: whatever was owed
\* below its high-water id when it took it, and stayed in the feed, was fed by
\* this run or by one that moved the checkpoint in between.
RunCoversSnapshot ==
    [][\A c \in Clients : WriteCheckpoint(c) /\ ~client[c].more =>
          \A i \in steady[c] : posting[i] \in fed]_allVars

\* "checkpoint cannot move backwards", as advance_checkpoint says.
CheckpointNeverMovesBack == [][checkpoint' >= checkpoint]_allVars

\* What CONSUMER_CONTRACT.md says of rows created after a run's boundary ("wait
\* for the next run"): a new row is beyond the checkpoint, where the next run
\* will read it.
NewJobsAreAhead ==
    [][\A i \in Ids : posting[i] = None /\ posting'[i] # None => i > checkpoint']_allVars

\* What CONSUMER_CONTRACT.md says a checkpoint answers ("how far has this
\* workflow safely processed the shared feed"): a primary that comes back into
\* the feed behind the checkpoint was fed before.
ReturningJobsWereFed ==
    [][\A i \in Ids :
          /\ i \in Live /\ posting'[i] = posting[i] /\ i <= checkpoint
          /\ primary[i] = 0 /\ primary'[i] = 0 /\ ~FeedRow(i) /\ FeedRow(i)'
          => posting[i] \in fed]_allVars
=============================================================================
