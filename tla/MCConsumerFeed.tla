--------------------------- MODULE MCConsumerFeed ---------------------------
(* Instances of ConsumerFeed. *)
EXTENDS ConsumerFeed, TLC

Symmetry == Permutations(Postings) \cup Permutations(Clients)

\* The snapshot of a run that has taken its high-water id.
Snapshot(c) == IF client[c].step \in {"idle", "mark"} THEN {} ELSE steady[c]

\* The link audit, the queue, the registry, the tombstones and the history
\* observed: no guard of a step of the feed reads them and no property of it is
\* about them.  No step here writes a JD, and a new run replaces its snapshot.
FeedView == <<posting, primary, terminal, archived, ingest, checkpoint, client,
              fed, owed, [c \in Clients |-> Snapshot(c)]>>
=============================================================================
