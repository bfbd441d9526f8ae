--------------------------- MODULE MCJDEnrichment ---------------------------
(* JDEnrichment for TLC: identities are interchangeable. *)
EXTENDS JDEnrichment, TLC

Symmetry == Permutations(Postings)

\* The tombstones, the registry and the history observed: no guard reads them
\* and no property of the call is about them, so states that differ only there
\* have the same behaviours of everything else.
CallView == <<rowVars, ingest, call>>
=============================================================================
