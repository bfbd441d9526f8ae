--------------------------- MODULE LinkedInPaging ---------------------------
(***************************************************************************)
(* What a LinkedIn cycle promises of every geography: its pages are stored *)
(* from the first one on, in order and without a gap, the cursor passes a  *)
(* page only when it is stored, and nothing moves once the geography is    *)
(* done.  A new cycle starts every geography at its first page.            *)
(***************************************************************************)
EXTENDS Naturals

CONSTANTS Geographies, Cap

VARIABLES
    stored,    \* geography -> pages whose rows are stored in this cycle
    next,      \* geography -> page its cursor stands at
    done       \* the geographies that are not paged any further

vars == <<stored, next, done>>

Init ==
    /\ stored = [g \in Geographies |-> {}]
    /\ next = [g \in Geographies |-> 0]
    /\ done = {}

NewCycle ==
    /\ stored' = [g \in Geographies |-> {}]
    /\ next' = [g \in Geographies |-> 0]
    /\ done' = {}

\* The page at the cursor is stored; again, when the cursor was not saved.
Store(g) ==
    /\ g \notin done
    /\ stored' = [stored EXCEPT ![g] = @ \cup {next[g]}]
    /\ UNCHANGED <<next, done>>

Advance(g) ==
    /\ g \notin done
    /\ next[g] \in stored[g]
    /\ next' = [next EXCEPT ![g] = @ + 1]
    /\ done' \in {done, done \cup {g}}
    /\ (next[g] + 1 = Cap) => (g \in done')
    /\ UNCHANGED stored

Next == NewCycle \/ \E g \in Geographies : Store(g) \/ Advance(g)

Spec == Init /\ [][Next]_vars
=============================================================================
