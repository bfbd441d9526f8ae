------------------------- MODULE MCLinkedInCampaign -------------------------
(* Two geographies and two pages below the cap: one geography can end       *)
(* while the other goes on, and reach the cap while the other completes.    *)
EXTENDS LinkedInCampaign

TwoGeographies == {1, 2}

\* Both can be exhausted; or one lists more than the cap lets a cycle see.
MCListings == LET tail(n) == [full |-> n, tail |-> TRUE]
                  beyond == [full |-> Cap + 1, tail |-> FALSE]
              IN  {<<tail(1), tail(0)>>, <<beyond, tail(1)>>}
=============================================================================
