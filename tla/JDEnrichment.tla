---------------------------- MODULE JDEnrichment ----------------------------
(***************************************************************************)
(* One call of get_or_enrich_job_jd among everything else that happens to  *)
(* the vacancy store.  _ENRICH_LOCK serialises the calls of one process    *)
(* only: the collector's JD batch and the API (POST /jobs/{id}/jd) run     *)
(* theirs at the same time, and to a call in one of them the other process *)
(* is an environment that commits any step of VacancyStore between any two *)
(* of its own.                                                             *)
(*                                                                         *)
(* Every use of the database inside the call is a step; the fetch of a     *)
(* page lies between two of them and may take as long as it likes.         *)
(***************************************************************************)
EXTENDS VacancyStore

VARIABLE call   \* the call in progress

enrichVars == <<vars, call>>

NoCall == [step |-> "idle", job |-> 0, asked |-> None, root |-> 0, first |-> 0,
           todo |-> {}, cands |-> {}, failed |-> FALSE, all |-> FALSE,
           alone |-> TRUE, moved |-> FALSE]

-----------------------------------------------------------------------------

CallTypeOK ==
    /\ TypeOK
    /\ call.step \in {"idle", "list", "clean", "survive", "select", "try", "facts",
                      "store"}
    /\ call.job \in 0..MaxId /\ call.root \in 0..MaxId /\ call.first \in 0..MaxId
    /\ call.asked \in Postings \cup {None}
    /\ call.todo \subseteq Ids
    /\ call.step = "clean" => call.todo # {}
    /\ call.cands \subseteq Ids \X Postings
    /\ call.step \in {"try", "facts", "store"} => call.cands # {}
    /\ call.failed \in BOOLEAN /\ call.all \in BOOLEAN
    /\ call.alone \in BOOLEAN /\ call.moved \in BOOLEAN

EnrichInit == Init /\ call = NoCall

-----------------------------------------------------------------------------
(* The call. *)

\* get_primary_job_id; a job without a row is a KeyError.
Begin(i) ==
    /\ call.step = "idle"
    /\ i \in Live
    /\ call' = [NoCall EXCEPT !.step = "list", !.job = i, !.asked = posting[i],
                              !.root = Root(i)]
    /\ UNCHANGED vars

\* The rows retire_known_terminal_family will remove.
KnownTerminal(r) == {j \in Family(r) : terminal[j]}

ListFamily ==
    /\ call.step = "list"
    /\ call.root \in Live
    /\ LET r == Root(call.root)
           T == KnownTerminal(r)
       IN  call' = [call EXCEPT !.root = r, !.first = r, !.todo = T,
                                !.step = IF T = {} THEN "select" ELSE "clean"]
    /\ UNCHANGED vars

\* The primary the family was listed with goes first.
NextTerminal ==
    IF call.first \in call.todo THEN call.first
    ELSE CHOOSE i \in call.todo : \A j \in call.todo : i <= j

\* What retire_terminal_source_job(i) returned: the promoted member, or nothing.
Replacement(i, r) ==
    IF primary[i] = 0 /\ Heirs(i) # {} THEN r \in Heirs(i) /\ primary'[r] = 0
    ELSE r = 0

\* A row removed since the list was read is passed over, any other goes whatever
\* its status is by now.  The survivor, root, is the primary of the list or what
\* replaced it; it stays that when the promoted row is itself one of the list.
CleanNext ==
    /\ call.step = "clean"
    /\ LET i == NextTerminal
           left == call.todo \ {i}
       IN  /\ IF i \in Live THEN RetireTerminal(i) ELSE UNCHANGED vars
           /\ \E r \in 0..MaxId :
                /\ IF i \in Live /\ i = call.first THEN Replacement(i, r)
                   ELSE r = call.root
                /\ call' = [call EXCEPT !.todo = left, !.root = r,
                               !.step = IF left = {} THEN "survive" ELSE "clean"]

\* The survivor is looked up again, and get_job_by_id finds it.
Survive ==
    /\ call.step = "survive"
    /\ call.root \in Live
    /\ call' = [call EXCEPT !.root = Root(call.root), !.step = "select"]
    /\ UNCHANGED vars

\* No survivor, or its row is gone: JDSourceUnavailableError (410).
NoSurvivor ==
    /\ call.step \in {"list", "survive"}
    /\ call.root \notin Live
    /\ call' = NoCall
    /\ UNCHANGED vars

\* _vacancy_source_jobs: the active postings of the family.
Candidates(r) == {<<j, posting[j]>> : j \in {k \in Family(r) : Active(k)}}

\* With a requested source, the candidates of that source only.
Select ==
    /\ call.step = "select"
    /\ call.root \in Live
    /\ jd[Root(call.root)] = None
    /\ \E C \in SUBSET Candidates(call.root) \ {{}} :
        call' = [call EXCEPT !.cands = C, !.step = "try",
                             !.all = C = Candidates(call.root)]
    /\ UNCHANGED vars

\* _cached_result: the vacancy has its JD.
AnswerCached ==
    /\ call.step = "select"
    /\ call.root \in Live
    /\ jd[Root(call.root)] # None
    /\ Candidates(call.root) # {}
    /\ call' = NoCall
    /\ UNCHANGED vars

\* No supported candidate, an unexpected exception, or the process ends.
GiveUp ==
    /\ call.step # "idle"
    /\ call' = NoCall
    /\ UNCHANGED vars

\* The page of c was read and has a JD.
FetchText(c) ==
    /\ call.step = "try" /\ c \in call.cands
    /\ call' = [call EXCEPT !.step = "facts", !.cands = {c}]
    /\ UNCHANGED vars

\* The next candidate, or an error when it was the last.
Tried(c, failed) ==
    IF call.cands = {c} THEN NoCall
    ELSE [call EXCEPT !.cands = @ \ {c}, !.failed = @ \/ failed]

\* The page says closed or gone: retire_terminal_source_job(candidate_id).
FetchTerminal(c) ==
    /\ call.step = "try" /\ c \in call.cands
    /\ IF c[1] \in Live THEN RetireTerminal(c[1]) ELSE UNCHANGED vars
    /\ call' = Tried(c, FALSE)

FetchFails(c) ==
    /\ call.step = "try" /\ c \in call.cands
    /\ call' = Tried(c, TRUE)
    /\ UNCHANGED vars

\* update_job_source_facts: the page of an open posting, if it gave any facts.
WriteFacts(c) ==
    /\ call.step = "facts" /\ c \in call.cands
    /\ c[1] \in Live
    /\ terminal' \in {terminal, [terminal EXCEPT ![c[1]] = FALSE]}
    /\ call' = [call EXCEPT !.step = "store"]
    /\ UNCHANGED <<posting, primary, links, archived, jd, queued, memory, ingest>>

\* The text goes to the vacancy of the row id the candidate had.
AnswerEnriched(c) ==
    /\ call.step = "store" /\ c \in call.cands
    /\ StoreText(c[1], c[2])
    /\ call' = NoCall

-----------------------------------------------------------------------------

CallStep ==
    \/ \E i \in Ids : Begin(i)
    \/ ListFamily \/ CleanNext \/ Survive \/ NoSurvivor
    \/ Select \/ AnswerCached \/ GiveUp
    \/ \E c \in call.cands :
          \/ FetchText(c) \/ FetchTerminal(c) \/ FetchFails(c)
          \/ WriteFacts(c) \/ AnswerEnriched(c)

ActivePosting(p) == \E j \in Live : posting[j] = p /\ Active(j)

\* A row the call is about to remove is found open again before the primary it
\* may have to replace is gone: the call promotes it, and then removes it.
Reopened == /\ call.step = "clean" /\ call.first \in call.todo
            /\ \E i \in call.todo : i \in Live /\ terminal[i] /\ ~terminal'[i]

\* History: somebody else removed a row, reopened one listed for removal, or
\* changed whether the requested posting is active, during the call.
Disturbed ==
    \/ Reopened
    \/ \E i \in Live : posting'[i] = None
    \/ \E p \in Postings : p = call.asked /\ ActivePosting(p) # ActivePosting(p)'

\* History: between the list of the family and the removal of its primary, or
\* between the survivor and the candidates, the family went under another row.
MovedUnder == /\ call.step = "select" \/ call.root \in call.todo
              /\ \E i \in Live : i = call.root /\ primary[i] = 0 /\ primary'[i] # 0

OtherStep ==
    /\ Next
    /\ call' = IF call.step = "idle" THEN call
               ELSE [call EXCEPT !.alone = @ /\ ~Disturbed,
                                 !.moved = @ \/ MovedUnder]

EnrichNext == CallStep \/ OtherStep

EnrichSpec == EnrichInit /\ [][EnrichNext]_enrichVars

-----------------------------------------------------------------------------
(* Properties. *)

\* After the step the requested posting still has its row and is active.
Open == \E j \in Ids : j = call.job /\ posting'[j] = call.asked /\ Active(j)'

\* The call answers with a JD.
Answered == AnswerCached \/ \E c \in call.cands : AnswerEnriched(c)

\* A call that nobody disturbed by removing rows, and that answers with a JD,
\* leaves the requested posting in a vacancy that has its JD, although families
\* are merged and rows are inserted between its steps.
AnswerServesRequest ==
    [][call.alone /\ Answered /\ Open
          => \A j \in Ids : j = call.job => jd'[Root(j)'] # None]_enrichVars

\* The call answers 410: no survivor, or every supported posting was
\* unavailable.  Mistaken: other failures count as well.
AnyFailure == call.all
EveryOneGone == call.all /\ ~call.failed
Unavailable ==
    /\ call.step # "idle" /\ call' = NoCall
    /\ NoSurvivor \/ (EveryOneGone /\ \E c \in call.cands : FetchTerminal(c))

\* An undisturbed call for any source answers 410 only when the requested
\* posting is closed: a transient failure never reads as an unavailable vacancy.
\* The exception, moved: the family of an open posting is merged under another
\* row just when its list or its candidates are about to be used.
UnavailableIsTrue ==
    [][call.alone /\ ~call.moved /\ Unavailable => ~Open]_enrichVars

\* What CONSUMER_CONTRACT.md says of 410 ("every linked source explicitly
\* confirms that a vacancy is unavailable"), whatever other processes do: the
\* requested posting is not an active row.
UnavailableIsConfirmed ==
    [][Unavailable => ~Open]_enrichVars

\* What get_or_enrich_job_jd says of the text it stores ("from an active source
\* posting" of the vacancy): it is that of a posting of the family it goes to.
TextIsOfTheVacancy ==
    [][\A c \in call.cands : AnswerEnriched(c) /\ jd' # jd
          => \E j \in Live : posting[j] = c[2] /\ Root(j) = Root(c[1])]_enrichVars
=============================================================================
