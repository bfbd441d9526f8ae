---------------------------- MODULE BrowserBroker ----------------------------
(***************************************************************************)
(* The browser broker: every process of the service attaches to one        *)
(* long-lived Chrome and drives its tabs by page ids.  The broker keeps    *)
(* for each id the tab it is bound to and the URL it was last sent to, so  *)
(* that after Chrome or the Playwright driver is lost it can bind the ids  *)
(* again - to a tab that already shows the URL, or to a new one - and      *)
(* repeat the command once.  The commands of a process run one at a time   *)
(* on its browser thread; those of two processes interleave.               *)
(*                                                                         *)
(* A caller opens an id on about:blank, sends it to the URLs it wants,     *)
(* reads, and closes it.  A read of a page compares the page's URL with    *)
(* the one it wants, a read of the cards on it does not.  A page shows the *)
(* URL it was sent to last.                                                *)
(***************************************************************************)
EXTENDS Naturals, FiniteSets, FiniteSetsExt

CONSTANTS
    Clients,      \* the processes attached: the API, a collection run
    Wanted,       \* the pages the callers of each client ask for
    Tolerated,    \* per page asked for: those whose URL differs by more parameters
    MaxIds,       \* bound on the ids each process gives out
    MaxTabs,      \* bound on the tabs opened
    MaxFaults     \* bound on losses, timeouts and crashes

Urls == UNION {Wanted[c] : c \in Clients}

ASSUME BrokerConstants ==
    /\ Tolerated \in [Urls -> SUBSET Urls]
    /\ IsFiniteSet(Clients) /\ Urls \cap {"blank", "none", "closed"} = {}
    /\ MaxIds \in [Clients -> Nat] /\ MaxTabs \in Nat \ {0} /\ MaxFaults \in Nat

VARIABLES
    tab,        \* Chrome's tabs in the order of context.pages: the URL, or "closed"
    opened,     \* how many tabs were ever opened
    link,       \* per client: its connection, "none" before start_browser
    ids,        \* how many page ids a client has given out
    page,       \* _pages: the tab an id is bound to, 0 for none
    target,     \* _page_targets: where an id was last sent, "none" when unregistered
    wants,      \* the URL the caller of an id expects there, "none" without a caller
    cmd,        \* the command on the browser thread of a client
    shared,     \* history: the tabs that were bound by two clients
    misread,    \* history: what a caller accepted from a page it did not ask for
    faults

vars == <<tab, opened, link, ids, page, target, wants, cmd, shared, misread, faults>>
registry == <<ids, page, target>>

Ids == UNION {1..MaxIds[c] : c \in Clients}
Tabs == 1..MaxTabs
Places == Urls \cup {"blank"}

NoCmd == [op |-> "none", id |-> 0, url |-> "none"]
Idle == [req |-> NoCmd, stage |-> "idle", first |-> TRUE, left |-> {}, used |-> {}]

Reqs == [op : {"none", "open", "navigate", "page", "cards", "close"},
         id : Ids \cup {0}, url : Places \cup {"none"}]
Cmds == [req : Reqs, stage : {"idle", "named", "lost", "restore", "again"},
         first : BOOLEAN, left : SUBSET Ids, used : SUBSET Tabs]

TypeOK ==
    /\ tab \in [Tabs -> Places \cup {"closed"}]
    /\ opened \in 0..MaxTabs
    /\ link \in [Clients -> {"none", "ok", "lost", "driver"}]
    /\ ids \in [Clients -> Ids \cup {0}]
    /\ page \in [Clients -> [Ids -> 0..MaxTabs]]
    /\ target \in [Clients -> [Ids -> Places \cup {"none"}]]
    /\ wants \in [Clients -> [Ids -> Places \cup {"none"}]]
    /\ cmd \in [Clients -> Cmds]
    /\ shared \subseteq Tabs
    /\ misread \subseteq {"page", "cards"} \X BOOLEAN
    /\ faults \in 0..MaxFaults

Init ==
    /\ tab = [t \in Tabs |-> IF t = 1 THEN "blank" ELSE "closed"]
    /\ opened = 1
    /\ link = [c \in Clients |-> "none"]
    /\ ids = [c \in Clients |-> 0]
    /\ page = [c \in Clients |-> [i \in Ids |-> 0]]
    /\ target = [c \in Clients |-> [i \in Ids |-> "none"]]
    /\ wants = [c \in Clients |-> [i \in Ids |-> "none"]]
    /\ cmd = [c \in Clients |-> Idle]
    /\ shared = {}
    /\ misread = {}
    /\ faults = 0

-----------------------------------------------------------------------------

Fault == faults < MaxFaults /\ faults' = faults + 1
Fine == UNCHANGED faults

Open(t) == t # 0 /\ tab[t] # "closed"
Registered(c) == {i \in Ids : target[c][i] # "none"}
Bound(c) == {page[c][i] : i \in Ids} \ {0}

\* A new tab at a place.
NewTab(place) ==
    /\ opened < MaxTabs
    /\ opened' = opened + 1
    /\ tab' = [tab EXCEPT ![opened + 1] = place]

-----------------------------------------------------------------------------
(* Callers. *)

Requests(c) ==
    (IF ids[c] < MaxIds[c] THEN {[op |-> "open", id |-> 0, url |-> "blank"]} ELSE {})
    \cup UNION {{[op |-> "navigate", id |-> i, url |-> u] : u \in Wanted[c]}
                \cup {[op |-> "close", id |-> i, url |-> "none"]}
                \cup (IF wants[c][i] \in Urls
                      THEN {[op |-> o, id |-> i, url |-> wants[c][i]] : o \in {"page", "cards"}}
                      ELSE {})
                : i \in {k \in Ids : wants[c][k] # "none"}}

\* The command to execute: a caller's, or the one repeated after a recovery.
Requested(c) == CASE cmd[c].stage = "idle" -> Requests(c)
                  [] cmd[c].stage = "again" -> {cmd[c].req}
                  [] OTHER -> {}

Return(c) == cmd' = [cmd EXCEPT ![c] = Idle]

\* start_browser: a client without a connection makes one, its ids unbound.
Attached(c) == IF link[c] = "none" THEN "ok" ELSE link[c]
Attach(c) == link' = [link EXCEPT ![c] = Attached(c)]

\* _page answers and the connection works.
Answers(c, i) == Attached(c) = "ok" /\ Open(page[c][i])

\* The process closes its ids and detaches at its end, or dies with its tabs
\* left open.
Detach(c) ==
    /\ link[c] # "none"
    /\ IF cmd[c].stage = "idle" /\ \A i \in Ids : wants[c][i] = "none" THEN Fine ELSE Fault
    /\ Return(c)
    /\ link' = [link EXCEPT ![c] = "none"]
    /\ page' = [page EXCEPT ![c] = [i \in Ids |-> 0]]
    /\ target' = [target EXCEPT ![c] = [i \in Ids |-> "none"]]
    /\ wants' = [wants EXCEPT ![c] = [i \in Ids |-> "none"]]
    /\ UNCHANGED <<tab, opened, ids, shared, misread>>

\* start_browser cannot connect: it forgets the ids, whoever still holds them.
AttachFails(c) ==
    /\ link[c] = "none"
    /\ Requested(c) # {}
    /\ Fault
    /\ Return(c)
    /\ target' = [target EXCEPT ![c] = [i \in Ids |-> "none"]]
    /\ UNCHANGED <<tab, opened, link, ids, page, wants, shared, misread>>

-----------------------------------------------------------------------------
(* _execute_browser_command. *)

\* The id is registered before the page is asked for its title.
OpenTab(c, r) ==
    /\ r.op = "open"
    /\ Attached(c) = "ok"
    /\ ids[c] < MaxIds[c]
    /\ NewTab("blank")
    /\ LET i == ids[c] + 1
       IN  /\ ids' = [ids EXCEPT ![c] = i]
           /\ page' = [page EXCEPT ![c][i] = opened + 1]
           /\ target' = [target EXCEPT ![c][i] = "blank"]
           /\ cmd' = [cmd EXCEPT ![c] = [Idle EXCEPT !.req = [r EXCEPT !.id = i],
                             !.stage = "named", !.first = cmd[c].stage = "idle"]]
    /\ Attach(c)
    /\ UNCHANGED <<wants, shared, misread, faults>>

Opened(c) ==
    /\ cmd[c].stage = "named"
    /\ LET i == cmd[c].req.id
       IN  Answers(c, i) /\ wants' = [wants EXCEPT ![c][i] = "blank"]
    /\ Return(c)
    /\ UNCHANGED <<tab, opened, link, registry, shared, misread, faults>>

\* The target is noted first; a navigation that times out may or may not have
\* moved the tab, and its caller does not read from it.
Navigate(c, r) ==
    /\ r.op = "navigate"
    /\ Answers(c, r.id)
    /\ target' = [target EXCEPT ![c][r.id] = r.url]
    /\ LET sent == [tab EXCEPT ![page[c][r.id]] = r.url]
       IN  \/ tab' = sent /\ wants' = [wants EXCEPT ![c][r.id] = r.url] /\ Fine
           \/ tab' \in {tab, sent} /\ wants' = [wants EXCEPT ![c][r.id] = "blank"] /\ Fault
    /\ Return(c)
    /\ UNCHANGED <<opened, link, ids, page, shared, misread>>

\* A page is the one asked for if it has the path and the parameters of it; it
\* may have more of them.  A blank page passes too, but shows nothing to take.
SamePage(shown, asked) == shown = asked \/ shown \in Tolerated[asked]

\* "SEEK tab ownership lost" unless the page is where the caller wants it.
\* Mistaken: what is on the page is taken for what was asked for.
Trusted(c, r) == TRUE
Owned(c, r) == SamePage(tab[page[c][r.id]], r.url)

Read(c, r) ==
    /\ r.op \in {"page", "cards"}
    /\ Answers(c, r.id)
    /\ misread' = IF SamePage(tab[page[c][r.id]], r.url) \/ (r.op = "page" /\ ~Owned(c, r))
                  THEN misread ELSE misread \cup {<<r.op, page[c][r.id] \in shared>>}
    /\ Return(c)
    /\ UNCHANGED <<tab, opened, link, registry, wants, shared, faults>>

Forget(c, r) ==
    /\ tab' = [tab EXCEPT ![page[c][r.id]] = "closed"]
    /\ page' = [page EXCEPT ![c][r.id] = 0]
    /\ target' = [target EXCEPT ![c][r.id] = "none"]

\* The caller is done with the id, whatever becomes of the tab: a close is not
\* repeated after a recovery.
CloseTab(c, r) ==
    /\ r.op = "close"
    /\ IF Answers(c, r.id) THEN Forget(c, r)
       ELSE UNCHANGED <<tab, page, target>>
    /\ wants' = [wants EXCEPT ![c][r.id] = "none"]
    /\ Attach(c)
    /\ Return(c)
    /\ UNCHANGED <<opened, ids, shared, misread, faults>>

-----------------------------------------------------------------------------
(* _recover_browser_pages. *)

\* The command finds its page stale or its connection gone.
Stale(c, r) ==
    IF r.op # "open" \/ r.id # 0 THEN ~Answers(c, r.id)
    ELSE \/ Attached(c) # "ok"
         \/ cmd[c].stage = "again" /\ (opened = MaxTabs \/ ids[c] = MaxIds[c])  \* the bounds

\* Mistaken: the command repeated after a recovery may recover again.
EveryTime(c) == TRUE
FirstTime(c) == cmd[c].stage = "idle" \/ (cmd[c].stage = "named" /\ cmd[c].first)

LoseBrowser(c, r) ==
    /\ r.op # "close"
    /\ Stale(c, r)
    /\ cmd' = [cmd EXCEPT ![c] =
                 IF FirstTime(c)
                 THEN [Idle EXCEPT !.req = IF r.op = "open" THEN [r EXCEPT !.id = 0] ELSE r,
                                      !.stage = "lost"]
                 ELSE Idle]
    /\ Attach(c)
    /\ UNCHANGED <<tab, opened, registry, wants, shared, misread, faults>>

\* A driver that is lost is restarted before Chrome is connected to.
Reconnected(c) == [cmd EXCEPT ![c].stage = "restore", ![c].left = Registered(c)]

Recover(c) ==
    /\ cmd[c].stage = "lost"
    /\ cmd' = Reconnected(c)
    /\ link' = [link EXCEPT ![c] = "ok"]
    /\ page' = [page EXCEPT ![c] = [i \in Ids |-> 0]]
    /\ UNCHANGED <<tab, opened, ids, target, wants, shared, misread, faults>>

\* No connection within the deadline: the ids stay registered, unbound.
RecoveryFails(c) ==
    /\ cmd[c].stage = "lost"
    /\ Fault
    /\ Return(c)
    /\ link' = [link EXCEPT ![c] = "none"]
    /\ page' = [page EXCEPT ![c] = [i \in Ids |-> 0]]
    /\ UNCHANGED <<tab, opened, ids, target, wants, shared, misread>>

\* The first tab at the target that this recovery has not given to another
\* id.  Mistaken: also one it has given.
AtTarget(c, i) == {t \in Tabs : Open(t) /\ tab[t] = target[c][i]}
Reusable(c, i) == AtTarget(c, i) \ cmd[c].used

Restore(c) ==
    /\ cmd[c].stage = "restore" /\ cmd[c].left # {}
    /\ LET i == Min(cmd[c].left)
           Bind(t) == /\ page' = [page EXCEPT ![c][i] = t]
                      /\ cmd' = [cmd EXCEPT ![c].left = @ \ {i}, ![c].used = @ \cup {t}]
       IN  IF link[c] = "ok" /\ Reusable(c, i) # {}
           THEN Bind(Min(Reusable(c, i))) /\ UNCHANGED <<tab, opened, faults>>
           ELSE \/ link[c] = "ok" /\ NewTab(target[c][i]) /\ Bind(opened + 1) /\ Fine
                \/ \* the page does not load: the ids left stay unbound
                   /\ IF link[c] = "ok" /\ opened < MaxTabs THEN Fault ELSE Fine
                   /\ Return(c)
                   /\ UNCHANGED <<tab, opened, page>>
    /\ shared' = shared \cup {t \in Tabs : \E d \in Clients \ {c} : t \in Bound(d) /\ t \in Bound(c)'}
    /\ UNCHANGED <<link, ids, target, wants, misread>>

Restored(c) ==
    /\ cmd[c].stage = "restore" /\ cmd[c].left = {}
    /\ cmd' = [cmd EXCEPT ![c].stage = "again", ![c].used = {}]
    /\ UNCHANGED <<tab, opened, link, registry, wants, shared, misread, faults>>

-----------------------------------------------------------------------------
(* What happens to the browser. *)

\* Chrome dies and is started again by whoever needs it.
ChromeDies ==
    /\ Fault
    /\ opened < MaxTabs
    /\ opened' = opened + 1
    /\ tab' = [t \in Tabs |-> IF t = opened + 1 THEN "blank" ELSE "closed"]
    /\ link' = [c \in Clients |-> IF link[c] = "ok" THEN "lost" ELSE link[c]]
    /\ UNCHANGED <<registry, wants, cmd, shared, misread>>

DriverDies(c) ==
    /\ Fault
    /\ link[c] = "ok"
    /\ link' = [link EXCEPT ![c] = "driver"]
    /\ UNCHANGED <<tab, opened, registry, wants, cmd, shared, misread>>

-----------------------------------------------------------------------------

Execute(c) ==
    \E r \in Requested(c) : \/ OpenTab(c, r) \/ Navigate(c, r) \/ Read(c, r)
                            \/ CloseTab(c, r) \/ LoseBrowser(c, r)

\* What the browser thread does with a command it has begun.
Work(c) ==
    \/ cmd[c].stage = "again" /\ Execute(c)
    \/ Opened(c)
    \/ cmd[c].stage = "named" /\ LoseBrowser(c, cmd[c].req)
    \/ Recover(c) \/ RecoveryFails(c) \/ Restore(c) \/ Restored(c)

Begin(c) == cmd[c].stage = "idle" /\ (Execute(c) \/ AttachFails(c))

Next ==
    \/ \E c \in Clients : Begin(c) \/ Work(c) \/ Detach(c) \/ DriverDies(c)
    \/ ChromeDies

Spec == Init /\ [][Next]_vars

\* The browser thread goes on with the command it has.
FairSpec == Spec /\ \A c \in Clients : WF_vars(Work(c))

-----------------------------------------------------------------------------
(* Properties. *)

\* Two ids of a process never drive the same tab, through any recovery.
OwnTabPerId ==
    \A c \in Clients : \A i, j \in Ids :
        (i # j /\ page[c][i] # 0) => page[c][i] # page[c][j]

\* Two processes can end up with the same tab, and still a detail or a result
\* page that a caller accepts is the one it asked for; and so are cards, but
\* for a tab another process held too.
ReadsAreOfTheirPage == misread \subseteq {<<"cards", TRUE>>}

\* A command ends, after one recovery at most.
CommandsEnd == \A c \in Clients : cmd[c].stage # "idle" ~> cmd[c].stage = "idle"

\* The tab of an id belongs to one process.
TabIsDedicated ==
    \A c, d \in Clients : c # d => Bound(c) \cap Bound(d) = {}
=============================================================================
