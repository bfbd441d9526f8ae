-------------------------- MODULE BrowserBrokerProofs --------------------------
(* Theorems about BrowserBroker, for every set of clients and pages and every *)
(* number of ids, tabs and faults.                                            *)
EXTENDS BrowserBroker, WellFoundedInduction, TLAPS

\* Ids without a connection are unbound, bound ones are registered, and tabs
\* not yet opened are bound by none.
PagesKnown ==
    \A c \in Clients : \A i \in Ids :
        /\ page[c][i] <= opened
        /\ page[c][i] # 0 => target[c][i] # "none" /\ link[c] # "none"
        /\ i > ids[c] => wants[c][i] = "none"

\* A recovery gives out registered ids only, and remembers the tabs it gave.
RecoveryKnows ==
    \A c \in Clients : cmd[c].stage = "restore" =>
        \A i \in Ids : /\ i \in cmd[c].left => target[c][i] # "none"
                       /\ page[c][i] # 0 => page[c][i] \in cmd[c].used

\* What a caller asks of an id is what it expects there.
Asked(c, r) ==
    \/ r.op = "open"
    \/ r.op = "navigate" /\ r.id \in Ids /\ r.url \in Urls /\ wants[c][r.id] # "none"
    \/ r.op \in {"page", "cards"} /\ r.id \in Ids /\ r.url \in Urls /\ wants[c][r.id] = r.url
    \/ r.op = "close" /\ r.id \in Ids
CommandsAsked ==
    \A c \in Clients :
        /\ cmd[c].stage # "idle" => Asked(c, cmd[c].req)
        /\ cmd[c].stage = "named" =>
               cmd[c].req.op = "open" /\ cmd[c].req.id \in Ids /\ cmd[c].req.id <= ids[c]

\* A tab of two processes is in the history, and any other tab that is open
\* shows what the caller of its id expects.
TabsShow ==
    /\ \A c, d \in Clients : \A i, j \in Ids :
          (c # d /\ page[c][i] # 0 /\ page[c][i] = page[d][j]) => page[c][i] \in shared
    /\ \A c \in Clients : \A i \in Ids : wants[c][i] \in Urls =>
          /\ target[c][i] \in {"none", wants[c][i]}
          /\ Open(page[c][i]) /\ page[c][i] \notin shared => tab[page[c][i]] = wants[c][i]

\* Tabs not yet opened are closed, and no recovery has given them.
TabsKnown ==
    /\ \A t \in Tabs : t > opened => tab[t] = "closed"
    /\ \A c \in Clients : \A t \in cmd[c].used : t <= opened

BrokerInv == /\ TypeOK /\ PagesKnown /\ RecoveryKnows /\ CommandsAsked /\ TabsShow
             /\ OwnTabPerId /\ ReadsAreOfTheirPage /\ TabsKnown

-----------------------------------------------------------------------------
(* Numbers, types and what a command is.                                   *)

LEMMA Least ==
    ASSUME NEW S, S \subseteq Nat, S # {}
    PROVE  Min(S) \in S
<1>1. PICK x \in S : \A y \in S : ~ (<<y, x>> \in OpToRel(<, Nat))
  BY NatLessThanWellFounded, WFMin
<1>2. \A y \in S : x <= y
  <2> SUFFICES ASSUME NEW y \in S PROVE x <= y
    OBVIOUS
  <2>1. x \in Nat /\ y \in Nat
    OBVIOUS
  <2>2. ~ (y < x)
    BY <1>1, <2>1 DEF OpToRel
  <2>3. QED
    BY <2>1, <2>2
<1>3. QED
  BY <1>1, <1>2 DEF Min

LEMMA IdsAreNumbers ==
    /\ Ids \subseteq Nat \ {0}
    /\ \A c \in Clients : \A n \in Nat : n < MaxIds[c] => n + 1 \in Ids
    /\ Urls \subseteq Places /\ "blank" \in Places /\ "none" \notin Places /\ "blank" \notin Urls
    /\ "closed" \notin Places /\ "none" \notin Urls
<1>1. \A c \in Clients : MaxIds[c] \in Nat
  BY BrokerConstants
<1>2. Ids \subseteq Nat \ {0}
  BY <1>1 DEF Ids
<1>3. ASSUME NEW c \in Clients, NEW n \in Nat, n < MaxIds[c] PROVE n + 1 \in Ids
  <2>1. n + 1 \in 1..MaxIds[c]
    BY <1>1, <1>3
  <2>2. QED
    BY <2>1 DEF Ids
<1>4. QED
  BY <1>2, <1>3, BrokerConstants DEF Places

LEMMA IdleType == Idle \in Cmds /\ Idle.stage = "idle" /\ Idle.used = {} /\ NoCmd \in Reqs
  BY DEF Idle, NoCmd, Cmds, Reqs

LEMMA Types ==
    ASSUME BrokerInv
    PROVE  /\ TypeOK /\ PagesKnown /\ RecoveryKnows /\ CommandsAsked /\ TabsShow
           /\ OwnTabPerId /\ ReadsAreOfTheirPage /\ TabsKnown
           /\ \A c \in Clients : /\ cmd[c] \in Cmds /\ cmd[c].req \in Reqs
                                 /\ ids[c] \in Nat /\ link[c] \in {"none", "ok", "lost", "driver"}
           /\ \A c \in Clients : \A i \in Ids :
                 /\ page[c][i] \in 0..MaxTabs /\ page[c][i] \in Nat
                 /\ target[c][i] \in Places \cup {"none"} /\ wants[c][i] \in Places \cup {"none"}
           /\ opened \in Nat /\ faults \in Nat
<1>1. TypeOK /\ Ids \subseteq Nat
  BY IdsAreNumbers DEF BrokerInv
<1>2. \A c \in Clients : cmd[c] \in Cmds /\ cmd[c].req \in Reqs /\ ids[c] \in Nat
  <2>1. cmd \in [Clients -> Cmds] /\ ids \in [Clients -> Ids \cup {0}]
    BY <1>1 DEF TypeOK
  <2>2. \A m \in Cmds : m.req \in Reqs
    BY DEF Cmds
  <2>3. \A c \in Clients : cmd[c] \in Cmds
    BY <2>1
  <2>4. \A c \in Clients : ids[c] \in Ids \cup {0}
    BY <2>1
  <2>5. \A n \in Ids \cup {0} : n \in Nat
    BY <1>1
  <2>6. QED
    BY <2>2, <2>3, <2>4, <2>5
<1>3. \A c \in Clients : \A i \in Ids :
         page[c][i] \in 0..MaxTabs /\ target[c][i] \in Places \cup {"none"}
         /\ wants[c][i] \in Places \cup {"none"}
  BY <1>1 DEF TypeOK
<1>4. QED
  BY <1>1, <1>2, <1>3, BrokerConstants DEF BrokerInv, TypeOK

LEMMA MisreadType ==
    ASSUME NEW M, M \subseteq {<<"cards", TRUE>>}
    PROVE  M \subseteq {"page", "cards"} \X BOOLEAN
<1>1. "cards" \in {"page", "cards"} /\ TRUE \in BOOLEAN
  OBVIOUS
<1>2. <<"cards", TRUE>> \in {"page", "cards"} \X BOOLEAN
  BY <1>1
<1>3. QED
  BY <1>2

\* A command that is executed was asked for.
LEMMA RequestIsAsked ==
    ASSUME BrokerInv, NEW c \in Clients, NEW r \in Requested(c)
    PROVE  /\ r \in Reqs /\ Asked(c, r)
           /\ cmd[c].stage \in {"idle", "again"}
<1>1. CASE cmd[c].stage = "idle" /\ r \in Requests(c)
  <2>1. CASE r = [op |-> "open", id |-> 0, url |-> "blank"]
    BY <1>1, <2>1, IdsAreNumbers DEF Reqs, Asked
  <2>2. CASE \E i \in Ids : wants[c][i] # "none" /\
               \/ \E u \in Wanted[c] : r = [op |-> "navigate", id |-> i, url |-> u]
               \/ r = [op |-> "close", id |-> i, url |-> "none"]
               \/ wants[c][i] \in Urls /\ \E o \in {"page", "cards"} :
                      r = [op |-> o, id |-> i, url |-> wants[c][i]]
    <3>1. Wanted[c] \subseteq Urls
      BY DEF Urls
    <3>2. QED
      BY <1>1, <2>2, <3>1, IdsAreNumbers DEF Reqs, Asked
  <2>3. QED
    BY <1>1, <2>1, <2>2 DEF Requests
<1>2. CASE cmd[c].stage = "again" /\ r = cmd[c].req
  BY <1>2, Types DEF CommandsAsked
<1>3. QED
  BY <1>1, <1>2, Types DEF Requested, Cmds

LEMMA FaultType == ASSUME BrokerInv, Fault \/ Fine PROVE faults' \in 0..MaxFaults
  BY Types, BrokerConstants DEF Fault, Fine, TypeOK

-----------------------------------------------------------------------------
(* Steps that change only connections and the command of a client.         *)

LEMMA CommandChanges ==
    ASSUME BrokerInv, NEW c \in Clients, NEW m \in Cmds, cmd' = [cmd EXCEPT ![c] = m],
           UNCHANGED <<tab, opened, registry, wants, shared>>, misread' \subseteq {<<"cards", TRUE>>},
           link' \in [Clients -> {"none", "ok", "lost", "driver"}],
           \A d \in Clients : link'[d] = "none" => link[d] = "none",
           faults' \in 0..MaxFaults, m.used \subseteq cmd[c].used,
           m.stage # "idle" => Asked(c, m.req),
           m.stage = "named" => m.req.op = "open" /\ m.req.id \in Ids /\ m.req.id <= ids[c],
           m.stage = "restore" =>
               \A i \in Ids : /\ i \in m.left => target[c][i] # "none"
                              /\ page[c][i] # 0 => page[c][i] \in m.used
    PROVE  BrokerInv'
<1>1. /\ TypeOK /\ PagesKnown /\ RecoveryKnows /\ CommandsAsked /\ TabsShow
      /\ OwnTabPerId /\ ReadsAreOfTheirPage /\ TabsKnown
  BY Types
<1>2. UNCHANGED <<tab, opened, ids, page, target, wants, shared>>
  BY DEF registry
<1>3. /\ cmd' \in [Clients -> Cmds] /\ cmd'[c] = m
      /\ \A d \in Clients \ {c} : cmd'[d] = cmd[d]
  BY <1>1 DEF TypeOK
<1>4. TypeOK'
  <2>1. misread' \subseteq {"page", "cards"} \X BOOLEAN
    BY MisreadType
  <2>2. QED
    BY <1>1, <1>2, <1>3, <2>1 DEF TypeOK
<1>5. PagesKnown'
  BY <1>1, <1>2 DEF PagesKnown
<1>6. RecoveryKnows'
  BY <1>1, <1>2, <1>3 DEF RecoveryKnows
<1>7. CommandsAsked'
  BY <1>1, <1>2, <1>3 DEF CommandsAsked, Asked
<1>8. TabsShow' /\ OwnTabPerId' /\ ReadsAreOfTheirPage'
  <2>1. TabsShow'
    BY <1>1, <1>2 DEF TabsShow, Open
  <2>2. OwnTabPerId' /\ ReadsAreOfTheirPage'
    BY <1>1, <1>2 DEF OwnTabPerId, ReadsAreOfTheirPage
  <2>3. QED
    BY <2>1, <2>2
<1>9. TabsKnown'
  BY <1>1, <1>2, <1>3 DEF TabsKnown
<1>10. QED
  BY <1>4, <1>5, <1>6, <1>7, <1>8, <1>9 DEF BrokerInv

\* Attaching makes a connection where there is none.
LEMMA AttachType ==
    ASSUME BrokerInv, NEW c \in Clients, Attach(c)
    PROVE  /\ link' \in [Clients -> {"none", "ok", "lost", "driver"}]
           /\ \A d \in Clients : link'[d] = "none" => link[d] = "none"
           /\ link'[c] # "none"
<1>1. link \in [Clients -> {"none", "ok", "lost", "driver"}]
  BY Types DEF TypeOK
<1>2. Attached(c) \in {"ok", "lost", "driver"}
  BY <1>1 DEF Attached
<1>3. QED
  BY <1>1, <1>2 DEF Attach

LEMMA LoseBrowserKeeps ==
    ASSUME BrokerInv, NEW c \in Clients, NEW r \in Reqs, Asked(c, r), LoseBrowser(c, r)
    PROVE  BrokerInv'
<1> DEFINE again == IF r.op = "open" THEN [r EXCEPT !.id = 0] ELSE r
           m == IF FirstTime(c) THEN [Idle EXCEPT !.req = again, !.stage = "lost"] ELSE Idle
<1>1. again \in Reqs /\ Asked(c, again)
  BY DEF Reqs, Asked
<1>2. /\ cmd' = [cmd EXCEPT ![c] = m] /\ Attach(c)
      /\ UNCHANGED <<tab, opened, registry, wants, shared, misread, faults>>
  BY DEF LoseBrowser
<1>3. /\ m \in Cmds /\ m.stage \in {"idle", "lost"} /\ (m.stage = "lost" => m.req = again)
      /\ m.used = {}
  <2> HIDE DEF again
  <2>1. [Idle EXCEPT !.req = again, !.stage = "lost"] \in Cmds
    BY <1>1 DEF Idle, NoCmd, Cmds
  <2>2. /\ [Idle EXCEPT !.req = again, !.stage = "lost"].stage = "lost"
        /\ [Idle EXCEPT !.req = again, !.stage = "lost"].req = again
        /\ [Idle EXCEPT !.req = again, !.stage = "lost"].used = {}
    BY DEF Idle
  <2>3. QED
    BY <2>1, <2>2, IdleType
<1>4. faults' \in 0..MaxFaults /\ misread' \subseteq {<<"cards", TRUE>>}
  BY <1>2, Types DEF TypeOK, ReadsAreOfTheirPage
<1> HIDE DEF m, again
<1>5. QED
  BY <1>1, <1>2, <1>3, <1>4, AttachType, CommandChanges

LEMMA RestoredKeeps == ASSUME BrokerInv, NEW c \in Clients, Restored(c) PROVE BrokerInv'
<1> DEFINE m == [cmd[c] EXCEPT !.stage = "again", !.used = {}]
<1>1. cmd[c] \in Cmds /\ cmd \in [Clients -> Cmds] /\ Asked(c, cmd[c].req)
  BY Types DEF Restored, CommandsAsked, TypeOK
<1>2. m \in Cmds /\ m.stage = "again" /\ m.req = cmd[c].req /\ m.used = {}
  BY <1>1 DEF Cmds
<1>3. /\ cmd' = [cmd EXCEPT ![c] = m]
      /\ UNCHANGED <<tab, opened, link, registry, wants, shared, misread, faults>>
  BY <1>1 DEF Restored
<1>4. /\ link' \in [Clients -> {"none", "ok", "lost", "driver"}] /\ faults' \in 0..MaxFaults
      /\ misread' \subseteq {<<"cards", TRUE>>}
  BY <1>3, Types DEF TypeOK, ReadsAreOfTheirPage
<1> HIDE DEF m
<1>5. QED
  BY <1>1, <1>2, <1>3, <1>4, CommandChanges

LEMMA DriverDiesKeeps == ASSUME BrokerInv, NEW c \in Clients, DriverDies(c) PROVE BrokerInv'
<1>1. cmd \in [Clients -> Cmds] /\ cmd[c] \in Cmds /\ link \in [Clients -> {"none", "ok", "lost", "driver"}]
  BY Types DEF TypeOK
<1>2. /\ cmd' = [cmd EXCEPT ![c] = cmd[c]]
      /\ UNCHANGED <<tab, opened, registry, wants, shared, misread>>
      /\ link' = [link EXCEPT ![c] = "driver"]
  BY <1>1 DEF DriverDies
<1>3. faults' \in 0..MaxFaults /\ misread' \subseteq {<<"cards", TRUE>>}
  BY FaultType, Types DEF DriverDies, ReadsAreOfTheirPage
<1>4. cmd[c].stage # "idle" => Asked(c, cmd[c].req)
  BY Types DEF CommandsAsked
<1>5. cmd[c].stage = "named" => cmd[c].req.op = "open" /\ cmd[c].req.id \in Ids /\ cmd[c].req.id <= ids[c]
  BY Types DEF CommandsAsked
<1>6. cmd[c].stage = "restore" =>
         \A i \in Ids : /\ i \in cmd[c].left => target[c][i] # "none"
                        /\ page[c][i] # 0 => page[c][i] \in cmd[c].used
  BY Types DEF RecoveryKnows
<1>7. QED
  BY <1>1, <1>2, <1>3, <1>4, <1>5, <1>6, CommandChanges

-----------------------------------------------------------------------------
(* Steps that bind no tab.                                                 *)

\* A client whose ids are unbound and whose callers expect nothing, or do not
\* any more, is harmless to the others.
LEMMA UnbindKeeps ==
    ASSUME BrokerInv, NEW c \in Clients, NEW m \in Cmds, cmd' = [cmd EXCEPT ![c] = m],
           UNCHANGED <<tab, opened, ids, shared, misread>>,
           link' \in [Clients -> {"none", "ok", "lost", "driver"}],
           \A d \in Clients : d # c => link'[d] = link[d],
           page' = [page EXCEPT ![c] = [i \in Ids |-> 0]],
           target' \in [Clients -> [Ids -> Places \cup {"none"}]],
           wants' \in [Clients -> [Ids -> Places \cup {"none"}]],
           \A d \in Clients : d # c => target'[d] = target[d] /\ wants'[d] = wants[d],
           \A i \in Ids : target'[c][i] \in {"none", target[c][i]},
           \A i \in Ids : wants'[c][i] \in {"none", wants[c][i]},
           faults' \in 0..MaxFaults,
           m.stage \in {"idle", "restore"}, m.used \subseteq cmd[c].used,
           m.stage = "restore" => /\ wants'[c] = wants[c] /\ Asked(c, m.req)
                                  /\ \A i \in m.left : target'[c][i] # "none"
    PROVE  BrokerInv'
<1>1. /\ TypeOK /\ PagesKnown /\ RecoveryKnows /\ CommandsAsked /\ TabsShow
      /\ OwnTabPerId /\ ReadsAreOfTheirPage /\ TabsKnown
  BY Types
<1>2. /\ cmd' \in [Clients -> Cmds] /\ cmd'[c] = m
      /\ \A d \in Clients : d # c => cmd'[d] = cmd[d]
  BY <1>1 DEF TypeOK
<1>3. /\ page' \in [Clients -> [Ids -> 0..MaxTabs]]
      /\ \A i \in Ids : page'[c][i] = 0
      /\ \A d \in Clients : d # c => page'[d] = page[d]
  <2>1. [i \in Ids |-> 0] \in [Ids -> 0..MaxTabs]
    BY BrokerConstants
  <2>2. QED
    BY <1>1, <2>1 DEF TypeOK
<1>4. TypeOK'
  BY <1>1, <1>2, <1>3 DEF TypeOK
<1>5. PagesKnown'
  <2> SUFFICES ASSUME NEW d \in Clients, NEW i \in Ids
               PROVE  /\ page'[d][i] <= opened
                      /\ page'[d][i] # 0 => target'[d][i] # "none" /\ link'[d] # "none"
                      /\ i > ids[d] => wants'[d][i] = "none"
    BY DEF PagesKnown
  <2>1. CASE d = c
    BY <1>1, <1>3, <2>1, Types DEF PagesKnown
  <2>2. CASE d # c
    <3>1. page'[d] = page[d] /\ target'[d] = target[d] /\ wants'[d] = wants[d] /\ link'[d] = link[d]
      BY <1>3, <2>2
    <3>2. QED
      BY <1>1, <3>1 DEF PagesKnown
  <2>3. QED
    BY <2>1, <2>2
<1>6. RecoveryKnows'
  BY <1>1, <1>2, <1>3 DEF RecoveryKnows
<1>7. CommandsAsked'
  BY <1>1, <1>2 DEF CommandsAsked, Asked
<1>8. TabsShow'
  <2>1. ASSUME NEW d \in Clients, NEW e \in Clients, NEW i \in Ids, NEW j \in Ids,
               d # e, page'[d][i] # 0, page'[d][i] = page'[e][j]
        PROVE  page'[d][i] \in shared
    BY <1>1, <1>3, <2>1 DEF TabsShow
  <2>2. ASSUME NEW d \in Clients, NEW i \in Ids, wants'[d][i] \in Urls
        PROVE  /\ target'[d][i] \in {"none", wants'[d][i]}
               /\ (page'[d][i] # 0 /\ tab[page'[d][i]] # "closed" /\ page'[d][i] \notin shared) =>
                      tab[page'[d][i]] = wants'[d][i]
    <3>1. CASE d = c
      <4>1. wants'[c][i] = wants[c][i]
        BY <2>2, <3>1, IdsAreNumbers
      <4>2. QED
        BY <1>1, <1>3, <2>2, <3>1, <4>1 DEF TabsShow
    <3>2. CASE d # c
      <4>1. page'[d] = page[d] /\ target'[d] = target[d] /\ wants'[d] = wants[d]
        BY <1>3, <3>2
      <4>2. QED
        BY <1>1, <2>2, <4>1 DEF TabsShow, Open
    <3>3. QED
      BY <3>1, <3>2
  <2>3. QED
    BY <2>1, <2>2 DEF TabsShow, Open
<1>9. OwnTabPerId' /\ ReadsAreOfTheirPage'
  <2>1. ASSUME NEW d \in Clients, NEW i \in Ids, NEW j \in Ids, i # j, page'[d][i] # 0
        PROVE  page'[d][i] # page'[d][j]
    <3>1. page'[d] = page[d]
      BY <1>3, <2>1
    <3>2. QED
      BY <1>1, <2>1, <3>1 DEF OwnTabPerId
  <2>2. QED
    BY <1>1, <2>1 DEF OwnTabPerId, ReadsAreOfTheirPage
<1>10. TabsKnown'
  BY <1>1, <1>2 DEF TabsKnown
<1>11. QED
  BY <1>4, <1>5, <1>6, <1>7, <1>8, <1>9, <1>10 DEF BrokerInv

\* The registries with the ids of a client struck out.
LEMMA StruckOut ==
    ASSUME BrokerInv, NEW c \in Clients, NEW f \in [Clients -> [Ids -> Places \cup {"none"}]]
    PROVE  LET g == [f EXCEPT ![c] = [i \in Ids |-> "none"]]
           IN  /\ g \in [Clients -> [Ids -> Places \cup {"none"}]]
               /\ \A d \in Clients : d # c => g[d] = f[d]
               /\ \A i \in Ids : g[c][i] = "none"
  OBVIOUS

LEMMA DetachKeeps == ASSUME BrokerInv, NEW c \in Clients, Detach(c) PROVE BrokerInv'
<1>1. /\ TypeOK /\ target \in [Clients -> [Ids -> Places \cup {"none"}]]
      /\ wants \in [Clients -> [Ids -> Places \cup {"none"}]]
  BY Types DEF TypeOK
<1>2. /\ UNCHANGED <<tab, opened, ids, shared, misread>> /\ cmd' = [cmd EXCEPT ![c] = Idle]
      /\ page' = [page EXCEPT ![c] = [i \in Ids |-> 0]]
      /\ target' = [target EXCEPT ![c] = [i \in Ids |-> "none"]]
      /\ wants' = [wants EXCEPT ![c] = [i \in Ids |-> "none"]]
      /\ link' = [link EXCEPT ![c] = "none"]
  BY DEF Detach, Return
<1>3. /\ link' \in [Clients -> {"none", "ok", "lost", "driver"}]
      /\ \A d \in Clients : d # c => link'[d] = link[d]
  BY <1>1, <1>2 DEF TypeOK
<1>4. /\ target' \in [Clients -> [Ids -> Places \cup {"none"}]]
      /\ wants' \in [Clients -> [Ids -> Places \cup {"none"}]]
      /\ \A d \in Clients : d # c => target'[d] = target[d] /\ wants'[d] = wants[d]
      /\ \A i \in Ids : target'[c][i] = "none" /\ wants'[c][i] = "none"
  BY <1>1, <1>2, StruckOut
<1>5. faults' \in 0..MaxFaults
  BY FaultType DEF Detach
<1>6. /\ \A d \in Clients : d # c => target'[d] = target[d] /\ wants'[d] = wants[d]
      /\ \A i \in Ids : target'[c][i] \in {"none", target[c][i]}
      /\ \A i \in Ids : wants'[c][i] \in {"none", wants[c][i]}
  BY <1>4
<1>7. /\ Idle \in Cmds /\ Idle.stage \in {"idle", "restore"} /\ Idle.stage # "restore"
      /\ Idle.used \subseteq cmd[c].used
  BY IdleType
<1>8. QED
  BY <1>2, <1>3, <1>4, <1>5, <1>6, <1>7, UnbindKeeps

LEMMA AttachFailsKeeps == ASSUME BrokerInv, NEW c \in Clients, AttachFails(c) PROVE BrokerInv'
<1>1. /\ TypeOK /\ target \in [Clients -> [Ids -> Places \cup {"none"}]]
      /\ page \in [Clients -> [Ids -> 0..MaxTabs]]
  BY Types DEF TypeOK
<1>2. /\ UNCHANGED <<tab, opened, link, ids, page, wants, shared, misread>>
      /\ cmd' = [cmd EXCEPT ![c] = Idle] /\ link[c] = "none"
      /\ target' = [target EXCEPT ![c] = [i \in Ids |-> "none"]]
  BY DEF AttachFails, Return
<1>3. page' = [page EXCEPT ![c] = [i \in Ids |-> 0]]
  <2>1. \A i \in Ids : page[c][i] = 0
    BY <1>2, Types DEF PagesKnown
  <2>2. page[c] = [i \in Ids |-> 0]
    BY <1>1, <2>1
  <2>3. QED
    BY <1>1, <1>2, <2>2
<1>4. /\ target' \in [Clients -> [Ids -> Places \cup {"none"}]]
      /\ \A d \in Clients : d # c => target'[d] = target[d]
      /\ \A i \in Ids : target'[c][i] = "none"
  BY <1>1, <1>2, StruckOut
<1>5. faults' \in 0..MaxFaults
  BY FaultType DEF AttachFails
<1>6. /\ link' \in [Clients -> {"none", "ok", "lost", "driver"}]
      /\ wants' \in [Clients -> [Ids -> Places \cup {"none"}]]
  BY <1>1, <1>2 DEF TypeOK
<1>7. /\ \A d \in Clients : d # c => target'[d] = target[d] /\ wants'[d] = wants[d]
      /\ \A i \in Ids : target'[c][i] \in {"none", target[c][i]}
      /\ \A i \in Ids : wants'[c][i] \in {"none", wants[c][i]}
  BY <1>2, <1>4
<1>8. /\ Idle \in Cmds /\ Idle.stage \in {"idle", "restore"} /\ Idle.stage # "restore"
      /\ Idle.used \subseteq cmd[c].used
  BY IdleType
<1>9. QED
  BY <1>2, <1>3, <1>4, <1>5, <1>6, <1>7, <1>8, UnbindKeeps

LEMMA RecoverKeeps == ASSUME BrokerInv, NEW c \in Clients, Recover(c) PROVE BrokerInv'
<1> DEFINE m == [cmd[c] EXCEPT !.stage = "restore", !.left = Registered(c)]
<1>1. /\ TypeOK /\ cmd[c] \in Cmds /\ cmd \in [Clients -> Cmds] /\ Asked(c, cmd[c].req)
  BY Types DEF TypeOK, Recover, CommandsAsked
<1>2. /\ UNCHANGED <<tab, opened, ids, target, wants, shared, misread, faults>>
      /\ page' = [page EXCEPT ![c] = [i \in Ids |-> 0]] /\ link' = [link EXCEPT ![c] = "ok"]
      /\ cmd' = [cmd EXCEPT ![c] = m]
  BY <1>1 DEF Recover, Reconnected
<1>3. /\ m \in Cmds /\ m.stage = "restore" /\ m.req = cmd[c].req /\ m.used = cmd[c].used
      /\ \A i \in m.left : target[c][i] # "none"
  BY <1>1 DEF Registered, Cmds
<1>4. /\ link' \in [Clients -> {"none", "ok", "lost", "driver"}]
      /\ \A d \in Clients : d # c => link'[d] = link[d]
  BY <1>1, <1>2 DEF TypeOK
<1>5. /\ target' \in [Clients -> [Ids -> Places \cup {"none"}]]
      /\ wants' \in [Clients -> [Ids -> Places \cup {"none"}]] /\ faults' \in 0..MaxFaults
  BY <1>1, <1>2 DEF TypeOK
<1>6. /\ \A d \in Clients : d # c => target'[d] = target[d] /\ wants'[d] = wants[d]
      /\ \A i \in Ids : target'[c][i] \in {"none", target[c][i]}
      /\ \A i \in Ids : wants'[c][i] \in {"none", wants[c][i]}
  BY <1>2
<1>7. m.stage = "restore" => /\ wants'[c] = wants[c] /\ Asked(c, m.req)
                             /\ \A i \in m.left : target'[c][i] # "none"
  BY <1>1, <1>2, <1>3
<1> HIDE DEF m
<1>8. QED
  BY <1>2, <1>3, <1>4, <1>5, <1>6, <1>7, UnbindKeeps

LEMMA RecoveryFailsKeeps ==
    ASSUME BrokerInv, NEW c \in Clients, RecoveryFails(c) PROVE BrokerInv'
<1>1. TypeOK
  BY Types
<1>2. /\ UNCHANGED <<tab, opened, ids, target, wants, shared, misread>>
      /\ page' = [page EXCEPT ![c] = [i \in Ids |-> 0]] /\ link' = [link EXCEPT ![c] = "none"]
      /\ cmd' = [cmd EXCEPT ![c] = Idle]
  BY DEF RecoveryFails, Return
<1>3. /\ link' \in [Clients -> {"none", "ok", "lost", "driver"}]
      /\ \A d \in Clients : d # c => link'[d] = link[d]
  BY <1>1, <1>2 DEF TypeOK
<1>4. /\ target' \in [Clients -> [Ids -> Places \cup {"none"}]]
      /\ wants' \in [Clients -> [Ids -> Places \cup {"none"}]]
  BY <1>1, <1>2 DEF TypeOK
<1>5. faults' \in 0..MaxFaults
  BY FaultType DEF RecoveryFails
<1>6. /\ \A d \in Clients : d # c => target'[d] = target[d] /\ wants'[d] = wants[d]
      /\ \A i \in Ids : target'[c][i] \in {"none", target[c][i]}
      /\ \A i \in Ids : wants'[c][i] \in {"none", wants[c][i]}
  BY <1>2
<1>7. /\ Idle \in Cmds /\ Idle.stage \in {"idle", "restore"} /\ Idle.stage # "restore"
      /\ Idle.used \subseteq cmd[c].used
  BY IdleType
<1>8. QED
  BY <1>2, <1>3, <1>4, <1>5, <1>6, <1>7, UnbindKeeps

-----------------------------------------------------------------------------
(* Steps that open, move and close tabs.                                   *)

LEMMA ChromeDiesKeeps == ASSUME BrokerInv, ChromeDies PROVE BrokerInv'
<1>1. /\ TypeOK /\ PagesKnown /\ RecoveryKnows /\ CommandsAsked /\ TabsShow
      /\ OwnTabPerId /\ ReadsAreOfTheirPage /\ TabsKnown
  BY Types
<1>2. /\ opened < MaxTabs /\ opened' = opened + 1
      /\ tab' = [t \in Tabs |-> IF t = opened + 1 THEN "blank" ELSE "closed"]
      /\ UNCHANGED <<ids, page, target, wants, cmd, shared, misread>>
      /\ faults' \in 0..MaxFaults
  BY FaultType DEF ChromeDies, registry
<1>3. /\ link' \in [Clients -> {"none", "ok", "lost", "driver"}]
      /\ \A d \in Clients : link'[d] = "none" => link[d] = "none"
  BY <1>1 DEF ChromeDies, TypeOK
<1>4. TypeOK'
  <2>1. opened' \in 0..MaxTabs
    BY <1>2, Types, BrokerConstants
  <2>2. tab' \in [Tabs -> Places \cup {"closed"}]
    BY <1>2, IdsAreNumbers
  <2>3. QED
    BY <1>1, <1>2, <1>3, <2>1, <2>2 DEF TypeOK
<1>5. PagesKnown'
  BY <1>1, <1>2, <1>3, Types DEF PagesKnown
<1>6. RecoveryKnows' /\ CommandsAsked'
  BY <1>1, <1>2 DEF RecoveryKnows, CommandsAsked, Asked
<1>7. TabsShow'
  <2>1. \A c \in Clients : \A i \in Ids : ~Open(page[c][i])'
    <3> SUFFICES ASSUME NEW c \in Clients, NEW i \in Ids, page[c][i] # 0
                 PROVE  tab'[page[c][i]] = "closed"
      BY <1>2 DEF Open
    <3>1. page[c][i] \in Tabs /\ page[c][i] # opened + 1
      BY Types DEF PagesKnown, Tabs
    <3>2. QED
      BY <1>2, <3>1
  <2>2. QED
    BY <1>1, <1>2, <2>1 DEF TabsShow
<1>8. OwnTabPerId' /\ ReadsAreOfTheirPage'
  BY <1>1, <1>2 DEF OwnTabPerId, ReadsAreOfTheirPage
<1>9. TabsKnown'
  <2>1. \A t \in Tabs : t > opened' => tab'[t] = "closed"
    BY <1>2, Types DEF Tabs
  <2>2. ASSUME NEW c \in Clients, NEW t \in cmd[c].used PROVE t <= opened'
    <3>1. t \in Tabs /\ t <= opened
      BY <1>1, Types DEF Cmds, TabsKnown
    <3>2. QED
      BY <1>2, <3>1, Types DEF Tabs
  <2>3. QED
    BY <1>2, <2>1, <2>2 DEF TabsKnown
<1>10. QED
  BY <1>4, <1>5, <1>6, <1>7, <1>8, <1>9 DEF BrokerInv

LEMMA ReadKeeps ==
    ASSUME BrokerInv, NEW c \in Clients, NEW r \in Reqs, Asked(c, r), Read(c, r)
    PROVE  BrokerInv'
<1>1. /\ r.op \in {"page", "cards"} /\ Open(page[c][r.id])
      /\ cmd' = [cmd EXCEPT ![c] = Idle]
      /\ UNCHANGED <<tab, opened, link, registry, wants, shared, faults>>
  BY DEF Read, Answers, Return
<1>2. r.id \in Ids /\ wants[c][r.id] = r.url /\ r.url \in Urls
  BY <1>1 DEF Asked
<1>3. page[c][r.id] \notin shared => tab[page[c][r.id]] = r.url
  BY <1>1, <1>2, Types DEF TabsShow
<1>4. misread' \subseteq {<<"cards", TRUE>>}
  <2>1. misread \subseteq {<<"cards", TRUE>>}
    BY Types DEF ReadsAreOfTheirPage
  <2>2. CASE SamePage(tab[page[c][r.id]], r.url) \/ (r.op = "page" /\ ~Owned(c, r))
    BY <2>1, <2>2 DEF Read
  <2>3. CASE ~(SamePage(tab[page[c][r.id]], r.url) \/ (r.op = "page" /\ ~Owned(c, r)))
    <3>1. r.op = "cards" /\ (page[c][r.id] \in shared) = TRUE
      BY <1>1, <1>3, <2>3 DEF Owned, SamePage
    <3>2. misread' = misread \cup {<<r.op, page[c][r.id] \in shared>>}
      BY <2>3 DEF Read
    <3>3. QED
      BY <2>1, <3>1, <3>2
  <2>4. QED
    BY <2>2, <2>3
<1>5. /\ link' \in [Clients -> {"none", "ok", "lost", "driver"}] /\ faults' \in 0..MaxFaults
      /\ \A d \in Clients : link'[d] = "none" => link[d] = "none"
  BY <1>1, Types DEF TypeOK
<1>6. Idle \in Cmds /\ Idle.stage = "idle" /\ Idle.used \subseteq cmd[c].used
  BY IdleType
<1>7. QED
  BY <1>1, <1>4, <1>5, <1>6, CommandChanges

\* A command that ends and has changed what is known of one id, and the tab
\* of that id, is harmless: another id with the same tab is another client's.
LEMMA OneIdKeeps ==
    ASSUME BrokerInv, NEW c \in Clients, NEW i \in Ids, cmd' = [cmd EXCEPT ![c] = Idle],
           UNCHANGED <<opened, ids, shared>>, misread' \subseteq {<<"cards", TRUE>>},
           link' \in [Clients -> {"none", "ok", "lost", "driver"}],
           \A d \in Clients : link'[d] = "none" => link[d] = "none",
           faults' \in 0..MaxFaults,
           NEW p \in {page[c][i], 0}, page' = [page EXCEPT ![c][i] = p],
           NEW u \in Places \cup {"none"}, target' = [target EXCEPT ![c][i] = u],
           NEW w \in Places \cup {"none"}, wants' = [wants EXCEPT ![c][i] = w],
           tab' \in [Tabs -> Places \cup {"closed"}],
           \A t \in Tabs : t # page[c][i] => tab'[t] = tab[t],
           p # 0 => u # "none",
           w # "none" => i <= ids[c],
           w \in Urls => u = w /\ (p # 0 => tab'[p] = w)
    PROVE  BrokerInv'
<1>1. /\ TypeOK /\ PagesKnown /\ RecoveryKnows /\ CommandsAsked /\ TabsShow
      /\ OwnTabPerId /\ ReadsAreOfTheirPage /\ TabsKnown
  BY Types
<1>2. /\ cmd' \in [Clients -> Cmds] /\ cmd'[c] = Idle /\ Idle.stage = "idle"
      /\ \A d \in Clients : d # c => cmd'[d] = cmd[d]
  BY <1>1, IdleType DEF TypeOK
<1>3. /\ page' \in [Clients -> [Ids -> 0..MaxTabs]] /\ page'[c][i] = p
      /\ \A d \in Clients : \A j \in Ids : <<d, j>> # <<c, i>> => page'[d][j] = page[d][j]
  <2>1. p \in 0..MaxTabs
    BY Types, BrokerConstants
  <2>2. page \in [Clients -> [Ids -> 0..MaxTabs]]
    BY <1>1 DEF TypeOK
  <2>3. QED
    BY <2>1, <2>2
<1>4. /\ target' \in [Clients -> [Ids -> Places \cup {"none"}]] /\ target'[c][i] = u
      /\ \A d \in Clients : \A j \in Ids : <<d, j>> # <<c, i>> => target'[d][j] = target[d][j]
  BY <1>1 DEF TypeOK
<1>5. /\ wants' \in [Clients -> [Ids -> Places \cup {"none"}]] /\ wants'[c][i] = w
      /\ \A d \in Clients : \A j \in Ids : <<d, j>> # <<c, i>> => wants'[d][j] = wants[d][j]
      /\ \A d \in Clients : d # c => wants'[d] = wants[d]
  BY <1>1 DEF TypeOK
<1>6. TypeOK'
  <2>1. misread' \subseteq {"page", "cards"} \X BOOLEAN
    BY MisreadType
  <2>2. QED
    BY <1>1, <1>2, <1>3, <1>4, <1>5, <2>1 DEF TypeOK
<1>7. PagesKnown'
  <2> SUFFICES ASSUME NEW d \in Clients, NEW j \in Ids
               PROVE  /\ page'[d][j] <= opened
                      /\ page'[d][j] # 0 => target'[d][j] # "none" /\ link'[d] # "none"
                      /\ j > ids[d] => wants'[d][j] = "none"
    BY DEF PagesKnown
  <2>1. CASE <<d, j>> = <<c, i>>
    <3>1. d = c /\ j = i
      BY <2>1
    <3>2. i \in Nat /\ ids[c] \in Nat
      BY Types, IdsAreNumbers
    <3>3. QED
      BY <1>1, <1>3, <1>4, <1>5, <3>1, <3>2, Types DEF PagesKnown
  <2>2. CASE <<d, j>> # <<c, i>>
    <3>1. page'[d][j] = page[d][j] /\ target'[d][j] = target[d][j] /\ wants'[d][j] = wants[d][j]
      BY <1>3, <1>4, <1>5, <2>2
    <3>2. QED
      BY <1>1, <3>1 DEF PagesKnown
  <2>3. QED
    BY <2>1, <2>2
<1>8. RecoveryKnows'
  <2> SUFFICES ASSUME NEW d \in Clients, cmd'[d].stage = "restore", NEW j \in Ids
               PROVE  /\ j \in cmd'[d].left => target'[d][j] # "none"
                      /\ page'[d][j] # 0 => page'[d][j] \in cmd'[d].used
    BY DEF RecoveryKnows
  <2>1. d # c
    BY <1>2
  <2>2. page'[d][j] = page[d][j] /\ target'[d][j] = target[d][j] /\ cmd'[d] = cmd[d]
    BY <1>2, <1>3, <1>4, <2>1
  <2>3. QED
    BY <1>1, <2>2 DEF RecoveryKnows
<1>9. CommandsAsked'
  <2> SUFFICES ASSUME NEW d \in Clients, d # c
               PROVE  /\ cmd'[d].stage # "idle" => Asked(d, cmd[d].req)'
                      /\ cmd'[d].stage = "named" =>
                            /\ cmd'[d].req.op = "open" /\ cmd'[d].req.id \in Ids
                            /\ cmd'[d].req.id <= ids[d]
    BY <1>2 DEF CommandsAsked
  <2>1. cmd'[d] = cmd[d] /\ wants'[d] = wants[d]
    BY <1>2, <1>5
  <2>2. QED
    BY <1>1, <2>1 DEF CommandsAsked, Asked
<1>10. TabsShow'
  <2>1. ASSUME NEW d \in Clients, NEW e \in Clients, NEW j \in Ids, NEW k \in Ids,
               d # e, page'[d][j] # 0, page'[d][j] = page'[e][k]
        PROVE  page'[d][j] \in shared
    <3>1. page'[d][j] = page[d][j] /\ page'[e][k] = page[e][k]
      BY <1>3, <2>1
    <3>2. QED
      BY <1>1, <2>1, <3>1 DEF TabsShow
  <2>2. ASSUME NEW d \in Clients, NEW j \in Ids, wants'[d][j] \in Urls
        PROVE  /\ target'[d][j] \in {"none", wants'[d][j]}
               /\ (page'[d][j] # 0 /\ tab'[page'[d][j]] # "closed" /\ page'[d][j] \notin shared) =>
                      tab'[page'[d][j]] = wants'[d][j]
    <3>1. CASE <<d, j>> = <<c, i>>
      <4>1. d = c /\ j = i
        BY <3>1
      <4>2. QED
        BY <1>3, <1>4, <1>5, <2>2, <4>1
    <3>2. CASE <<d, j>> # <<c, i>>
      <4>1. page'[d][j] = page[d][j] /\ target'[d][j] = target[d][j] /\ wants'[d][j] = wants[d][j]
        BY <1>3, <1>4, <1>5, <3>2
      <4>2. ASSUME page[d][j] # 0, page[d][j] \notin shared
            PROVE  tab'[page[d][j]] = tab[page[d][j]]
        <5>1. page[d][j] # page[c][i]
          BY <1>1, <3>2, <4>2 DEF TabsShow, OwnTabPerId
        <5>2. page[d][j] \in Tabs
          BY <4>2, Types DEF Tabs
        <5>3. QED
          BY <5>1, <5>2
      <4>3. QED
        BY <1>1, <2>2, <4>1, <4>2 DEF TabsShow, Open
    <3>3. QED
      BY <3>1, <3>2
  <2>3. QED
    BY <2>1, <2>2 DEF TabsShow, Open
<1>11. OwnTabPerId'
  <2> SUFFICES ASSUME NEW d \in Clients, NEW j \in Ids, NEW k \in Ids, j # k, page'[d][j] # 0
               PROVE  page'[d][j] # page'[d][k]
    BY DEF OwnTabPerId
  <2>1. page'[d][j] = page[d][j]
    BY <1>3
  <2>2. page'[d][k] \in {page[d][k], 0}
    BY <1>3
  <2>3. QED
    BY <1>1, <2>1, <2>2 DEF OwnTabPerId
<1>12. TabsKnown'
  <2>1. \A t \in Tabs : t > opened => tab'[t] = tab[t]
    BY <1>1, Types DEF PagesKnown, Tabs
  <2>2. \A d \in Clients : cmd'[d].used \subseteq cmd[d].used
    BY <1>2, IdleType
  <2>3. QED
    BY <1>1, <2>1, <2>2 DEF TabsKnown
<1>13. QED
  BY <1>6, <1>7, <1>8, <1>9, <1>10, <1>11, <1>12 DEF BrokerInv, ReadsAreOfTheirPage

LEMMA OpenedKeeps == ASSUME BrokerInv, NEW c \in Clients, Opened(c) PROVE BrokerInv'
<1> DEFINE i == cmd[c].req.id
<1>1. /\ i \in Ids /\ i <= ids[c] /\ Open(page[c][i])
      /\ cmd' = [cmd EXCEPT ![c] = Idle] /\ wants' = [wants EXCEPT ![c][i] = "blank"]
      /\ UNCHANGED <<tab, opened, link, ids, page, target, shared, misread, faults>>
  BY Types DEF Opened, Return, registry, CommandsAsked, Answers
<1>2. page[c][i] # 0 => target[c][i] # "none"
  BY <1>1, Types DEF PagesKnown
<1>3. /\ page' = [page EXCEPT ![c][i] = page[c][i]] /\ target' = [target EXCEPT ![c][i] = target[c][i]]
      /\ target[c][i] \in Places \cup {"none"} /\ "blank" \in Places \cup {"none"} /\ "blank" \notin Urls
  BY <1>1, Types, IdsAreNumbers DEF TypeOK
<1>4. /\ misread' \subseteq {<<"cards", TRUE>>} /\ faults' \in 0..MaxFaults
      /\ link' \in [Clients -> {"none", "ok", "lost", "driver"}]
      /\ \A d \in Clients : link'[d] = "none" => link[d] = "none"
      /\ tab' \in [Tabs -> Places \cup {"closed"}]
      /\ \A t \in Tabs : t # page[c][i] => tab'[t] = tab[t]
  BY <1>1, Types DEF TypeOK, ReadsAreOfTheirPage
<1> HIDE DEF i
<1>5. QED
  BY <1>1, <1>2, <1>3, <1>4, OneIdKeeps

LEMMA NavigateKeeps ==
    ASSUME BrokerInv, NEW c \in Clients, NEW r \in Reqs, Asked(c, r), Navigate(c, r)
    PROVE  BrokerInv'
<1> DEFINE i == r.id
           sent == [tab EXCEPT ![page[c][i]] = r.url]
<1>1. i \in Ids /\ r.url \in Urls /\ Open(page[c][i]) /\ r.url \in Places /\ r.url # "none"
  BY IdsAreNumbers DEF Navigate, Asked, Answers
<1>2. /\ cmd' = [cmd EXCEPT ![c] = Idle] /\ target' = [target EXCEPT ![c][i] = r.url]
      /\ UNCHANGED <<opened, link, ids, page, shared, misread>>
      /\ faults' \in 0..MaxFaults
  BY FaultType DEF Navigate, Return
<1>3. page[c][i] \in Tabs /\ page[c][i] # 0 /\ link[c] # "none"
  BY <1>1, Types DEF Open, Tabs, PagesKnown
<1>4. PICK w \in {r.url, "blank"} :
         /\ wants' = [wants EXCEPT ![c][i] = w] /\ tab' \in {tab, sent}
         /\ w = r.url => tab' = sent
  <2>1. r.url # "blank"
    BY <1>1, IdsAreNumbers
  <2>2. \/ tab' = sent /\ wants' = [wants EXCEPT ![c][i] = r.url]
        \/ tab' \in {tab, sent} /\ wants' = [wants EXCEPT ![c][i] = "blank"]
    BY DEF Navigate
  <2> HIDE DEF i, sent
  <2>3. QED
    BY <2>1, <2>2
<1>5. /\ tab \in [Tabs -> Places \cup {"closed"}] /\ sent \in [Tabs -> Places \cup {"closed"}]
      /\ sent[page[c][i]] = r.url /\ \A t \in Tabs : t # page[c][i] => sent[t] = tab[t]
  BY <1>1, <1>3, Types DEF TypeOK
<1>6. w \in Places \cup {"none"}
  BY <1>1, <1>4, IdsAreNumbers
<1>7. /\ w # "none" => i <= ids[c]
      /\ w \in Urls => r.url = w /\ (page[c][i] # 0 => tab'[page[c][i]] = w)
  <2>1. wants[c][i] # "none" /\ i \in Nat /\ ids[c] \in Nat
    BY <1>1, Types, IdsAreNumbers DEF Asked, Navigate
  <2>2. i <= ids[c]
    BY <1>1, <2>1, Types DEF PagesKnown
  <2>3. QED
    BY <1>1, <1>4, <1>5, <2>2, IdsAreNumbers
<1>8. page' = [page EXCEPT ![c][i] = page[c][i]]
  BY <1>1, <1>2, Types DEF TypeOK
<1>9. /\ misread' \subseteq {<<"cards", TRUE>>}
      /\ link' \in [Clients -> {"none", "ok", "lost", "driver"}]
      /\ \A d \in Clients : link'[d] = "none" => link[d] = "none"
  BY <1>2, Types DEF TypeOK, ReadsAreOfTheirPage
<1>10. /\ tab' \in [Tabs -> Places \cup {"closed"}]
       /\ \A t \in Tabs : t # page[c][i] => tab'[t] = tab[t]
  BY <1>4, <1>5
<1>11. /\ UNCHANGED <<opened, ids, shared>> /\ page[c][i] \in {page[c][i], 0}
       /\ r.url \in Places \cup {"none"} /\ (page[c][i] # 0 => r.url # "none")
       /\ wants' = [wants EXCEPT ![c][i] = w] /\ i \in Ids
       /\ cmd' = [cmd EXCEPT ![c] = Idle] /\ target' = [target EXCEPT ![c][i] = r.url]
       /\ faults' \in 0..MaxFaults
  BY <1>1, <1>2, <1>4
<1> DEFINE v == r.url
<1> HIDE DEF i, sent, v
<1>12. /\ v \in Places \cup {"none"} /\ (page[c][i] # 0 => v # "none")
       /\ target' = [target EXCEPT ![c][i] = v]
       /\ w \in Urls => v = w /\ (page[c][i] # 0 => tab'[page[c][i]] = w)
  BY <1>7, <1>11 DEF v
<1>13. QED
  BY <1>6, <1>7, <1>8, <1>9, <1>10, <1>11, <1>12, OneIdKeeps

LEMMA CloseTabKeeps ==
    ASSUME BrokerInv, NEW c \in Clients, NEW r \in Reqs, Asked(c, r), CloseTab(c, r)
    PROVE  BrokerInv'
<1> DEFINE i == r.id
<1>1. i \in Ids /\ cmd' = [cmd EXCEPT ![c] = Idle] /\ wants' = [wants EXCEPT ![c][i] = "none"]
  BY DEF CloseTab, Asked, Return
<1>2. UNCHANGED <<opened, ids, shared, misread, faults>> /\ Attach(c)
  BY DEF CloseTab
<1>3. /\ misread' \subseteq {<<"cards", TRUE>>} /\ faults' \in 0..MaxFaults
      /\ link' \in [Clients -> {"none", "ok", "lost", "driver"}]
      /\ \A d \in Clients : link'[d] = "none" => link[d] = "none"
  BY <1>2, AttachType, Types DEF TypeOK, ReadsAreOfTheirPage
<1>4. /\ tab \in [Tabs -> Places \cup {"closed"}] /\ page \in [Clients -> [Ids -> 0..MaxTabs]]
      /\ target \in [Clients -> [Ids -> Places \cup {"none"}]]
  BY Types DEF TypeOK
<1>5. PICK p \in {page[c][i], 0}, u \in Places \cup {"none"} :
         /\ page' = [page EXCEPT ![c][i] = p] /\ target' = [target EXCEPT ![c][i] = u]
         /\ p # 0 => u # "none"
         /\ tab' \in [Tabs -> Places \cup {"closed"}]
         /\ \A t \in Tabs : t # page[c][i] => tab'[t] = tab[t]
  <2>1. CASE Answers(c, i)
    <3>1. /\ tab' = [tab EXCEPT ![page[c][i]] = "closed"]
          /\ page' = [page EXCEPT ![c][i] = 0] /\ target' = [target EXCEPT ![c][i] = "none"]
      BY <2>1 DEF CloseTab, Forget
    <3>2. /\ tab' \in [Tabs -> Places \cup {"closed"}]
          /\ \A t \in Tabs : t # page[c][i] => tab'[t] = tab[t]
      BY <1>4, <3>1
    <3>3. QED
      BY <3>1, <3>2
  <2>2. CASE ~Answers(c, i)
    <3>1. UNCHANGED <<tab, page, target>>
      BY <2>2 DEF CloseTab
    <3>2. page[c][i] # 0 => target[c][i] # "none"
      BY <1>1, Types DEF PagesKnown
    <3>3. target[c][i] \in Places \cup {"none"}
      BY <1>1, Types
    <3>4. /\ page' = [page EXCEPT ![c][i] = page[c][i]]
          /\ target' = [target EXCEPT ![c][i] = target[c][i]]
      BY <1>1, <1>4, <3>1
    <3>5. QED
      BY <1>4, <3>1, <3>2, <3>3, <3>4
  <2>3. QED
    BY <2>1, <2>2
<1> DEFINE w == "none"
<1>6. /\ w \in Places \cup {"none"} /\ wants' = [wants EXCEPT ![c][i] = w]
      /\ w # "none" => i <= ids[c]
      /\ w \in Urls => u = w /\ (p # 0 => tab'[p] = w)
      /\ UNCHANGED <<opened, ids, shared>>
  BY <1>1, <1>2, IdsAreNumbers
<1>7. i \in Ids /\ cmd' = [cmd EXCEPT ![c] = Idle]
  BY <1>1
<1> HIDE DEF i, w
<1>8. /\ page' = [page EXCEPT ![c][i] = p] /\ target' = [target EXCEPT ![c][i] = u]
      /\ p \in {page[c][i], 0} /\ u \in Places \cup {"none"} /\ (p # 0 => u # "none")
      /\ tab' \in [Tabs -> Places \cup {"closed"}]
      /\ \A t \in Tabs : t # page[c][i] => tab'[t] = tab[t]
  BY <1>5
<1>9. QED
  BY <1>3, <1>6, <1>7, <1>8, OneIdKeeps

\* An id is bound to a tab of no other id of its client, one that shows what its
\* caller expects, and the tabs it shares are in the history.
Binds(c, i, m, p, u) ==
    /\ cmd' = [cmd EXCEPT ![c] = m] /\ page' = [page EXCEPT ![c][i] = p]
    /\ target' = [target EXCEPT ![c][i] = u]
    /\ UNCHANGED <<wants, misread>> /\ faults' \in 0..MaxFaults
    /\ ids' \in [Clients -> Ids \cup {0}] /\ \A d \in Clients : ids[d] <= ids'[d]
    /\ opened' \in 0..MaxTabs /\ opened <= opened' /\ p <= opened'
    /\ tab' \in [Tabs -> Places \cup {"closed"}]
    /\ \A t \in Tabs : t <= opened => tab'[t] = tab[t]
    /\ \A t \in Tabs : t > opened' => tab'[t] = "closed"
    /\ link' \in [Clients -> {"none", "ok", "lost", "driver"}]
    /\ \A d \in Clients : link'[d] = "none" => link[d] = "none"
    /\ link'[c] # "none"
    /\ \A j \in Ids : j # i => page[c][j] # p
    /\ wants[c][i] \in Urls => u = wants[c][i] /\ tab'[p] = u
    /\ shared' \subseteq Tabs /\ shared \subseteq shared'
    /\ \A d \in Clients : \A j \in Ids : (d # c /\ page[d][j] = p) => p \in shared'
    /\ \A t \in m.used : t <= opened'
    /\ m.stage # "idle" => Asked(c, m.req)
    /\ m.stage = "named" => m.req.op = "open" /\ m.req.id \in Ids /\ m.req.id <= ids'[c]
    /\ m.stage = "restore" =>
          \A j \in Ids : /\ j \in m.left => target'[c][j] # "none"
                         /\ page'[c][j] # 0 => page'[c][j] \in m.used

LEMMA BindKeeps ==
    ASSUME BrokerInv, NEW c \in Clients, NEW i \in Ids, NEW m \in Cmds, NEW p \in Tabs,
           NEW u \in Places, Binds(c, i, m, p, u)
    PROVE  BrokerInv'
<1> USE DEF Binds
<1>1. /\ TypeOK /\ PagesKnown /\ RecoveryKnows /\ CommandsAsked /\ TabsShow
      /\ OwnTabPerId /\ ReadsAreOfTheirPage /\ TabsKnown
  BY Types
<1>2. /\ cmd' \in [Clients -> Cmds] /\ cmd'[c] = m
      /\ \A d \in Clients : d # c => cmd'[d] = cmd[d]
  BY <1>1 DEF TypeOK
<1>3. /\ page' \in [Clients -> [Ids -> 0..MaxTabs]] /\ page'[c][i] = p
      /\ \A d \in Clients : \A j \in Ids : <<d, j>> # <<c, i>> => page'[d][j] = page[d][j]
      /\ \A d \in Clients : d # c => page'[d] = page[d]
  <2>1. p \in 0..MaxTabs /\ p # 0
    BY BrokerConstants DEF Tabs
  <2>2. page \in [Clients -> [Ids -> 0..MaxTabs]]
    BY <1>1 DEF TypeOK
  <2>3. QED
    BY <2>1, <2>2
<1>4. /\ target' \in [Clients -> [Ids -> Places \cup {"none"}]] /\ target'[c][i] = u
      /\ \A d \in Clients : \A j \in Ids : <<d, j>> # <<c, i>> => target'[d][j] = target[d][j]
      /\ \A d \in Clients : d # c => target'[d] = target[d]
  BY <1>1 DEF TypeOK
<1>5. u # "none" /\ wants' = wants /\ misread' = misread
  BY IdsAreNumbers
<1>6. TypeOK'
  <2>1. misread' \subseteq {"page", "cards"} \X BOOLEAN
    BY <1>1 DEF TypeOK
  <2>2. wants' \in [Clients -> [Ids -> Places \cup {"none"}]]
    BY <1>1 DEF TypeOK
  <2>3. QED
    BY <1>2, <1>3, <1>4, <2>1, <2>2 DEF TypeOK
<1>7. PagesKnown'
  <2> SUFFICES ASSUME NEW d \in Clients, NEW j \in Ids
               PROVE  /\ page'[d][j] <= opened'
                      /\ page'[d][j] # 0 => target'[d][j] # "none" /\ link'[d] # "none"
                      /\ j > ids'[d] => wants'[d][j] = "none"
    BY DEF PagesKnown
  <2>1. j > ids'[d] => wants'[d][j] = "none"
    <3>1. ids'[d] \in Nat /\ ids[d] \in Nat /\ j \in Nat
      BY Types, IdsAreNumbers
    <3>2. QED
      BY <1>1, <1>5, <3>1 DEF PagesKnown
  <2>2. CASE <<d, j>> = <<c, i>>
    <3>1. d = c /\ j = i
      BY <2>2
    <3>2. QED
      BY <1>3, <1>4, <1>5, <2>1, <3>1
  <2>3. CASE <<d, j>> # <<c, i>>
    <3>1. page'[d][j] = page[d][j] /\ target'[d][j] = target[d][j]
      BY <1>3, <1>4, <2>3
    <3>2. page[d][j] \in Nat /\ opened \in Nat /\ opened' \in Nat /\ page[d][j] <= opened
      BY <1>1, Types, BrokerConstants DEF PagesKnown
    <3>3. QED
      BY <1>1, <2>1, <3>1, <3>2 DEF PagesKnown
  <2>4. QED
    BY <2>2, <2>3
<1>8. RecoveryKnows'
  <2> SUFFICES ASSUME NEW d \in Clients, cmd'[d].stage = "restore"
               PROVE  \A j \in Ids : /\ j \in cmd'[d].left => target'[d][j] # "none"
                                     /\ page'[d][j] # 0 => page'[d][j] \in cmd'[d].used
    BY DEF RecoveryKnows
  <2>1. CASE d = c
    BY <1>2, <2>1
  <2>2. CASE d # c
    BY <1>1, <1>2, <1>3, <1>4, <2>2 DEF RecoveryKnows
  <2>3. QED
    BY <2>1, <2>2
<1>9. CommandsAsked'
  <2> SUFFICES ASSUME NEW d \in Clients
               PROVE  /\ cmd'[d].stage # "idle" => Asked(d, cmd[d].req)'
                      /\ cmd'[d].stage = "named" =>
                            /\ cmd'[d].req.op = "open" /\ cmd'[d].req.id \in Ids
                            /\ cmd'[d].req.id <= ids'[d]
    BY DEF CommandsAsked
  <2>1. CASE d = c
    BY <1>2, <1>5, <2>1 DEF Asked
  <2>2. CASE d # c
    <3>1. cmd'[d] = cmd[d]
      BY <1>2, <2>2
    <3>2. cmd[d].stage = "named" => cmd[d].req.id \in Nat /\ cmd[d].req.id <= ids[d]
      BY <1>1, IdsAreNumbers DEF CommandsAsked
    <3>3. ids'[d] \in Nat /\ ids[d] \in Nat /\ ids[d] <= ids'[d]
      BY Types, IdsAreNumbers
    <3>4. cmd[d].stage = "named" => cmd[d].req.id <= ids'[d]
      BY <3>2, <3>3
    <3>5. QED
      BY <1>1, <1>5, <3>1, <3>4 DEF CommandsAsked, Asked
  <2>3. QED
    BY <2>1, <2>2
<1>10. TabsShow'
  <2>1. ASSUME NEW d \in Clients, NEW e \in Clients, NEW j \in Ids, NEW k \in Ids,
               d # e, page'[d][j] # 0, page'[d][j] = page'[e][k]
        PROVE  page'[d][j] \in shared'
    <3>1. CASE <<d, j>> = <<c, i>>
      <4>1. e # c /\ page'[d][j] = p /\ page[e][k] = p
        BY <1>3, <2>1, <3>1
      <4>2. QED
        BY <4>1
    <3>2. CASE <<e, k>> = <<c, i>>
      <4>1. d # c /\ page'[d][j] = p /\ page[d][j] = p
        BY <1>3, <2>1, <3>2
      <4>2. QED
        BY <4>1
    <3>3. CASE <<d, j>> # <<c, i>> /\ <<e, k>> # <<c, i>>
      <4>1. page'[d][j] = page[d][j] /\ page'[e][k] = page[e][k]
        BY <1>3, <3>3
      <4>2. page[d][j] \in shared
        BY <1>1, <2>1, <4>1 DEF TabsShow
      <4>3. QED
        BY <4>1, <4>2
    <3>4. QED
      BY <3>1, <3>2, <3>3
  <2>2. ASSUME NEW d \in Clients, NEW j \in Ids, wants[d][j] \in Urls
        PROVE  /\ target'[d][j] \in {"none", wants[d][j]}
               /\ (page'[d][j] # 0 /\ tab'[page'[d][j]] # "closed" /\ page'[d][j] \notin shared') =>
                      tab'[page'[d][j]] = wants[d][j]
    <3>1. CASE <<d, j>> = <<c, i>>
      <4>1. d = c /\ j = i
        BY <3>1
      <4>2. QED
        BY <1>3, <1>4, <2>2, <4>1
    <3>2. CASE <<d, j>> # <<c, i>>
      <4>1. page'[d][j] = page[d][j] /\ target'[d][j] = target[d][j]
        BY <1>3, <1>4, <3>2
      <4>2. page[d][j] # 0 => tab'[page[d][j]] = tab[page[d][j]]
        BY <1>1, Types DEF PagesKnown, Tabs
      <4>3. QED
        BY <1>1, <2>2, <4>1, <4>2 DEF TabsShow, Open
    <3>3. QED
      BY <3>1, <3>2
  <2>3. QED
    BY <1>5, <2>1, <2>2 DEF TabsShow, Open
<1>11. OwnTabPerId'
  <2> SUFFICES ASSUME NEW d \in Clients, NEW j \in Ids, NEW k \in Ids, j # k, page'[d][j] # 0
               PROVE  page'[d][j] # page'[d][k]
    BY DEF OwnTabPerId
  <2>1. CASE d = c /\ j = i
    BY <1>3, <2>1
  <2>2. CASE d = c /\ k = i
    BY <1>3, <2>2
  <2>3. CASE ~(d = c /\ j = i) /\ ~(d = c /\ k = i)
    <3>1. page'[d][j] = page[d][j] /\ page'[d][k] = page[d][k]
      BY <1>3, <2>3
    <3>2. QED
      BY <1>1, <3>1 DEF OwnTabPerId
  <2>4. QED
    BY <2>1, <2>2, <2>3
<1>12. TabsKnown'
  <2>1. ASSUME NEW d \in Clients, NEW t \in cmd'[d].used PROVE t <= opened'
    <3>1. CASE d = c
      BY <1>2, <2>1, <3>1
    <3>2. CASE d # c
      <4>1. t \in cmd[d].used /\ t \in Tabs
        BY <1>2, <2>1, <3>2, Types DEF Cmds
      <4>2. t <= opened /\ t \in Nat /\ opened \in Nat /\ opened' \in Nat
        BY <1>1, <4>1, Types, BrokerConstants DEF TabsKnown, Tabs
      <4>3. QED
        BY <4>2
    <3>3. QED
      BY <3>1, <3>2
  <2>2. QED
    BY <2>1 DEF TabsKnown
<1>13. QED
  BY <1>1, <1>5, <1>6, <1>7, <1>8, <1>9, <1>10, <1>11, <1>12 DEF BrokerInv, ReadsAreOfTheirPage

LEMMA OpenTabKeeps ==
    ASSUME BrokerInv, NEW c \in Clients, NEW r \in Reqs, OpenTab(c, r)
    PROVE  BrokerInv'
<1> DEFINE i == ids[c] + 1
           p == opened + 1
           u == "blank"
           m == [Idle EXCEPT !.req = [r EXCEPT !.id = i],
                             !.stage = "named", !.first = cmd[c].stage = "idle"]
<1>1. /\ r.op = "open" /\ i \in Ids /\ ids[c] \in Nat /\ opened < MaxTabs /\ opened \in Nat
      /\ MaxTabs \in Nat /\ i \in Nat
  BY Types, IdsAreNumbers, BrokerConstants DEF OpenTab, NewTab
<1>2. /\ cmd' = [cmd EXCEPT ![c] = m] /\ page' = [page EXCEPT ![c][i] = p]
      /\ target' = [target EXCEPT ![c][i] = u] /\ ids' = [ids EXCEPT ![c] = i]
      /\ opened' = p /\ tab' = [tab EXCEPT ![p] = u]
      /\ UNCHANGED <<wants, misread>> /\ shared' = shared /\ faults' = faults
  BY DEF OpenTab, NewTab
<1>3. m \in Cmds /\ m.stage = "named" /\ m.req.op = "open" /\ m.req.id = i /\ m.used = {}
  <2>1. (cmd[c].stage = "idle") \in BOOLEAN
    OBVIOUS
  <2>2. [r EXCEPT !.id = i] \in Reqs /\ [r EXCEPT !.id = i].op = "open" /\ [r EXCEPT !.id = i].id = i
    BY <1>1 DEF Reqs
  <2>3. QED
    BY <2>1, <2>2 DEF Idle, NoCmd, Cmds
<1>4. m.stage # "idle" /\ m.stage # "restore" /\ Asked(c, m.req) /\ (\A t \in m.used : t <= opened')
  BY <1>3 DEF Asked
<1>5. /\ p \in Tabs /\ p \in Nat /\ opened' \in 0..MaxTabs /\ opened <= opened' /\ p <= opened'
  BY <1>1, <1>2 DEF Tabs
<1>6. /\ ids' \in [Clients -> Ids \cup {0}] /\ \A d \in Clients : ids[d] <= ids'[d]
      /\ ids'[c] = i /\ i <= ids'[c]
  <2>1. ids \in [Clients -> Ids \cup {0}] /\ ids[c] <= i
    BY <1>1, Types DEF TypeOK
  <2>2. QED
    BY <1>1, <1>2, <2>1, Types, IdsAreNumbers
<1>7. /\ tab' \in [Tabs -> Places \cup {"closed"}] /\ tab'[p] = u
      /\ \A t \in Tabs : t <= opened => tab'[t] = tab[t]
      /\ \A t \in Tabs : t > opened' => tab'[t] = "closed"
  <2>1. tab \in [Tabs -> Places \cup {"closed"}] /\ u \in Places
    BY Types, IdsAreNumbers DEF TypeOK
  <2>2. \A t \in Tabs : t <= opened => t # p
    BY <1>1 DEF Tabs
  <2>3. \A t \in Tabs : t > opened' => t # p /\ tab[t] = "closed"
    BY <1>1, <1>2, Types DEF Tabs, TabsKnown
  <2>4. QED
    BY <1>2, <1>5, <2>1, <2>2, <2>3
<1>8. /\ link' \in [Clients -> {"none", "ok", "lost", "driver"}]
      /\ \A d \in Clients : link'[d] = "none" => link[d] = "none"
      /\ link'[c] # "none"
  BY AttachType DEF OpenTab
<1>9. /\ \A d \in Clients : \A j \in Ids : page[d][j] # p
      /\ wants[c][i] = "none" /\ "none" \notin Urls /\ u \in Places
  <2>1. \A d \in Clients : \A j \in Ids : page[d][j] <= opened /\ page[d][j] \in Nat
    BY Types DEF PagesKnown
  <2>2. wants[c][i] = "none"
    BY <1>1, Types DEF PagesKnown
  <2>3. QED
    BY <1>1, <2>1, <2>2, IdsAreNumbers
<1>10. shared' \subseteq Tabs /\ shared \subseteq shared' /\ faults' \in 0..MaxFaults
  BY <1>2, Types DEF TypeOK
<1> HIDE DEF i, p, u, m
<1>11. wants[c][i] \in Urls => u = wants[c][i] /\ tab'[p] = u
  BY <1>9
<1>12. m.stage = "named" => m.req.op = "open" /\ m.req.id \in Ids /\ m.req.id <= ids'[c]
  BY <1>1, <1>3, <1>6
<1>13. /\ \A j \in Ids : j # i => page[c][j] # p
       /\ \A d \in Clients : \A j \in Ids : (d # c /\ page[d][j] = p) => p \in shared'
       /\ UNCHANGED <<wants, misread>> /\ u \in Places /\ i \in Ids /\ m \in Cmds /\ p \in Tabs
  BY <1>1, <1>2, <1>3, <1>5, <1>9
<1>14. /\ cmd' = [cmd EXCEPT ![c] = m] /\ page' = [page EXCEPT ![c][i] = p]
       /\ target' = [target EXCEPT ![c][i] = u]
  BY <1>2
<1>15. /\ p \in Tabs /\ opened' \in 0..MaxTabs /\ opened <= opened' /\ p <= opened'
       /\ ids' \in [Clients -> Ids \cup {0}] /\ \A d \in Clients : ids[d] <= ids'[d]
       /\ \A t \in m.used : t <= opened'
  BY <1>4, <1>5, <1>6
<1>16. /\ m.stage # "idle" => Asked(c, m.req)
       /\ m.stage = "restore" =>
            \A j \in Ids : /\ j \in m.left => target'[c][j] # "none"
                           /\ page'[c][j] # 0 => page'[c][j] \in m.used
  BY <1>4
<1>17. Binds(c, i, m, p, u)
  BY <1>7, <1>8, <1>10, <1>11, <1>12, <1>13, <1>14, <1>15, <1>16 DEF Binds
<1>18. QED
  BY <1>13, <1>17, BindKeeps

\* A recovery that gives the next id a tab it has not given yet.
LEMMA GivenKeeps ==
    ASSUME BrokerInv, NEW c \in Clients, cmd[c].stage = "restore", link[c] = "ok",
           NEW i \in cmd[c].left, NEW p \in Tabs, p \notin cmd[c].used,
           page' = [page EXCEPT ![c][i] = p],
           cmd' = [cmd EXCEPT ![c].left = @ \ {i}, ![c].used = @ \cup {p}],
           shared' = shared \cup {t \in Tabs : \E d \in Clients \ {c} : t \in Bound(d) /\ t \in Bound(c)'},
           UNCHANGED <<link, ids, target, wants, misread>>,
           opened' \in 0..MaxTabs, opened <= opened', p <= opened',
           tab' \in [Tabs -> Places \cup {"closed"}],
           \A t \in Tabs : t <= opened => tab'[t] = tab[t],
           \A t \in Tabs : t > opened' => tab'[t] = "closed",
           tab'[p] = target[c][i], faults' \in 0..MaxFaults
    PROVE  BrokerInv'
<1> DEFINE used == cmd[c].used \cup {p}
           m == [cmd[c] EXCEPT !.left = @ \ {i}, !.used = used]
           u == target[c][i]
<1>1. /\ TypeOK /\ PagesKnown /\ RecoveryKnows /\ CommandsAsked /\ TabsShow
      /\ cmd[c] \in Cmds /\ i \in Ids
  BY Types DEF Cmds
<1>2. /\ cmd \in [Clients -> Cmds] /\ page \in [Clients -> [Ids -> 0..MaxTabs]]
      /\ target \in [Clients -> [Ids -> Places \cup {"none"}]]
  BY <1>1 DEF TypeOK
<1>3. /\ cmd' = [cmd EXCEPT ![c] = m]
      /\ m \in Cmds /\ m.stage = "restore" /\ m.req = cmd[c].req
      /\ m.left = cmd[c].left \ {i} /\ m.used = used
  BY <1>1, <1>2 DEF Cmds
<1>4. u \in Places /\ target' = [target EXCEPT ![c][i] = u] /\ u # "none"
  BY <1>1, <1>2, Types DEF RecoveryKnows
<1>5. /\ Asked(c, m.req) /\ \A j \in Ids : j # i => page[c][j] # p
      /\ wants[c][i] \in Urls => u = wants[c][i] /\ tab'[p] = u
  <2>1. Asked(c, cmd[c].req)
    BY <1>1 DEF CommandsAsked
  <2>2. ASSUME NEW j \in Ids, page[c][j] = p PROVE p \in cmd[c].used
    <3>1. p # 0
      BY BrokerConstants DEF Tabs
    <3>2. QED
      BY <1>1, <2>2, <3>1 DEF RecoveryKnows
  <2>3. wants[c][i] \in Urls => u = wants[c][i]
    BY <1>1, <1>4 DEF TabsShow
  <2>4. QED
    BY <1>3, <2>1, <2>2, <2>3
<1>6. /\ page'[c][i] = p
      /\ \A j \in Ids : page'[c][j] # 0 => page'[c][j] \in used
      /\ \A j \in Ids : j \in m.left => target'[c][j] # "none"
  BY <1>1, <1>2, <1>3, <1>4 DEF RecoveryKnows
<1>7. \A d \in Clients : \A j \in Ids : (d # c /\ page[d][j] = p) => p \in shared'
  <2> SUFFICES ASSUME NEW d \in Clients, NEW j \in Ids, d # c, page[d][j] = p
               PROVE  p \in shared'
    OBVIOUS
  <2>1. p # 0
    BY DEF Tabs
  <2>2. p \in Bound(d)
    BY <2>1 DEF Bound
  <2>3. p \in Bound(c)'
    BY <1>1, <1>6, <2>1 DEF Bound
  <2>4. QED
    BY <2>2, <2>3
<1>8. /\ link' \in [Clients -> {"none", "ok", "lost", "driver"}]
      /\ \A d \in Clients : link'[d] = "none" => link[d] = "none"
      /\ link'[c] # "none"
      /\ ids' \in [Clients -> Ids \cup {0}]
      /\ shared' \subseteq Tabs /\ shared \subseteq shared'
  BY <1>1 DEF TypeOK
<1>9. /\ \A d \in Clients : ids[d] <= ids'[d]
      /\ \A t \in m.used : t <= opened'
  <2>1. ASSUME NEW t \in cmd[c].used PROVE t <= opened'
    <3>1. t \in Tabs /\ t <= opened
      BY <1>1, Types DEF Cmds, TabsKnown
    <3>2. QED
      BY <3>1, Types, BrokerConstants DEF Tabs
  <2>2. QED
    BY <1>3, <2>1, Types
<1> HIDE DEF m, u, used
<1>10. /\ m.stage # "named" /\ UNCHANGED <<wants, misread>>
       /\ m.stage = "restore" =>
            \A j \in Ids : /\ j \in m.left => target'[c][j] # "none"
                           /\ page'[c][j] # 0 => page'[c][j] \in m.used
       /\ m \in Cmds /\ cmd' = [cmd EXCEPT ![c] = m] /\ u \in Places /\ i \in Ids
       /\ target' = [target EXCEPT ![c][i] = u]
  BY <1>1, <1>3, <1>4, <1>6
<1>11. /\ m.stage # "idle" => Asked(c, m.req)
       /\ m.stage = "named" => m.req.op = "open" /\ m.req.id \in Ids /\ m.req.id <= ids'[c]
       /\ page' = [page EXCEPT ![c][i] = p] /\ p \in Tabs
       /\ opened' \in 0..MaxTabs /\ opened <= opened' /\ p <= opened' /\ faults' \in 0..MaxFaults
  BY <1>5, <1>10
<1>12. Binds(c, i, m, p, u)
  BY <1>5, <1>7, <1>8, <1>9, <1>10, <1>11 DEF Binds
<1>13. QED
  BY <1>10, <1>12, BindKeeps

LEMMA RestoreKeeps == ASSUME BrokerInv, NEW c \in Clients, Restore(c) PROVE BrokerInv'
<1> DEFINE i == Min(cmd[c].left)
           Bind(t) == /\ page' = [page EXCEPT ![c][i] = t]
                      /\ cmd' = [cmd EXCEPT ![c].left = @ \ {i}, ![c].used = @ \cup {t}]
           spread == shared \cup {t \in Tabs : \E d \in Clients \ {c} : t \in Bound(d) /\ t \in Bound(c)'}
<1>1. /\ TypeOK /\ PagesKnown /\ RecoveryKnows /\ cmd[c] \in Cmds /\ cmd[c].stage = "restore"
      /\ opened \in Nat /\ opened \in 0..MaxTabs /\ MaxTabs \in Nat
      /\ tab \in [Tabs -> Places \cup {"closed"}] /\ faults \in 0..MaxFaults
  BY Types, BrokerConstants DEF Restore, TypeOK
<1>2. i \in cmd[c].left /\ i \in Ids
  <2>1. cmd[c].left \subseteq Nat /\ cmd[c].left # {} /\ cmd[c].left \subseteq Ids
    BY <1>1, IdsAreNumbers DEF Cmds, Restore
  <2>2. QED
    BY <2>1, Least
<1>3. /\ shared' = spread
      /\ UNCHANGED <<link, ids, target, wants, misread>>
  BY DEF Restore
<1>4. CASE link[c] = "ok" /\ Reusable(c, i) # {}
  <2> DEFINE p == Min(Reusable(c, i))
  <2>1. Bind(p) /\ UNCHANGED <<tab, opened, faults>>
    BY <1>4 DEF Restore
  <2>2. p \in Reusable(c, i)
    <3>1. Reusable(c, i) \subseteq Nat
      BY DEF Reusable, AtTarget, Tabs
    <3>2. QED
      BY <1>4, <3>1, Least
  <2>3. p \in Tabs /\ p \notin cmd[c].used /\ tab[p] = target[c][i] /\ Open(p)
    BY <2>2 DEF Reusable, AtTarget
  <2>4. p <= opened /\ \A t \in Tabs : t > opened => tab[t] = "closed"
    BY <2>3, <1>1, Types DEF Open, TabsKnown, Tabs
  <2> HIDE DEF i, p
  <2>5. /\ opened' \in 0..MaxTabs /\ opened <= opened' /\ p <= opened'
        /\ tab' \in [Tabs -> Places \cup {"closed"}]
        /\ \A t \in Tabs : t <= opened => tab'[t] = tab[t]
        /\ \A t \in Tabs : t > opened' => tab'[t] = "closed"
        /\ tab'[p] = target[c][i] /\ faults' \in 0..MaxFaults
    BY <1>1, <2>1, <2>3, <2>4
  <2>6. /\ page' = [page EXCEPT ![c][i] = p]
        /\ cmd' = [cmd EXCEPT ![c].left = @ \ {i}, ![c].used = @ \cup {p}]
        /\ p \in Tabs /\ p \notin cmd[c].used /\ i \in cmd[c].left
        /\ cmd[c].stage = "restore" /\ link[c] = "ok"
    BY <1>1, <1>2, <1>4, <2>1, <2>3
  <2>7. QED
    BY <1>3, <2>5, <2>6, GivenKeeps
<1>5. CASE link[c] = "ok" /\ NewTab(target[c][i]) /\ Bind(opened + 1) /\ Fine
  <2> DEFINE p == opened + 1
  <2>1. /\ p \in Tabs /\ opened' = p /\ opened' \in 0..MaxTabs /\ opened <= opened' /\ p <= opened'
        /\ \A t \in Tabs : t <= opened => t # p
    BY <1>1, <1>5 DEF NewTab, Tabs
  <2>2. target[c][i] \in Places
    BY <1>1, <1>2, Types DEF RecoveryKnows
  <2>3. /\ tab' \in [Tabs -> Places \cup {"closed"}] /\ tab'[p] = target[c][i]
        /\ \A t \in Tabs : t <= opened => tab'[t] = tab[t]
        /\ \A t \in Tabs : t > opened' => tab'[t] = "closed"
    <3>1. \A t \in Tabs : t > opened' => t # p /\ tab[t] = "closed"
      BY <1>1, <2>1, Types DEF TabsKnown, Tabs
    <3>2. QED
      BY <1>1, <1>5, <2>1, <2>2, <3>1 DEF NewTab
  <2>4. p \notin cmd[c].used
    BY <1>1, Types DEF TabsKnown
  <2>5. Bind(p) /\ faults' \in 0..MaxFaults
    BY <1>1, <1>5 DEF Fine
  <2> HIDE DEF i, p
  <2>6. QED
    BY <1>1, <1>2, <1>3, <1>5, <2>1, <2>3, <2>4, <2>5, GivenKeeps
<1>6. CASE Return(c) /\ UNCHANGED <<tab, opened, page>> /\ (Fault \/ Fine)
  <2>1. faults' \in 0..MaxFaults /\ cmd' = [cmd EXCEPT ![c] = Idle]
    BY <1>6, FaultType DEF Return
  <2>2. shared' = shared
    BY <1>3, <1>6, Types DEF Bound, TabsShow, TypeOK
  <2>3. UNCHANGED <<tab, opened, link, registry, wants, shared>>
    BY <1>3, <1>6, <2>2 DEF registry
  <2>4. /\ misread' \subseteq {<<"cards", TRUE>>}
        /\ link' \in [Clients -> {"none", "ok", "lost", "driver"}]
        /\ \A d \in Clients : link'[d] = "none" => link[d] = "none"
    BY <1>3, Types DEF ReadsAreOfTheirPage, TypeOK
  <2>5. Idle \in Cmds /\ Idle.stage = "idle" /\ Idle.used \subseteq cmd[c].used
    BY IdleType
  <2>6. QED
    BY <2>1, <2>3, <2>4, <2>5, CommandChanges
<1>7. QED
  BY <1>4, <1>5, <1>6 DEF Restore

-----------------------------------------------------------------------------
(* The theorems.                                                           *)

LEMMA InitHolds == Init => BrokerInv
<1> SUFFICES ASSUME Init PROVE BrokerInv
  OBVIOUS
<1>1. /\ "blank" \in Places /\ 0 \in 0..MaxTabs /\ 1 \in 0..MaxTabs /\ 0 \in 0..MaxFaults
      /\ 1 \in Nat /\ "none" \notin Urls
  BY BrokerConstants, IdsAreNumbers
<1>2. TypeOK
  <2>1. cmd \in [Clients -> Cmds]
    BY IdleType DEF Init
  <2>2. misread \subseteq {"page", "cards"} \X BOOLEAN /\ shared \subseteq Tabs
    BY DEF Init
  <2>3. /\ tab \in [Tabs -> Places \cup {"closed"}] /\ opened \in 0..MaxTabs
        /\ link \in [Clients -> {"none", "ok", "lost", "driver"}] /\ faults \in 0..MaxFaults
        /\ ids \in [Clients -> Ids \cup {0}]
    BY <1>1 DEF Init
  <2>4. /\ page \in [Clients -> [Ids -> 0..MaxTabs]]
        /\ target \in [Clients -> [Ids -> Places \cup {"none"}]]
        /\ wants \in [Clients -> [Ids -> Places \cup {"none"}]]
    BY <1>1 DEF Init
  <2>5. QED
    BY <2>1, <2>2, <2>3, <2>4 DEF TypeOK
<1>3. \A c \in Clients : cmd[c].stage = "idle" /\ cmd[c].used = {}
  BY IdleType DEF Init
<1>4. \A c \in Clients : \A i \in Ids : page[c][i] = 0 /\ wants[c][i] = "none"
  BY DEF Init
<1>5. PagesKnown /\ RecoveryKnows /\ CommandsAsked
  BY <1>1, <1>3, <1>4 DEF Init, PagesKnown, RecoveryKnows, CommandsAsked
<1>6. TabsShow /\ OwnTabPerId /\ ReadsAreOfTheirPage
  BY <1>1, <1>4 DEF Init, TabsShow, OwnTabPerId, ReadsAreOfTheirPage
<1>7. TabsKnown
  BY <1>3 DEF Init, TabsKnown, Tabs
<1>8. QED
  BY <1>2, <1>5, <1>6, <1>7 DEF BrokerInv

LEMMA ExecuteKeeps == ASSUME BrokerInv, NEW c \in Clients, Execute(c) PROVE BrokerInv'
<1>1. PICK r \in Requested(c) : \/ OpenTab(c, r) \/ Navigate(c, r) \/ Read(c, r)
                                \/ CloseTab(c, r) \/ LoseBrowser(c, r)
  BY DEF Execute
<1>2. r \in Reqs /\ Asked(c, r)
  BY RequestIsAsked
<1>3. QED
  BY <1>1, <1>2, OpenTabKeeps, NavigateKeeps, ReadKeeps, CloseTabKeeps, LoseBrowserKeeps

LEMMA StepKeeps == ASSUME BrokerInv, [Next]_vars PROVE BrokerInv'
<1>1. ASSUME NEW c \in Clients, Begin(c) PROVE BrokerInv'
  BY <1>1, ExecuteKeeps, AttachFailsKeeps DEF Begin
<1>2. ASSUME NEW c \in Clients, Work(c) PROVE BrokerInv'
  <2>1. ASSUME cmd[c].stage = "named", LoseBrowser(c, cmd[c].req) PROVE BrokerInv'
    <3>1. cmd[c].req \in Reqs /\ Asked(c, cmd[c].req)
      BY <2>1, Types DEF CommandsAsked
    <3>2. QED
      BY <2>1, <3>1, LoseBrowserKeeps
  <2>2. QED
    BY <1>2, <2>1, ExecuteKeeps, OpenedKeeps, RecoverKeeps, RecoveryFailsKeeps, RestoreKeeps,
       RestoredKeeps DEF Work
<1>3. CASE UNCHANGED vars
  <2>1. UNCHANGED <<tab, opened, link, ids, page, target, wants, cmd, shared, misread, faults>>
    BY <1>3 DEF vars
  <2>2. TypeOK' /\ PagesKnown' /\ RecoveryKnows' /\ CommandsAsked'
    BY <2>1, Types DEF TypeOK, PagesKnown, RecoveryKnows, CommandsAsked, Asked
  <2>3. TabsShow'
    BY <2>1, Types DEF TabsShow, Open
  <2>4. OwnTabPerId' /\ ReadsAreOfTheirPage' /\ TabsKnown'
    BY <2>1, Types DEF OwnTabPerId, ReadsAreOfTheirPage, TabsKnown
  <2>5. QED
    BY <2>2, <2>3, <2>4 DEF BrokerInv
<1>4. QED
  BY <1>1, <1>2, <1>3, DetachKeeps, DriverDiesKeeps, ChromeDiesKeeps DEF Next

\* What is known of pages, tabs, commands and recoveries holds in every state.
THEOREM BrokerInvariant == Spec => []BrokerInv
<1>1. BrokerInv /\ [Next]_vars => BrokerInv'
  BY StepKeeps
<1>2. QED
  BY InitHolds, <1>1, PTL DEF Spec

\* The pages, targets and commands of every client have the types the broker
\* gives them, whatever fails and however often it recovers.
THEOREM BrokerTypeCorrect == Spec => []TypeOK
<1>1. BrokerInv => TypeOK
  BY DEF BrokerInv
<1>2. QED
  BY <1>1, BrokerInvariant, PTL

\* Two ids of a process never drive the same tab: a recovery gives each id a
\* tab it has not given (_recover_browser_pages).
THEOREM IdsHaveOwnTabs == Spec => []OwnTabPerId
<1>1. BrokerInv => OwnTabPerId
  BY DEF BrokerInv
<1>2. QED
  BY <1>1, BrokerInvariant, PTL

\* A detail or result page that a caller accepts is the page it asked for,
\* whatever other processes do with the tab, and cards are from another page
\* only on a tab that two processes held.
THEOREM ReadsAreTrue == Spec => []ReadsAreOfTheirPage
<1>1. BrokerInv => ReadsAreOfTheirPage
  BY DEF BrokerInv
<1>2. QED
  BY <1>1, BrokerInvariant, PTL

=============================================================================
