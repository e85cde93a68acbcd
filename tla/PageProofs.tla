----------------------------- MODULE PageProofs -----------------------------
(* Proofs about the pages of the frontend and the accounts of the server     *)
(* under the administration page, for any number of requests under way, of   *)
(* users and of administrators' browsers. Each page is proved on its own, by *)
(* its part of the next-state relation; the last section takes them together *)
(* as the pages of a tab (Pages).                                            *)
EXTENDS Pages, FiniteSetTheorems, TLAPS

-----------------------------------------------------------------------------
(* The alerts, firewall and packages pages. As long as no load has met       *)
(* another or a command, there is one load at a time, what it brings is not  *)
(* older than its beginning, and the parts it has set so far are shown.      *)

Answer == Nat \cup {None}

DataType ==
    /\ page \in DataRoutes /\ now \in Nat /\ due \in Nat /\ due <= now
    /\ load \in [Loads -> [at : {"off", "asked", "setting"}, got : [AllParts -> Answer],
                           left : Seq(AllParts), by : {None, "page", "command"}]]
    /\ view \in [AllParts -> Answer]
    /\ overlapped \in BOOLEAN

LoadIsFresh(l) ==
    /\ load[l].left # <<>>
    /\ \A q \in PageParts : load[l].got[q] # None => load[l].got[q] >= due
    /\ load[l].at = "asked" => ToSet(load[l].left) = PageParts
    /\ load[l].at = "setting" =>
          /\ linux /\ \A q \in PageParts : load[l].got[q] # None
          /\ \A q \in PageParts \ ToSet(load[l].left) : view[q] # None /\ view[q] >= due

PageIsFresh ==
    \/ unsupported
    \/ \A q \in PageParts : view[q] # None /\ view[q] >= due

LoadsAreFresh ==
    /\ \A k, l \in Active : k = l
    /\ \A l \in Active : LoadIsFresh(l)
    /\ Active = {} /\ ~failed => PageIsFresh

DataInv ==
    /\ DataType
    /\ page = "alerts" => linux /\ ~unsupported
    /\ ~overlapped => LoadsAreFresh

\* The parts of a page are some, and the page shows no others.
LEMMA PartsOfPage ==
    ASSUME page \in DataRoutes
    PROVE  /\ Parts(page) \in Seq(AllParts) /\ Parts(page) # <<>>
           /\ PageParts \subseteq AllParts
           /\ Rendered \subseteq PageParts
           /\ unsupported /\ page # "alerts" => Rendered = {}
<1>1. page \in {"alerts", "firewall", "packages"}
  BY DEF DataRoutes
<1>2. /\ AlertsParts \in Seq(AllParts) /\ FirewallParts \in Seq(AllParts) /\ PackagesParts \in Seq(AllParts)
      /\ AlertsParts # <<>> /\ FirewallParts # <<>> /\ PackagesParts # <<>>
  BY DEF AlertsParts, FirewallParts, PackagesParts, AllParts
<1>3. Parts(page) \in Seq(AllParts) /\ Parts(page) # <<>>
  BY <1>1, <1>2 DEF Parts
<1>4. PageParts \subseteq AllParts
  BY <1>3 DEF PageParts, ToSet
<1>5. ToSet(AlertsParts) = {"config", "status", "history"}
  BY DEF AlertsParts, ToSet
<1>6. Rendered \subseteq PageParts /\ (unsupported /\ page # "alerts" => Rendered = {})
  BY <1>1, <1>5 DEF Rendered, PageParts, Parts, AlertsCards, FirewallCards, PackagesCards
<1> QED BY <1>3, <1>4, <1>6

\* The first element and the others.
LEMMA HeadAndTail ==
    ASSUME NEW S, NEW s \in Seq(S), s # <<>>
    PROVE  /\ ToSet(s) = {Head(s)} \cup ToSet(Tail(s))
           /\ Len(s) <= 1 => ToSet(s) = {Head(s)}
           /\ Len(s) > 1 => Tail(s) # <<>>
           /\ Head(s) \in S /\ Tail(s) \in Seq(S)
<1>1. /\ Len(s) \in Nat \ {0} /\ Head(s) = s[1] /\ DOMAIN s = 1 .. Len(s)
      /\ Tail(s) \in Seq(S) /\ Len(Tail(s)) = Len(s) - 1
      /\ DOMAIN Tail(s) = 1 .. Len(s) - 1
      /\ \A i \in 1 .. Len(s) - 1 : Tail(s)[i] = s[i + 1]
  OBVIOUS
<1>2. ToSet(Tail(s)) \subseteq ToSet(s)
  BY <1>1 DEF ToSet
<1>3. ToSet(s) \subseteq {Head(s)} \cup ToSet(Tail(s))
  <2> SUFFICES ASSUME NEW x \in ToSet(s), x # Head(s) PROVE x \in ToSet(Tail(s))
    OBVIOUS
  <2>1. PICK i \in 1 .. Len(s) : x = s[i]
    BY <1>1 DEF ToSet
  <2>2. i - 1 \in 1 .. Len(s) - 1 /\ (i - 1) + 1 = i
    BY <1>1, <2>1
  <2>3. x = Tail(s)[i - 1]
    BY <1>1, <2>1, <2>2
  <2> QED BY <1>1, <2>2, <2>3 DEF ToSet
<1>4. Head(s) \in ToSet(s)
  BY <1>1 DEF ToSet
<1>5. Len(s) <= 1 => ToSet(s) = {Head(s)}
  BY <1>1 DEF ToSet
<1>6. Len(s) > 1 => Tail(s) # <<>>
  <2>1. Len(s) > 1 => Len(Tail(s)) # 0
    BY <1>1
  <2> QED BY <2>1
<1> QED BY <1>1, <1>2, <1>3, <1>4, <1>5, <1>6

LEMMA DataMount == ASSUME NEW p \in DataRoutes, Mount(p) PROVE DataInv
<1> USE DataAssumption, PartsOfPage DEF Mount
<1>1. page = p /\ page \in DataRoutes /\ now = 1 /\ due = 1 /\ ~overlapped /\ ~unsupported
  OBVIOUS
<1>2. Empty \in [AllParts -> Answer] /\ \A q \in AllParts : Empty[q] = None
  BY DEF Empty, Answer
<1>3. PICK l \in Loads : load = [[k \in Loads |-> Off] EXCEPT ![l] = Begun(p, "page")]
  OBVIOUS
<1>4. DataType
  <2> DEFINE State == [at : {"off", "asked", "setting"}, got : [AllParts -> Answer],
                       left : Seq(AllParts), by : {None, "page", "command"}]
  <2>1. Off \in State /\ Begun(p, "page") \in State
    BY <1>1, <1>2 DEF Begun, Off
  <2> HIDE DEF State
  <2>2. load \in [Loads -> State]
    BY <1>3, <2>1
  <2>3. view \in [AllParts -> Answer]
    BY <1>2
  <2>4. overlapped \in BOOLEAN
    BY Zenon
  <2> QED BY <1>1, <2>2, <2>3, <2>4 DEF DataType, State
<1>5. Active = {l}
  BY <1>3 DEF Active, Begun, Off
<1>6. LoadIsFresh(l)
  BY <1>1, <1>2, <1>3 DEF LoadIsFresh, Begun, PageParts
<1> QED BY <1>1, <1>4, <1>5, <1>6 DEF DataInv, LoadsAreFresh, DataRoutes

\* A load begins.
LEMMA StartKeeps ==
    ASSUME DataInv, NEW l \in Loads, NEW by \in {"page", "command"}, Start(l, by),
           UNCHANGED <<page, linux, now, view, unsupported, failed>>
    PROVE  DataInv'
<1> USE DEF DataInv
<1>1. Begun(page, by) \in [at : {"off", "asked", "setting"}, got : [AllParts -> Answer],
                           left : Seq(AllParts), by : {None, "page", "command"}]
  BY PartsOfPage DEF Begun, Empty, Answer, DataType
<1>2. DataType'
  BY <1>1 DEF Start, DataType
<1>3. ASSUME ~overlapped' PROVE LoadsAreFresh'
  <2>1. Active = {}
    BY <1>3 DEF Start
  <2>2. Active' = {l}
    BY <2>1 DEF Start, Active, Begun, DataType
  <2>3. load'[l] = Begun(page, by)
    BY DEF Start, DataType
  <2>4. \A q \in PageParts : Empty[q] = None
    BY PartsOfPage DEF DataType, Empty
  <2>5. PageParts' = PageParts
    BY DEF PageParts
  <2>6. LoadIsFresh(l)'
    BY <2>3, <2>4, <2>5, PartsOfPage DEF LoadIsFresh, Begun, PageParts, DataType
  <2> QED BY <2>2, <2>6 DEF LoadsAreFresh
<1> QED BY <1>2, <1>3

\* A load ends.
LEMMA EndKeeps ==
    ASSUME DataInv, NEW l \in Active, End(l), DataType',
           UNCHANGED <<page, linux, due, overlapped>>,
           page = "alerts" => ~unsupported',
           failed' \/ (~overlapped => PageIsFresh')
    PROVE  DataInv'
<1>1. load' = [load EXCEPT ![l] = Off]
  BY DEF End
<1>2. Active' = Active \ {l}
  BY <1>1 DEF Active, Off, DataInv, DataType
<1>3. ~overlapped => Active' = {}
  BY <1>2 DEF DataInv, LoadsAreFresh
<1> QED BY <1>3 DEF DataInv, LoadsAreFresh

\* The type of a load that ends.
LEMMA EndType ==
    ASSUME DataInv, NEW l \in Loads, End(l), view' \in [AllParts -> Answer],
           UNCHANGED <<page, now, due, overlapped>>
    PROVE  DataType'
<1>1. Off \in [at : {"off", "asked", "setting"}, got : [AllParts -> Answer],
               left : Seq(AllParts), by : {None, "page", "command"}]
  BY DEF Off, Empty, Answer
<1> QED BY <1>1 DEF DataInv, DataType, End

LEMMA LoadKeeps == ASSUME DataInv, NEW l \in Loads, LoadStep(l) PROVE DataInv'
<1> USE DEF DataInv
<1>0. Empty \in [AllParts -> Answer]
  BY DEF Empty, Answer
<1>1. ASSUME NEW q \in PageParts, Serve(l, q) PROVE DataInv'
  <2>1. /\ load[l].at = "asked" /\ now \in Nat /\ now \in Answer /\ due <= now
        /\ q \in AllParts
    BY <1>1, PartsOfPage DEF Serve, DataType, Answer
  <2>2. /\ load'[l] = [load[l] EXCEPT !.got = [@ EXCEPT ![q] = now]]
        /\ \A k \in Loads \ {l} : load'[k] = load[k]
        /\ DOMAIN load' = Loads
        /\ UNCHANGED <<page, linux, now, view, unsupported, failed, due, overlapped>>
    BY <1>1 DEF Serve, DataType
  <2>3. DataType'
    <3> DEFINE Record == [at : {"off", "asked", "setting"}, got : [AllParts -> Answer],
                          left : Seq(AllParts), by : {None, "page", "command"}]
    <3>1. load[l] \in Record
      BY DEF DataType
    <3>2. [load[l].got EXCEPT ![q] = now] \in [AllParts -> Answer]
      BY <2>1, <3>1
    <3>3. load'[l] \in Record
      BY <2>2, <3>1, <3>2
    <3>4. load' \in [Loads -> Record]
      BY <1>1, <2>2, <3>3 DEF Serve, DataType
    <3> QED BY <2>2, <3>4 DEF DataType
  <2>4. Active' = Active /\ PageParts' = PageParts /\ l \in Active
    <3>1. load'[l].at = load[l].at
      BY <2>2 DEF DataType
    <3>2. Active' = Active
      BY <2>2, <3>1 DEF Active
    <3> QED BY <2>1, <2>2, <3>2 DEF Active, PageParts
  <2>5. ASSUME ~overlapped PROVE LoadIsFresh(l)'
    <3>1. LoadIsFresh(l)
      BY <2>4, <2>5 DEF LoadsAreFresh
    <3>2. /\ load'[l].at = "asked" /\ load'[l].left = load[l].left
          /\ \A r \in PageParts : load'[l].got[r] = IF r = q THEN now ELSE load[l].got[r]
      BY <2>1, <2>2, PartsOfPage DEF DataType
    <3> QED BY <2>1, <2>2, <2>4, <3>1, <3>2 DEF LoadIsFresh
  <2> QED BY <2>2, <2>3, <2>4, <2>5 DEF LoadsAreFresh
<1>2. CASE Unsupported(l)
  <2>1. /\ l \in Active /\ End(l) /\ unsupported' /\ ~linux /\ view' = Empty
        /\ UNCHANGED <<page, linux, now, due, overlapped>>
    BY <1>2 DEF Unsupported, Answered, Active
  <2>2. DataType'
    BY <1>0, <2>1, EndType
  <2> QED BY <2>1, <2>2, EndKeeps DEF PageIsFresh
<1>3. CASE SetParts(l)
  <2>1. /\ load[l].at = "asked" /\ linux /\ \A q \in PageParts : load[l].got[q] # None
        /\ load' = [load EXCEPT ![l].at = "setting"] /\ ~unsupported'
        /\ UNCHANGED <<page, linux, now, view, failed, due, overlapped>>
    BY <1>3 DEF SetParts, Answered
  <2>2. DataType'
    BY <2>1 DEF DataType
  <2>3. Active' = Active /\ PageParts' = PageParts /\ l \in Active
    BY <2>1 DEF Active, PageParts, DataType
  <2>4. ASSUME ~overlapped PROVE LoadIsFresh(l)'
    <3>1. LoadIsFresh(l)
      BY <2>3, <2>4 DEF LoadsAreFresh
    <3>2. load'[l].at = "setting" /\ load'[l].left = load[l].left /\ load'[l].got = load[l].got
      BY <2>1 DEF DataType
    <3> QED BY <2>1, <2>3, <3>1, <3>2 DEF LoadIsFresh
  <2>5. ~overlapped => Active = {l}
    BY <2>3 DEF LoadsAreFresh
  <2> QED BY <2>1, <2>2, <2>3, <2>4, <2>5 DEF LoadsAreFresh
<1>4. CASE ShowPart(l)
  <2> DEFINE left == load[l].left
             q == Head(left)
  <2>1. /\ load[l].at = "setting" /\ l \in Active
        /\ view' = [view EXCEPT ![q] = load[l].got[q]]
        /\ UNCHANGED <<page, linux, now, unsupported, due, overlapped>>
    BY <1>4 DEF ShowPart, Active
  <2>2. left \in Seq(AllParts) /\ load[l].got \in [AllParts -> Answer]
    BY DEF DataType
  <2>3. view' \in [AllParts -> Answer]
    <3>1. CASE q \in AllParts
      BY <2>1, <2>2, <3>1 DEF DataType
    <3>2. CASE q \notin AllParts
      BY <2>1, <3>2 DEF DataType
    <3> QED BY <3>1, <3>2
  <2>4. ASSUME ~overlapped
        PROVE  /\ left # <<>> /\ q \in AllParts /\ ToSet(left) = {q} \cup ToSet(Tail(left))
               /\ \A r \in PageParts \ (ToSet(left) \ {q}) : view'[r] # None /\ view'[r] >= due
    <3>1. LoadIsFresh(l)
      BY <2>1, <2>4 DEF LoadsAreFresh
    <3>2. left # <<>> /\ q \in AllParts /\ ToSet(left) = {q} \cup ToSet(Tail(left))
      BY <2>2, <3>1, HeadAndTail DEF LoadIsFresh
    <3>3. PageParts \subseteq AllParts
      BY PartsOfPage DEF DataType
    <3>4. \A r \in PageParts : view'[r] = IF r = q THEN load[l].got[q] ELSE view[r]
      BY <2>1, <3>3 DEF DataType
    <3>5. ASSUME NEW r \in PageParts \ (ToSet(left) \ {q}) PROVE view'[r] # None /\ view'[r] >= due
      BY <2>1, <3>1, <3>4, <3>5 DEF LoadIsFresh
    <3> QED BY <3>2, <3>5
  <2>5. CASE Len(left) > 1
    <3>1. load' = [load EXCEPT ![l].left = Tail(left)] /\ failed' = failed
      BY <1>4, <2>5 DEF ShowPart
    <3>2. left # <<>> /\ Tail(left) \in Seq(AllParts) /\ Tail(left) # <<>>
      BY <2>2, <2>5, HeadAndTail
    <3>3. DataType'
      BY <2>1, <2>3, <3>1, <3>2 DEF DataType
    <3>4. Active' = Active /\ PageParts' = PageParts
      BY <2>1, <3>1 DEF Active, PageParts, DataType
    <3>5. ASSUME ~overlapped PROVE LoadIsFresh(l)' /\ Active = {l}
      <4>1. LoadIsFresh(l) /\ Active = {l}
        BY <2>1, <3>5 DEF LoadsAreFresh
      <4>2. load'[l].at = "setting" /\ load'[l].left = Tail(left) /\ load'[l].got = load[l].got
        BY <2>1, <3>1 DEF DataType
      <4>3. PageParts \ ToSet(Tail(left)) \subseteq PageParts \ (ToSet(left) \ {q})
        BY <2>4, <3>5
      <4> QED BY <2>1, <2>4, <3>2, <3>4, <3>5, <4>1, <4>2, <4>3 DEF LoadIsFresh
    <3> QED BY <2>1, <3>3, <3>4, <3>5 DEF LoadsAreFresh
  <2>6. CASE ~(Len(left) > 1)
    <3>1. End(l)
      BY <1>4, <2>6 DEF ShowPart
    <3>2. DataType'
      BY <2>1, <2>3, <3>1, EndType
    <3>3. ASSUME ~overlapped PROVE PageIsFresh'
      <4>1. ToSet(left) \ {q} = {}
        BY <2>2, <2>4, <2>6, <3>3, HeadAndTail
      <4>2. PageParts' = PageParts
        BY <2>1 DEF PageParts
      <4> QED BY <2>1, <2>4, <3>3, <4>1, <4>2 DEF PageIsFresh
    <3> QED BY <2>1, <3>1, <3>2, <3>3, EndKeeps
  <2> QED BY <2>5, <2>6
<1>5. CASE LoadFails(l)
  <2>1. /\ l \in Active /\ End(l) /\ failed'
        /\ UNCHANGED <<page, linux, now, view, unsupported, due, overlapped>>
    BY <1>5 DEF LoadFails, Active
  <2>2. DataType'
    BY <2>1, EndType DEF DataType
  <2> QED BY <2>1, <2>2, EndKeeps
<1> QED BY <1>1, <1>2, <1>3, <1>4, <1>5 DEF LoadStep

\* Changes of the server, and commands, leave the loads alone.
LEMMA OthersKeep ==
    ASSUME DataInv, UNCHANGED <<page, linux, load, view, unsupported, failed, due>>,
           now' \in Nat, now' >= now, overlapped' \in BOOLEAN, overlapped => overlapped'
    PROVE  DataInv'
<1>1. DataType'
  BY DEF DataInv, DataType
<1>2. Active' = Active /\ PageParts' = PageParts
  BY DEF Active, PageParts
<1> QED BY <1>1, <1>2 DEF DataInv, LoadsAreFresh, LoadIsFresh, PageIsFresh

LEMMA DataKeeps == DataInv /\ [DataStep]_dataVars => DataInv'
<1> SUFFICES ASSUME DataInv, [DataStep]_dataVars PROVE DataInv'
  OBVIOUS
<1>0. now \in Nat /\ overlapped \in BOOLEAN
  BY DEF DataInv, DataType
<1>1. ASSUME NEW l \in Loads, Refresh(l) PROVE DataInv'
  BY <1>1, StartKeeps DEF Refresh
<1>2. ASSUME NEW l \in Loads, CommandDone(l) PROVE DataInv'
  BY <1>2, StartKeeps DEF CommandDone, Reload
<1>3. CASE Change
  BY <1>0, <1>3, OthersKeep DEF Change
<1>4. CASE Click
  <2>1. overlapped' \in BOOLEAN /\ (overlapped => overlapped')
    BY <1>4, Zenon DEF Click
  <2> QED BY <1>0, <1>4, <2>1, OthersKeep DEF Click
<1>5. CASE CommandServed \/ CommandFailed
  BY <1>0, <1>5, OthersKeep DEF CommandServed, CommandFailed
<1>6. CASE UNCHANGED dataVars
  BY <1>0, <1>6, OthersKeep DEF dataVars
<1> QED BY <1>1, <1>2, <1>3, <1>4, <1>5, <1>6, LoadKeeps DEF DataStep

LEMMA FreshIsShown == DataInv => ShownIsFresh
<1> SUFFICES ASSUME DataInv, Active = {}, ~overlapped, ~failed, NEW q \in Rendered
             PROVE  view[q] >= due
  BY DEF ShownIsFresh
<1>1. PageIsFresh
  BY DEF DataInv, LoadsAreFresh
<1> QED BY <1>1, PartsOfPage DEF DataInv, DataType, PageIsFresh

-----------------------------------------------------------------------------
(* The ports page.                                                          *)

KillState == [at : {"off", "sent", "listing"}, port : PortNumbers \cup {NoPort}]

PortsInv == kills \in [Kills -> KillState] /\ DisabledIsPending

LEMMA PortsInitInv == PortsInit => PortsInv
BY DEF PortsInit, PortsInv, KillState, NoKill, DisabledIsPending

LEMMA PortsStepInv == PortsInv /\ [PortsStep]_portVars => PortsInv'
<1> SUFFICES ASSUME PortsInv, [PortsStep]_portVars PROVE PortsInv'
  OBVIOUS
<1> USE DEF PortsInv, KillState, DisabledIsPending, NoKill
<1>1. ASSUME NEW k \in Kills, KillEnds(k) PROVE PortsInv'
  BY <1>1 DEF KillEnds
<1>2. ASSUME UNCHANGED <<kills, killingPort>> PROVE PortsInv'
  BY <1>2
<1>3. ASSUME NEW i \in Fetches \cup Kills, FetchEnds(i) PROVE PortsInv'
  BY <1>1, <1>2, <1>3 DEF FetchEnds
<1>4. ASSUME NEW i \in Fetches \cup Kills,
             FetchPorts(i) \/ FetchServed(i) \/ FetchArrives(i) \/ FetchFails(i)
      PROVE  PortsInv'
  <2>1. CASE FetchPorts(i) \/ FetchServed(i)
    BY <1>2, <2>1 DEF FetchPorts, FetchServed, Rest
  <2>2. CASE FetchArrives(i) \/ FetchFails(i)
    BY <1>3, <2>2 DEF FetchArrives, FetchFails
  <2> QED BY <1>4, <2>1, <2>2
<1>5. ASSUME NEW k \in Kills, KillSucceeds(k) PROVE PortsInv'
  BY <1>5 DEF KillSucceeds, Rest
<1>6. ASSUME NEW k \in Kills, KillFails(k) PROVE PortsInv'
  BY <1>1, <1>6 DEF KillFails
<1>7. ASSUME NEW k \in Kills, NEW p \in PortNumbers, KillPort(k, p) PROVE PortsInv'
  BY <1>7 DEF KillPort
<1>8. ASSUME BoundChanges PROVE PortsInv'
  BY <1>2, <1>8 DEF BoundChanges
<1>9. ASSUME UNCHANGED portVars PROVE PortsInv'
  BY <1>2, <1>9 DEF portVars
<1> QED BY <1>4, <1>5, <1>6, <1>7, <1>8, <1>9 DEF PortsStep

\* However many kills and requests for the list overlap, a disabled button
\* belongs to a kill that is under way (PortsPage.tsx:58-85 and 131).
THEOREM ButtonsComeBack == PortsSpec => []DisabledIsPending
<1>1. PortsInv => DisabledIsPending
  BY DEF PortsInv
<1> QED BY <1>1, PortsInitInv, PortsStepInv, PTL DEF PortsSpec

-----------------------------------------------------------------------------
(* The numbers of the settings page.                                        *)

SaveState == [at : {"off", "sent", "orphan", "saved", "failed"}, next : Values, prev : Stored]

SettingsType ==
    /\ onServer \in ServerValues \cup Values /\ inStore \in Stored
    /\ info \in ServerValues \cup Values \cup {InfoAsked, InfoOver}
    /\ saves \in [Saves -> SaveState]

\* What a store that follows the server has; a server below one has no say.
Follows(value) == onServer > 0 => value = AtLeast(onServer)

\* The value of the server is known to whoever is at work: the answer of the
\* load, or the one save there is.
Known(i) ==
    /\ saves[i].at # "orphan"
    /\ saves[i].at \in {"sent", "failed"} => Follows(saves[i].prev)
    /\ saves[i].at = "saved" => Follows(inStore)
    /\ saves[i].at = "sent" => saves[i].next = inStore

Together ==
    ~apart =>
        /\ info >= 0 => info = onServer
        /\ info # InfoOver => \A i \in Saves : saves[i].at = "off"
        /\ \A i, j \in Saves : saves[i].at # "off" /\ saves[j].at # "off" => i = j
        /\ \A i \in Saves : Known(i)
        /\ info = InfoOver /\ (\A i \in Saves : saves[i].at = "off") => Follows(inStore)

SettingsInv == SettingsType /\ Together

LEMMA LowInValues ==
    /\ Low \in Values /\ Values \subseteq Nat \ {0} /\ Values \subseteq Stored
    /\ \A value \in Values \cup Stored : AtLeast(value) = value
    /\ \A value \in ServerValues \cup Values : AtLeast(value) \in Stored
    /\ ServerValues \subseteq Nat /\ Stored \subseteq Nat
BY RangeAssumption DEF Values, Stored, AtLeast

\* What a save lets through is a value (SettingsPage.tsx:152 and 183).
LEMMA ClampedInValues == \A input \in Int : Clamped(input) \in Values
BY RangeAssumption DEF Clamped, Values

LEMMA SettingsInitInv == SettingsInit => SettingsInv
BY LowInValues
   DEF SettingsInit, SettingsInv, SettingsType, SaveState, Together, Known, NoSave, InfoAsked, InfoOver

LEMMA SettingsStepType == SettingsType /\ [SettingsStep]_settingVars => SettingsType'
<1> SUFFICES ASSUME SettingsType, [SettingsStep]_settingVars PROVE SettingsType'
  OBVIOUS
<1> USE LowInValues DEF SettingsType, SaveState, InfoAsked, InfoOver
<1>1. CASE InfoServed \/ InfoArrives \/ InfoFails \/ OthersSet
  BY <1>1 DEF InfoServed, InfoArrives, InfoFails, OthersSet
<1>2. CASE ReloadTab
  BY <1>2 DEF ReloadTab, NoSave
<1>3. ASSUME NEW i \in Saves, NEW input \in Inputs, Save(i, input) PROVE SettingsType'
  <2>1. Clamped(input) \in Values
    BY ClampedInValues, RangeAssumption DEF Inputs
  <2> QED BY <1>3, <2>1 DEF Save
<1>4. ASSUME NEW i \in Saves, SaveServed(i) \/ SaveRefused(i) PROVE SettingsType'
  BY <1>4 DEF SaveServed, SaveRefused
<1>5. ASSUME NEW i \in Saves, SaveSucceeds(i) \/ SaveFails(i) \/ OrphanServed(i) PROVE SettingsType'
  <2>1. CASE SaveSucceeds(i)
    BY <2>1 DEF SaveSucceeds, NoSave
  <2>2. CASE SaveFails(i)
    <3>1. RolledBack(i) = saves[i].prev /\ RolledBack(i) \in Stored
      BY DEF RolledBack
    <3> QED BY <2>2, <3>1 DEF SaveFails, NoSave
  <2>3. CASE OrphanServed(i)
    BY <2>3 DEF OrphanServed, NoSave
  <2> QED BY <1>5, <2>1, <2>2, <2>3
<1>6. CASE UNCHANGED settingVars
  BY <1>6 DEF settingVars
<1> QED BY <1>1, <1>2, <1>3, <1>4, <1>5, <1>6 DEF SettingsStep, handleSaveInterval, handleSaveCacheTtl

LEMMA SettingsStepTogether == SettingsInv /\ [SettingsStep]_settingVars => Together'
<1> SUFFICES ASSUME SettingsInv, [SettingsStep]_settingVars PROVE Together'
  OBVIOUS
<1> USE LowInValues DEF SettingsInv, SettingsType, SaveState, Together, Known, Follows, InfoAsked, InfoOver
<1>1. CASE InfoServed
  BY <1>1 DEF InfoServed
<1>2. CASE InfoArrives
  BY <1>2 DEF InfoArrives
<1>3. CASE InfoFails
  BY <1>3 DEF InfoFails
<1>4. CASE ReloadTab
  <2>1. ~apart' => \A i \in Saves : saves'[i] = NoSave
    BY <1>4 DEF ReloadTab
  <2>2. info' = InfoAsked
    BY <1>4 DEF ReloadTab
  <2> QED BY <2>1, <2>2 DEF NoSave
<1>5. ASSUME NEW i \in Saves, NEW input \in Inputs, Save(i, input) PROVE Together'
  <2>1. Clamped(input) \in Values
    BY ClampedInValues, RangeAssumption DEF Inputs
  <2>2. ~apart' => info = InfoOver /\ ~apart /\ \A j \in Saves : saves[j].at = "off"
    <3>1. ~apart' => ~apart /\ UnderWay = {} /\ ~(info # InfoOver)
      BY <1>5, Zenon DEF Save
    <3> QED BY <3>1 DEF UnderWay
  <2>3. saves'[i] = [at |-> "sent", next |-> Clamped(input), prev |-> inStore]
    BY <1>5 DEF Save
  <2>4. \A j \in Saves \ {i} : saves'[j] = saves[j]
    BY <1>5 DEF Save
  <2>5. inStore' = Clamped(input) /\ onServer' = onServer /\ info' = info
    BY <1>5, <2>1 DEF Save
  <2>6. \A j \in Saves : ~apart' /\ saves'[j].at # "off" => j = i
    BY <2>2, <2>4
  <2>7. ~apart' => Follows(inStore)
    BY <2>2
  <2>8. ~apart' => \A j \in Saves : Known(j)'
    <3>1. ~apart' => Known(i)'
      BY <2>3, <2>5, <2>7
    <3>2. ASSUME NEW j \in Saves \ {i}, ~apart' PROVE saves'[j].at = "off"
      BY <2>2, <2>4, <3>2
    <3> QED BY <3>1, <3>2
  <2> QED BY <2>2, <2>3, <2>5, <2>6, <2>8
<1>6. ASSUME NEW i \in Saves, SaveServed(i) PROVE Together'
  BY <1>6 DEF SaveServed
<1>7. ASSUME NEW i \in Saves, SaveRefused(i) PROVE Together'
  BY <1>7 DEF SaveRefused
<1>8. ASSUME NEW i \in Saves, SaveSucceeds(i) PROVE Together'
  BY <1>8 DEF SaveSucceeds, NoSave
<1>9. ASSUME NEW i \in Saves, SaveFails(i) PROVE Together'
  BY <1>9 DEF SaveFails, RolledBack, NoSave
<1>10. ASSUME NEW i \in Saves, OrphanServed(i) PROVE Together'
  <2>1. apart'
    BY <1>10 DEF OrphanServed
  <2> QED BY <2>1
<1>11. CASE UNCHANGED settingVars
  BY <1>11 DEF settingVars
<1>12. CASE OthersSet
  <2>1. ~apart' => info = InfoAsked
    BY <1>12, Zenon DEF OthersSet
  <2>2. UNCHANGED <<inStore, info, saves>> /\ (apart => apart')
    BY <1>12, Zenon DEF OthersSet
  <2> QED BY <2>1, <2>2
<1> QED
  BY <1>1, <1>2, <1>3, <1>4, <1>5, <1>6, <1>7, <1>8, <1>9, <1>10, <1>11, <1>12
     DEF SettingsStep, handleSaveInterval, handleSaveCacheTtl

\* For any range of the page and whatever others give the server, a store that was
\* told the truth keeps to it, over any number of saves one after the other,
\* refused or not, and of reloads (SettingsPage.tsx:145-205,
\* useServerInfo.ts:11-26, store/index.ts:207-218).
THEOREM StoreFollowsServer == SettingsSpec => []StoreIsServer
<1>1. SettingsInv => StoreIsServer
  BY DEF SettingsInv, SettingsType, Together, Follows, StoreIsServer, UnderWay
<1>2. SettingsInv /\ [SettingsStep]_settingVars => SettingsInv'
  BY SettingsStepType, SettingsStepTogether DEF SettingsInv
<1> QED BY <1>1, <1>2, SettingsInitInv, PTL DEF SettingsSpec

-----------------------------------------------------------------------------
(* The commands of the alerts card.                                         *)

OrderState == [kind : {"none", "tested", "muted", "unmuted"}, at : {"off", "sent", "done", "lost"}]

\* An answer that is under way is as true as a toast.
AnswerIsTrue(o) ==
    orders[o].at = "done" =>
        /\ orders[o].kind = "muted" => muted \/ lapsed
        /\ orders[o].kind = "unmuted" => ~muted

MuteInv ==
    /\ orders \in [Orders -> OrderState]
    /\ muted \in BOOLEAN /\ lapsed \in BOOLEAN
    /\ ToldIsTrue
    /\ ~crossed => /\ \A o, q \in Pending : o = q
                   /\ \A o \in Orders : AnswerIsTrue(o)

LEMMA MuteInitInv == MuteInit => MuteInv
<1> SUFFICES ASSUME MuteInit PROVE MuteInv
  OBVIOUS
<1>1. orders \in [Orders -> OrderState] /\ \A o \in Orders : orders[o].at = "off"
  BY DEF MuteInit, OrderState, NoOrder
<1>2. Pending = {}
  BY DEF MuteInit, Pending
<1>3. muted \in BOOLEAN /\ lapsed \in BOOLEAN /\ told = "nothing"
  BY Zenon DEF MuteInit
<1>4. ToldIsTrue
  BY <1>3 DEF ToldIsTrue
<1> QED BY <1>1, <1>2, <1>3, <1>4 DEF MuteInv, AnswerIsTrue

LEMMA MuteStepInv == MuteInv /\ [MuteStep]_muteVars => MuteInv'
<1> SUFFICES ASSUME MuteInv, [MuteStep]_muteVars PROVE MuteInv'
  OBVIOUS
<1> USE DEF MuteInv, OrderState, NoOrder, Pending, ToldIsTrue, AnswerIsTrue
<1>1. ASSUME NEW o \in Orders, NEW kind \in {"tested", "muted", "unmuted"}, Order(o, kind)
      PROVE  MuteInv'
  BY <1>1 DEF Order
<1>2. CASE RefuseMinutes
  BY <1>2 DEF RefuseMinutes
<1>3. ASSUME NEW o \in Orders, OrderServed(o) PROVE MuteInv'
  <2>1. orders' \in [Orders -> OrderState] /\ orders'[o].kind = orders[o].kind
    BY <1>3 DEF OrderServed
  <2>2. orders[o].kind = "muted" => muted' = TRUE
    BY <1>3, Zenon DEF OrderServed
  <2>3. orders[o].kind \in {"unmuted", "none"} => muted' = FALSE
    BY <1>3 DEF OrderServed
  <2>4. orders[o].kind = "tested" => muted' = muted /\ lapsed' = lapsed
    BY <1>3 DEF OrderServed
  <2>5. muted' \in BOOLEAN /\ lapsed' \in BOOLEAN
    BY <1>3, Zenon DEF OrderServed
  <2>6. o \in Pending' /\ crossed' = crossed /\ told' = told
    BY <1>3 DEF OrderServed
  <2>7. Pending' \subseteq Pending
    BY <1>3 DEF OrderServed
  <2>8. ~crossed => \A q \in Orders \ {o} : orders'[q].at = "off"
    BY <1>3, <2>7 DEF OrderServed
  <2> QED BY <2>1, <2>2, <2>3, <2>4, <2>5, <2>6, <2>7, <2>8
<1>4. ASSUME NEW o \in Orders, OrderRefused(o) PROVE MuteInv'
  BY <1>4 DEF OrderRefused
<1>5. ASSUME NEW o \in Orders, OrderEnds(o) PROVE MuteInv'
  BY <1>5 DEF OrderEnds, Toast
<1>6. CASE MuteLapses
  BY <1>6 DEF MuteLapses
<1>7. CASE UNCHANGED muteVars
  BY <1>7 DEF muteVars
<1> QED
  BY <1>1, <1>2, <1>3, <1>4, <1>5, <1>6, <1>7
     DEF MuteStep, handleSendTest, handleMuteAlerts, handleClearMuteAlerts

\* Toasts of commands that do not cross are true (SettingsPage.tsx:263-322).
THEOREM ToastsAreTrue == MuteSpec => []ToldIsTrue
<1>1. MuteInv => ToldIsTrue
  BY DEF MuteInv
<1> QED BY <1>1, MuteInitInv, MuteStepInv, PTL DEF MuteSpec

-----------------------------------------------------------------------------
(* The form of the alerts. What was not touched since the form took the      *)
(* server's is the server's, in the form and in the payload of a save.       *)

FormInv ==
    /\ alertLoad = "sent" => save = "off" /\ alertConfig = NoConfig
    /\ alertConfig # NoConfig /\ ~others /\ "fields" \notin edited => fields = config.fields
    /\ \A s \in SecretNames \ edited : ~rotate[s] /\ ~clear[s]
    /\ save # "off" =>
          /\ "fields" \notin edited => payload.fields = fields
          /\ \A s \in SecretNames \ edited : s \notin payload.set \cup payload.clear
    /\ save = "saved" /\ ~others => config.fields = payload.fields

FormType ==
    /\ rotate \in [SecretNames -> BOOLEAN] /\ clear \in [SecretNames -> BOOLEAN]
    /\ DOMAIN config = {"fields", "secrets"}

LEMMA FormStart == FormInit => FormType /\ FormInv
BY DEF FormInit, FormType, FormInv, NoFlags

LEMMA FormKeeps == FormType /\ FormInv /\ [FormStep]_formVars => FormType' /\ FormInv'
<1> SUFFICES ASSUME FormType, FormInv, [FormStep]_formVars PROVE FormType' /\ FormInv'
  OBVIOUS
<1> USE DEF FormType, FormInv, Setup, Form
<1>1. CASE LoadArrives
  BY <1>1 DEF LoadArrives, Loaded, ResetSecrets, NoFlags
<1>2. CASE AlertLoadFails
  BY <1>2 DEF AlertLoadFails
<1>3. CASE Edit
  BY <1>3 DEF Edit, Enabled
<1>4. ASSUME NEW s \in SecretNames, Rotate(s) PROVE FormType' /\ FormInv'
  BY <1>4 DEF Rotate, Enabled
<1>5. ASSUME NEW s \in SecretNames, TypeSecret(s) PROVE FormType' /\ FormInv'
  BY <1>5 DEF TypeSecret, Enabled
<1>6. ASSUME NEW s \in SecretNames, ClearSecret(s) PROVE FormType' /\ FormInv'
  BY <1>6 DEF ClearSecret, Enabled
<1>7. CASE SaveAlerts
  BY <1>7 DEF SaveAlerts, Enabled
<1>8. CASE SaveAlertsServed
  BY <1>8 DEF SaveAlertsServed
<1>9. CASE SaveAlertsSucceeds
  BY <1>9 DEF SaveAlertsSucceeds, ResetSecrets, NoFlags
<1>10. CASE SaveAlertsFails
  BY <1>10 DEF SaveAlertsFails
<1>11. CASE OthersSave
  BY <1>11 DEF OthersSave
<1>12. CASE UNCHANGED formVars
  BY <1>12 DEF formVars
<1> QED
  BY <1>1, <1>2, <1>3, <1>4, <1>5, <1>6, <1>7, <1>8, <1>9, <1>10, <1>11, <1>12 DEF FormStep

\* What a step of the form may do to the configuration of the server.
OnlyTouchedStep ==
    save = "sent" /\ alertConfig # NoConfig /\ ~others' =>
         /\ "fields" \notin edited => config'.fields = config.fields
         /\ \A s \in SecretNames \ edited : config'.secrets[s] = config.secrets[s]

LEMMA FormTouches == FormType /\ FormInv /\ [FormStep]_formVars => OnlyTouchedStep
<1> SUFFICES ASSUME FormType, FormInv, FormStep, config' # config, save = "sent",
                    alertConfig # NoConfig, ~others'
             PROVE  OnlyTouchedStep
  BY DEF OnlyTouchedStep, formVars
<1>1. SaveAlertsServed
  BY DEF FormStep, LoadArrives, AlertLoadFails, Edit, Rotate, TypeSecret, ClearSecret,
         SaveAlerts, SaveAlertsSucceeds, SaveAlertsFails, OthersSave
<1>2. /\ config'.fields = payload.fields
      /\ config'.secrets = [s \in SecretNames |-> IF s \in payload.clear THEN NoConfig
                               ELSE IF s \in payload.set THEN "new" ELSE config.secrets[s]]
      /\ ~others
  BY <1>1 DEF SaveAlertsServed
<1> QED BY <1>2 DEF FormInv, OnlyTouchedStep

-----------------------------------------------------------------------------
(* The accounts of the server. *)

Payload ==
    [at : {"idle", "sent", "read", "count", "write", "finish", "done"},
     op : {"none", "create", "update", "delete"}, id : Users \cup {Nil},
     role : Roles \cup {Nil}, password : {"good", "bad", Nil}, ok : BOOLEAN]

\* An update and a delete name a user; a create names a role.
WellFormed(c) ==
    /\ req[c].at \in {"count", "write", "finish"} => req[c].op \in {"update", "delete"}
    /\ req[c].op = "create" => req[c].role \in Roles
    /\ req[c].op \in {"update", "delete"} => req[c].id \in Users

AccountsType ==
    /\ role \in [Users -> Roles \cup {"unborn", "gone"}]
    /\ session \in [Clients -> [user : Users, role : Roles] \cup {Nil}]
    /\ req \in [Clients -> Payload]
    /\ crowded \in BOOLEAN
    /\ \A c \in Clients : WellFormed(c)

LEMMA AccountsInitType == AccountsInit => AccountsType
<1> SUFFICES ASSUME AccountsInit PROVE AccountsType
  OBVIOUS
<1> USE DEF AccountsInit
<1>1. session \in [Clients -> [user : Users, role : Roles] \cup {Nil}]
  BY DEF Admins, Roles
<1>2. req \in [Clients -> Payload] /\ \A c \in Clients : WellFormed(c)
  BY DEF Payload, NoRequest, WellFormed
<1> QED BY <1>1, <1>2 DEF AccountsType, Roles

\* An answer, whatever it says, leaves the requests what they were.
LEMMA ReplyType ==
    ASSUME AccountsType, NEW c \in Clients, NEW ok \in BOOLEAN, Reply(c, ok)
    PROVE  req' \in [Clients -> Payload] /\ \A d \in Clients : WellFormed(d)'
<1> DEFINE answered == [req[c] EXCEPT !.at = "done", !.ok = ok]
<1>1. req \in [Clients -> Payload] /\ req[c] \in Payload
  BY DEF AccountsType
<1>2. req' = [req EXCEPT ![c] = answered]
  BY <1>1 DEF Reply, Payload
<1>3. /\ answered \in Payload /\ answered.at = "done"
      /\ answered.op = req[c].op /\ answered.role = req[c].role /\ answered.id = req[c].id
  BY <1>1 DEF Payload
<1> HIDE DEF answered
<1>4. req' \in [Clients -> Payload]
  BY <1>1, <1>2, <1>3
<1>5. \A d \in Clients : req'[d] = IF d = c THEN answered ELSE req[d]
  BY <1>1, <1>2
<1>6. \A d \in Clients : WellFormed(d)'
  BY <1>3, <1>5 DEF AccountsType, WellFormed
<1> QED BY <1>4, <1>6

LEMMA AccountsStepType == AccountsType /\ [AccountsStep]_accounts => AccountsType'
<1> SUFFICES ASSUME AccountsType, [AccountsStep]_accounts PROVE AccountsType'
  OBVIOUS
<1> USE AccountsAssumption DEF AccountsType, WellFormed, Payload, Roles
<1>1. ASSUME NEW c \in Clients, Asks(c) PROVE AccountsType'
  <2>1. PICK op \in {"create", "update", "delete"}, u \in Users \cup {Nil}, r \in Roles \cup {Nil},
             p \in {"good", "bad", Nil} :
          /\ Send(c, op, u, r, p)
          /\ op = "create" => r \in Roles
          /\ op \in {"update", "delete"} => u \in Users
    BY <1>1 DEF Asks
  <2>2. req' \in [Clients -> Payload]
    BY <2>1 DEF Send
  <2>3. ASSUME NEW d \in Clients PROVE WellFormed(d)'
    BY <2>1 DEF Send
  <2> QED BY <2>1, <2>2, <2>3 DEF Send
<1>2. ASSUME NEW c \in Clients, Authorise(c) PROVE AccountsType'
  BY <1>2 DEF Authorise, Reply, Goto
<1>3. ASSUME NEW c \in Clients, Create(c) PROVE AccountsType'
  <2>1. req' \in [Clients -> Payload] /\ \A d \in Clients : WellFormed(d)'
    <3>1. Reply(c, TRUE) \/ Reply(c, FALSE)
      BY <1>3 DEF Create
    <3> QED BY <3>1, ReplyType
  <2>2. role' \in [Users -> Roles \cup {"unborn", "gone"}]
    BY <1>3 DEF Create
  <2> QED BY <1>3, <2>1, <2>2 DEF Create
<1>4. ASSUME NEW c \in Clients, ReadUser(c) PROVE AccountsType'
  BY <1>4 DEF ReadUser, Reply, Goto
<1>5. ASSUME NEW c \in Clients, CountAdmins(c) PROVE AccountsType'
  BY <1>5 DEF CountAdmins, Reply, Goto
<1>6. ASSUME NEW c \in Clients, WriteUser(c) PROVE AccountsType'
  <2>1. req' \in [Clients -> Payload] /\ \A d \in Clients : WellFormed(d)'
    BY <1>6 DEF WriteUser, Reply, Goto
  <2>2. role' \in [Users -> Roles \cup {"unborn", "gone"}]
    BY <1>6 DEF WriteUser
  <2> QED BY <1>6, <2>1, <2>2 DEF WriteUser
<1>7. ASSUME NEW c \in Clients, Finish(c) PROVE AccountsType'
  <2>1. req' \in [Clients -> Payload] /\ \A d \in Clients : WellFormed(d)'
    <3>1. PICK ok \in BOOLEAN : Reply(c, ok)
      BY <1>7 DEF Finish, Exists
    <3>2. Reply(c, TRUE) \/ Reply(c, FALSE)
      BY <3>1
    <3> QED BY <3>2, ReplyType
  <2>2. session' \in [Clients -> [user : Users, role : Roles] \cup {Nil}]
    BY <1>7 DEF Finish, DeleteByUserID
  <2>3. role' = role /\ crowded' = crowded
    BY <1>7 DEF Finish, Exists
  <2> QED BY <2>1, <2>2, <2>3
<1>8. ASSUME NEW c \in Clients, ReplyArrives(c) PROVE AccountsType'
  BY <1>8 DEF ReplyArrives, NoRequest
<1>9. CASE UNCHANGED accounts
  BY <1>9 DEF accounts
<1> QED
  BY <1>1, <1>2, <1>3, <1>4, <1>5, <1>6, <1>7, <1>8, <1>9 DEF AccountsStep, ServerStep

-----------------------------------------------------------------------------
(* The last administrator.                                                  *)

\* Requests that have been let in and have not written yet.
AtWork(c) == req[c].at \in {"read", "count", "write"}

\* The write of c takes an administrator away.
Takes(c) == req[c].at = "write" /\ (req[c].op = "delete" \/ req[c].role = "viewer")

\* As long as no two requests were at work at one time, the count is still true
\* at the write.
CountHolds ==
    ~crowded =>
        /\ \A c, d \in Clients : AtWork(c) /\ AtWork(d) => c = d
        /\ \A c \in Clients : Takes(c) => Admins \ {req[c].id} # {}
        /\ Admins # {}

LEMMA TwoAdmins ==
    ASSUME IsFiniteSet(Users), NEW u, ~IsLastAdmin(Admins)
    PROVE  Admins \ {u} # {}
<1>1. IsFiniteSet(Admins)
  BY FS_Subset DEF Admins
<1>2. SUFFICES ASSUME Admins \ {u} = {} PROVE FALSE
  OBVIOUS
<1>3. CASE Admins = {}
  BY <1>1, <1>3, FS_EmptySet DEF IsLastAdmin
<1>4. CASE Admins = {u}
  <2>1. Cardinality(Admins) = 1
    BY <1>4, FS_Singleton
  <2> QED BY <2>1 DEF IsLastAdmin
<1> QED BY <1>2, <1>3, <1>4

LEMMA CountHoldsInit == AccountsInit => CountHolds
BY DEF AccountsInit, CountHolds, AtWork, Takes, NoRequest

LEMMA CountHoldsStep ==
    AccountsType /\ AccountsType' /\ CountHolds /\ [AccountsStep]_accounts => CountHolds'
<1> SUFFICES ASSUME AccountsType, AccountsType', CountHolds, [AccountsStep]_accounts, ~crowded'
             PROVE  CountHolds'
  BY DEF CountHolds
<1>0. ~crowded
  BY DEF AccountsStep, Asks, Send, ServerStep, Authorise, Create, ReadUser, CountAdmins,
         WriteUser, Finish, ReplyArrives, accounts
<1>a. /\ \A c, d \in Clients : AtWork(c) /\ AtWork(d) => c = d
      /\ \A c \in Clients : Takes(c) => Admins \ {req[c].id} # {}
      /\ Admins # {}
  BY <1>0 DEF CountHolds
<1>c. req \in [Clients -> Payload] /\ role \in [Users -> Roles \cup {"unborn", "gone"}]
  BY DEF AccountsType
\* A step of c that leaves the table alone and lets nobody in.
<1>d. ASSUME NEW c \in Clients, role' = role, AtWork(c)' => AtWork(c),
             Takes(c)' => Admins \ {req'[c].id} # {},
             \A d \in Clients \ {c} : req'[d] = req[d]
      PROVE  CountHolds'
  BY <1>a, <1>d DEF CountHolds, AtWork, Takes, Admins
<1>1. ASSUME NEW c \in Clients, Asks(c) PROVE CountHolds'
  BY <1>1, <1>c, <1>d DEF Asks, Send, AtWork, Takes, Payload
<1>2. ASSUME NEW c \in Clients, Authorise(c) PROVE CountHolds'
  <2>1. \A d \in Clients \ {c} : ~AtWork(d)
    BY <1>2 DEF Authorise, AtWork
  <2>2. /\ role' = role /\ ~Takes(c)'
        /\ \A d \in Clients \ {c} : req'[d] = req[d]
    BY <1>2, <1>c DEF Authorise, Reply, Goto, Takes, Payload
  <2> QED BY <1>a, <2>1, <2>2 DEF CountHolds, AtWork, Takes, Admins
<1>3. ASSUME NEW c \in Clients, Create(c) PROVE CountHolds'
  <2>1. /\ ~AtWork(c)' /\ ~Takes(c)'
        /\ \A d \in Clients \ {c} : req'[d] = req[d]
    BY <1>3, <1>c DEF Create, Reply, AtWork, Takes, Payload
  <2>2. Admins \subseteq Admins'
    BY <1>3, <1>c DEF Create, Admins
  <2> QED BY <1>a, <2>1, <2>2 DEF CountHolds, AtWork, Takes
<1>4. ASSUME NEW c \in Clients, ReadUser(c) PROVE CountHolds'
  <2>1. Takes(c)' => Admins \ {req'[c].id} # {}
    BY <1>4, <1>a, <1>c DEF ReadUser, Reply, Goto, Takes, TakesAnAdmin, Admins, Payload
  <2>2. /\ role' = role /\ AtWork(c)
        /\ \A d \in Clients \ {c} : req'[d] = req[d]
    BY <1>4, <1>c DEF ReadUser, Reply, Goto, AtWork, Payload
  <2> QED BY <1>d, <2>1, <2>2
<1>5. ASSUME NEW c \in Clients, CountAdmins(c) PROVE CountHolds'
  <2>0. Takes(c)' => ~IsLastAdmin(Admins)
    BY <1>5, <1>c DEF CountAdmins, Reply, Goto, Takes, Payload
  <2>1. Takes(c)' => Admins \ {req'[c].id} # {}
    BY <2>0, TwoAdmins, AccountsAssumption
  <2>2. /\ role' = role /\ AtWork(c)
        /\ \A d \in Clients \ {c} : req'[d] = req[d]
    BY <1>5, <1>c DEF CountAdmins, Reply, Goto, AtWork, Payload
  <2> QED BY <1>d, <2>1, <2>2
<1>6. ASSUME NEW c \in Clients, WriteUser(c) PROVE CountHolds'
  <2>1. /\ AtWork(c) /\ ~AtWork(c)'
        /\ \A d \in Clients \ {c} : req'[d] = req[d]
    BY <1>6, <1>c DEF WriteUser, Reply, Goto, AtWork, Payload
  <2>2. \A d \in Clients : ~AtWork(d)'
    BY <1>a, <2>1 DEF AtWork
  <2>3. Admins' # {}
    <3>1. CASE Takes(c)
      <4>1. PICK v \in Admins : v # req[c].id
        BY <1>a, <3>1
      <4>2. v \in Admins'
        BY <1>6, <1>c, <4>1 DEF WriteUser, Admins
      <4> QED BY <4>2
    <3>2. CASE ~Takes(c)
      <4>1. Admins \subseteq Admins'
        BY <1>6, <1>c, <3>2 DEF WriteUser, Takes, Admins, Payload, Roles
      <4> QED BY <1>a, <4>1
    <3> QED BY <3>1, <3>2
  <2> QED BY <2>2, <2>3 DEF CountHolds, AtWork, Takes
<1>7. ASSUME NEW c \in Clients, Finish(c) PROVE CountHolds'
  BY <1>7, <1>c, <1>d DEF Finish, Reply, AtWork, Takes, Payload
<1>8. ASSUME NEW c \in Clients, ReplyArrives(c) PROVE CountHolds'
  BY <1>8, <1>c, <1>d DEF ReplyArrives, NoRequest, AtWork, Takes, Payload
<1>9. CASE UNCHANGED accounts
  BY <1>9, <1>a DEF accounts, CountHolds, AtWork, Takes, Admins
<1> QED
  BY <1>1, <1>2, <1>3, <1>4, <1>5, <1>6, <1>7, <1>8, <1>9 DEF AccountsStep, ServerStep

\* Whatever administrators ask for, as long as no two requests are at work at
\* one time there is an administrator left (store.go:278-284 and 314-322).
THEOREM AnAdminRemains == AccountsSpec => []LastAdminKept
<1>1. CountHolds => LastAdminKept
  BY DEF CountHolds, LastAdminKept
<1> QED
  BY <1>1, AccountsInitType, AccountsStepType, CountHoldsInit, CountHoldsStep, PTL DEF AccountsSpec

-----------------------------------------------------------------------------
(* The administration page. It sends what the server takes for a request,    *)
(* one at a time, and waits with its reload until the answer is there: while *)
(* nobody else writes, the list the reload brings is the table.              *)

Lists == [Users -> Roles \cup {Nil}]

AdminType ==
    /\ users \in Lists /\ roleDraft \in Lists
    /\ loads \in [{"mount", "reload"} ->
                    [at : {"off", "sent", "served"}, list : Lists \cup {Nil}]]
    /\ deleteTarget \in Users \cup {Nil}
    /\ rivals \in Nat /\ busy \in BOOLEAN

\* The handler at work is the one that sent the request of this page.
HandlerHasRequest ==
    /\ busy <=> req[Page].at # "idle"
    /\ loads["reload"] # NoLoad => req[Page].at = "done"

AloneAtWork ==
    rivals = 0 =>
        /\ \A c \in Rivals : req[c].at = "idle"
        /\ loads["reload"].at = "served" =>
              loads["reload"].list = Nil \/ loads["reload"].list = ListUsers
        /\ ListIsTrue

AdminInv == AccountsType /\ AdminType /\ HandlerHasRequest /\ AloneAtWork

LEMMA ListUsersIsList == ListUsers \in Lists
BY DEF ListUsers, Lists, Exists

LEMMA SetUsersType == ASSUME AdminType, NEW list \in Lists, SetUsers(list)
                      PROVE  users' \in Lists /\ roleDraft' \in Lists
BY DEF AdminType, SetUsers, Lists

LEMMA AdminStart == AdminInit => AdminInv
<1> SUFFICES ASSUME AdminInit PROVE AdminInv
  OBVIOUS
<1>1. AccountsType
  BY AccountsInitType DEF AdminInit
<1>2. AdminType
  <2>1. Nobody \in Lists /\ users = Nobody /\ roleDraft = Nobody
    BY DEF AdminInit, Lists, Nobody
  <2>2. loads \in [{"mount", "reload"} -> [at : {"off", "sent", "served"}, list : Lists \cup {Nil}]]
    BY DEF AdminInit, Sent, NoLoad
  <2>3. busy \in BOOLEAN
    BY Zenon DEF AdminInit
  <2> QED BY <2>1, <2>2, <2>3 DEF AdminInit, AdminType
<1>3. \A c \in Clients : req[c].at = "idle"
  BY DEF AdminInit, AccountsInit, NoRequest
<1>4. busy = FALSE /\ loads["reload"] = NoLoad /\ toast = Nil
  BY DEF AdminInit
<1> QED BY <1>1, <1>2, <1>3, <1>4, AccountsAssumption, AdminAssumption
        DEF AdminInv, HandlerHasRequest, AloneAtWork, ListIsTrue, NoLoad, Rivals

\* A handler of the page asks the server for something it may be asked for.
LEMMA BeginAsks ==
    ASSUME AdminInv,
           \/ \E u \in Users : SaveUser(u)
           \/ \E r \in Roles : CreateUser(r)
           \/ ConfirmDelete
    PROVE  /\ Asks(Page)
           /\ ~busy /\ busy' = TRUE
           /\ UNCHANGED <<users, roleDraft, loads, deleteTarget, toast, rivals, overtaken>>
<1> USE DEF Begin, Asks, shown
<1>1. ASSUME NEW u \in Users, SaveUser(u)
      PROVE  Asks(Page) /\ ~busy /\ busy' = TRUE
             /\ UNCHANGED <<users, roleDraft, loads, deleteTarget, toast, rivals, overtaken>>
  <2>1. PICK p \in {"good", "bad", Nil} : Begin("update", u, RoleToSend(u), p)
    BY <1>1 DEF SaveUser
  <2>2. RoleToSend(u) \in Roles \cup {Nil}
    BY DEF RoleToSend, AdminInv, AdminType, Lists
  <2> QED BY <2>1, <2>2
<1>2. ASSUME NEW r \in Roles, CreateUser(r)
      PROVE  Asks(Page) /\ ~busy /\ busy' = TRUE
             /\ UNCHANGED <<users, roleDraft, loads, deleteTarget, toast, rivals, overtaken>>
  BY <1>2 DEF CreateUser
<1>3. ASSUME ConfirmDelete
      PROVE  Asks(Page) /\ ~busy /\ busy' = TRUE
             /\ UNCHANGED <<users, roleDraft, loads, deleteTarget, toast, rivals, overtaken>>
  BY <1>3 DEF ConfirmDelete, AdminInv, AdminType
<1> QED BY <1>1, <1>2, <1>3

\* To the server the page and its rivals are clients like any others.
LEMMA AdminAccounts == AdminInv /\ [AdminStep]_adminVars => [AccountsStep]_accounts
<1> SUFFICES ASSUME AdminInv, [AdminStep]_adminVars PROVE AccountsStep \/ UNCHANGED accounts
  OBVIOUS
<1> USE AdminAssumption
<1>1. CASE \E k \in DOMAIN loads : ServeLoad(k) \/ LoseLoad(k)
  BY <1>1 DEF ServeLoad, LoseLoad
<1>2. CASE MountLoadArrives
  BY <1>2 DEF MountLoadArrives
<1>3. CASE ReloadArrives
  <2>1. loads["reload"] # NoLoad
    BY <1>3 DEF ReloadArrives, NoLoad
  <2>2. ReplyArrives(Page)
    BY <1>3, <2>1 DEF ReloadArrives, ReplyArrives, AdminInv, HandlerHasRequest
  <2> QED BY <2>2 DEF AccountsStep
<1>4. CASE WriteAnswered
  BY <1>4 DEF WriteAnswered, AccountsStep
<1>5. CASE \E u \in Users : TypePassword(u) \/ SaveNothing(u) \/ OpenDialog(u) \/ \E r \in Roles : PickRole(u, r)
  BY <1>5 DEF TypePassword, SaveNothing, OpenDialog, PickRole
<1>6. CASE (\E u \in Users : SaveUser(u)) \/ (\E r \in Roles : CreateUser(r)) \/ ConfirmDelete
  BY <1>6, BeginAsks DEF AccountsStep
<1>7. CASE CancelDialog
  BY <1>7 DEF CancelDialog
<1>8. ASSUME NEW c \in Rivals, RivalSends(c) \/ RivalAnswered(c) PROVE AccountsStep
  <2>1. c \in Clients
    BY DEF Rivals
  <2>2. CASE RivalSends(c)
    <3>1. Asks(c)
      BY <2>2 DEF RivalSends, Asks
    <3> QED BY <2>1, <3>1 DEF AccountsStep
  <2> QED BY <1>8, <2>1, <2>2 DEF RivalAnswered, AccountsStep
<1>9. ASSUME NEW c \in Clients, Server(c) PROVE AccountsStep
  BY <1>9 DEF Server, AccountsStep
<1>10. CASE UNCHANGED adminVars
  BY <1>10 DEF adminVars
<1> QED
  BY <1>1, <1>2, <1>3, <1>4, <1>5, <1>6, <1>7, <1>8, <1>9, <1>10 DEF AdminStep, Loading

\* The page stays as it is, and with it whatever it knows of the server.
LEMMA PageRests ==
    ASSUME AdminInv, AccountsType',
           UNCHANGED <<accounts, users, loads, busy, rivals, overtaken>>,
           roleDraft' \in Lists, deleteTarget' \in Users \cup {Nil}, toast' \in {toast, "error"}
    PROVE  AdminInv'
<1>1. ListUsers' = ListUsers
  BY DEF ListUsers, Exists, accounts
<1>2. Rivals' = Rivals /\ req' = req
  BY DEF Rivals, accounts
<1> QED BY <1>1, <1>2 DEF AdminInv, AdminType, HandlerHasRequest, AloneAtWork, ListIsTrue

\* The lists that come in.
LEMMA ListsKeep ==
    ASSUME AdminInv, AccountsType',
           MountLoadArrives \/ ReloadArrives \/ \E k \in DOMAIN loads : ServeLoad(k) \/ LoseLoad(k)
    PROVE  AdminInv'
<1> USE AdminAssumption, AccountsAssumption DEF AdminInv
<1>0. role' = role => ListUsers' = ListUsers
  BY DEF ListUsers, Exists
<1>1. ASSUME NEW k \in DOMAIN loads, ServeLoad(k) \/ LoseLoad(k) PROVE AdminInv'
  <2>1. k \in {"mount", "reload"} /\ loads[k].at = "sent"
    BY <1>1 DEF AdminType, ServeLoad, LoseLoad
  <2>2. PICK list \in {ListUsers, Nil} : loads' = [loads EXCEPT ![k] = [at |-> "served", list |-> list]]
    BY <1>1 DEF ServeLoad, LoseLoad
  <2>3. UNCHANGED <<role, req, users, roleDraft, busy, deleteTarget, toast, rivals, overtaken>>
    BY <1>1 DEF ServeLoad, LoseLoad, shown, accounts
  <2>4. AdminType'
    BY <2>1, <2>2, <2>3, ListUsersIsList DEF AdminType
  <2>5. loads[k] # NoLoad
    BY <2>1 DEF NoLoad
  <2>6. HandlerHasRequest'
    BY <2>1, <2>2, <2>3, <2>5 DEF HandlerHasRequest, AdminType
  <2>7. loads'["reload"] = loads["reload"] \/ loads'["reload"].list \in {ListUsers, Nil}
    BY <2>1, <2>2 DEF AdminType
  <2>8. AloneAtWork'
    BY <1>0, <2>3, <2>7 DEF AloneAtWork, ListIsTrue, Rivals
  <2> QED BY <2>4, <2>6, <2>8
<1>2. CASE MountLoadArrives
  <2>1. /\ loads' = [loads EXCEPT !["mount"] = NoLoad] /\ loads["mount"].at = "served"
        /\ UNCHANGED <<role, req, busy, deleteTarget, toast, rivals>>
        /\ overtaken' = (overtaken \/ busy \/ toast # Nil)
    BY <1>2 DEF MountLoadArrives, accounts
  <2>2. users' \in Lists /\ roleDraft' \in Lists
    BY <1>2, SetUsersType DEF MountLoadArrives, AdminType, shown
  <2>3. AdminType'
    BY <2>1, <2>2 DEF AdminType, NoLoad
  <2>4. HandlerHasRequest' /\ loads'["reload"] = loads["reload"]
    BY <2>1 DEF HandlerHasRequest, AdminType
  <2>5. AloneAtWork'
    BY <1>0, <2>1, <2>4 DEF AloneAtWork, ListIsTrue, Rivals
  <2> QED BY <2>3, <2>4, <2>5
<1>3. CASE ReloadArrives
  <2> DEFINE list == loads["reload"].list
  <2>1. /\ loads' = [loads EXCEPT !["reload"] = NoLoad] /\ loads["reload"].at = "served"
        /\ busy' = FALSE /\ req' = [req EXCEPT ![Page] = NoRequest]
        /\ UNCHANGED <<role, rivals, overtaken>> /\ deleteTarget' \in {Nil, deleteTarget}
    BY <1>3 DEF ReloadArrives
  <2>2. \/ list # Nil /\ SetUsers(list) /\ toast' = "success"
        \/ (UNCHANGED shown \/ (list # Nil /\ SetUsers(list))) /\ toast' = "error"
    BY <1>3 DEF ReloadArrives, ShowReloaded
  <2>3. list \in Lists \cup {Nil}
    BY DEF AdminType
  <2>4. users' \in Lists /\ roleDraft' \in Lists
    BY <2>2, <2>3, SetUsersType DEF AdminType, shown
  <2>5. AdminType'
    BY <2>1, <2>4 DEF AdminType, NoLoad
  <2>6. req'[Page].at = "idle" /\ (\A c \in Rivals : req'[c] = req[c]) /\ loads'["reload"] = NoLoad
    BY <2>1 DEF NoRequest, Rivals, AccountsType, AdminType
  <2>7. HandlerHasRequest'
    BY <2>1, <2>6 DEF HandlerHasRequest
  <2>8. ASSUME rivals = 0, toast' = "success" PROVE users' = ListUsers
    BY <2>1, <2>2, <2>8 DEF AloneAtWork, SetUsers
  <2>9. AloneAtWork'
    BY <1>0, <2>1, <2>6, <2>8 DEF AloneAtWork, ListIsTrue, NoLoad, Rivals
  <2> QED BY <2>5, <2>7, <2>9
<1> QED BY <1>1, <1>2, <1>3

\* The handlers of the page, from the click to the answer.
LEMMA HandlersKeep ==
    ASSUME AdminInv, AccountsType',
           \/ WriteAnswered \/ CancelDialog \/ ConfirmDelete
           \/ \E u \in Users : \/ \E r \in Roles : PickRole(u, r)
                               \/ TypePassword(u)
                               \/ SaveUser(u) \/ SaveNothing(u) \/ OpenDialog(u)
           \/ \E r \in Roles : CreateUser(r)
    PROVE  AdminInv'
<1> USE AdminAssumption, AccountsAssumption DEF AdminInv
<1>1. CASE (\E u \in Users : SaveUser(u)) \/ (\E r \in Roles : CreateUser(r)) \/ ConfirmDelete
  <2>1. Asks(Page) /\ ~busy /\ busy' = TRUE
        /\ UNCHANGED <<users, roleDraft, loads, deleteTarget, toast, rivals, overtaken>>
    BY <1>1, BeginAsks
  <2>2. req'[Page].at = "sent" /\ \A c \in Rivals : req'[c] = req[c]
    BY <2>1 DEF Asks, Send, Rivals, AccountsType
  <2>3. loads["reload"] = NoLoad
    BY <2>1 DEF HandlerHasRequest
  <2>4. AdminType' /\ HandlerHasRequest'
    BY <2>1, <2>2, <2>3 DEF AdminType, HandlerHasRequest
  <2>5. AloneAtWork'
    BY <2>1, <2>2, <2>3 DEF AloneAtWork, ListIsTrue, NoLoad, Rivals
  <2> QED BY <2>4, <2>5
<1>2. CASE WriteAnswered
  <2>1. /\ req[Page].at = "done" /\ loads["reload"] = NoLoad
        /\ UNCHANGED <<users, roleDraft, deleteTarget, rivals, overtaken, role>>
    BY <1>2 DEF WriteAnswered, shown, ReplyArrives, accounts
  <2>2. busy /\ (role' = role => ListUsers' = ListUsers)
    BY <2>1 DEF HandlerHasRequest, ListUsers, Exists
  <2>3. CASE loads' = [loads EXCEPT !["reload"] = Sent] /\ UNCHANGED <<accounts, busy, toast>>
    <3>1. loads'["reload"] = Sent /\ AdminType' /\ req' = req
      BY <2>1, <2>3 DEF AdminType, Sent, accounts
    <3> QED BY <2>1, <2>2, <2>3, <3>1 DEF HandlerHasRequest, AloneAtWork, ListIsTrue, Sent, Rivals
  <2>4. CASE toast' = "error" /\ busy' = FALSE /\ ReplyArrives(Page) /\ UNCHANGED loads
    <3>1. req'[Page].at = "idle" /\ \A c \in Rivals : req'[c] = req[c]
      BY <2>4 DEF ReplyArrives, NoRequest, Rivals, AccountsType
    <3>2. AdminType'
      BY <2>1, <2>4 DEF AdminType
    <3>3. HandlerHasRequest'
      BY <2>1, <2>4, <3>1 DEF HandlerHasRequest
    <3>4. ~ (toast' = "success") /\ loads'["reload"].at = "off"
      BY <2>1, <2>4 DEF NoLoad
    <3>5. AloneAtWork'
      BY <2>1, <3>1, <3>4 DEF AloneAtWork, ListIsTrue, Rivals
    <3> QED BY <3>2, <3>3, <3>5
  <2> QED BY <1>2, <2>3, <2>4 DEF WriteAnswered
<1>3. ASSUME NEW u \in Users, NEW r \in Roles, PickRole(u, r) PROVE AdminInv'
  <2>1. roleDraft' \in Lists
    BY <1>3 DEF PickRole, AdminType, Lists
  <2> QED BY <1>3, <2>1, PageRests DEF PickRole, AdminType
<1>4. ASSUME NEW u \in Users, TypePassword(u) \/ SaveNothing(u) \/ OpenDialog(u) PROVE AdminInv'
  BY <1>4, PageRests DEF TypePassword, SaveNothing, OpenDialog, AdminType, shown
<1>5. CASE CancelDialog
  BY <1>5, PageRests DEF CancelDialog, AdminType, shown
<1> QED BY <1>1, <1>2, <1>3, <1>4, <1>5

\* The server works on the request of the page, or of a rival if there was one.
LEMMA ServerKeeps ==
    ASSUME AdminInv, AccountsType', NEW c \in Clients, Server(c)
    PROVE  AdminInv'
<1> USE AdminAssumption DEF AdminInv
<1>1. /\ UNCHANGED <<users, roleDraft, loads, busy, deleteTarget, toast, rivals, overtaken>>
      /\ ServerStep(c)
  BY DEF Server, shown
<1>2. /\ req[c].at \notin {"idle", "done"} /\ req'[c].at # "idle"
      /\ \A d \in Clients \ {c} : req'[d] = req[d]
  BY <1>1 DEF ServerStep, Authorise, Create, ReadUser, CountAdmins, WriteUser, Finish, Reply, Goto,
              AccountsType, Payload
<1>3. AdminType'
  BY <1>1 DEF AdminType
<1>4. CASE c = Page
  <2>1. busy /\ loads["reload"] = NoLoad /\ \A d \in Rivals : req'[d] = req[d]
    BY <1>2, <1>4 DEF HandlerHasRequest, Rivals
  <2> QED BY <1>1, <1>2, <1>3, <1>4, <2>1 DEF HandlerHasRequest, AloneAtWork, ListIsTrue, NoLoad, Rivals
<1>5. CASE c # Page
  <2>1. c \in Rivals /\ rivals # 0 /\ req'[Page] = req[Page]
    BY <1>2, <1>5 DEF AloneAtWork, Rivals
  <2> QED BY <1>1, <1>3, <2>1 DEF HandlerHasRequest, AloneAtWork
<1> QED BY <1>4, <1>5

LEMMA RivalsKeep ==
    ASSUME AdminInv, AccountsType', NEW c \in Rivals, RivalSends(c) \/ RivalAnswered(c)
    PROVE  AdminInv'
<1> USE AdminAssumption DEF AdminInv
<1>1. c \in Clients /\ c # Page
  BY DEF Rivals
<1>2. /\ UNCHANGED <<users, roleDraft, loads, busy, deleteTarget, toast, overtaken>>
      /\ \A d \in Clients \ {c} : req'[d] = req[d]
  BY <1>1 DEF RivalSends, RivalAnswered, Send, ReplyArrives, shown, AccountsType
<1>3. rivals' \in Nat /\ rivals' # 0
  <2>1. CASE RivalSends(c)
    BY <2>1 DEF RivalSends, AdminType
  <2>2. CASE RivalAnswered(c)
    BY <2>2 DEF RivalAnswered, ReplyArrives, AloneAtWork, AdminType
  <2> QED BY <2>1, <2>2
<1> QED BY <1>1, <1>2, <1>3 DEF AdminType, HandlerHasRequest, AloneAtWork

LEMMA AdminKeeps == AdminInv /\ [AdminStep]_adminVars => AdminInv'
<1> SUFFICES ASSUME AdminInv, [AdminStep]_adminVars PROVE AdminInv'
  OBVIOUS
<1>1. AccountsType'
  BY AdminAccounts, AccountsStepType DEF AdminInv
<1>2. CASE UNCHANGED adminVars
  BY <1>1, <1>2, PageRests DEF adminVars, shown, AdminInv, AdminType
<1> QED BY <1>1, <1>2, ListsKeep, HandlersKeep, ServerKeeps, RivalsKeep DEF AdminStep, Loading

-----------------------------------------------------------------------------
(* The pages of a tab. A step of the tab is a step of the page that is open, *)
(* and leaves the others where they are.                                     *)

LEMMA StepsOfPages ==
    [Next]_pageVars =>
        /\ [DataStep]_dataVars /\ [PortsStep]_portVars /\ [SettingsStep]_settingVars
        /\ [FormStep]_formVars /\ [MuteStep]_muteVars /\ [AdminStep]_adminVars
BY DEF Next, pageVars

LEMMA PagesStart ==
    Init => /\ DataInv /\ PortsInit /\ SettingsInit /\ FormType /\ FormInv /\ MuteInit
            /\ AccountsInit /\ AdminInv
<1> SUFFICES ASSUME Init PROVE DataInv /\ FormType /\ FormInv /\ AdminInv /\ AccountsInit
  BY DEF Init
<1>1. (IF route \in DataRoutes THEN route ELSE "alerts") \in DataRoutes
  BY DEF DataRoutes
<1>2. DataInv
  BY <1>1, DataMount DEF Init
<1>3. FormType /\ FormInv
  BY FormStart DEF Init
<1>4. AdminInv /\ AccountsInit
  BY AdminStart DEF Init, AdminInit
<1> QED BY <1>2, <1>3, <1>4

\* The specification of the pages without its fairness.
PagesSafety == Init /\ [][Next]_pageVars

LEMMA PagesAreSafe == Spec => PagesSafety
BY DEF Spec, PagesSafety

\* Whatever loads and data there are: at rest a page shows no part that is older
\* than its last load or than the last command that succeeded, unless loads
\* overlapped or the last one failed (AlertsPage.tsx:24-47, FirewallPage.tsx:15-40,
\* PackagesPage.tsx:14-35).
THEOREM PagesShowFreshData == Spec => []ShownIsFresh
<1>1. DataInv /\ [Next]_pageVars => DataInv'
  BY StepsOfPages, DataKeeps
<1>2. Init => DataInv
  BY PagesStart
<1> QED BY <1>1, <1>2, FreshIsShown, PagesAreSafe, PTL DEF PagesSafety

\* With any secrets: a form that was loaded changes on the server what was touched
\* and nothing else, as long as nobody else saves (SettingsPage.tsx:84-131 and
\* 207-261).
THEOREM FormsChangeWhatWasTouched == Spec => OnlyTouchedChanges
<1>1. FormType /\ FormInv /\ [Next]_pageVars => FormType' /\ FormInv' /\ [OnlyTouchedStep]_formVars
  BY StepsOfPages, FormKeeps, FormTouches
<1>2. Init => FormType /\ FormInv
  BY PagesStart
<1>3. Spec => [][OnlyTouchedStep]_formVars
  BY <1>1, <1>2, PagesAreSafe, PTL DEF PagesSafety
<1> QED BY <1>3 DEF OnlyTouchedChanges, OnlyTouchedStep

\* With any number of users and rival administrators: after a write that succeeded
\* the page shows the table, unless a rival wrote or the load of the mount came in
\* late (AdminPage.tsx:51-60, 71-79 and 145-146).
THEOREM AdminListIsTrue == Spec => []ListIsTrue
<1>1. AdminInv /\ [Next]_pageVars => AdminInv'
  BY StepsOfPages, AdminKeeps
<1>2. Init => AdminInv
  BY PagesStart
<1>3. AdminInv => ListIsTrue
  BY DEF AdminInv, AloneAtWork, AdminType, ListIsTrue
<1> QED BY <1>1, <1>2, <1>3, PagesAreSafe, PTL DEF PagesSafety

\* The administration page uses the accounts as any administrators do: its clicks,
\* answers and reloads, and what its rivals ask for, are a behaviour of the
\* accounts on their own (AdminPage.tsx:81-175, handlers.go:258-366).
LEMMA AdminPageUsesAccounts == Spec => AccountsSpec
<1>1. AdminInv /\ [Next]_pageVars => AdminInv' /\ [AccountsStep]_accounts
  BY StepsOfPages, AdminKeeps, AdminAccounts
<1>2. Init => AdminInv /\ AccountsInit
  BY PagesStart
<1> QED BY <1>1, <1>2, PagesAreSafe, PTL DEF PagesSafety, AccountsSpec

\* What was proved of a page or of the accounts on their own holds for the tab:
\* buttons come back, the store keeps to the server, toasts are true, and an
\* administrator remains.
THEOREM PagesKeepTheirPromises ==
    Spec => [](DisabledIsPending /\ StoreIsServer /\ ToldIsTrue /\ LastAdminKept)
<1>1. Spec => PortsSpec /\ SettingsSpec /\ MuteSpec
  <2>1. Init => PortsInit /\ SettingsInit /\ MuteInit
    BY PagesStart
  <2> QED BY <2>1, StepsOfPages, PagesAreSafe, PTL DEF PagesSafety, PortsSpec, SettingsSpec, MuteSpec
<1> QED
  BY <1>1, ButtonsComeBack, StoreFollowsServer, ToastsAreTrue, AdminPageUsesAccounts,
     AnAdminRemains, PTL
=============================================================================
