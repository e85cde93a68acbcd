------------------------------ MODULE TabProofs ------------------------------
(* Proofs about a tab of the browser: the mounts of useWebSocket with their  *)
(* charts, and signing in and out (TabSession), and the wake-up of the scan  *)
(* page (ScanUI).                                                            *)
EXTENDS TabSession, ScanUI, SequenceTheorems, TLAPS

-----------------------------------------------------------------------------
(* The mounts of the hook. One is mounted at a time; one that is left is     *)
(* never mounted again; a slot that is off has no socket and no snapshot.    *)

HookType ==
    /\ hook \in [Hooks -> {"off", "mounted", "left"}]
    /\ conn \in [Hooks -> {"none", "connecting", "open", "waiting", "closing"}]
    /\ inbox \in [Hooks -> Nat] /\ count \in Nat

OneMounted ==
    /\ \A g, h \in Mounted : g = h
    /\ \A h \in Hooks : hook[h] = "off" => conn[h] = "none" /\ inbox[h] = 0

\* A snapshot on its way is younger than what the charts show, as long as only
\* the mounted hook has put anything there.
ChartsBehind ==
    /\ history \in Seq(Nat) /\ Len(history) = HISTORY_LENGTH
    /\ \A h \in Hooks : inbox[h] <= count
    /\ \A i \in 1 .. HISTORY_LENGTH : history[i] <= count
    /\ ~strays => \A h \in Mounted : inbox[h] # 0 =>
                      \A i \in 1 .. HISTORY_LENGTH : history[i] < inbox[h]

HooksInv == HookType /\ OneMounted /\ ChartsBehind /\ HistoryInOrder /\ ConnectionShown

LEMMA HooksInit == TabInit => HooksInv
<1> SUFFICES ASSUME TabInit PROVE HooksInv
  OBVIOUS
<1> USE TabAssumption DEF TabInit
<1>1. HookType
  BY DEF HookType
<1>2. Mounted = {}
  BY DEF Mounted
<1>3. OneMounted /\ ConnectionShown
  BY <1>2, Zenon DEF OneMounted, ConnectionShown
<1>4. history \in Seq(Nat) /\ Len(history) = HISTORY_LENGTH /\ \A i \in 1 .. HISTORY_LENGTH : history[i] = 0
  OBVIOUS
<1>5. ChartsBehind /\ HistoryInOrder
  BY <1>2, <1>4 DEF ChartsBehind, HistoryInOrder
<1> QED BY <1>1, <1>3, <1>5 DEF HooksInv

\* Steps after which every mounted hook was there before with the snapshot it
\* has, or is new and has none, leave the charts behind.
LEMMA ChartsSame ==
    ASSUME HooksInv, HookType', UNCHANGED <<history, count>>, strays' = strays,
           \A h \in Hooks : inbox'[h] \in {0, inbox[h]},
           \A h \in Mounted' : inbox'[h] # 0 => h \in Mounted
    PROVE  ChartsBehind' /\ HistoryInOrder'
<1> USE DEF HooksInv
<1>1. HistoryInOrder'
  BY DEF HistoryInOrder
<1>0. count \in Nat /\ \A h \in Hooks : inbox[h] <= count
  BY DEF HookType, ChartsBehind
<1>2. \A h \in Hooks : inbox'[h] <= count'
  <2> HIDE DEF HooksInv
  <2> QED BY <1>0
<1>3. ~strays' => \A h \in Mounted' : inbox'[h] # 0 =>
                     \A i \in 1 .. HISTORY_LENGTH : history'[i] < inbox'[h]
  <2> SUFFICES ASSUME ~strays', NEW h \in Mounted', inbox'[h] # 0, NEW i \in 1 .. HISTORY_LENGTH
               PROVE  history[i] < inbox'[h]
    OBVIOUS
  <2>1. h \in Mounted /\ h \in Hooks /\ inbox'[h] = inbox[h]
    BY DEF Mounted
  <2> QED BY <2>1 DEF ChartsBehind
<1> QED BY <1>1, <1>2, <1>3 DEF ChartsBehind

\* What may happen to the mounts when somebody signs in or out.
LEMMA SetAuthUserHooks ==
    ASSUME HooksInv, NEW user, SetAuthUser(user), UNCHANGED <<isConnected, history, count>>
    PROVE  HooksInv'
<1> USE DEF HooksInv
<1>1. CASE user # None /\ Mounted = {}
  <2>1. PICK h \in Hooks : MountHook(h)
    BY <1>1 DEF SetAuthUser
  <2>2. HookType'
    BY <2>1 DEF MountHook, HookType
  <2>3. Mounted' = {h} /\ Leaked' = Leaked /\ inbox' = inbox /\ inbox[h] = 0 /\ conn'[h] = "connecting"
    BY <1>1, <2>1 DEF MountHook, HookType, OneMounted, Mounted, Leaked
  <2>4. \A g \in Hooks : hook'[g] = "off" => hook[g] = "off" /\ conn'[g] = conn[g]
    BY <2>1 DEF MountHook, HookType
  <2>5. OneMounted'
    BY <2>3, <2>4 DEF OneMounted
  <2>6. ConnectionShown'
    BY <1>1, <2>3 DEF ConnectionShown
  <2>7. ChartsBehind' /\ HistoryInOrder'
    BY <2>1, <2>2, <2>3, ChartsSame DEF MountHook, HookType
  <2> QED BY <2>2, <2>5, <2>6, <2>7
<1>2. CASE user = None
  <2>1. UnmountHooks
    BY <1>2 DEF SetAuthUser
  <2>2. HookType'
    BY <2>1 DEF UnmountHooks, CleanUp, HookType, Mounted
  <2>3. Mounted' = {} /\ Leaked \subseteq Leaked'
    BY <2>1 DEF UnmountHooks, HookType, Mounted, Leaked
  <2>4. \A h \in Hooks : inbox'[h] \in {0, inbox[h]}
    BY <2>1 DEF UnmountHooks, HookType
  <2>5. OneMounted'
    BY <2>1, <2>3 DEF UnmountHooks, HookType, OneMounted, Mounted
  <2>6. \A h \in Mounted : conn[h] = "open" => h \in Leaked'
    BY <2>1 DEF UnmountHooks, HookType, Mounted, Leaked, CleanUp
  <2>7. ConnectionShown'
    BY <2>3, <2>6 DEF ConnectionShown
  <2>8. ChartsBehind' /\ HistoryInOrder'
    BY <2>1, <2>2, <2>3, <2>4, ChartsSame DEF UnmountHooks
  <2> QED BY <2>2, <2>5, <2>7, <2>8
<1>3. CASE UNCHANGED refs
  BY <1>3, ChartsSame DEF refs, HookType, OneMounted, Mounted, Leaked, ConnectionShown
<1> QED BY <1>1, <1>2, <1>3 DEF SetAuthUser

\* Steps that leave the mounts alone.
LEMMA HooksSame ==
    ASSUME HooksInv, UNCHANGED <<hook, conn, inbox, strays, isConnected, history, count>>
    PROVE  HooksInv'
BY ChartsSame DEF HooksInv, HookType, OneMounted, Mounted, Leaked, ConnectionShown

LEMMA ReloadHooks == ASSUME HooksInv, Reload PROVE HooksInv'
<1> USE TabAssumption DEF HooksInv, Reload
<1>1. HookType'
  BY DEF HookType
<1>2. Mounted' = {}
  BY DEF Mounted
<1>3. OneMounted' /\ ConnectionShown'
  BY <1>2 DEF OneMounted, ConnectionShown
<1>4. history' \in Seq(Nat) /\ Len(history') = HISTORY_LENGTH /\ \A i \in 1 .. HISTORY_LENGTH : history'[i] = 0
  OBVIOUS
<1>5. ChartsBehind' /\ HistoryInOrder'
  BY <1>2, <1>4 DEF ChartsBehind, HistoryInOrder, HookType
<1> QED BY <1>1, <1>3, <1>5

\* The steps of a socket and of its timer.
LEMMA SocketHooks ==
    ASSUME HooksInv, NEW h \in Hooks, OnOpen(h) \/ OnClose(h) \/ TimerFires(h) \/ Drop(h)
    PROVE  HooksInv'
<1> USE DEF HooksInv
<1>1. /\ UNCHANGED <<hook, history, count>> /\ strays' = strays
      /\ \A g \in Hooks : inbox'[g] \in {0, inbox[g]}
      /\ HookType'
  BY DEF OnOpen, OnClose, TimerFires, Drop, fields, HookType, AfterClose
<1>2. Mounted' = Mounted /\ Leaked' = Leaked
  BY <1>1 DEF Mounted, Leaked
<1>3. hook[h] # "off"
  BY DEF OnOpen, OnClose, Closes, TimerFires, Drop, HookType, OneMounted
<1>4. \A g \in Hooks \ {h} : conn'[g] = conn[g]
  BY DEF OnOpen, OnClose, TimerFires, Drop, HookType
<1>5. OneMounted'
  BY <1>1, <1>2, <1>3, <1>4 DEF OneMounted
<1>6. ChartsBehind' /\ HistoryInOrder'
  BY <1>1, <1>2, ChartsSame
<1>7. ConnectionShown'
  <2> SUFFICES ASSUME Leaked = {} PROVE isConnected' <=> \E g \in Mounted : conn'[g] = "open"
    BY <1>2 DEF ConnectionShown
  <2>1. h \in Mounted /\ \A g \in Mounted : g = h
    BY <1>3 DEF Mounted, Leaked, HookType, OneMounted
  <2>2. isConnected <=> conn[h] = "open"
    BY <2>1, Zenon DEF ConnectionShown
  <2>3. CASE OnOpen(h)
    <3>1. conn'[h] = "open" /\ isConnected' = TRUE
      BY <2>3, Zenon DEF OnOpen, HookType
    <3> QED BY <2>1, <3>1
  <2>4. CASE OnClose(h)
    <3>1. conn'[h] = "waiting" /\ isConnected' = FALSE
      BY <2>4 DEF OnClose, HookType, AfterClose, ClosedFlag
    <3> QED BY <2>1, <3>1
  <2>5. CASE TimerFires(h)
    <3>1. conn[h] = "waiting" /\ conn'[h] = "connecting"
      BY <2>5 DEF TimerFires, HookType
    <3>2. isConnected' = isConnected
      BY <2>5 DEF TimerFires, fields
    <3> QED BY <2>1, <2>2, <3>1, <3>2, Zenon
  <2>6. CASE Drop(h)
    <3>1. conn' = conn /\ isConnected' = isConnected
      BY <2>6 DEF Drop, fields
    <3> QED BY <2>1, <2>2, <3>1, Zenon
  <2> QED BY <2>3, <2>4, <2>5, <2>6
<1> QED BY <1>1, <1>5, <1>6, <1>7

LEMMA BroadcastHooks == ASSUME HooksInv, Broadcast PROVE HooksInv'
<1> USE DEF HooksInv
<1>1. /\ UNCHANGED <<hook, conn, history, strays, isConnected>> /\ count' = count + 1
      /\ \A h \in Hooks : inbox'[h] = IF Listens(h) THEN count + 1 ELSE inbox[h]
      /\ HookType'
  BY DEF Broadcast, fields, HookType
<1>2. Mounted' = Mounted /\ Leaked' = Leaked
  BY <1>1 DEF Mounted, Leaked
<1>3. OneMounted' /\ ConnectionShown'
  BY <1>1, <1>2 DEF OneMounted, ConnectionShown, Listens
<1>4. HistoryInOrder'
  BY <1>1 DEF HistoryInOrder
<1>5. \A i \in 1 .. HISTORY_LENGTH : history[i] \in Nat /\ history[i] < count + 1
  BY DEF ChartsBehind, HookType
<1>0. count \in Nat /\ \A h \in Hooks : inbox[h] <= count /\ inbox[h] \in Nat
  BY DEF HookType, ChartsBehind
<1>6. \A h \in Hooks : inbox'[h] <= count'
  <2> HIDE DEF HooksInv
  <2> QED BY <1>0, <1>1
<1>7. ~strays' => \A h \in Mounted' : inbox'[h] # 0 =>
                     \A i \in 1 .. HISTORY_LENGTH : history'[i] < inbox'[h]
  BY <1>1, <1>2, <1>5 DEF ChartsBehind, Mounted
<1>8. ChartsBehind'
  BY <1>1, <1>5, <1>6, <1>7 DEF ChartsBehind, HookType
<1> QED BY <1>1, <1>3, <1>4, <1>8

\* What a chart holds after one more point.
LEMMA Pushed ==
    ASSUME NEW h \in Seq(Nat), Len(h) = HISTORY_LENGTH, NEW v \in Nat
    PROVE  /\ pushHistory(h, v) \in Seq(Nat) /\ Len(pushHistory(h, v)) = HISTORY_LENGTH
           /\ pushHistory(h, v)[HISTORY_LENGTH] = v
           /\ \A i \in 1 .. HISTORY_LENGTH - 1 : pushHistory(h, v)[i] = h[i + 1]
BY TabAssumption DEF pushHistory

LEMMA ShowHooks == ASSUME HooksInv, NEW h \in Hooks, Show(h) PROVE HooksInv'
<1> USE TabAssumption DEF HooksInv
<1>1. /\ UNCHANGED <<hook, conn, count, isConnected>> /\ inbox[h] # 0 /\ inbox[h] \in Nat
      /\ inbox' = [inbox EXCEPT ![h] = 0] /\ history' = pushHistory(history, inbox[h])
      /\ HookType'
  BY DEF Show, HookType
<1>2. /\ history' \in Seq(Nat) /\ Len(history') = HISTORY_LENGTH
      /\ history'[HISTORY_LENGTH] = inbox[h]
      /\ \A i \in 1 .. HISTORY_LENGTH - 1 : history'[i] = history[i + 1]
  <2>1. history \in Seq(Nat) /\ Len(history) = HISTORY_LENGTH
    BY DEF ChartsBehind
  <2> HIDE DEF HooksInv
  <2> QED BY <1>1, <2>1, Pushed
<1>3. Mounted' = Mounted /\ Leaked' = Leaked
  BY <1>1 DEF Mounted, Leaked
<1>4. OneMounted' /\ ConnectionShown'
  BY <1>1, <1>3 DEF OneMounted, ConnectionShown, HookType
<1>5. ~strays' => ~strays /\ h \in Mounted
  BY <1>1 DEF Show, Mounted, Leaked, HookType, OneMounted
<1>6. \A i \in 1 .. HISTORY_LENGTH : i = HISTORY_LENGTH \/ (i \in 1 .. HISTORY_LENGTH - 1 /\ i + 1 \in 1 .. HISTORY_LENGTH)
  OBVIOUS
<1>7. ~strays' => \A i \in 1 .. HISTORY_LENGTH : history[i] < inbox[h]
  BY <1>1, <1>5 DEF ChartsBehind
<1>8. ~strays' => \A g \in Mounted : inbox'[g] = 0
  BY <1>1, <1>5 DEF OneMounted, HookType
<1>9. \A i \in 1 .. HISTORY_LENGTH : history'[i] \in Nat /\ history'[i] <= count
  BY <1>1, <1>2, <1>6 DEF ChartsBehind, HookType
<1>10. ChartsBehind'
  BY <1>1, <1>2, <1>3, <1>8, <1>9 DEF ChartsBehind, HookType
<1>11. HistoryInOrder'
  <2> SUFFICES ASSUME ~strays', NEW i \in 1 .. HISTORY_LENGTH, NEW j \in 1 .. HISTORY_LENGTH,
                      i < j, history'[i] # 0
               PROVE  history'[i] < history'[j]
    BY DEF HistoryInOrder
  <2>1. i \in 1 .. HISTORY_LENGTH - 1 /\ i + 1 \in 1 .. HISTORY_LENGTH
    OBVIOUS
  <2>2. history'[i] = history[i + 1]
    BY <1>2, <2>1
  <2>3. CASE j = HISTORY_LENGTH
    BY <1>2, <1>7, <2>1, <2>2, <2>3
  <2>4. CASE j # HISTORY_LENGTH
    <3>1. /\ j \in 1 .. HISTORY_LENGTH - 1 /\ j + 1 \in 1 .. HISTORY_LENGTH
          /\ i + 1 < j + 1
      BY <2>4
    <3>2. history'[j] = history[j + 1]
      BY <1>2, <3>1
    <3>3. history[i + 1] < history[j + 1]
      BY <1>5, <2>1, <2>2, <3>1 DEF HistoryInOrder
    <3> QED BY <2>2, <3>2, <3>3
  <2> QED BY <2>3, <2>4
<1> QED BY <1>1, <1>4, <1>10, <1>11

LEMMA HooksStep == HooksInv /\ [TabNext]_tabVars => HooksInv'
<1> SUFFICES ASSUME HooksInv, [TabNext]_tabVars PROVE HooksInv'
  OBVIOUS
<1>1. CASE MeAnswers \/ MeFails \/ LoginSucceeds
  BY <1>1, SetAuthUserHooks DEF MeAnswers, MeFails, LoginSucceeds
<1>2. ASSUME NEW i \in DOMAIN logouts, LogoutServed(i) \/ LogoutReturns(i) \/ LogoutFails(i)
      PROVE  HooksInv'
  <2>1. CASE LogoutServed(i)
    BY <2>1, HooksSame DEF LogoutServed, fields, refs
  <2>2. CASE LogoutReturns(i) \/ LogoutFails(i)
    BY <2>2, SetAuthUserHooks DEF LogoutReturns, LogoutFails
  <2> QED BY <1>2, <2>1, <2>2
<1>3. CASE Submit \/ LoginRefused \/ LoginFails \/ ClickLogout
  BY <1>3, HooksSame DEF Submit, LoginRefused, LoginFails, ClickLogout, fields, refs
<1>4. ASSUME NEW k \in Tokens, Expire(k) PROVE HooksInv'
  BY <1>4, HooksSame DEF Expire, fields, refs
<1>5. CASE ToggleFreeze \/ NetworkChanges \/ UNCHANGED tabVars
  BY <1>5, HooksSame DEF ToggleFreeze, NetworkChanges, tabVars, fields, refs
<1> QED
  BY <1>1, <1>2, <1>3, <1>4, <1>5, ReloadHooks, SocketHooks, BroadcastHooks, ShowHooks
     DEF TabNext, HookStep

LEMMA HooksInvariant == TabSpec => []HooksInv
BY HooksInit, HooksStep, PTL DEF TabSpec

\* For charts of any length and any number of reconnections, reloads and logins,
\* points stay in the order of the snapshots, while no hook React has unmounted
\* adds its own (useWebSocket.ts:54-67, store/index.ts:97-101).
THEOREM HistoryAlwaysInOrder == TabSpec => []HistoryInOrder
<1>1. HooksInv => HistoryInOrder
  BY DEF HooksInv
<1> QED BY <1>1, HooksInvariant, PTL

\* The flag of the store follows the socket of the mounted hook through any
\* number of mounts, until an unmounted hook is left over (useWebSocket.ts:46-47
\* and 80-81).
THEOREM ConnectionAlwaysShown == TabSpec => []ConnectionShown
<1>1. HooksInv => ConnectionShown
  BY DEF HooksInv
<1> QED BY <1>1, HooksInvariant, PTL

-----------------------------------------------------------------------------
(* Signing in and out. A logout under way is for the cookie the tab has, or  *)
(* the cookie has gone; once the server has answered it, its session is over. *)

Click == [at : {"sent", "served", "refused"}, token : Tokens \cup {None}]

ClicksAreOurs ==
    ~lost => \A i \in DOMAIN logouts :
        /\ cookie \in {None, logouts[i].token}
        /\ logouts[i].at \in {"served", "refused"} => logouts[i].token \notin live

SignedInv ==
    /\ live \subseteq Tokens /\ cookie \in Tokens \cup {None}
    /\ logouts \in Seq(Click)
    /\ public => authUser \in {None, "public"} /\ logouts = <<>>
    /\ ClicksAreOurs
    /\ SignedOutIsOut

\* RemoveAt leaves elements that were there.
LEMMA RemoveAtElements ==
    ASSUME NEW S, NEW s \in Seq(S), NEW i \in DOMAIN s
    PROVE  /\ RemoveAt(s, i) \in Seq(S)
           /\ \A j \in DOMAIN RemoveAt(s, i) : \E k \in DOMAIN s : RemoveAt(s, i)[j] = s[k]
<1> DEFINE a == SubSeq(s, 1, i - 1)
           b == SubSeq(s, i + 1, Len(s))
<1>1. i \in 1 .. Len(s) /\ Len(s) \in Nat
  OBVIOUS
<1>2. /\ a \in Seq(S) /\ Len(a) = i - 1
      /\ \A j \in 1 .. i - 1 : a[j] = s[j]
  BY <1>1
<1>3. /\ b \in Seq(S) /\ Len(b) = Len(s) - i
      /\ \A j \in 1 .. Len(s) - i : b[j] = s[i + j]
  BY <1>1
<1>4. RemoveAt(s, i) = a \o b
  BY DEF RemoveAt
<1> HIDE DEF a, b
<1>5. /\ a \o b \in Seq(S) /\ Len(a \o b) = Len(s) - 1
      /\ \A j \in 1 .. Len(s) - 1 : 
            (a \o b)[j] = IF j <= Len(a) THEN a[j] ELSE b[j - Len(a)]
  <2>1. Len(a) + Len(b) = Len(s) - 1
    BY <1>1, <1>2, <1>3
  <2>2. a \in Seq(S) /\ b \in Seq(S)
    BY <1>2, <1>3
  <2>3. a \o b \in Seq(S) /\ Len(a \o b) = Len(a) + Len(b)
    BY <2>2, ConcatProperties
  <2>4. \A j \in 1 .. Len(a) + Len(b) :
            (a \o b)[j] = IF j <= Len(a) THEN a[j] ELSE b[j - Len(a)]
    BY <2>2, ConcatProperties
  <2> QED BY <2>1, <2>3, <2>4
<1>6. ASSUME NEW j \in 1 .. Len(s) - 1 PROVE \E k \in DOMAIN s : (a \o b)[j] = s[k]
  <2>1. CASE j <= i - 1
    <3>1. (a \o b)[j] = s[j] /\ j \in DOMAIN s
      BY <1>1, <1>2, <1>5, <2>1
    <3> QED BY <3>1
  <2>2. CASE j > i - 1
    <3>1. j - Len(a) \in 1 .. Len(s) - i /\ i + (j - Len(a)) = j + 1
      BY <1>1, <1>2, <2>2
    <3>2. (a \o b)[j] = b[j - Len(a)]
      BY <1>1, <1>2, <1>5, <2>2
    <3>3. (a \o b)[j] = s[j + 1]
      BY <1>3, <3>1, <3>2
    <3>4. j + 1 \in DOMAIN s
      BY <1>1, <2>2
    <3> QED BY <3>3, <3>4
  <2>3. j <= i - 1 \/ j > i - 1
    BY <1>1
  <2> QED BY <2>1, <2>2, <2>3
<1>7. DOMAIN (a \o b) = 1 .. Len(s) - 1
  BY <1>1, <1>5
<1> QED BY <1>4, <1>5, <1>6, <1>7

LEMMA SignedInit == TabInit => SignedInv
BY TabAssumption DEF TabInit, SignedInv, ClicksAreOurs, SignedOutIsOut, View

\* The tab and its cookie stay, and the server lets in at most whom it did before.
LEMMA SignedSame ==
    ASSUME SignedInv, UNCHANGED <<public, cookie, authLoading, authUser, logouts, lost>>,
           live' \subseteq live
    PROVE  SignedInv'
BY DEF SignedInv, ClicksAreOurs, SignedOutIsOut, View, Accepts

\* Once a request was lost nothing is promised but types.
LEMMA SignedLost ==
    ASSUME SignedInv, lost', UNCHANGED <<public, cookie>>, live' \subseteq Tokens, 
           logouts' \in Seq(Click), public => authUser' \in {None, "public"} /\ logouts' = <<>>
    PROVE  SignedInv'
BY DEF SignedInv, ClicksAreOurs, SignedOutIsOut

LEMMA MeSigned == ASSUME SignedInv, MeAnswers \/ MeFails PROVE SignedInv'
<1>1. CASE MeAnswers
  BY <1>1, TabAssumption
     DEF MeAnswers, SetAuthUser, SignedInv, ClicksAreOurs, SignedOutIsOut, View, Accepts, session, requests
<1>2. CASE MeFails
  BY <1>2, SignedLost DEF MeFails, SetAuthUser, SignedInv, session
<1> QED BY <1>1, <1>2

LEMMA ReloadSigned == ASSUME SignedInv, Reload PROVE SignedInv'
BY DEF Reload, SignedInv, ClicksAreOurs, SignedOutIsOut, View, session

LEMMA LoginSigned ==
    ASSUME SignedInv, Submit \/ LoginSucceeds \/ LoginRefused \/ LoginFails
    PROVE  SignedInv'
<1>1. CASE Submit \/ LoginRefused
  BY <1>1, SignedSame DEF Submit, LoginRefused, session, fields
<1>2. CASE LoginSucceeds
  <2>1. PICK k \in Unused : live' = live \cup {k} /\ cookie' = k
    BY <1>2 DEF LoginSucceeds
  <2>2. /\ authUser' = "user" /\ ~public /\ logouts' = logouts /\ public' = public
        /\ lost' = (lost \/ logouts # <<>>)
    BY <1>2 DEF LoginSucceeds, SetAuthUser
  <2>3. ~lost' => logouts' = <<>>
    BY <2>2
  <2>4. ClicksAreOurs'
    BY <2>3 DEF ClicksAreOurs
  <2> QED BY <2>1, <2>2, <2>4, TabAssumption DEF SignedInv, SignedOutIsOut, View, Unused
<1>3. CASE LoginFails
  <2>1. live' \subseteq Tokens
    BY <1>3 DEF LoginFails, Unused, SignedInv
  <2> QED BY <1>3, <2>1, SignedLost DEF LoginFails, SignedInv, fields
<1> QED BY <1>1, <1>2, <1>3

LEMMA ClickSigned == ASSUME SignedInv, ClickLogout PROVE SignedInv'
<1> DEFINE click == [at |-> "sent", token |-> cookie]
<1>1. /\ logouts' = Append(logouts, click) /\ click \in Click
      /\ authUser # None /\ authUser # "public" /\ ~authLoading
      /\ UNCHANGED <<public, live, cookie, authLoading, authUser, lost>>
  BY DEF ClickLogout, View, SignedInv, Click, session, fields
<1>2. \A i \in DOMAIN logouts' : logouts'[i] = click \/ (i \in DOMAIN logouts /\ logouts'[i] = logouts[i])
  BY <1>1 DEF SignedInv
<1>3. ClicksAreOurs'
  BY <1>1, <1>2 DEF SignedInv, ClicksAreOurs
<1> QED BY <1>1, <1>3 DEF SignedInv, SignedOutIsOut, View

LEMMA LogoutSigned ==
    ASSUME SignedInv, NEW i \in DOMAIN logouts, LogoutServed(i) \/ LogoutReturns(i) \/ LogoutFails(i)
    PROVE  SignedInv'
<1>0. logouts \in Seq(Click) /\ ~public /\ logouts[i] \in Click
  BY DEF SignedInv
<1>1. CASE LogoutServed(i)
  <2>1. /\ logouts' \in Seq(Click) /\ DOMAIN logouts' = DOMAIN logouts
        /\ live' = live \ {logouts[i].token}
        /\ UNCHANGED <<public, cookie, authLoading, authUser, lost>>
    BY <1>0, <1>1 DEF LogoutServed, Click, fields
  <2>2. /\ \A j \in DOMAIN logouts : logouts'[j].token = logouts[j].token
        /\ \A j \in DOMAIN logouts \ {i} : logouts'[j] = logouts[j]
    BY <1>0, <1>1 DEF LogoutServed, Click
  <2>3. ClicksAreOurs'
    BY <2>1, <2>2 DEF SignedInv, ClicksAreOurs
  <2> QED BY <1>0, <2>1, <2>3 DEF SignedInv, SignedOutIsOut, View, Accepts
<1>2. CASE LogoutReturns(i)
  <2>1. /\ logouts' \in Seq(Click)
        /\ \A j \in DOMAIN logouts' : \E k \in DOMAIN logouts : logouts'[j] = logouts[k]
    BY <1>0, <1>2, RemoveAtElements DEF LogoutReturns
  <2>2. /\ UNCHANGED <<public, live, lost, authLoading>> /\ authUser' = None
        /\ cookie' \in {None, cookie} /\ logouts[i].at \in {"served", "refused"}
    BY <1>2 DEF LogoutReturns, Returns, SetAuthUser
  <2>3. ClicksAreOurs'
    BY <2>1, <2>2 DEF SignedInv, ClicksAreOurs
  <2>4. ~lost' => cookie' \notin live
    BY <2>2, TabAssumption DEF SignedInv, ClicksAreOurs
  <2> QED BY <1>0, <2>1, <2>2, <2>3, <2>4 DEF SignedInv, SignedOutIsOut, Accepts
<1>3. CASE LogoutFails(i)
  <2>1. logouts' \in Seq(Click)
    BY <1>0, <1>3, RemoveAtElements DEF LogoutFails
  <2> QED BY <1>0, <1>3, <2>1, SignedLost DEF LogoutFails, SetAuthUser, SignedInv, session
<1> QED BY <1>1, <1>2, <1>3

LEMMA SignedStep == SignedInv /\ [TabNext]_tabVars => SignedInv'
<1> SUFFICES ASSUME SignedInv, [TabNext]_tabVars PROVE SignedInv'
  OBVIOUS
<1>1. ASSUME NEW k \in Tokens, Expire(k) PROVE SignedInv'
  BY <1>1, SignedSame DEF Expire, fields, requests
<1>2. ASSUME NEW h \in Hooks, HookStep(h) PROVE SignedInv'
  BY <1>2, SignedSame DEF HookStep, OnOpen, OnClose, TimerFires, Drop, Show, session, fields, requests
<1>3. CASE Broadcast \/ ToggleFreeze \/ NetworkChanges \/ UNCHANGED tabVars
  BY <1>3, SignedSame DEF Broadcast, ToggleFreeze, NetworkChanges, tabVars, session, fields, requests
<1> QED
  BY <1>1, <1>2, <1>3, MeSigned, ReloadSigned, LoginSigned, ClickSigned, LogoutSigned DEF TabNext

\* With any number of clicks on logout, of logins and sessions: a tab that got all
\* its answers shows the login page only to somebody the server refuses
\* (useAuthSession.ts:12-38, Sidebar.tsx:111-119).
THEOREM SignedOutAlwaysOut == TabSpec => []SignedOutIsOut
<1>1. SignedInv => SignedOutIsOut
  BY DEF SignedInv
<1> QED BY <1>1, SignedInit, SignedStep, PTL DEF TabSpec

-----------------------------------------------------------------------------
(* The scan page.  A tab that waits for a result that is there, and has seen *)
(* the ready flag while it waited, has a request under way whose answer is   *)
(* the result, or the result came while it held an older flag.               *)

Answers == {"idle", "running", "done", "error"}

ScanTypes ==
    /\ isScanning \in BOOLEAN /\ unanswered \in BOOLEAN /\ unnoticed \in BOOLEAN
    /\ prevReady \in BOOLEAN /\ prevScanning \in BOOLEAN
    /\ wire \in Seq(BOOLEAN) /\ status \in Answers
    /\ fetch \in [Fetches -> {"none", "sent"} \cup Answers]

Waits ==
    /\ isScanning /\ status = "done" /\ prevReady /\ prevScanning
    /\ ~unanswered /\ ~unnoticed

ResultIsComing ==
    \/ post.at \in {"sent", "asked"}
    \/ \E f \in Fetches : fetch[f] \in {"sent", "done", "error"}

ScanInv == ScanTypes /\ (Waits => ResultIsComing)

LEMMA ScanInit == UIInit => ScanInv
<1> SUFFICES ASSUME UIInit PROVE ScanInv
  OBVIOUS
<1>1. /\ isScanning \in BOOLEAN /\ unanswered \in BOOLEAN /\ unnoticed \in BOOLEAN
      /\ prevReady \in BOOLEAN /\ prevScanning \in BOOLEAN
  BY Zenon DEF UIInit
<1>2. status = "idle" /\ wire = <<>> /\ fetch = [f \in Fetches |-> "none"]
  BY DEF UIInit, Init
<1> QED BY <1>1, <1>2 DEF ScanInv, ScanTypes, Waits, Answers

\* Clicks, and the answers to a POST and a DELETE.
LEMMA ClickKeeps ==
    ASSUME ScanInv, (\E p \in Paths : StartScan(p)) \/ CancelScan \/ AnswerPost \/ PostFails \/ AnswerCancel
    PROVE  ScanInv'
<1> USE DEF ScanInv, service, store, socket
<1>1. CASE \E p \in Paths : StartScan(p)
  <2>1. isScanning' \in BOOLEAN /\ unanswered' \in BOOLEAN
    BY <1>1, Zenon DEF StartScan
  <2>2. post'.at = "sent" /\ UNCHANGED <<status, fetch, socket>>
    BY <1>1 DEF StartScan
  <2> QED BY <2>1, <2>2 DEF ScanTypes, ResultIsComing
<1>2. CASE CancelScan
  BY <1>2 DEF CancelScan, ScanTypes, Waits, ResultIsComing
<1>3. CASE AnswerPost
  <2>1. CASE post.at = "started" /\ UNCHANGED fetch
    BY <1>3, <2>1 DEF AnswerPost, ScanTypes, Waits, ResultIsComing
  <2>2. CASE Ask
    BY <1>3, <2>2 DEF AnswerPost, Ask, ScanTypes, Waits, ResultIsComing
  <2> QED BY <1>3, <2>1, <2>2 DEF AnswerPost
<1>4. CASE PostFails \/ AnswerCancel
  <2>1. ~isScanning' /\ isScanning' \in BOOLEAN
    BY <1>4, Zenon DEF PostFails, AnswerCancel
  <2>2. UNCHANGED <<status, fetch, socket, unanswered>>
    BY <1>4 DEF PostFails, AnswerCancel
  <2> QED BY <2>1, <2>2 DEF ScanTypes, Waits
<1> QED BY <1>1, <1>2, <1>3, <1>4

\* A result that a POST finds there is asked for with the answer; one that comes
\* later finds a tab that does not hold the flag of an older one, or is unnoticed.
LEMMA ServiceKeeps ==
    ASSUME ScanInv, ServePost \/ ServeCancel \/ \E s \in Scans : ScanEnds(s)
    PROVE  ScanInv'
<1> USE DEF ScanInv, service, store, socket, rest
<1>1. CASE ServePost
  <2>1. CASE UNCHANGED service /\ post' = [post EXCEPT !.at = AnswerToCached]
    BY <1>1, <2>1 DEF ServePost, AnswerToCached, ScanTypes, Waits, ResultIsComing
  <2>2. CASE \E s \in Scans : Begin(post.path, s)
    BY <1>1, <2>2 DEF ServePost, Begin, ScanTypes, Waits, Answers
  <2> QED BY <1>1, <2>1, <2>2 DEF ServePost
<1>2. CASE ServeCancel
  BY <1>2 DEF ServeCancel, Cancel, ScanTypes, Waits, Answers
<1>3. CASE \E s \in Scans : ScanEnds(s)
  <2>1. PICK s \in Scans : ScanEnds(s)
    BY <1>3
  <2>2. /\ status' \in Answers
        /\ UNCHANGED <<isScanning, post, fetch, unanswered, wire, prevReady, prevScanning>>
    BY <2>1 DEF ScanEnds, Complete, Answers, ScanTypes
  <2>3. HoldsOldFlag \in BOOLEAN
    BY Zenon DEF HoldsOldFlag
  <2>4. /\ status # "done" /\ status' = "done" => unnoticed' = HoldsOldFlag
        /\ ~ (status # "done" /\ status' = "done") => unnoticed' = unnoticed
    BY <2>1 DEF ScanEnds
  <2>5. unnoticed' \in BOOLEAN
    BY <2>3, <2>4 DEF ScanTypes
  <2>6. ScanTypes'
    BY <2>2, <2>5 DEF ScanTypes
  <2>7. Waits' => Waits
    <3> SUFFICES ASSUME Waits' PROVE Waits
      OBVIOUS
    <3>1. HoldsOldFlag /\ status' = "done" /\ ~unnoticed'
      BY <2>2, Zenon DEF Waits, HoldsOldFlag
    <3>2. status = "done"
      BY <2>4, <3>1
    <3> QED BY <2>2, <2>4, <3>2 DEF Waits
  <2> QED BY <2>2, <2>6, <2>7 DEF ResultIsComing
<1> QED BY <1>1, <1>2, <1>3

\* The status that was there when the request was served is shown or lost, and
\* then the user was told.
LEMMA StatusKeeps ==
    ASSUME ScanInv, NEW f \in Fetches, ServeStatus(f) \/ AnswerStatus(f) \/ StatusFails(f)
    PROVE  ScanInv'
<1> USE DEF ScanInv, service, store, socket, Answers
<1>1. CASE ServeStatus(f)
  BY <1>1 DEF ServeStatus, ScanTypes, Waits, ResultIsComing
<1>2. CASE AnswerStatus(f)
  <2>1. isScanning' => fetch[f] \notin {"none", "sent", "done", "error"} /\ isScanning
    BY <1>2 DEF AnswerStatus, Ends, ScanTypes
  <2>2. \A g \in Fetches : g # f => fetch'[g] = fetch[g]
    BY <1>2 DEF AnswerStatus, ScanTypes
  <2>3. ScanTypes'
    BY <1>2 DEF AnswerStatus, ScanTypes
  <2>4. Waits' => Waits /\ post' = post
    BY <1>2, <2>1 DEF AnswerStatus, Waits
  <2> QED BY <2>1, <2>2, <2>3, <2>4 DEF Waits, ResultIsComing
<1>3. CASE StatusFails(f)
  BY <1>3 DEF StatusFails, ScanTypes, Waits
<1> QED BY <1>1, <1>2, <1>3

\* The stream of snapshots.
LEMMA StreamKeeps ==
    ASSUME ScanInv, Push \/ Message \/ MessageSkipped \/ Disconnect \/ Reconnect
    PROVE  ScanInv'
<1> USE DEF ScanInv, service, store, socket, rest
<1>0. wire \in Seq(BOOLEAN)
  BY DEF ScanTypes
<1>1. CASE Push
  <2>1. /\ wire' = Append(wire, Ready) /\ Ready \in BOOLEAN
        /\ UNCHANGED <<status, isScanning, post, fetch, unanswered, prevReady, prevScanning, unnoticed>>
    BY <1>1 DEF Push, Ready
  <2>2. wire' \in Seq(BOOLEAN)
    BY <1>0, <2>1
  <2>3. ScanTypes'
    BY <2>1, <2>2 DEF ScanTypes
  <2> QED BY <2>1, <2>3 DEF Waits, ResultIsComing
<1>2. ASSUME wire # <<>>, wire' = Tail(wire)
      PROVE  wire' \in Seq(BOOLEAN) /\ Head(wire) \in BOOLEAN
  BY <1>0, <1>2
<1>3. CASE Message
  <2>1. /\ wire # <<>> /\ wire' = Tail(wire)
        /\ prevReady' = Head(wire) /\ prevScanning' = isScanning
        /\ unnoticed' = (unnoticed /\ Head(wire))
        /\ UNCHANGED <<status, isScanning, post, unanswered>>
    BY <1>3 DEF Message
  <2>2. unnoticed' \in BOOLEAN
    BY <2>1, Zenon
  <2>3. CASE Ask
    <3>1. ScanTypes'
      BY <1>2, <2>1, <2>2, <2>3 DEF ScanTypes, Ask
    <3>2. ResultIsComing'
      BY <2>3 DEF Ask, ResultIsComing, ScanTypes
    <3> QED BY <3>1, <3>2
  <2>4. CASE ~ shouldFetchNcduStatus(Head(wire)) /\ UNCHANGED fetch
    <3>1. ScanTypes'
      BY <1>2, <2>1, <2>2, <2>4 DEF ScanTypes
    <3>2. Waits' => Waits
      BY <1>2, <2>1, <2>4 DEF Waits, shouldFetchNcduStatus, ScanTypes
    <3> QED BY <2>1, <2>4, <3>1, <3>2 DEF ResultIsComing
  <2> QED BY <1>3, <2>3, <2>4 DEF Message
<1>4. CASE MessageSkipped
  <2>1. /\ wire # <<>> /\ wire' = Tail(wire)
        /\ UNCHANGED <<status, isScanning, post, fetch, unanswered, prevReady, prevScanning, unnoticed>>
    BY <1>4 DEF MessageSkipped
  <2>2. ScanTypes'
    BY <1>2, <2>1 DEF ScanTypes
  <2> QED BY <2>1, <2>2 DEF Waits, ResultIsComing
<1>5. CASE Disconnect
  BY <1>5 DEF Disconnect, ScanTypes, Waits, ResultIsComing
<1>6. CASE Reconnect
  BY <1>6 DEF Reconnect, ReadyOnConnect, ScanTypes, Waits
<1> QED BY <1>1, <1>3, <1>4, <1>5, <1>6

LEMMA ScanStep == ScanInv /\ [UINext]_vars => ScanInv'
<1> SUFFICES ASSUME ScanInv, [UINext]_vars PROVE ScanInv'
  OBVIOUS
<1>1. CASE Tab
  BY <1>1, ClickKeeps, StatusKeeps, StreamKeeps DEF Tab
<1>2. CASE Server
  BY <1>2, ServiceKeeps, StatusKeeps, StreamKeeps DEF Server
<1>3. CASE UNCHANGED vars
  BY <1>3 DEF vars, service, store, rest, socket, ScanInv, ScanTypes, Waits, ResultIsComing
<1> QED BY <1>1, <1>2, <1>3 DEF UINext

\* With any number of directories, scans, requests and messages under way, scans
\* however short, and whatever fails: a tab that waits for a result that is there,
\* has no request under way and was told of no failure will ask at the next ready
\* message, unless the result came while the tab still held the flag of an older
\* one (useWebSocket.ts:69-74, ncduReady.ts).
THEOREM WakeUpNeverLost == UISpec => []WakeUpNotLost
<1>1. ScanInv => WakeUpNotLost
  BY DEF ScanInv, ScanTypes, Waits, ResultIsComing, WakeUpNotLost, Answering
<1> QED BY <1>1, ScanStep, ScanInit, PTL DEF UISpec
=============================================================================
