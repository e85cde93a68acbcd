------------------------------ MODULE MuteCard ------------------------------
(* The commands of the alerts card on the settings page: send a test alert,  *)
(* mute the alerts for some minutes, clear the mute (pages/SettingsPage.tsx). *)
(* The page never asks whether the alerts are muted: it knows only what its  *)
(* commands answer. The buttons are not disabled while a command is under    *)
(* way. What the server does inside one is the subject of AlertSettings.     *)
EXTENDS FiniteSets

CONSTANTS Orders \* commands under way at one time (bound)

VARIABLES
    allowed, \* canManageAlerts
    muted,   \* the server keeps the alerts quiet
    orders,  \* each command: its kind and where it is
    told,    \* the last toast: "nothing", "muted", "unmuted", "tested" or "failed"
    lapsed,  \* a mute has ended by itself since it was set
    crossed  \* two commands were under way at one time

muteVars == <<allowed, muted, orders, told, lapsed, crossed>>

NoOrder == [kind |-> "none", at |-> "off"]
Pending == {o \in Orders : orders[o] # NoOrder}

MuteInit ==
    /\ allowed \in BOOLEAN /\ muted \in BOOLEAN
    /\ orders = [o \in Orders |-> NoOrder]
    /\ told = "nothing" /\ lapsed = FALSE /\ crossed = FALSE

Order(o, kind) ==
    /\ allowed /\ orders[o] = NoOrder
    /\ orders' = [orders EXCEPT ![o] = [kind |-> kind, at |-> "sent"]]
    /\ crossed' = (crossed \/ Pending # {})
    /\ UNCHANGED <<allowed, muted, told, lapsed>>

handleSendTest(o) == Order(o, "tested")
handleMuteAlerts(o) == Order(o, "muted")
handleClearMuteAlerts(o) == Order(o, "unmuted")

\* Minutes outside 1..1440 are refused before anything is sent.
RefuseMinutes ==
    /\ allowed
    /\ told' = "failed"
    /\ UNCHANGED <<allowed, muted, orders, lapsed, crossed>>

\* The server does what it is asked; its answer comes back, or is lost.
OrderServed(o) ==
    /\ orders[o].at = "sent"
    /\ muted' = IF orders[o].kind = "tested" THEN muted ELSE orders[o].kind = "muted"
    /\ lapsed' = (lapsed /\ orders[o].kind # "muted")
    /\ \E at \in {"done", "lost"} : orders' = [orders EXCEPT ![o].at = at]
    /\ UNCHANGED <<allowed, told, crossed>>

\* The server refuses, or is not reached.
OrderRefused(o) ==
    /\ orders[o].at = "sent"
    /\ orders' = [orders EXCEPT ![o].at = "lost"]
    /\ UNCHANGED <<allowed, muted, told, lapsed, crossed>>

\* A mutant: a handler that does not look at the status of the answer.
TellAnyway(o) == orders[o].kind

Toast(o) == IF orders[o].at = "done" THEN orders[o].kind ELSE "failed"

OrderEnds(o) ==
    /\ orders[o].at \in {"done", "lost"}
    /\ told' = Toast(o)
    /\ orders' = [orders EXCEPT ![o] = NoOrder]
    /\ UNCHANGED <<allowed, muted, lapsed, crossed>>

MuteLapses ==
    /\ muted
    /\ muted' = FALSE /\ lapsed' = TRUE
    /\ UNCHANGED <<allowed, orders, told, crossed>>

MuteStep ==
    \/ \E o \in Orders :
          \/ handleSendTest(o) \/ handleMuteAlerts(o) \/ handleClearMuteAlerts(o)
          \/ OrderServed(o) \/ OrderRefused(o) \/ OrderEnds(o)
    \/ RefuseMinutes \/ MuteLapses

\* The commands on their own.
MuteSpec == MuteInit /\ [][MuteStep]_muteVars

-----------------------------------------------------------------------------
\* What the last toast says of the mute is so once the page is at rest, unless
\* two commands crossed: then the toasts may come in another order than the
\* one in which the server took them (SettingsPage.tsx:282-322).
ToldIsTrue ==
    Pending = {} /\ ~crossed =>
        /\ told = "muted" => muted \/ lapsed
        /\ told = "unmuted" => ~muted
=============================================================================
