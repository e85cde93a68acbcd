-------------------------------- MODULE Pages --------------------------------
(* The pages of an open tab, one of which is mounted (App.tsx). A page that  *)
(* is left gives up its state and a page that is opened begins anew, so each *)
(* behaviour is that of one page; the others stay at rest. The settings page *)
(* has parts that share nothing: its numbers, its alerts form, its commands. *)
(* The administration page has the accounts of the server under it.          *)
EXTENDS DataPages, PortsPage, SettingsPage, AlertsForm, MuteCard, AdminPage

VARIABLE route \* the page that is mounted, or the part of it that is looked at

pageVars == <<route, dataVars, portVars, settingVars, formVars, muteVars, adminVars>>

DataRoutes == {"alerts", "firewall", "packages"}
Routes == DataRoutes \cup {"ports", "settings", "alerts form", "mute", "admin"}

FirstValue == CHOOSE value \in ServerValues : TRUE

\* Where the pages that are not mounted stay.
Unmounted ==
    /\ route \notin DataRoutes => load[CHOOSE l \in Loads : TRUE] # Off
    /\ route # "ports" => bound = {} /\ fetches[CHOOSE i \in Fetches : TRUE] # NoFetch
    /\ route # "settings" => setting = "updateIntervalMs" /\ onServer = FirstValue /\ inStore = Low
    /\ route # "alerts form" => ~manage /\ ~writable /\ ConfigView = NoFlags
    /\ route # "mute" => ~allowed /\ ~muted
    /\ route # "admin" => Admins = Users /\ session[CHOOSE c \in Rivals : TRUE].user = Me

Init ==
    /\ route \in Routes
    /\ Mount(IF route \in DataRoutes THEN route ELSE "alerts")
    /\ PortsInit /\ SettingsInit /\ FormInit /\ MuteInit /\ AdminInit
    /\ Unmounted

Next ==
    \/ /\ route \in DataRoutes /\ DataStep
       /\ UNCHANGED <<route, portVars, settingVars, formVars, muteVars, adminVars>>
    \/ /\ route = "ports" /\ PortsStep
       /\ UNCHANGED <<route, dataVars, settingVars, formVars, muteVars, adminVars>>
    \/ /\ route = "settings" /\ SettingsStep
       /\ UNCHANGED <<route, dataVars, portVars, formVars, muteVars, adminVars>>
    \/ /\ route = "alerts form" /\ FormStep
       /\ UNCHANGED <<route, dataVars, portVars, settingVars, muteVars, adminVars>>
    \/ /\ route = "mute" /\ MuteStep
       /\ UNCHANGED <<route, dataVars, portVars, settingVars, formVars, adminVars>>
    \/ /\ route = "admin" /\ AdminStep
       /\ UNCHANGED <<route, dataVars, portVars, settingVars, formVars, muteVars>>

\* The ports page asks again every five seconds, and fetch() settles.
PortsFairness ==
    /\ WF_pageVars(route = "ports" /\ (\E i \in Fetches : FetchPorts(i))
                     /\ UNCHANGED <<route, dataVars, settingVars, formVars, muteVars, adminVars>>)
    /\ \A i \in Fetches \cup Kills :
          WF_pageVars(route = "ports" /\ (FetchServed(i) \/ FetchArrives(i))
                        /\ UNCHANGED <<route, dataVars, settingVars, formVars, muteVars, adminVars>>)

Spec == Init /\ [][Next]_pageVars /\ PortsFairness

-----------------------------------------------------------------------------
Quiet == UNCHANGED bound /\ \A i \in Fetches \cup Kills : ~FetchFails(i)

\* Once the set of listening ports settles and no more requests fail, the page
\* lists exactly that set and goes on doing so: a late answer of an older
\* request, or of a kill, is not what stays (PortsPage.tsx:22-46 and 58-85).
ListCatchesUp == route = "ports" /\ <>[][Quiet]_pageVars => <>[](listeners = bound)
=============================================================================
