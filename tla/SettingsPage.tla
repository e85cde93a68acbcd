---------------------------- MODULE SettingsPage ----------------------------
(* The numbers of the settings page that both the store and the server keep: *)
(* the update interval and the time to live of cached scans                  *)
(* (pages/SettingsPage.tsx), with the request of useServerInfo.ts that       *)
(* fills the store at page load. A save sets the store at once, asks the     *)
(* server, and takes the store back if that fails. Saves may overlap, and go *)
(* on when the page is left, not when the tab is reloaded. Other tabs, other *)
(* clients and a restart with another -interval change the number of the     *)
(* server, to any number. The scan path, the theme, the language and the     *)
(* font live in the store alone and are left out, and so are the texts of    *)
(* the inputs: a save takes any number.                                      *)
EXTENDS Integers, FiniteSets

CONSTANTS Saves,        \* saves under way at one time (bound)
          Low, High,    \* the least and the greatest value the page lets through
          ServerValues  \* what others give the server; 0 is no whole millisecond

ASSUME RangeAssumption ==
    /\ Low \in Nat \ {0} /\ High \in Nat /\ Low <= High
    /\ ServerValues \subseteq Nat

Settings == {"updateIntervalMs", "ncduCacheTtlSec"}
Values == Low..High

\* What the setters of the store make of a value: they have a least one, and no
\* greatest.
AtLeast(value) == IF value < Low THEN Low ELSE value

\* What localStorage may hold: this tab's values, and those of other tabs.
Stored == Values \cup {AtLeast(value) : value \in ServerValues}

VARIABLES
    setting,  \* the setting that is looked at
    onServer, \* its value on the server
    inStore,  \* its value in the store of this tab
    info,     \* GET /api/info: InfoAsked, its answer, or InfoOver
    saves,    \* each save: where it is, the new value and the one to go back to
    apart     \* since the tab was loaded requests overlapped, an answer was lost,
              \* or others changed the value

settingVars == <<setting, onServer, inStore, info, saves, apart>>

InfoAsked == -2
InfoOver  == -1

NoSave == [at |-> "off", next |-> Low, prev |-> Low]
UnderWay == {i \in Saves : saves[i].at # "off"}

\* The initial store: what localStorage says, whatever the server has.
SettingsInit ==
    /\ setting \in Settings
    /\ onServer \in ServerValues /\ inStore \in Stored
    /\ info = InfoAsked /\ apart = FALSE
    /\ saves = [i \in Saves |-> NoSave]

\* useServerInfo: the server answers, the answer arrives, or it is lost.
InfoServed ==
    /\ info = InfoAsked
    /\ info' = onServer
    /\ UNCHANGED <<setting, onServer, inStore, saves, apart>>

\* A value that is not positive is passed over.
InfoArrives ==
    /\ info >= 0
    /\ inStore' = IF info > 0 THEN AtLeast(info) ELSE inStore
    /\ info' = InfoOver
    /\ UNCHANGED <<setting, onServer, saves, apart>>

InfoFails ==
    /\ info # InfoOver
    /\ info' = InfoOver /\ apart' = TRUE
    /\ UNCHANGED <<setting, onServer, inStore, saves>>

\* Another tab, another client or a restart of the server.
OthersSet ==
    /\ onServer' \in ServerValues
    /\ apart' = (apart \/ info # InfoAsked)
    /\ UNCHANGED <<setting, inStore, info, saves>>

\* The number typed, rounded and kept within the bounds of the page; zero and
\* less are refused with an error.
Clamped(typed) == IF typed > High THEN High ELSE IF typed < Low THEN Low ELSE typed

\* What may be typed: the bounds of an input are hints.
Inputs == (Low - 1)..(High + 1)

\* A save up to its await: the store has the new value before the server does,
\* and the old one is kept to go back.
Save(i, typed) ==
    /\ typed > 0 /\ saves[i] = NoSave
    /\ inStore' = AtLeast(Clamped(typed))
    /\ saves' = [saves EXCEPT ![i] = [at |-> "sent", next |-> Clamped(typed), prev |-> inStore]]
    /\ apart' = (apart \/ UnderWay # {} \/ info # InfoOver)
    /\ UNCHANGED <<setting, onServer, info>>

handleSaveInterval(i, typed) == setting = "updateIntervalMs" /\ Save(i, typed)
handleSaveCacheTtl(i, typed) == setting = "ncduCacheTtlSec" /\ Save(i, typed)

\* The server takes the value; the answer says so, or is lost.
SaveServed(i) ==
    /\ saves[i].at = "sent"
    /\ onServer' = saves[i].next
    /\ \/ saves' = [saves EXCEPT ![i].at = "saved"] /\ UNCHANGED apart
       \/ saves' = [saves EXCEPT ![i].at = "failed"] /\ apart' = TRUE
    /\ UNCHANGED <<setting, inStore, info>>

\* It takes the value of a save whose page is gone.
OrphanServed(i) ==
    /\ saves[i].at = "orphan"
    /\ onServer' \in {onServer, saves[i].next}
    /\ saves' = [saves EXCEPT ![i] = NoSave]
    /\ UNCHANGED <<setting, inStore, info, apart>>

\* The request is refused, or never reaches the server.
SaveRefused(i) ==
    /\ saves[i].at = "sent"
    /\ saves' = [saves EXCEPT ![i].at = "failed"]
    /\ UNCHANGED <<setting, onServer, inStore, info, apart>>

SaveSucceeds(i) ==
    /\ saves[i].at = "saved"
    /\ saves' = [saves EXCEPT ![i] = NoSave]
    /\ UNCHANGED <<setting, onServer, inStore, info, apart>>

\* A mutant: a failure that leaves the store with the new value.
NoWayBack(i) == inStore

RolledBack(i) == AtLeast(saves[i].prev)

\* The catch block.
SaveFails(i) ==
    /\ saves[i].at = "failed"
    /\ inStore' = RolledBack(i)
    /\ saves' = [saves EXCEPT ![i] = NoSave]
    /\ UNCHANGED <<setting, onServer, info, apart>>

\* The tab is reloaded: the store comes back from localStorage, where another tab
\* may have put its value, the server is asked again, and no handler is left for
\* the saves the server may still get.
ReloadTab ==
    /\ info' = InfoAsked /\ inStore' \in Stored
    /\ apart' = \E i \in Saves : saves[i].at = "sent" \/ saves[i].at = "orphan"
    /\ saves' = [i \in Saves |-> IF saves[i].at \in {"sent", "orphan"}
                                 THEN [saves[i] EXCEPT !.at = "orphan"] ELSE NoSave]
    /\ UNCHANGED <<setting, onServer>>

SettingsStep ==
    \/ InfoServed \/ InfoArrives \/ InfoFails \/ ReloadTab \/ OthersSet
    \/ \E i \in Saves :
          \/ \E typed \in Inputs : handleSaveInterval(i, typed) \/ handleSaveCacheTtl(i, typed)
          \/ SaveServed(i) \/ SaveRefused(i) \/ SaveSucceeds(i) \/ SaveFails(i) \/ OrphanServed(i)

\* These numbers on their own.
SettingsSpec == SettingsInit /\ [][SettingsStep]_settingVars

-----------------------------------------------------------------------------
\* At rest the tab has the value of the server, or the least one it lets through
\* when the server has less, after any number of refused saves: unless, since
\* the tab was loaded, two saves, or a save and the request of the load,
\* overlapped, an answer was lost, or others changed the value. A reload mends
\* what was apart, but for a save that reaches the server after it
\* (SettingsPage.tsx:145-205, useServerInfo.ts:11-26, store/index.ts:207-218).
\* Two saves that overlap can go back to a value that neither the user nor the
\* server has.
StoreIsServer ==
    UnderWay = {} /\ info = InfoOver /\ ~apart /\ onServer > 0 => inStore = AtLeast(onServer)
=============================================================================
