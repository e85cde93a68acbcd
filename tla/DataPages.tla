----------------------------- MODULE DataPages -----------------------------
(* The pages that load several resources at once and show them: AlertsPage,  *)
(* FirewallPage and PackagesPage. A load asks for all parts with             *)
(* Promise.all, then reads the bodies and sets the state part by part. Loads *)
(* may overlap: the refresh button stays open. The alerts page also sends    *)
(* commands (test, mute, clear mute) and loads again after each.             *)
(* A value of the server is the number of changes before it.                 *)
EXTENDS Integers, SequencesExt

CONSTANTS Loads,      \* loads under way at one time (bound)
          MaxChanges, \* changes of the data of the server (bound)
          None        \* nothing shown yet

ASSUME DataAssumption == None \notin Nat \cup {"page", "command"}

VARIABLES
    page,       \* the page that is open
    linux,      \* the server can audit this system; else it answers 501
    now,        \* changes of the data so far
    load,       \* each load: where it is, and what each part answered
    view,       \* what the page shows of each part
    unsupported, loading, \* fields of the page
    command,    \* the command under way: "idle", "sent", "done", "failed", or
                \* "reload" while the handler awaits its load
    failed,     \* the last load that ended has failed
    due,        \* the oldest data the page may show once it is at rest
    overlapped  \* two loads were under way at one time, or a load and a command

dataVars == <<page, linux, now, load, view, unsupported, loading, command, failed, due, overlapped>>

AllParts == {"config", "status", "history", "rules", "exposures", "inventory", "updates"}
Empty == [q \in AllParts |-> None]

\* The parts of a page in the order in which its load() sets them.
AlertsParts == <<"config", "status", "history">>
FirewallParts == <<"status", "rules", "exposures">>
PackagesParts == <<"inventory", "updates">>

Parts(p) == CASE p = "alerts" -> AlertsParts
              [] p = "firewall" -> FirewallParts
              [] p = "packages" -> PackagesParts

PageParts == ToSet(Parts(page))

\* The parts the page renders: the alerts page hides two of them while it
\* loads, the others hide all behind the message that the audit is unsupported.
AlertsCards == IF loading THEN {"history"} ELSE ToSet(AlertsParts)
FirewallCards == IF unsupported THEN {} ELSE ToSet(FirewallParts)
PackagesCards == IF unsupported THEN {} ELSE ToSet(PackagesParts)

Rendered == CASE page = "alerts" -> AlertsCards
              [] page = "firewall" -> FirewallCards
              [] page = "packages" -> PackagesCards

Off == [at |-> "off", got |-> Empty, left |-> <<>>, by |-> None]
Active == {l \in Loads : load[l].at # "off"}
Begun(p, by) == [at |-> "asked", got |-> Empty, left |-> Parts(p), by |-> by]

\* load() begins; the alerts page says so.
Start(l, by) ==
    /\ load[l] = Off
    /\ load' = [load EXCEPT ![l] = Begun(page, by)]
    /\ loading' = (page = "alerts")
    /\ due' = now
    /\ overlapped' = (overlapped \/ Active # {} \/ command \notin {"idle", "done"})

\* The page is mounted.
Mount(p) ==
    /\ page = p /\ linux \in (IF p = "alerts" THEN {TRUE} ELSE BOOLEAN)
    /\ now = 1 /\ view = Empty /\ unsupported = FALSE
    /\ loading = (p = "alerts")
    /\ \E l \in Loads : load = [[k \in Loads |-> Off] EXCEPT ![l] = Begun(p, "page")]
    /\ command = "idle" /\ failed = FALSE /\ due = 1 /\ overlapped = FALSE

\* The refresh button, which a page with a message instead of data has not.
Refresh(l) ==
    /\ ~unsupported
    /\ Start(l, "page")
    /\ UNCHANGED <<page, linux, now, view, unsupported, command, failed>>

\* The server answers one of the requests with its data of this moment.
Serve(l, q) ==
    /\ load[l].at = "asked" /\ q \in PageParts /\ load[l].got[q] = None
    /\ load' = [load EXCEPT ![l].got[q] = now]
    /\ UNCHANGED <<page, linux, now, view, unsupported, loading, command, failed, due, overlapped>>

\* The end of a load: the finally block, and the handler that awaited it. load()
\* catches its own errors, so the handler ends without one.
End(l) ==
    /\ load' = [load EXCEPT ![l] = Off]
    /\ loading' = FALSE
    /\ command' = IF load[l].by = "command" THEN "idle" ELSE command

Answered(l) == load[l].at = "asked" /\ \A q \in PageParts : load[l].got[q] # None

\* All parts have answered: with 501 the page takes back what it showed.
Unsupported(l) ==
    /\ Answered(l) /\ ~linux
    /\ unsupported' = TRUE /\ view' = Empty
    /\ End(l) /\ failed' = FALSE
    /\ UNCHANGED <<page, linux, now, due, overlapped>>

SetParts(l) ==
    /\ Answered(l) /\ linux
    /\ load' = [load EXCEPT ![l].at = "setting"]
    /\ unsupported' = FALSE
    /\ UNCHANGED <<page, linux, now, view, loading, command, failed, due, overlapped>>

\* One body is read and shown; the last one ends the load.
ShowPart(l) ==
    LET q == Head(load[l].left) IN
    /\ load[l].at = "setting"
    /\ view' = [view EXCEPT ![q] = load[l].got[q]]
    /\ IF Len(load[l].left) > 1
       THEN load' = [load EXCEPT ![l].left = Tail(@)] /\ UNCHANGED <<loading, command, failed>>
       ELSE End(l) /\ failed' = FALSE
    /\ UNCHANGED <<page, linux, now, unsupported, due, overlapped>>

\* A request is refused or lost, or a body cannot be read: an error is shown,
\* and what was set stays set.
LoadFails(l) ==
    /\ load[l].at # "off"
    /\ failed' = TRUE
    /\ End(l)
    /\ UNCHANGED <<page, linux, now, view, unsupported, due, overlapped>>

\* The data of the server change.
Change ==
    /\ now < MaxChanges /\ now' = now + 1
    /\ UNCHANGED <<page, linux, load, view, unsupported, loading, command, failed, due, overlapped>>

-----------------------------------------------------------------------------
(* handleSendTest, handleMute and handleClearMute of the alerts page.       *)

\* The buttons of a user who may manage alerts; they are never disabled. (One
\* command at a time: a bound.)
Click ==
    /\ page = "alerts" /\ command = "idle"
    /\ command' = "sent"
    /\ overlapped' = (overlapped \/ Active # {})
    /\ UNCHANGED <<page, linux, now, load, view, unsupported, loading, failed, due>>

\* The server does it, or refuses; an answer that is lost looks like a refusal.
CommandServed ==
    /\ command = "sent"
    /\ \/ now < MaxChanges /\ now' = now + 1 /\ command' \in {"done", "failed"}
       \/ UNCHANGED now /\ command' = "failed"
    /\ UNCHANGED <<page, linux, load, view, unsupported, loading, failed, due, overlapped>>

\* A mutant: a handler that does not load again.
NoReload(l) ==
    /\ due' = now /\ command' = "idle"
    /\ UNCHANGED <<load, loading, overlapped>>

Reload(l) == Start(l, "command") /\ command' = "reload"

CommandDone(l) ==
    /\ command = "done"
    /\ Reload(l)
    /\ UNCHANGED <<page, linux, now, view, unsupported, failed>>

CommandFailed ==
    /\ command = "failed"
    /\ command' = "idle"
    /\ UNCHANGED <<page, linux, now, load, view, unsupported, loading, failed, due, overlapped>>

LoadStep(l) ==
    \/ \E q \in PageParts : Serve(l, q)
    \/ Unsupported(l) \/ SetParts(l) \/ ShowPart(l) \/ LoadFails(l)

DataStep ==
    \/ \E l \in Loads : Refresh(l) \/ LoadStep(l) \/ CommandDone(l)
    \/ Change \/ Click \/ CommandServed \/ CommandFailed

-----------------------------------------------------------------------------
\* At rest, a page on which no two loads overlapped and none failed shows no
\* part that is older than its last load or than the last command that
\* succeeded (AlertsPage.tsx:24-47, FirewallPage.tsx:15-40,
\* PackagesPage.tsx:14-35). A load that overlaps another can mix its parts
\* with older ones.
ShownIsFresh ==
    Active = {} /\ command = "idle" /\ ~overlapped /\ ~failed
        => \A q \in Rendered : view[q] >= due
=============================================================================
