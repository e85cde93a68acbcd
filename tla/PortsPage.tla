----------------------------- MODULE PortsPage -----------------------------
(* The page of listening ports (pages/PortsPage.tsx): it polls the list, and *)
(* kills what listens on a port. Polls, refreshes and kills overlap, and     *)
(* their answers come in any order. What a kill does on the server is the    *)
(* subject of the module Ports.                                              *)
EXTENDS Integers, FiniteSets

CONSTANTS PortNumbers, \* ports that may be listened on
          Fetches,     \* requests for the list under way at one time (bound)
          Kills,       \* kills under way at one time (bound)
          NoPort       \* no port is being killed

VARIABLES
    bound,        \* the ports the server would list
    listeners,    \* the ports the page lists
    listing,      \* the page still shows that it is loading
    killingPort,  \* the port whose button is disabled
    loadErrorNotified, \* loadErrorNotifiedRef
    fetches,      \* each request for the list, and the list it brings
    kills         \* each run of handleKillPort: its port and where it is

portVars == <<bound, listeners, listing, killingPort, loadErrorNotified, fetches, kills>>
Rest == <<bound, listeners, listing, killingPort, loadErrorNotified>>

NoFetch == [at |-> "off", list |-> {}]
Asked == [at |-> "asked", list |-> {}]
NoKill == [at |-> "off", port |-> NoPort]

PortsInit ==
    /\ bound \in SUBSET PortNumbers
    /\ listeners = {} /\ listing = TRUE /\ killingPort = NoPort /\ loadErrorNotified = FALSE
    /\ fetches \in {f \in [Fetches \cup Kills -> {NoFetch, Asked}] :
                       \E i \in Fetches : f = [j \in Fetches \cup Kills |-> IF j = i THEN Asked ELSE NoFetch]}
    /\ kills = [k \in Kills |-> NoKill]

\* The mount, the interval of five seconds or the refresh button: fetchPorts.
FetchPorts(i) ==
    /\ i \in Fetches /\ fetches[i] = NoFetch
    /\ fetches' = [fetches EXCEPT ![i] = Asked]
    /\ UNCHANGED <<Rest, kills>>

FetchServed(i) ==
    /\ fetches[i].at = "asked"
    /\ fetches' = [fetches EXCEPT ![i] = [at |-> "served", list |-> bound]]
    /\ UNCHANGED <<Rest, kills>>

\* A mutant: the rows of a new list are added to those of the old one.
Merge(list) == listeners \cup list

Shown(list) == list

\* A mutant: a handler that ends without giving its button back.
KeepButton(k) == kills' = [kills EXCEPT ![k] = NoKill] /\ UNCHANGED killingPort

\* The finally block of handleKillPort; it gives back the button of whichever
\* port was killed last.
KillEnds(k) == kills' = [kills EXCEPT ![k] = NoKill] /\ killingPort' = NoPort

\* fetchPorts ends, and the handler that awaited it.
FetchEnds(i) ==
    /\ fetches' = [fetches EXCEPT ![i] = NoFetch]
    /\ listing' = FALSE
    /\ IF i \in Kills THEN KillEnds(i) ELSE UNCHANGED <<kills, killingPort>>
    /\ UNCHANGED bound

FetchArrives(i) ==
    /\ fetches[i].at = "served"
    /\ listeners' = Shown(fetches[i].list)
    /\ loadErrorNotified' = FALSE
    /\ FetchEnds(i)

\* The first failure since the last list shows an error, and only that one.
FetchFails(i) ==
    /\ fetches[i] # NoFetch
    /\ loadErrorNotified' = TRUE
    /\ UNCHANGED listeners
    /\ FetchEnds(i)

\* The table has a button for each listed port; it is rendered when the first
\* list has come or failed.
Offered(p) == ~listing /\ p \in listeners /\ killingPort # p

\* The button of a port, once the confirmation is given.
KillPort(k, p) ==
    /\ Offered(p)
    /\ kills[k] = NoKill
    /\ kills' = [kills EXCEPT ![k] = [at |-> "sent", port |-> p]]
    /\ killingPort' = p
    /\ UNCHANGED <<bound, listeners, listing, loadErrorNotified, fetches>>

\* The server signals the processes, and they may end now, later or never; a
\* success goes on to fetch the list.
KillSucceeds(k) ==
    /\ kills[k].at = "sent"
    /\ kills' = [kills EXCEPT ![k].at = "listing"]
    /\ fetches' = [fetches EXCEPT ![k] = Asked]
    /\ UNCHANGED Rest

\* The server refuses, or the answer is lost.
KillFails(k) ==
    /\ kills[k].at = "sent"
    /\ KillEnds(k)
    /\ UNCHANGED <<bound, listeners, listing, loadErrorNotified, fetches>>

\* Processes begin and end to listen.
BoundChanges ==
    /\ \E p \in PortNumbers : bound' = IF p \in bound THEN bound \ {p} ELSE bound \cup {p}
    /\ UNCHANGED <<listeners, listing, killingPort, loadErrorNotified, fetches, kills>>

PortsStep ==
    \/ \E i \in Fetches \cup Kills : FetchPorts(i) \/ FetchServed(i) \/ FetchArrives(i) \/ FetchFails(i)
    \/ \E k \in Kills : KillSucceeds(k) \/ KillFails(k) \/ \E p \in PortNumbers : KillPort(k, p)
    \/ BoundChanges

\* The page on its own.
PortsSpec == PortsInit /\ [][PortsStep]_portVars

-----------------------------------------------------------------------------
\* A disabled button belongs to a kill that is still under way: no order of
\* kills and answers leaves a button disabled for good (PortsPage.tsx:71-85
\* and 131).
DisabledIsPending ==
    killingPort # NoPort => \E k \in Kills : kills[k].at # "off" /\ kills[k].port = killingPort
=============================================================================
