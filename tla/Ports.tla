------------------------------- MODULE Ports -------------------------------
(***************************************************************************)
(* The port scanner (internal/ports/scanner.go) under the requests         *)
(* DELETE /api/ports/:port of internal/server/handlers.go.                 *)
(*                                                                         *)
(* KillByPort learns who listens from two runs of lsof, one for TCP and    *)
(* one for UDP, and then signals the processes one after the other.        *)
(* Meanwhile processes open and close sockets, exit, and process ids are   *)
(* used again.                                                             *)
(*                                                                         *)
(* lsof prints, per process, a line with its id and its command and, per   *)
(* open socket, a line with the protocol and one with the name.  The name  *)
(* ends in the local port of a socket that is not connected, in the remote *)
(* port of one that is, and in no number for a UDP socket that has no port *)
(* yet; what comes before counts as the address.  A run of lsof that fails *)
(* without a message is taken for one that has found nothing.              *)
(***************************************************************************)
EXTENDS Integers, Sequences, SequencesExt, FiniteSetsExt

CONSTANTS
    Requests,       \* DELETE /api/ports/:port requests
    MaxPid,         \* process ids are 1 .. MaxPid
    MaxPort,        \* port numbers are 1 .. MaxPort
    MaxFd,          \* descriptors of a process that may hold a socket
    Addresses,      \* addresses of sockets, of both ends when one is connected
    Sockets,        \* the sockets that processes open
    Protected,      \* processes that QuickVPS may not signal
    MaxChanges      \* changes of the processes after the start (a bound)

Pids == 1 .. MaxPid
PortNumbers == 1 .. MaxPort

\* peer = 0: not connected; port = 0: a UDP socket without a port ("*:*").
Socket == [proto : {"TCP", "UDP"}, addr : Addresses, port : 0 .. MaxPort, peer : 0 .. MaxPort]
NoSocket == [proto |-> "none", addr |-> "none", port |-> 0, peer |-> 0]

ASSUME PortsAssumption ==
    /\ MaxPid \in Nat /\ MaxPort \in Nat /\ MaxFd \in Nat /\ MaxChanges \in Nat
    /\ Sockets \subseteq Socket
    /\ Protected \subseteq Pids

VARIABLES
    alive,          \* process ids in use
    files,          \* files[p][fd]: the socket that descriptor holds
    changes,        \* changes of alive or files so far
    pc,             \* pc[r]: what KillByPort does next
    port,           \* port[r]: the port of the request
    listing,        \* listing[r]: the listeners found so far
    targets,        \* targets[r]: the processes still to signal
    killed,         \* killed[r]: signalled with success
    failed,         \* failed[r]: could not be signalled
    answer,         \* answer[r]: HTTP status of the answer, 0 before it
    steady,         \* steady[r]: endpoints on the port since the request came
    silent          \* silent[r]: protocols for which lsof failed unnoticed

world   == <<alive, files, changes>>
request == <<pc, port, listing, targets, killed, failed, answer>>
seen    == <<steady, silent>>
vars == <<world, request, seen>>

Endpoint == [proto : {"TCP", "UDP"}, pid : Pids]

----------------------------------------------------------------------------
(* What the processes do.  A process listens on a port when one of its     *)
(* sockets has it and is not connected.                                    *)

Held(f) == {f[fd] : fd \in 1 .. MaxFd} \ {NoSocket}
ListensAt(f, proto, a, n) == [proto |-> proto, addr |-> a, port |-> n, peer |-> 0] \in Held(f)
Listens(f, proto, n) == \E a \in Addresses : ListensAt(f, proto, a, n)

\* Each change of the processes is seen by the requests in progress.
Observed ==
    /\ changes < MaxChanges /\ changes' = changes + 1
    /\ steady' = [r \in Requests |->
                    {l \in steady[r] : Listens(files'[l.pid], l.proto, port[r])}]
    /\ UNCHANGED <<request, silent>>

Open(p, fd) ==
    /\ p \in alive /\ files[p][fd] = NoSocket
    /\ \E s \in Sockets : files' = [files EXCEPT ![p][fd] = s]
    /\ alive' = alive
    /\ Observed

Close(p, fd) ==
    /\ files[p][fd] # NoSocket
    /\ files' = [files EXCEPT ![p][fd] = NoSocket]
    /\ alive' = alive
    /\ Observed

\* The process exits, after SIGTERM or by itself.
Exit(p) ==
    /\ p \in alive
    /\ alive' = alive \ {p}
    /\ files' = [files EXCEPT ![p] = [fd \in 1 .. MaxFd |-> NoSocket]]
    /\ Observed

\* A new process gets an id that was used before.
Reuse(p) ==
    /\ p \notin alive
    /\ alive' = alive \cup {p} /\ files' = files
    /\ Observed

----------------------------------------------------------------------------
(* lsof: which sockets it lists for the arguments of the two calls, and    *)
(* what it prints.                                                         *)

TCPListen == {s \in Socket : s.proto = "TCP" /\ s.peer = 0}    \* -iTCP -sTCP:LISTEN
UDP       == {s \in Socket : s.proto = "UDP"}                  \* -iUDP

Line(key, value) == [key |-> key, value |-> value]

LsofFile(s) == <<Line("f", s), Line("P", s.proto), Line("n", s)>>

\* FlattenSeq of the library, as a recursive function that proofs can expand.
Concat(parts) ==
    LET upTo[n \in 0 .. Len(parts)] == IF n = 0 THEN <<>> ELSE upTo[n - 1] \o parts[n]
    IN  upTo[Len(parts)]

LsofFiles(p, selected) ==
    Concat([fd \in 1 .. MaxFd |->
                IF files[p][fd] \in selected THEN LsofFile(files[p][fd]) ELSE <<>>])

LsofProcess(p, selected) ==
    IF LsofFiles(p, selected) = <<>> THEN <<>>
    ELSE <<Line("p", p), Line("c", p)>> \o LsofFiles(p, selected)

Lsof(selected) ==
    Concat([p \in 1 .. MaxPid |-> IF p \in alive THEN LsofProcess(p, selected) ELSE <<>>])

----------------------------------------------------------------------------
(* runLsof: a fold over the lines that carries the process and the         *)
(* protocol along, and skips a socket seen before.                         *)

\* What stands before the last colon of a name: with a peer, that is the local
\* port too ("a:5353->b").
Address == [addr : Addresses, from : 0 .. MaxPort]

\* The address, and the number after the last colon; 0 stands for "not ok".
splitAddressPort(name) ==
    [address |-> [addr |-> name.addr, from |-> IF name.peer # 0 THEN name.port ELSE 0],
     port    |-> IF name.peer # 0 THEN name.peer ELSE name.port]

parseName(state, name) ==
    LET split == splitAddressPort(name)
        entry == [proto |-> IF state.proto = "" THEN "TCP" ELSE state.proto,
                  address |-> split.address, port |-> split.port, pid |-> state.pid]
    IN  IF \/ entry.port <= 0 \/ entry.pid <= 0
           \/ Contains(state.listeners, entry)
        THEN state
        ELSE [state EXCEPT !.listeners = Append(@, entry)]

\* Mutant of parseLine: the id of the first process is kept.
parseFirstPid(state, line) ==
    CASE line.key = "p" -> IF state.pid = 0 THEN [state EXCEPT !.pid = line.value] ELSE state
      [] line.key = "P" -> [state EXCEPT !.proto = line.value]
      [] line.key = "n" -> parseName(state, line.value)
      [] OTHER -> state

parseLine(state, line) ==
    CASE line.key = "p" -> [state EXCEPT !.pid = line.value]
      [] line.key = "P" -> [state EXCEPT !.proto = line.value]
      [] line.key = "n" -> parseName(state, line.value)
      [] OTHER -> state

\* The loop over the lines; a recursive function for the sake of the proofs.
parseLines(state, lines) ==
    LET after[n \in 0 .. Len(lines)] ==
            IF n = 0 THEN state ELSE parseLine(after[n - 1], lines[n])
    IN  after[Len(lines)]

parseLsofOutput(lines) ==
    parseLines([pid |-> 0, proto |-> "", listeners |-> <<>>], lines).listeners

Before(a, b) ==
    \/ a.port < b.port
    \/ a.port = b.port /\ a.proto = "TCP" /\ b.proto = "UDP"
    \/ a.port = b.port /\ a.proto = b.proto /\ a.pid < b.pid

\* What sort.Slice in ListListeners may leave: it promises nothing about equals.
Sortings(entries) ==
    {t \in {[i \in DOMAIN entries |-> entries[f[i]]] :
               f \in Bijection(DOMAIN entries, DOMAIN entries)} :
        \A i, j \in DOMAIN t : i < j => ~ Before(t[j], t[i])}

----------------------------------------------------------------------------
(* The request.                                                            *)

Init ==
    /\ alive = Pids
    /\ files \in [Pids -> [1 .. MaxFd -> Sockets \cup {NoSocket}]]
    /\ changes = 0
    /\ pc = [r \in Requests |-> "idle"]
    /\ port \in [Requests -> PortNumbers]
    /\ listing = [r \in Requests |-> <<>>]
    /\ targets = [r \in Requests |-> {}]
    /\ killed = [r \in Requests |-> {}]
    /\ failed = [r \in Requests |-> {}]
    /\ answer = [r \in Requests |-> 0]
    /\ steady = [r \in Requests |-> {}]
    /\ silent = [r \in Requests |-> {}]

\* handlePortByID accepts the number and calls KillByPort.
Accept(r) ==
    /\ pc[r] = "idle"
    /\ pc' = [pc EXCEPT ![r] = "tcp"]
    /\ steady' = [steady EXCEPT ![r] = 
                    {l \in Endpoint : Listens(files[l.pid], l.proto, port[r])}]
    /\ UNCHANGED <<world, silent, port, listing, targets, killed, failed, answer>>

Finish(r, status) ==
    /\ pc' = [pc EXCEPT ![r] = "done"]
    /\ answer' = [answer EXCEPT ![r] = status]

\* lsof is not there, or fails with a message, in the first call or the second.
LsofFails(r) ==
    /\ pc[r] \in {"tcp", "udp"}
    /\ Finish(r, 500)
    /\ UNCHANGED <<world, seen, port, listing, targets, killed, failed>>

\* What runLsof returns without an error: what lsof printed, or nothing when lsof
\* exits with an error and has no message, whatever it printed.
runLsof(selected, fails) == IF fails THEN <<>> ELSE parseLsofOutput(Lsof(selected))

NoteSilence(r, proto, fails) ==
    silent' = IF fails THEN [silent EXCEPT ![r] = @ \cup {proto}] ELSE silent

ListTCP(r, fails) ==
    /\ pc[r] = "tcp"
    /\ listing' = [listing EXCEPT ![r] = runLsof(TCPListen, fails)]
    /\ NoteSilence(r, "TCP", fails)
    /\ pc' = [pc EXCEPT ![r] = "udp"]
    /\ UNCHANGED <<world, steady, port, targets, killed, failed, answer>>

OnPort(listeners, n) == {l.pid : l \in {m \in ToSet(listeners) : m.port = n}}

ListUDP(r, fails) ==
    /\ pc[r] = "udp"
    /\ NoteSilence(r, "UDP", fails)
    /\ \E all \in Sortings(listing[r] \o runLsof(UDP, fails)) :
           /\ listing' = [listing EXCEPT ![r] = all]
           /\ targets' = [targets EXCEPT ![r] = OnPort(all, port[r])]
           /\ IF OnPort(all, port[r]) = {}
              THEN Finish(r, 404)
              ELSE pc' = [pc EXCEPT ![r] = "kill"] /\ UNCHANGED answer
    /\ UNCHANGED <<world, steady, port, killed, failed>>

\* Mutant of Remaining: the loop returns at the first failure.
UntilFailure(rest, ok) == IF ok THEN rest ELSE {}

\* What remains to be signalled when one process was, with success or not.
Remaining(rest, ok) == rest

Signal(r) ==
    /\ pc[r] = "kill" /\ targets[r] # {}
    /\ LET p  == Min(targets[r])
           ok == p \in alive /\ p \notin Protected
       IN  /\ targets' = [targets EXCEPT ![r] = Remaining(@ \ {p}, ok)]
           /\ killed' = IF ok THEN [killed EXCEPT ![r] = @ \cup {p}] ELSE killed
           /\ failed' = IF ok THEN failed ELSE [failed EXCEPT ![r] = @ \cup {p}]
    /\ UNCHANGED <<world, seen, pc, port, listing, answer>>

Answer(r) ==
    /\ pc[r] = "kill" /\ targets[r] = {}
    /\ Finish(r, IF failed[r] = {} THEN 200 ELSE 500)
    /\ UNCHANGED <<world, seen, port, listing, targets, killed, failed>>

Next ==
    \/ \E r \in Requests :
          \/ Accept(r) \/ LsofFails(r) \/ Signal(r) \/ Answer(r)
          \/ \E fails \in BOOLEAN : ListTCP(r, fails) \/ ListUDP(r, fails)
    \/ \E p \in Pids : Exit(p) \/ Reuse(p) \/ \E fd \in 1 .. MaxFd : Open(p, fd) \/ Close(p, fd)

Spec == Init /\ [][Next]_vars

----------------------------------------------------------------------------
Listener == [proto : {"TCP", "UDP"}, address : Address, port : PortNumbers, pid : Pids]

\* The listeners of one protocol, as entries.
ListedOf(proto) ==
    {l \in Listener :
        /\ l.proto = proto /\ l.address.from = 0
        /\ ListensAt(files[l.pid], proto, l.address.addr, l.port)}

\* The same, as far as lsof has not kept them to itself.
Shown(r, proto) == IF proto \in silent'[r] THEN {} ELSE ListedOf(proto)

\* What the steps of a request that make its listing put into it.
ListsExactly ==
    \A r \in Requests :
        /\ (pc[r] = "tcp" /\ pc'[r] = "udp") =>
                /\ ToSet(listing'[r]) = Shown(r, "TCP")
                /\ IsInjective(listing'[r])
        /\ (pc[r] = "udp" /\ (pc'[r] = "kill" \/ answer'[r] = 404)) =>
                /\ ToSet(listing[r]) \cup Shown(r, "UDP") \subseteq ToSet(listing'[r])
                /\ \A l \in ToSet(listing'[r]) \ (ToSet(listing[r]) \cup Shown(r, "UDP")) :
                      /\ "UDP" \notin silent'[r]
                      /\ \E s \in Held(files[l.pid]) : s.proto = "UDP" /\ s.peer = l.port
                /\ IsInjective(listing'[r])
                /\ \A i, j \in DOMAIN listing'[r] :
                      i < j => ~ Before(listing'[r][j], listing'[r][i])

(* A listing is made of what lsof saw: the TCP part has exactly one entry  *)
(* for each address and port a process listens on, and the UDP part one    *)
(* for each that a socket without a peer has; nothing is lost or counted   *)
(* twice, nothing else is added but UDP sockets under the port of their    *)
(* peer, and the whole is in an order of ListListeners.  A run of lsof     *)
(* that failed unnoticed has added nothing.  (parseLsofOutput carries the  *)
(* process id and the protocol from line to line: an entry could come out  *)
(* with those of another socket.)                                          *)
ListingIsExact == [][ListsExactly]_vars

(* A process that listened on the port all the time is not missed,         *)
(* whatever other processes did between the calls of lsof and the signals  *)
(* and whether or not a signal failed: it was signalled and the answer is  *)
(* not that there was nobody, or QuickVPS may not signal it and the answer *)
(* is an error.  Only lsof can hide it: by an error, and then all          *)
(* processes are left alone, or by failing without a message.              *)
NobodyIsMissed ==
    \A r \in Requests :
        (pc[r] = "done" /\ ~ (answer[r] = 500 /\ killed[r] \cup failed[r] = {})) =>
            \A l \in steady[r] :
                l.proto \notin silent[r] =>
                    IF l.pid \in Protected
                    THEN l.pid \in failed[r] /\ answer[r] = 500
                    ELSE l.pid \in killed[r] /\ answer[r] # 404
=============================================================================
