----------------------------- MODULE PortsProofs -----------------------------
(* Proofs about KillByPort, for any number of requests, processes, ports and *)
(* sockets, whatever the processes do meanwhile: a listing is made of what   *)
(* lsof saw, and nobody who listened on the port all the time is missed,     *)
(* unless lsof fails without a message.                                      *)
(*                                                                           *)
(* The first half is about the data: what the loop over the lines makes of   *)
(* the lines that lsof prints, by induction over descriptors and processes,  *)
(* and what sort.Slice may leave. The induction principle comes from the     *)
(* well-founded order of the naturals.                                       *)
(*                                                                           *)
(* The second half is about the request. A listener that was there all the   *)
(* time is in the part of the listing that is complete (InListing), then in  *)
(* `targets` until it is signalled, and it is still alive by then            *)
(* (SocketsAreHeld).                                                         *)
EXTENDS Ports, SequenceTheorems, NaturalsInduction, WellFoundedInduction, TLAPS

(* Induction over 0 .. N, and recursive functions over it.                   *)

LEMMA LeastElement ==
    ASSUME NEW T \in SUBSET Nat, T # {}
    PROVE  \E m \in T : \A n \in T : m <= n
<1> DEFINE R == {ss \in Nat \X Nat : ss[1] < ss[2]}
<1>1. OpToRel(<, Nat) = R
  BY DEF OpToRel
<1>2. IsWellFoundedOn(R, Nat)
  BY <1>1, NatLessThanWellFounded
<1>3. PICK m \in T : \A n \in T : ~ (<<n, m>> \in R)
  <2> HIDE DEF R
  <2> QED BY <1>2, WFMin
<1>4. ASSUME NEW n \in T PROVE m <= n
  <2>1. m \in Nat /\ n \in Nat /\ <<n, m>> \notin R
    BY <1>3
  <2> QED BY <2>1
<1> QED BY <1>4

LEMMA UpToInduction ==
    ASSUME NEW N \in Nat, NEW T, 0 \in T, \A n \in 1 .. N : n - 1 \in T => n \in T
    PROVE  0 .. N \subseteq T
<1> SUFFICES ASSUME (0 .. N) \ T # {} PROVE FALSE
  OBVIOUS
<1>1. PICK m \in (0 .. N) \ T : \A n \in (0 .. N) \ T : m <= n
  <2>1. (0 .. N) \ T \in SUBSET Nat
    OBVIOUS
  <2> QED BY <2>1, LeastElement
<1>2. m \in 1 .. N /\ m - 1 \in 0 .. N
  BY <1>1
<1>3. m - 1 \in T
  BY <1>1, <1>2
<1> QED BY <1>1, <1>2, <1>3

\* g is the recursive function over 0 .. N with the steps F.
Recursion(g, N, S, b, F) ==
    g \in [0 .. N -> S] /\ g[0] = b /\ \A n \in 1 .. N : g[n] = F[n][g[n - 1]]

LEMMA RecursionExists ==
    ASSUME NEW N \in Nat, NEW S, NEW b \in S, NEW F \in [1 .. N -> [S -> S]]
    PROVE  \E g : Recursion(g, N, S, b, F)
<1> DEFINE Good(n) == \E g \in [0 .. n -> S] : g[0] = b /\ \A k \in 1 .. n : g[k] = F[k][g[k - 1]]
           T == {n \in 0 .. N : Good(n)}
<1>1. 0 \in T
  <2> DEFINE h == [n \in 0 .. 0 |-> b]
  <2>1. h \in [0 .. 0 -> S] /\ h[0] = b /\ \A k \in 1 .. 0 : h[k] = F[k][h[k - 1]]
    OBVIOUS
  <2>2. Good(0)
    <3> HIDE DEF h
    <3> QED BY <2>1
  <2> QED BY <2>2
<1>2. ASSUME NEW n \in 1 .. N, n - 1 \in T PROVE n \in T
  <2>1. PICK g \in [0 .. (n - 1) -> S] : g[0] = b /\ \A k \in 1 .. (n - 1) : g[k] = F[k][g[k - 1]]
    BY <1>2
  <2> DEFINE h == [k \in 0 .. n |-> IF k = n THEN F[n][g[n - 1]] ELSE g[k]]
  <2>2. g[n - 1] \in S /\ F[n][g[n - 1]] \in S
    BY <2>1
  <2>3. h \in [0 .. n -> S]
    BY <2>2
  <2>4. h[0] = b /\ \A k \in 1 .. n : h[k] = F[k][h[k - 1]]
    BY <2>1
  <2>5. Good(n)
    <3> HIDE DEF h
    <3> QED BY <2>3, <2>4
  <2> QED BY <2>5
<1>3. N \in T
  <2> HIDE DEF T
  <2>1. 0 .. N \subseteq T
    BY <1>1, <1>2, UpToInduction
  <2> QED BY <2>1
<1> QED BY <1>3 DEF Recursion

\* A recursive function stays in the set that its steps stay in.
LEMMA RecursionType ==
    ASSUME NEW N \in Nat, NEW S, NEW F \in [1 .. N -> [S -> S]],
           NEW c, c[0] \in S,
           \A n \in 1 .. N : c[n - 1] \in S => c[n] = F[n][c[n - 1]]
    PROVE  \A n \in 0 .. N : c[n] \in S
<1> DEFINE W == {n \in 0 .. N : c[n] \in S}
<1>1. 0 \in W
  OBVIOUS
<1>2. ASSUME NEW n \in 1 .. N, n - 1 \in W PROVE n \in W
  <2>1. n \in 0 .. N /\ c[n - 1] \in S
    BY <1>2
  <2>2. c[n] = F[n][c[n - 1]]
    BY <2>1
  <2> QED BY <2>1, <2>2
<1>3. 0 .. N \subseteq W
  <2> HIDE DEF W
  <2> QED BY <1>1, <1>2, UpToInduction
<1> QED BY <1>3

\* What Concat has put together after each part.
ConcatRun(c, parts, T) ==
    /\ \A n \in 0 .. Len(parts) : c[n] \in Seq(T)
    /\ c[0] = <<>> /\ c[Len(parts)] = Concat(parts)
    /\ \A n \in 1 .. Len(parts) : c[n] = c[n - 1] \o parts[n]

LEMMA ConcatSteps ==
    ASSUME NEW T, NEW parts \in Seq(Seq(T))
    PROVE  \E c : ConcatRun(c, parts, T)
<1> DEFINE N == Len(parts)
           S == Seq(T)
           b == <<>>
           F == [n \in 1 .. N |-> [s \in S |-> s \o parts[n]]]
           Eq(c) == c = [n \in 0 .. N |-> IF n = 0 THEN b ELSE c[n - 1] \o parts[n]]
<1>1. N \in Nat /\ b \in S /\ F \in [1 .. N -> [S -> S]]
  OBVIOUS
<1>2. PICK g : Recursion(g, N, S, b, F)
  <2> HIDE DEF F, N, S, b
  <2> QED BY <1>1, RecursionExists
<1>3. \A n \in 1 .. N, s \in S : F[n][s] = s \o parts[n]
  <2> HIDE DEF S, N
  <2> QED OBVIOUS
<1>4. \E c : Eq(c)
  <2> HIDE DEF S, F, N, b
  <2>0. g \in [0 .. N -> S] /\ g[0] = b /\ \A n \in 1 .. N : g[n] = F[n][g[n - 1]]
    BY <1>2 DEF Recursion
  <2>1. \A n \in 1 .. N : g[n - 1] \in S
    BY <1>1, <2>0
  <2>2. \A n \in 1 .. N : g[n] = g[n - 1] \o parts[n]
    BY <2>0, <1>3, <2>1
  <2> DEFINE h == [n \in 0 .. N |-> IF n = 0 THEN b ELSE g[n - 1] \o parts[n]]
  <2>3. \A n \in 0 .. N : g[n] = h[n]
    <3>1. 0 \in 0 .. N /\ \A n \in 1 .. N : n \in 0 .. N /\ n # 0
      BY <1>1
    <3>2. \A n \in 0 .. N : n = 0 \/ n \in 1 .. N
      BY <1>1
    <3>3. \A n \in 0 .. N : h[n] = IF n = 0 THEN b ELSE g[n - 1] \o parts[n]
      OBVIOUS
    <3> HIDE DEF h
    <3> QED BY <2>0, <2>2, <3>1, <3>2, <3>3
  <2>4. h = [n \in 0 .. N |-> h[n]]
    OBVIOUS
  <2>5. g = h
    <3> HIDE DEF h
    <3> QED BY <2>0, <2>3, <2>4
  <2>6. Eq(g)
    BY <2>5
  <2> QED BY <2>6
<1> DEFINE c == CHOOSE c : Eq(c)
<1>5. Concat(parts) = c[N]
  BY DEF Concat
<1>6. Eq(c)
  <2> HIDE DEF Eq
  <2> QED BY <1>4
<1> HIDE DEF c, S, F, N, b
<1>7. c[0] = b /\ \A n \in 1 .. N : c[n] = c[n - 1] \o parts[n]
  <2>1. \A n \in 0 .. N : c[n] = IF n = 0 THEN b ELSE c[n - 1] \o parts[n]
    BY <1>6
  <2>2. 0 \in 0 .. N /\ \A n \in 1 .. N : n \in 0 .. N /\ n # 0
    BY <1>1
  <2> HIDE DEF Eq
  <2> QED BY <2>1, <2>2
<1>8. \A n \in 0 .. N : c[n] \in S
  <2> HIDE DEF Eq
  <2>1. \A n \in 1 .. N : c[n - 1] \in S => c[n] = F[n][c[n - 1]]
    BY <1>3, <1>7
  <2>2. c[0] \in S
    BY <1>1, <1>7
  <2> QED BY <1>1, <2>1, <2>2, RecursionType
<1> QED BY <1>1, <1>5, <1>7, <1>8 DEF ConcatRun, N, S, b

-----------------------------------------------------------------------------
(* The loop over the lines.                                                  *)

Entries == [proto : {"TCP", "UDP"}, address : Address, port : Nat, pid : Nat]
States  == [pid : Nat, proto : {"", "TCP", "UDP"}, listeners : Seq(Entries)]
Lines   == [key : {"p", "c"}, value : Nat] \cup [key : {"P"}, value : {"TCP", "UDP"}]
           \cup [key : {"f", "n"}, value : Socket]

LEMMA SplitType ==
    ASSUME NEW name \in Socket PROVE splitAddressPort(name) \in [address : Address, port : Nat]
BY PortsAssumption DEF Socket, Address, splitAddressPort

LEMMA ParseNameType ==
    ASSUME NEW s \in States, NEW name \in Socket PROVE parseName(s, name) \in States
<1> DEFINE e == [proto |-> IF s.proto = "" THEN "TCP" ELSE s.proto,
                 address |-> splitAddressPort(name).address, port |-> splitAddressPort(name).port,
                 pid |-> s.pid]
<1>1. splitAddressPort(name).address \in Address /\ splitAddressPort(name).port \in Nat
  BY SplitType
<1>2. e \in Entries
  BY <1>1 DEF Entries, States
<1>3. parseName(s, name) \in {s, [s EXCEPT !.listeners = Append(@, e)]}
  BY DEF parseName
<1> HIDE DEF e
<1>4. s.listeners \in Seq(Entries)
  BY DEF States
<1>5. Append(s.listeners, e) \in Seq(Entries)
  BY <1>2, <1>4, AppendProperties
<1>6. [s EXCEPT !.listeners = Append(@, e)] \in States
  BY <1>5 DEF States
<1> QED BY <1>3, <1>6

LEMMA ParseLineType ==
    ASSUME NEW s \in States, NEW line \in Lines PROVE parseLine(s, line) \in States
<1>1. CASE line.key = "n"
  BY <1>1, ParseNameType DEF parseLine, Lines
<1>2. CASE line.key # "n"
  BY <1>2 DEF parseLine, Lines, States
<1> QED BY <1>1, <1>2

\* The states of the loop over the lines.
ParseRun(c, state, lines) ==
    /\ \A n \in 0 .. Len(lines) : c[n] \in States
    /\ c[0] = state /\ c[Len(lines)] = parseLines(state, lines)
    /\ \A n \in 1 .. Len(lines) : c[n] = parseLine(c[n - 1], lines[n])

LEMMA ParseSteps ==
    ASSUME NEW state \in States, NEW lines \in Seq(Lines)
    PROVE  \E c : ParseRun(c, state, lines)
<1> DEFINE N == Len(lines)
           S == States
           b == state
           F == [n \in 1 .. N |-> [s \in S |-> parseLine(s, lines[n])]]
           Eq(c) == c = [n \in 0 .. N |-> IF n = 0 THEN b ELSE parseLine(c[n - 1], lines[n])]
<1>1. N \in Nat /\ b \in S /\ F \in [1 .. N -> [S -> S]]
  <2>1. \A n \in 1 .. N : lines[n] \in Lines
    OBVIOUS
  <2> HIDE DEF N
  <2>2. \A n \in 1 .. N, s \in S : parseLine(s, lines[n]) \in S
    BY <2>1, ParseLineType
  <2>3. N \in Nat /\ b \in S
    BY DEF N
  <2> HIDE DEF S
  <2>4. F \in [1 .. N -> [S -> S]]
    BY <2>2
  <2> QED BY <2>3, <2>4
<1>2. PICK g : Recursion(g, N, S, b, F)
  <2> HIDE DEF F, N, S, b
  <2> QED BY <1>1, RecursionExists
<1>3. \A n \in 1 .. N, s \in S : F[n][s] = parseLine(s, lines[n])
  <2> HIDE DEF S, N
  <2> QED OBVIOUS
<1>4. \E c : Eq(c)
  <2> HIDE DEF S, F, N, b
  <2>0. g \in [0 .. N -> S] /\ g[0] = b /\ \A n \in 1 .. N : g[n] = F[n][g[n - 1]]
    BY <1>2 DEF Recursion
  <2>1. \A n \in 1 .. N : g[n - 1] \in S
    BY <1>1, <2>0
  <2>2. \A n \in 1 .. N : g[n] = parseLine(g[n - 1], lines[n])
    BY <2>0, <1>3, <2>1
  <2> DEFINE h == [n \in 0 .. N |-> IF n = 0 THEN b ELSE parseLine(g[n - 1], lines[n])]
  <2>3. \A n \in 0 .. N : g[n] = h[n]
    <3>1. 0 \in 0 .. N /\ \A n \in 1 .. N : n \in 0 .. N /\ n # 0
      BY <1>1
    <3>2. \A n \in 0 .. N : n = 0 \/ n \in 1 .. N
      BY <1>1
    <3>3. \A n \in 0 .. N : h[n] = IF n = 0 THEN b ELSE parseLine(g[n - 1], lines[n])
      OBVIOUS
    <3> HIDE DEF h
    <3> QED BY <2>0, <2>2, <3>1, <3>2, <3>3
  <2>4. h = [n \in 0 .. N |-> h[n]]
    OBVIOUS
  <2>5. g = h
    <3> HIDE DEF h
    <3> QED BY <2>0, <2>3, <2>4
  <2>6. Eq(g)
    BY <2>5
  <2> QED BY <2>6
<1> DEFINE c == CHOOSE c : Eq(c)
<1>5. parseLines(state, lines) = c[N]
  BY DEF parseLines
<1>6. Eq(c)
  <2> HIDE DEF Eq
  <2> QED BY <1>4
<1> HIDE DEF c, S, F, N, b
<1>7. c[0] = b /\ \A n \in 1 .. N : c[n] = parseLine(c[n - 1], lines[n])
  <2>1. \A n \in 0 .. N : c[n] = IF n = 0 THEN b ELSE parseLine(c[n - 1], lines[n])
    BY <1>6
  <2>2. 0 \in 0 .. N /\ \A n \in 1 .. N : n \in 0 .. N /\ n # 0
    BY <1>1
  <2> HIDE DEF Eq
  <2> QED BY <2>1, <2>2
<1>8. \A n \in 0 .. N : c[n] \in S
  <2> HIDE DEF Eq
  <2>1. \A n \in 1 .. N : c[n - 1] \in S => c[n] = F[n][c[n - 1]]
    BY <1>3, <1>7
  <2>2. c[0] \in S
    BY <1>1, <1>7
  <2> QED BY <1>1, <2>1, <2>2, RecursionType
<1> QED BY <1>1, <1>5, <1>7, <1>8 DEF ParseRun, N, S, b

LEMMA ParseType ==
    ASSUME NEW state \in States, NEW lines \in Seq(Lines)
    PROVE  parseLines(state, lines) \in States
<1>1. PICK c : ParseRun(c, state, lines)
  BY ParseSteps
<1>2. Len(lines) \in 0 .. Len(lines)
  OBVIOUS
<1> QED BY <1>1, <1>2 DEF ParseRun

LEMMA ParseNothing == ASSUME NEW state \in States PROVE parseLines(state, <<>>) = state
<1>1. <<>> \in Seq(Lines) /\ Len(<<>>) = 0
  OBVIOUS
<1>2. PICK c : ParseRun(c, state, <<>>)
  BY <1>1, ParseSteps
<1> QED BY <1>1, <1>2 DEF ParseRun

\* What comes first is parsed first.
LEMMA ParseConcat ==
    ASSUME NEW state \in States, NEW a \in Seq(Lines), NEW b \in Seq(Lines)
    PROVE  parseLines(state, a \o b) = parseLines(parseLines(state, a), b)
<1> DEFINE M == Len(a)
           N == Len(b)
           ab == a \o b
<1>1. /\ M \in Nat /\ N \in Nat /\ ab \in Seq(Lines) /\ Len(ab) = M + N
      /\ \A n \in 1 .. M : ab[n] = a[n]
      /\ \A n \in 1 .. N : ab[M + n] = b[n]
  OBVIOUS
<1> HIDE DEF ab
<1>2. PICK g : /\ g[0] = state /\ g[M + N] = parseLines(state, ab)
               /\ \A n \in 1 .. (M + N) : g[n] = parseLine(g[n - 1], ab[n])
  <2>1. PICK g : ParseRun(g, state, ab)
    BY <1>1, ParseSteps
  <2> QED BY <1>1, <2>1 DEF ParseRun
<1>3. PICK h : /\ h[0] = state /\ h[M] = parseLines(state, a)
               /\ \A n \in 1 .. M : h[n] = parseLine(h[n - 1], a[n])
  <2>1. PICK h : ParseRun(h, state, a)
    BY ParseSteps
  <2> QED BY <2>1 DEF ParseRun
<1>4. PICK k : /\ k[0] = h[M] /\ k[N] = parseLines(h[M], b)
               /\ \A n \in 1 .. N : k[n] = parseLine(k[n - 1], b[n])
  <2>1. PICK k : ParseRun(k, parseLines(state, a), b)
    BY ParseType, ParseSteps
  <2> QED BY <1>3, <2>1 DEF ParseRun
<1> HIDE DEF M, N
<1>5. g[M] = h[M]
  <2> DEFINE W == {n \in 0 .. M : g[n] = h[n]}
  <2>1. 0 \in W
    BY <1>1, <1>2, <1>3
  <2>2. ASSUME NEW n \in 1 .. M, n - 1 \in W PROVE n \in W
    <3>1. n \in 1 .. (M + N) /\ n \in 0 .. M /\ g[n - 1] = h[n - 1]
      BY <1>1, <2>2
    <3> QED BY <1>1, <1>2, <1>3, <3>1
  <2> HIDE DEF W
  <2>3. 0 .. M \subseteq W
    BY <1>1, <2>1, <2>2, UpToInduction
  <2> QED BY <1>1, <2>3 DEF W
<1>6. g[M + N] = k[N]
  <2> DEFINE W == {n \in 0 .. N : g[M + n] = k[n]}
  <2>1. 0 \in W
    BY <1>1, <1>4, <1>5
  <2>2. ASSUME NEW n \in 1 .. N, n - 1 \in W PROVE n \in W
    <3>1. M + n \in 1 .. (M + N) /\ n \in 0 .. N /\ M + (n - 1) = (M + n) - 1
      BY <1>1
    <3>2. g[(M + n) - 1] = k[n - 1]
      BY <2>2, <3>1
    <3>3. g[M + n] = parseLine(g[(M + n) - 1], ab[M + n])
      BY <1>2, <3>1
    <3>4. g[M + n] = k[n]
      BY <1>1, <1>4, <3>2, <3>3
    <3> QED BY <3>1, <3>4
  <2> HIDE DEF W
  <2>3. 0 .. N \subseteq W
    BY <1>1, <2>1, <2>2, UpToInduction
  <2> QED BY <1>1, <2>3 DEF W
<1> QED BY <1>2, <1>3, <1>4, <1>6 DEF ab

Found(p, s) == [proto |-> s.proto, address |-> splitAddressPort(s).address,
                port |-> splitAddressPort(s).port, pid |-> p]

\* Parsing leads from s to t and adds the entries in A, each once.
Adds(s, t, A) ==
    /\ t \in States
    /\ ToSet(t.listeners) = ToSet(s.listeners) \cup A
    /\ IsInjective(s.listeners) => IsInjective(t.listeners)

LEMMA AppendNew ==
    ASSUME NEW q \in Seq(Entries), NEW e \in Entries, ~ Contains(q, e)
    PROVE  ToSet(Append(q, e)) = ToSet(q) \cup {e} /\ (IsInjective(q) => IsInjective(Append(q, e)))
<1> DEFINE t == Append(q, e)
           N == Len(q)
<1>1. /\ N \in Nat /\ DOMAIN q = 1 .. N /\ DOMAIN t = 1 .. (N + 1)
      /\ t[N + 1] = e /\ \A i \in 1 .. N : t[i] = q[i]
  OBVIOUS
<1>2. \A i \in 1 .. N : q[i] # e
  BY DEF Contains
<1> HIDE DEF t, N
<1>3. ToSet(t) = ToSet(q) \cup {e}
  <2>1. 1 .. (N + 1) = (1 .. N) \cup {N + 1}
    BY <1>1
  <2> QED BY <1>1, <2>1 DEF ToSet
<1>4. ASSUME IsInjective(q) PROVE IsInjective(t)
  <2>1. \A i, j \in 1 .. N : q[i] = q[j] => i = j
    BY <1>1, <1>4 DEF IsInjective
  <2>2. \A i, j \in 1 .. (N + 1) : t[i] = t[j] => i = j
    BY <1>1, <1>2, <2>1
  <2> QED BY <1>1, <2>2 DEF IsInjective
<1> QED BY <1>3, <1>4 DEF t

LEMMA ParseFile ==
    ASSUME NEW st \in States, st.pid \in Pids, NEW s \in Socket
    PROVE  /\ parseLines(st, LsofFile(s)).pid = st.pid
           /\ Adds(st, parseLines(st, LsofFile(s)),
                   IF splitAddressPort(s).port > 0 THEN {Found(st.pid, s)} ELSE {})
<1> DEFINE lines == LsofFile(s)
           u == [st EXCEPT !.proto = s.proto]
           e == Found(st.pid, s)
<1>1. /\ lines \in Seq(Lines) /\ Len(lines) = 3
      /\ lines[1] = Line("f", s) /\ lines[2] = Line("P", s.proto) /\ lines[3] = Line("n", s)
  BY DEF LsofFile, Line, Lines, Socket
<1>2. PICK c : /\ c[0] = st /\ c[3] = parseLines(st, lines)
               /\ c[1] = parseLine(c[0], lines[1])
               /\ c[2] = parseLine(c[1], lines[2])
               /\ c[3] = parseLine(c[2], lines[3])
  <2> HIDE DEF lines
  <2>1. PICK c : ParseRun(c, st, lines)
    BY <1>1, ParseSteps
  <2>2. 1 \in 1 .. 3 /\ 2 \in 1 .. 3 /\ 3 \in 1 .. 3 /\ 1 - 1 = 0 /\ 2 - 1 = 1 /\ 3 - 1 = 2
    OBVIOUS
  <2> QED BY <1>1, <2>1, <2>2 DEF ParseRun
<1>3. c[2] = u
  BY <1>1, <1>2 DEF parseLine, Line
<1>4. parseLines(st, lines) = parseName(u, s)
  BY <1>1, <1>2, <1>3 DEF parseLine, Line
<1>5. u \in States /\ u.pid = st.pid /\ u.listeners = st.listeners /\ u.proto = s.proto /\ s.proto # ""
  BY DEF States, Socket
<1>6. splitAddressPort(s).address \in Address /\ splitAddressPort(s).port \in Nat
  BY SplitType
<1>6a. st.pid \in Nat /\ st.pid > 0
  BY PortsAssumption DEF Pids
<1>6b. st.listeners \in Seq(Entries)
  BY DEF States
<1>7. e \in Entries
  BY <1>6, PortsAssumption DEF Entries, Found, Socket, Pids
<1>8. e = [proto |-> IF u.proto = "" THEN "TCP" ELSE u.proto,
           address |-> splitAddressPort(s).address, port |-> splitAddressPort(s).port,
           pid |-> u.pid]
  BY <1>5 DEF Found
<1> DEFINE skip == splitAddressPort(s).port <= 0 \/ u.pid <= 0
                     \/ \E i \in 1 .. Len(u.listeners) : u.listeners[i] = e
<1>9. parseName(u, s) = IF skip THEN u ELSE [u EXCEPT !.listeners = Append(u.listeners, e)]
  <2>1. e.port = splitAddressPort(s).port /\ e.pid = u.pid
    BY <1>5 DEF Found
  <2> HIDE DEF e, u
  <2> QED BY <1>8, <2>1 DEF parseName, Contains
<1> HIDE DEF e, u, lines
<1>10. /\ skip => splitAddressPort(s).port = 0 \/ e \in ToSet(st.listeners)
       /\ ~ skip => splitAddressPort(s).port > 0 /\ ~ Contains(st.listeners, e)
  <2> DEFINE q == st.listeners
  <2>1. skip <=> splitAddressPort(s).port <= 0 \/ st.pid <= 0 \/ \E i \in 1 .. Len(q) : q[i] = e
    BY <1>5
  <2>2. q \in Seq(Entries)
    BY <1>6b
  <2> HIDE DEF skip, q
  <2>3. Contains(q, e) <=> \E i \in 1 .. Len(q) : q[i] = e
    BY DEF Contains
  <2>4. e \in ToSet(q) <=> \E i \in 1 .. Len(q) : q[i] = e
    BY <2>2 DEF ToSet
  <2>5. /\ skip => splitAddressPort(s).port = 0 \/ e \in ToSet(q)
        /\ ~ skip => splitAddressPort(s).port > 0 /\ ~ Contains(q, e)
    BY <1>6, <1>6a, <2>1, <2>3, <2>4
  <2> QED BY <2>5 DEF q
<1> HIDE DEF skip
<1>11. CASE skip
  <2>1. parseLines(st, lines) = u
    BY <1>4, <1>9, <1>11
  <2>2. splitAddressPort(s).port > 0 => e \in ToSet(st.listeners)
    BY <1>6, <1>10, <1>11
  <2> QED BY <1>5, <2>1, <2>2 DEF Adds, lines, e
<1>12. CASE ~ skip
  <2>1. parseLines(st, lines) = [u EXCEPT !.listeners = Append(st.listeners, e)]
    BY <1>4, <1>5, <1>9, <1>12
  <2>2. parseLines(st, lines) \in States
    BY <1>1, ParseType
  <2>3. parseLines(st, lines).pid = st.pid /\ parseLines(st, lines).listeners = Append(st.listeners, e)
    BY <1>5, <2>1 DEF States
  <2> QED BY <1>6b, <1>7, <1>10, <1>12, <2>2, <2>3, AppendNew DEF Adds, lines, e
<1> QED BY <1>11, <1>12

LEMMA LsofFileType == ASSUME NEW s \in Socket PROVE LsofFile(s) \in Seq(Lines)
BY DEF LsofFile, Line, Lines, Socket

LEMMA AddsInTurn ==
    ASSUME NEW s, NEW t, NEW u, NEW A, NEW B, Adds(s, t, A), Adds(t, u, B)
    PROVE  Adds(s, u, A \cup B)
BY DEF Adds

LEMMA AddsNothing == ASSUME NEW s \in States PROVE Adds(s, s, {})
BY DEF Adds

-----------------------------------------------------------------------------
(* What it finds in what lsof prints.                                        *)

\* The entries of the first n descriptors of p.
Entered(p, selected, n) ==
    {Found(p, files[p][fd]) :
        fd \in {k \in 1 .. n : files[p][k] \in selected /\ splitAddressPort(files[p][k]).port > 0}}

LEMMA FilesParsed ==
    ASSUME NEW p \in Pids, NEW selected \in SUBSET Socket, NEW st \in States, st.pid = p
    PROVE  /\ LsofFiles(p, selected) \in Seq(Lines)
           /\ Adds(st, parseLines(st, LsofFiles(p, selected)), Entered(p, selected, MaxFd))
<1> DEFINE parts == [fd \in 1 .. MaxFd |->
                        IF files[p][fd] \in selected THEN LsofFile(files[p][fd]) ELSE <<>>]
<1>1. /\ MaxFd \in Nat /\ parts \in Seq(Seq(Lines)) /\ Len(parts) = MaxFd
      /\ \A fd \in 1 .. MaxFd :
            parts[fd] = IF files[p][fd] \in selected THEN LsofFile(files[p][fd]) ELSE <<>>
  <2>1. \A fd \in 1 .. MaxFd : parts[fd] \in Seq(Lines)
    BY LsofFileType
  <2>2. MaxFd \in Nat
    BY PortsAssumption
  <2> QED BY <2>1, <2>2
<1>2. Concat(parts) = LsofFiles(p, selected)
  BY DEF LsofFiles
<1> HIDE DEF parts
<1>3. PICK c : ConcatRun(c, parts, Lines)
  BY <1>1, ConcatSteps
<1>4. /\ \A n \in 0 .. MaxFd : c[n] \in Seq(Lines)
      /\ c[0] = <<>> /\ c[MaxFd] = LsofFiles(p, selected)
      /\ \A n \in 1 .. MaxFd : c[n] = c[n - 1] \o parts[n]
  BY <1>1, <1>2, <1>3 DEF ConcatRun
<1> DEFINE R(n) == parseLines(st, c[n])
           W == {n \in 0 .. MaxFd : R(n).pid = p /\ Adds(st, R(n), Entered(p, selected, n))}
<1>5. 0 \in W
  <2>1. Entered(p, selected, 0) = {}
    BY DEF Entered
  <2>2. R(0) = st
    BY <1>4, ParseNothing
  <2> QED BY <1>1, <2>1, <2>2 DEF Adds
<1>6. ASSUME NEW n \in 1 .. MaxFd, n - 1 \in W PROVE n \in W
  <2> DEFINE s == files[p][n]
             B == IF s \in selected /\ splitAddressPort(s).port > 0 THEN {Found(p, s)} ELSE {}
  <2>1. R(n - 1) \in States /\ R(n - 1).pid = p
    BY <1>6 DEF Adds
  <2>2. n - 1 \in 0 .. MaxFd /\ n \in 0 .. MaxFd
    BY <1>1
  <2>3. parts[n] \in Seq(Lines)
    BY <1>1, LsofFileType
  <2>4. R(n) = parseLines(R(n - 1), parts[n])
    <3>1. c[n - 1] \in Seq(Lines) /\ c[n] = c[n - 1] \o parts[n]
      BY <1>4, <2>2
    <3> QED BY <2>3, <3>1, ParseConcat
  <2>5. R(n).pid = p /\ Adds(R(n - 1), R(n), B)
    <3>1. CASE s \in selected
      <4>1. s \in Socket /\ parts[n] = LsofFile(s)
        BY <1>1, <3>1
      <4>2. B = IF splitAddressPort(s).port > 0 THEN {Found(p, s)} ELSE {}
        BY <3>1
      <4> HIDE DEF s, B, R
      <4>3. /\ parseLines(R(n - 1), LsofFile(s)).pid = p
            /\ Adds(R(n - 1), parseLines(R(n - 1), LsofFile(s)), B)
        BY <2>1, <4>1, <4>2, ParseFile
      <4> QED BY <2>4, <4>1, <4>3
    <3>2. CASE s \notin selected
      <4>1. R(n) = R(n - 1)
        BY <1>1, <2>1, <2>4, <3>2, ParseNothing
      <4> QED BY <2>1, <3>2, <4>1 DEF Adds
    <3> QED BY <3>1, <3>2
  <2>6. Entered(p, selected, n) = Entered(p, selected, n - 1) \cup B
    <3>1. 1 .. n = (1 .. (n - 1)) \cup {n}
      BY <1>1
    <3> QED BY <3>1 DEF Entered
  <2>7. Adds(st, R(n), Entered(p, selected, n))
    <3>1. Adds(st, R(n - 1), Entered(p, selected, n - 1))
      BY <1>6
    <3> HIDE DEF R, B
    <3> QED BY <2>5, <2>6, <3>1, AddsInTurn
  <2> QED BY <2>2, <2>5, <2>7
<1>7. MaxFd \in W
  <2> HIDE DEF W
  <2>1. 0 .. MaxFd \subseteq W
    BY <1>1, <1>5, <1>6, UpToInduction
  <2> QED BY <1>1, <2>1
<1>8. LsofFiles(p, selected) \in Seq(Lines)
  BY <1>1, <1>4
<1> QED BY <1>4, <1>7, <1>8

\* What is printed of a process, with the lines in front that name it.
LEMMA ProcessParsed ==
    ASSUME NEW p \in Pids, NEW selected \in SUBSET Socket, NEW st \in States
    PROVE  /\ LsofProcess(p, selected) \in Seq(Lines)
           /\ Adds(st, parseLines(st, LsofProcess(p, selected)), Entered(p, selected, MaxFd))
<1> DEFINE out == LsofFiles(p, selected)
           head == <<Line("p", p), Line("c", p)>>
           named == [st EXCEPT !.pid = p]
<1>1. p \in Nat
  BY PortsAssumption DEF Pids
<1>2. named \in States /\ named.pid = p /\ named.listeners = st.listeners
  BY <1>1 DEF States
<1>3. out \in Seq(Lines) /\ Adds(named, parseLines(named, out), Entered(p, selected, MaxFd))
  BY <1>2, FilesParsed
<1>4. CASE out = <<>>
  <2> DEFINE blank == [pid |-> p, proto |-> "", listeners |-> <<>>]
  <2>0. ToSet(<<>>) = {}
    BY DEF ToSet
  <2>1. blank \in States /\ blank.pid = p /\ ToSet(blank.listeners) = {}
    <3>1. <<>> \in Seq(Entries)
      OBVIOUS
    <3>2. blank \in States
      BY <1>1, <3>1 DEF States
    <3>3. blank.pid = p /\ blank.listeners = <<>>
      OBVIOUS
    <3> HIDE DEF blank
    <3> QED BY <2>0, <3>2, <3>3
  <2> HIDE DEF blank
  <2>2. Adds(blank, parseLines(blank, out), Entered(p, selected, MaxFd))
    BY <2>1, FilesParsed
  <2>3. parseLines(blank, out) = blank /\ parseLines(st, out) = st
    BY <1>4, <2>1, ParseNothing
  <2>4. Entered(p, selected, MaxFd) = {}
    BY <2>1, <2>2, <2>3 DEF Adds
  <2>5. LsofProcess(p, selected) = out
    BY <1>4 DEF LsofProcess
  <2> QED BY <1>3, <2>3, <2>4, <2>5 DEF Adds
<1>5. CASE out # <<>>
  <2>1. LsofProcess(p, selected) = head \o out
    BY <1>5 DEF LsofProcess
  <2>2. head \in Seq(Lines) /\ Len(head) = 2 /\ head[1] = Line("p", p) /\ head[2] = Line("c", p)
    BY <1>1 DEF Line, Lines
  <2> HIDE DEF head, named, out
  <2>3. PICK c : ParseRun(c, st, head)
    BY <2>2, ParseSteps
  <2>4. /\ c[0] = st /\ c[2] = parseLines(st, head)
        /\ c[1] = parseLine(c[0], head[1]) /\ c[2] = parseLine(c[1], head[2])
    <3>1. 1 \in 1 .. 2 /\ 2 \in 1 .. 2 /\ 1 - 1 = 0 /\ 2 - 1 = 1
      OBVIOUS
    <3> QED BY <2>2, <2>3, <3>1 DEF ParseRun
  <2>5. parseLines(st, head) = named
    BY <2>2, <2>4 DEF parseLine, Line, named
  <2>6. parseLines(st, head \o out) = parseLines(named, out)
    BY <1>3, <2>2, <2>5, ParseConcat
  <2>7. head \o out \in Seq(Lines)
    BY <1>3, <2>2
  <2> QED BY <1>2, <1>3, <2>1, <2>6, <2>7 DEF Adds
<1> QED BY <1>4, <1>5

\* The entries of the first n processes.
EnteredBy(selected, n) == UNION {Entered(p, selected, MaxFd) : p \in (1 .. n) \cap alive}

LEMMA OutputParsed ==
    ASSUME NEW selected \in SUBSET Socket
    PROVE  LET found == parseLsofOutput(Lsof(selected))
           IN  /\ found \in Seq(Entries) /\ IsInjective(found)
               /\ ToSet(found) = EnteredBy(selected, MaxPid)
<1> DEFINE parts == [p \in 1 .. MaxPid |->
                        IF p \in alive THEN LsofProcess(p, selected) ELSE <<>>]
           st == [pid |-> 0, proto |-> "", listeners |-> <<>>]
<1>1. st \in States /\ ToSet(st.listeners) = {} /\ IsInjective(st.listeners)
  BY DEF States, ToSet, IsInjective
<1>2. /\ MaxPid \in Nat /\ Pids = 1 .. MaxPid /\ parts \in Seq(Seq(Lines)) /\ Len(parts) = MaxPid
      /\ \A p \in Pids : parts[p] \in Seq(Lines)
      /\ \A p \in Pids : parts[p] = IF p \in alive THEN LsofProcess(p, selected) ELSE <<>>
  <2>1. \A p \in Pids : LsofProcess(p, selected) \in Seq(Lines)
    BY <1>1, ProcessParsed
  <2>2. MaxPid \in Nat
    BY PortsAssumption
  <2> QED BY <2>1, <2>2 DEF Pids
<1>3. Concat(parts) = Lsof(selected)
  BY DEF Lsof
<1> HIDE DEF parts, st
<1>4. PICK c : ConcatRun(c, parts, Lines)
  BY <1>2, ConcatSteps
<1>5. /\ \A n \in 0 .. MaxPid : c[n] \in Seq(Lines)
      /\ c[0] = <<>> /\ c[MaxPid] = Lsof(selected)
      /\ \A n \in Pids : c[n] = c[n - 1] \o parts[n]
  BY <1>2, <1>3, <1>4 DEF ConcatRun
<1> DEFINE R(n) == parseLines(st, c[n])
           W == {n \in 0 .. MaxPid : Adds(st, R(n), EnteredBy(selected, n))}
<1>6. 0 \in W
  <2>1. EnteredBy(selected, 0) = {}
    BY DEF EnteredBy
  <2>2. R(0) = st
    BY <1>1, <1>5, ParseNothing
  <2>3. Adds(st, st, {})
    BY <1>1, AddsNothing
  <2> HIDE DEF R
  <2>4. 0 \in 0 .. MaxPid
    BY <1>2
  <2>5. Adds(st, R(0), EnteredBy(selected, 0))
    BY <2>1, <2>2, <2>3
  <2> QED BY <2>4, <2>5
<1>7. ASSUME NEW n \in 1 .. MaxPid, n - 1 \in W PROVE n \in W
  <2> DEFINE B == IF n \in alive THEN Entered(n, selected, MaxFd) ELSE {}
  <2>1. R(n - 1) \in States
    BY <1>7 DEF Adds
  <2>2. n - 1 \in 0 .. MaxPid /\ n \in 0 .. MaxPid /\ n \in Pids
    BY <1>2
  <2>3. R(n) = parseLines(R(n - 1), parts[n])
    <3>1. c[n - 1] \in Seq(Lines) /\ parts[n] \in Seq(Lines) /\ c[n] = c[n - 1] \o parts[n]
      BY <1>2, <1>5, <2>2
    <3> QED BY <1>1, <3>1, ParseConcat
  <2>4. Adds(R(n - 1), R(n), B)
    <3>1. CASE n \in alive
      <4>1. parts[n] = LsofProcess(n, selected)
        BY <1>2, <2>2, <3>1
      <4> HIDE DEF R
      <4> QED BY <2>1, <2>2, <2>3, <3>1, <4>1, ProcessParsed
    <3>2. CASE n \notin alive
      <4>1. R(n) = R(n - 1)
        BY <1>2, <2>1, <2>2, <2>3, <3>2, ParseNothing
      <4> QED BY <2>1, <3>2, <4>1 DEF Adds
    <3> QED BY <3>1, <3>2
  <2>5. EnteredBy(selected, n) = EnteredBy(selected, n - 1) \cup B
    <3>1. 1 .. n = (1 .. (n - 1)) \cup {n}
      BY <1>2
    <3> QED BY <3>1 DEF EnteredBy
  <2>6. Adds(st, R(n), EnteredBy(selected, n))
    <3>1. Adds(st, R(n - 1), EnteredBy(selected, n - 1))
      BY <1>7
    <3> HIDE DEF R, B
    <3> QED BY <2>4, <2>5, <3>1, AddsInTurn
  <2> QED BY <2>2, <2>6
<1>8. MaxPid \in W
  <2> HIDE DEF W
  <2>1. 0 .. MaxPid \subseteq W
    BY <1>2, <1>6, <1>7, UpToInduction
  <2> QED BY <1>2, <2>1
<1>9. parseLsofOutput(Lsof(selected)) = R(MaxPid).listeners
  BY <1>5 DEF parseLsofOutput, st
<1> QED BY <1>1, <1>8, <1>9 DEF Adds, States

Stages == {"idle", "tcp", "udp", "kill", "done"}

PortsType ==
    /\ alive \subseteq Pids
    /\ files \in [Pids -> [1 .. MaxFd -> Socket \cup {NoSocket}]]
    /\ pc \in [Requests -> Stages]
    /\ port \in [Requests -> PortNumbers]
    /\ DOMAIN listing = Requests /\ DOMAIN targets = Requests
    /\ DOMAIN killed = Requests /\ DOMAIN failed = Requests
    /\ answer \in [Requests -> {0, 200, 404, 500}]
    /\ steady \in [Requests -> SUBSET Endpoint]
    /\ silent \in [Requests -> SUBSET {"TCP", "UDP"}]

\* Only a process that is alive holds sockets.
SocketsAreHeld == \A p \in Pids \ alive : \A fd \in 1 .. MaxFd : files[p][fd] = NoSocket

\* An entry is that of a socket of a living process, and the other way round.
LEMMA EntryOfSocket ==
    ASSUME PortsType, NEW selected \in SUBSET Socket, NEW l
    PROVE  l \in EnteredBy(selected, MaxPid) <=>
               \E p \in alive : \E s \in Held(files[p]) \cap selected :
                   splitAddressPort(s).port > 0 /\ l = Found(p, s)
<1>1. Pids = 1 .. MaxPid /\ alive \subseteq Pids
  BY DEF Pids, PortsType
<1>2. \A p \in alive : l \in Entered(p, selected, MaxFd) <=>
          \E s \in Held(files[p]) \cap selected : splitAddressPort(s).port > 0 /\ l = Found(p, s)
  <2>1. NoSocket \notin selected
    BY DEF NoSocket, Socket
  <2> QED BY <2>1 DEF Entered, Held
<1> QED BY <1>1, <1>2 DEF EnteredBy

\* The socket of an entry that is listed.
Listening(l) == [proto |-> l.proto, addr |-> l.address.addr, port |-> l.port, peer |-> 0]

\* A socket without a peer comes out under its own address and port.
LEMMA EntryOfListener ==
    ASSUME PortsType, SocketsAreHeld, NEW proto, NEW l \in ListedOf(proto)
    PROVE  /\ Listening(l) \in Socket \cap Held(files[l.pid]) /\ l.pid \in alive
           /\ splitAddressPort(Listening(l)).port > 0 /\ l = Found(l.pid, Listening(l))
<1> DEFINE s == Listening(l)
<1>1. /\ l \in [proto : {"TCP", "UDP"}, address : Address, port : PortNumbers, pid : Pids]
      /\ l.proto = proto /\ l.address.from = 0 /\ s \in Held(files[l.pid])
  BY DEF ListedOf, Listener, ListensAt, Listening
<1>2. l.port \in 0 .. MaxPort /\ l.port > 0
  BY <1>1, PortsAssumption DEF PortNumbers
<1>3. l.address \in [addr : Addresses, from : 0 .. MaxPort]
  BY <1>1 DEF Address
<1>4. s \in Socket
  BY <1>1, <1>2, <1>3, PortsAssumption DEF Socket, Listening
<1>5. l.address = [addr |-> l.address.addr, from |-> 0]
  BY <1>1, <1>3
<1>6. splitAddressPort(s).port = l.port /\ splitAddressPort(s).address = l.address
  BY <1>5 DEF splitAddressPort, Listening
<1>7. l = Found(l.pid, s)
  BY <1>1, <1>6 DEF Found, Listening
<1>8. l.pid \in alive
  <2>1. \E fd \in 1 .. MaxFd : files[l.pid][fd] # NoSocket
    BY <1>1 DEF Held
  <2> QED BY <1>1, <2>1 DEF SocketsAreHeld
<1> QED BY <1>1, <1>2, <1>4, <1>6, <1>7, <1>8

\* And an entry of a socket without a peer is listed.
LEMMA ListenerOfEntry ==
    ASSUME NEW p \in Pids, NEW s \in Socket, s \in Held(files[p]), s.peer = 0,
           splitAddressPort(s).port > 0
    PROVE  Found(p, s) \in ListedOf(s.proto)
<1> DEFINE l == Found(p, s)
<1>1. s.port \in 0 .. MaxPort /\ s.port > 0 /\ s.addr \in Addresses /\ s.proto \in {"TCP", "UDP"}
  BY DEF splitAddressPort, Socket
<1>2. s.port \in PortNumbers
  BY <1>1, PortsAssumption DEF PortNumbers
<1>3. l = [proto |-> s.proto, address |-> [addr |-> s.addr, from |-> 0], port |-> s.port, pid |-> p]
  BY DEF Found, splitAddressPort
<1>4. l \in Listener
  BY <1>1, <1>2, <1>3, PortsAssumption DEF Listener, Address
<1>5. s = [proto |-> s.proto, addr |-> s.addr, port |-> s.port, peer |-> 0]
  BY DEF Socket
<1>6. ListensAt(files[p], s.proto, s.addr, s.port)
  BY <1>5 DEF ListensAt
<1>7. l.proto = s.proto /\ l.address.from = 0 /\ l.address.addr = s.addr /\ l.port = s.port /\ l.pid = p
  BY <1>3
<1> HIDE DEF l
<1>8. l \in ListedOf(s.proto)
  BY <1>4, <1>6, <1>7 DEF ListedOf
<1> QED BY <1>8 DEF l

LEMMA TCPExact ==
    ASSUME PortsType, SocketsAreHeld
    PROVE  EnteredBy(TCPListen, MaxPid) = ListedOf("TCP")
<1>1. TCPListen \in SUBSET Socket
  BY DEF TCPListen
<1>2. ASSUME NEW l \in EnteredBy(TCPListen, MaxPid) PROVE l \in ListedOf("TCP")
  <2>1. PICK p, s : /\ p \in alive /\ s \in Held(files[p]) \cap TCPListen
                   /\ splitAddressPort(s).port > 0 /\ l = Found(p, s)
    BY <1>1, <1>2, EntryOfSocket
  <2>2. s \in Socket /\ s.proto = "TCP" /\ s.peer = 0 /\ p \in Pids
    BY <2>1 DEF TCPListen, PortsType
  <2>3. Found(p, s) \in ListedOf(s.proto)
    BY <2>1, <2>2, ListenerOfEntry
  <2> QED BY <2>1, <2>2, <2>3
<1>3. ASSUME NEW l \in ListedOf("TCP") PROVE l \in EnteredBy(TCPListen, MaxPid)
  <2> DEFINE s == Listening(l)
  <2>1. /\ s \in Socket \cap Held(files[l.pid]) /\ l.pid \in alive
        /\ splitAddressPort(s).port > 0 /\ l = Found(l.pid, s)
    BY <1>3, EntryOfListener
  <2>2. s.proto = "TCP" /\ s.peer = 0
    BY <1>3 DEF Listening, ListedOf
  <2>3. s \in TCPListen
    BY <2>1, <2>2 DEF TCPListen
  <2> HIDE DEF s
  <2> QED BY <1>1, <2>1, <2>3, EntryOfSocket
<1> QED BY <1>2, <1>3

LEMMA UDPExact ==
    ASSUME PortsType, SocketsAreHeld
    PROVE  /\ ListedOf("UDP") \subseteq EnteredBy(UDP, MaxPid)
           /\ \A l \in EnteredBy(UDP, MaxPid) :
                 /\ l.proto = "UDP"
                 /\ l \in ListedOf("UDP") \/ \E s \in Held(files[l.pid]) : s.proto = "UDP" /\ s.peer = l.port
<1>1. UDP \in SUBSET Socket
  BY DEF UDP
<1>2. ASSUME NEW l \in EnteredBy(UDP, MaxPid)
      PROVE  /\ l.proto = "UDP"
             /\ l \in ListedOf("UDP") \/ \E s \in Held(files[l.pid]) : s.proto = "UDP" /\ s.peer = l.port
  <2>1. PICK p, s : /\ p \in alive /\ s \in Held(files[p]) \cap UDP
                   /\ splitAddressPort(s).port > 0 /\ l = Found(p, s)
    BY <1>1, <1>2, EntryOfSocket
  <2>2. s \in Socket /\ s.proto = "UDP" /\ p \in Pids
    BY <2>1 DEF UDP, PortsType
  <2>3. l.proto = "UDP" /\ l.pid = p /\ l.port = splitAddressPort(s).port
    BY <2>1, <2>2 DEF Found
  <2>4. CASE s.peer # 0
    <3>1. s.peer = l.port
      BY <2>3, <2>4 DEF splitAddressPort
    <3> QED BY <2>1, <2>2, <2>3, <3>1
  <2>5. CASE s.peer = 0
    <3>1. Found(p, s) \in ListedOf(s.proto)
      BY <2>1, <2>2, <2>5, ListenerOfEntry
    <3> QED BY <2>1, <2>2, <2>3, <3>1
  <2> QED BY <2>4, <2>5
<1>3. ASSUME NEW l \in ListedOf("UDP") PROVE l \in EnteredBy(UDP, MaxPid)
  <2> DEFINE s == Listening(l)
  <2>1. /\ s \in Socket \cap Held(files[l.pid]) /\ l.pid \in alive
        /\ splitAddressPort(s).port > 0 /\ l = Found(l.pid, s)
    BY <1>3, EntryOfListener
  <2>2. s.proto = "UDP"
    BY <1>3 DEF Listening, ListedOf
  <2>3. s \in UDP
    BY <2>1, <2>2 DEF UDP
  <2> HIDE DEF s
  <2> QED BY <1>1, <2>1, <2>3, EntryOfSocket
<1> QED BY <1>2, <1>3

-----------------------------------------------------------------------------
(* The sort.                                                                 *)

\* Sorting neither loses an entry nor repeats one, and leaves none before another
\* that should come first.
LEMMA SortedOnce ==
    ASSUME NEW q \in Seq(Entries), NEW t \in Sortings(q)
    PROVE  /\ ToSet(t) = ToSet(q)
           /\ IsInjective(q) => IsInjective(t)
           /\ \A i, j \in DOMAIN t : i < j => ~ Before(t[j], t[i])
<1> DEFINE D == DOMAIN q
<1>1. PICK f \in Bijection(D, D) : t = [i \in D |-> q[f[i]]]
  BY DEF Sortings
<1>2. \A i, j \in DOMAIN t : i < j => ~ Before(t[j], t[i])
  BY DEF Sortings
<1>3. /\ f \in [D -> D] /\ \A i, j \in D : f[i] = f[j] => i = j
      /\ \A j \in D : \E i \in D : f[i] = j
  BY <1>1 DEF Bijection, Injection, Surjection, IsInjective
<1>4. DOMAIN t = D /\ \A i \in D : t[i] = q[f[i]]
  BY <1>1
<1> HIDE DEF D
<1>5. ToSet(t) = ToSet(q)
  BY <1>3, <1>4 DEF ToSet, D
<1>6. ASSUME IsInjective(q) PROVE IsInjective(t)
  <2>1. \A i, j \in D : q[i] = q[j] => i = j
    BY <1>6 DEF IsInjective, D
  <2> QED BY <1>3, <1>4, <2>1 DEF IsInjective
<1> QED BY <1>2, <1>5, <1>6

LEMMA EntriesTransitive ==
    ASSUME NEW a \in Entries, NEW b \in Entries, NEW c \in Entries,
           Before(a, b), ~ Before(c, b)
    PROVE  ~ Before(c, a)
BY DEF Entries, Before

\* q is sorted when it is read in the order f.
SortedBy(q, f) ==
    /\ f \in [1 .. Len(q) -> 1 .. Len(q)]
    /\ \A i, j \in 1 .. Len(q) : f[i] = f[j] => i = j
    /\ \A j \in 1 .. Len(q) : \E i \in 1 .. Len(q) : f[i] = j
    /\ \A i, j \in 1 .. Len(q) : i < j => ~ Before(q[f[j]], q[f[i]])

\* The place of one more entry among those that are sorted.
LEMMA InsertInOrder ==
    ASSUME NEW n \in Nat, NEW q \in Seq(Entries), Len(q) = n + 1,
           NEW f, SortedBy(SubSeq(q, 1, n), f)
    PROVE  \E g : SortedBy(q, g)
<1> DEFINE K == {k \in 1 .. (n + 1) : k = n + 1 \/ Before(q[n + 1], q[f[k]])}
<1>1. /\ f \in [1 .. n -> 1 .. n]
      /\ \A i, j \in 1 .. n : f[i] = f[j] => i = j
      /\ \A j \in 1 .. n : \E i \in 1 .. n : f[i] = j
      /\ \A i, j \in 1 .. n : i < j => ~ Before(q[f[j]], q[f[i]])
  <2>1. SubSeq(q, 1, n) \in Seq(Entries) /\ Len(SubSeq(q, 1, n)) = n
        /\ \A i \in 1 .. n : SubSeq(q, 1, n)[i] = q[i]
    OBVIOUS
  <2> QED BY <2>1 DEF SortedBy
<1>2. \A i \in 1 .. (n + 1) : q[i] \in Entries
  OBVIOUS
<1>3. PICK k \in K : \A i \in K : k <= i
  <2>1. K \subseteq Nat /\ n + 1 \in K
    OBVIOUS
  <2> HIDE DEF K
  <2> QED BY <2>1, LeastElement
<1>4. /\ k \in 1 .. (n + 1) /\ (k # n + 1 => Before(q[n + 1], q[f[k]]))
      /\ \A i \in 1 .. n : i < k => ~ Before(q[n + 1], q[f[i]])
  <2>1. ASSUME NEW i \in 1 .. n, i < k PROVE ~ Before(q[n + 1], q[f[i]])
    <3>1. i \notin K
      BY <1>3, <2>1
    <3> QED BY <3>1
  <2> QED BY <1>3, <2>1
<1> DEFINE g == [i \in 1 .. (n + 1) |->
                    IF i < k THEN f[i] ELSE IF i = k THEN n + 1 ELSE f[i - 1]]
<1> HIDE DEF K
<1>5. /\ \A i \in 1 .. (n + 1) : i < k => g[i] = f[i] /\ i \in 1 .. n
      /\ g[k] = n + 1
      /\ \A i \in 1 .. (n + 1) : i > k => g[i] = f[i - 1] /\ i - 1 \in 1 .. n
  BY <1>4
<1>6. g \in [1 .. (n + 1) -> 1 .. (n + 1)]
  <2>1. \A i \in 1 .. n : f[i] \in 1 .. (n + 1)
    BY <1>1
  <2>2. ASSUME NEW i \in 1 .. (n + 1) PROVE g[i] \in 1 .. (n + 1)
    <3>1. i < k \/ i = k \/ i > k
      BY <1>4
    <3> HIDE DEF g
    <3> QED BY <1>5, <2>1, <3>1
  <2> QED BY <2>2
<1> HIDE DEF g
<1>7. ASSUME NEW i \in 1 .. (n + 1), NEW j \in 1 .. (n + 1), g[i] = g[j], i < j PROVE FALSE
  <2>1. \A m \in 1 .. n : f[m] \in 1 .. n /\ f[m] # n + 1
    BY <1>1
  <2>2. CASE j < k
    <3>1. i < k /\ i # j
      BY <1>4, <1>7, <2>2
    <3>2. g[i] = f[i] /\ i \in 1 .. n /\ g[j] = f[j] /\ j \in 1 .. n
      BY <1>5, <2>2, <3>1
    <3>3. f[i] = f[j]
      BY <1>7, <3>2
    <3> QED BY <1>1, <3>1, <3>2, <3>3
  <2>3. CASE j = k
    <3>1. i < k /\ g[i] = f[i] /\ i \in 1 .. n /\ g[j] = n + 1
      BY <1>4, <1>5, <1>7, <2>3
    <3> QED BY <1>7, <2>1, <3>1
  <2>4. CASE i < k /\ k < j
    <3>1. g[i] = f[i] /\ i \in 1 .. n /\ g[j] = f[j - 1] /\ j - 1 \in 1 .. n /\ i # j - 1
      BY <1>4, <1>5, <2>4
    <3> QED BY <1>1, <1>7, <3>1
  <2>5. CASE i = k
    <3>1. g[i] = n + 1 /\ g[j] = f[j - 1] /\ j - 1 \in 1 .. n
      BY <1>4, <1>5, <1>7, <2>5
    <3> QED BY <1>7, <2>1, <3>1
  <2>6. CASE k < i
    <3>1. g[i] = f[i - 1] /\ i - 1 \in 1 .. n /\ g[j] = f[j - 1] /\ j - 1 \in 1 .. n /\ i - 1 # j - 1
      BY <1>4, <1>5, <1>7, <2>6
    <3> QED BY <1>1, <1>7, <3>1
  <2> QED BY <1>4, <1>7, <2>2, <2>3, <2>4, <2>5, <2>6
<1>7a. \A i, j \in 1 .. (n + 1) : g[i] = g[j] => i = j
  BY <1>7
<1>8. \A j \in 1 .. (n + 1) : \E i \in 1 .. (n + 1) : g[i] = j
  <2> SUFFICES ASSUME NEW j \in 1 .. n PROVE \E i \in 1 .. (n + 1) : g[i] = j
    BY <1>4, <1>5
  <2>1. PICK i \in 1 .. n : f[i] = j
    BY <1>1
  <2>2. CASE i < k
    BY <1>5, <2>1, <2>2
  <2>3. CASE i >= k
    <3>1. i + 1 \in 1 .. (n + 1) /\ i + 1 > k /\ (i + 1) - 1 = i
      BY <1>4, <2>3
    <3> QED BY <1>5, <2>1, <3>1
  <2> QED BY <1>4, <2>2, <2>3
<1>9. ASSUME NEW i \in 1 .. (n + 1), NEW j \in 1 .. (n + 1), i < j
      PROVE  ~ Before(q[g[j]], q[g[i]])
  <2>1. CASE j < k
    <3>1. i < k /\ g[i] = f[i] /\ i \in 1 .. n /\ g[j] = f[j] /\ j \in 1 .. n
      BY <1>4, <1>5, <1>9, <2>1
    <3> QED BY <1>1, <1>9, <3>1
  <2>2. CASE j = k
    BY <1>4, <1>5, <1>9, <2>2
  <2>3. CASE i < k /\ k < j
    <3>1. g[i] = f[i] /\ i \in 1 .. n /\ g[j] = f[j - 1] /\ j - 1 \in 1 .. n /\ i < j - 1
      BY <1>4, <1>5, <2>3
    <3> QED BY <1>1, <3>1
  <2>4. CASE i = k
    <3>1. k \in 1 .. n /\ Before(q[n + 1], q[f[k]]) /\ j - 1 \in 1 .. n /\ k <= j - 1
      BY <1>4, <1>5, <1>9, <2>4
    <3>2. q[n + 1] \in Entries /\ q[f[k]] \in Entries /\ q[f[j - 1]] \in Entries
      <4>1. \A m \in 1 .. n : f[m] \in 1 .. n /\ f[m] \in 1 .. (n + 1)
        BY <1>1
      <4>2. n + 1 \in 1 .. (n + 1)
        OBVIOUS
      <4> QED BY <1>2, <3>1, <4>1, <4>2
    <3>3. ~ Before(q[f[j - 1]], q[f[k]])
      <4>1. CASE k = j - 1
        BY <3>2, <4>1 DEF Before, Entries
      <4>2. CASE k < j - 1
        BY <1>1, <3>1, <4>2
      <4> QED BY <3>1, <4>1, <4>2
    <3>4. ~ Before(q[f[j - 1]], q[n + 1])
      BY <3>1, <3>2, <3>3, EntriesTransitive
    <3> QED BY <1>4, <1>5, <1>9, <2>4, <3>4
  <2>5. CASE k < i
    <3>1. g[i] = f[i - 1] /\ i - 1 \in 1 .. n /\ g[j] = f[j - 1] /\ j - 1 \in 1 .. n /\ i - 1 < j - 1
      BY <1>4, <1>5, <1>9, <2>5
    <3> QED BY <1>1, <3>1
  <2> QED BY <1>4, <1>9, <2>1, <2>2, <2>3, <2>4, <2>5
<1> QED BY <1>6, <1>7a, <1>8, <1>9 DEF SortedBy

LEMMA SomeOrderSorts ==
    ASSUME NEW q \in Seq(Entries) PROVE \E f : SortedBy(q, f)
<1> DEFINE N == Len(q)
           front(n) == SubSeq(q, 1, n)
           W == {n \in 0 .. N : \E f : SortedBy(front(n), f)}
<1>1. N \in Nat /\ \A n \in 0 .. N : front(n) \in Seq(Entries) /\ Len(front(n)) = n
  OBVIOUS
<1>2. 0 \in W
  <2> DEFINE id == [i \in 1 .. 0 |-> i]
  <2>1. SortedBy(front(0), id)
    BY <1>1 DEF SortedBy
  <2> QED BY <1>1, <2>1
<1>3. ASSUME NEW n \in 1 .. N, n - 1 \in W PROVE n \in W
  <2>1. n - 1 \in Nat /\ front(n) \in Seq(Entries) /\ Len(front(n)) = (n - 1) + 1 /\ n \in 0 .. N
    BY <1>1
  <2>2. SubSeq(front(n), 1, n - 1) = front(n - 1)
    BY <1>1
  <2>3. PICK f : SortedBy(front(n - 1), f)
    BY <1>3
  <2> HIDE DEF front
  <2>4. \E g : SortedBy(front(n), g)
    <3>1. SortedBy(SubSeq(front(n), 1, n - 1), f)
      BY <2>2, <2>3
    <3> QED BY <2>1, <3>1, InsertInOrder
  <2> QED BY <2>1, <2>4
<1>4. N \in W
  <2> HIDE DEF W, N
  <2>1. 0 .. N \subseteq W
    BY <1>1, <1>2, <1>3, UpToInduction
  <2> QED BY <1>1, <2>1
<1>5. front(N) = q
  OBVIOUS
<1> QED BY <1>4, <1>5

LEMMA SortEnds == ASSUME NEW q \in Seq(Entries) PROVE Sortings(q) # {}
<1>1. PICK f : SortedBy(q, f)
  BY SomeOrderSorts
<1>2. DOMAIN q = 1 .. Len(q)
  OBVIOUS
<1>3. f \in Bijection(DOMAIN q, DOMAIN q)
  BY <1>1, <1>2 DEF SortedBy, Bijection, Injection, Surjection, IsInjective
<1> DEFINE t == [i \in DOMAIN q |-> q[f[i]]]
<1>4. \A i, j \in DOMAIN t : i < j => ~ Before(t[j], t[i])
  BY <1>1, <1>2 DEF SortedBy
<1>5. t \in Sortings(q)
  BY <1>3, <1>4 DEF Sortings
<1> QED BY <1>5

-----------------------------------------------------------------------------
(* The request.                                                              *)

\* An endpoint that is steady listens at this moment.
SteadyListens == \A r \in Requests : \A l \in steady[r] : Listens(files[l.pid], l.proto, port[r])

\* The listing of r has an entry for it, under some address.
InEntries(r, l) ==
    \E e \in ToSet(listing[r]) : e.proto = l.proto /\ e.port = port[r] /\ e.pid = l.pid

InListing ==
    \A r \in Requests :
        pc[r] = "udp" /\ "TCP" \notin silent[r] =>
            \A l \in steady[r] : l.proto = "TCP" => InEntries(r, l)

\* lsof keeps nothing to itself before it is run.
NotSilentYet ==
    \A r \in Requests :
        /\ pc[r] \in {"idle", "tcp"} => "TCP" \notin silent[r]
        /\ pc[r] \in {"idle", "tcp", "udp"} => "UDP" \notin silent[r]

\* Where a steady listener has got to.
Signalled(r, p) == IF p \in Protected THEN p \in failed[r] ELSE p \in killed[r]

ToSignal ==
    \A r \in Requests :
        /\ pc[r] \in {"idle", "tcp", "udp"} => killed[r] = {} /\ failed[r] = {}
        /\ pc[r] = "kill" =>
              \A l \in steady[r] :
                  l.proto \notin silent[r] => l.pid \in targets[r] \/ Signalled(r, l.pid)

PortsInv ==
    /\ PortsType /\ SocketsAreHeld /\ NotSilentYet /\ SteadyListens
    /\ InListing /\ ToSignal /\ NobodyIsMissed

\* What a request has listed when it is about to run lsof for UDP.
ListingSoFar ==
    \A r \in Requests :
        /\ pc[r] # "done" => answer[r] = 0
        /\ pc[r] = "udp" =>
              /\ listing[r] \in Seq(Entries) /\ IsInjective(listing[r])
              /\ \A l \in ToSet(listing[r]) : l.proto = "TCP"

\* What the argument takes from ListsExactly.
Exact ==
    \A r \in Requests :
        /\ pc[r] = "tcp" /\ pc'[r] = "udp" => Shown(r, "TCP") \subseteq ToSet(listing'[r])
        /\ pc[r] = "udp" /\ (pc'[r] = "kill" \/ answer'[r] = 404) =>
              ToSet(listing[r]) \cup Shown(r, "UDP") \subseteq ToSet(listing'[r])

LEMMA ListsExact == ListsExactly => Exact
BY DEF ListsExactly, Exact

\* Who listens on a port is listed under the address it listens at.
LEMMA ListensIsListed ==
    ASSUME PortsType, NEW p \in Pids, NEW proto \in {"TCP", "UDP"}, NEW n \in PortNumbers,
           Listens(files[p], proto, n)
    PROVE  \E e \in ListedOf(proto) : e.proto = proto /\ e.port = n /\ e.pid = p
<1>1. PICK a \in Addresses : ListensAt(files[p], proto, a, n)
  BY DEF Listens
<1> DEFINE e == [proto |-> proto, address |-> [addr |-> a, from |-> 0], port |-> n, pid |-> p]
<1>2. e \in Listener
  BY PortsAssumption DEF Listener, Address
<1>3. e.proto = proto /\ e.address.from = 0 /\ e.address.addr = a /\ e.port = n /\ e.pid = p
  OBVIOUS
<1> HIDE DEF e
<1>4. e \in ListedOf(proto)
  BY <1>1, <1>2, <1>3 DEF ListedOf
<1> QED BY <1>3, <1>4

LEMMA PortsInit == Init => PortsInv
BY PortsAssumption
   DEF Init, PortsInv, PortsType, Stages, Endpoint, SocketsAreHeld, NotSilentYet, SteadyListens,
       InListing, ToSignal, NobodyIsMissed

\* A process changes: what a request holds does not, and whoever is steady
\* afterwards was so before.
LEMMA ChangeStep ==
    ASSUME PortsInv,
           \E p \in Pids : Exit(p) \/ Reuse(p) \/ \E fd \in 1 .. MaxFd : Open(p, fd) \/ Close(p, fd)
    PROVE  PortsInv'
<1> USE DEF PortsInv
<1>1. /\ UNCHANGED <<request, silent>>
      /\ steady' = [r \in Requests |-> {l \in steady[r] : Listens(files'[l.pid], l.proto, port[r])}]
  BY DEF Exit, Reuse, Open, Close, Observed
<1>2. alive' \subseteq Pids /\ files' \in [Pids -> [1 .. MaxFd -> Socket \cup {NoSocket}]]
  <2> USE PortsAssumption DEF PortsType
  <2>1. ASSUME NEW p \in Pids, Exit(p)
        PROVE  alive' \subseteq Pids /\ files' \in [Pids -> [1 .. MaxFd -> Socket \cup {NoSocket}]]
    BY <2>1 DEF Exit
  <2>2. ASSUME NEW p \in Pids, Reuse(p)
        PROVE  alive' \subseteq Pids /\ files' \in [Pids -> [1 .. MaxFd -> Socket \cup {NoSocket}]]
    BY <2>2 DEF Reuse
  <2>3. ASSUME NEW p \in Pids, NEW fd \in 1 .. MaxFd, Open(p, fd)
        PROVE  alive' \subseteq Pids /\ files' \in [Pids -> [1 .. MaxFd -> Socket \cup {NoSocket}]]
    BY <2>3 DEF Open
  <2>4. ASSUME NEW p \in Pids, NEW fd \in 1 .. MaxFd, Close(p, fd)
        PROVE  alive' \subseteq Pids /\ files' \in [Pids -> [1 .. MaxFd -> Socket \cup {NoSocket}]]
    BY <2>4 DEF Close
  <2> QED BY <2>1, <2>2, <2>3, <2>4
<1>3. SocketsAreHeld'
  <2> USE DEF PortsType, SocketsAreHeld
  <2>1. ASSUME NEW p \in Pids, Exit(p) PROVE SocketsAreHeld'
    BY <2>1 DEF Exit
  <2>0. ASSUME NEW p \in Pids, Reuse(p) PROVE SocketsAreHeld'
    BY <2>0 DEF Reuse
  <2>2. ASSUME NEW p \in Pids, NEW fd \in 1 .. MaxFd, Open(p, fd) \/ Close(p, fd)
        PROVE  SocketsAreHeld'
    <3>1. p \in alive /\ alive' = alive
      BY <2>2 DEF Open, Close
    <3>2. \A q \in Pids \ {p} : files'[q] = files[q]
      BY <2>2 DEF Open, Close
    <3> QED BY <3>1, <3>2
  <2> QED BY <2>0, <2>1, <2>2
<1>4. \A r \in Requests : steady'[r] \subseteq steady[r]
  BY <1>1
<1>5. PortsType'
  BY <1>1, <1>2, <1>4 DEF PortsType, request
<1>6. SteadyListens'
  BY <1>1 DEF SteadyListens, request
<1>7. InListing' /\ ToSignal' /\ NobodyIsMissed'
  BY <1>1, <1>4 DEF InListing, InEntries, ToSignal, Signalled, NobodyIsMissed, request
<1>8. NotSilentYet'
  BY <1>1 DEF NotSilentYet, request
<1> QED BY <1>3, <1>5, <1>6, <1>7, <1>8

LEMMA AcceptStep == ASSUME PortsInv, NEW r \in Requests, Accept(r) PROVE PortsInv'
<1> USE DEF PortsInv
<1>1. /\ pc[r] = "idle" /\ pc' = [pc EXCEPT ![r] = "tcp"] /\ UNCHANGED <<world, silent, port, listing, targets, killed, failed, answer>>
      /\ steady' = [steady EXCEPT ![r] = {l \in Endpoint : Listens(files[l.pid], l.proto, port[r])}]
  BY DEF Accept
<1>2. PortsType'
  BY <1>1 DEF PortsType, Stages, world
<1>3. SocketsAreHeld'
  BY <1>1 DEF SocketsAreHeld, world
<1>4. SteadyListens'
  BY <1>1 DEF SteadyListens, PortsType, world
<1>5. NotSilentYet' /\ InListing' /\ ToSignal' /\ NobodyIsMissed'
  BY <1>1 DEF NotSilentYet, InListing, InEntries, ToSignal, Signalled, NobodyIsMissed, PortsType
<1> QED BY <1>2, <1>3, <1>4, <1>5

LEMMA LsofFailsStep == ASSUME PortsInv, NEW r \in Requests, LsofFails(r) PROVE PortsInv'
BY DEF PortsInv, LsofFails, Finish, PortsType, Stages, SocketsAreHeld, NotSilentYet, SteadyListens,
       InListing, InEntries, ToSignal, Signalled, NobodyIsMissed, world, seen

LEMMA ListTCPStep ==
    ASSUME PortsInv, Exact, NEW r \in Requests, NEW fails \in BOOLEAN, ListTCP(r, fails)
    PROVE  PortsInv'
<1> USE DEF PortsInv
<1>1. /\ pc[r] = "tcp" /\ pc' = [pc EXCEPT ![r] = "udp"]
      /\ UNCHANGED <<world, steady, port, targets, killed, failed, answer>>
      /\ \A q \in Requests \ {r} : listing'[q] = listing[q]
      /\ DOMAIN listing' = Requests
  BY DEF ListTCP, PortsType
<1>2. /\ silent' \in [Requests -> SUBSET {"TCP", "UDP"}]
      /\ \A q \in Requests : silent[q] \subseteq silent'[q] /\ ("UDP" \in silent'[q] => "UDP" \in silent[q])
      /\ \A q \in Requests \ {r} : silent'[q] = silent[q]
  BY DEF ListTCP, NoteSilence, PortsType
<1>3. PortsType'
  BY <1>1, <1>2 DEF PortsType, Stages, world
<1>4. SocketsAreHeld' /\ SteadyListens'
  BY <1>1 DEF SocketsAreHeld, SteadyListens, world
<1>5. NotSilentYet'
  BY <1>1, <1>2 DEF NotSilentYet, PortsType
<1>6. "TCP" \notin silent'[r] => \A l \in steady[r] : l.proto = "TCP" => InEntries(r, l)'
  <2> SUFFICES ASSUME "TCP" \notin silent'[r], NEW l \in steady[r], l.proto = "TCP"
               PROVE  InEntries(r, l)'
    OBVIOUS
  <2>1. ListedOf("TCP") \subseteq ToSet(listing'[r])
    BY <1>1 DEF Exact, Shown, PortsType
  <2>2. /\ Listens(files[l.pid], "TCP", port[r]) /\ l.pid \in Pids /\ port[r] \in PortNumbers
    BY DEF SteadyListens, PortsType, Endpoint
  <2>3. PICK e \in ListedOf("TCP") : e.proto = "TCP" /\ e.port = port[r] /\ e.pid = l.pid
    BY <2>2, ListensIsListed
  <2> QED BY <1>1, <2>1, <2>3 DEF InEntries
<1>7. InListing'
  BY <1>1, <1>2, <1>6 DEF InListing, InEntries, PortsType
<1>8. ToSignal' /\ NobodyIsMissed'
  BY <1>1, <1>2 DEF ToSignal, Signalled, NobodyIsMissed, PortsType
<1> QED BY <1>3, <1>4, <1>5, <1>7, <1>8

LEMMA ListUDPStep ==
    ASSUME PortsInv, Exact, NEW r \in Requests, NEW fails \in BOOLEAN, ListUDP(r, fails)
    PROVE  PortsInv'
<1> USE DEF PortsInv
<1>1. /\ pc[r] = "udp" /\ UNCHANGED <<world, steady, port, killed, failed>>
      /\ \A q \in Requests \ {r} : targets'[q] = targets[q] /\ pc'[q] = pc[q] /\ answer'[q] = answer[q] /\ listing'[q] = listing[q]
      /\ DOMAIN listing' = Requests /\ DOMAIN targets' = Requests
      /\ targets'[r] = OnPort(listing'[r], port[r])
      /\ \/ targets'[r] = {} /\ pc'[r] = "done" /\ answer'[r] = 404
         \/ pc'[r] = "kill" /\ answer'[r] = answer[r]
      /\ pc' \in [Requests -> Stages] /\ answer' \in [Requests -> {0, 200, 404, 500}]
  BY DEF ListUDP, Finish, PortsType, Stages
<1>2. /\ silent' \in [Requests -> SUBSET {"TCP", "UDP"}]
      /\ \A q \in Requests : silent[q] \subseteq silent'[q] /\ ("TCP" \in silent'[q] => "TCP" \in silent[q])
      /\ \A q \in Requests \ {r} : silent'[q] = silent[q]
  BY DEF ListUDP, NoteSilence, PortsType
<1>3. PortsType'
  BY <1>1, <1>2 DEF PortsType, world
<1>4. SocketsAreHeld' /\ SteadyListens'
  BY <1>1 DEF SocketsAreHeld, SteadyListens, world
<1>5. NotSilentYet'
  BY <1>1, <1>2 DEF NotSilentYet, PortsType
<1>6. \A l \in steady[r] : l.proto \notin silent'[r] => l.pid \in targets'[r]
  <2> SUFFICES ASSUME NEW l \in steady[r], l.proto \notin silent'[r]
               PROVE  l.pid \in OnPort(listing'[r], port[r])
    BY <1>1
  <2>1. ToSet(listing[r]) \cup Shown(r, "UDP") \subseteq ToSet(listing'[r])
    BY <1>1 DEF Exact
  <2>2. /\ l.proto \in {"TCP", "UDP"} /\ l.pid \in Pids /\ port[r] \in PortNumbers
        /\ Listens(files[l.pid], l.proto, port[r])
    BY DEF SteadyListens, PortsType, Endpoint
  <2>3. CASE l.proto = "TCP"
    <3>1. InEntries(r, l)
      BY <1>1, <1>2, <2>3 DEF InListing
    <3> QED BY <2>1, <3>1 DEF InEntries, OnPort
  <2>4. CASE l.proto = "UDP"
    <3>1. ListedOf("UDP") \subseteq ToSet(listing'[r])
      BY <2>1, <2>4 DEF Shown
    <3>2. PICK e \in ListedOf("UDP") : e.proto = "UDP" /\ e.port = port[r] /\ e.pid = l.pid
      BY <2>2, <2>4, ListensIsListed
    <3> QED BY <3>1, <3>2 DEF OnPort
  <2> QED BY <2>2, <2>3, <2>4
<1>7. InListing'
  BY <1>1, <1>2 DEF InListing, InEntries, PortsType
<1>8. ToSignal'
  BY <1>1, <1>2, <1>6 DEF ToSignal, Signalled, PortsType
<1>9. NobodyIsMissed'
  BY <1>1, <1>2, <1>6 DEF NobodyIsMissed, PortsType
<1> QED BY <1>3, <1>4, <1>5, <1>7, <1>8, <1>9

\* Which of the targets is next plays no part, nor whether it listens itself.
LEMMA SignalStep == ASSUME PortsInv, NEW r \in Requests, Signal(r) PROVE PortsInv'
<1> USE DEF PortsInv
<1>1. PICK p : /\ pc[r] = "kill" /\ UNCHANGED <<world, seen, pc, port, listing, answer>>
               /\ targets' = [targets EXCEPT ![r] = @ \ {p}]
               /\ IF p \in alive /\ p \notin Protected
                  THEN killed' = [killed EXCEPT ![r] = @ \cup {p}] /\ failed' = failed
                  ELSE failed' = [failed EXCEPT ![r] = @ \cup {p}] /\ killed' = killed
  BY DEF Signal, Remaining
<1>2. PortsType'
  BY <1>1 DEF PortsType, world, seen
<1>3. SocketsAreHeld' /\ SteadyListens'
  BY <1>1 DEF SocketsAreHeld, SteadyListens, world, seen
<1>4. \A l \in steady[r] : l.pid \in alive
  <2> SUFFICES ASSUME NEW l \in steady[r] PROVE l.pid \in alive
    OBVIOUS
  <2>1. l.pid \in Pids /\ Listens(files[l.pid], l.proto, port[r])
    BY DEF SteadyListens, PortsType, Endpoint
  <2>2. \E fd \in 1 .. MaxFd : files[l.pid][fd] # NoSocket
    BY <2>1 DEF Listens, ListensAt, Held, NoSocket
  <2> QED BY <2>1, <2>2 DEF SocketsAreHeld
<1>5. \A l \in steady[r] :
          l.proto \notin silent[r] => l.pid \in targets'[r] \/ Signalled(r, l.pid)'
  BY <1>1, <1>4 DEF ToSignal, Signalled, PortsType
<1>6. ToSignal'
  BY <1>1, <1>5 DEF ToSignal, Signalled, PortsType, seen
<1>7. NotSilentYet' /\ InListing' /\ NobodyIsMissed'
  BY <1>1 DEF NotSilentYet, InListing, InEntries, NobodyIsMissed, PortsType, seen
<1> QED BY <1>2, <1>3, <1>6, <1>7

LEMMA AnswerStep == ASSUME PortsInv, NEW r \in Requests, Answer(r) PROVE PortsInv'
BY DEF PortsInv, Answer, Finish, PortsType, Stages, SocketsAreHeld, NotSilentYet, SteadyListens,
       InListing, InEntries, ToSignal, Signalled, NobodyIsMissed, world, seen

LEMMA StutterStep == ASSUME PortsInv, UNCHANGED vars PROVE PortsInv'
BY DEF PortsInv, PortsType, SocketsAreHeld, NotSilentYet, SteadyListens, InListing, InEntries,
       ToSignal, Signalled, NobodyIsMissed, vars, world, request, seen

-----------------------------------------------------------------------------
(* The listings.                                                             *)

\* What a run of lsof adds: nothing when it fails without a message.
LEMMA RunParsed ==
    ASSUME NEW selected \in SUBSET Socket, NEW fails \in BOOLEAN
    PROVE  /\ runLsof(selected, fails) \in Seq(Entries) /\ IsInjective(runLsof(selected, fails))
           /\ ToSet(runLsof(selected, fails)) = IF fails THEN {} ELSE EnteredBy(selected, MaxPid)
<1>1. <<>> \in Seq(Entries) /\ ToSet(<<>>) = {} /\ IsInjective(<<>>)
  BY DEF ToSet, IsInjective
<1> QED BY <1>1, OutputParsed DEF runLsof

LEMMA TCPListed ==
    ASSUME PortsInv, NEW r \in Requests, NEW fails \in BOOLEAN, ListTCP(r, fails)
    PROVE  /\ listing'[r] \in Seq(Entries) /\ IsInjective(listing'[r])
           /\ ToSet(listing'[r]) = Shown(r, "TCP")
<1>1. listing'[r] = runLsof(TCPListen, fails)
  BY DEF ListTCP, PortsInv, PortsType
<1>2. TCPListen \in SUBSET Socket
  BY DEF TCPListen
<1>3. EnteredBy(TCPListen, MaxPid) = ListedOf("TCP")
  BY TCPExact DEF PortsInv
<1>4. "TCP" \in silent'[r] <=> fails
  BY DEF ListTCP, NoteSilence, PortsInv, PortsType, NotSilentYet
<1> QED BY <1>1, <1>2, <1>3, <1>4, RunParsed DEF Shown

\* Two listings without a common entry, one after the other.
LEMMA BothListed ==
    ASSUME NEW a \in Seq(Entries), NEW b \in Seq(Entries),
           \A l \in ToSet(a) : l.proto = "TCP", \A l \in ToSet(b) : l.proto = "UDP"
    PROVE  /\ a \o b \in Seq(Entries) /\ ToSet(a \o b) = ToSet(a) \cup ToSet(b)
           /\ IsInjective(a) /\ IsInjective(b) => IsInjective(a \o b)
<1> DEFINE M == Len(a)
           N == Len(b)
           c == a \o b
<1>1. /\ M \in Nat /\ N \in Nat /\ c \in Seq(Entries)
      /\ DOMAIN a = 1 .. M /\ DOMAIN b = 1 .. N /\ DOMAIN c = 1 .. (M + N)
      /\ \A n \in 1 .. M : c[n] = a[n]
      /\ \A n \in 1 .. N : c[M + n] = b[n]
  OBVIOUS
<1> HIDE DEF M, N, c
<1>2. ASSUME NEW i \in 1 .. (M + N), ~ (i \in 1 .. M)
      PROVE  i - M \in 1 .. N /\ c[i] = b[i - M]
  <2>1. i - M \in 1 .. N /\ M + (i - M) = i
    BY <1>1, <1>2
  <2> QED BY <1>1, <2>1
<1>3. \A n \in 1 .. M : n \in 1 .. (M + N)
  BY <1>1
<1>4. \A n \in 1 .. N : M + n \in 1 .. (M + N)
  BY <1>1
<1>5. ToSet(c) = ToSet(a) \cup ToSet(b)
  <2>1. ToSet(a) \cup ToSet(b) \subseteq ToSet(c)
    <3>1. /\ ToSet(a) = {a[i] : i \in 1 .. M} /\ ToSet(b) = {b[i] : i \in 1 .. N}
          /\ ToSet(c) = {c[i] : i \in 1 .. (M + N)}
      BY <1>1 DEF ToSet
    <3>2. \A i \in 1 .. M : a[i] \in ToSet(c)
      BY <1>1, <1>3, <3>1
    <3>3. \A i \in 1 .. N : b[i] \in ToSet(c)
      BY <1>1, <1>4, <3>1
    <3> QED BY <3>1, <3>2, <3>3
  <2>2. ASSUME NEW i \in 1 .. (M + N) PROVE c[i] \in ToSet(a) \cup ToSet(b)
    <3>1. CASE i \in 1 .. M
      BY <1>1, <3>1 DEF ToSet
    <3>2. CASE ~ (i \in 1 .. M)
      BY <1>1, <1>2, <3>2 DEF ToSet
    <3> QED BY <3>1, <3>2
  <2>3. ToSet(c) = {c[i] : i \in 1 .. (M + N)}
    BY <1>1 DEF ToSet
  <2>4. ToSet(c) \subseteq ToSet(a) \cup ToSet(b)
    BY <2>2, <2>3
  <2> QED BY <2>1, <2>4
<1>6. ASSUME IsInjective(a), IsInjective(b) PROVE IsInjective(c)
  <2>1. /\ \A i, j \in 1 .. M : a[i] = a[j] => i = j
        /\ \A i, j \in 1 .. N : b[i] = b[j] => i = j
    BY <1>1, <1>6 DEF IsInjective
  <2>2. /\ \A i \in 1 .. M : a[i].proto = "TCP"
        /\ \A i \in 1 .. N : b[i].proto = "UDP"
    BY <1>1 DEF ToSet
  <2>3. ASSUME NEW i \in 1 .. (M + N), NEW j \in 1 .. (M + N), c[i] = c[j] PROVE i = j
    <3>1. CASE i \in 1 .. M /\ j \in 1 .. M
      BY <1>1, <2>1, <2>3, <3>1
    <3>2. CASE i \notin 1 .. M /\ j \notin 1 .. M
      <4>1. i - M = j - M
        BY <1>2, <2>1, <2>3, <3>2
      <4> QED BY <1>1, <4>1
    <3>3. CASE i \in 1 .. M /\ j \notin 1 .. M
      BY <1>1, <1>2, <2>2, <2>3, <3>3
    <3>4. CASE i \notin 1 .. M /\ j \in 1 .. M
      BY <1>1, <1>2, <2>2, <2>3, <3>4
    <3> QED BY <3>1, <3>2, <3>3, <3>4
  <2> QED BY <1>1, <2>3 DEF IsInjective
<1> QED BY <1>1, <1>5, <1>6 DEF c

LEMMA UDPListed ==
    ASSUME PortsInv, ListingSoFar, NEW r \in Requests, NEW fails \in BOOLEAN, ListUDP(r, fails)
    PROVE  /\ ToSet(listing[r]) \cup Shown(r, "UDP") \subseteq ToSet(listing'[r])
           /\ \A l \in ToSet(listing'[r]) \ (ToSet(listing[r]) \cup Shown(r, "UDP")) :
                 /\ "UDP" \notin silent'[r]
                 /\ \E s \in Held(files[l.pid]) : s.proto = "UDP" /\ s.peer = l.port
           /\ IsInjective(listing'[r])
           /\ \A i, j \in DOMAIN listing'[r] : i < j => ~ Before(listing'[r][j], listing'[r][i])
<1> DEFINE a == listing[r]
           b == runLsof(UDP, fails)
<1>1. listing'[r] \in Sortings(a \o b)
  BY DEF ListUDP, PortsInv, PortsType
<1>2. a \in Seq(Entries) /\ IsInjective(a) /\ \A l \in ToSet(a) : l.proto = "TCP"
  BY DEF ListUDP, ListingSoFar
<1>3. UDP \in SUBSET Socket
  BY DEF UDP
<1>4. /\ b \in Seq(Entries) /\ IsInjective(b)
      /\ ToSet(b) = IF fails THEN {} ELSE EnteredBy(UDP, MaxPid)
  BY <1>3, RunParsed
<1> HIDE DEF b
<1>5. "UDP" \in silent'[r] <=> fails
  BY DEF ListUDP, NoteSilence, PortsInv, PortsType, NotSilentYet
<1>6. /\ Shown(r, "UDP") \subseteq ToSet(b)
      /\ \A l \in ToSet(b) :
            /\ ~ fails /\ l.proto = "UDP"
            /\ l \in Shown(r, "UDP") \/ \E s \in Held(files[l.pid]) : s.proto = "UDP" /\ s.peer = l.port
  BY <1>4, <1>5, UDPExact DEF PortsInv, Shown
<1>7. a \o b \in Seq(Entries) /\ ToSet(a \o b) = ToSet(a) \cup ToSet(b) /\ IsInjective(a \o b)
  BY <1>2, <1>4, <1>6, BothListed
<1>8. /\ ToSet(listing'[r]) = ToSet(a) \cup ToSet(b) /\ IsInjective(listing'[r])
      /\ \A i, j \in DOMAIN listing'[r] : i < j => ~ Before(listing'[r][j], listing'[r][i])
  BY <1>1, <1>7, SortedOnce
<1> QED BY <1>5, <1>6, <1>8

\* Both runs of lsof, whatever becomes of them.
Lists(r) == \E fails \in BOOLEAN : ListTCP(r, fails) \/ ListUDP(r, fails)

\* The steps of others leave what r has listed alone.
LEMMA OthersStep ==
    ASSUME PortsType, NEW r \in Requests, [Next]_vars,
           ~ (Accept(r) \/ LsofFails(r) \/ Lists(r) \/ Signal(r) \/ Answer(r))
    PROVE  pc'[r] = pc[r] /\ answer'[r] = answer[r] /\ listing'[r] = listing[r]
<1>1. ASSUME NEW q \in Requests \ {r},
             Accept(q) \/ LsofFails(q) \/ Lists(q) \/ Signal(q) \/ Answer(q)
      PROVE  pc'[r] = pc[r] /\ answer'[r] = answer[r] /\ listing'[r] = listing[r]
  BY <1>1 DEF Accept, LsofFails, Lists, ListTCP, ListUDP, Signal, Answer, Finish, PortsType
<1>2. ASSUME NEW p \in Pids,
             Exit(p) \/ Reuse(p) \/ \E fd \in 1 .. MaxFd : Open(p, fd) \/ Close(p, fd)
      PROVE  UNCHANGED request
  BY <1>2 DEF Exit, Reuse, Open, Close, Observed
<1>3. UNCHANGED vars => UNCHANGED request
  BY DEF vars
<1> QED BY <1>1, <1>2, <1>3 DEF Next, Lists, request

LEMMA ListingStep ==
    ASSUME PortsInv, ListingSoFar, [Next]_vars
    PROVE  ListingSoFar' /\ ListsExactly
<1> DEFINE Typed(r) == /\ pc[r] # "done" => answer[r] = 0
                       /\ pc[r] = "udp" =>
                             /\ listing[r] \in Seq(Entries) /\ IsInjective(listing[r])
                             /\ \A l \in ToSet(listing[r]) : l.proto = "TCP"
           TCPPart(r) == (pc[r] = "tcp" /\ pc'[r] = "udp") =>
                /\ ToSet(listing'[r]) = Shown(r, "TCP")
                /\ IsInjective(listing'[r])
           UDPPart(r) == (pc[r] = "udp" /\ (pc'[r] = "kill" \/ answer'[r] = 404)) =>
                /\ ToSet(listing[r]) \cup Shown(r, "UDP") \subseteq ToSet(listing'[r])
                /\ \A l \in ToSet(listing'[r]) \ (ToSet(listing[r]) \cup Shown(r, "UDP")) :
                      /\ "UDP" \notin silent'[r]
                      /\ \E s \in Held(files[l.pid]) : s.proto = "UDP" /\ s.peer = l.port
                /\ IsInjective(listing'[r])
                /\ \A i, j \in DOMAIN listing'[r] :
                      i < j => ~ Before(listing'[r][j], listing'[r][i])
<1>1. ASSUME NEW r \in Requests PROVE Typed(r)' /\ TCPPart(r) /\ UDPPart(r)
  <2>1. Typed(r) /\ PortsType
    BY DEF ListingSoFar, PortsInv
  <2>2. CASE Accept(r) \/ Signal(r) \/ Answer(r) \/ LsofFails(r)
    BY <2>1, <2>2 DEF Accept, Signal, Answer, LsofFails, Finish, PortsType
  <2>3. ASSUME NEW fails \in BOOLEAN, ListTCP(r, fails) PROVE Typed(r)' /\ TCPPart(r) /\ UDPPart(r)
    <3>1. pc[r] = "tcp" /\ pc'[r] = "udp" /\ answer'[r] = answer[r]
      BY <2>1, <2>3 DEF ListTCP, PortsType
    <3>2. \A l \in Shown(r, "TCP") : l.proto = "TCP"
      BY DEF Shown, ListedOf
    <3> QED BY <2>1, <2>3, <3>1, <3>2, TCPListed
  <2>4. ASSUME NEW fails \in BOOLEAN, ListUDP(r, fails) PROVE Typed(r)' /\ TCPPart(r) /\ UDPPart(r)
    <3>1. UDPPart(r)
      BY <2>4, UDPListed
    <3>2. pc[r] = "udp" /\ (pc'[r] = "done" \/ (pc'[r] = "kill" /\ answer'[r] = answer[r]))
      BY <2>1, <2>4 DEF ListUDP, Finish, PortsType
    <3> QED BY <2>1, <3>1, <3>2
  <2>5. CASE ~ (Accept(r) \/ LsofFails(r) \/ Lists(r) \/ Signal(r) \/ Answer(r))
    <3>1. pc'[r] = pc[r] /\ answer'[r] = answer[r] /\ listing'[r] = listing[r]
      BY <2>1, <2>5, OthersStep
    <3> QED BY <2>1, <3>1
  <2> QED BY <2>2, <2>3, <2>4, <2>5 DEF Lists
<1>2. ListingSoFar'
  BY <1>1 DEF ListingSoFar
<1>3. ListsExactly
  BY <1>1 DEF ListsExactly
<1> QED BY <1>2, <1>3

LEMMA RequestStep == ASSUME PortsInv, ListingSoFar, [Next]_vars PROVE PortsInv'
<1>1. Exact
  BY ListingStep, ListsExact
<1> QED BY <1>1, ChangeStep, AcceptStep, LsofFailsStep, ListTCPStep, ListUDPStep, SignalStep,
           AnswerStep, StutterStep DEF Next

LEMMA ListingInit == Init => ListingSoFar
BY DEF Init, ListingSoFar

LEMMA PortsInvariant == Spec => [](PortsInv /\ ListingSoFar)
<1>1. PortsInv /\ ListingSoFar /\ [Next]_vars => PortsInv' /\ ListingSoFar'
  BY RequestStep, ListingStep
<1> QED BY <1>1, PortsInit, ListingInit, PTL DEF Spec

-----------------------------------------------------------------------------
\* A listing is made of what lsof saw, for any sockets of any processes: the loop
\* that carries the process and the protocol from line to line gives each socket
\* those it belongs to, loses none and counts none twice, and the two halves come
\* out in an order of port, protocol and process (scanner.go:24-45, 93-168).
THEOREM ListingsAreExact == Spec => ListingIsExact
<1>1. PortsInv /\ ListingSoFar /\ [Next]_vars => [ListsExactly]_vars
  BY ListingStep
<1> QED BY <1>1, PortsInvariant, PTL DEF Spec, ListingIsExact

\* When both calls of lsof have answered there is an order for sort.Slice to leave.
SortHasResult ==
    \A r \in Requests, fails \in BOOLEAN :
        pc[r] = "udp" => Sortings(listing[r] \o runLsof(UDP, fails)) # {}

\* The step that sorts is never in want of a result, whatever was listed
\* (scanner.go:35-44): no request is held up between lsof and the signals.
THEOREM SortAlwaysEnds == Spec => []SortHasResult
<1>1. PortsInv /\ ListingSoFar => SortHasResult
  <2> SUFFICES ASSUME PortsInv, ListingSoFar, NEW r \in Requests, NEW fails \in BOOLEAN, pc[r] = "udp"
               PROVE  Sortings(listing[r] \o runLsof(UDP, fails)) # {}
    BY DEF SortHasResult
  <2>1. UDP \in SUBSET Socket
    BY DEF UDP
  <2>2. runLsof(UDP, fails) \in Seq(Entries) /\ listing[r] \in Seq(Entries)
    BY <2>1, RunParsed DEF ListingSoFar
  <2>3. listing[r] \o runLsof(UDP, fails) \in Seq(Entries)
    BY <2>2
  <2> QED BY <2>3, SortEnds
<1> QED BY <1>1, PortsInvariant, PTL

\* For any number of processes and ports, of requests at one time, and of changes
\* between the calls of lsof and the signals, no process that listened on the port
\* all the time is left out, also when some are protected or cannot be signalled:
\* only a call of lsof that fails without a message can hide it (scanner.go:48-105).
THEOREM NobodyEverMissed == Spec => []NobodyIsMissed
<1>1. PortsInv => NobodyIsMissed
  BY DEF PortsInv
<1> QED BY <1>1, PortsInvariant, PTL
=============================================================================
