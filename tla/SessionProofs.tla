---------------------------- MODULE SessionProofs ----------------------------
(* Proof that a session which has ended grants nothing any more, for any     *)
(* number of requests, tokens and users, and any number of restarts.         *)
(*                                                                           *)
(* EndedStaysOut looks at one moment, that of the grant. What makes it true  *)
(* is spread over the four steps of Get and the two of Delete: while a       *)
(* deletion is half-way (its entries are out of the map, its rows are not    *)
(* out of the table) no row it is about to delete may be on its way into the *)
(* map (HalfGoneIsOut), so that nothing of it is left in either place        *)
(* afterwards (EndedIsOut). Both except what the observer `crossed` counts.  *)
EXTENDS SessionCache, TLAPS

Steps == {"idle", "lookup", "purge", "load", "fill", "granted", "uncache", "unstore", "create"}

Call == [at : Steps, token : Tokens \cup {Nil}, user : Users \cup {Nil},
         found : Users \cup {Nil}, late : SUBSET Tokens, over : BOOLEAN]

SessionType ==
    /\ cache \in [Tokens -> Users \cup {Nil}]
    /\ db \in [Tokens -> Users \cup {Nil}]
    /\ issued \subseteq Tokens /\ expired \subseteq Tokens
    /\ ended \subseteq issued /\ crossed \subseteq Tokens
    /\ req \in [Requests -> Call]

\* Get carries a token that was handed out.
Getting(r) == req[r].at \in {"lookup", "purge", "load", "fill", "granted"}
TokensAreIssued ==
    /\ \A r \in Requests : Getting(r) => req[r].token \in issued
    /\ \A t \in Tokens \ issued : cache[t] = Nil /\ db[t] = Nil

\* Get is about to put the row of t into the map.
Filling(t) == \E r \in Requests : req[r].at = "fill" /\ req[r].token = t

\* The map, and what a Get has read, never contradict the table.
SameUser ==
    /\ \A t \in Tokens : cache[t] # Nil /\ db[t] # Nil => cache[t] = db[t]
    /\ \A r \in Requests : req[r].at = "fill" /\ db[req[r].token] # Nil =>
          req[r].found = db[req[r].token]

Out(t) == t \notin crossed => cache[t] = Nil /\ ~Filling(t)

\* Between its two halves a deletion has taken all it means out of the map.
HalfGoneIsOut == \A t \in Tokens : db[t] # Nil /\ HalfGone(t, db[t]) => Out(t)

\* What has ended is in no table and on no way into one.
EndedIsOut == \A t \in ended : db[t] = Nil /\ Out(t)

\* What a request found out when it began is still so.
CallsAreTrue ==
    \A r \in Requests :
        /\ req[r].at \in {"fill", "granted"} => req[r].token \notin req[r].late
        /\ Getting(r) /\ req[r].over => req[r].token \in ended
        /\ req[r].at = "granted" /\ req[r].over => req[r].token \in crossed

SessionInv ==
    /\ SessionType /\ TokensAreIssued /\ SameUser
    /\ HalfGoneIsOut /\ EndedIsOut /\ CallsAreTrue

-----------------------------------------------------------------------------
LEMMA SessionInit == Init => SessionInv
BY CacheAssumption
   DEF Init, SessionInv, SessionType, TokensAreIssued, SameUser, HalfGoneIsOut, EndedIsOut,
       CallsAreTrue, Getting, NoSessions, Idle, Call, Steps

\* A step of one request that takes at most rows away and leaves the map alone. If
\* it ends with a row to fill in, it has just read it, and every deletion that is
\* half-way through with that row has been noted.
LEMMA CallStep ==
    ASSUME SessionInv, NEW r \in Requests, NEW call \in Call,
           req' = [req EXCEPT ![r] = call],
           UNCHANGED <<cache, issued, expired, ended>>,
           crossed' \in SUBSET Tokens, crossed \subseteq crossed',
           db' \in [Tokens -> Users \cup {Nil}], \A t \in Tokens : db'[t] \in {Nil, db[t]},
           call.at # "unstore",
           call.at \in {"lookup", "purge", "load", "fill", "granted"} =>
               /\ call.token \in issued
               /\ call.over => call.token \in ended,
           call.at \in {"fill", "granted"} => call.token \notin call.late,
           call.at = "granted" /\ call.over => call.token \in crossed,
           call.at = "fill" =>
               /\ db[call.token] # Nil /\ call.found = db[call.token]
               /\ HalfGone(call.token, db[call.token]) => call.token \in crossed'
    PROVE  SessionInv'
<1> USE DEF SessionInv
<1>1. SessionType'
  BY DEF SessionType
<1>2. \A q \in Requests : req'[q] = IF q = r THEN call ELSE req[q]
  BY DEF SessionType
<1>3. \A t \in Tokens : Filling(t)' => Filling(t) \/ (call.at = "fill" /\ t = call.token)
  BY <1>2 DEF Filling
<1>4. \A t, s : HalfGone(t, s)' => HalfGone(t, s)
  BY <1>2 DEF HalfGone, Means
<1>5. TokensAreIssued' /\ SameUser' /\ CallsAreTrue'
  BY <1>2 DEF TokensAreIssued, SameUser, CallsAreTrue, Getting, SessionType
<1>6. HalfGoneIsOut' /\ EndedIsOut'
  BY <1>3, <1>4 DEF HalfGoneIsOut, EndedIsOut, Out, SessionType
<1> QED BY <1>1, <1>5, <1>6

\* What a request is after Goto.
LEMMA GotoIs ==
    ASSUME SessionType, NEW r \in Requests, NEW at \in Steps
    PROVE  /\ [req[r] EXCEPT !.at = at] \in Call
           /\ [req EXCEPT ![r].at = at] = [req EXCEPT ![r] = [req[r] EXCEPT !.at = at]]
BY DEF SessionType, Call

LEMMA IdleIsCall == Idle \in Call /\ Idle.at = "idle"
BY DEF Idle, Call, Steps

\* A request begins, is answered, or goes on without another one noticing.
LEMMA QuietStep ==
    ASSUME SessionInv, NEW r \in Requests,
           \/ \E t \in issued : Arrive(r, t)
           \/ \E u \in Users : Authenticate(r, u) \/ ChangeUser(r, u)
           \/ Lookup(r) \/ LoadFails(r) \/ Handle(r) \/ Logout(r) \/ CreateFails(r) \/ UnstoreFails(r)
    PROVE  SessionInv'
<1> USE DEF tables, observed
<1>0. /\ SessionType /\ crossed \in SUBSET Tokens /\ crossed \subseteq crossed /\ \A t \in Tokens : db[t] \in {Nil, db[t]}
      /\ db \in [Tokens -> Users \cup {Nil}] /\ req[r] \in Call
  BY DEF SessionInv, SessionType
<1>1. ASSUME req' = [req EXCEPT ![r] = Idle], UNCHANGED <<tables, issued, expired, observed>>
      PROVE  SessionInv'
  BY <1>0, <1>1, CallStep, IdleIsCall
<1>2. ASSUME NEW t \in issued, Arrive(r, t) PROVE SessionInv'
  <2>0. PICK over \in BOOLEAN : over = (t \in ended)
    <3>1. CASE t \in ended
      BY <3>1, Zenon
    <3>2. CASE t \notin ended
      <4>1. FALSE = (t \in ended)
        BY <3>2
      <4> QED BY <4>1, Zenon
    <3> QED BY <3>1, <3>2
  <2> DEFINE call == [Idle EXCEPT !.at = "lookup", !.token = t, !.late = expired, !.over = over]
  <2>1. call \in Call /\ call.at = "lookup" /\ call.token = t /\ (call.over => t \in ended)
    BY <1>0, <2>0 DEF Idle, Call, Steps, SessionType
  <2>2. req' = [req EXCEPT ![r] = call] /\ UNCHANGED <<tables, issued, expired, observed>>
    BY <1>2, <2>0 DEF Arrive
  <2> HIDE DEF call
  <2> QED BY <1>0, <2>1, <2>2, CallStep
<1>3. ASSUME NEW u \in Users, Authenticate(r, u) \/ ChangeUser(r, u) PROVE SessionInv'
  <2>1. PICK at \in {"create", "uncache"} :
            /\ req' = [req EXCEPT ![r] = [Idle EXCEPT !.at = at, !.user = u]]
            /\ UNCHANGED <<tables, issued, expired, observed>>
    BY <1>3 DEF Authenticate, ChangeUser
  <2> DEFINE call == [Idle EXCEPT !.at = at, !.user = u]
  <2>2. call \in Call /\ call.at = at
    BY DEF Idle, Call, Steps
  <2> HIDE DEF call
  <2> QED BY <1>0, <2>1, <2>2, CallStep DEF call
<1>4. ASSUME Lookup(r) PROVE SessionInv'
  <2>1. PICK at \in {"purge", "granted", "uncache"} :
            /\ req' = [req EXCEPT ![r].at = at]
            /\ at = "granted" => cache[req[r].token] # Nil /\ InTime(r)
            /\ req[r].at = "lookup" /\ UNCHANGED <<tables, issued, expired, observed>>
    BY <1>4 DEF Lookup, Goto
  <2> DEFINE call == [req[r] EXCEPT !.at = at]
  <2>2. call \in Call /\ req' = [req EXCEPT ![r] = call]
    BY <1>0, <2>1, GotoIs DEF Steps
  <2>3. call.at = at /\ call.token = req[r].token /\ call.late = req[r].late /\ call.over = req[r].over
    BY <1>0 DEF Call
  <2>4. call.token \in issued /\ (call.over => call.token \in ended)
    BY <2>1, <2>3 DEF SessionInv, TokensAreIssued, CallsAreTrue, Getting
  <2>5. call.at = "granted" => /\ call.token \notin call.late
                               /\ call.over => call.token \in crossed
    BY <2>1, <2>3, <2>4 DEF InTime, SessionInv, EndedIsOut, Out
  <2> HIDE DEF call
  <2> QED BY <1>0, <2>1, <2>2, <2>3, <2>4, <2>5, CallStep
<1>5. ASSUME Logout(r) PROVE SessionInv'
  <2> DEFINE call == [req[r] EXCEPT !.at = "uncache"]
  <2>1. call.at = "uncache"
    BY <1>0 DEF Call
  <2>2. call \in Call /\ req' = [req EXCEPT ![r] = call]
    BY <1>0, <1>5, GotoIs DEF Steps, Logout, Goto
  <2> HIDE DEF call
  <2> QED BY <1>0, <1>5, <2>1, <2>2, CallStep DEF Logout
<1> QED BY <1>1, <1>2, <1>3, <1>4, <1>5 DEF LoadFails, Handle, CreateFails, UnstoreFails, Answer

LEMMA PurgeStep == ASSUME SessionInv, NEW r \in Requests, Purge(r) PROVE SessionInv'
<1> DEFINE call == [req[r] EXCEPT !.at = "load"]
<1>1. SessionType /\ req[r] \in Call
  BY DEF SessionInv, SessionType
<1>2. call \in Call /\ req' = [req EXCEPT ![r] = call]
  BY <1>1, GotoIs DEF Purge, Overdue, Goto, Steps
<1>3. call.at = "load" /\ call.token = req[r].token /\ call.over = req[r].over
  BY <1>1 DEF Call
<1>4. call.token \in issued /\ (call.over => call.token \in ended)
  BY <1>3 DEF Purge, Overdue, SessionInv, TokensAreIssued, CallsAreTrue, Getting
<1>5. db' \in [Tokens -> Users \cup {Nil}] /\ \A t \in Tokens : db'[t] \in {Nil, db[t]}
  BY <1>1 DEF Purge, Overdue, Without, SessionType
<1> HIDE DEF call
<1> QED BY <1>1, <1>2, <1>3, <1>4, <1>5, CallStep DEF Purge, Overdue, observed, SessionType

LEMMA LoadStep == ASSUME SessionInv, NEW r \in Requests, Load(r) PROVE SessionInv'
<1> DEFINE t == req[r].token
<1>0. /\ req[r].at = "load" /\ t \in issued /\ t \in Tokens /\ req[r] \in Call
      /\ UNCHANGED <<tables, issued, expired, ended>>
      /\ crossed' \in SUBSET Tokens /\ crossed \subseteq crossed'
      /\ db[t] # Nil /\ HalfGone(t, db[t]) => t \in crossed'
  BY DEF Load, SessionInv, TokensAreIssued, Getting, SessionType
<1>1. db' \in [Tokens -> Users \cup {Nil}] /\ \A k \in Tokens : db'[k] \in {Nil, db[k]}
  BY <1>0 DEF tables, SessionInv, SessionType
<1>2. CASE db[t] = Nil
  <2>1. req' = [req EXCEPT ![r] = Idle]
    BY <1>2 DEF Load, Answer
  <2> QED BY <1>0, <1>1, <2>1, IdleIsCall, CallStep DEF tables
<1>3. CASE db[t] # Nil
  <2>1. PICK at \in {"fill", "uncache"} :
            /\ req' = [req EXCEPT ![r].found = db[t], ![r].at = at]
            /\ at = "fill" => InTime(r)
    BY <1>3 DEF Load
  <2> DEFINE call == [req[r] EXCEPT !.found = db[t], !.at = at]
  <2>2. /\ call.at = at /\ call.token = t /\ call.found = db[t]
        /\ call.late = req[r].late /\ call.over = req[r].over
    BY <1>0 DEF Call
  <2>3. call \in Call
    BY <1>0 DEF Call, Steps, SessionInv, SessionType
  <2>4. req' = [req EXCEPT ![r] = call]
    BY <1>0, <2>1 DEF SessionInv, SessionType, Call
  <2>5. call.over => call.token \in ended
    BY <1>0, <2>2 DEF SessionInv, CallsAreTrue, Getting
  <2>6. call.at = "fill" => call.token \notin call.late
    BY <2>1, <2>2 DEF InTime
  <2> HIDE DEF call
  <2> QED BY <1>0, <1>1, <1>3, <2>2, <2>3, <2>4, <2>5, <2>6, CallStep DEF tables
<1> QED BY <1>2, <1>3

-----------------------------------------------------------------------------
(* The steps that change the map, and the end of a deletion.                 *)

LEMMA FillStep == ASSUME SessionInv, NEW r \in Requests, Fill(r) PROVE SessionInv'
<1> DEFINE t == req[r].token
<1> USE DEF SessionInv
<1>0. /\ req[r].at = "fill" /\ t \in issued /\ t \in Tokens /\ req[r] \in Call
      /\ UNCHANGED <<db, issued, expired, ended, crossed>>
      /\ cache' = [cache EXCEPT ![t] = req[r].found]
  BY DEF Fill, TokensAreIssued, Getting, SessionType, observed
<1>1. /\ \A q \in Requests \ {r} : req'[q] = req[q]
      /\ req'[r] = [req[r] EXCEPT !.at = "granted", !.found = Nil]
      /\ req' \in [Requests -> Call]
  BY <1>0 DEF Fill, SessionType, Call, Steps
<1>2. /\ req'[r].at = "granted" /\ req'[r].token = t /\ req'[r].late = req[r].late
      /\ req'[r].over = req[r].over
  BY <1>0, <1>1 DEF Call
<1>3. SessionType'
  BY <1>0, <1>1 DEF SessionType, Call
<1>4. Filling(t)
  BY <1>0 DEF Filling
<1>5. \A k \in Tokens : Out(k) => Out(k)'
  <2> SUFFICES ASSUME NEW k \in Tokens, Out(k), k \notin crossed
               PROVE  cache'[k] = Nil /\ ~Filling(k)'
    BY <1>0 DEF Out
  <2>1. cache[k] = Nil /\ ~Filling(k)
    BY DEF Out
  <2>2. k # t
    BY <1>4, <2>1
  <2>3. cache'[k] = Nil
    BY <1>0, <2>1, <2>2 DEF SessionType
  <2>4. ~Filling(k)'
    BY <1>1, <1>2, <2>1 DEF Filling
  <2> QED BY <2>3, <2>4
<1>6. \A k, s : HalfGone(k, s)' => HalfGone(k, s)
  BY <1>1, <1>2 DEF HalfGone, Means
<1>7. HalfGoneIsOut' /\ EndedIsOut'
  BY <1>0, <1>5, <1>6 DEF HalfGoneIsOut, EndedIsOut, SessionType
<1>8. SameUser'
  <2>1. cache'[t] = req[r].found /\ \A k \in Tokens \ {t} : cache'[k] = cache[k]
    BY <1>0 DEF SessionType
  <2>2. \A k \in Tokens : cache'[k] # Nil /\ db'[k] # Nil => cache'[k] = db'[k]
    BY <1>0, <2>1 DEF SameUser
  <2>3. \A q \in Requests : req'[q].at = "fill" => q # r /\ req'[q] = req[q]
    BY <1>1, <1>2
  <2> QED BY <1>0, <2>2, <2>3 DEF SameUser
<1>9. TokensAreIssued'
  BY <1>0, <1>1, <1>2 DEF TokensAreIssued, Getting, SessionType
<1>10. CallsAreTrue'
  <2>1. req[r].over => t \in crossed
    BY <1>0, <1>4 DEF CallsAreTrue, Getting, EndedIsOut, Out
  <2> QED BY <1>0, <1>1, <1>2, <2>1 DEF CallsAreTrue, Getting
<1> QED BY <1>3, <1>7, <1>8, <1>9, <1>10

LEMMA UncacheStep == ASSUME SessionInv, NEW r \in Requests, Uncache(r) PROVE SessionInv'
<1> USE DEF SessionInv
<1>0. /\ req[r].at = "uncache" /\ req[r] \in Call
      /\ UNCHANGED <<db, issued, expired, ended>>
      /\ crossed \subseteq crossed' /\ crossed' \subseteq Tokens
      /\ \A q \in Requests : req[q].at = "fill" /\ Means(r, req[q].token, req[q].found)
             => req[q].token \in crossed'
  BY DEF Uncache, TokensAreIssued, Getting, SessionType
<1>1. /\ \A q \in Requests \ {r} : req'[q] = req[q]
      /\ req'[r] = [req[r] EXCEPT !.at = "unstore"]
      /\ req' \in [Requests -> Call]
  BY <1>0, GotoIs DEF Uncache, Goto, SessionType, Steps
<1>2. /\ req'[r].at = "unstore" /\ req'[r].token = req[r].token /\ req'[r].user = req[r].user
  BY <1>0, <1>1 DEF Call
<1>3. \A t \in Tokens : /\ cache'[t] \in {Nil, cache[t]}
                        /\ cache[t] # Nil /\ Means(r, t, cache[t]) => cache'[t] = Nil
  BY DEF Uncache, MapWithout, Without, Doomed, SessionType
<1>4. SessionType'
  BY <1>0, <1>1 DEF SessionType, Uncache, MapWithout, Without
<1>5. \A t \in Tokens : Filling(t)' => Filling(t)
  BY <1>1, <1>2 DEF Filling
<1>6. \A t \in Tokens : Out(t) => Out(t)'
  BY <1>0, <1>3, <1>5 DEF Out
<1>7. \A t \in Tokens : db[t] # Nil /\ Means(r, t, db[t]) => Out(t)'
  <2> SUFFICES ASSUME NEW t \in Tokens, db[t] # Nil, Means(r, t, db[t]), t \notin crossed'
               PROVE  cache'[t] = Nil /\ ~Filling(t)'
    BY DEF Out
  <2>1. cache'[t] = Nil
    BY <1>3 DEF SameUser
  <2>2. ~Filling(t)
    BY <1>0 DEF SameUser, Filling
  <2> QED BY <2>1, <2>2, <1>5
<1>8. \A t, s : HalfGone(t, s)' => HalfGone(t, s) \/ Means(r, t, s)
  BY <1>1, <1>2 DEF HalfGone, Means
<1>9. HalfGoneIsOut' /\ EndedIsOut'
  BY <1>0, <1>6, <1>7, <1>8 DEF HalfGoneIsOut, EndedIsOut, SessionType
<1>10. SameUser' /\ TokensAreIssued'
  <2>1. SameUser'
    <3>1. \A t \in Tokens : cache'[t] # Nil /\ db'[t] # Nil => cache'[t] = db'[t]
      BY <1>0, <1>3 DEF SameUser
    <3>2. ASSUME NEW q \in Requests, req'[q].at = "fill" PROVE req'[q] = req[q]
      BY <1>1, <1>2, <3>2
    <3>3. \A q \in Requests : req'[q].at = "fill" /\ db[req'[q].token] # Nil =>
              req'[q].found = db[req'[q].token]
      BY <3>2 DEF SameUser
    <3> QED BY <1>0, <3>1, <3>3 DEF SameUser
  <2>2. TokensAreIssued'
    BY <1>0, <1>1, <1>2, <1>3 DEF TokensAreIssued, Getting
  <2> QED BY <2>1, <2>2
<1>11. CallsAreTrue'
  BY <1>0, <1>1, <1>2 DEF CallsAreTrue, Getting
<1> QED BY <1>4, <1>9, <1>10, <1>11

LEMMA UnstoreStep == ASSUME SessionInv, NEW r \in Requests, Unstore(r) PROVE SessionInv'
<1> USE DEF SessionInv
<1>0. /\ req[r].at = "unstore" /\ UNCHANGED <<cache, issued, expired, crossed>>
      /\ db' = Without(db, Doomed(r, db)) /\ ended' = ended \cup Doomed(r, db)
      /\ req' = [req EXCEPT ![r] = Idle]
  BY DEF Unstore, Answer
<1>1. \A q \in Requests : req'[q] = IF q = r THEN Idle ELSE req[q]
  BY <1>0 DEF SessionType
<1>2. \A t \in Tokens : db'[t] = IF t \in Doomed(r, db) THEN Nil ELSE db[t]
  BY <1>0 DEF Without
<1>3. SessionType'
  BY <1>0, IdleIsCall DEF SessionType, Without, Doomed, TokensAreIssued
<1>4. \A t \in Tokens : Out(t) => Out(t)'
  BY <1>0, <1>1, IdleIsCall DEF Out, Filling
<1>5. \A t \in Doomed(r, db) : Out(t)
  BY <1>0 DEF Doomed, HalfGoneIsOut, HalfGone
<1>6. \A t, s : HalfGone(t, s)' => HalfGone(t, s)
  BY <1>1, IdleIsCall DEF HalfGone, Means
<1>7. HalfGoneIsOut'
  BY <1>2, <1>4, <1>6 DEF HalfGoneIsOut
<1>8. EndedIsOut'
  BY <1>0, <1>2, <1>4, <1>5 DEF EndedIsOut, SessionType, Doomed
<1>9. SameUser' /\ TokensAreIssued' /\ CallsAreTrue'
  BY <1>0, <1>1, <1>2, IdleIsCall DEF SameUser, TokensAreIssued, CallsAreTrue, Getting, SessionType
<1> QED BY <1>3, <1>7, <1>8, <1>9

LEMMA CreateStep == ASSUME SessionInv, NEW r \in Requests, Create(r) PROVE SessionInv'
<1> USE DEF SessionInv
<1> DEFINE u == req[r].user
<1>0. PICK t \in Tokens \ issued :
          /\ cache' = [cache EXCEPT ![t] = u] /\ db' = [db EXCEPT ![t] = u]
          /\ issued' = issued \cup {t}
          /\ crossed' = IF HalfGone(t, u) THEN crossed \cup {t} ELSE crossed
          /\ req' = [req EXCEPT ![r] = Idle] /\ UNCHANGED <<expired, ended>>
  BY DEF Create, Answer
<1>1. \A q \in Requests : req'[q] = IF q = r THEN Idle ELSE req[q]
  BY <1>0 DEF SessionType
<1>2. u \in Users \cup {Nil}
  BY DEF SessionType, Call
<1>3. SessionType'
  BY <1>0, <1>2, IdleIsCall DEF SessionType
<1>4. ~Filling(t) /\ \A k \in Tokens : Filling(k)' => Filling(k)
  BY <1>1, IdleIsCall DEF Filling, TokensAreIssued, Getting
<1>5. \A k, s : HalfGone(k, s)' => HalfGone(k, s)
  BY <1>1, IdleIsCall DEF HalfGone, Means
<1>6. \A k \in Tokens \ {t} : Out(k) => Out(k)'
  BY <1>0, <1>4 DEF Out, SessionType
<1>7. HalfGoneIsOut'
  <2>1. ASSUME NEW k \in Tokens \ {t}, db'[k] # Nil, HalfGone(k, db[k])' PROVE Out(k)'
    <3>1. db'[k] = db[k]
      BY <1>0 DEF SessionType
    <3>2. HalfGone(k, db[k])
      BY <2>1, <3>1, <1>5
    <3> QED BY <2>1, <3>1, <3>2, <1>6 DEF HalfGoneIsOut
  <2>2. db'[t] = u
    BY <1>0 DEF SessionType
  <2>3. HalfGone(t, db[t])' => HalfGone(t, u)
    BY <2>2, <1>5
  <2>4. HalfGone(t, db[t])' => Out(t)'
    BY <1>0, <2>3 DEF Out
  <2> QED BY <2>1, <2>4 DEF HalfGoneIsOut
<1>8. EndedIsOut'
  BY <1>0, <1>6 DEF EndedIsOut, SessionType
<1>9. SameUser' /\ TokensAreIssued' /\ CallsAreTrue'
  BY <1>0, <1>1, IdleIsCall DEF SameUser, TokensAreIssued, CallsAreTrue, Getting, SessionType
<1> QED BY <1>3, <1>7, <1>8, <1>9

\* Time passes, or the process ends and begins anew.
LEMMA WorldStep ==
    ASSUME SessionInv, Restart \/ (\E t \in Tokens : Expire(t)) \/ UNCHANGED vars
    PROVE  SessionInv'
<1> USE DEF SessionInv
<1>1. CASE Restart
  <2>1. \A r \in Requests : req'[r] = Idle
    BY <1>1 DEF Restart
  <2>2. \A t \in Tokens : cache'[t] = Nil /\ ~Filling(t)'
    BY <1>1, <2>1, IdleIsCall DEF Restart, NoSessions, Filling
  <2>3. SessionType'
    BY <1>1, IdleIsCall DEF Restart, NoSessions, SessionType
  <2>4. HalfGoneIsOut' /\ EndedIsOut'
    BY <1>1, <2>2 DEF Restart, HalfGoneIsOut, EndedIsOut, Out, SessionType
  <2>5. SameUser' /\ TokensAreIssued' /\ CallsAreTrue'
    BY <1>1, <2>1, <2>2, IdleIsCall DEF Restart, SameUser, TokensAreIssued, CallsAreTrue, Getting
  <2> QED BY <2>3, <2>4, <2>5
<1>2. CASE (\E t \in Tokens : Expire(t)) \/ UNCHANGED vars
  <2>1. expired' \subseteq Tokens /\ UNCHANGED <<cache, db, issued, req, ended, crossed>>
    BY <1>2 DEF Expire, vars, tables, observed, SessionType
  <2>2. SessionType'
    BY <2>1 DEF SessionType
  <2>3. HalfGoneIsOut' /\ EndedIsOut'
    BY <2>1 DEF HalfGoneIsOut, EndedIsOut, Out, Filling, HalfGone, Means
  <2>4. SameUser' /\ TokensAreIssued' /\ CallsAreTrue'
    BY <2>1 DEF SameUser, TokensAreIssued, CallsAreTrue, Getting
  <2> QED BY <2>2, <2>3, <2>4
<1> QED BY <1>1, <1>2

-----------------------------------------------------------------------------
LEMMA SessionInvariant == Spec => []SessionInv
<1>1. SessionInv /\ [Next]_vars => SessionInv'
  <2> SUFFICES ASSUME SessionInv, [Next]_vars PROVE SessionInv'
    OBVIOUS
  <2>1. ASSUME NEW r \in Requests,
               \/ \E t \in issued : Arrive(r, t)
               \/ \E u \in Users : Authenticate(r, u) \/ ChangeUser(r, u)
               \/ Get(r) \/ Handle(r) \/ Logout(r) \/ Delete(r) \/ Create(r) \/ CreateFails(r)
        PROVE  SessionInv'
    BY <2>1, QuietStep, PurgeStep, LoadStep, FillStep, UncacheStep, UnstoreStep, CreateStep
       DEF Get, Delete
  <2> QED BY <2>1, WorldStep DEF Next
<1> QED BY <1>1, SessionInit, PTL DEF Spec

\* For any number of requests at work, of users and of sessions, of which each
\* may have many, and over any number of restarts: what a logout, a change of its
\* user or its time has ended is never granted to a later request, unless the
\* deletion met a Get or a login of that user half-way (session.go:60-124).
THEOREM EndedSessionsStayOut == Spec => []EndedStaysOut
<1>1. SessionInv => EndedStaysOut
  BY DEF SessionInv, CallsAreTrue, EndedStaysOut
<1> QED BY <1>1, SessionInvariant, PTL

-----------------------------------------------------------------------------
(* The converse: a session that was handed out and has neither expired nor   *)
(* ended is never turned away.                                               *)

\* Its row stays in the table: a purge takes what had expired before it began, and
\* whatever else takes a row ends its session.
LiveIsKept ==
    /\ \A t \in Live : db[t] # Nil
    /\ \A r \in Requests : req[r].late \subseteq expired
    /\ \A r \in Requests : req[r].at = "create" => req[r].user # Nil

LEMMA LiveInit == Init => LiveIsKept
BY IdleIsCall DEF Init, LiveIsKept, Live, Idle

\* A step that takes no row of a live session, issues none, and leaves the time with
\* which the requests began, or takes that of now.
LEMMA LiveStep ==
    ASSUME LiveIsKept, SessionType, SessionType',
           issued' \subseteq issued, expired \subseteq expired', ended \subseteq ended',
           \A t \in Tokens : db'[t] = db[t] \/ t \in expired' \cup ended',
           \A r \in Requests :
               /\ req'[r].late = req[r].late \/ req'[r].late \subseteq expired
               /\ req'[r].at = "create" => req'[r].user # Nil
    PROVE  LiveIsKept'
<1>1. ASSUME NEW t \in Live' PROVE db'[t] # Nil
  <2>1. t \in Live /\ t \in Tokens /\ t \notin expired' \cup ended'
    BY <1>1 DEF Live, SessionType
  <2> QED BY <2>1 DEF LiveIsKept
<1>2. ASSUME NEW r \in Requests PROVE req'[r].late \subseteq expired'
  BY DEF LiveIsKept
<1> QED BY <1>1, <1>2 DEF LiveIsKept

\* What a step of one request makes of the requests.
LEMMA RequestStep ==
    ASSUME SessionType, LiveIsKept, NEW r \in Requests, NEW call,
           req' = [req EXCEPT ![r] = call],
           call.late = req[r].late \/ call.late \subseteq expired,
           call.at = "create" => call.user # Nil
    PROVE  \A q \in Requests :
               /\ req'[q].late = req[q].late \/ req'[q].late \subseteq expired
               /\ req'[q].at = "create" => req'[q].user # Nil
<1>1. \A q \in Requests : req'[q] = IF q = r THEN call ELSE req[q]
  BY DEF SessionType
<1> QED BY <1>1 DEF LiveIsKept

LEMMA AnswerKeepsLive ==
    ASSUME SessionType, LiveIsKept, NEW r \in Requests, Answer(r)
    PROVE  \A q \in Requests :
               /\ req'[q].late = req[q].late \/ req'[q].late \subseteq expired
               /\ req'[q].at = "create" => req'[q].user # Nil
<1>1. Idle.late \subseteq expired /\ Idle.at # "create"
  BY DEF Idle
<1> QED BY <1>1, RequestStep DEF Answer

LEMMA GotoKeepsLive ==
    ASSUME SessionType, LiveIsKept, NEW r \in Requests, NEW at \in Steps \ {"create"}, Goto(r, at)
    PROVE  \A q \in Requests :
               /\ req'[q].late = req[q].late \/ req'[q].late \subseteq expired
               /\ req'[q].at = "create" => req'[q].user # Nil
<1> DEFINE call == [req[r] EXCEPT !.at = at]
<1>1. call.late = req[r].late /\ call.at = at
  BY DEF SessionType, Call
<1>2. req' = [req EXCEPT ![r] = call]
  BY GotoIs DEF Goto
<1> HIDE DEF call
<1> QED BY <1>1, <1>2, RequestStep

\* A step of one request, other than a purge, the end of a deletion and a login.
LEMMA LiveQuietStep ==
    ASSUME SessionInv, SessionInv', LiveIsKept, NEW r \in Requests,
           \/ \E t \in issued : Arrive(r, t)
           \/ \E u \in Users : Authenticate(r, u) \/ ChangeUser(r, u)
           \/ Lookup(r) \/ Load(r) \/ LoadFails(r) \/ Fill(r) \/ Handle(r) \/ Logout(r)
           \/ Uncache(r) \/ UnstoreFails(r) \/ CreateFails(r)
    PROVE  LiveIsKept'
<1> DEFINE Kept == \A q \in Requests :
                       /\ req'[q].late = req[q].late \/ req'[q].late \subseteq expired
                       /\ req'[q].at = "create" => req'[q].user # Nil
<1>0. SessionType /\ SessionType' /\ req[r] \in Call
  BY DEF SessionInv, SessionType
<1>1. UNCHANGED <<db, issued, expired, ended>>
  BY DEF Arrive, Authenticate, ChangeUser, Lookup, Load, LoadFails, Fill, Handle, Logout, Uncache,
         UnstoreFails, CreateFails, tables, observed
<1>2. ASSUME NEW t \in issued, Arrive(r, t) PROVE Kept
  <2>1. PICK over : req' = [req EXCEPT ![r] = [Idle EXCEPT !.at = "lookup", !.token = t,
                                                           !.late = expired, !.over = over]]
    BY <1>2 DEF Arrive
  <2> DEFINE call == [Idle EXCEPT !.at = "lookup", !.token = t, !.late = expired, !.over = over]
  <2>2. call.at = "lookup" /\ call.late = expired
    BY DEF Idle
  <2> HIDE DEF call
  <2> QED BY <1>0, <2>1, <2>2, RequestStep DEF call
<1>3. ASSUME NEW u \in Users, Authenticate(r, u) \/ ChangeUser(r, u) PROVE Kept
  <2>1. PICK at \in Steps : req' = [req EXCEPT ![r] = [Idle EXCEPT !.at = at, !.user = u]]
    BY <1>3 DEF Authenticate, ChangeUser, Steps
  <2> DEFINE call == [Idle EXCEPT !.at = at, !.user = u]
  <2>2. call.late = {} /\ call.user = u /\ u # Nil
    BY CacheAssumption DEF Idle
  <2>3. call.late \subseteq expired /\ (call.at = "create" => call.user # Nil)
    BY <2>2
  <2>4. req' = [req EXCEPT ![r] = call]
    BY <2>1
  <2> HIDE DEF call
  <2> QED BY <1>0, <2>3, <2>4, RequestStep
<1>4. ASSUME Lookup(r) \/ Logout(r) \/ Uncache(r) PROVE Kept
  <2>1. PICK at \in Steps \ {"create"} : Goto(r, at)
    BY <1>4 DEF Lookup, Logout, Uncache, Steps
  <2> QED BY <1>0, <2>1, GotoKeepsLive
<1>5. ASSUME LoadFails(r) \/ Handle(r) \/ UnstoreFails(r) \/ CreateFails(r) PROVE Kept
  <2>1. Answer(r)
    BY <1>5 DEF LoadFails, Handle, UnstoreFails, CreateFails
  <2> QED BY <1>0, <2>1, AnswerKeepsLive
<1>6. ASSUME Load(r) PROVE Kept
  <2>1. CASE Answer(r)
    BY <1>0, <2>1, AnswerKeepsLive
  <2>2. CASE ~ Answer(r)
    <3>1. PICK at \in {"fill", "uncache"} :
              req' = [req EXCEPT ![r].found = db[req[r].token], ![r].at = at]
      BY <1>6, <2>2 DEF Load
    <3> DEFINE call == [req[r] EXCEPT !.found = db[req[r].token], !.at = at]
    <3>2. call.late = req[r].late /\ call.at = at
      BY <1>0 DEF Call
    <3>3. req' = [req EXCEPT ![r] = call]
      BY <1>0, <3>1 DEF SessionType, Call
    <3> HIDE DEF call
    <3> QED BY <1>0, <3>2, <3>3, RequestStep
  <2> QED BY <2>1, <2>2
<1>7. ASSUME Fill(r) PROVE Kept
  <2> DEFINE call == [req[r] EXCEPT !.at = "granted", !.found = Nil]
  <2>1. call.late = req[r].late /\ call.at = "granted"
    BY <1>0 DEF Call
  <2>2. req' = [req EXCEPT ![r] = call]
    BY <1>0, <1>7 DEF Fill, SessionType, Call
  <2> HIDE DEF call
  <2> QED BY <1>0, <2>1, <2>2, RequestStep
<1>8. Kept
  BY <1>2, <1>3, <1>4, <1>5, <1>6, <1>7
<1> QED BY <1>0, <1>1, <1>8, LiveStep

LEMMA LivePurgeStep ==
    ASSUME SessionInv, SessionInv', LiveIsKept, NEW r \in Requests, Purge(r) PROVE LiveIsKept'
<1>0. SessionType /\ SessionType' /\ UNCHANGED <<issued, expired, ended>>
  BY DEF SessionInv, Purge, observed
<1>1. ASSUME NEW t \in Tokens PROVE db'[t] = db[t] \/ t \in expired' \cup ended'
  <2>1. db'[t] = IF t \in req[r].late THEN Nil ELSE db[t]
    BY DEF Purge, Overdue, Without
  <2> QED BY <1>0, <2>1 DEF LiveIsKept
<1>2. \A q \in Requests : /\ req'[q].late = req[q].late \/ req'[q].late \subseteq expired
                          /\ req'[q].at = "create" => req'[q].user # Nil
  BY <1>0, GotoKeepsLive DEF Purge, Steps
<1> QED BY <1>0, <1>1, <1>2, LiveStep

LEMMA LiveUnstoreStep ==
    ASSUME SessionInv, SessionInv', LiveIsKept, NEW r \in Requests, Unstore(r) PROVE LiveIsKept'
<1>0. /\ SessionType /\ SessionType' /\ UNCHANGED <<issued, expired>>
      /\ ended' = ended \cup Doomed(r, db)
  BY DEF SessionInv, Unstore
<1>1. ASSUME NEW t \in Tokens PROVE db'[t] = db[t] \/ t \in expired' \cup ended'
  <2>1. db'[t] = IF t \in Doomed(r, db) THEN Nil ELSE db[t]
    BY DEF Unstore, Without
  <2> QED BY <1>0, <2>1
<1>2. \A q \in Requests : /\ req'[q].late = req[q].late \/ req'[q].late \subseteq expired
                          /\ req'[q].at = "create" => req'[q].user # Nil
  BY <1>0, AnswerKeepsLive DEF Unstore
<1> QED BY <1>0, <1>1, <1>2, LiveStep

\* A login issues a session together with its row.
LEMMA LiveCreateStep ==
    ASSUME SessionInv, SessionInv', LiveIsKept, NEW r \in Requests, Create(r) PROVE LiveIsKept'
<1>0. SessionType /\ req[r].user # Nil /\ UNCHANGED <<expired, ended>>
  BY DEF SessionInv, LiveIsKept, Create
<1>1. PICK t \in Tokens \ issued : db' = [db EXCEPT ![t] = req[r].user] /\ issued' = issued \cup {t}
  BY DEF Create
<1>2. \A k \in Live' : db'[k] # Nil
  BY <1>0, <1>1 DEF Live, LiveIsKept, SessionType
<1>3. \A q \in Requests : /\ req'[q].late = req[q].late \/ req'[q].late \subseteq expired
                          /\ req'[q].at = "create" => req'[q].user # Nil
  BY <1>0, AnswerKeepsLive DEF Create
<1> QED BY <1>0, <1>2, <1>3 DEF LiveIsKept

LEMMA LiveWorldStep ==
    ASSUME SessionInv, SessionInv', LiveIsKept,
           Restart \/ (\E t \in Tokens : Expire(t)) \/ UNCHANGED vars
    PROVE  LiveIsKept'
<1>0. SessionType /\ SessionType' /\ UNCHANGED <<db, issued, ended>> /\ expired \subseteq expired'
  BY DEF SessionInv, Restart, Expire, vars, tables, observed
<1>1. \A q \in Requests : /\ req'[q].late = req[q].late \/ req'[q].late \subseteq expired
                          /\ req'[q].at = "create" => req'[q].user # Nil
  <2>1. CASE Restart
    <3>1. Idle.late = {} /\ Idle.at = "idle"
      BY DEF Idle
    <3> QED BY <2>1, <3>1 DEF Restart
  <2>2. CASE req' = req
    BY <2>2 DEF LiveIsKept
  <2> QED BY <2>1, <2>2 DEF Expire, vars
<1> QED BY <1>0, <1>1, LiveStep

LEMMA LiveInvariant == Spec => []LiveIsKept
<1>1. SessionInv /\ SessionInv' /\ LiveIsKept /\ [Next]_vars => LiveIsKept'
  <2> SUFFICES ASSUME SessionInv, SessionInv', LiveIsKept, [Next]_vars PROVE LiveIsKept'
    OBVIOUS
  <2>1. ASSUME NEW r \in Requests,
               \/ \E t \in issued : Arrive(r, t)
               \/ \E u \in Users : Authenticate(r, u) \/ ChangeUser(r, u)
               \/ Get(r) \/ Handle(r) \/ Logout(r) \/ Delete(r) \/ Create(r) \/ CreateFails(r)
        PROVE  LiveIsKept'
    BY <2>1, LiveQuietStep, LivePurgeStep, LiveUnstoreStep, LiveCreateStep DEF Get, Delete
  <2> QED BY <2>1, LiveWorldStep DEF Next
<1> QED BY <1>1, LiveInit, SessionInvariant, PTL DEF Spec

\* Get turns a live session away only when the database reports an error: whatever
\* other requests delete or purge in between, and although a restart empties the
\* map, its row is there when it is asked for (session.go:64-100, store.go:388-393).
THEOREM LiveSessionsAreServed == Spec => LiveIsServed
<1>1. SessionInv /\ LiveIsKept => LiveIsFound
  <2> SUFFICES ASSUME SessionInv, LiveIsKept, NEW r \in Requests, req[r].token \in Live
               PROVE  /\ Lookup(r) => req'[r].at \in {"granted", "purge"}
                      /\ Load(r) => req'[r].at = "fill" /\ req'[r].found = db[req[r].token]
    BY DEF LiveIsFound
  <2> DEFINE t == req[r].token
  <2>1. InTime(r) /\ db[t] # Nil /\ SessionType /\ req[r] \in Call
    BY DEF LiveIsKept, Live, InTime, SessionInv, SessionType
  <2>2. ASSUME Lookup(r) PROVE req'[r].at \in {"granted", "purge"}
    <3>1. PICK at \in {"granted", "purge"} : Goto(r, at)
      BY <2>1, <2>2 DEF Lookup
    <3>2. req'[r] = [req[r] EXCEPT !.at = at]
      BY <2>1, <3>1 DEF Goto, SessionType
    <3> QED BY <2>1, <3>2 DEF Call
  <2>3. ASSUME Load(r) PROVE req'[r].at = "fill" /\ req'[r].found = db[t]
    <3>1. req' = [req EXCEPT ![r].found = db[t], ![r].at = "fill"]
      BY <2>1, <2>3 DEF Load
    <3>2. req'[r] = [req[r] EXCEPT !.found = db[t], !.at = "fill"]
      BY <2>1, <3>1 DEF SessionType, Call
    <3> QED BY <2>1, <3>2 DEF Call
  <2> QED BY <2>2, <2>3
<1> QED BY <1>1, SessionInvariant, LiveInvariant, PTL DEF LiveIsServed
=============================================================================
