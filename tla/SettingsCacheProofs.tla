------------------------ MODULE SettingsCacheProofs ------------------------
(***************************************************************************)
(* Proofs about SettingsCache, for any number of processes and requests.    *)
(***************************************************************************)
EXTENDS SettingsCache, TLAPS

InFlight(r) == query[r].stage # "none"
HasRows(r) == query[r].stage \in {"read", "settled"}
Current(r) == query[r].generation = generation[request[r].server]

\* The request that started a query waits for it in the query's process.
Owners ==
  \A r \in Requests : InFlight(r) =>
    /\ request[r].pc = "waiting" /\ request[r].on = r
    /\ request[r].server \in Servers
    /\ query[r].generation <= generation[request[r].server]
    /\ HasRows(r) => query[r].rows \in Nat

\* A request waits for a query of its own process that is not over, and whose
\* rows are new enough for it.
Waiters ==
  \A u \in Requests : request[u].pc = "waiting" =>
    /\ request[u].on \in Requests
    /\ request[u].server \in Servers
    /\ request[u].since <= known[request[u].server]
    /\ \A r \in Requests : request[u].on = r =>
         /\ InFlight(r)
         /\ request[r].server = request[u].server
         /\ HasRows(r) => query[r].rows >= request[u].since

\* loading names the query of the present generation, if there is one.
LoadingCurrent ==
  /\ \A s \in Servers, r \in Requests : loading[s] = r =>
       InFlight(r) /\ Current(r) /\ request[r].server = s
  /\ \A r \in Requests : InFlight(r) /\ Current(r) => loading[request[r].server] = r

\* What is cached, or may still be, is as new as the last invalidation.
RowsCurrent ==
  /\ \A s \in Servers : known[s] <= db
  /\ \A s \in Servers : cache[s].fresh => cache[s].rows >= known[s]
  /\ \A r \in Requests : HasRows(r) /\ Current(r) =>
       query[r].rows >= known[request[r].server]

WrittenCommitted ==
  \A r \in Requests : request[r].pc = "written" =>
    request[r].server \in Servers /\ request[r].since <= db

\* The inductive invariant.
Inv ==
  /\ TypeOK /\ AnswersCurrent /\ SingleFlight
  /\ Owners /\ Waiters /\ LoadingCurrent /\ RowsCurrent /\ WrittenCommitted

\* Nothing is cached, asked or waited for at the start.
LEMMA InitInv == Init => Inv
<1> SUFFICES ASSUME Init PROVE Inv
  OBVIOUS
<1> USE CacheAssumption DEF Init, IdleRequest, NoQuery, Empty
<1>1. TypeOK
  BY DEF TypeOK, Request, Query
<1>2. AnswersCurrent /\ SingleFlight
  BY DEF AnswersCurrent, SingleFlight
<1>3. Owners /\ Waiters /\ WrittenCommitted
  BY DEF Owners, Waiters, WrittenCommitted, InFlight, HasRows
<1>4. LoadingCurrent /\ RowsCurrent
  BY DEF LoadingCurrent, RowsCurrent, InFlight, HasRows
<1> QED
  BY <1>1, <1>2, <1>3, <1>4 DEF Inv

\* A request with nothing in flight: no query is its, and nobody waits for one.
LEMMA Unawaited ==
  ASSUME Inv, NEW r \in Requests, request[r].pc # "waiting"
  PROVE  /\ query[r].stage = "none"
         /\ \A u \in Requests : request[u].pc = "waiting" => request[u].on # r
         /\ \A s \in Servers : loading[s] # r
<1>1. query[r].stage = "none"
  BY DEF Inv, Owners, InFlight
<1>2. \A u \in Requests : request[u].pc = "waiting" => request[u].on # r
  BY <1>1 DEF Inv, Waiters, InFlight
<1>3. \A s \in Servers : loading[s] # r
  BY <1>1 DEF Inv, LoadingCurrent, InFlight
<1> QED
  BY <1>1, <1>2, <1>3

\* Changing one request that has nothing in flight, to a state in which it does
\* not own a query, leaves the other requests and all queries as they were.
LEMMA RequestInv ==
  ASSUME Inv, NEW r \in Requests, request[r].pc # "waiting",
         NEW v \in Request,
         request' = [request EXCEPT ![r] = v],
         v.pc = "answered" => v.rows \in Nat /\ v.rows >= v.since,
         v.pc = "waiting" =>
           /\ v.on \in Requests /\ v.on # r /\ v.server \in Servers
           /\ InFlight(v.on)
           /\ request[v.on].server = v.server
           /\ v.since <= known[v.server]
           /\ HasRows(v.on) => query[v.on].rows >= v.since,
         v.pc = "written" => v.server \in Servers /\ v.since <= db',
         db' \in Nat, db' >= db,
         UNCHANGED <<cache, loading, generation, known, query>>
  PROVE  Inv'
<1> USE DEF Inv
<1>1. /\ request'[r] = v
      /\ \A u \in Requests : u # r => request'[u] = request[u]
  BY DEF TypeOK
<1>2. /\ query[r].stage = "none"
      /\ \A u \in Requests : request[u].pc = "waiting" => request[u].on # r
      /\ \A s \in Servers : loading[s] # r
  BY Unawaited
<1>3. TypeOK'
  BY <1>1 DEF TypeOK
<1>4. AnswersCurrent' /\ SingleFlight'
  BY <1>1, <1>2 DEF AnswersCurrent, SingleFlight
<1>5. Owners'
  BY <1>1, <1>2 DEF Owners, InFlight, HasRows
<1>6. Waiters'
  BY <1>1, <1>2 DEF Waiters, InFlight, HasRows
<1>7. LoadingCurrent'
  <2>1. \A u \in Requests : InFlight(u)' => u # r /\ InFlight(u) /\ request'[u] = request[u]
    BY <1>1, <1>2 DEF InFlight
  <2>2. \A s \in Servers : loading[s] # NoRequest =>
          loading[s] \in Requests /\ request'[loading[s]] = request[loading[s]]
    BY <1>1, <1>2 DEF TypeOK
  <2> QED
    BY <2>1, <2>2 DEF LoadingCurrent, InFlight, Current
<1>8. RowsCurrent'
  <2>1. \A s \in Servers : known[s] <= db'
    BY DEF RowsCurrent, TypeOK
  <2>2. \A u \in Requests : HasRows(u)' => u # r /\ HasRows(u) /\ request'[u] = request[u]
    BY <1>1, <1>2 DEF HasRows
  <2> QED
    BY <2>1, <2>2 DEF RowsCurrent, HasRows, Current
<1>9. WrittenCommitted'
  <2>1. ASSUME NEW u \in Requests, request'[u].pc = "written"
        PROVE  request'[u].server \in Servers /\ request'[u].since <= db'
    <3>1. CASE u = r
      BY <1>1, <2>1, <3>1
    <3>2. CASE u # r
      <4>1. request'[u] = request[u] /\ request[u].since \in Nat
        BY <1>1, <3>2 DEF TypeOK, Request
      <4>2. request[u].server \in Servers /\ request[u].since <= db
        BY <2>1, <4>1 DEF WrittenCommitted
      <4> QED
        BY <4>1, <4>2 DEF TypeOK
    <3> QED
      BY <3>1, <3>2
  <2> QED
    BY <2>1 DEF WrittenCommitted
<1> QED
  BY <1>3, <1>4, <1>5, <1>6, <1>7, <1>8, <1>9

-----------------------------------------------------------------------------
(* One lemma per action                                                    *)

\* A query starts in a generation g that no query in flight has: because there
\* is none in this generation, or because the generation is new.
LEMMA StartQueryInv ==
  ASSUME Inv, NEW r \in Requests, NEW s \in Servers, NEW since \in Nat, NEW g \in Nat,
         request[r].pc # "waiting",
         StartQuery(r, s, g, since),
         g >= generation[s],
         \A u \in Requests : InFlight(u) /\ request[u].server = s =>
           query[u].generation # g,
         generation' = [generation EXCEPT ![s] = g],
         known' \in [Servers -> Nat],
         known'[s] >= known[s], known'[s] <= db, since <= known'[s],
         \A x \in Servers : x # s => known'[x] = known[x],
         cache' \in [Servers -> [rows : Nat \cup {NoRows}, fresh : BOOLEAN]],
         ~cache'[s].fresh,
         \A x \in Servers : x # s => cache'[x] = cache[x],
         UNCHANGED db
  PROVE  Inv'
<1> USE DEF Inv
<1> DEFINE v == [pc |-> "waiting", server |-> s, since |-> since, on |-> r, rows |-> NoRows]
           q == [stage |-> "sent", generation |-> g, rows |-> NoRows]
<1>1. /\ request' = [request EXCEPT ![r] = v] /\ query' = [query EXCEPT ![r] = q]
      /\ loading' = [loading EXCEPT ![s] = r]
  BY DEF StartQuery
<1>2. v \in Request /\ q \in Query
  BY DEF Request, Query
<1>3. TypeOK'
  BY <1>1, <1>2 DEF TypeOK
<1>4. /\ request'[r] = v /\ query'[r] = q /\ loading'[s] = r /\ generation'[s] = g
      /\ \A u \in Requests : u # r => request'[u] = request[u] /\ query'[u] = query[u]
      /\ \A x \in Servers : x # s => loading'[x] = loading[x] /\ generation'[x] = generation[x]
  BY <1>1 DEF TypeOK
<1>5. /\ query[r].stage = "none"
      /\ \A u \in Requests : request[u].pc = "waiting" => request[u].on # r
      /\ \A x \in Servers : loading[x] # r
  BY Unawaited
<1>6. AnswersCurrent' /\ WrittenCommitted'
  BY <1>4 DEF AnswersCurrent, WrittenCommitted
<1>7. SingleFlight'
  BY <1>4 DEF SingleFlight, InFlight
<1>8. \A u \in Requests : u # r =>
        /\ InFlight(u)' <=> InFlight(u)
        /\ HasRows(u)' <=> HasRows(u)
  BY <1>4 DEF InFlight, HasRows
<1>9. InFlight(r)' /\ ~HasRows(r)'
  BY <1>4 DEF InFlight, HasRows
<1>10. \A u \in Requests : u # r /\ InFlight(u) /\ request[u].server = s => ~Current(u)'
  BY <1>4 DEF Current
<1>11. \A u \in Requests : u # r /\ InFlight(u) /\ request[u].server # s =>
         request[u].server \in Servers /\ (Current(u)' <=> Current(u))
  BY <1>4 DEF Current, Owners
<1>12. \A u \in Requests : u # r /\ request[u].pc = "waiting" =>
         /\ request[u].on \in Requests \ {r} /\ request[u].server \in Servers
         /\ request[u].since \in Nat
         /\ known'[request[u].server] >= request[u].since
  <2> SUFFICES ASSUME NEW u \in Requests, u # r, request[u].pc = "waiting"
               PROVE  /\ request[u].on \in Requests \ {r} /\ request[u].server \in Servers
                      /\ request[u].since \in Nat
                      /\ known'[request[u].server] >= request[u].since
    OBVIOUS
  <2> DEFINE x == request[u].server
  <2>1. /\ request[u].on \in Requests \ {r} /\ x \in Servers
        /\ request[u].since <= known[x]
    BY <1>5 DEF Waiters
  <2>2. request[u].since \in Nat /\ known[x] \in Nat /\ known'[x] \in Nat
    BY <2>1 DEF TypeOK, Request
  <2>3. known'[x] >= known[x]
    BY <2>1, <2>2
  <2> QED
    BY <2>1, <2>2, <2>3
<1>13. Owners'
  <2>1. ASSUME NEW u \in Requests, InFlight(u), u # r
        PROVE  query[u].generation <= generation'[request[u].server]
    <3>1. /\ query[u].generation \in Nat /\ request[u].server \in Servers
          /\ query[u].generation <= generation[request[u].server]
          /\ generation[s] \in Nat
      BY <2>1 DEF Owners, TypeOK, Query
    <3>2. CASE request[u].server = s
      BY <1>4, <3>1, <3>2
    <3>3. CASE request[u].server # s
      BY <1>4, <3>1, <3>3
    <3> QED
      BY <3>2, <3>3
  <2> QED
    BY <1>4, <1>8, <1>9, <2>1 DEF Owners
<1>14. Waiters'
  <2>1. ASSUME NEW u \in Requests, u # r, request[u].pc = "waiting",
               NEW w \in Requests, request[u].on = w
        PROVE  /\ InFlight(w)'
               /\ request'[w].server = request[u].server
               /\ HasRows(w)' => query'[w].rows >= request[u].since
    <3>1. w # r /\ InFlight(w) /\ request[w].server = request[u].server
      BY <1>12, <2>1 DEF Waiters
    <3>2. HasRows(w) => query[w].rows >= request[u].since
      BY <2>1 DEF Waiters
    <3> QED
      BY <1>4, <1>8, <3>1, <3>2
  <2>2. request'[r].on = r /\ request'[r].server = s /\ request'[r].since = since
    BY <1>4
  <2>3. ASSUME NEW u \in Requests, request'[u].pc = "waiting"
        PROVE  /\ request'[u].on \in Requests /\ request'[u].server \in Servers
               /\ request'[u].since <= known'[request'[u].server]
    <3>1. CASE u = r
      BY <2>2, <3>1
    <3>2. CASE u # r
      <4>1. request'[u] = request[u] /\ known' \in [Servers -> Nat]
        BY <1>4, <3>2
      <4> QED
        BY <1>12, <2>3, <3>2, <4>1
    <3> QED
      BY <3>1, <3>2
  <2>4. ASSUME NEW u \in Requests, request'[u].pc = "waiting",
               NEW w \in Requests, request'[u].on = w
        PROVE  /\ InFlight(w)'
               /\ request'[w].server = request'[u].server
               /\ HasRows(w)' => query'[w].rows >= request'[u].since
    <3>1. CASE u = r
      BY <1>9, <2>2, <2>4, <3>1
    <3>2. CASE u # r
      BY <1>4, <2>1, <2>4, <3>2
    <3> QED
      BY <3>1, <3>2
  <2> QED
    BY <2>3, <2>4 DEF Waiters
<1>15. LoadingCurrent'
  <2>1. Current(r)' /\ request'[r].server = s
    BY <1>4 DEF Current
  <2>2. ASSUME NEW x \in Servers, NEW w \in Requests, loading'[x] = w
        PROVE  InFlight(w)' /\ Current(w)' /\ request'[w].server = x
    <3>1. CASE x = s
      BY <1>4, <1>9, <2>1, <2>2, <3>1
    <3>2. CASE x # s
      <4>1. w # r /\ InFlight(w) /\ Current(w) /\ request[w].server = x
        BY <1>4, <1>5, <2>2, <3>2 DEF LoadingCurrent
      <4> QED
        BY <1>4, <1>8, <1>11, <3>2, <4>1
    <3> QED
      BY <3>1, <3>2
  <2>3. ASSUME NEW u \in Requests, InFlight(u)', Current(u)'
        PROVE  loading'[request'[u].server] = u
    <3>1. CASE u = r
      BY <1>4, <2>1, <3>1
    <3>2. CASE u # r
      <4>1. InFlight(u) /\ request[u].server # s
        BY <1>8, <1>10, <2>3, <3>2
      <4>2. request[u].server \in Servers /\ Current(u)
        BY <1>11, <2>3, <3>2, <4>1
      <4> QED
        BY <1>4, <3>2, <4>1, <4>2 DEF LoadingCurrent
    <3> QED
      BY <3>1, <3>2
  <2> QED
    BY <2>2, <2>3 DEF LoadingCurrent
<1>16. RowsCurrent'
  <2>1. \A x \in Servers : known'[x] <= db /\ (cache'[x].fresh => cache'[x].rows >= known'[x])
    BY DEF RowsCurrent
  <2>2. ASSUME NEW u \in Requests, HasRows(u)', Current(u)'
        PROVE  query'[u].rows >= known'[request'[u].server]
    <3>1. u # r /\ HasRows(u) /\ InFlight(u)
      BY <1>8, <1>9, <2>2 DEF HasRows, InFlight
    <3>2. request[u].server # s /\ request[u].server \in Servers /\ Current(u)
      BY <1>10, <1>11, <2>2, <3>1
    <3> QED
      BY <1>4, <3>1, <3>2 DEF RowsCurrent
  <2> QED
    BY <2>1, <2>2 DEF RowsCurrent, HasRows, Current
<1> QED
  BY <1>3, <1>6, <1>7, <1>13, <1>14, <1>15, <1>16

\* A read answers from the cache, joins the query in flight or starts one.
LEMMA GetInv ==
  ASSUME Inv, NEW r \in Requests, NEW s \in Servers, Get(r, s)
  PROVE  Inv'
<1> USE DEF Inv
<1>1. request[r].pc = "idle" /\ UNCHANGED <<db, cache, generation, known>>
  BY DEF Get
<1>2. /\ known[s] \in Nat /\ generation[s] \in Nat /\ db \in Nat
      /\ cache[s].fresh => cache[s].rows \in Nat /\ cache[s].rows >= known[s]
  BY DEF TypeOK, RowsCurrent
<1>3. CASE Hit(r, s)
  <2> DEFINE v == [pc |-> "answered", server |-> s, since |-> known[s],
                   on |-> NoRequest, rows |-> cache[s].rows]
  <2>1. /\ request' = [request EXCEPT ![r] = v] /\ UNCHANGED <<loading, query>>
        /\ cache[s].fresh
    BY <1>3 DEF Hit
  <2>2. /\ v \in Request /\ v.pc = "answered"
        /\ v.rows \in Nat /\ v.rows >= v.since
    BY <1>2, <2>1 DEF Request
  <2> HIDE DEF v
  <2>3. request[r].pc # "waiting" /\ db' \in Nat /\ db' >= db
    BY <1>1, <1>2
  <2> QED
    BY <1>1, <2>1, <2>2, <2>3, RequestInv
<1>4. CASE Join(r, s)
  <2> DEFINE l == loading[s]
             v == [pc |-> "waiting", server |-> s, since |-> known[s],
                   on |-> l, rows |-> NoRows]
  <2>1. /\ request' = [request EXCEPT ![r] = v] /\ UNCHANGED <<loading, query>>
        /\ l # NoRequest
    BY <1>4 DEF Join
  <2>2. l \in Requests
    BY <2>1 DEF TypeOK
  <2>3. InFlight(l) /\ Current(l) /\ request[l].server = s /\ l # r
    BY <1>1, <2>2, Unawaited DEF LoadingCurrent
  <2>4. HasRows(l) => query[l].rows >= known[s]
    BY <2>2, <2>3 DEF RowsCurrent
  <2>5. /\ v \in Request /\ v.pc = "waiting" /\ v.on = l /\ v.server = s
        /\ v.since = known[s]
    BY <1>2, <2>2 DEF Request
  <2> HIDE DEF l, v
  <2>6. request[r].pc # "waiting" /\ db' \in Nat /\ db' >= db /\ v.since <= known[s]
    BY <1>1, <1>2, <2>5
  <2> QED
    BY <1>1, <2>1, <2>2, <2>3, <2>4, <2>5, <2>6, RequestInv
<1>5. CASE Miss(r, s)
  <2>1. /\ StartQuery(r, s, generation[s], known[s])
        /\ ~cache[s].fresh /\ loading[s] = NoRequest
    BY <1>5 DEF Miss
  <2>2. \A u \in Requests : InFlight(u) /\ request[u].server = s =>
          query[u].generation # generation[s]
    BY <2>1, CacheAssumption DEF LoadingCurrent, Current
  <2>3. /\ generation' = [generation EXCEPT ![s] = generation[s]]
        /\ known' \in [Servers -> Nat]
        /\ cache' \in [Servers -> [rows : Nat \cup {NoRows}, fresh : BOOLEAN]]
    BY <1>1 DEF TypeOK
  <2>4. /\ known'[s] >= known[s] /\ known'[s] <= db /\ known[s] <= known'[s]
        /\ generation[s] >= generation[s]
    BY <1>1, <1>2 DEF RowsCurrent
  <2>5. /\ \A x \in Servers : known'[x] = known[x] /\ cache'[x] = cache[x]
        /\ ~cache'[s].fresh /\ UNCHANGED db /\ request[r].pc # "waiting"
    BY <1>1, <2>1
  <2> QED
    BY <1>2, <2>1, <2>2, <2>3, <2>4, <2>5, StartQueryInv
<1> QED
  BY <1>3, <1>4, <1>5 DEF Get

\* An update commits; nobody knows of it yet.
LEMMA UpsertInv ==
  ASSUME Inv, NEW r \in Requests, NEW s \in Servers, Upsert(r, s)
  PROVE  Inv'
<1> DEFINE v == [pc |-> "written", server |-> s, since |-> db + 1,
                 on |-> NoRequest, rows |-> NoRows]
<1>1. /\ request[r].pc = "idle" /\ db' = db + 1
      /\ request' = [request EXCEPT ![r] = v]
      /\ UNCHANGED <<cache, loading, generation, known, query>>
  BY DEF Upsert
<1>2. db \in Nat
  BY DEF Inv, TypeOK
<1>3. v \in Request /\ v.pc = "written" /\ v.server = s /\ v.since = db'
  BY <1>1, <1>2 DEF Request
<1> HIDE DEF v
<1>4. request[r].pc # "waiting" /\ db' \in Nat /\ db' >= db /\ v.since <= db'
  BY <1>1, <1>2, <1>3
<1> QED
  BY <1>1, <1>3, <1>4, RequestInv

\* A request ends.
LEMMA ReturnInv ==
  ASSUME Inv, NEW r \in Requests, Return(r) \/ UpsertLost(r)
  PROVE  Inv'
<1>1. /\ request[r].pc # "waiting" /\ db' = db
      /\ request' = [request EXCEPT ![r] = IdleRequest]
      /\ UNCHANGED <<cache, loading, generation, known, query>>
  BY DEF Return, UpsertLost
<1>2. db \in Nat
  BY DEF Inv, TypeOK
<1>3. IdleRequest \in Request /\ IdleRequest.pc = "idle"
  BY DEF Request, IdleRequest
<1>4. db' \in Nat /\ db' >= db
  BY <1>1, <1>2
<1> QED
  BY <1>1, <1>3, <1>4, RequestInv

\* An update empties the cache and asks in a generation of its own.
LEMMA InvalidateInv ==
  ASSUME Inv, NEW r \in Requests, Invalidate(r)
  PROVE  Inv'
<1> USE DEF Inv
<1> DEFINE s == request[r].server
           seen == Newer(known[s], request[r].since)
           g == generation[s] + 1
<1>1. /\ request[r].pc = "written"
      /\ generation' = [generation EXCEPT ![s] = g]
      /\ cache' = [cache EXCEPT ![s] = Empty]
      /\ known' = [known EXCEPT ![s] = seen]
      /\ StartQuery(r, s, g, seen) /\ UNCHANGED db
  BY DEF Invalidate
<1>2. s \in Servers /\ request[r].since <= db /\ known[s] <= db
  BY <1>1 DEF WrittenCommitted, RowsCurrent
<1>3. /\ known[s] \in Nat /\ request[r].since \in Nat /\ generation[s] \in Nat
      /\ db \in Nat
  BY <1>2 DEF TypeOK, Request
<1>4. seen \in Nat /\ seen >= known[s] /\ seen <= db
  BY <1>2, <1>3 DEF Newer
<1>5. \A u \in Requests : InFlight(u) /\ request[u].server = s => query[u].generation # g
  <2> SUFFICES ASSUME NEW u \in Requests, InFlight(u), request[u].server = s
               PROVE  query[u].generation # g
    OBVIOUS
  <2>1. query[u].generation <= generation[s] /\ query[u].generation \in Nat
    BY DEF Owners, TypeOK, Query
  <2> QED
    BY <1>3, <2>1
<1>6. /\ cache' \in [Servers -> [rows : Nat \cup {NoRows}, fresh : BOOLEAN]]
      /\ ~cache'[s].fresh /\ \A x \in Servers : x # s => cache'[x] = cache[x]
  BY <1>1, <1>2 DEF TypeOK, Empty
<1> HIDE DEF seen
<1>7. /\ known' \in [Servers -> Nat] /\ known'[s] = seen
      /\ \A x \in Servers : x # s => known'[x] = known[x]
  BY <1>1, <1>2, <1>4 DEF TypeOK
<1>8. g \in Nat /\ g >= generation[s]
  BY <1>3
<1>9. PICK x \in Servers, n \in Nat, k \in Nat : x = s /\ n = g /\ k = seen
  BY <1>2, <1>4, <1>8
<1> HIDE DEF s, g
<1>10. /\ StartQuery(r, x, n, k) /\ UNCHANGED db
       /\ generation' = [generation EXCEPT ![x] = n] /\ n >= generation[x]
       /\ \A u \in Requests : InFlight(u) /\ request[u].server = x =>
            query[u].generation # n
  BY <1>1, <1>5, <1>8, <1>9
<1>11. /\ known' \in [Servers -> Nat]
       /\ known'[x] >= known[x] /\ known'[x] <= db /\ k <= known'[x]
       /\ \A y \in Servers : y # x => known'[y] = known[y]
  BY <1>4, <1>7, <1>9
<1>12. /\ cache' \in [Servers -> [rows : Nat \cup {NoRows}, fresh : BOOLEAN]]
       /\ ~cache'[x].fresh /\ \A y \in Servers : y # x => cache'[y] = cache[y]
  BY <1>6, <1>9
<1>13. request[r].pc # "waiting"
  BY <1>1
<1> HIDE DEF Inv
<1> QED
  BY <1>10, <1>11, <1>12, <1>13, StartQueryInv

\* A query that goes on, with rows new enough for whoever waits for it, and a
\* cache as new as the last invalidation.
LEMMA QueryInv ==
  ASSUME Inv, NEW r \in Requests, InFlight(r), NEW q \in Query,
         query' = [query EXCEPT ![r] = q],
         q.stage # "none", q.generation = query[r].generation,
         q.stage \in {"read", "settled"} =>
           /\ q.rows \in Nat
           /\ Current(r) => q.rows >= known[request[r].server]
           /\ \A u \in Requests : request[u].pc = "waiting" /\ request[u].on = r =>
                q.rows >= request[u].since,
         cache' \in [Servers -> [rows : Nat \cup {NoRows}, fresh : BOOLEAN]],
         \A s \in Servers : cache'[s].fresh =>
           cache'[s].rows \in Nat /\ cache'[s].rows >= known[s],
         UNCHANGED <<db, loading, generation, known, request>>
  PROVE  Inv'
<1> USE DEF Inv
<1>1. query'[r] = q /\ \A u \in Requests : u # r => query'[u] = query[u]
  BY DEF TypeOK
<1>2. TypeOK'
  BY DEF TypeOK
<1>3. /\ \A u \in Requests : InFlight(u)' <=> InFlight(u)
      /\ \A u \in Requests : query'[u].generation = query[u].generation
      /\ \A u \in Requests : Current(u)' <=> Current(u)
  BY <1>1 DEF InFlight, Current
<1>4. \A u \in Requests : u # r => (HasRows(u)' <=> HasRows(u))
  BY <1>1 DEF HasRows
<1>5. HasRows(r)' <=> q.stage \in {"read", "settled"}
  BY <1>1 DEF HasRows
<1>6. AnswersCurrent' /\ WrittenCommitted'
  BY DEF AnswersCurrent, WrittenCommitted
<1>7. SingleFlight'
  BY <1>3 DEF SingleFlight, InFlight
<1>8. Owners'
  BY <1>1, <1>3, <1>4, <1>5 DEF Owners
<1>9. Waiters'
  <2>1. ASSUME NEW u \in Requests, request[u].pc = "waiting",
               NEW w \in Requests, request[u].on = w
        PROVE  /\ InFlight(w)' /\ request[w].server = request[u].server
               /\ HasRows(w)' => query'[w].rows >= request[u].since
    <3>1. CASE w = r
      BY <1>1, <1>3, <1>5, <2>1, <3>1 DEF Waiters
    <3>2. CASE w # r
      BY <1>1, <1>3, <1>4, <2>1, <3>2 DEF Waiters
    <3> QED
      BY <3>1, <3>2
  <2> QED
    BY <2>1 DEF Waiters
<1>10. LoadingCurrent'
  BY <1>3 DEF LoadingCurrent
<1>11. RowsCurrent'
  <2>1. ASSUME NEW u \in Requests, HasRows(u)', Current(u)
        PROVE  query'[u].rows >= known[request[u].server]
    <3>1. CASE u = r
      BY <1>1, <1>5, <2>1, <3>1
    <3>2. CASE u # r
      BY <1>1, <1>4, <2>1, <3>2 DEF RowsCurrent
    <3> QED
      BY <3>1, <3>2
  <2> QED
    BY <1>3, <2>1 DEF RowsCurrent
<1> QED
  BY <1>2, <1>6, <1>7, <1>8, <1>9, <1>10, <1>11

\* The cache a server has satisfies what QueryInv asks of it.
LEMMA CacheKept ==
  ASSUME Inv
  PROVE  /\ cache \in [Servers -> [rows : Nat \cup {NoRows}, fresh : BOOLEAN]]
         /\ \A s \in Servers : cache[s].fresh =>
              cache[s].rows \in Nat /\ cache[s].rows >= known[s]
  BY DEF Inv, TypeOK, RowsCurrent

\* The table is read after the query's process was last invalidated.
LEMMA ReadInv ==
  ASSUME Inv, NEW r \in Requests, Read(r) \/ Reject(r)
  PROVE  Inv'
<1>1. /\ query[r].stage = "sent"
      /\ UNCHANGED <<db, cache, loading, generation, known, request>>
  BY DEF Read, Reject
<1>2. /\ InFlight(r) /\ query[r] \in Query /\ request[r].server \in Servers
      /\ db \in Nat
  BY <1>1 DEF Inv, InFlight, Owners, TypeOK
<1>3. known[request[r].server] <= db
  BY <1>2 DEF Inv, RowsCurrent
<1>4. ASSUME NEW u \in Requests, request[u].pc = "waiting", request[u].on = r
      PROVE  db >= request[u].since
  <2>1. /\ request[u].server \in Servers
        /\ request[u].since <= known[request[u].server]
    BY <1>4 DEF Inv, Waiters
  <2>2. /\ known[request[u].server] <= db /\ known[request[u].server] \in Nat
        /\ request[u].since \in Nat
    BY <2>1 DEF Inv, RowsCurrent, TypeOK, Request
  <2> QED
    BY <1>2, <2>1, <2>2
<1>5. CASE Read(r)
  <2> DEFINE q == [query[r] EXCEPT !.stage = "read", !.rows = db]
  <2>1. query' = [query EXCEPT ![r] = q]
    BY <1>2, <1>5 DEF Read, Inv, TypeOK, Query
  <2>2. /\ q \in Query /\ q.stage = "read" /\ q.rows = db
        /\ q.generation = query[r].generation
    BY <1>2 DEF Query
  <2> HIDE DEF q
  <2>3. db >= known[request[r].server]
    BY <1>2, <1>3 DEF Inv, TypeOK
  <2> QED
    BY <1>1, <1>2, <1>4, <2>1, <2>2, <2>3, CacheKept, QueryInv
<1>6. CASE Reject(r)
  <2> DEFINE q == [query[r] EXCEPT !.stage = "rejected"]
  <2>1. query' = [query EXCEPT ![r] = q]
    BY <1>2, <1>6 DEF Reject, Inv, TypeOK, Query
  <2>2. q \in Query /\ q.stage = "rejected" /\ q.generation = query[r].generation
    BY <1>2 DEF Query
  <2> HIDE DEF q
  <2> QED
    BY <1>1, <1>2, <2>1, <2>2, CacheKept, QueryInv
<1> QED
  BY <1>5, <1>6

\* Rows are cached only in the generation they were asked in.
LEMMA ThenInv ==
  ASSUME Inv, NEW r \in Requests, Then(r)
  PROVE  Inv'
<1> DEFINE s == request[r].server
           rows == query[r].rows
           q == [query[r] EXCEPT !.stage = "settled"]
<1>1. /\ query[r].stage = "read"
      /\ cache' = IF query[r].generation = generation[s]
                  THEN [cache EXCEPT ![s] = [rows |-> rows, fresh |-> TRUE]] ELSE cache
      /\ UNCHANGED <<db, loading, generation, known, request>>
  BY DEF Then
<1>2. InFlight(r) /\ HasRows(r) /\ query[r] \in Query
  BY <1>1 DEF Inv, InFlight, HasRows, TypeOK
<1>3. s \in Servers /\ rows \in Nat /\ (Current(r) => rows >= known[s])
  BY <1>2 DEF Inv, Owners, RowsCurrent
<1>4. query' = [query EXCEPT ![r] = q]
  BY <1>2 DEF Then, Inv, TypeOK, Query
<1>5. /\ q \in Query /\ q.stage = "settled" /\ q.rows = rows
      /\ q.generation = query[r].generation
  BY <1>2 DEF Query
<1> HIDE DEF q
<1>6. \A u \in Requests : request[u].pc = "waiting" /\ request[u].on = r =>
        rows >= request[u].since
  BY <1>2 DEF Inv, Waiters
<1>7. /\ cache' \in [Servers -> [rows : Nat \cup {NoRows}, fresh : BOOLEAN]]
      /\ \A x \in Servers : cache'[x].fresh =>
           cache'[x].rows \in Nat /\ cache'[x].rows >= known[x]
  <2>1. CASE Current(r)
    <3>1. cache' = [cache EXCEPT ![s] = [rows |-> rows, fresh |-> TRUE]]
      BY <1>1, <2>1 DEF Current
    <3> HIDE DEF s, rows
    <3>2. cache'[s] = [rows |-> rows, fresh |-> TRUE]
      BY <1>3, <3>1, CacheKept
    <3>3. \A x \in Servers : x # s => cache'[x] = cache[x]
      BY <3>1, CacheKept
    <3>4. cache' \in [Servers -> [rows : Nat \cup {NoRows}, fresh : BOOLEAN]]
      BY <1>3, <3>1, CacheKept
    <3> QED
      BY <1>3, <2>1, <3>2, <3>3, <3>4, CacheKept
  <2>2. CASE ~Current(r)
    BY <1>1, <2>2, CacheKept DEF Current
  <2> QED
    BY <2>1, <2>2
<1> QED
  BY <1>1, <1>2, <1>3, <1>4, <1>5, <1>6, <1>7, QueryInv

\* A cache that expires is no longer fresh.
LEMMA ExpireInv ==
  ASSUME Inv, NEW s \in Servers, Expire(s)
  PROVE  Inv'
<1> USE DEF Inv
<1>1. /\ cache' = [cache EXCEPT ![s].fresh = FALSE]
      /\ UNCHANGED <<db, loading, generation, known, request, query>>
  BY DEF Expire
<1>2. /\ cache' \in [Servers -> [rows : Nat \cup {NoRows}, fresh : BOOLEAN]]
      /\ ~cache'[s].fresh /\ \A x \in Servers : x # s => cache'[x] = cache[x]
  BY <1>1 DEF TypeOK
<1>3. TypeOK'
  BY <1>1, <1>2 DEF TypeOK
<1>4. RowsCurrent'
  BY <1>1, <1>2 DEF RowsCurrent, HasRows, Current
<1>5. AnswersCurrent' /\ SingleFlight' /\ WrittenCommitted'
  BY <1>1 DEF AnswersCurrent, SingleFlight, WrittenCommitted
<1>6. Owners' /\ Waiters' /\ LoadingCurrent'
  BY <1>1 DEF Owners, Waiters, LoadingCurrent, InFlight, HasRows, Current
<1> QED
  BY <1>3, <1>4, <1>5, <1>6

\* A query that is over leaves nobody waiting for it and is in no loading.
LEMMA FinallyInv ==
  ASSUME Inv, NEW r \in Requests, Finally(r)
  PROVE  Inv'
<1> USE DEF Inv
<1> DEFINE s == request[r].server
           Served(u) == request[u].pc = "waiting" /\ request[u].on = r
<1>1. /\ query[r].stage \in {"settled", "rejected"}
      /\ loading' = IF loading[s] = r THEN [loading EXCEPT ![s] = NoRequest] ELSE loading
      /\ query' = [query EXCEPT ![r] = NoQuery]
      /\ UNCHANGED <<db, cache, generation, known>>
  BY DEF Finally
<1>2. InFlight(r) /\ s \in Servers /\ Served(r)
  BY <1>1 DEF InFlight, Owners
<1>3. query'[r].stage = "none" /\ \A u \in Requests : u # r => query'[u] = query[u]
  BY <1>1 DEF TypeOK, NoQuery
<1>4. \A u \in Requests : ~Served(u) => request'[u] = request[u]
  BY DEF Finally, Deliver
<1>5. ASSUME NEW u \in Requests, Served(u)
      PROVE  /\ request'[u] \in Request
             /\ request'[u].pc \in {"answered", "idle"}
             /\ request'[u].pc = "answered" =>
                  request'[u].rows \in Nat /\ request'[u].rows >= request'[u].since
  <2>1. request'[u] = IF query[r].stage = "settled"
                      THEN [request[u] EXCEPT !.pc = "answered", !.on = NoRequest,
                                              !.rows = query[r].rows]
                      ELSE IdleRequest
    BY <1>5 DEF Finally, Deliver
  <2>2. CASE query[r].stage = "settled"
    <3>1. HasRows(r)
      BY <2>2 DEF HasRows
    <3>2. query[r].rows \in Nat /\ query[r].rows >= request[u].since
      BY <1>2, <1>5, <3>1 DEF Owners, Waiters
    <3>3. request[u] \in Request
      BY DEF TypeOK
    <3>4. /\ request'[u] \in Request /\ request'[u].pc = "answered"
          /\ request'[u].rows = query[r].rows /\ request'[u].since = request[u].since
      BY <2>1, <2>2, <3>2, <3>3 DEF Request
    <3> QED
      BY <3>2, <3>4
  <2>3. CASE query[r].stage # "settled"
    BY <2>1, <2>3 DEF IdleRequest, Request
  <2> QED
    BY <2>2, <2>3
<1>6. request' \in [Requests -> Request]
  <2>1. \A u \in Requests : request'[u] \in Request
    BY <1>4, <1>5 DEF TypeOK
  <2>2. request' = [u \in Requests |-> request'[u]]
    BY DEF Finally, Deliver
  <2> QED
    BY <2>1, <2>2
<1>7. TypeOK'
  <2>1. loading' \in [Servers -> Requests \cup {NoRequest}]
    BY <1>1 DEF TypeOK
  <2>2. query' \in [Requests -> Query]
    BY <1>1 DEF TypeOK, NoQuery, Query
  <2>3. \A u \in Requests : request'[u].pc = "answered" => request'[u].rows \in Nat
    BY <1>4, <1>5 DEF TypeOK
  <2> QED
    BY <1>1, <1>6, <2>1, <2>2, <2>3 DEF TypeOK
<1>8. AnswersCurrent'
  BY <1>4, <1>5 DEF AnswersCurrent
<1>9. WrittenCommitted'
  BY <1>1, <1>4, <1>5 DEF WrittenCommitted
<1>10. \A u \in Requests : InFlight(u)' => u # r /\ InFlight(u) /\ request'[u] = request[u]
  BY <1>3, <1>4 DEF InFlight, Owners
<1>11. \A u \in Requests : HasRows(u)' => InFlight(u)' /\ HasRows(u)
  BY <1>3 DEF HasRows, InFlight
<1> HIDE DEF Served
<1>12. \A u \in Requests : InFlight(u)' => (Current(u)' <=> Current(u))
  BY <1>1, <1>3, <1>10 DEF Current
<1>13. SingleFlight'
  BY <1>3, <1>10 DEF SingleFlight, InFlight
<1>14. Owners'
  BY <1>1, <1>3, <1>10, <1>11 DEF Owners
<1>15. Waiters'
  <2>1. ASSUME NEW u \in Requests, request'[u].pc = "waiting"
        PROVE  request'[u] = request[u] /\ ~Served(u)
    BY <1>4, <1>5, <2>1
  <2>2. ASSUME NEW u \in Requests, request'[u].pc = "waiting",
               NEW w \in Requests, request[u].on = w
        PROVE  /\ InFlight(w)' /\ request'[w].server = request[u].server
               /\ HasRows(w)' => query'[w].rows >= request[u].since
    <3>1. w # r
      BY <2>1, <2>2 DEF Served
    <3>2. /\ InFlight(w) /\ request[w].server = request[u].server
          /\ HasRows(w) => query[w].rows >= request[u].since
      BY <2>1, <2>2 DEF Waiters
    <3>3. InFlight(w)'
      BY <1>3, <3>1, <3>2 DEF InFlight
    <3> QED
      BY <1>3, <1>10, <1>11, <3>1, <3>2, <3>3
  <2> QED
    BY <1>1, <2>1, <2>2 DEF Waiters
<1>16. LoadingCurrent'
  <2>1. ASSUME NEW x \in Servers, NEW w \in Requests, loading'[x] = w
        PROVE  InFlight(w)' /\ Current(w)' /\ request'[w].server = x
    <3>1. loading[x] = w /\ w # r
      BY <1>1, <2>1, CacheAssumption DEF LoadingCurrent, TypeOK
    <3>2. InFlight(w) /\ Current(w) /\ request[w].server = x
      BY <3>1 DEF LoadingCurrent
    <3>3. InFlight(w)'
      BY <1>3, <3>1, <3>2 DEF InFlight
    <3> QED
      BY <1>10, <1>12, <3>2, <3>3
  <2>2. ASSUME NEW u \in Requests, InFlight(u)', Current(u)'
        PROVE  loading'[request'[u].server] = u
    <3>1. u # r /\ InFlight(u) /\ Current(u) /\ request'[u] = request[u]
      BY <1>10, <1>12, <2>2
    <3>2. request[u].server \in Servers /\ loading[request[u].server] = u
      BY <3>1 DEF LoadingCurrent, Owners
    <3> QED
      BY <1>1, <3>1, <3>2 DEF TypeOK
  <2> QED
    BY <2>1, <2>2 DEF LoadingCurrent
<1>17. RowsCurrent'
  BY <1>1, <1>3, <1>10, <1>11, <1>12 DEF RowsCurrent
<1> QED
  BY <1>7, <1>8, <1>9, <1>13, <1>14, <1>15, <1>16, <1>17

\* Every step keeps the invariant.
LEMMA NextInv == Inv /\ [Next]_vars => Inv'
<1> SUFFICES ASSUME Inv, [Next]_vars PROVE Inv'
  OBVIOUS
<1>1. ASSUME NEW r \in Requests, Read(r) \/ Reject(r) PROVE Inv'
  BY <1>1, ReadInv
<1>2. ASSUME NEW r \in Requests, Then(r) PROVE Inv'
  BY <1>2, ThenInv
<1>3. ASSUME NEW r \in Requests, Finally(r) PROVE Inv'
  BY <1>3, FinallyInv
<1>4. ASSUME NEW r \in Requests, Invalidate(r) PROVE Inv'
  BY <1>4, InvalidateInv
<1>5. ASSUME NEW r \in Requests, Return(r) \/ UpsertLost(r) PROVE Inv'
  BY <1>5, ReturnInv
<1>6. ASSUME NEW r \in Requests, NEW s \in Servers, Get(r, s) PROVE Inv'
  BY <1>6, GetInv
<1>7. ASSUME NEW r \in Requests, NEW s \in Servers, Upsert(r, s) PROVE Inv'
  BY <1>7, UpsertInv
<1>8. ASSUME NEW s \in Servers, Expire(s) PROVE Inv'
  BY <1>8, ExpireInv
<1>9. CASE UNCHANGED vars
  <2> USE <1>9 DEF vars, Inv
  <2>1. TypeOK' /\ AnswersCurrent' /\ SingleFlight' /\ WrittenCommitted'
    BY DEF TypeOK, AnswersCurrent, SingleFlight, WrittenCommitted
  <2>2. Owners' /\ Waiters' /\ LoadingCurrent' /\ RowsCurrent'
    BY DEF Owners, Waiters, LoadingCurrent, RowsCurrent, InFlight, HasRows, Current
  <2> QED
    BY <2>1, <2>2
<1> QED
  BY <1>1, <1>2, <1>3, <1>4, <1>5, <1>6, <1>7, <1>8, <1>9 DEF Next

-----------------------------------------------------------------------------
\* The invariant holds in every state.
THEOREM Invariance == Spec => []Inv
  BY InitInv, NextInv, PTL DEF Spec

\* Every variable keeps its type, and nobody is answered with the outcome of a
\* query that failed.
THEOREM TypeCorrect == Spec => []TypeOK
<1>1. Inv => TypeOK
  BY DEF Inv
<1> QED
  BY <1>1, Invariance, PTL

\* A read sees every update its process had finished when the read began, with
\* any number of processes, reads and updates.
THEOREM Fresh == Spec => []AnswersCurrent
<1>1. Inv => AnswersCurrent
  BY DEF Inv
<1> QED
  BY <1>1, Invariance, PTL

\* A process never has two queries of one generation in flight.
THEOREM OneQuery == Spec => []SingleFlight
<1>1. Inv => SingleFlight
  BY DEF Inv
<1> QED
  BY <1>1, Invariance, PTL

\* What later reads join is in flight.
THEOREM Joinable == Spec => []LoadingInFlight
<1>1. Inv => LoadingInFlight
  <2> SUFFICES ASSUME Inv, NEW s \in Servers, loading[s] # NoRequest
               PROVE  query[loading[s]].stage # "none"
    BY DEF LoadingInFlight
  <2>1. loading[s] \in Requests
    BY DEF Inv, TypeOK
  <2> QED
    BY <2>1 DEF Inv, LoadingCurrent, InFlight
<1> QED
  BY <1>1, Invariance, PTL

=============================================================================
