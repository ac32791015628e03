--------------------------- MODULE SettingsCache ---------------------------
(***************************************************************************)
(* The settings cache of each server process (settings.service.ts).  A read *)
(* answers from the cache while it is fresh, else joins the query in        *)
(* flight, else starts one; an update commits its row, then invalidates the *)
(* cache of its own process and reads again.  The process is single         *)
(* threaded, so a stretch of code between two awaits is one step; the .then *)
(* and the .finally of a query are two, other callbacks may run in between. *)
(*                                                                          *)
(* The rows of the table are abstracted to the number of updates committed. *)
(* A query is named by the request that started it, which waits for it.     *)
(***************************************************************************)
EXTENDS Naturals

CONSTANTS
  Servers,     \* processes of the API
  Requests,    \* concurrent reads and updates
  MaxUpdates,  \* bound on committed updates
  NoRequest, NoServer, NoRows

ASSUME CacheAssumption ==
  /\ NoRequest \notin Requests
  /\ NoServer \notin Servers
  /\ NoRows \notin Nat
  /\ MaxUpdates \in Nat

VARIABLES
  db,          \* version of the settings table
  cache,       \* cache[s]: rows and whether their TTL still runs
  loading,     \* loading[s]: the query later reads join
  generation,  \* generation[s]: how often s invalidated
  known,       \* known[s]: newest version an update has invalidated s for
  request,     \* reads and updates in progress
  query        \* query[r]: the findMany that request r started

vars == <<db, cache, loading, generation, known, request, query>>

Empty == [rows |-> NoRows, fresh |-> FALSE]
IdleRequest == [pc |-> "idle", server |-> NoServer, since |-> 0,
                on |-> NoRequest, rows |-> NoRows]
NoQuery == [stage |-> "none", generation |-> 0, rows |-> NoRows]

Init ==
  /\ db = 0
  /\ cache = [s \in Servers |-> Empty]
  /\ loading = [s \in Servers |-> NoRequest]
  /\ generation = [s \in Servers |-> 0]
  /\ known = [s \in Servers |-> 0]
  /\ request = [r \in Requests |-> IdleRequest]
  /\ query = [r \in Requests |-> NoQuery]

Newer(a, b) == IF a > b THEN a ELSE b

-----------------------------------------------------------------------------
(* load                                                                    *)

\* Fresh cache: answer from it.
Hit(r, s) ==
  /\ cache[s].fresh
  /\ request' = [request EXCEPT ![r] =
       [pc |-> "answered", server |-> s, since |-> known[s],
        on |-> NoRequest, rows |-> cache[s].rows]]
  /\ UNCHANGED <<loading, query>>

\* A query is in flight: wait for it.
Join(r, s) ==
  /\ ~cache[s].fresh
  /\ loading[s] # NoRequest
  /\ request' = [request EXCEPT ![r] =
       [pc |-> "waiting", server |-> s, since |-> known[s],
        on |-> loading[s], rows |-> NoRows]]
  /\ UNCHANGED <<loading, query>>

\* Start a query in generation g, for a request that must see version since.
StartQuery(r, s, g, since) ==
  /\ query' = [query EXCEPT ![r] =
       [stage |-> "sent", generation |-> g, rows |-> NoRows]]
  /\ loading' = [loading EXCEPT ![s] = r]
  /\ request' = [request EXCEPT ![r] =
       [pc |-> "waiting", server |-> s, since |-> since, on |-> r, rows |-> NoRows]]

Miss(r, s) ==
  /\ ~cache[s].fresh
  /\ loading[s] = NoRequest
  /\ StartQuery(r, s, generation[s], known[s])

\* get, findPublic and findAdmin begin with load.
Get(r, s) ==
  /\ request[r].pc = "idle"
  /\ Hit(r, s) \/ Join(r, s) \/ Miss(r, s)
  /\ UNCHANGED <<db, cache, generation, known>>

\* The database reads the table, or the query fails.
Read(r) ==
  /\ query[r].stage = "sent"
  /\ query' = [query EXCEPT ![r].stage = "read", ![r].rows = db]
  /\ UNCHANGED <<db, cache, loading, generation, known, request>>

Reject(r) ==
  /\ query[r].stage = "sent"
  /\ query' = [query EXCEPT ![r].stage = "rejected"]
  /\ UNCHANGED <<db, cache, loading, generation, known, request>>

\* Mutant of Then: the rows are cached whatever the generation.
ThenAnyGeneration(r) ==
  LET s == request[r].server IN
  /\ query[r].stage = "read"
  /\ cache' = [cache EXCEPT ![s] = [rows |-> query[r].rows, fresh |-> TRUE]]
  /\ query' = [query EXCEPT ![r].stage = "settled"]
  /\ UNCHANGED <<db, loading, generation, known, request>>

\* Mutant of Then: a failed query is caught before it and cached as well.
ThenCaught(r) ==
  LET s == request[r].server IN
  /\ query[r].stage \in {"read", "rejected"}
  /\ cache' = IF query[r].generation = generation[s]
              THEN [cache EXCEPT ![s] = [rows |-> query[r].rows, fresh |-> TRUE]]
              ELSE cache
  /\ query' = [query EXCEPT ![r].stage = "settled"]
  /\ UNCHANGED <<db, loading, generation, known, request>>

\* .then: the rows are cached if no update invalidated since the query began.
Then(r) ==
  LET s == request[r].server IN
  /\ query[r].stage = "read"
  /\ cache' = IF query[r].generation = generation[s]
              THEN [cache EXCEPT ![s] = [rows |-> query[r].rows, fresh |-> TRUE]]
              ELSE cache
  /\ query' = [query EXCEPT ![r].stage = "settled"]
  /\ UNCHANGED <<db, loading, generation, known, request>>

\* Everyone waiting for r's query gets its rows, or its failure.
Deliver(r) ==
  request' = [u \in Requests |->
    IF request[u].pc = "waiting" /\ request[u].on = r
    THEN IF query[r].stage = "settled"
         THEN [request[u] EXCEPT !.pc = "answered", !.on = NoRequest,
                                 !.rows = query[r].rows]
         ELSE IdleRequest
    ELSE request[u]]

\* Mutant of Finally: loading is cleared though another query has replaced this one.
FinallyClears(r) ==
  /\ query[r].stage \in {"settled", "rejected"}
  /\ loading' = [loading EXCEPT ![request[r].server] = NoRequest]
  /\ query' = [query EXCEPT ![r] = NoQuery]
  /\ Deliver(r)
  /\ UNCHANGED <<db, cache, generation, known>>

\* Mutant of Finally: a failed query stays in loading.
FinallyOnSuccess(r) ==
  LET s == request[r].server IN
  /\ query[r].stage \in {"settled", "rejected"}
  /\ loading' = IF loading[s] = r /\ query[r].stage = "settled"
                THEN [loading EXCEPT ![s] = NoRequest] ELSE loading
  /\ query' = [query EXCEPT ![r] = NoQuery]
  /\ Deliver(r)
  /\ UNCHANGED <<db, cache, generation, known>>

\* .finally, on success and on failure: clear loading if it is still this query.
Finally(r) ==
  LET s == request[r].server IN
  /\ query[r].stage \in {"settled", "rejected"}
  /\ loading' = IF loading[s] = r THEN [loading EXCEPT ![s] = NoRequest] ELSE loading
  /\ query' = [query EXCEPT ![r] = NoQuery]
  /\ Deliver(r)
  /\ UNCHANGED <<db, cache, generation, known>>

-----------------------------------------------------------------------------
(* update                                                                  *)

\* The upsert commits; its answer is on the way back.
Upsert(r, s) ==
  /\ request[r].pc = "idle"
  /\ db < MaxUpdates
  /\ db' = db + 1
  /\ request' = [request EXCEPT ![r] =
       [pc |-> "written", server |-> s, since |-> db + 1,
        on |-> NoRequest, rows |-> NoRows]]
  /\ UNCHANGED <<cache, loading, generation, known, query>>

\* The answer is lost and update throws before it invalidates.
UpsertLost(r) ==
  /\ request[r].pc = "written"
  /\ request' = [request EXCEPT ![r] = IdleRequest]
  /\ UNCHANGED <<db, cache, loading, generation, known, query>>

\* invalidate, and the load that follows it without an await: with cache and
\* loading just emptied it always starts a query.
Invalidate(r) ==
  LET s == request[r].server
      seen == Newer(known[s], request[r].since) IN
  /\ request[r].pc = "written"
  /\ generation' = [generation EXCEPT ![s] = @ + 1]
  /\ cache' = [cache EXCEPT ![s] = Empty]
  /\ known' = [known EXCEPT ![s] = seen]
  /\ StartQuery(r, s, generation[s] + 1, seen)
  /\ UNCHANGED db

-----------------------------------------------------------------------------
\* SETTINGS_CACHE_TTL_MS has passed.
Expire(s) ==
  /\ cache[s].fresh
  /\ cache' = [cache EXCEPT ![s].fresh = FALSE]
  /\ UNCHANGED <<db, loading, generation, known, request, query>>

Return(r) ==
  /\ request[r].pc = "answered"
  /\ request' = [request EXCEPT ![r] = IdleRequest]
  /\ UNCHANGED <<db, cache, loading, generation, known, query>>

Next ==
  \/ \E r \in Requests :
       \/ Read(r) \/ Reject(r) \/ Then(r) \/ Finally(r)
       \/ Invalidate(r) \/ UpsertLost(r) \/ Return(r)
       \/ \E s \in Servers : Get(r, s) \/ Upsert(r, s)
  \/ \E s \in Servers : Expire(s)

Spec == Init /\ [][Next]_vars

-----------------------------------------------------------------------------
(* Properties                                                              *)

Request == [pc : {"idle", "written", "waiting", "answered"},
            server : Servers \cup {NoServer}, since : Nat,
            on : Requests \cup {NoRequest}, rows : Nat \cup {NoRows}]

Query == [stage : {"none", "sent", "read", "rejected", "settled"},
          generation : Nat, rows : Nat \cup {NoRows}]

\* Types; a fresh cache and an answer have rows, never the outcome of a query
\* that failed.
TypeOK ==
  /\ db \in Nat
  /\ cache \in [Servers -> [rows : Nat \cup {NoRows}, fresh : BOOLEAN]]
  /\ \A s \in Servers : cache[s].fresh => cache[s].rows \in Nat
  /\ loading \in [Servers -> Requests \cup {NoRequest}]
  /\ generation \in [Servers -> Nat]
  /\ known \in [Servers -> Nat]
  /\ request \in [Requests -> Request]
  /\ \A r \in Requests : request[r].pc = "answered" => request[r].rows \in Nat
  /\ query \in [Requests -> Query]

\* A read sees every update that this process had finished writing when the read
\* began, and an update sees itself, even when a query from before the update
\* comes back after it.
AnswersCurrent ==
  \A r \in Requests :
    request[r].pc = "answered" => request[r].rows >= request[r].since

\* Reads that come together send one query: a process has two in flight only
\* when an update came between them.
SingleFlight ==
  \A r, u \in Requests :
    r # u /\ query[r].stage # "none" /\ query[u].stage # "none"
      /\ request[r].server = request[u].server
    => query[r].generation # query[u].generation

\* No read joins a query that is over: a failure is not kept for later readers.
LoadingInFlight ==
  \A s \in Servers : loading[s] # NoRequest => query[loading[s]].stage # "none"

=============================================================================
