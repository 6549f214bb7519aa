--------------------------- MODULE EffectiveCache ---------------------------
(***************************************************************************)
(* The effective cache of g3-io-ext: a cache runtime that answers fetches, *)
(* keeps one query per key going and drops records that vanish, and the    *)
(* handle through which a query runtime serves those queries.  CertAgent   *)
(* and RouteQuery compose it with the two query runtimes of the code.      *)
(*                                                                         *)
(* One step of the cache runtime handles one message or timer of one of    *)
(* the three loops of poll_loop.  A record is fresh until expire_at, stale *)
(* until vanish_at; clocks are left out.                                   *)
(***************************************************************************)
EXTENDS Naturals, Sequences

CONSTANTS
  Keys, Reqs,
  Batch       \* request_batch_handle_count

ASSUME CacheAssumption == Batch \in Nat /\ Keys # {}

VARIABLES
  fetch,      \* do_fetch of each request: [key, only, at]
  req,        \* channel of requests, the cache handle to the cache runtime
  query,      \* channel of keys, the cache runtime to the query handle
  rsp,        \* channel of results, the query handle to the cache runtime
  cache,      \* the record of each key: "none", "fresh" or "stale"
  vanish,     \* its timer in the delay queue: "off", "set" or "due"
  doing,      \* keys with a query
  waiting,    \* the requests that wait for it
  pc,         \* the loop of poll_loop, "idle", "end" or "panic"
  handled,    \* requests handled in this pass
  qdoing,     \* doing_cache of the query handle
  qtimers,    \* doing_timeout_queue of the query handle
  qrun        \* the query runtime runs

channels == <<req, query, rsp>>
records == <<cache, vanish>>
queries == <<doing, waiting>>
qvars == <<qdoing, qtimers, qrun>>
cvars == <<fetch, channels, records, queries, pc, handled, qvars>>

Running == pc \notin {"end", "panic"}

-----------------------------------------------------------------------------
(* EffectiveCacheHandle *)

\* A request ends: with a result, or without one when its notifier is dropped
Notify(rs) == fetch' = [r \in Reqs |-> IF r \in rs THEN [fetch[r] EXCEPT !.at = "done"] ELSE fetch[r]]

\* fetch and fetch_cache_only
Fetch(r) ==
  /\ fetch[r].at = "new"
  /\ \E k \in Keys, only \in BOOLEAN :
       \/ /\ Running
          /\ fetch' = [fetch EXCEPT ![r] = [key |-> k, only |-> only, at |-> "sent"]]
          /\ req' = Append(req, r)
       \/ /\ ~Running
          /\ fetch' = [fetch EXCEPT ![r] = [key |-> k, only |-> only, at |-> "done"]]
          /\ UNCHANGED req
  /\ UNCHANGED <<query, rsp, records, queries, pc, handled, qvars>>

\* the timeout of do_fetch; what waits in the runtime is not told
FetchTimeout(r) ==
  /\ fetch[r].at = "sent"
  /\ fetch' = [fetch EXCEPT ![r].at = "timeout"]
  /\ UNCHANGED <<channels, records, queries, pc, handled, qvars>>

-----------------------------------------------------------------------------
(* EffectiveCacheRuntime *)

\* A record becomes stale, and later its timer is due.
Age(k) ==
  /\ \/ cache[k] = "fresh" /\ cache' = [cache EXCEPT ![k] = "stale"] /\ UNCHANGED vanish
     \/ cache[k] = "stale" /\ vanish[k] = "set" /\ vanish' = [vanish EXCEPT ![k] = "due"] /\ UNCHANGED cache
  /\ UNCHANGED <<fetch, channels, queries, pc, handled, qvars>>

\* The runtime is polled: something it waits for is ready
Wake ==
  /\ pc = "idle"
  /\ rsp # <<>> \/ req # <<>> \/ ~qrun \/ \E k \in Keys : vanish[k] = "due"
  /\ pc' = "rsp"
  /\ UNCHANGED <<fetch, channels, records, queries, handled, qvars>>

\* a panic drops the runtime: its channels close and every notifier with it
Panic ==
  /\ pc' = "panic"
  /\ Notify({r \in Reqs : fetch[r].at = "sent"})
  /\ req' = <<>>
  /\ doing' = {} /\ waiting' = [k \in Keys |-> {}]

handle_rsp_no_reset(k) ==
  /\ Notify({r \in waiting[k] : fetch[r].at = "sent"})
  /\ doing' = doing \ {k} /\ waiting' = [waiting EXCEPT ![k] = {}]
  /\ cache' = [cache EXCEPT ![k] = "fresh"]
  /\ vanish' = [vanish EXCEPT ![k] = IF @ = "off" THEN "set" ELSE @]

\* what was answered before is ignored
handle_rsp(k) ==
  IF k \in doing
  THEN /\ Notify({r \in waiting[k] : fetch[r].at = "sent"})
       /\ doing' = doing \ {k} /\ waiting' = [waiting EXCEPT ![k] = {}]
       /\ cache' = [cache EXCEPT ![k] = "fresh"]
       /\ vanish' = [vanish EXCEPT ![k] = "set"]
  ELSE UNCHANGED <<fetch, records, queries>>

RspLoop ==
  /\ pc = "rsp"
  /\ \/ rsp # <<>> /\ handle_rsp(Head(rsp)) /\ rsp' = Tail(rsp) /\ UNCHANGED <<req, query, pc>>
     \/ rsp = <<>> /\ qrun /\ pc' = "vanish" /\ UNCHANGED <<fetch, channels, records, queries>>
     \/ rsp = <<>> /\ ~qrun /\ Panic /\ UNCHANGED <<query, rsp, records>>
  /\ UNCHANGED <<handled, qvars>>

handle_vanish(k) == cache' = [cache EXCEPT ![k] = "none"] /\ vanish' = [vanish EXCEPT ![k] = "off"]

VanishLoop ==
  /\ pc = "vanish"
  /\ \/ \E k \in Keys : vanish[k] = "due" /\ handle_vanish(k) /\ UNCHANGED <<pc, handled>>
     \/ /\ \A k \in Keys : vanish[k] # "due"
        /\ pc' = "req" /\ handled' = 0 /\ UNCHANGED records
  /\ UNCHANGED <<fetch, channels, queries, qvars>>

\* send_req panics when the query handle is gone
send_req(k, rs) ==
  \/ /\ qrun /\ query' = Append(query, k)
     /\ doing' = doing \cup {k} /\ waiting' = [waiting EXCEPT ![k] = rs]
     /\ req' = Tail(req)
     /\ UNCHANGED pc
  \/ ~qrun /\ Panic /\ UNCHANGED query

\* a request that finds its key in doing is forgotten
handle_req_drops(r) ==
  LET k == fetch[r].key IN
  \/ /\ fetch[r].only \/ cache[k] # "none"
     /\ Notify({r} \cap {x \in Reqs : fetch[x].at = "sent"})
     /\ req' = Tail(req)
     /\ UNCHANGED <<queries, query, pc>>
  \/ /\ ~fetch[r].only /\ cache[k] = "none" /\ k \in doing
     /\ req' = Tail(req)
     /\ UNCHANGED <<fetch, queries, query, pc>>
  \/ /\ ~fetch[r].only /\ cache[k] = "none" /\ k \notin doing
     /\ send_req(k, {r})
     /\ qrun => UNCHANGED fetch

\* a request in the cache, with an update when it is stale; or one that waits
handle_req(r) ==
  LET k == fetch[r].key IN
  \/ /\ fetch[r].only \/ cache[k] = "fresh" \/ (cache[k] = "stale" /\ k \in doing)
     /\ Notify({r} \cap {x \in Reqs : fetch[x].at = "sent"})
     /\ req' = Tail(req)
     /\ UNCHANGED <<queries, query, pc>>
  \/ /\ ~fetch[r].only /\ cache[k] = "stale" /\ k \notin doing
     /\ send_req(k, {})
     /\ qrun => Notify({r} \cap {x \in Reqs : fetch[x].at = "sent"})
  \/ /\ ~fetch[r].only /\ cache[k] = "none" /\ k \in doing
     /\ waiting' = [waiting EXCEPT ![k] = @ \cup {r}]
     /\ req' = Tail(req)
     /\ UNCHANGED <<fetch, doing, query, pc>>
  \/ /\ ~fetch[r].only /\ cache[k] = "none" /\ k \notin doing
     /\ send_req(k, {r})
     /\ qrun => UNCHANGED fetch

\* handled counts what the for loop over 1..request_batch_handle_count has taken
BatchDone == handled + 1 >= Batch

\* the handles are gone when every fetch is over
ReqLoop ==
  /\ pc = "req"
  /\ \/ BatchDone /\ pc' = "rsp" /\ UNCHANGED <<fetch, channels, queries, handled>>
     \/ /\ ~BatchDone /\ req # <<>>
        /\ handle_req(Head(req))
        /\ handled' = handled + 1
        /\ UNCHANGED rsp
     \/ /\ ~BatchDone /\ req = <<>>
        /\ pc' = IF \A r \in Reqs : fetch[r].at \in {"done", "timeout"} THEN "end" ELSE "idle"
        /\ UNCHANGED <<fetch, channels, queries, handled>>
  /\ UNCHANGED <<records, qvars>>

CacheRuntime == Wake \/ RspLoop \/ VanishLoop \/ ReqLoop

-----------------------------------------------------------------------------
(* EffectiveQueryHandle, used by the query runtimes *)

send_rsp_data(k, expired) ==
  \/ k \notin qdoing /\ qtimers' = (IF expired THEN qtimers \ {k} ELSE qtimers) /\ UNCHANGED <<qdoing, rsp>>
  \/ /\ k \in qdoing
     /\ qdoing' = qdoing \ {k} /\ qtimers' = qtimers \ {k}
     /\ rsp' = IF Running THEN Append(rsp, k) ELSE rsp

\* should_send_raw_query, when it returns TRUE
raw_query(k) == k \notin qdoing /\ qdoing' = qdoing \cup {k} /\ qtimers' = qtimers \cup {k}

CInit ==
  /\ fetch = [r \in Reqs |-> [key |-> CHOOSE k \in Keys : TRUE, only |-> FALSE, at |-> "new"]]
  /\ req = <<>> /\ query = <<>> /\ rsp = <<>>
  /\ cache = [k \in Keys |-> "none"] /\ vanish = [k \in Keys |-> "off"]
  /\ doing = {} /\ waiting = [k \in Keys |-> {}]
  /\ pc = "idle" /\ handled = 0
  /\ qdoing = {} /\ qtimers = {} /\ qrun = TRUE

-----------------------------------------------------------------------------
(* Properties *)

CacheTypeOK ==
  /\ fetch \in [Reqs -> [key: Keys, only: BOOLEAN, at: {"new", "sent", "timeout", "done"}]]
  /\ req \in Seq(Reqs) /\ query \in Seq(Keys) /\ rsp \in Seq(Keys)
  /\ cache \in [Keys -> {"none", "fresh", "stale"}]
  /\ vanish \in [Keys -> {"off", "set", "due"}]
  /\ \A k \in Keys : vanish[k] = "off" <=> cache[k] = "none"
  /\ doing \subseteq Keys /\ waiting \in [Keys -> SUBSET Reqs]
  /\ pc \in {"rsp", "vanish", "req", "idle", "end", "panic"}
  /\ handled \in Nat
  /\ qdoing \subseteq Keys /\ qtimers \subseteq Keys /\ qrun \in BOOLEAN

In(k, chan) == \E i \in 1..Len(chan) : chan[i] = k

Distinct(chan) == \A i, j \in 1..Len(chan) : chan[i] = chan[j] => i = j

\* While both runtimes run, a key that the cache runtime has in doing is exactly
\* once under way to, in, or back from the query runtime, any other key is not:
\* no query is lost, none is sent twice, however fetches, answers, timeouts and
\* failed sends interleave.
OneQueryPerKey ==
  Running /\ qrun =>
    /\ \A k \in Keys :
         /\ k \in doing <=> In(k, query) \/ k \in qdoing \/ In(k, rsp)
         /\ ~(In(k, query) /\ In(k, rsp)) /\ ~(k \in qdoing /\ (In(k, query) \/ In(k, rsp)))
    /\ Distinct(query) /\ Distinct(rsp)

\* Every query of the query handle has its timeout armed, and no timeout is left
\* of a query that was answered.
TimeoutArmed == qdoing = qtimers

\* handle_vanish drops stale records only: the update of a record moves its timer.
VanishOnlyStale ==
  [][\A k \in Keys : cache[k] # "none" /\ cache'[k] = "none" => cache[k] = "stale"]_cvars

\* A request that is not over is in the channel or waits for a query of its key:
\* the cache runtime forgets none.
FetchTracked ==
  Running => \A r \in Reqs : fetch[r].at = "sent" =>
    \/ In(r, req)
    \/ fetch[r].key \in doing /\ r \in waiting[fetch[r].key]

\* Every fetch ends, without its own timeout, answered or not.
FetchEnds == \A r \in Reqs : fetch[r].at = "sent" ~> fetch[r].at \in {"done", "timeout"}

\* runtime.rs: "unreachable as we have kept a sender" and "the query runtime should
\* not close before the cache runtime": the cache runtime does not panic.  It does
\* NOT hold of the code: an error of the socket ends the query runtime first.
NoPanic == pc # "panic"

\* "Set how many consequent query requests we should handle in the cache runtime
\* before yield out to the next loop."  It does NOT hold of the code: the loop
\* begins at 1 and handles one request less.
BatchFull == [][pc = "req" /\ pc' = "rsp" => handled = Batch]_cvars

=============================================================================
