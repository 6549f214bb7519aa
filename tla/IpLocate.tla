------------------------------ MODULE IpLocate -------------------------------
(***************************************************************************)
(* The ip locate agent: a cache runtime that finds the location of an      *)
(* address in a table of networks, and a query runtime that asks a service *)
(* over UDP.  A network is the set of the addresses in it.  The service    *)
(* may also push locations nobody has asked for.                           *)
(*                                                                         *)
(* Unlike the effective cache an answer is passed on whether it was asked  *)
(* for or not, and an answer without a location ends a query only when the *)
(* table still has an old location.                                        *)
(***************************************************************************)
EXTENDS Naturals, Sequences, FiniteSets

CONSTANTS
  Ips, Nets, Reqs,
  Batch,      \* request_batch_handle_count
  RspCap      \* bound: an unasked answer comes only when rsp is shorter

None == {}    \* no address, no network

\* What is assumed of the constants; networks are prefixes of addresses, so that of two
\* that share an address one is in the other.
Bounds ==
  /\ Reqs \subseteq Nat /\ Batch \in Nat /\ RspCap \in Nat
  /\ None \notin Nets
  /\ \A m, n \in Nets : m \cap n = {} \/ m \subseteq n \/ n \subseteq m

VARIABLES
  fetch,      \* fetch of each request: [ip, at]
  req, query, rsp,  \* the three channels
  cache,      \* the record of each network: "none", "fresh" or "stale"
  waiting,    \* doing: the requests that wait for an address
  pc, handled,
  qdoing, qtimers,  \* doing_cache and doing_timeout_queue
  write_queue,
  qrun,       \* the query runtime runs
  asked,      \* queries the service has got and not answered yet
  helpful     \* the service answers what it is asked, with a location, and nothing
              \* else, and neither encoding, poll_send nor poll_recv fails

handles == <<qdoing, qtimers, write_queue, qrun, asked, helpful>>
vars == <<fetch, req, query, rsp, cache, waiting, pc, handled, handles>>

Running == pc \notin {"end", "panic"}
doing == {ip \in Ips : waiting[ip] # {}}

\* The most specific network of the table with this address, if any
longest_match(ip) ==
  {n \in Nets : /\ ip \in n /\ cache[n] # "none"
                /\ \A m \in Nets : ip \in m /\ cache[m] # "none" => n \subseteq m}

Notify(rs, how) ==
  fetch' = [r \in Reqs |-> IF r \in rs /\ fetch[r].at = "sent" THEN [fetch[r] EXCEPT !.at = how] ELSE fetch[r]]

-----------------------------------------------------------------------------
(* IpLocationCacheHandle *)

Fetch(r) ==
  /\ fetch[r].at = "new" /\ \A q \in Reqs : q < r => fetch[q].at # "new"
  /\ \E ip \in Ips :
       IF Running
       THEN /\ fetch' = [fetch EXCEPT ![r] = [ip |-> ip, at |-> "sent"]]
            /\ req' = Append(req, r)
       ELSE /\ fetch' = [fetch EXCEPT ![r] = [ip |-> ip, at |-> "failed"]]
            /\ UNCHANGED req
  /\ UNCHANGED <<query, rsp, cache, waiting, pc, handled, handles>>

FetchTimeout(r) ==
  /\ fetch[r].at = "sent"
  /\ fetch' = [fetch EXCEPT ![r].at = "failed"]
  /\ UNCHANGED <<req, query, rsp, cache, waiting, pc, handled, handles>>

-----------------------------------------------------------------------------
(* IpLocationCacheRuntime *)

Expire(n) ==
  /\ cache[n] = "fresh"
  /\ cache' = [cache EXCEPT ![n] = "stale"]
  /\ UNCHANGED <<fetch, req, query, rsp, waiting, pc, handled, handles>>

Wake ==
  /\ pc = "idle" /\ (rsp # <<>> \/ req # <<>> \/ ~qrun)
  /\ pc' = "rsp"
  /\ UNCHANGED <<fetch, req, query, rsp, cache, waiting, handled, handles>>

Panic ==
  /\ pc' = "panic"
  /\ Notify(Reqs, "failed")
  /\ req' = <<>> /\ waiting' = [ip \in Ips |-> {}]

\* without a new location the old one is used, if there is one
handle_rsp(ip, n) ==
  \/ /\ n # None
     /\ IF ip # None
        THEN Notify(waiting[ip], "located") /\ waiting' = [waiting EXCEPT ![ip] = {}]
        ELSE UNCHANGED <<fetch, waiting>>
     /\ cache' = [cache EXCEPT ![n] = "fresh"]
  \/ /\ n = None
     /\ IF ip # None /\ longest_match(ip) # {}
        THEN Notify(waiting[ip], "located") /\ waiting' = [waiting EXCEPT ![ip] = {}]
        ELSE UNCHANGED <<fetch, waiting>>
     /\ UNCHANGED cache

RspLoop ==
  /\ pc = "rsp"
  /\ \/ /\ rsp # <<>>
        /\ handle_rsp(Head(rsp).ip, Head(rsp).net)
        /\ rsp' = Tail(rsp)
        /\ UNCHANGED <<req, pc, handled>>
     \/ rsp = <<>> /\ qrun /\ pc' = "req" /\ handled' = 0 /\ UNCHANGED <<fetch, req, rsp, cache, waiting>>
     \/ rsp = <<>> /\ ~qrun /\ Panic /\ UNCHANGED <<rsp, cache, handled>>
  /\ UNCHANGED <<query, handles>>

\* a fresh location answers; otherwise wait for the query, the first one sends it
handle_req(r) ==
  LET ip == fetch[r].ip IN
  \/ /\ \E n \in longest_match(ip) : cache[n] = "fresh"
     /\ Notify({r}, "located")
     /\ req' = Tail(req)
     /\ UNCHANGED <<query, waiting, pc>>
  \/ /\ \A n \in longest_match(ip) : cache[n] # "fresh"
     /\ IF ip \in doing \/ qrun
        THEN /\ waiting' = [waiting EXCEPT ![ip] = @ \cup {r}]
             /\ query' = IF ip \in doing THEN query ELSE Append(query, ip)
             /\ req' = Tail(req)
             /\ UNCHANGED <<fetch, pc>>
        ELSE Panic /\ UNCHANGED query

BatchDone == handled + 1 >= Batch

ReqLoop ==
  /\ pc = "req"
  /\ \/ BatchDone /\ pc' = "rsp" /\ UNCHANGED <<fetch, req, query, waiting, handled>>
     \/ ~BatchDone /\ req # <<>> /\ handle_req(Head(req)) /\ handled' = handled + 1
     \/ /\ ~BatchDone /\ req = <<>>
        /\ pc' = IF \A r \in Reqs : fetch[r].at \in {"located", "failed"} THEN "end" ELSE "idle"
        /\ UNCHANGED <<fetch, req, query, waiting, handled>>
  /\ UNCHANGED <<rsp, cache, handles>>

CacheRuntime == Wake \/ RspLoop \/ ReqLoop

-----------------------------------------------------------------------------
(* IpLocationQueryHandle and IpLocationQueryRuntime *)

send_rsp_data_keeps_timer(ip, n, expired) ==
  /\ qdoing' = qdoing \ {ip}
  /\ qtimers' = IF expired THEN qtimers \ {ip} ELSE qtimers
  /\ rsp' = IF Running THEN Append(rsp, [ip |-> ip, net |-> n]) ELSE rsp

\* as the effective cache does
send_rsp_data_if_doing(ip, n, expired) ==
  /\ qdoing' = qdoing \ {ip} /\ qtimers' = qtimers \ {ip}
  /\ rsp' = IF Running /\ ip \in qdoing THEN Append(rsp, [ip |-> ip, net |-> n]) ELSE rsp

send_rsp_data(ip, n, expired) ==
  /\ qdoing' = qdoing \ {ip}
  /\ qtimers' = IF expired \/ ip \in qdoing THEN qtimers \ {ip} ELSE qtimers
  /\ rsp' = IF Running THEN Append(rsp, [ip |-> ip, net |-> n]) ELSE rsp

\* should_send_raw_query refuses an address that is being asked for; a request that
\* cannot be encoded is answered empty
HandleReq ==
  /\ qrun /\ query # <<>>
  /\ query' = Tail(query)
  /\ IF Head(query) \in qdoing THEN UNCHANGED <<qdoing, qtimers, rsp, write_queue>>
     ELSE \/ /\ qdoing' = qdoing \cup {Head(query)}
             /\ qtimers' = qtimers \cup {Head(query)}
             /\ write_queue' = Append(write_queue, Head(query))
             /\ UNCHANGED rsp
          \/ ~helpful /\ send_rsp_data(Head(query), None, FALSE) /\ UNCHANGED write_queue
  /\ UNCHANGED <<fetch, req, cache, waiting, pc, handled, qrun, asked, helpful>>

Send ==
  /\ qrun /\ write_queue # <<>>
  /\ write_queue' = Tail(write_queue)
  /\ \/ asked' = asked \cup {Head(write_queue)} /\ UNCHANGED <<qdoing, qtimers, rsp>>
     \/ ~helpful /\ send_rsp_data(Head(write_queue), None, FALSE) /\ UNCHANGED asked
  /\ UNCHANGED <<fetch, req, query, cache, waiting, pc, handled, qrun, helpful>>

\* the answer to a query, with or without a location
Answer(ip) ==
  /\ qrun /\ ip \in asked
  /\ \E n \in {n \in Nets : ip \in n} \cup (IF helpful THEN {} ELSE {None}) : send_rsp_data(ip, n, FALSE)
  /\ asked' = asked \ {ip}
  /\ UNCHANGED <<fetch, req, query, cache, waiting, pc, handled, write_queue, qrun, helpful>>

\* any other answer; send_expire_ttl when it has neither address nor location
Push(ip, n) ==
  /\ qrun /\ ~helpful /\ Len(rsp) < RspCap
  /\ send_rsp_data(ip, n, FALSE)
  /\ UNCHANGED <<fetch, req, query, cache, waiting, pc, handled, write_queue, qrun, asked, helpful>>

QueryTimeout(ip) ==
  /\ qrun /\ ip \in qtimers
  /\ send_rsp_data(ip, None, TRUE)
  /\ UNCHANGED <<fetch, req, query, cache, waiting, pc, handled, write_queue, qrun, asked, helpful>>

\* poll_recv fails, or the cache runtime has ended
EndQuery ==
  /\ qrun
  /\ IF Running THEN ~helpful ELSE query = <<>>
  /\ qrun' = FALSE
  /\ qdoing' = {} /\ qtimers' = {} /\ query' = <<>> /\ write_queue' = <<>>
  /\ UNCHANGED <<fetch, req, rsp, cache, waiting, pc, handled, asked, helpful>>

Init ==
  /\ fetch = [r \in Reqs |-> [ip |-> None, at |-> "new"]]
  /\ req = <<>> /\ query = <<>> /\ rsp = <<>>
  /\ cache = [n \in Nets |-> "none"] /\ waiting = [ip \in Ips |-> {}]
  /\ pc = "idle" /\ handled = 0
  /\ qdoing = {} /\ qtimers = {} /\ write_queue = <<>> /\ qrun = TRUE /\ asked = {}
  /\ helpful \in BOOLEAN

Next ==
  \/ CacheRuntime \/ HandleReq \/ Send \/ EndQuery
  \/ \E n \in Nets : Expire(n)
  \/ \E r \in Reqs : Fetch(r) \/ FetchTimeout(r)
  \/ \E ip \in Ips : Answer(ip) \/ QueryTimeout(ip)
  \/ \E ip \in Ips \cup {None}, n \in Nets \cup {None} : Push(ip, n)

Spec == Init /\ [][Next]_vars

\* Fairness: the runtimes are polled, timers fire, the socket takes what is sent and
\* a helpful service answers every query, however late.
FairSpec ==
  /\ Spec
  /\ WF_vars(CacheRuntime) /\ WF_vars(HandleReq) /\ WF_vars(Send)
  /\ \A ip \in Ips : WF_vars(helpful /\ Answer(ip)) /\ WF_vars(QueryTimeout(ip))

-----------------------------------------------------------------------------
(* Properties *)

\* Types; what waits has asked for that address.
TypeOK ==
  /\ fetch \in [Reqs -> [ip: Ips \cup {None}, at: {"new", "sent", "located", "failed"}]]
  /\ req \in Seq(Reqs) /\ query \in Seq(Ips) /\ write_queue \in Seq(Ips)
  /\ rsp \in Seq([ip: Ips \cup {None}, net: Nets \cup {None}])
  /\ cache \in [Nets -> {"none", "fresh", "stale"}]
  /\ \A ip \in Ips : waiting[ip] \subseteq {r \in Reqs : fetch[r].ip = ip}
  /\ pc \in {"rsp", "req", "idle", "end", "panic"} /\ handled \in 0..Batch
  /\ qdoing \subseteq Ips /\ qtimers \subseteq Ips /\ asked \subseteq Ips
  /\ qrun \in BOOLEAN /\ helpful \in BOOLEAN

\* Every query of the query handle has its timeout armed, and no timeout is left of
\* a query that was answered, pushed to or failed.
TimeoutArmed == qdoing = qtimers

\* A request that is not over is in the channel or among those that wait for its
\* address, also when an empty answer or a push is handled in between.
FetchTracked ==
  Running => \A r \in Reqs : fetch[r].at = "sent" =>
    (\E i \in 1..Len(req) : req[i] = r) \/ r \in waiting[fetch[r].ip]

\* Nobody is forgotten and no query is without its timeout, whatever the service
\* answers, pushes or leaves out.
LocateRight == TypeOK /\ TimeoutArmed /\ FetchTracked

\* When the service answers every query with a location, every fetch ends without
\* its own timeout, though the query's timeout may come first: the late answer
\* is passed on to those that still wait.  Each is made once, so this is: after
\* any of them is sent, some day none is.
FetchEnds ==
  helpful /\ (\E r \in Reqs : fetch[r].at = "sent") ~> (\A r \in Reqs : fetch[r].at # "sent")

\* query_wait_timeout is "the timeout for the cache runtime to wait response from the
\* query runtime": it waits for an address only while that is asked, on either channel
\* or in the query runtime.  It does NOT hold of the code: an empty answer ends the
\* wait only when the table has an old location.
WaitBounded ==
  Running /\ qrun => \A ip \in doing :
    \/ ip \in qdoing
    \/ \E i \in 1..Len(query) : query[i] = ip
    \/ \E i \in 1..Len(rsp) : rsp[i].ip = ip
=============================================================================
