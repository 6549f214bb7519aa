---------------------------- MODULE LookupProofs ----------------------------
(***************************************************************************)
(* Proofs about the lookups of names and of locations.                     *)
(*                                                                         *)
(* The ip locate agent, for any addresses and networks, any number of      *)
(* requests and any batch size: no request is forgotten, and the timeouts  *)
(* that are armed are those of the queries under way.                      *)
(*                                                                         *)
(* The query loop of the hickory driver, for any number of servers and     *)
(* tries and CNAMEs without end: wait_left is exact, so it never           *)
(* underflows and an error is returned only when every server has had its  *)
(* turn.  The fail_over driver, for any answers: the failure of a resolver *)
(* or a stale record is returned only when no resolver gave better, and    *)
(* the protective timeout loses no fresh answer.                           *)
(***************************************************************************)
EXTENDS MCLookups, Sequences, FiniteSetTheorems, TLAPS

-----------------------------------------------------------------------------
(* The ip locate agent *)

USE DEF A!handles

Has(s, x) == \E i \in 1..Len(s) : s[i] = x

Fetched == [ip: Ips \cup {A!None}, at: {"new", "sent", "located", "failed"}]
Locations == [ip: Ips \cup {A!None}, net: Nets \cup {A!None}]

\* The table of those that wait is one of sets of requests.
WaitingType == waiting \in [Ips -> SUBSET Reqs]

\* A request names its address from the moment it is made, and nothing knows of it
\* before: it is in no channel and waits for no address.
Made ==
  \A r \in Reqs :
    IF fetch[r].at = "new" THEN ~Has(req, r) /\ \A ip \in Ips : r \notin waiting[ip]
    ELSE fetch[r].ip \in Ips

LocateInv == A!LocateRight /\ WaitingType /\ Made

QueryType ==
  /\ query \in Seq(Ips) /\ write_queue \in Seq(Ips) /\ rsp \in Seq(Locations)
  /\ qdoing \subseteq Ips /\ qtimers \subseteq Ips /\ asked \subseteq Ips
  /\ qrun \in BOOLEAN /\ helpful \in BOOLEAN

TableType ==
  /\ cache \in [Nets -> {"none", "fresh", "stale"}]
  /\ runtime \in {"rsp", "req", "idle", "end", "panic"} /\ handled \in 0..Batch

FetchType ==
  /\ fetch \in [Reqs -> Fetched] /\ req \in Seq(Reqs)
  /\ WaitingType /\ Made
  /\ \A ip \in Ips : \A r \in waiting[ip] : fetch[r].ip = ip

-----------------------------------------------------------------------------
(* Queues *)

LEMMA Taken ==
  ASSUME NEW S, NEW s \in Seq(S), s # <<>>
  PROVE  /\ Head(s) \in S /\ Tail(s) \in Seq(S)
         /\ 1 \in 1..Len(s) /\ s[1] = Head(s)
         /\ \A i \in 1..Len(Tail(s)) : i + 1 \in 1..Len(s) /\ Tail(s)[i] = s[i + 1]
         /\ \A i \in 1..Len(s) : i = 1 \/ (i - 1 \in 1..Len(Tail(s)) /\ Tail(s)[i - 1] = s[i])
  OBVIOUS

LEMMA Put ==
  ASSUME NEW S, NEW s \in Seq(S), NEW x \in S
  PROVE  /\ Append(s, x) \in Seq(S)
         /\ Len(s) + 1 \in 1..Len(Append(s, x)) /\ Append(s, x)[Len(s) + 1] = x
         /\ \A i \in 1..Len(s) : i \in 1..Len(Append(s, x)) /\ Append(s, x)[i] = s[i]
         /\ \A i \in 1..Len(Append(s, x)) : Append(s, x)[i] = x \/ (i \in 1..Len(s) /\ Append(s, x)[i] = s[i])
  OBVIOUS

LEMMA HasPut ==
  ASSUME NEW S, NEW s \in Seq(S), NEW x \in S
  PROVE  \A y : Has(Append(s, x), y) <=> Has(s, y) \/ y = x
<1>1. ASSUME NEW y, Has(Append(s, x), y) PROVE Has(s, y) \/ y = x
  BY <1>1, Put DEF Has
<1>2. ASSUME NEW y, Has(s, y) \/ y = x PROVE Has(Append(s, x), y)
  BY <1>2, Put DEF Has
<1> QED BY Zenon, <1>1, <1>2

LEMMA HasTaken ==
  ASSUME NEW S, NEW s \in Seq(S), s # <<>>
  PROVE  /\ Has(s, Head(s))
         /\ \A y : Has(Tail(s), y) => Has(s, y)
         /\ \A y : Has(s, y) => Has(Tail(s), y) \/ y = Head(s)
<1>1. Has(s, Head(s))
  BY Taken DEF Has
<1>2. ASSUME NEW y, Has(Tail(s), y) PROVE Has(s, y)
  BY <1>2, Taken DEF Has
<1>3. ASSUME NEW y, Has(s, y) PROVE Has(Tail(s), y) \/ y = Head(s)
  <2>1. PICK i \in 1..Len(s) : s[i] = y
    BY <1>3 DEF Has
  <2>2. i = 1 \/ (i - 1 \in 1..Len(Tail(s)) /\ Tail(s)[i - 1] = s[i])
    BY Taken
  <2>3. s[1] = Head(s)
    BY Taken
  <2> QED BY Zenon, <2>1, <2>2, <2>3 DEF Has
<1> QED BY Zenon, <1>1, <1>2, <1>3

-----------------------------------------------------------------------------
(* The inductive invariant *)

LEMMA LocateParts ==
  LocateInv <=> QueryType /\ TableType /\ FetchType /\ A!TimeoutArmed /\ A!FetchTracked
<1>1. A!TypeOK /\ WaitingType /\ Made <=> QueryType /\ TableType /\ FetchType
  BY Zenon DEF A!TypeOK, QueryType, TableType, FetchType, Fetched, Locations, WaitingType
<1> QED BY Zenon, <1>1 DEF LocateInv, A!LocateRight

LEMMA LocateInit == ASSUME Batch \in Nat PROVE A!Init => LocateInv
<1> SUFFICES ASSUME A!Init PROVE QueryType /\ TableType /\ FetchType /\ A!TimeoutArmed /\ A!FetchTracked
  BY Zenon, LocateParts
<1>1. QueryType
  BY DEF A!Init, QueryType
<1>2. TableType
  BY DEF A!Init, TableType
<1>3. FetchType
  BY DEF A!Init, FetchType, Fetched, WaitingType, Made, Has
<1>4. A!TimeoutArmed /\ A!FetchTracked
  BY DEF A!Init, A!TimeoutArmed, A!FetchTracked
<1> QED BY Zenon, <1>1, <1>2, <1>3, <1>4

LEMMA AnswerSent ==
  ASSUME QueryType, A!TimeoutArmed,
         NEW ip \in Ips \cup {A!None}, NEW n \in Nets \cup {A!None}, NEW expired,
         A!send_rsp_data(ip, n, expired)
  PROVE  /\ qdoing' \subseteq Ips /\ qtimers' \subseteq Ips /\ qdoing' = qtimers'
         /\ rsp' \in Seq(Locations)
<1>1. qdoing' \subseteq Ips /\ qtimers' \subseteq Ips /\ qdoing' = qtimers'
  BY Zenon DEF QueryType, A!TimeoutArmed, A!send_rsp_data
<1>2. [ip |-> ip, net |-> n] \in Locations
  BY Zenon DEF Locations
<1>3. rsp' \in Seq(Locations)
  BY <1>2, Put DEF QueryType, A!send_rsp_data
<1> QED BY Zenon, <1>1, <1>3

\* Every step leaves each query with its timer: send_rsp_data takes off both or none.
LEMMA QueryNext == ASSUME LocateInv, [A!Next]_(A!vars) PROVE QueryType' /\ A!TimeoutArmed'
<1>0. QueryType /\ A!TimeoutArmed /\ FetchType /\ TableType
  BY Zenon, LocateParts
<1> USE DEF QueryType, A!TimeoutArmed
<1>1. CASE UNCHANGED <<query, write_queue, rsp, qdoing, qtimers, asked, qrun, helpful>>
  BY Zenon, <1>0, <1>1
<1>2. CASE A!Wake \/ (\E n \in Nets : A!Expire(n)) \/ (\E r \in Reqs : A!Fetch(r) \/ A!FetchTimeout(r)) \/ UNCHANGED A!vars
  BY Zenon, <1>1, <1>2 DEF A!Wake, A!Expire, A!Fetch, A!FetchTimeout, A!vars
<1>3. CASE A!RspLoop
  <2>1. rsp' \in Seq(Locations)
    BY Zenon, <1>0, <1>3, Taken DEF A!RspLoop
  <2>2. UNCHANGED <<query, write_queue, qdoing, qtimers, asked, qrun, helpful>>
    BY Zenon, <1>3 DEF A!RspLoop
  <2> QED BY Zenon, <1>0, <2>1, <2>2
<1>4. CASE A!ReqLoop
  <2>1. UNCHANGED <<rsp, write_queue, qdoing, qtimers, asked, qrun, helpful>>
    BY Zenon, <1>4 DEF A!ReqLoop
  <2>2. query' = query \/ (req # <<>> /\ query' = Append(query, fetch[Head(req)].ip))
    BY Zenon, <1>4 DEF A!ReqLoop, A!handle_req
  <2>3. ASSUME req # <<>> PROVE fetch[Head(req)].ip \in Ips
    <3>1. Head(req) \in Reqs /\ Has(req, Head(req))
      BY SMTT(60), <1>0, <2>3, Taken, HasTaken DEF FetchType
    <3> QED BY Zenon, <1>0, <3>1 DEF FetchType, Made
  <2>4. query' \in Seq(Ips)
    <3>1. CASE query' = query
      BY Zenon, <1>0, <3>1
    <3>2. CASE req # <<>> /\ query' = Append(query, fetch[Head(req)].ip)
      BY Zenon, <1>0, <2>3, <3>2, Put
    <3> QED BY Zenon, <2>2, <3>1, <3>2
  <2> QED BY Zenon, <1>0, <2>1, <2>4
<1>5. CASE A!HandleReq
  <2>1. Head(query) \in Ips /\ query' \in Seq(Ips)
    BY <1>0, <1>5, Taken DEF A!HandleReq
  <2>2. UNCHANGED <<asked, qrun, helpful>>
    BY Zenon, <1>5 DEF A!HandleReq
  <2>3. CASE UNCHANGED <<qdoing, qtimers, rsp, write_queue>>
    BY Zenon, <1>0, <2>1, <2>2, <2>3
  <2>4. CASE /\ qdoing' = qdoing \cup {Head(query)} /\ qtimers' = qtimers \cup {Head(query)}
             /\ write_queue' = Append(write_queue, Head(query)) /\ UNCHANGED rsp
    <3>1. write_queue' \in Seq(Ips)
      BY SMTT(60), <1>0, <2>1, <2>4, Put
    <3> QED BY Zenon, <1>0, <2>1, <2>2, <2>4, <3>1
  <2>5. CASE A!send_rsp_data(Head(query), A!None, FALSE) /\ UNCHANGED write_queue
    BY Zenon, <1>0, <2>1, <2>2, <2>5, AnswerSent
  <2> QED BY Zenon, <1>5, <2>3, <2>4, <2>5 DEF A!HandleReq
<1>6. CASE A!Send
  <2>1. Head(write_queue) \in Ips /\ write_queue' \in Seq(Ips)
    BY SMTT(60), <1>0, <1>6, Taken DEF A!Send
  <2>2. UNCHANGED <<query, qrun, helpful>>
    BY Zenon, <1>6 DEF A!Send
  <2>3. CASE asked' = asked \cup {Head(write_queue)} /\ UNCHANGED <<qdoing, qtimers, rsp>>
    BY Zenon, <1>0, <2>1, <2>2, <2>3
  <2>4. CASE A!send_rsp_data(Head(write_queue), A!None, FALSE) /\ UNCHANGED asked
    BY Zenon, <1>0, <2>1, <2>2, <2>4, AnswerSent
  <2> QED BY Zenon, <1>6, <2>3, <2>4 DEF A!Send
<1>7. ASSUME NEW ip \in Ips, A!Answer(ip) PROVE QueryType' /\ A!TimeoutArmed'
  <2>1. PICK n \in Nets \cup {A!None} : A!send_rsp_data(ip, n, FALSE)
    BY Zenon, <1>7 DEF A!Answer
  <2>2. UNCHANGED <<query, write_queue, qrun, helpful>> /\ asked' = asked \ {ip}
    BY Zenon, <1>7 DEF A!Answer
  <2> QED BY Zenon, <1>0, <2>1, <2>2, AnswerSent
<1>8. ASSUME NEW ip \in Ips, A!QueryTimeout(ip) PROVE QueryType' /\ A!TimeoutArmed'
  BY Zenon, <1>0, <1>8, AnswerSent DEF A!QueryTimeout
<1>9. ASSUME NEW ip \in Ips \cup {A!None}, NEW n \in Nets \cup {A!None}, A!Push(ip, n) PROVE QueryType' /\ A!TimeoutArmed'
  BY Zenon, <1>0, <1>9, AnswerSent DEF A!Push
<1>10. CASE A!EndQuery
  <2>1. <<>> \in Seq(Ips)
    OBVIOUS
  <2> QED BY Zenon, <1>0, <1>10, <2>1 DEF A!EndQuery
<1> QED BY Zenon, <1>2, <1>3, <1>4, <1>5, <1>6, <1>7, <1>8, <1>9, <1>10 DEF A!Next, A!CacheRuntime

\* The table of locations, the state of the cache runtime and the count of its batch.
LEMMA TableNext == ASSUME Batch \in Nat, LocateInv, [A!Next]_(A!vars) PROVE TableType'
<1>0. TableType /\ QueryType
  BY Zenon, LocateParts
<1> USE DEF TableType
<1>1. CASE UNCHANGED <<cache, runtime, handled>>
  BY Zenon, <1>0, <1>1
<1>2. CASE A!HandleReq \/ A!Send \/ A!EndQuery \/ (\E r \in Reqs : A!Fetch(r) \/ A!FetchTimeout(r)) \/ UNCHANGED A!vars
  BY Zenon, <1>1, <1>2 DEF A!HandleReq, A!Send, A!EndQuery, A!Fetch, A!FetchTimeout, A!vars
<1>3. CASE (\E ip \in Ips : A!Answer(ip) \/ A!QueryTimeout(ip))
           \/ \E ip \in Ips \cup {A!None}, n \in Nets \cup {A!None} : A!Push(ip, n)
  BY Zenon, <1>1, <1>3 DEF A!Answer, A!QueryTimeout, A!Push
<1>4. ASSUME NEW n \in Nets, A!Expire(n) PROVE TableType'
  BY Zenon, <1>0, <1>4 DEF A!Expire
<1>5. CASE A!Wake
  BY Zenon, <1>0, <1>5 DEF A!Wake
<1>6. CASE A!RspLoop
  <2>1. ASSUME rsp # <<>>, A!handle_rsp(Head(rsp).ip, Head(rsp).net) PROVE cache' \in [Nets -> {"none", "fresh", "stale"}]
    <3>1. Head(rsp) \in Locations
      BY <1>0, <2>1, Taken DEF QueryType
    <3>2. Head(rsp).net \in Nets \cup {A!None}
      BY Zenon, <3>1 DEF Locations
    <3> QED BY Zenon, <1>0, <2>1, <3>2 DEF A!handle_rsp
  <2>2. cache' \in [Nets -> {"none", "fresh", "stale"}]
    BY Zenon, <1>0, <1>6, <2>1 DEF A!RspLoop
  <2>3. runtime' \in {"rsp", "req", "idle", "end", "panic"}
    BY Zenon, <1>0, <1>6 DEF A!RspLoop, A!Panic
  <2>4. handled' \in 0..Batch
    BY <1>0, <1>6 DEF A!RspLoop
  <2> QED BY Zenon, <2>2, <2>3, <2>4
<1>7. CASE A!ReqLoop
  <2>1. cache' = cache
    BY Zenon, <1>7 DEF A!ReqLoop
  <2>2. runtime' \in {"rsp", "req", "idle", "end", "panic"}
    BY Zenon, <1>0, <1>7 DEF A!ReqLoop, A!handle_req, A!Panic
  <2>3. handled' = handled \/ (~A!BatchDone /\ handled' = handled + 1)
    BY Zenon, <1>7 DEF A!ReqLoop
  <2>4. handled' \in 0..Batch
    BY <1>0, <2>3 DEF A!BatchDone
  <2> QED BY Zenon, <1>0, <2>1, <2>2, <2>4
<1> QED BY Zenon, <1>2, <1>3, <1>4, <1>5, <1>6, <1>7 DEF A!Next, A!CacheRuntime

-----------------------------------------------------------------------------
(* Requests *)

\* send_located and the drop of a sender end only what is still waited for.
LEMMA Notified ==
  ASSUME FetchType, NEW rs, NEW how \in {"located", "failed"}, A!Notify(rs, how)
  PROVE  /\ fetch' \in [Reqs -> Fetched]
         /\ \A r \in Reqs : /\ fetch'[r].ip = fetch[r].ip
                            /\ fetch'[r].at = "new" <=> fetch[r].at = "new"
                            /\ fetch'[r].at = "sent" <=> fetch[r].at = "sent" /\ r \notin rs
<1>1. fetch \in [Reqs -> Fetched]
  BY Zenon DEF FetchType
<1>2. ASSUME NEW r \in Reqs
      PROVE  /\ fetch'[r] \in Fetched /\ fetch'[r].ip = fetch[r].ip
             /\ fetch'[r].at = "new" <=> fetch[r].at = "new"
             /\ fetch'[r].at = "sent" <=> fetch[r].at = "sent" /\ r \notin rs
  <2>1. fetch[r] \in Fetched
    BY Zenon, <1>1
  <2>2. fetch'[r] = IF r \in rs /\ fetch[r].at = "sent" THEN [fetch[r] EXCEPT !.at = how] ELSE fetch[r]
    BY Zenon DEF A!Notify
  <2> QED BY <2>1, <2>2 DEF Fetched
<1>3. fetch' = [r \in Reqs |-> fetch'[r]]
  BY Zenon DEF A!Notify
<1> QED BY Zenon, <1>2, <1>3

\* What keeps the requests well formed and tracked when channel and table change:
\* a step that makes none, and forgets only those that are over.
LEMMA Tracked ==
  ASSUME FetchType, A!FetchTracked,
         fetch' \in [Reqs -> Fetched], req' \in Seq(Reqs), WaitingType',
         \A r \in Reqs : /\ fetch'[r].ip = fetch[r].ip
                         /\ fetch'[r].at = "new" <=> fetch[r].at = "new"
                         /\ fetch'[r].at = "sent" => fetch[r].at = "sent",
         \A r \in Reqs : Has(req', r) => Has(req, r),
         \A ip \in Ips : \A r \in waiting'[ip] : r \in waiting[ip] \/ (Has(req, r) /\ fetch[r].ip = ip),
         A!Running' => A!Running,
         A!Running' => \A r \in Reqs : fetch'[r].at = "sent" =>
           /\ Has(req, r) => Has(req', r) \/ r \in waiting'[fetch[r].ip]
           /\ r \in waiting[fetch[r].ip] => r \in waiting'[fetch[r].ip]
  PROVE  FetchType' /\ A!FetchTracked'
<1>0. Made /\ \A ip \in Ips : waiting'[ip] \in SUBSET Reqs
  BY Zenon DEF FetchType, WaitingType
<1>1. ASSUME NEW r \in Reqs
      PROVE  IF fetch'[r].at = "new" THEN ~Has(req', r) /\ \A ip \in Ips : r \notin waiting'[ip]
             ELSE fetch'[r].ip \in Ips
  BY Zenon, <1>0 DEF Made
<1>2. ASSUME NEW ip \in Ips, NEW r \in waiting'[ip] PROVE fetch'[r].ip = ip
  <2>1. r \in Reqs
    BY Zenon, <1>0
  <2>2. fetch[r].ip = ip
    BY Zenon DEF FetchType
  <2> QED BY Zenon, <2>1, <2>2
<1>3. ASSUME A!Running', NEW r \in Reqs, fetch'[r].at = "sent"
      PROVE  Has(req', r) \/ r \in waiting'[fetch'[r].ip]
  <2>1. Has(req, r) \/ r \in waiting[fetch[r].ip]
    BY Zenon, <1>3 DEF A!FetchTracked, Has
  <2> QED BY Zenon, <1>3, <2>1
<1>4. Made'
  BY Zenon, <1>1 DEF Made, Has
<1>5. A!FetchTracked'
  BY Zenon, <1>3 DEF A!FetchTracked, Has
<1> QED BY Zenon, <1>2, <1>4, <1>5 DEF FetchType

\* A panic of the cache runtime fails every request that is not over.
LEMMA Panicked ==
  ASSUME FetchType, A!FetchTracked, A!Panic PROVE FetchType' /\ A!FetchTracked'
<1>1. /\ fetch' \in [Reqs -> Fetched]
      /\ \A r \in Reqs : /\ fetch'[r].ip = fetch[r].ip
                         /\ fetch'[r].at = "new" <=> fetch[r].at = "new"
                         /\ fetch'[r].at = "sent" <=> fetch[r].at = "sent" /\ r \notin Reqs
  BY Zenon, Notified DEF A!Panic
<1>2. req' \in Seq(Reqs) /\ \A r \in Reqs : ~Has(req', r)
  BY DEF A!Panic, Has
<1>3. WaitingType' /\ \A ip \in Ips : waiting'[ip] = {}
  BY Zenon DEF A!Panic, WaitingType
<1>4. ~A!Running'
  BY DEF A!Panic, A!Running
<1> QED BY Zenon, <1>1, <1>2, <1>3, <1>4, Tracked

\* An answer with a location, or without one while the table has an old one, ends
\* every wait for its address, and no other wait.
LEMMA RspTracked ==
  ASSUME FetchType, A!FetchTracked, NEW ip \in Ips \cup {A!None}, NEW n, A!handle_rsp(ip, n), UNCHANGED <<req, runtime>>
  PROVE  FetchType' /\ A!FetchTracked'
<1>0. fetch \in [Reqs -> Fetched] /\ req \in Seq(Reqs) /\ WaitingType /\ (A!Running' <=> A!Running)
  BY Zenon DEF FetchType, A!Running
<1>1. CASE UNCHANGED <<fetch, waiting>>
  <2>1. WaitingType' /\ fetch' = fetch /\ waiting' = waiting /\ req' = req
    BY Zenon, <1>0, <1>1 DEF WaitingType
  <2> QED BY Zenon, <1>0, <2>1, Tracked
<1>2. CASE ip # A!None /\ A!Notify(waiting[ip], "located") /\ waiting' = [waiting EXCEPT ![ip] = {}]
  <2>1. ip \in Ips
    BY Zenon, <1>2
  <2>2. /\ fetch' \in [Reqs -> Fetched]
        /\ \A r \in Reqs : /\ fetch'[r].ip = fetch[r].ip
                           /\ fetch'[r].at = "new" <=> fetch[r].at = "new"
                           /\ fetch'[r].at = "sent" <=> fetch[r].at = "sent" /\ r \notin waiting[ip]
    BY Zenon, <1>2, Notified
  <2>3. WaitingType' /\ waiting'[ip] = {} /\ \A j \in Ips : j # ip => waiting'[j] = waiting[j]
    BY SMTT(60), <1>0, <1>2, <2>1 DEF WaitingType
  <2>4. ASSUME NEW r \in Reqs, fetch'[r].at = "sent", r \in waiting[fetch[r].ip]
        PROVE  r \in waiting'[fetch[r].ip]
    <3>1. r \notin waiting[ip] /\ fetch[r].at = "sent"
      BY Zenon, <2>2, <2>4
    <3>2. fetch[r].ip \in Ips
      BY Zenon, <3>1 DEF FetchType, Made
    <3> QED BY Zenon, <2>3, <2>4, <3>1, <3>2
  <2>5. \A j \in Ips : \A r \in waiting'[j] : r \in waiting[j]
    BY Zenon, <2>3
  <2>6. req' = req
    OBVIOUS
  <2> QED BY Zenon, <1>0, <2>2, <2>3, <2>4, <2>5, <2>6, Tracked
<1> QED BY Zenon, <1>1, <1>2 DEF A!handle_rsp

\* A request leaves the channel when it is answered or waits for its address.
LEMMA ReqTracked ==
  ASSUME FetchType, A!FetchTracked, runtime = "req", req # <<>>, A!handle_req(Head(req))
  PROVE  FetchType' /\ A!FetchTracked'
<1> DEFINE q == Head(req)
<1>0. fetch \in [Reqs -> Fetched] /\ req \in Seq(Reqs) /\ WaitingType /\ A!Running
  BY DEF FetchType, A!Running
<1>1. q \in Reqs /\ Has(req, q)
  BY SMTT(60), <1>0, Taken, HasTaken
<1>2. fetch[q].ip \in Ips
  BY Zenon, <1>1 DEF FetchType, Made
<1>3. ASSUME req' = Tail(req)
      PROVE  /\ req' \in Seq(Reqs)
             /\ \A r \in Reqs : (Has(req', r) => Has(req, r)) /\ (Has(req, r) => Has(req', r) \/ r = q)
  BY SMTT(60), <1>0, <1>3, Taken, HasTaken
<1>4. CASE A!Panic
  BY Zenon, <1>4, Panicked
<1>5. CASE A!Notify({q}, "located") /\ req' = Tail(req) /\ UNCHANGED <<waiting, runtime>>
  <2>1. /\ fetch' \in [Reqs -> Fetched]
        /\ \A r \in Reqs : /\ fetch'[r].ip = fetch[r].ip
                           /\ fetch'[r].at = "new" <=> fetch[r].at = "new"
                           /\ fetch'[r].at = "sent" <=> fetch[r].at = "sent" /\ r \notin {q}
    BY Zenon, <1>5, Notified
  <2>2. WaitingType' /\ waiting' = waiting
    BY Zenon, <1>0, <1>5 DEF WaitingType
  <2> QED BY Zenon, <1>0, <1>1, <1>3, <1>5, <2>1, <2>2, Tracked
<1>6. CASE /\ waiting' = [waiting EXCEPT ![fetch[q].ip] = @ \cup {q}]
           /\ req' = Tail(req) /\ UNCHANGED <<fetch, runtime>>
  <2>1. /\ WaitingType' /\ waiting'[fetch[q].ip] = waiting[fetch[q].ip] \cup {q}
        /\ \A j \in Ips : j # fetch[q].ip => waiting'[j] = waiting[j]
    BY SMTT(60), <1>0, <1>1, <1>2, <1>6 DEF WaitingType
  <2>2. \A j \in Ips : waiting[j] \subseteq waiting'[j]
    BY Zenon, <2>1
  <2>3. \A j \in Ips : \A r \in waiting'[j] : r \in waiting[j] \/ (r = q /\ fetch[q].ip = j)
    BY Zenon, <2>1
  <2>4. fetch' = fetch
    BY Zenon, <1>6
  <2>5. ASSUME NEW r \in Reqs, fetch'[r].at = "sent" PROVE fetch[r].ip \in Ips
    BY SMTT(60), <2>4, <2>5 DEF FetchType, Made
  <2>6. q \in waiting'[fetch[q].ip]
    BY Zenon, <2>1
  <2> QED BY Zenon, <1>0, <1>1, <1>3, <1>6, <2>1, <2>2, <2>3, <2>4, <2>5, <2>6, Tracked
<1> QED BY Zenon, <1>4, <1>5, <1>6 DEF A!handle_req

\* No step loses a request.
LEMMA FetchNext == ASSUME LocateInv, [A!Next]_(A!vars) PROVE FetchType' /\ A!FetchTracked'
<1>0. FetchType /\ A!FetchTracked /\ QueryType
  BY Zenon, LocateParts
<1>1. fetch \in [Reqs -> Fetched] /\ req \in Seq(Reqs) /\ WaitingType
  BY Zenon, <1>0 DEF FetchType
<1>2. CASE UNCHANGED <<fetch, req, waiting>> /\ (A!Running' => A!Running)
  <2>1. WaitingType' /\ fetch' = fetch /\ waiting' = waiting /\ req' = req
    BY Zenon, <1>1, <1>2 DEF WaitingType
  <2> QED BY Zenon, <1>0, <1>1, <1>2, <2>1, Tracked
<1>3. CASE A!HandleReq \/ A!Send \/ A!EndQuery \/ (\E n \in Nets : A!Expire(n)) \/ UNCHANGED A!vars
  BY Zenon, <1>2, <1>3 DEF A!HandleReq, A!Send, A!EndQuery, A!Expire, A!vars, A!Running
<1>4. CASE (\E ip \in Ips : A!Answer(ip) \/ A!QueryTimeout(ip))
           \/ \E ip \in Ips \cup {A!None}, n \in Nets \cup {A!None} : A!Push(ip, n)
  BY Zenon, <1>2, <1>4 DEF A!Answer, A!QueryTimeout, A!Push, A!Running
<1>5. CASE A!Wake
  BY <1>2, <1>5 DEF A!Wake, A!Running
<1>6. CASE A!RspLoop
  <2>1. CASE rsp # <<>> /\ A!handle_rsp(Head(rsp).ip, Head(rsp).net) /\ UNCHANGED <<req, runtime>>
    <3>1. Head(rsp) \in Locations
      BY SMTT(60), <1>0, <2>1, Taken DEF QueryType
    <3>2. Head(rsp).ip \in Ips \cup {A!None}
      BY Zenon, <3>1 DEF Locations
    <3> QED BY Zenon, <1>0, <2>1, <3>2, RspTracked
  <2>2. CASE runtime' = "req" /\ UNCHANGED <<fetch, req, waiting>>
    BY SMTT(60), <1>2, <1>6, <2>2 DEF A!RspLoop, A!Running
  <2>3. CASE A!Panic
    BY Zenon, <1>0, <2>3, Panicked
  <2> QED BY Zenon, <1>6, <2>1, <2>2, <2>3 DEF A!RspLoop
<1>7. CASE A!ReqLoop
  <2>1. CASE req # <<>> /\ A!handle_req(Head(req))
    BY Zenon, <1>0, <1>7, <2>1, ReqTracked DEF A!ReqLoop
  <2>2. CASE UNCHANGED <<fetch, req, waiting>>
    BY SMTT(60), <1>2, <1>7, <2>2 DEF A!ReqLoop, A!Running
  <2> QED BY Zenon, <1>7, <2>1, <2>2 DEF A!ReqLoop
<1>8. ASSUME NEW q \in Reqs, A!Fetch(q) PROVE FetchType' /\ A!FetchTracked'
  <2>1. /\ fetch[q].at = "new" /\ UNCHANGED <<waiting, runtime>>
        /\ ~Has(req, q) /\ \A j \in Ips : q \notin waiting[j]
    BY Zenon, <1>0, <1>8 DEF A!Fetch, FetchType, Made
  <2>2. PICK ip \in Ips, at \in {"sent", "failed"} :
          /\ fetch' = [fetch EXCEPT ![q] = [ip |-> ip, at |-> at]]
          /\ IF at = "sent" THEN req' = Append(req, q) ELSE ~A!Running /\ req' = req
    BY <1>8 DEF A!Fetch
  <2>3. fetch' \in [Reqs -> Fetched] /\ fetch'[q].ip = ip /\ fetch'[q].at = at
    BY SMTT(60), <1>1, <2>2 DEF Fetched
  <2>4. \A r \in Reqs : r # q => fetch'[r] = fetch[r]
    BY SMTT(60), <1>1, <2>2
  <2>5. /\ req' \in Seq(Reqs)
        /\ \A r \in Reqs : r # q => (Has(req', r) <=> Has(req, r))
        /\ at = "sent" => Has(req', q)
    <3>1. CASE at = "sent"
      <4>1. req' = Append(req, q) /\ req' \in Seq(Reqs)
        <5>1. req' = Append(req, q)
          BY Zenon, <2>2, <3>1
        <5> QED BY <1>1, <5>1
      <4>2. \A r : Has(req', r) <=> Has(req, r) \/ r = q
        BY Zenon, <1>1, <4>1, HasPut
      <4> QED BY Zenon, <4>1, <4>2
    <3>2. CASE at # "sent"
      BY Zenon, <1>1, <2>2, <3>2
    <3> QED BY Zenon, <3>1, <3>2
  <2>6. ASSUME NEW r \in Reqs
        PROVE  IF fetch'[r].at = "new" THEN ~Has(req', r) /\ \A j \in Ips : r \notin waiting'[j]
               ELSE fetch'[r].ip \in Ips
    <3>1. CASE r = q
      BY SMTT(60), <2>3, <3>1
    <3>2. CASE r # q
      BY Zenon, <1>0, <2>1, <2>4, <2>5, <3>2 DEF FetchType, Made
    <3> QED BY Zenon, <3>1, <3>2
  <2>7. Made'
    BY Zenon, <2>6 DEF Made, Has
  <2>8. ASSUME NEW j \in Ips, NEW r \in waiting'[j] PROVE fetch'[r].ip = j
    <3>1. r # q /\ r \in waiting[j] /\ r \in Reqs
      BY Zenon, <1>1, <2>1 DEF WaitingType
    <3> QED BY Zenon, <1>0, <2>4, <3>1 DEF FetchType
  <2>9. ASSUME A!Running', NEW r \in Reqs, fetch'[r].at = "sent"
        PROVE  Has(req', r) \/ r \in waiting'[fetch'[r].ip]
    <3>1. CASE r = q
      BY Zenon, <2>3, <2>5, <2>9, <3>1
    <3>2. CASE r # q
      <4>1. A!Running /\ fetch'[r] = fetch[r] /\ waiting' = waiting
        BY Zenon, <2>1, <2>4, <2>9, <3>2 DEF A!Running
      <4>2. Has(req, r) \/ r \in waiting[fetch[r].ip]
        BY Zenon, <1>0, <2>9, <4>1 DEF A!FetchTracked, Has
      <4> QED BY Zenon, <2>5, <3>2, <4>1, <4>2
    <3> QED BY Zenon, <3>1, <3>2
  <2>10. A!FetchTracked'
    BY Zenon, <2>9 DEF A!FetchTracked, Has
  <2> QED BY Zenon, <1>1, <2>1, <2>3, <2>5, <2>7, <2>8, <2>10 DEF FetchType, WaitingType
<1>9. ASSUME NEW q \in Reqs, A!FetchTimeout(q) PROVE FetchType' /\ A!FetchTracked'
  <2>1. fetch[q].at = "sent" /\ fetch' = [fetch EXCEPT ![q].at = "failed"] /\ UNCHANGED <<req, waiting, runtime>>
    BY Zenon, <1>9 DEF A!FetchTimeout
  <2>2. /\ fetch' \in [Reqs -> Fetched]
        /\ \A r \in Reqs : /\ fetch'[r].ip = fetch[r].ip
                           /\ fetch'[r].at = "new" <=> fetch[r].at = "new"
                           /\ fetch'[r].at = "sent" => fetch[r].at = "sent"
    BY SMTT(60), <1>1, <2>1 DEF Fetched
  <2>3. WaitingType' /\ waiting' = waiting /\ req' = req /\ (A!Running' => A!Running)
    BY Zenon, <1>1, <2>1 DEF WaitingType, A!Running
  <2> QED BY Zenon, <1>0, <1>1, <2>2, <2>3, Tracked
<1> QED BY Zenon, <1>3, <1>4, <1>5, <1>6, <1>7, <1>8, <1>9 DEF A!Next, A!CacheRuntime

\* For any addresses, networks, requests and batch size: the agent forgets no
\* request, whatever the service answers, pushes or leaves out, and whichever of its
\* two runtimes ends first; and every query that IpLocationQueryHandle is making has
\* its timeout armed, with no timeout left of one that is over.
THEOREM LocateCorrect == A!Spec => []LocateRight
<1>0. Batch \in Nat
  BY Zenon, IpLocateAssumption DEF A!Bounds
<1>1. LocateInv /\ [A!Next]_(A!vars) => LocateInv'
  <2>1. QueryType' /\ TableType' /\ FetchType' => (A!TypeOK /\ WaitingType /\ Made)'
    BY Zenon DEF A!TypeOK, QueryType, TableType, FetchType, Fetched, Locations, WaitingType
  <2> QED BY Zenon, <1>0, <2>1, QueryNext, TableNext, FetchNext DEF LocateInv, A!LocateRight
<1>2. LocateInv => LocateRight
  BY Zenon DEF LocateInv, LocateRight
<1>3. A!Init => LocateInv
  BY Zenon, <1>0, LocateInit
<1> QED BY <1>1, <1>2, <1>3, PTL DEF A!Spec

HIDE DEF A!handles

-----------------------------------------------------------------------------
(* The hickory driver *)

USE HickoryAssumption DEF driver, jobs, clients, Servers, is_ok

-----------------------------------------------------------------------------
(* What a step may do to the driver, the channel and the requests *)

Asked ==
  /\ pc \in {"start", "loop"} /\ pc' = "loop"
  /\ tried < N /\ Ask(tried + 1)
  /\ UNCHANGED <<last_err, result, chan>>

Ended ==
  /\ pc \in {"loop", "tail"} /\ pc' = "done"
  /\ \/ /\ pc = "tail" /\ chan # 0 /\ result' = val[chan]
        /\ job' = [job EXCEPT ![chan] = "got"] /\ chan' = 0
     \/ /\ pc = "tail" /\ chan = 0 /\ Senders = {}
        /\ result' = IF last_err = 0 THEN "no response received" ELSE val[last_err]
        /\ UNCHANGED <<chan, job>>
     \/ /\ pc = "tail" /\ result' = IF last_err = 0 THEN "Timeout" ELSE val[last_err]
        /\ UNCHANGED <<chan, job>>
     \/ result' = "DriverTimedOut" /\ UNCHANGED <<chan, job>>
  /\ UNCHANGED <<tried, wait_left, last_err>>

\* a request goes on, and stays outstanding
WentOn ==
  /\ \/ UNCHANGED job
     \/ \E c \in Servers, s \in {"lost", "dropped", "work", "send"} :
          job[c] \in {"queued", "work"} /\ job' = [job EXCEPT ![c] = s]
  /\ UNCHANGED <<driver, chan>>

Sent ==
  /\ \E c \in Servers :
       job[c] = "send" /\ chan = 0 /\ chan' = c /\ job' = [job EXCEPT ![c] = "sent"]
  /\ pc # "done"
  /\ UNCHANGED driver

GaveUp ==
  /\ \E c \in Servers : job[c] = "send" /\ job' = [job EXCEPT ![c] = "gone"]
  /\ pc = "done"
  /\ UNCHANGED <<driver, chan>>

Effect == Asked \/ Recv \/ Break \/ Ended \/ WentOn \/ Sent \/ GaveUp

-----------------------------------------------------------------------------
(* The inductive invariant *)

\* the channel holds the one answer that was sent and not received
ChanHolds ==
  /\ chan # 0 => job[chan] = "sent"
  /\ \A c \in Servers : job[c] = "sent" => chan = c

\* servers are asked in order
AskedInOrder == \A c \in Servers : job[c] = "none" <=> c > tried

Phase ==
  /\ pc = "start" => tried = 0
  /\ pc = "tail" => tried = N
  /\ tried = 0 => pc = "start"

TypeCore == TypeDriver /\ job \in [Servers -> JobStates] /\ val \in [Servers -> Answers \cup {"none"}]

IInv == TypeCore /\ ChanHolds /\ AskedInOrder /\ Phase /\ WaitLeftExact /\ AllTried

-----------------------------------------------------------------------------

\* Every step has one of the effects.
LEMMA StepEffect ==
  ASSUME TypeCore, Phase, [Next]_vars
  PROVE  Effect
<1>1. CASE SendFirst
  <2>1. tried = 0 /\ N > 0
    BY SMTT(60), <1>1 DEF SendFirst, Phase
  <2>2. Asked
    BY SMTT(60), <1>1, <2>1 DEF SendFirst, Asked
  <2> QED BY <2>2 DEF Effect
<1>2. CASE AskNext
  <2>1. Asked
    BY <1>2 DEF AskNext, Asked, TypeCore, TypeDriver
  <2> QED BY <2>1 DEF Effect
<1>3. CASE Recv
  BY Zenon, <1>3 DEF Effect
<1>4. CASE Break
  BY Zenon, <1>4 DEF Effect
<1>5. CASE TailRecv \/ TailNone \/ TailTimeout \/ Protect
  <2>1. Ended
    BY Zenon, <1>5 DEF TailRecv, TailNone, TailTimeout, Protect, EndErr, Return, Ended
  <2> QED BY <2>1 DEF Effect
<1>6. ASSUME NEW c \in Servers, Job(c)
      PROVE  Effect
  <2>1. CASE Spawn(c)
    <3>1. WentOn
      BY Zenon, <2>1 DEF Spawn, WentOn
    <3> QED BY <3>1 DEF Effect
  <2>2. CASE JobFails(c)
    <3>1. WentOn
      BY SMTT(60), <2>2 DEF JobFails, JobReturns, JobRestarts, WentOn
    <3> QED BY <3>1 DEF Effect
  <2>3. CASE JobTruncated(c) \/ JobFollows(c)
    <3>1. WentOn
      BY SMTT(60), <2>3 DEF JobTruncated, JobRestarts, JobFollows, WentOn
    <3> QED BY <3>1 DEF Effect
  <2>4. CASE JobAnswers(c)
    <3>1. WentOn
      BY Zenon, <2>4 DEF JobAnswers, JobReturns, WentOn
    <3> QED BY <3>1 DEF Effect
  <2>5. CASE JobSends(c)
    <3>1. Sent \/ GaveUp
      BY SMTT(60), <2>5 DEF JobSends, Sent, GaveUp
    <3> QED BY SMTT(60), <3>1 DEF Effect
  <2> QED BY SMTT(60), <1>6, <2>1, <2>2, <2>3, <2>4, <2>5 DEF Job
<1>7. ASSUME NEW c \in Servers, Client(c)
      PROVE  Effect
  <2>1. CASE ClientStarts(c)
    <3>1. WentOn
      <4>1. UNCHANGED <<driver, chan>>
        BY SMTT(60), <2>1 DEF ClientStarts
      <4>2. PICK s \in {"lost", "dropped"} :
              UNCHANGED job \/ job' = [job EXCEPT ![c] = IF @ = "queued" THEN s ELSE @]
        BY SMTT(60), <2>1 DEF ClientStarts
      <4>3. CASE job[c] = "queued" /\ ~ UNCHANGED job
        BY SMTT(60), <4>1, <4>2, <4>3 DEF WentOn
      <4>4. CASE job[c] # "queued"
        <5>1. UNCHANGED job
          BY SMTT(60), <4>2, <4>4 DEF TypeCore
        <5> QED BY SMTT(60), <4>1, <5>1 DEF WentOn
      <4>5. CASE UNCHANGED job
        BY SMTT(60), <4>1, <4>5 DEF WentOn
      <4> QED BY SMTT(60), <4>3, <4>4, <4>5
    <3> QED BY <3>1 DEF Effect
  <2>2. CASE CheckTick(c) \/ BuildEnds(c) \/ Replace(c)
    <3>1. WentOn
      BY <2>2 DEF CheckTick, BuildEnds, Replace, WentOn
    <3> QED BY <3>1 DEF Effect
  <2> QED BY SMTT(60), <1>7, <2>1, <2>2 DEF Client
<1>8. CASE UNCHANGED vars
  <2>1. WentOn
    BY SMTT(60), <1>8 DEF vars, WentOn
  <2> QED BY SMTT(60), <2>1 DEF Effect
<1> QED BY SMTT(60), <1>1, <1>2, <1>3, <1>4, <1>5, <1>6, <1>7, <1>8 DEF Next, Driver

\* Answers stay answers.
LEMMA ValType ==
  ASSUME TypeCore, [Next]_vars
  PROVE  val' \in [Servers -> Answers \cup {"none"}]
<1> USE DEF TypeCore
<1>1. CASE UNCHANGED val
  BY SMTT(60), <1>1
<1>2. ASSUME NEW c \in Servers, NEW v \in Answers, JobReturns(c, v)
      PROVE  val' \in [Servers -> Answers \cup {"none"}]
  BY SMTT(60), <1>2 DEF JobReturns
<1>3. ASSUME NEW c \in Servers, Job(c)
      PROVE  val' \in [Servers -> Answers \cup {"none"}]
  <2>1. UNCHANGED val \/ \E v \in Answers : JobReturns(c, v)
    BY Zenon, <1>3 DEF Job, Spawn, JobFails, JobRestarts, JobTruncated, JobAnswers, JobFollows, JobSends, Answers
  <2> QED BY SMTT(60), <2>1, <1>1, <1>2
<1>4. CASE Driver \/ Protect
  <2>1. UNCHANGED val
    BY Zenon, <1>4 DEF Driver, Protect, SendFirst, Recv, AskNext, Break, TailRecv, TailNone, TailTimeout
  <2> QED BY <2>1, <1>1
<1>5. ASSUME NEW c \in Servers, Client(c)
      PROVE  UNCHANGED val
  BY Zenon, <1>5 DEF Client, ClientStarts, CheckTick, BuildEnds, Replace
<1>6. CASE UNCHANGED vars
  <2>1. UNCHANGED val
    BY Zenon, <1>6 DEF vars
  <2> QED BY <2>1, <1>1
<1> QED BY SMTT(60), <1>1, <1>3, <1>4, <1>5, <1>6 DEF Next

-----------------------------------------------------------------------------
(* The set of outstanding requests *)

LEMMA OutstandingFinite ==
  IsFiniteSet(Outstanding) /\ Cardinality(Outstanding) \in Nat
<1>1. IsFiniteSet(Servers)
  BY FS_Interval
<1>2. Outstanding \in SUBSET Servers
  BY DEF Outstanding
<1>3. IsFiniteSet(Outstanding)
  BY Zenon, <1>1, <1>2, FS_Subset
<1> QED BY SMTT(60), <1>3, FS_CardinalityType

\* Every effect adds, takes or keeps.
LEMMA OutstandingAsked ==
  ASSUME TypeCore, AskedInOrder, Asked
  PROVE  /\ tried' = tried + 1
         /\ \/ wait_left' = wait_left /\ Cardinality(Outstanding') = Cardinality(Outstanding) + 1
            \/ wait_left' = wait_left - 1 /\ Outstanding' = Outstanding
<1> DEFINE c == tried + 1
<1>1. c \in Servers /\ job[c] = "none"
  BY DEF Asked, TypeCore, TypeDriver, AskedInOrder
<1>2. CASE up[c] = "dead"
  <2>1. job' = [job EXCEPT ![c] = "refused"] /\ wait_left' = wait_left - 1 /\ tried' = c
    BY SMTT(60), <1>2 DEF Asked, Ask
  <2>2. Outstanding' = Outstanding
    BY SMTT(60), <1>1, <2>1 DEF Outstanding, TypeCore
  <2> QED BY SMTT(60), <2>1, <2>2
<1>3. CASE up[c] # "dead"
  <2>1. job' = [job EXCEPT ![c] = "queued"] /\ wait_left' = wait_left /\ tried' = c
    BY SMTT(60), <1>3 DEF Asked, Ask
  <2>2. Outstanding' = Outstanding \cup {c} /\ c \notin Outstanding
    BY SMTT(60), <1>1, <2>1 DEF Outstanding, TypeCore
  <2>3. Cardinality(Outstanding \cup {c}) = Cardinality(Outstanding) + 1
    BY SMTT(60), <2>2, OutstandingFinite, FS_AddElement
  <2> QED BY SMTT(60), <2>1, <2>2, <2>3
<1> QED BY SMTT(60), <1>2, <1>3

LEMMA OutstandingRecv ==
  ASSUME TypeCore, ChanHolds, Recv
  PROVE  /\ Cardinality(Outstanding') = Cardinality(Outstanding) - 1
         /\ Cardinality(Outstanding) > 0
<1>1. chan \in Servers /\ job[chan] = "sent" /\ job' = [job EXCEPT ![chan] = "got"]
  BY DEF Recv, TypeCore, TypeDriver, ChanHolds
<1>2. Outstanding' = Outstanding \ {chan} /\ chan \in Outstanding
  BY SMTT(60), <1>1 DEF Outstanding, TypeCore
<1>3. Cardinality(Outstanding \ {chan}) = Cardinality(Outstanding) - 1
  BY SMTT(60), <1>2, OutstandingFinite, FS_RemoveElement
<1>4. Outstanding # {}
  BY <1>2
<1>5. Cardinality(Outstanding) # 0
  BY SMTT(60), <1>4, OutstandingFinite, FS_EmptySet
<1> QED BY SMTT(60), <1>2, <1>3, <1>5, OutstandingFinite

LEMMA OutstandingKept ==
  ASSUME TypeCore, WentOn \/ Sent
  PROVE  Outstanding' = Outstanding
<1>1. CASE UNCHANGED job
  BY SMTT(60), <1>1 DEF Outstanding
<1>2. ASSUME NEW c \in Servers, NEW s \in {"lost", "dropped", "work", "send", "sent"},
             job[c] \in {"queued", "work", "send"}, job' = [job EXCEPT ![c] = s]
      PROVE  Outstanding' = Outstanding
  BY <1>2 DEF Outstanding, TypeCore
<1> QED BY SMTT(60), <1>1, <1>2 DEF WentOn, Sent

-----------------------------------------------------------------------------
(* The invariant is inductive *)

LEMMA InitIInv == Init => IInv
<1> SUFFICES ASSUME Init PROVE IInv
  BY SMTT(60)
<1>1. Outstanding = {}
  BY DEF Init, Outstanding
<1>2. Cardinality(Outstanding) = 0
  BY SMTT(60), <1>1, FS_EmptySet
<1>3. WaitLeftExact
  BY SMTT(60), <1>2 DEF Init, WaitLeftExact
<1>4. TypeCore
  BY DEF Init, TypeCore, TypeDriver, JobStates
<1>5. ChanHolds /\ AskedInOrder /\ Phase /\ AllTried
  BY DEF Init, ChanHolds, AskedInOrder, Phase, AllTried
<1> QED BY SMTT(60), <1>3, <1>4, <1>5 DEF IInv

LEMMA NextIInv == IInv /\ [Next]_vars => IInv'
<1> SUFFICES ASSUME IInv, [Next]_vars PROVE IInv'
  OBVIOUS
<1>0. /\ TypeCore /\ ChanHolds /\ AskedInOrder /\ Phase /\ WaitLeftExact /\ AllTried
      /\ Effect /\ val' \in [Servers -> Answers \cup {"none"}]
  BY SMTT(60), StepEffect, ValType DEF IInv
<1>c. Cardinality(Outstanding) \in Nat /\ Cardinality(Outstanding') \in Nat
  <2>1. ASSUME NEW S \in SUBSET Servers
        PROVE  Cardinality(S) \in Nat
    <3>1. IsFiniteSet(Servers)
      BY SMTT(60), FS_Interval
    <3> QED BY Zenon, <3>1, FS_Subset, FS_CardinalityType
  <2>2. Outstanding \in SUBSET Servers /\ Outstanding' \in SUBSET Servers
    BY DEF Outstanding
  <2> QED BY SMTT(60), <2>1, <2>2
<1>1. CASE Asked
  <2>1. tried' = tried + 1 /\ pc' = "loop" /\ pc \in {"start", "loop"} /\ tried < N
        /\ UNCHANGED <<last_err, result, chan>>
    BY SMTT(60), <1>0, <1>1, OutstandingAsked DEF Asked
  <2>2. PICK s \in {"refused", "queued"} : job' = [job EXCEPT ![tried + 1] = s]
    BY SMTT(60), <1>1 DEF Asked, Ask
  <2>3. wait_left' \in 0..N /\ WaitLeftExact'
    BY SMTT(60), <1>0, <1>1, <1>c, <2>1, OutstandingAsked DEF WaitLeftExact, TypeCore, TypeDriver
  <2>4. TypeCore'
    BY SMTT(60), <1>0, <2>1, <2>2, <2>3 DEF TypeCore, TypeDriver, JobStates
  <2>5. ChanHolds' /\ AskedInOrder'
    BY <1>0, <2>1, <2>2 DEF TypeCore, TypeDriver, ChanHolds, AskedInOrder
  <2>6. Phase' /\ AllTried'
    BY SMTT(60), <1>0, <2>1 DEF Phase, AllTried, TypeCore, TypeDriver
  <2> QED BY SMTT(60), <2>3, <2>4, <2>5, <2>6 DEF IInv
<1>2. CASE Recv
  <2>1. /\ chan \in Servers /\ pc = "loop" /\ wait_left' = wait_left - 1
        /\ job' = [job EXCEPT ![chan] = "got"] /\ chan' = 0 /\ tried' = tried /\ val' = val
    BY SMTT(60), <1>0, <1>2 DEF Recv, TypeCore, TypeDriver
  <2>2. \/ pc' = "done" /\ result' = val[chan] /\ last_err' = last_err
           /\ (is_ok(val[chan]) \/ wait_left' = 0)
        \/ last_err' = chan /\ pc' = pc /\ result' = result
    BY SMTT(60), <1>2 DEF Recv, Return
  <2>3. wait_left' \in 0..N /\ wait_left' = (N - tried) + Cardinality(Outstanding')
    BY SMTT(60), <1>0, <1>2, <1>c, <2>1, OutstandingRecv DEF WaitLeftExact, TypeCore, TypeDriver
  <2>4. TypeCore'
    BY SMTT(60), <1>0, <2>1, <2>2, <2>3 DEF TypeCore, TypeDriver, JobStates
  <2>5. ChanHolds' /\ AskedInOrder'
    BY SMTT(60), <1>0, <2>1 DEF TypeCore, TypeDriver, ChanHolds, AskedInOrder
  <2>6. Phase' /\ WaitLeftExact'
    BY SMTT(60), <1>0, <2>1, <2>2, <2>3 DEF Phase, WaitLeftExact
  <2>7. AllTried'
    BY SMTT(60), <1>0, <1>c, <2>1, <2>2, <2>3 DEF AllTried, TypeCore, TypeDriver
  <2> QED BY SMTT(60), <2>4, <2>5, <2>6, <2>7 DEF IInv
<1>3. CASE Break
  <2>1. pc = "loop" /\ pc' = "tail" /\ tried = N
        /\ UNCHANGED <<tried, wait_left, last_err, result, chan, job, val>>
    BY SMTT(60), <1>3 DEF Break
  <2>2. TypeCore' /\ ChanHolds' /\ AskedInOrder'
    BY SMTT(60), <1>0, <2>1 DEF TypeCore, TypeDriver, ChanHolds, AskedInOrder
  <2>3. Phase' /\ WaitLeftExact' /\ AllTried'
    BY SMTT(60), <1>0, <2>1 DEF Phase, WaitLeftExact, AllTried
  <2> QED BY SMTT(60), <2>2, <2>3 DEF IInv
<1>4. CASE Ended
  <2>1. pc \in {"loop", "tail"} /\ pc' = "done" /\ UNCHANGED <<tried, wait_left, last_err>>
    BY Zenon, <1>4 DEF Ended
  <2>2. \/ chan # 0 /\ job' = [job EXCEPT ![chan] = "got"] /\ chan' = 0
        \/ UNCHANGED <<chan, job>>
    BY Zenon, <1>4 DEF Ended
  <2>3. result' \in Answers \cup LocalErrors \cup {"none"} /\ (pc = "loop" => result' = "DriverTimedOut")
    <3>1. chan # 0 => val[chan] \in Answers \cup {"none"}
      BY SMTT(60), <1>0 DEF TypeCore, TypeDriver
    <3>2. last_err # 0 => val[last_err] \in Answers \cup {"none"}
      BY <1>0 DEF TypeCore, TypeDriver
    <3>3. /\ result' \in LocalErrors \/ (chan # 0 /\ result' = val[chan])
             \/ (last_err # 0 /\ result' = val[last_err])
          /\ pc = "loop" => result' = "DriverTimedOut"
      BY Zenon, <1>4 DEF Ended, LocalErrors
    <3> QED BY SMTT(60), <3>1, <3>2, <3>3
  <2>4. TypeCore'
    BY SMTT(60), <1>0, <2>1, <2>2, <2>3 DEF TypeCore, TypeDriver, JobStates
  <2>5. ChanHolds' /\ AskedInOrder'
    BY SMTT(60), <1>0, <2>1, <2>2 DEF TypeCore, TypeDriver, ChanHolds, AskedInOrder
  <2>6. Phase' /\ WaitLeftExact' /\ AllTried'
    BY SMTT(60), <1>0, <2>1, <2>3 DEF Phase, WaitLeftExact, AllTried
  <2> QED BY SMTT(60), <2>4, <2>5, <2>6 DEF IInv
<1>5. CASE WentOn \/ Sent
  <2>1. UNCHANGED driver
    BY SMTT(60), <1>5 DEF WentOn, Sent
  <2>2. TypeCore'
    BY SMTT(60), <1>0, <1>5 DEF TypeCore, TypeDriver, JobStates, WentOn, Sent
  <2>3. ChanHolds' /\ AskedInOrder'
    <3>1. CASE WentOn
      BY SMTT(60), <1>0, <3>1 DEF TypeCore, TypeDriver, ChanHolds, AskedInOrder, WentOn
    <3>2. CASE Sent
      BY SMTT(60), <1>0, <3>2 DEF TypeCore, TypeDriver, ChanHolds, AskedInOrder, Sent
    <3> QED BY SMTT(60), <1>5, <3>1, <3>2
  <2>4. Phase' /\ WaitLeftExact' /\ AllTried'
    BY SMTT(60), <1>0, <1>5, <2>1, OutstandingKept DEF Phase, WaitLeftExact, AllTried
  <2> QED BY <2>2, <2>3, <2>4 DEF IInv
<1>6. CASE GaveUp
  <2>1. UNCHANGED <<driver, chan>> /\ pc = "done"
    BY SMTT(60), <1>6 DEF GaveUp
  <2>2. TypeCore'
    BY SMTT(60), <1>0, <1>6 DEF TypeCore, TypeDriver, JobStates, GaveUp
  <2>3. ChanHolds' /\ AskedInOrder'
    BY SMTT(60), <1>0, <1>6 DEF TypeCore, TypeDriver, ChanHolds, AskedInOrder, GaveUp
  <2>4. Phase' /\ WaitLeftExact' /\ AllTried'
    BY SMTT(60), <1>0, <2>1 DEF Phase, WaitLeftExact, AllTried
  <2> QED BY <2>2, <2>3, <2>4 DEF IInv
<1> QED BY SMTT(60), <1>0, <1>1, <1>2, <1>3, <1>4, <1>5, <1>6 DEF Effect

\* HickoryResolver::run: wait_left is the number of servers not asked yet plus
\* the number of answers still to come, for any number of servers.
THEOREM WaitLeftCorrect == Spec => []WaitLeftExact
<1>1. IInv => WaitLeftExact
  BY SMTT(60) DEF IInv
<1> QED BY InitIInv, NextIInv, <1>1, PTL DEF Spec

\* HickoryResolver::run returns an error of its own accord only when every server
\* has been turned to.
THEOREM AllTriedCorrect == Spec => []AllTried
<1>1. IInv => AllTried
  BY SMTT(60) DEF IInv
<1> QED BY InitIInv, NextIInv, <1>1, PTL DEF Spec

-----------------------------------------------------------------------------
(* The rest of the types *)

TypeTimes ==
  /\ try_failed \in [Servers -> Int]
  /\ try_truncated \in [Servers -> BOOLEAN]
  /\ name \in [Servers -> 0..1]

LEMMA NextTypeRest ==
  ASSUME TypeTimes, TypeClients, [Next]_vars
  PROVE  TypeTimes' /\ TypeClients'
<1>1. CASE UNCHANGED <<try_failed, try_truncated, name, clients, failed_count>>
  BY SMTT(60), <1>1 DEF TypeTimes, TypeClients
<1>2. CASE Driver \/ Protect \/ UNCHANGED vars
  <2>1. UNCHANGED <<try_failed, try_truncated, name, clients, failed_count>>
    BY Zenon, <1>2 DEF vars, Driver, Protect, SendFirst, Recv, AskNext, Break, TailRecv, TailNone, TailTimeout
  <2> QED BY SMTT(60), <1>1, <2>1
<1>3. ASSUME NEW c \in Servers, Job(c)
      PROVE  TypeTimes' /\ TypeClients'
  <2>1. CASE Spawn(c)
    BY SMTT(60), <2>1 DEF Spawn, TypeTimes, TypeClients
  <2>2. CASE JobFails(c)
    <3>1. /\ name' = [name EXCEPT ![c] = 0]
          /\ try_failed' = [try_failed EXCEPT ![c] = try_failed[c] - 1]
          /\ failed_count' = [failed_count EXCEPT ![c] = failed_count[c] + 1]
          /\ UNCHANGED <<try_truncated, clients>>
      BY Zenon, <2>2 DEF JobFails, JobReturns, JobRestarts
    <3>2. TypeTimes'
      BY SMTT(60), <3>1 DEF TypeTimes
    <3>3. TypeClients'
      BY SMTT(60), <3>1 DEF TypeClients
    <3> QED BY Zenon, <3>2, <3>3
  <2>3. CASE JobTruncated(c)
    <3>1. /\ name' = [name EXCEPT ![c] = 0] \/ UNCHANGED name
          /\ try_truncated' = [try_truncated EXCEPT ![c] = FALSE]
          /\ UNCHANGED <<try_failed, clients, failed_count>>
      BY Zenon, <2>3 DEF JobTruncated, JobRestarts
    <3>2. name' \in [Servers -> 0..1]
      BY SMTT(60), <3>1 DEF TypeTimes
    <3>3. try_truncated' \in [Servers -> BOOLEAN]
      BY Zenon, <3>1 DEF TypeTimes
    <3> QED BY Zenon, <3>1, <3>2, <3>3 DEF TypeTimes, TypeClients, clients
  <2>4. CASE JobFollows(c)
    <3>1. /\ name' = [name EXCEPT ![c] = 1 - name[c]]
          /\ try_truncated' = [try_truncated EXCEPT ![c] = TRUE]
          /\ UNCHANGED <<try_failed, clients, failed_count>>
      BY Zenon, <2>4 DEF JobFollows
    <3>2. name' \in [Servers -> 0..1]
      BY SMTT(60), <3>1 DEF TypeTimes
    <3>3. try_truncated' \in [Servers -> BOOLEAN]
      BY Zenon, <3>1 DEF TypeTimes
    <3> QED BY Zenon, <3>1, <3>2, <3>3 DEF TypeTimes, TypeClients, clients
  <2>5. CASE JobAnswers(c)
    <3>1. /\ name' = [name EXCEPT ![c] = 0]
          /\ UNCHANGED <<try_failed, try_truncated, clients, failed_count>>
      BY Zenon, <2>5 DEF JobAnswers, JobReturns
    <3> QED BY SMTT(60), <3>1 DEF TypeTimes, TypeClients
  <2>6. CASE JobSends(c)
    <3>1. UNCHANGED <<try_failed, try_truncated, name, clients, failed_count>>
      BY Zenon, <2>6 DEF JobSends
    <3> QED BY SMTT(60), <1>1, <3>1
  <2> QED BY SMTT(60), <1>3, <2>1, <2>2, <2>3, <2>4, <2>5, <2>6 DEF Job
<1>4. ASSUME NEW c \in Servers, Client(c)
      PROVE  TypeTimes' /\ TypeClients'
  <2>1. UNCHANGED <<try_failed, try_truncated, name>>
    BY Zenon, <1>4 DEF Client, ClientStarts, CheckTick, BuildEnds, Replace
  <2>2. CASE ClientStarts(c)
    BY Zenon, <2>1, <2>2 DEF ClientStarts, TypeTimes, TypeClients
  <2>3. CASE CheckTick(c)
    BY SMTT(60), <2>1, <2>3 DEF CheckTick, TypeTimes, TypeClients
  <2>4. CASE BuildEnds(c)
    <3>1. PICK b \in BOOLEAN : ready' = [ready EXCEPT ![c] = ready[c] \/ b]
      BY Zenon, <2>4 DEF BuildEnds
    <3>2. ready' \in [Servers -> BOOLEAN]
      BY Zenon, <3>1 DEF TypeClients
    <3>3. /\ building[c] > 0 /\ building' = [building EXCEPT ![c] = building[c] - 1]
          /\ UNCHANGED <<up, failed_count>>
      BY Zenon, <2>4 DEF BuildEnds
    <3>4. building' \in [Servers -> Nat]
      BY SMTT(60), <3>3 DEF TypeClients
    <3> QED BY Zenon, <2>1, <3>2, <3>3, <3>4 DEF TypeTimes, TypeClients
  <2>5. CASE Replace(c)
    BY Zenon, <2>1, <2>5 DEF Replace, TypeTimes, TypeClients
  <2> QED BY SMTT(60), <1>4, <2>2, <2>3, <2>4, <2>5 DEF Client
<1> QED BY SMTT(60), <1>2, <1>3, <1>4 DEF Next

\* Types hold; above all wait_left of HickoryResolver::run stays within 0..N.
THEOREM TypeCorrect == Spec => []TypeOK
<1>1. Init => TypeTimes /\ TypeClients
  BY SMTT(60) DEF Init, TypeTimes, TypeClients
<1>2. IInv /\ TypeTimes /\ TypeClients => TypeOK
  BY DEF IInv, TypeCore, TypeTimes, TypeOK, TypeJobs
<1>3. IInv /\ TypeTimes /\ TypeClients /\ [Next]_vars => (IInv /\ TypeTimes /\ TypeClients)'
  BY SMTT(60), NextIInv, NextTypeRest
<1> QED BY InitIInv, <1>1, <1>2, <1>3, PTL DEF Spec

-----------------------------------------------------------------------------
(* No response means that nobody could answer *)

\* an answer that was received is the last error, unless it ended the query
NoneGot ==
  /\ pc # "done" => \A c \in Servers : job[c] # "gone"
  /\ pc # "done" /\ last_err = 0 => \A c \in Servers : job[c] # "got"

NInv == IInv /\ NoneGot /\ NoResponseMeansNone

LEMMA NextNInv == NInv /\ [Next]_vars => NInv'
<1> SUFFICES ASSUME NInv, [Next]_vars PROVE NoneGot' /\ NoResponseMeansNone'
  BY SMTT(60), NextIInv DEF NInv
<1>0. /\ TypeCore /\ ChanHolds /\ AskedInOrder /\ Phase /\ NoneGot /\ NoResponseMeansNone
      /\ Effect
  BY SMTT(60), StepEffect DEF NInv, IInv
<1>1. CASE Asked
  <2>1. PICK s \in {"refused", "queued"} : job' = [job EXCEPT ![tried + 1] = s]
    BY <1>1 DEF Asked, Ask
  <2>2. tried + 1 \in Servers /\ pc \in {"start", "loop"} /\ pc' = "loop"
        /\ UNCHANGED <<last_err, result>>
    BY SMTT(60), <1>0, <1>1 DEF Asked, TypeCore, TypeDriver
  <2>3. NoneGot'
    BY SMTT(60), <1>0, <2>1, <2>2 DEF TypeCore, NoneGot
  <2>4. NoResponseMeansNone'
    <3>1. job[tried + 1] = "none"
      BY <1>0, <2>2 DEF AskedInOrder, TypeCore, TypeDriver
    <3> QED BY Zenon, <1>0, <2>1, <2>2, <3>1 DEF TypeCore, NoResponseMeansNone
  <2> QED BY SMTT(60), <2>3, <2>4
<1>2. CASE Recv
  <2>1. chan \in Servers /\ pc = "loop" /\ job' = [job EXCEPT ![chan] = "got"] /\ job[chan] = "sent"
    BY SMTT(60), <1>0, <1>2 DEF Recv, TypeCore, TypeDriver, ChanHolds
  <2>2. (pc' = "done" /\ result' = val[chan]) \/ (last_err' = chan /\ pc' = pc /\ result' = result)
    BY SMTT(60), <1>2 DEF Recv, Return
  <2>3. NoneGot'
    BY SMTT(60), <1>0, <2>1, <2>2 DEF TypeCore, NoneGot
  <2>4. val[chan] # "no response received"
    BY Zenon, <1>0, <2>1 DEF TypeCore, Answers
  <2>5. result # "no response received"
    BY Zenon, <1>0, <2>1 DEF NoResponseMeansNone
  <2> QED BY Zenon, <2>2, <2>3, <2>4, <2>5 DEF NoResponseMeansNone
<1>3. CASE Break
  BY Zenon, <1>0, <1>3 DEF Break, NoneGot, NoResponseMeansNone
<1>4. CASE Ended
  <2>1. pc' = "done" /\ pc # "done"
    BY Zenon, <1>4 DEF Ended
  <2>2. NoneGot'
    BY <2>1 DEF NoneGot
  <2>3. ASSUME result' = "no response received"
        PROVE  pc = "tail" /\ chan = 0 /\ last_err = 0 /\ Senders = {} /\ job' = job
    <3>a. \A c \in Servers : val[c] # "no response received"
      BY Zenon, <1>0 DEF TypeCore, Answers
    <3>b. (chan # 0 => chan \in Servers) /\ (last_err # 0 => last_err \in Servers)
      BY <1>0 DEF TypeCore, TypeDriver
    <3>1. chan # 0 => val[chan] # "no response received"
      BY Zenon, <3>a, <3>b
    <3>2. last_err # 0 => val[last_err] # "no response received"
      BY Zenon, <3>a, <3>b
    <3> QED BY Zenon, <1>4, <2>3, <3>1, <3>2 DEF Ended
  <2>4. ASSUME pc = "tail", chan = 0, last_err = 0, Senders = {}, NEW c \in Servers
        PROVE  job[c] \in {"refused", "dropped"}
    <3>1. job[c] # "none"
      BY SMTT(60), <1>0, <2>4 DEF Phase, AskedInOrder, TypeCore, TypeDriver
    <3>2. job[c] \notin {"queued", "lost", "work", "send"}
      BY SMTT(60), <2>4 DEF Senders
    <3>3. job[c] \notin {"sent", "got", "gone"}
      BY SMTT(60), <1>0, <2>4 DEF ChanHolds, NoneGot
    <3>4. job[c] \in JobStates
      BY <1>0 DEF TypeCore
    <3> QED BY SMTT(60), <3>1, <3>2, <3>3, <3>4 DEF JobStates
  <2>5. NoResponseMeansNone'
    BY Zenon, <2>3, <2>4 DEF NoResponseMeansNone
  <2> QED BY SMTT(60), <2>2, <2>5
<1>5. CASE WentOn \/ Sent \/ GaveUp
  <2>1. UNCHANGED <<pc, last_err, result>>
    BY <1>5 DEF WentOn, Sent, GaveUp
  <2>2. CASE job' = job
    BY Zenon, <1>0, <2>1, <2>2 DEF NoneGot, NoResponseMeansNone
  <2>3. ASSUME NEW c \in Servers, NEW s \in {"lost", "dropped", "work", "send", "sent", "gone"},
               job[c] \in {"queued", "work", "send"}, job' = [job EXCEPT ![c] = s],
               pc # "done" => s # "gone"
        PROVE  NoneGot' /\ NoResponseMeansNone'
    <3>1. NoneGot'
      BY SMTT(60), <1>0, <2>1, <2>3 DEF TypeCore, NoneGot
    <3>2. result # "no response received"
      BY Zenon, <1>0, <2>3 DEF NoResponseMeansNone
    <3> QED BY Zenon, <2>1, <3>1, <3>2 DEF NoResponseMeansNone
  <2> QED BY SMTT(60), <1>5, <2>2, <2>3 DEF WentOn, Sent, GaveUp
<1> QED BY SMTT(60), <1>0, <1>1, <1>2, <1>3, <1>4, <1>5 DEF Effect

\* HickoryResolver::run reports "no response received" only when every request
\* was refused or dropped.
THEOREM NoResponseCorrect == Spec => []NoResponseMeansNone
<1>1. Init => NInv
  BY InitIInv DEF Init, NInv, NoneGot, NoResponseMeansNone
<1>2. NInv => NoResponseMeansNone
  BY DEF NInv
<1> QED BY <1>1, <1>2, NextNInv, PTL DEF Spec

-----------------------------------------------------------------------------
(* The fail_over driver, for either value of retry_empty_record *)

\* Before resolve() returns nothing is returned, and while both jobs may still
\* be used both exist and none is kept
Open ==
  /\ phase # "done" => by = "none" /\ answer = "none"
  /\ phase \in {"start", "first", "race"} => kept = "none"
  /\ phase \in {"start", "first"} => ~late
  /\ phase \in {"first", "race"} => \A j \in F!Jobs : ans[j] # "nojob"

\* The other job of the one awaited at "rest" was never there, or has answered
\* without success, or with a stale record that is kept
OtherSettled(j) ==
  \/ ans[j] = "nojob" /\ kept = "none"
  \/ ans[j] \in {"empty", "error", "closed"} /\ ~F!record_is_valid(ans[j]) /\ kept = "none"
  \/ ans[j] = "trash" /\ kept = j

AtRest == phase = "rest" => waits \in F!Jobs /\ ans[waits] # "nojob" /\ OtherSettled(F!Other(waits))

FInv == F!TypeOK /\ Open /\ AtRest /\ F!ErrorMeansNoSuccess /\ F!TimeoutLosesNoFresh /\ F!StaleLast

USE DEF F!Jobs, F!Other, F!Records, F!Absent, F!is_usable, F!is_ok, F!record_is_valid, F!Return,
        F!NormalizedRecord, F!Success

LEMMA FInit == F!Init => FInv
<1> SUFFICES ASSUME F!Init PROVE FInv
  OBVIOUS
<1> USE DEF F!Init
<1>1. ans \in [F!Jobs -> F!Records \cup F!Absent]
  BY Zenon
<1>2. F!TypeOK
  BY Zenon, <1>1 DEF F!TypeOK
<1>3. Open /\ AtRest
  BY SMTT(60) DEF Open, AtRest
<1>4. by \notin F!Jobs /\ by # "local"
  BY SMTT(60)
<1>5. F!ErrorMeansNoSuccess /\ F!TimeoutLosesNoFresh /\ F!StaleLast
  BY Zenon, <1>4 DEF F!ErrorMeansNoSuccess, F!TimeoutLosesNoFresh, F!StaleLast
<1> QED BY Zenon, <1>2, <1>3, <1>5 DEF FInv

\* The first answer of a job, with the other one still to be used
LEMMA FSettle ==
  ASSUME FInv, NEW j \in F!Jobs, phase \in {"first", "race"}, ans[j] \notin F!Absent, F!Settle(j)
  PROVE  FInv'
<1> USE DEF FInv
<1>1. F!TypeOK'
  BY SMTT(60) DEF F!Settle, F!TypeOK
<1>2. Open' /\ AtRest'
  BY SMTT(60) DEF F!Settle, F!TypeOK, Open, AtRest, OtherSettled
<1>3. F!ErrorMeansNoSuccess' /\ F!TimeoutLosesNoFresh' /\ F!StaleLast'
  BY SMTT(60) DEF F!Settle, F!TypeOK, Open, F!ErrorMeansNoSuccess, F!TimeoutLosesNoFresh, F!StaleLast
<1> QED BY SMTT(60), <1>1, <1>2, <1>3

LEMMA FNext == FInv /\ [F!Next]_(F!vars) => FInv'
<1> SUFFICES ASSUME FInv, [F!Next]_(F!vars) PROVE FInv'
  OBVIOUS
<1> USE DEF FInv, F!TypeOK, Open, AtRest, OtherSettled, F!ErrorMeansNoSuccess,
            F!TimeoutLosesNoFresh, F!StaleLast
<1>1. ASSUME NEW j \in F!Jobs, F!Answer(j) PROVE FInv'
  BY SMTT(60), <1>1 DEF F!Answer
<1>2. CASE F!Start
  BY SMTT(60), <1>2 DEF F!Start
<1>3. CASE F!RecvFirst
  BY Zenon, <1>3, FSettle DEF F!RecvFirst
<1>4. CASE F!FallbackDelay
  BY SMTT(60), <1>4 DEF F!FallbackDelay
<1>5. ASSUME NEW j \in F!Jobs, F!RecvRace(j) PROVE FInv'
  BY Zenon, <1>5, FSettle DEF F!RecvRace
<1>6. CASE F!RecvRest
  BY SMTT(60), <1>6 DEF F!RecvRest
<1>7. CASE F!Protect
  <2>1. /\ phase' = "done" /\ by' = "local" /\ answer' = "error"
        /\ UNCHANGED <<ans, waits, kept, late>>
    BY Zenon, <1>7 DEF F!Protect
  <2>2. ~F!record_is_valid(ans["primary"]) /\ (late => ~F!record_is_valid(ans["standby"]))
    <3>1. CASE phase = "first"
      BY SMTT(60), <1>7, <3>1 DEF F!Protect
    <3>2. CASE phase = "race"
      BY SMTT(60), <1>7, <3>2 DEF F!Protect
    <3>3. CASE phase = "rest"
      <4>1. ans[waits] = "pending" /\ waits \in F!Jobs
        BY SMTT(60), <1>7, <3>3 DEF F!Protect
      <4>2. ~F!record_is_valid(ans[waits])
        BY SMTT(60), <4>1
      <4>3. ~F!record_is_valid(ans[F!Other(waits)])
        BY SMTT(60), <3>3, <4>1
      <4> QED BY SMTT(60), <4>1, <4>2, <4>3
    <3> QED BY Zenon, <1>7, <3>1, <3>2, <3>3 DEF F!Protect
  <2>3. F!TypeOK'
    BY SMTT(60), <2>1
  <2>4. Open' /\ AtRest'
    BY SMTT(60), <2>1
  <2>5. F!ErrorMeansNoSuccess' /\ F!StaleLast'
    BY SMTT(60), <2>1
  <2>6. F!TimeoutLosesNoFresh'
    BY Zenon, <2>1, <2>2
  <2> QED BY Zenon, <2>3, <2>4, <2>5, <2>6
<1>8. CASE UNCHANGED F!vars
  BY SMTT(60), <1>8 DEF F!vars
<1> QED BY Zenon, <1>1, <1>2, <1>3, <1>4, <1>5, <1>6, <1>7, <1>8 DEF F!Next, F!Driver


\* resolve() of the fail_over driver returns the failure of a resolver only when both
\* have answered, or were never asked, and neither answer was a success; and a stale
\* record only when neither resolver gave a fresh usable one (select_trash_usable).  The
\* error of resolve_protective may come while a stale record is kept, but never when a
\* fresh valid answer was there to be received.
THEOREM FailOverCorrect == F!Spec => []FailOverRight
<1>1. FInv => FailOverRight
  BY Zenon DEF FInv, FailOverRight
<1> QED BY FInit, FNext, <1>1, PTL DEF F!Spec
=============================================================================
