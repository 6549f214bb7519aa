----------------------------- MODULE CacheProofs -----------------------------
(***************************************************************************)
(* Proofs about the effective cache with the query runtimes of the cert    *)
(* agent and of the route_query escaper, for any keys, any number of       *)
(* requests and any batch size.                                            *)
(***************************************************************************)
EXTENDS MCCaches, TLAPS

USE DEF channels, records, queries, qvars

Fetches == [key: Keys, only: BOOLEAN, at: {"new", "sent", "timeout", "done"}]

-----------------------------------------------------------------------------
(* Channels *)

LEMMA Taken ==
  ASSUME NEW S, NEW s \in Seq(S), s # <<>>
  PROVE  /\ Head(s) \in S /\ Tail(s) \in Seq(S)
         /\ 1 \in 1..Len(s) /\ s[1] = Head(s)
         /\ \A i \in 1..Len(Tail(s)) : i + 1 \in 1..Len(s) /\ Tail(s)[i] = s[i + 1]
         /\ \A i \in 1..Len(s) : i = 1 \/ (i - 1 \in 1..Len(Tail(s)) /\ Tail(s)[i - 1] = s[i])
  OBVIOUS

LEMMA Put ==
  ASSUME NEW S, NEW s \in Seq(S), NEW x \in S
  PROVE  /\ Append(s, x) \in Seq(S)
         /\ Len(s) + 1 \in 1..Len(Append(s, x)) /\ Append(s, x)[Len(s) + 1] = x
         /\ \A i \in 1..Len(s) : i \in 1..Len(Append(s, x)) /\ Append(s, x)[i] = s[i]
         /\ \A i \in 1..Len(Append(s, x)) : i = Len(s) + 1 \/ (i \in 1..Len(s) /\ Append(s, x)[i] = s[i])
  OBVIOUS

LEMMA InPut ==
  ASSUME NEW S, NEW s \in Seq(S), NEW x \in S
  PROVE  \A y : In(y, Append(s, x)) <=> In(y, s) \/ y = x
<1>1. ASSUME NEW y, In(y, Append(s, x)) PROVE In(y, s) \/ y = x
  BY <1>1, Put DEF In
<1>2. ASSUME NEW y, In(y, s) \/ y = x PROVE In(y, Append(s, x))
  BY <1>2, Put DEF In
<1> QED BY Zenon, <1>1, <1>2

LEMMA InTaken ==
  ASSUME NEW S, NEW s \in Seq(S), s # <<>>
  PROVE  /\ In(Head(s), s)
         /\ \A y : In(y, Tail(s)) => In(y, s)
         /\ \A y : In(y, s) => In(y, Tail(s)) \/ y = Head(s)
<1>1. In(Head(s), s)
  BY Taken DEF In
<1>2. ASSUME NEW y, In(y, Tail(s)) PROVE In(y, s)
  BY <1>2, Taken DEF In
<1>3. ASSUME NEW y, In(y, s) PROVE In(y, Tail(s)) \/ y = Head(s)
  <2>1. PICK i \in 1..Len(s) : s[i] = y
    BY <1>3 DEF In
  <2>2. i = 1 \/ (i - 1 \in 1..Len(Tail(s)) /\ Tail(s)[i - 1] = s[i])
    BY Taken
  <2>3. s[1] = Head(s)
    BY Taken
  <2> QED BY Zenon, <2>1, <2>2, <2>3 DEF In
<1> QED BY Zenon, <1>1, <1>2, <1>3

LEMMA DistinctPut ==
  ASSUME NEW S, NEW s \in Seq(S), NEW x \in S, Distinct(s), ~In(x, s)
  PROVE  Distinct(Append(s, x))
<1> SUFFICES ASSUME NEW i \in 1..Len(Append(s, x)), NEW j \in 1..Len(Append(s, x)),
                    Append(s, x)[i] = Append(s, x)[j]
             PROVE  i = j
  BY DEF Distinct
<1>1. Append(s, x)[Len(s) + 1] = x
  BY Put
<1>2. i = Len(s) + 1 \/ (i \in 1..Len(s) /\ Append(s, x)[i] = s[i])
  BY Put
<1>3. j = Len(s) + 1 \/ (j \in 1..Len(s) /\ Append(s, x)[j] = s[j])
  BY Put
<1> QED BY Zenon, <1>1, <1>2, <1>3 DEF Distinct, In

LEMMA DistinctTaken ==
  ASSUME NEW S, NEW s \in Seq(S), s # <<>>, Distinct(s)
  PROVE  Distinct(Tail(s)) /\ ~In(Head(s), Tail(s))
<1>1. Distinct(Tail(s))
  BY Taken DEF Distinct
<1>2. ~In(Head(s), Tail(s))
  <2> SUFFICES ASSUME NEW i \in 1..Len(Tail(s)), Tail(s)[i] = Head(s) PROVE FALSE
    BY DEF In
  <2>1. i + 1 \in 1..Len(s) /\ s[i + 1] = s[1] /\ 1 \in 1..Len(s)
    BY Taken
  <2>2. i + 1 = 1
    BY <2>1 DEF Distinct
  <2> QED BY <2>2
<1> QED BY <1>1, <1>2

-----------------------------------------------------------------------------
(* Where the queries are: q in the channel to the query handle, d in its   *)
(* doing_cache, s in the channel back; t is what the cache runtime waits   *)
(* for.                                                                    *)

One(q, d, s, t) ==
  /\ \A k \in Keys :
       /\ k \in t <=> In(k, q) \/ k \in d \/ In(k, s)
       /\ ~(In(k, q) /\ In(k, s)) /\ ~(k \in d /\ (In(k, q) \/ In(k, s)))
  /\ Distinct(q) /\ Distinct(s)

\* A query is sent for a key that has none.
LEMMA OneSent ==
  ASSUME NEW q \in Seq(Keys), NEW d, NEW s, NEW t, One(q, d, s, t),
         NEW k \in Keys, k \notin t
  PROVE  One(Append(q, k), d, s, t \cup {k})
<1>1. \A y : In(y, Append(q, k)) <=> In(y, q) \/ y = k
  BY Zenon, InPut
<1>2. Distinct(Append(q, k))
  BY Zenon, DistinctPut DEF One
<1> QED BY Zenon, <1>1, <1>2 DEF One

\* A result is taken by the cache runtime, which waits for it.
LEMMA OneTaken ==
  ASSUME NEW q, NEW d, NEW s \in Seq(Keys), NEW t, One(q, d, s, t), s # <<>>
  PROVE  Head(s) \in t /\ One(q, d, Tail(s), t \ {Head(s)})
<1>1. /\ In(Head(s), s) /\ Head(s) \in Keys
      /\ \A y : In(y, Tail(s)) => In(y, s)
      /\ \A y : In(y, s) => In(y, Tail(s)) \/ y = Head(s)
  BY Zenon, InTaken, Taken
<1>2. Distinct(Tail(s)) /\ ~In(Head(s), Tail(s))
  BY Zenon, DistinctTaken DEF One
<1> QED BY Zenon, <1>1, <1>2 DEF One

\* A query is taken by the query handle, and asked or answered at once.
LEMMA OneAsked ==
  ASSUME NEW q \in Seq(Keys), NEW d, NEW s \in Seq(Keys), NEW t, One(q, d, s, t), q # <<>>
  PROVE  /\ Head(q) \notin d
         /\ One(Tail(q), d \cup {Head(q)}, s, t)
         /\ One(Tail(q), d, Append(s, Head(q)), t)
<1>1. /\ In(Head(q), q) /\ Head(q) \in Keys
      /\ \A y : In(y, Tail(q)) => In(y, q)
      /\ \A y : In(y, q) => In(y, Tail(q)) \/ y = Head(q)
  BY Zenon, InTaken, Taken
<1>2. Distinct(Tail(q)) /\ ~In(Head(q), Tail(q))
  BY Zenon, DistinctTaken DEF One
<1>3. \A y : In(y, Append(s, Head(q))) <=> In(y, s) \/ y = Head(q)
  BY Zenon, InPut, <1>1
<1>4. Distinct(Append(s, Head(q)))
  BY Zenon, DistinctPut, <1>1 DEF One
<1> QED BY Zenon, <1>1, <1>2, <1>3, <1>4 DEF One

\* A query of the query handle is answered, or given up.
LEMMA OneBack ==
  ASSUME NEW q, NEW d, NEW s \in Seq(Keys), NEW t, One(q, d, s, t),
         NEW k \in Keys, k \in d
  PROVE  One(q, d \ {k}, Append(s, k), t)
<1>1. \A y : In(y, Append(s, k)) <=> In(y, s) \/ y = k
  BY Zenon, InPut
<1>2. Distinct(Append(s, k))
  BY Zenon, DistinctPut DEF One
<1> QED BY Zenon, <1>1, <1>2 DEF One

-----------------------------------------------------------------------------
(* The inductive invariant of the cache *)

\* A timer that is due is that of a stale record.
RecordType ==
  /\ cache \in [Keys -> {"none", "fresh", "stale"}]
  /\ vanish \in [Keys -> {"off", "set", "due"}]
  /\ \A k \in Keys : vanish[k] = "off" <=> cache[k] = "none"
  /\ \A k \in Keys : vanish[k] = "due" => cache[k] = "stale"

LoopType == pc \in {"rsp", "vanish", "req", "idle", "end", "panic"} /\ handled \in Nat

FetchType ==
  /\ fetch \in [Reqs -> Fetches] /\ req \in Seq(Reqs)
  /\ doing \subseteq Keys /\ waiting \in [Keys -> SUBSET Reqs]

QueryType ==
  /\ query \in Seq(Keys) /\ rsp \in Seq(Keys)
  /\ qdoing \subseteq Keys /\ qtimers \subseteq Keys /\ qrun \in BOOLEAN
  /\ TimeoutArmed

CInv == RecordType /\ LoopType /\ FetchType /\ QueryType /\ OneQueryPerKey /\ FetchTracked

LEMMA CInvType == ASSUME CInv PROVE CacheTypeOK
  BY Zenon DEF CInv, CacheTypeOK, RecordType, LoopType, FetchType, QueryType, Fetches

LEMMA CInvInit == ASSUME CInit PROVE CInv
<1>1. RecordType
  BY DEF CInit, RecordType
<1>2. LoopType
  BY DEF CInit, LoopType
<1>3. FetchType
  <2> DEFINE c == CHOOSE k \in Keys : TRUE
  <2>1. c \in Keys
    BY Zenon, CacheAssumption
  <2>2. /\ fetch = [r \in Reqs |-> [key |-> c, only |-> FALSE, at |-> "new"]]
        /\ req = <<>> /\ doing = {} /\ waiting = [k \in Keys |-> {}]
    BY Zenon DEF CInit
  <2> HIDE DEF c
  <2> QED BY <2>1, <2>2 DEF FetchType, Fetches
<1>4. QueryType
  BY DEF CInit, QueryType, TimeoutArmed
<1>5. OneQueryPerKey
  BY DEF CInit, OneQueryPerKey, In, Distinct
<1>6. FetchTracked
  BY DEF CInit, FetchTracked
<1> QED BY Zenon, <1>1, <1>2, <1>3, <1>4, <1>5, <1>6 DEF CInv

\* What the users of the cache, its runtime and time do.
CacheStep ==
  \/ CacheRuntime
  \/ \E k \in Keys : Age(k)
  \/ \E r \in Reqs : Fetch(r) \/ FetchTimeout(r)

\* What a query runtime does to the cache: it drops, asks or answers a query that
\* it takes, it answers or gives up one that it has, or it ends.
Others == <<fetch, req, records, queries, pc, handled>>

TakeQuery ==
  /\ query # <<>> /\ query' = Tail(query)
  /\ \/ Head(query) \in qdoing /\ UNCHANGED <<qdoing, qtimers, rsp>>
     \/ raw_query(Head(query)) /\ UNCHANGED rsp
     \/ rsp' = (IF Running THEN Append(rsp, Head(query)) ELSE rsp) /\ UNCHANGED <<qdoing, qtimers>>
  /\ UNCHANGED <<Others, qrun>>

GiveBack(k) ==
  /\ \E expired \in BOOLEAN : send_rsp_data(k, expired)
  /\ UNCHANGED <<Others, query, qrun>>

Close ==
  /\ qrun' = FALSE /\ qdoing' = {} /\ qtimers' = {} /\ query' = <<>>
  /\ UNCHANGED <<Others, rsp>>

QueryStep == TakeQuery \/ (\E k \in Keys : GiveBack(k)) \/ Close

LEMMA RecordNext ==
  ASSUME CInv, CacheStep
  PROVE  RecordType' /\ (\A k \in Keys : cache[k] # "none" /\ cache'[k] = "none" => cache[k] = "stale")
<1>0. RecordType /\ QueryType /\ FetchType
  BY Zenon DEF CInv
<1>1. CASE UNCHANGED records
  BY Zenon, <1>0, <1>1 DEF RecordType
<1>2. CASE Wake \/ ReqLoop \/ \E r \in Reqs : Fetch(r) \/ FetchTimeout(r)
  BY Zenon, <1>1, <1>2 DEF Wake, ReqLoop, Fetch, FetchTimeout
<1>3. ASSUME NEW k \in Keys, Age(k)
      PROVE  RecordType' /\ (\A j \in Keys : cache[j] # "none" /\ cache'[j] = "none" => cache[j] = "stale")
  BY <1>0, <1>3 DEF RecordType, Age
<1>4. CASE RspLoop
  <2>1. CASE rsp # <<>> /\ handle_rsp(Head(rsp))
    <3>1. Head(rsp) \in Keys
      BY <1>0, <2>1, Taken DEF QueryType
    <3>2. CASE Head(rsp) \in doing
      <4>1. cache' = [cache EXCEPT ![Head(rsp)] = "fresh"] /\ vanish' = [vanish EXCEPT ![Head(rsp)] = "set"]
        BY Zenon, <2>1, <3>2 DEF handle_rsp
      <4> QED BY <1>0, <3>1, <4>1 DEF RecordType
    <3> QED BY Zenon, <1>1, <2>1, <3>2 DEF handle_rsp
  <2> QED BY Zenon, <1>1, <1>4, <2>1 DEF RspLoop
<1>5. CASE VanishLoop
  <2>1. CASE \E k \in Keys : vanish[k] = "due" /\ handle_vanish(k)
    BY <1>0, <2>1 DEF RecordType, handle_vanish
  <2> QED BY Zenon, <1>1, <1>5, <2>1 DEF VanishLoop
<1> QED BY Zenon, <1>2, <1>3, <1>4, <1>5 DEF CacheStep, CacheRuntime

LEMMA LoopNext ==
  ASSUME CInv, CacheStep
  PROVE  LoopType' /\ (Running' => Running)
<1>0. LoopType
  BY Zenon DEF CInv
<1>1. CASE UNCHANGED <<pc, handled>>
  BY Zenon, <1>0, <1>1 DEF LoopType, Running
<1>2. CASE (\E k \in Keys : Age(k)) \/ \E r \in Reqs : Fetch(r) \/ FetchTimeout(r)
  BY Zenon, <1>1, <1>2 DEF Age, Fetch, FetchTimeout
<1>3. CASE Wake \/ RspLoop \/ VanishLoop
  BY <1>0, <1>3 DEF LoopType, Running, Wake, RspLoop, VanishLoop, Panic
<1>4. CASE ReqLoop
  <2>1. handled' \in Nat
    BY SMTT(60), <1>0, <1>4 DEF LoopType, ReqLoop
  <2>2. pc' = pc \/ pc' \in {"panic", "rsp", "end", "idle"}
    BY Zenon, <1>4 DEF ReqLoop, handle_req, send_req, Panic
  <2>3. pc = "req"
    BY Zenon, <1>4 DEF ReqLoop
  <2> QED BY <2>1, <2>2, <2>3 DEF LoopType, Running
<1> QED BY Zenon, <1>2, <1>3, <1>4 DEF CacheStep, CacheRuntime

\* Those that are told have ended, the others are as they were.
LEMMA Told ==
  ASSUME FetchType, NEW rs, Notify(rs)
  PROVE  /\ fetch' \in [Reqs -> Fetches]
         /\ \A r \in Reqs : r \in rs => fetch'[r].at = "done"
         /\ \A r \in Reqs : r \notin rs => fetch'[r] = fetch[r]
<1>1. ASSUME NEW r \in Reqs PROVE [fetch[r] EXCEPT !.at = "done"] \in Fetches /\ [fetch[r] EXCEPT !.at = "done"].at = "done"
  BY DEF FetchType, Fetches
<1>2. \A r \in Reqs : fetch'[r] = IF r \in rs THEN [fetch[r] EXCEPT !.at = "done"] ELSE fetch[r]
  BY Zenon DEF Notify
<1>3. ASSUME NEW r \in Reqs PROVE fetch'[r] \in Fetches
  <2>1. fetch[r] \in Fetches
    BY Zenon DEF FetchType
  <2> QED BY Zenon, <1>1, <1>2, <2>1
<1>4. fetch' = [r \in Reqs |-> fetch'[r]]
  BY Zenon DEF Notify
<1>5. fetch' \in [Reqs -> Fetches]
  BY <1>3, <1>4
<1> QED BY Zenon, <1>1, <1>2, <1>5

LEMMA PanicNext ==
  ASSUME FetchType, Panic
  PROVE  FetchType' /\ FetchTracked'
<1>1. fetch' \in [Reqs -> Fetches]
  BY Zenon, Told DEF Panic
<1>2. FetchType'
  BY <1>1 DEF FetchType, Panic
<1>3. ~Running'
  BY DEF Panic, Running
<1> QED BY Zenon, <1>2, <1>3 DEF FetchTracked

LEMMA RspNext ==
  ASSUME FetchType, FetchTracked, NEW k \in Keys, handle_rsp(k), UNCHANGED <<req, pc>>
  PROVE  FetchType' /\ FetchTracked'
<1>1. CASE k \in doing
  <2>0. /\ Notify({r \in waiting[k] : fetch[r].at = "sent"})
        /\ doing' = doing \ {k} /\ waiting' = [waiting EXCEPT ![k] = {}]
    BY Zenon, <1>1 DEF handle_rsp
  <2>1. /\ fetch' \in [Reqs -> Fetches]
        /\ \A r \in Reqs : r \in {x \in waiting[k] : fetch[x].at = "sent"} => fetch'[r].at = "done"
        /\ \A r \in Reqs : r \notin {x \in waiting[k] : fetch[x].at = "sent"} => fetch'[r] = fetch[r]
    BY Zenon, <2>0, Told
  <2>2. FetchType'
    BY <2>0, <2>1 DEF FetchType
  <2>3. ASSUME Running', NEW r \in Reqs, fetch'[r].at = "sent"
        PROVE  In(r, req') \/ (fetch'[r].key \in doing' /\ r \in waiting'[fetch'[r].key])
    <3>1. r \notin {x \in waiting[k] : fetch[x].at = "sent"}
      BY <2>1, <2>3
    <3>2. fetch'[r] = fetch[r]
      BY Zenon, <2>1, <3>1
    <3>3. fetch[r].at = "sent" /\ r \notin waiting[k]
      BY Zenon, <3>1, <3>2, <2>3
    <3>4. Running /\ req' = req
      BY Zenon, <2>3 DEF Running
    <3>5. In(r, req) \/ (fetch[r].key \in doing /\ r \in waiting[fetch[r].key])
      BY Zenon, <3>3, <3>4 DEF FetchTracked
    <3>6. fetch[r].key \in Keys
      BY DEF FetchType, Fetches
    <3>7. fetch[r].key # k => waiting'[fetch[r].key] = waiting[fetch[r].key]
      BY Zenon, <2>0, <3>6 DEF FetchType
    <3> QED BY Zenon, <2>0, <3>2, <3>3, <3>4, <3>5, <3>7
  <2> QED BY Zenon, <2>2, <2>3 DEF FetchTracked
<1>2. CASE k \notin doing
  <2>1. UNCHANGED <<fetch, doing, waiting>>
    BY Zenon, <1>2 DEF handle_rsp
  <2> QED BY Zenon, <2>1 DEF FetchType, FetchTracked, Running
<1> QED BY Zenon, <1>1, <1>2

\* A request leaves the channel answered, or waits: for a query that was there, or
\* for the one that is sent for it, before which nobody waited for the key.
LEMMA ReqNext ==
  ASSUME FetchType, FetchTracked, Running, req # <<>>, handle_req(Head(req))
  PROVE  FetchType' /\ FetchTracked'
<1> DEFINE r == Head(req)
           k == fetch[r].key
           told == {r} \cap {x \in Reqs : fetch[x].at = "sent"}
<1>1. r \in Reqs /\ Tail(req) \in Seq(Reqs) /\ (\A y : In(y, req) => In(y, Tail(req)) \/ y = r)
  BY Zenon, Taken, InTaken DEF FetchType
<1>2. k \in Keys
  BY <1>1 DEF FetchType, Fetches
<1>3. CASE Panic
  BY Zenon, <1>3, PanicNext
<1>4. ASSUME req' = Tail(req),
             \A x \in Reqs : fetch'[x].at = "sent" => fetch'[x] = fetch[x],
             fetch'[r].at = "sent" => k \in doing' /\ r \in waiting'[k],
             \A j \in doing : j \in doing' /\ waiting[j] \subseteq waiting'[j]
      PROVE  FetchTracked'
  <2> SUFFICES ASSUME NEW x \in Reqs, fetch'[x].at = "sent"
               PROVE  In(x, req') \/ (fetch'[x].key \in doing' /\ x \in waiting'[fetch'[x].key])
    BY Zenon DEF FetchTracked
  <2>1. fetch'[x] = fetch[x]
    BY Zenon, <1>4
  <2>2. In(x, req) \/ (fetch[x].key \in doing /\ x \in waiting[fetch[x].key])
    BY Zenon, <2>1 DEF FetchTracked
  <2> QED BY Zenon, <1>1, <1>4, <2>1, <2>2
<1>5. CASE Notify(told) /\ req' = Tail(req) /\ UNCHANGED queries
  <2>1. /\ fetch' \in [Reqs -> Fetches]
        /\ \A x \in Reqs : x \in told => fetch'[x].at = "done"
        /\ \A x \in Reqs : x \notin told => fetch'[x] = fetch[x]
    BY Zenon, <1>5, Told
  <2>2. FetchType'
    BY Zenon, <1>1, <1>5, <2>1 DEF FetchType
  <2>3. \A x \in Reqs : fetch'[x].at = "sent" => fetch'[x] = fetch[x] /\ x \notin told
    BY <2>1
  <2>4. fetch'[r].at # "sent"
    BY Zenon, <1>1, <2>3
  <2> QED BY Zenon, <1>4, <1>5, <2>2, <2>3, <2>4
<1>6. CASE /\ Notify(told) /\ req' = Tail(req) /\ k \notin doing
           /\ doing' = doing \cup {k} /\ waiting' = [waiting EXCEPT ![k] = {}]
  <2>1. /\ fetch' \in [Reqs -> Fetches]
        /\ \A x \in Reqs : x \in told => fetch'[x].at = "done"
        /\ \A x \in Reqs : x \notin told => fetch'[x] = fetch[x]
    BY Zenon, <1>6, Told
  <2>2. FetchType'
    BY <1>1, <1>2, <1>6, <2>1 DEF FetchType
  <2>3. \A x \in Reqs : fetch'[x].at = "sent" => fetch'[x] = fetch[x] /\ x \notin told
    BY <2>1
  <2>4. fetch'[r].at # "sent"
    BY Zenon, <1>1, <2>3
  <2>5. \A j \in doing : j \in doing' /\ waiting[j] \subseteq waiting'[j]
    BY Zenon, <1>2, <1>6 DEF FetchType
  <2> QED BY Zenon, <1>4, <1>6, <2>2, <2>3, <2>4, <2>5
<1>7. CASE /\ req' = Tail(req) /\ UNCHANGED <<fetch, doing>> /\ k \in doing
           /\ waiting' = [waiting EXCEPT ![k] = @ \cup {r}]
  <2>1. FetchType'
    BY <1>1, <1>2, <1>7 DEF FetchType
  <2>2. r \in waiting'[k] /\ \A j \in doing : waiting[j] \subseteq waiting'[j]
    BY <1>1, <1>2, <1>7 DEF FetchType
  <2> QED BY Zenon, <1>4, <1>7, <2>1, <2>2
<1>8. CASE /\ req' = Tail(req) /\ UNCHANGED fetch /\ k \notin doing
           /\ doing' = doing \cup {k} /\ waiting' = [waiting EXCEPT ![k] = {r}]
  <2>1. FetchType'
    BY <1>1, <1>2, <1>8 DEF FetchType
  <2>2. r \in waiting'[k] /\ \A j \in doing : waiting[j] \subseteq waiting'[j]
    BY <1>1, <1>2, <1>8 DEF FetchType
  <2> QED BY Zenon, <1>4, <1>8, <2>1, <2>2
<1>9. \/ Panic
      \/ Notify(told) /\ req' = Tail(req) /\ UNCHANGED queries
      \/ /\ Notify(told) /\ req' = Tail(req) /\ k \notin doing
         /\ doing' = doing \cup {k} /\ waiting' = [waiting EXCEPT ![k] = {}]
      \/ /\ req' = Tail(req) /\ UNCHANGED <<fetch, doing>> /\ k \in doing
         /\ waiting' = [waiting EXCEPT ![k] = @ \cup {r}]
      \/ /\ req' = Tail(req) /\ UNCHANGED fetch /\ k \notin doing
         /\ doing' = doing \cup {k} /\ waiting' = [waiting EXCEPT ![k] = {r}]
  BY Zenon DEF handle_req, send_req
<1> QED BY Zenon, <1>3, <1>5, <1>6, <1>7, <1>8, <1>9

LEMMA FetchNext ==
  ASSUME CInv, CacheStep
  PROVE  FetchType' /\ FetchTracked'
<1>0. FetchType /\ FetchTracked /\ QueryType
  BY Zenon DEF CInv
<1>1. CASE UNCHANGED <<fetch, req, queries>> /\ (Running' => Running)
  BY Zenon, <1>0, <1>1 DEF FetchType, FetchTracked
<1>2. CASE Wake \/ VanishLoop \/ (\E k \in Keys : Age(k))
  <2>1. UNCHANGED <<fetch, req, queries>>
    BY Zenon, <1>2 DEF Wake, VanishLoop, Age
  <2> QED BY Zenon, <1>1, <2>1, LoopNext
<1>3. ASSUME NEW r \in Reqs, Fetch(r) PROVE FetchType' /\ FetchTracked'
  <2>1. PICK k \in Keys, only \in BOOLEAN :
          \/ /\ Running /\ req' = Append(req, r)
             /\ fetch' = [fetch EXCEPT ![r] = [key |-> k, only |-> only, at |-> "sent"]]
          \/ /\ ~Running /\ UNCHANGED req
             /\ fetch' = [fetch EXCEPT ![r] = [key |-> k, only |-> only, at |-> "done"]]
    BY Zenon, <1>3 DEF Fetch
  <2>2. UNCHANGED <<queries, pc>>
    BY Zenon, <1>3 DEF Fetch
  <2>3. CASE /\ Running /\ req' = Append(req, r)
             /\ fetch' = [fetch EXCEPT ![r] = [key |-> k, only |-> only, at |-> "sent"]]
    <3>1. req' \in Seq(Reqs) /\ \A y : In(y, req') <=> In(y, req) \/ y = r
      BY Zenon, <1>0, <2>3, Put, InPut DEF FetchType
    <3>2. fetch' \in [Reqs -> Fetches]
      BY <1>0, <2>3 DEF FetchType, Fetches
    <3>3. \A x \in Reqs : x # r => fetch'[x] = fetch[x]
      BY Zenon, <1>0, <2>3 DEF FetchType
    <3> QED BY Zenon, <1>0, <2>2, <2>3, <3>1, <3>2, <3>3 DEF FetchType, FetchTracked
  <2>4. CASE /\ ~Running /\ UNCHANGED req
             /\ fetch' = [fetch EXCEPT ![r] = [key |-> k, only |-> only, at |-> "done"]]
    <3>1. fetch' \in [Reqs -> Fetches]
      BY <1>0, <2>4 DEF FetchType, Fetches
    <3>2. ~Running'
      BY Zenon, <2>2, <2>4 DEF Running
    <3> QED BY Zenon, <1>0, <2>2, <2>4, <3>1, <3>2 DEF FetchType, FetchTracked
  <2> QED BY Zenon, <2>1, <2>3, <2>4
<1>4. ASSUME NEW r \in Reqs, FetchTimeout(r) PROVE FetchType' /\ FetchTracked'
  <2>1. UNCHANGED <<req, queries, pc>> /\ fetch' = [fetch EXCEPT ![r].at = "timeout"]
    BY Zenon, <1>4 DEF FetchTimeout
  <2>2. fetch' \in [Reqs -> Fetches] /\ fetch'[r].at = "timeout" /\ \A x \in Reqs : x # r => fetch'[x] = fetch[x]
    BY <1>0, <2>1 DEF FetchType, Fetches
  <2>3. fetch'[r].at # "sent"
    BY <2>2
  <2> QED BY Zenon, <1>0, <2>1, <2>2, <2>3 DEF FetchType, FetchTracked, Running
<1>5. CASE RspLoop
  <2>1. CASE rsp # <<>> /\ handle_rsp(Head(rsp)) /\ UNCHANGED <<req, pc>>
    BY Zenon, <1>0, <2>1, Taken, RspNext DEF QueryType
  <2>2. CASE Panic
    BY Zenon, <1>0, <2>2, PanicNext
  <2> QED BY Zenon, <1>1, <1>5, <2>1, <2>2, LoopNext DEF RspLoop
<1>6. CASE ReqLoop
  <2>1. CASE req # <<>> /\ handle_req(Head(req))
    <3>1. Running
      BY <1>6 DEF ReqLoop, Running
    <3> QED BY Zenon, <1>0, <2>1, <3>1, ReqNext
  <2> QED BY Zenon, <1>1, <1>6, <2>1, LoopNext DEF ReqLoop
<1> QED BY Zenon, <1>2, <1>3, <1>4, <1>5, <1>6 DEF CacheStep, CacheRuntime

LEMMA OneIs == OneQueryPerKey <=> (Running /\ qrun => One(query, qdoing, rsp, doing))
  BY Zenon DEF OneQueryPerKey, One

LEMMA OneIsNext == OneQueryPerKey' <=> (Running' /\ qrun' => One(query', qdoing', rsp', doing'))
  BY Zenon DEF OneQueryPerKey, One

LEMMA QueryNext ==
  ASSUME CInv, CacheStep
  PROVE  QueryType' /\ OneQueryPerKey'
<1>0. QueryType /\ FetchType
  BY Zenon DEF CInv
<1>a. UNCHANGED qvars
  BY Zenon DEF CacheStep, CacheRuntime, Wake, RspLoop, VanishLoop, ReqLoop, Age, Fetch, FetchTimeout
<1>b. Running /\ qrun => One(query, qdoing, rsp, doing)
  BY Zenon, OneIs DEF CInv
<1>c. Running' => Running
  BY Zenon, LoopNext
<1>1. CASE UNCHANGED <<query, rsp, doing>>
  <2>1. QueryType'
    BY Zenon, <1>0, <1>a, <1>1 DEF QueryType, TimeoutArmed
  <2> QED BY Zenon, <2>1, <1>a, <1>b, <1>c, <1>1, OneIsNext
<1>2. CASE Panic /\ UNCHANGED <<query, rsp>>
  <2>1. QueryType'
    BY Zenon, <1>0, <1>a, <1>2 DEF QueryType, TimeoutArmed
  <2>2. ~Running'
    BY <1>2 DEF Panic, Running
  <2> QED BY Zenon, <2>1, <2>2, OneIsNext
<1>3. CASE Wake \/ VanishLoop \/ (\E k \in Keys : Age(k)) \/ \E r \in Reqs : Fetch(r) \/ FetchTimeout(r)
  BY Zenon, <1>1, <1>3 DEF Wake, VanishLoop, Age, Fetch, FetchTimeout
<1>4. CASE RspLoop
  <2>1. CASE rsp # <<>> /\ handle_rsp(Head(rsp)) /\ rsp' = Tail(rsp) /\ UNCHANGED <<query, pc>>
    <3>1. QueryType'
      BY Zenon, <1>0, <1>a, <2>1, Taken DEF QueryType, TimeoutArmed
    <3>2. ASSUME Running', qrun' PROVE One(query', qdoing', rsp', doing')
      <4>1. One(query, qdoing, rsp, doing)
        BY Zenon, <1>a, <1>b, <1>c, <3>2
      <4>2. Head(rsp) \in doing /\ One(query, qdoing, Tail(rsp), doing \ {Head(rsp)})
        BY Zenon, <4>1, <1>0, <2>1, OneTaken DEF QueryType
      <4>3. doing' = doing \ {Head(rsp)}
        BY Zenon, <2>1, <4>2 DEF handle_rsp
      <4> QED BY Zenon, <1>a, <2>1, <4>2, <4>3
    <3> QED BY Zenon, <3>1, <3>2, OneIsNext
  <2> QED BY Zenon, <1>1, <1>2, <1>4, <2>1 DEF RspLoop
<1>5. CASE ReqLoop
  <2>1. CASE req # <<>> /\ handle_req(Head(req)) /\ UNCHANGED rsp
    <3> DEFINE k == fetch[Head(req)].key
    <3>1. \/ UNCHANGED <<query, doing>>
          \/ Panic /\ UNCHANGED query
          \/ k \notin doing /\ query' = Append(query, k) /\ doing' = doing \cup {k}
      BY Zenon, <2>1 DEF handle_req, send_req
    <3>2. Head(req) \in Reqs
      BY Zenon, <1>0, <2>1, Taken DEF FetchType
    <3>3. k \in Keys
      BY <1>0, <3>2 DEF FetchType, Fetches
    <3>4. CASE k \notin doing /\ query' = Append(query, k) /\ doing' = doing \cup {k}
      <4> HIDE DEF k
      <4>1. QueryType'
        BY Zenon, <1>0, <1>a, <2>1, <3>3, <3>4, Put DEF QueryType, TimeoutArmed
      <4>2. ASSUME Running', qrun' PROVE One(query', qdoing', rsp', doing')
        <5>1. One(query, qdoing, rsp, doing)
          BY Zenon, <1>a, <1>b, <1>c, <4>2
        <5>2. One(Append(query, k), qdoing, rsp, doing \cup {k})
          BY Zenon, <5>1, <1>0, <3>3, <3>4, OneSent DEF QueryType
        <5> QED BY Zenon, <1>a, <2>1, <3>4, <5>2
      <4> QED BY Zenon, <4>1, <4>2, OneIsNext
    <3> QED BY Zenon, <1>1, <1>2, <2>1, <3>1, <3>4
  <2> QED BY Zenon, <1>1, <1>5, <2>1 DEF ReqLoop
<1> QED BY Zenon, <1>3, <1>4, <1>5 DEF CacheStep, CacheRuntime

LEMMA CacheNext == ASSUME CInv, CacheStep PROVE CInv'
  BY Zenon, RecordNext, LoopNext, FetchNext, QueryNext DEF CInv

LEMMA SameNext == ASSUME CInv, UNCHANGED cvars PROVE CInv'
  BY Zenon DEF CInv, cvars, RecordType, LoopType, FetchType, QueryType, TimeoutArmed, OneQueryPerKey,
               FetchTracked, Running

LEMMA OthersNext ==
  ASSUME CInv, UNCHANGED Others
  PROVE  RecordType' /\ LoopType' /\ FetchType' /\ FetchTracked' /\ Running' = Running
  BY Zenon DEF CInv, Others, RecordType, LoopType, FetchType, FetchTracked, Running

LEMMA QueryRuntimeNext == ASSUME CInv, QueryStep PROVE CInv'
<1>0. QueryType
  BY Zenon DEF CInv
<1>a. UNCHANGED Others
  BY Zenon DEF QueryStep, TakeQuery, GiveBack, Close
<1>b. Running /\ qrun => One(query, qdoing, rsp, doing)
  BY Zenon, OneIs DEF CInv
<1>c. Running' = Running /\ doing' = doing
  BY Zenon, <1>a, OthersNext DEF Others
<1> SUFFICES QueryType' /\ (Running' /\ qrun' => One(query', qdoing', rsp', doing'))
  BY Zenon, <1>a, OthersNext, OneIsNext DEF CInv
<1>1. CASE TakeQuery
  <2> DEFINE k == Head(query)
  <2>0. query # <<>> /\ query' = Tail(query) /\ qrun' = qrun
    BY Zenon, <1>1 DEF TakeQuery
  <2>1. k \in Keys /\ Tail(query) \in Seq(Keys)
    BY Zenon, <1>0, <2>0, Taken DEF QueryType
  <2>2. \/ k \in qdoing /\ UNCHANGED <<qdoing, qtimers, rsp>>
        \/ qdoing' = qdoing \cup {k} /\ qtimers' = qtimers \cup {k} /\ rsp' = rsp
        \/ rsp' = (IF Running THEN Append(rsp, k) ELSE rsp) /\ UNCHANGED <<qdoing, qtimers>>
    BY Zenon, <1>1 DEF TakeQuery, raw_query
  <2>3. Append(rsp, k) \in Seq(Keys)
    BY Zenon, <1>0, <2>1, Put DEF QueryType
  <2>4. QueryType'
    BY Zenon, <1>0, <2>0, <2>1, <2>2, <2>3 DEF QueryType, TimeoutArmed
  <2>5. ASSUME Running', qrun' PROVE One(query', qdoing', rsp', doing')
    <3>1. /\ k \notin qdoing
          /\ One(Tail(query), qdoing \cup {k}, rsp, doing)
          /\ One(Tail(query), qdoing, Append(rsp, k), doing)
      BY Zenon, <1>0, <1>b, <1>c, <2>0, <2>5, OneAsked DEF QueryType
    <3> QED BY Zenon, <1>c, <2>0, <2>2, <2>5, <3>1
  <2> QED BY Zenon, <2>4, <2>5
<1>2. ASSUME NEW k \in Keys, GiveBack(k)
      PROVE  QueryType' /\ (Running' /\ qrun' => One(query', qdoing', rsp', doing'))
  <2>0. UNCHANGED <<query, qrun>>
    BY Zenon, <1>2 DEF GiveBack
  <2>1. PICK expired \in BOOLEAN : send_rsp_data(k, expired)
    BY Zenon, <1>2 DEF GiveBack
  <2>2. Append(rsp, k) \in Seq(Keys)
    BY Zenon, <1>0, Put DEF QueryType
  <2>3. CASE k \notin qdoing
    <3>1. UNCHANGED <<qdoing, rsp>> /\ qtimers' = qtimers
      BY Zenon, <1>0, <2>1, <2>3 DEF send_rsp_data, QueryType, TimeoutArmed
    <3> QED BY Zenon, <1>0, <1>b, <1>c, <2>0, <3>1 DEF QueryType, TimeoutArmed
  <2>4. CASE k \in qdoing
    <3>1. /\ qdoing' = qdoing \ {k} /\ qtimers' = qtimers \ {k}
          /\ rsp' = IF Running THEN Append(rsp, k) ELSE rsp
      BY Zenon, <2>1, <2>4 DEF send_rsp_data
    <3>2. QueryType'
      BY Zenon, <1>0, <2>0, <2>2, <3>1 DEF QueryType, TimeoutArmed
    <3>3. ASSUME Running', qrun' PROVE One(query', qdoing', rsp', doing')
      <4>1. One(query, qdoing, rsp, doing)
        BY Zenon, <1>b, <1>c, <2>0, <3>3
      <4>2. One(query, qdoing \ {k}, Append(rsp, k), doing)
        BY Zenon, <4>1, <1>0, <2>4, OneBack DEF QueryType
      <4> QED BY Zenon, <1>c, <2>0, <3>1, <3>3, <4>2
    <3> QED BY Zenon, <3>2, <3>3
  <2> QED BY Zenon, <2>3, <2>4
<1>3. CASE Close
  <2>1. query' \in Seq(Keys)
    BY <1>3 DEF Close
  <2> QED BY Zenon, <1>0, <1>3, <2>1 DEF Close, QueryType, TimeoutArmed
<1> QED BY Zenon, <1>1, <1>2, <1>3 DEF QueryStep

-----------------------------------------------------------------------------
(* The two query runtimes *)

CertType == write_queue \in Seq(Keys) /\ asked \subseteq Keys

RouteType ==
  /\ packets \in Seq(Keys \X Nat) /\ last_id \in Nat /\ sent_ids \subseteq Nat
  /\ id_key_map \subseteq Nat \X Keys /\ key_id_map \subseteq Keys \X Nat

\* The runtime of the cert agent serves the queries as QueryStep says.
LEMMA CertSteps ==
  ASSUME CInv, CertType, Next
  PROVE  (CacheStep \/ QueryStep \/ UNCHANGED cvars) /\ CertType'
<1>0. QueryType
  BY Zenon DEF CInv
<1> USE DEF Rest
<1>1. CASE \/ CacheRuntime /\ Cached
           \/ \E k \in Keys : Age(k) /\ Cached
           \/ \E r \in Reqs : (Fetch(r) \/ FetchTimeout(r)) /\ Cached
  BY Zenon, <1>1 DEF CacheStep, Cached, CertType
<1>2. CASE HandleReq
  <2>1. TakeQuery
    BY Zenon, <1>2 DEF HandleReq, TakeQuery, Others
  <2>2. asked' = asked /\ (write_queue' = write_queue \/ write_queue' = Append(write_queue, Head(query)))
    BY Zenon, <1>2 DEF HandleReq
  <2>3. Head(query) \in Keys
    BY Zenon, <1>0, <2>1, Taken DEF QueryType, TakeQuery
  <2>4. Append(write_queue, Head(query)) \in Seq(Keys)
    BY Zenon, <2>3, Put DEF CertType
  <2> QED BY Zenon, <2>1, <2>2, <2>4 DEF QueryStep, CertType
<1>3. CASE SendOk
  <2>1. Head(write_queue) \in Keys /\ Tail(write_queue) \in Seq(Keys)
    BY Zenon, <1>3, Taken DEF SendOk, CertType
  <2> QED BY Zenon, <1>3, <2>1 DEF SendOk, CertType
<1>4. CASE SendErr
  <2>1. Head(write_queue) \in Keys /\ Tail(write_queue) \in Seq(Keys)
    BY Zenon, <1>4, Taken DEF SendErr, CertType
  <2>2. GiveBack(Head(write_queue))
    BY Zenon, <1>4 DEF SendErr, GiveBack, Others
  <2> QED BY Zenon, <1>4, <2>1, <2>2 DEF SendErr, CertType, QueryStep
<1>5. ASSUME NEW k \in Keys, HandleRsp(k) \/ QueryTimeout(k)
      PROVE  (CacheStep \/ QueryStep \/ UNCHANGED cvars) /\ CertType'
  <2>1. GiveBack(k)
    BY Zenon, <1>5 DEF HandleRsp, QueryTimeout, GiveBack, Others
  <2>2. UNCHANGED <<write_queue, asked>>
    BY Zenon, <1>5 DEF HandleRsp, QueryTimeout
  <2> QED BY Zenon, <2>1, <2>2 DEF CertType, QueryStep
<1>6. CASE EndQuery
  <2>1. Close /\ asked' = asked /\ write_queue' = <<>>
    BY Zenon, <1>6 DEF EndQuery, Close, Others
  <2>2. write_queue' \in Seq(Keys)
    BY <2>1
  <2> QED BY Zenon, <2>1, <2>2 DEF CertType, QueryStep
<1> QED BY Zenon, <1>1, <1>2, <1>3, <1>4, <1>5, <1>6 DEF Next, QueryRuntime, RecvErr, RecvNone

\* The cache is the same in both.
LEMMA SameCache ==
  /\ R!CacheRuntime <=> CacheRuntime
  /\ \A k \in Keys : R!Age(k) <=> Age(k)
  /\ \A r \in Reqs : (R!Fetch(r) <=> Fetch(r)) /\ (R!FetchTimeout(r) <=> FetchTimeout(r))
  /\ R!Running = Running /\ R!cvars = cvars
  /\ \A k, e : R!send_rsp_data(k, e) <=> send_rsp_data(k, e)
  /\ \A k : R!raw_query(k) <=> raw_query(k)
<1> USE DEF R!channels, R!records, R!queries, R!qvars, R!Running, Running, R!Notify, Notify, R!Panic, Panic
<1>1. R!Wake <=> Wake
  BY Zenon DEF R!Wake, Wake
<1>2. R!RspLoop <=> RspLoop
  BY Zenon DEF R!RspLoop, RspLoop, R!handle_rsp, handle_rsp
<1>3. R!VanishLoop <=> VanishLoop
  BY Zenon DEF R!VanishLoop, VanishLoop, R!handle_vanish, handle_vanish
<1>4. R!ReqLoop <=> ReqLoop
  BY Zenon DEF R!ReqLoop, ReqLoop, R!handle_req, handle_req, R!send_req, send_req, R!BatchDone, BatchDone
<1>5. \A k \in Keys : R!Age(k) <=> Age(k)
  BY Zenon DEF R!Age, Age
<1>6. \A r \in Reqs : (R!Fetch(r) <=> Fetch(r)) /\ (R!FetchTimeout(r) <=> FetchTimeout(r))
  BY Zenon DEF R!Fetch, Fetch, R!FetchTimeout, FetchTimeout
<1>7. R!Running = Running /\ R!cvars = cvars
  BY Zenon DEF R!cvars, cvars
<1>8. \A k, e : R!send_rsp_data(k, e) <=> send_rsp_data(k, e)
  BY Zenon DEF R!send_rsp_data, send_rsp_data
<1>9. \A k : R!raw_query(k) <=> raw_query(k)
  BY Zenon DEF R!raw_query, raw_query
<1> QED BY Zenon, <1>1, <1>2, <1>3, <1>4, <1>5, <1>6, <1>7, <1>8, <1>9 DEF R!CacheRuntime, CacheRuntime

\* The maps of ids, m from ids to keys and n back, for the queries d: ids are not
\* used twice, as new ones are above all of the old.
Ids(m, n, d, last) ==
  /\ \A i \in Nat, k \in Keys : <<i, k>> \in m <=> <<k, i>> \in n
  /\ \A k \in Keys : k \in d <=> \E i \in Nat : <<k, i>> \in n
  /\ \A k \in Keys, i, j \in Nat : <<k, i>> \in n /\ <<k, j>> \in n => i = j
  /\ \A i \in Nat, k, j \in Keys : <<i, k>> \in m /\ <<i, j>> \in m => k = j
  /\ \A i \in Nat, k \in Keys : <<i, k>> \in m => i <= last

LEMMA IdsMatch ==
  ASSUME RouteType, QueryType, Ids(id_key_map, key_id_map, qdoing, last_id)
  PROVE  R!IdsMatchQueries
<1>1. ASSUME NEW p \in id_key_map PROVE \E i \in Nat, k \in Keys : p = <<i, k>> /\ p[1] = i /\ p[2] = k
  BY DEF RouteType
<1>2. ASSUME NEW p \in key_id_map PROVE \E k \in Keys, i \in Nat : p = <<k, i>> /\ p[1] = k /\ p[2] = i
  BY DEF RouteType
<1>3. ASSUME NEW p \in id_key_map PROVE <<p[2], p[1]>> \in key_id_map
  <2>1. PICK i \in Nat, k \in Keys : p = <<i, k>> /\ p[1] = i /\ p[2] = k
    BY Zenon, <1>1
  <2>2. <<k, i>> \in key_id_map
    BY Zenon, <2>1 DEF Ids
  <2> QED BY Zenon, <2>1, <2>2
<1>4. ASSUME NEW q \in key_id_map PROVE q \in {<<p[2], p[1]>> : p \in id_key_map}
  <2>1. PICK k \in Keys, i \in Nat : q = <<k, i>>
    BY Zenon, <1>2
  <2>2. <<i, k>> \in id_key_map
    BY Zenon, <2>1 DEF Ids
  <2>3. q = <<(<<i, k>>)[2], (<<i, k>>)[1]>>
    BY <2>1
  <2> QED BY Zenon, <2>2, <2>3
<1>5. ASSUME NEW p \in key_id_map PROVE p[1] \in qdoing
  <2>1. PICK k \in Keys, i \in Nat : p = <<k, i>> /\ p[1] = k
    BY Zenon, <1>2
  <2>2. k \in qdoing
    BY Zenon, <2>1 DEF Ids
  <2> QED BY Zenon, <2>1, <2>2
<1>6. ASSUME NEW k \in qdoing PROVE k \in {p[1] : p \in key_id_map}
  <2>1. PICK i \in Nat : <<k, i>> \in key_id_map
    BY Zenon DEF Ids, QueryType
  <2>2. k = (<<k, i>>)[1]
    OBVIOUS
  <2> QED BY Zenon, <2>1, <2>2
<1>7. ASSUME NEW p \in key_id_map, NEW q \in key_id_map, p[1] = q[1] PROVE p = q
  <2>1. PICK k \in Keys, i \in Nat : p = <<k, i>> /\ p[1] = k
    BY Zenon, <1>2
  <2>2. PICK h \in Keys, j \in Nat : q = <<h, j>> /\ q[1] = h
    BY Zenon, <1>2
  <2>3. h = k /\ <<k, i>> \in key_id_map /\ <<k, j>> \in key_id_map
    BY Zenon, <1>7, <2>1, <2>2
  <2>4. i = j
    BY Zenon, <2>3 DEF Ids
  <2> QED BY Zenon, <2>1, <2>2, <2>3, <2>4
<1> QED BY Zenon, <1>3, <1>4, <1>5, <1>6, <1>7 DEF R!IdsMatchQueries

\* The ids of a key go with its query.
LEMMA IdsForget ==
  ASSUME NEW m, NEW n, NEW d, NEW last \in Nat, NEW k \in Keys, Ids(m, n, d, last)
  PROVE  Ids({p \in m : <<k, p[1]>> \notin n}, {p \in n : p[1] # k}, d \ {k}, last)
<1> DEFINE m2 == {p \in m : <<k, p[1]>> \notin n}
           n2 == {p \in n : p[1] # k}
<1>1. \A i, j : <<i, j>> \in m2 <=> <<i, j>> \in m /\ <<k, i>> \notin n
  OBVIOUS
<1>2. \A i, j : <<j, i>> \in n2 <=> <<j, i>> \in n /\ j # k
  OBVIOUS
<1> HIDE DEF m2, n2
<1> SUFFICES Ids(m2, n2, d \ {k}, last)
  BY Zenon DEF m2, n2
<1> QED BY Zenon, <1>1, <1>2 DEF Ids

\* An answer takes its id, and with it the key.
LEMMA IdsAnswer ==
  ASSUME NEW m, NEW n, NEW d, NEW last \in Nat, NEW i \in Nat, NEW k \in Keys,
         Ids(m, n, d, last), <<i, k>> \in m
  PROVE  Ids(m \ {<<i, k>>}, {q \in n : q[1] # k}, d \ {k}, last)
<1> DEFINE m2 == m \ {<<i, k>>}
           n2 == {q \in n : q[1] # k}
<1>1. \A h, j : <<h, j>> \in m2 <=> <<h, j>> \in m /\ ~(h = i /\ j = k)
  OBVIOUS
<1>2. \A h, j : <<j, h>> \in n2 <=> <<j, h>> \in n /\ j # k
  OBVIOUS
<1> HIDE DEF m2, n2
<1> SUFFICES Ids(m2, n2, d \ {k}, last)
  BY Zenon DEF m2, n2
<1> QED BY Zenon, <1>1, <1>2 DEF Ids

\* A new query gets an id that no other has.
LEMMA IdsAsk ==
  ASSUME NEW m, NEW n, NEW d, NEW last \in Nat, NEW k \in Keys, k \notin d, Ids(m, n, d, last)
  PROVE  Ids(m \cup {<<last + 1, k>>}, {p \in n : p[1] # k} \cup {<<k, last + 1>>}, d \cup {k}, last + 1)
<1> DEFINE id == last + 1
           m2 == m \cup {<<id, k>>}
           n2 == {p \in n : p[1] # k} \cup {<<k, id>>}
<1>1. \A h, j : <<h, j>> \in m2 <=> <<h, j>> \in m \/ (h = id /\ j = k)
  OBVIOUS
<1>2. \A h, j : <<j, h>> \in n2 <=> (<<j, h>> \in n /\ j # k) \/ (h = id /\ j = k)
  OBVIOUS
<1>3. id \in Nat /\ (\A i \in Nat : i <= last => i # id /\ i <= id) /\ id <= id
  OBVIOUS
<1> HIDE DEF id, m2, n2
<1>4. \A i \in Nat, j \in Keys : <<i, j>> \in m2 => i <= id
  BY Zenon, <1>1, <1>3 DEF Ids
<1> SUFFICES Ids(m2, n2, d \cup {k}, id)
  BY Zenon DEF m2, n2, id
<1>5. \A i \in Nat : <<k, i>> \notin n
  BY Zenon DEF Ids
<1>6. \A j \in Keys : <<id, j>> \notin m
  BY Zenon, <1>3 DEF Ids
<1>7. \A i \in Nat, j \in Keys : <<i, j>> \in m2 <=> <<j, i>> \in n2
  BY Zenon, <1>1, <1>2, <1>5 DEF Ids
<1>8. \A j \in Keys : j \in d \cup {k} <=> \E i \in Nat : <<j, i>> \in n2
  BY Zenon, <1>2, <1>3, <1>5 DEF Ids
<1>9. \A j \in Keys, i, h \in Nat : <<j, i>> \in n2 /\ <<j, h>> \in n2 => i = h
  <2> SUFFICES ASSUME NEW j \in Keys, NEW i \in Nat, NEW h \in Nat, <<j, i>> \in n2, <<j, h>> \in n2 PROVE i = h
    BY Zenon
  <2>1. CASE j = k
    BY <1>2, <2>1
  <2>2. CASE j # k
    BY Zenon, <1>2, <2>2 DEF Ids
  <2> QED BY Zenon, <2>1, <2>2
<1>10. \A i \in Nat, j, h \in Keys : <<i, j>> \in m2 /\ <<i, h>> \in m2 => j = h
  <2> SUFFICES ASSUME NEW i \in Nat, NEW j \in Keys, NEW h \in Keys, <<i, j>> \in m2, <<i, h>> \in m2 PROVE j = h
    BY Zenon
  <2>1. CASE i = id
    BY <1>1, <1>6, <2>1
  <2>2. CASE i # id
    BY Zenon, <1>1, <2>2 DEF Ids
  <2> QED BY Zenon, <2>1, <2>2
<1> QED BY Zenon, <1>4, <1>7, <1>8, <1>9, <1>10 DEF Ids

RouteInv == RouteType /\ Ids(id_key_map, key_id_map, qdoing, last_id)

\* A query that fails or expires leaves the maps and the query handle together.
LEMMA RouteFailed ==
  ASSUME CInv, RouteInv, NEW k \in Keys, NEW expired \in BOOLEAN,
         R!handle_query_failed(k, expired), UNCHANGED <<R!Rest, query, last_id, sent_ids>>
  PROVE  /\ GiveBack(k)
         /\ id_key_map' \subseteq id_key_map /\ key_id_map' \subseteq key_id_map
         /\ Ids(id_key_map', key_id_map', qdoing', last_id')
<1>1. send_rsp_data(k, expired)
  BY Zenon, SameCache DEF R!handle_query_failed
<1>2. GiveBack(k)
  BY Zenon, <1>1 DEF GiveBack, Others, R!Rest, R!records, R!queries
<1>3. qdoing' = qdoing \ {k}
  BY Zenon, <1>1 DEF send_rsp_data
<1>4. /\ id_key_map' = {p \in id_key_map : <<k, p[1]>> \notin key_id_map}
      /\ key_id_map' = {p \in key_id_map : p[1] # k}
  BY Zenon DEF R!handle_query_failed, R!Forget
<1>5. Ids(id_key_map', key_id_map', qdoing', last_id')
  <2>1. last_id' = last_id
    BY Zenon
  <2>2. Ids({p \in id_key_map : <<k, p[1]>> \notin key_id_map}, {p \in key_id_map : p[1] # k},
            qdoing \ {k}, last_id)
    BY IdsForget DEF RouteInv, RouteType
  <2> QED BY Zenon, <1>3, <1>4, <2>1, <2>2
<1> QED BY Zenon, <1>2, <1>4, <1>5

LEMMA RouteSteps ==
  ASSUME CInv, RouteInv, R!Next
  PROVE  (CacheStep \/ QueryStep \/ UNCHANGED cvars) /\ RouteInv'
<1>0. QueryType /\ RouteType
  BY Zenon DEF CInv, RouteInv
<1>1. CASE \/ R!CacheRuntime /\ R!Cached
           \/ \E k \in Keys : R!Age(k) /\ R!Cached
           \/ \E r \in Reqs : (R!Fetch(r) \/ R!FetchTimeout(r)) /\ R!Cached
  <2>1. CacheStep /\ R!Cached
    BY Zenon, <1>1, SameCache DEF CacheStep
  <2>2. qdoing' = qdoing
    BY Zenon, <2>1 DEF CacheStep, CacheRuntime, Wake, RspLoop, VanishLoop, ReqLoop, Age, Fetch, FetchTimeout
  <2> QED BY Zenon, <2>1, <2>2 DEF R!Cached, R!maps, RouteInv, RouteType
<1>2. CASE R!HandleReq
  <2> DEFINE k == Head(query)
  <2>0. query # <<>> /\ query' = Tail(query) /\ UNCHANGED <<Others, qrun, sent_ids>>
    BY Zenon, <1>2 DEF R!HandleReq, R!Rest, R!records, R!queries, Others
  <2>1. k \in Keys
    BY Zenon, <1>0, <2>0, Taken DEF QueryType
  <2>2. CASE /\ UNCHANGED <<qdoing, qtimers, packets, R!maps, last_id>>
             /\ (k \in qdoing /\ rsp' = rsp) \/ rsp' = (IF Running THEN Append(rsp, k) ELSE rsp)
    <3>1. TakeQuery
      BY Zenon, <2>0, <2>2 DEF TakeQuery
    <3> QED BY Zenon, <2>0, <2>2, <3>1 DEF QueryStep, RouteInv, RouteType, R!maps
  <2>3. CASE /\ raw_query(k) /\ rsp' = rsp
             /\ id_key_map' = id_key_map \cup {<<last_id + 1, k>>}
             /\ key_id_map' = {p \in key_id_map : p[1] # k} \cup {<<k, last_id + 1>>}
             /\ packets' = Append(packets, <<k, last_id + 1>>)
             /\ last_id' = last_id + 1
    <3>1. TakeQuery
      BY Zenon, <2>0, <2>3 DEF TakeQuery
    <3>2. Ids(id_key_map', key_id_map', qdoing', last_id')
      BY Zenon, <2>1, <2>3, IdsAsk DEF raw_query, RouteInv, RouteType
    <3>3. last_id + 1 \in Nat /\ <<k, last_id + 1>> \in Keys \X Nat /\ <<last_id + 1, k>> \in Nat \X Keys
      BY <1>0, <2>1 DEF RouteType
    <3>4. Append(packets, <<k, last_id + 1>>) \in Seq(Keys \X Nat)
      BY Zenon, <1>0, <3>3, Put DEF RouteType
    <3>5. RouteType'
      BY Zenon, <1>0, <2>0, <2>3, <3>3, <3>4 DEF RouteType
    <3> QED BY Zenon, <3>1, <3>2, <3>5 DEF QueryStep, RouteInv
  <2> QED BY Zenon, <1>2, <2>2, <2>3, SameCache DEF R!HandleReq, R!maps
<1>3. CASE R!SendOk
  <2>1. packets # <<>> /\ packets' = Tail(packets) /\ sent_ids' = sent_ids \cup {Head(packets)[2]}
    BY Zenon, <1>3 DEF R!SendOk
  <2>2. Head(packets) \in Keys \X Nat /\ Tail(packets) \in Seq(Keys \X Nat)
    BY Zenon, <1>0, <2>1, Taken DEF RouteType
  <2>3. Head(packets)[2] \in Nat
    BY <2>2
  <2>4. UNCHANGED <<cvars, id_key_map, key_id_map, last_id>>
    BY Zenon, <1>3, SameCache DEF R!SendOk, R!maps, R!cvars, cvars, R!channels, R!records, R!queries, R!qvars
  <2>5. RouteType'
    BY Zenon, <1>0, <2>1, <2>2, <2>3, <2>4 DEF RouteType
  <2> QED BY Zenon, <2>4, <2>5 DEF RouteInv, cvars
<1>4. CASE R!SendErr
  <2>1. packets # <<>> /\ packets' = Tail(packets)
    BY Zenon, <1>4 DEF R!SendErr
  <2>2. Head(packets) \in Keys \X Nat /\ Tail(packets) \in Seq(Keys \X Nat)
    BY Zenon, <1>0, <2>1, Taken DEF RouteType
  <2>3. Head(packets)[1] \in Keys
    BY <2>2
  <2>4. /\ GiveBack(Head(packets)[1])
        /\ id_key_map' \subseteq id_key_map /\ key_id_map' \subseteq key_id_map
        /\ Ids(id_key_map', key_id_map', qdoing', last_id')
    BY Zenon, <1>4, <2>3, RouteFailed DEF R!SendErr
  <2>5. UNCHANGED <<last_id, sent_ids>>
    BY Zenon, <1>4 DEF R!SendErr
  <2> QED BY Zenon, <1>0, <2>1, <2>2, <2>3, <2>4, <2>5 DEF RouteInv, RouteType, QueryStep
<1>5. ASSUME NEW k \in Keys, R!QueryTimeout(k)
      PROVE  (CacheStep \/ QueryStep \/ UNCHANGED cvars) /\ RouteInv'
  <2>1. /\ GiveBack(k)
        /\ id_key_map' \subseteq id_key_map /\ key_id_map' \subseteq key_id_map
        /\ Ids(id_key_map', key_id_map', qdoing', last_id')
    BY Zenon, <1>5, RouteFailed DEF R!QueryTimeout
  <2>2. UNCHANGED <<last_id, sent_ids, packets>>
    BY Zenon, <1>5 DEF R!QueryTimeout
  <2> QED BY Zenon, <1>0, <2>1, <2>2 DEF RouteInv, RouteType, QueryStep
<1>6. ASSUME NEW id \in sent_ids, R!HandleRsp(id)
      PROVE  (CacheStep \/ QueryStep \/ UNCHANGED cvars) /\ RouteInv'
  <2>1. PICK p \in id_key_map :
          /\ id_key_map' = id_key_map \ {p}
          /\ key_id_map' = {q \in key_id_map : q[1] # p[2]}
          /\ R!send_rsp_data(p[2], FALSE)
    BY Zenon, <1>6 DEF R!HandleRsp
  <2>2. PICK i \in Nat, k \in Keys : p = <<i, k>> /\ p[2] = k
    BY <1>0 DEF RouteType
  <2>3. send_rsp_data(k, FALSE) /\ UNCHANGED <<Others, query, qrun, packets, last_id, sent_ids>>
    BY Zenon, <1>6, <2>1, <2>2, SameCache DEF R!HandleRsp, R!Rest, R!records, R!queries, Others
  <2>4. GiveBack(k) /\ qdoing' = qdoing \ {k}
    BY Zenon, <2>3 DEF GiveBack, send_rsp_data
  <2>5. Ids(id_key_map', key_id_map', qdoing', last_id')
    BY Zenon, <1>0, <2>1, <2>2, <2>3, <2>4, IdsAnswer DEF RouteInv, RouteType
  <2>6. id_key_map' \subseteq id_key_map /\ key_id_map' \subseteq key_id_map
    BY Zenon, <2>1
  <2> QED BY Zenon, <1>0, <2>3, <2>4, <2>5, <2>6 DEF RouteInv, RouteType, QueryStep
<1>7. CASE R!EndQuery
  <2>1. Close
    BY Zenon, <1>7 DEF R!EndQuery, R!records, R!queries, Close, Others
  <2>2. /\ packets' = <<>> /\ id_key_map' = {} /\ key_id_map' = {} /\ qdoing' = {}
        /\ UNCHANGED <<last_id, sent_ids>>
    BY Zenon, <1>7 DEF R!EndQuery
  <2>3. packets' \in Seq(Keys \X Nat)
    BY <2>2
  <2> QED BY Zenon, <1>0, <2>1, <2>2, <2>3 DEF QueryStep, RouteInv, RouteType, Ids
<1> QED BY Zenon, <1>1, <1>2, <1>3, <1>4, <1>5, <1>6, <1>7 DEF R!Next, R!QueryRuntime, R!RecvErr, R!RecvNone

-----------------------------------------------------------------------------
(* Both together: which says whose steps are taken.                         *)

IInv ==
  /\ CInv /\ CertType /\ RouteType
  /\ which \in {"cert", "route"}
  /\ which = "route" => RouteInv

LEMMA IInvInit == ASSUME MCInit PROVE IInv
<1>1. CInv
  BY Zenon, CInvInit DEF MCInit, Init
<1>2. CertType
  BY DEF MCInit, Init, CertType
<1>3. RouteType
  BY DEF MCInit, R!Init, RouteType
<1>4. qdoing = {} /\ id_key_map = {} /\ key_id_map = {}
  BY Zenon DEF MCInit, Init, CInit, R!Init
<1>5. RouteInv
  BY Zenon, <1>3, <1>4 DEF RouteInv, Ids
<1> QED BY Zenon, <1>1, <1>2, <1>3, <1>5 DEF IInv, MCInit

LEMMA Steps ==
  ASSUME IInv, [MCNext]_mcvars
  PROVE  (CacheStep \/ QueryStep \/ UNCHANGED cvars) /\ IInv'
<1>1. CASE UNCHANGED mcvars
  <2>1. UNCHANGED cvars /\ UNCHANGED <<write_queue, asked, id_key_map, key_id_map, last_id, packets, sent_ids, which>>
    BY Zenon, <1>1 DEF mcvars, cert, route
  <2>2. CInv' /\ qdoing' = qdoing
    BY Zenon, <2>1, SameNext DEF IInv, cvars
  <2> QED BY Zenon, <2>1, <2>2 DEF IInv, CertType, RouteType, RouteInv
<1>2. CASE IsCert /\ Next
  <2>1. (CacheStep \/ QueryStep \/ UNCHANGED cvars) /\ CertType'
    BY Zenon, <1>2, CertSteps DEF IInv
  <2>2. CInv'
    BY Zenon, <2>1, CacheNext, QueryRuntimeNext, SameNext DEF IInv
  <2>3. which = "cert" /\ UNCHANGED <<id_key_map, key_id_map, last_id, packets, sent_ids, which>>
    BY Zenon, <1>2 DEF IsCert, route
  <2>4. which' # "route"
    BY <2>3
  <2> QED BY Zenon, <2>1, <2>2, <2>3, <2>4 DEF IInv, RouteType
<1>3. CASE IsRoute /\ R!Next
  <2>1. which = "route" /\ UNCHANGED <<write_queue, asked, which>>
    BY Zenon, <1>3 DEF IsRoute, cert
  <2>2. (CacheStep \/ QueryStep \/ UNCHANGED cvars) /\ RouteInv'
    BY Zenon, <1>3, <2>1, RouteSteps DEF IInv
  <2>3. CInv'
    BY Zenon, <2>2, CacheNext, QueryRuntimeNext, SameNext DEF IInv
  <2> QED BY Zenon, <2>1, <2>2, <2>3 DEF IInv, CertType, RouteInv
<1> QED BY Zenon, <1>1, <1>2, <1>3 DEF MCNext

LEMMA IInvMeans == ASSUME IInv PROVE CacheInv /\ RouteIdsMatch
<1>1. CacheTypeOK /\ QueryType /\ OneQueryPerKey /\ FetchTracked
  BY Zenon, CInvType DEF IInv, CInv
<1>2. TypeOK /\ TimeoutArmed
  BY Zenon, <1>1 DEF TypeOK, IInv, CertType, QueryType
<1>3. R!TypeOK
  BY Zenon, <1>1 DEF R!TypeOK, R!CacheTypeOK, CacheTypeOK, IInv, RouteType
<1>4. RouteIdsMatch
  BY Zenon, <1>1, IdsMatch DEF RouteIdsMatch, IInv, RouteInv
<1> QED BY Zenon, <1>1, <1>2, <1>3, <1>4 DEF CacheInv

LEMMA IInvAlways == MCInit /\ [][MCNext]_mcvars => []IInv
<1>1. MCInit => IInv
  BY Zenon, IInvInit
<1>2. IInv /\ [MCNext]_mcvars => IInv'
  BY Zenon, Steps
<1> QED BY <1>1, <1>2, PTL

\* The cache runtime and either query runtime agree: while both run, a key that the
\* cache waits for is exactly once in the channel to the query handle, in its
\* doing_cache, or in the channel back (send_req, should_send_raw_query,
\* send_rsp_data, handle_rsp); every query has its timeout armed; and every fetch
\* that is not over is in the channel of requests or waits for the query of its key.
THEOREM CacheCorrect == MCInit /\ [][MCNext]_mcvars => []CacheInv
<1>1. IInv => CacheInv
  BY Zenon, IInvMeans
<1> QED BY <1>1, IInvAlways, PTL

\* The maps of the route_query runtime are inverse to each other and hold exactly
\* the queries that wait for an answer, through answers, timeouts and failed sends.
THEOREM RouteIdsCorrect == MCInit /\ [][MCNext]_mcvars => []RouteIdsMatch
<1>1. IInv => RouteIdsMatch
  BY Zenon, IInvMeans
<1> QED BY <1>1, IInvAlways, PTL

\* handle_vanish drops no record that was renewed: insert_or_update moves its timer.
THEOREM VanishCorrect == MCInit /\ [][MCNext]_mcvars => VanishOnlyStale
<1> DEFINE Dropped == \A k \in Keys : cache[k] # "none" /\ cache'[k] = "none" => cache[k] = "stale"
<1>1. ASSUME IInv, [MCNext]_mcvars PROVE [Dropped]_cvars
  <2>1. CASE CacheStep
    BY Zenon, <1>1, <2>1, RecordNext DEF IInv
  <2>2. CASE QueryStep
    <3>1. cache' = cache
      BY Zenon, <2>2 DEF QueryStep, TakeQuery, GiveBack, Close, Others
    <3> QED BY Zenon, <3>1
  <2> QED BY Zenon, <1>1, <2>1, <2>2, Steps
<1> HIDE DEF Dropped
<1>2. [][MCNext]_mcvars /\ []IInv => [][Dropped]_cvars
  BY <1>1, PTL
<1> QED BY <1>2, IInvAlways, PTL DEF VanishOnlyStale, Dropped

=============================================================================
