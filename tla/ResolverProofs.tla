--------------------------- MODULE ResolverProofs ---------------------------
(***************************************************************************)
(* Proofs about the caching resolver, for any number of keys and requests, *)
(* any TTLs and any batch size above one.                                  *)
(***************************************************************************)
EXTENDS Resolver, TLAPS

USE DEF thread, wakeup, tables, clients, owner

\* What a driver may answer is a record: the TTLs of ResolvedRecord::resolved,
\* empty and failed never go below the clock.
LEMMA DriverRecordsType ==
  ASSUME now \in Nat
  PROVE  DriverRecords \subseteq Record
  BY ResolverAssumption
  DEF DriverRecords, Resolved, Negative, ExpireTtl, VanishTtl, Record, Kinds, NoTime

\* A response that the runtime takes from the channel names a key and a record, and
\* the senders that wait for its key are requests.
LEMMA HeadRsp ==
  ASSUME TypeOK, rspq # <<>>
  PROVE  /\ Head(rspq) \in Response
         /\ Head(rspq).key \in Keys /\ Head(rspq).rec \in Record
         /\ Tail(rspq) \in Seq(Response)
<1>1. Head(rspq) \in Response /\ Tail(rspq) \in Seq(Response)
  BY DEF TypeOK, ChannelType
<1> QED BY Zenon, <1>1 DEF Response

LEMMA SendersType ==
  ASSUME TypeOK, NEW k \in Keys
  PROVE  Senders(k) \in SUBSET Reqs
  BY DEF TypeOK, TableType, Senders, Elems

-----------------------------------------------------------------------------
(* Type correctness *)

\* The initial state of ResolverRuntime::new is well typed.
LEMMA TypeInit == Init => TypeOK
<1> SUFFICES ASSUME Init PROVE TypeOK
  OBVIOUS
<1>1. ThreadType
  BY Zenon DEF Init, ThreadType
<1>2. ChannelType
  BY DEF Init, ChannelType
<1>3. TableType
  BY DEF Init, TableType
<1>4. ClientType
  BY Zenon DEF Init, ClientType
<1> QED BY Zenon, <1>1, <1>2, <1>3, <1>4 DEF TypeOK

\* The clock, the thread and the owner stay well typed.
LEMMA ThreadTypeNext == TypeOK /\ [Next]_vars => ThreadType'
<1> SUFFICES ASSUME TypeOK, [Next]_vars PROVE ThreadType'
  OBVIOUS
<1> USE DEF TypeOK, ThreadType
<1>1. ASSUME NEW r \in Reqs, Get(r) PROVE ThreadType'
  BY Zenon, <1>1 DEF Get, Wake
<1>2. ASSUME NEW k \in Keys, NEW rec \in DriverRecords, Respond(k, rec) PROVE ThreadType'
  BY Zenon, <1>2 DEF Respond, Wake
<1>3. CASE Owner
  <2>1. CASE UpdateConfig
    BY <2>1 DEF UpdateConfig, Wake
  <2>2. CASE Shutdown
    BY Zenon, <2>2 DEF Shutdown
  <2>3. CASE Stop
    BY Zenon, <2>3 DEF Stop, Wake
  <2>4. CASE Join
    BY Zenon, <2>4 DEF Join
  <2> QED BY Zenon, <1>3, <2>1, <2>2, <2>3, <2>4 DEF Owner
<1>4. CASE Tick \/ TimerFire
  <2>1. CASE Tick
    BY <2>1 DEF Tick
  <2>2. CASE TimerFire
    BY Zenon, <2>2 DEF TimerFire, Wake
  <2> QED BY Zenon, <1>4, <2>1, <2>2
<1>5. CASE Finish
  BY Zenon, <1>5 DEF Finish
<1>6. CASE Poll \/ StartPoll
  BY Zenon, <1>6 DEF Poll, StartPoll
<1>7. CASE CtlPending \/ RspPending \/ ReqPending \/ BatchDone
  BY Zenon, <1>7 DEF CtlPending, RspPending, ReqPending, BatchDone, Channels
<1>8. CASE CtlUpdate
  <2>1. Head(ctlq) \in Command
    BY <1>8 DEF CtlUpdate, ChannelType
  <2>2. Head(ctlq).ver \in Nat
    BY Zenon, <2>1 DEF Command
  <2> QED BY Zenon, <1>8, <2>2 DEF CtlUpdate
<1>9. CASE HandleRspTrash
  BY Zenon, <1>9 DEF HandleRspTrash
<1>10. CASE HandleRsp
  BY Zenon, <1>10 DEF HandleRsp, UpdateCache, Wake
<1>11. ASSUME NEW k \in Keys, HandleExpired(k) PROVE ThreadType'
  BY Zenon, <1>11 DEF HandleExpired
<1>12. CASE ExpirePending
  BY <1>12, ResolverAssumption DEF ExpirePending, Channels
<1>13. ASSUME NEW r \in Reqs, TakeReq(r) PROVE ThreadType'
  BY <1>13 DEF TakeReq
<1>14. ASSUME NEW r \in Reqs, HandleReq(r) PROVE ThreadType'
  BY Zenon, <1>13, <1>14 DEF HandleReq, HandleReqCache, HandleReqTrash, HandleReqQuery
<1>15. CASE UNCHANGED vars
  BY Zenon, <1>15 DEF vars
<1> QED
  BY Zenon, <1>1, <1>2, <1>3, <1>4, <1>5, <1>6, <1>7, <1>8, <1>9, <1>10, <1>11, <1>12, <1>14, <1>15
  DEF Next, Runtime, StartFails, CtlQuit

\* What Append makes of a sequence and one more element
LEMMA Appended ==
  ASSUME NEW S, NEW s \in Seq(S), NEW x \in S
  PROVE  Append(s, x) \in Seq(S)
  BY SMTT(30)

\* The three channels stay well typed.
LEMMA ChannelTypeNext == TypeOK /\ [Next]_vars => ChannelType'
<1> SUFFICES ASSUME TypeOK, [Next]_vars PROVE ChannelType'
  OBVIOUS
<1> USE DEF TypeOK, ChannelType
<1>1. ASSUME NEW r \in Reqs, Get(r) PROVE ChannelType'
  <2>1. reqq' = reqq \/ reqq' = Append(reqq, r)
    BY Zenon, <1>1 DEF Get
  <2>2. reqq' \in Seq(Reqs)
    BY Zenon, <2>1, Appended
  <2> QED BY Zenon, <1>1, <2>2 DEF Get
<1>2. ASSUME NEW k \in Keys, NEW rec \in DriverRecords, Respond(k, rec) PROVE ChannelType'
  <2>1. rec \in Record
    BY Zenon, DriverRecordsType DEF ThreadType
  <2>2. [key |-> k, rec |-> rec] \in Response
    BY Zenon, <2>1 DEF Response
  <2> QED BY <1>2, <2>2 DEF Respond
<1>3. CASE UpdateConfig
  <2>1. [cmd |-> "update", ver |-> sent + 1] \in Command
    BY DEF Command, ThreadType
  <2> QED BY <1>3, <2>1 DEF UpdateConfig
<1>4. CASE Stop
  <2>1. [cmd |-> "quit", ver |-> 0] \in Command
    BY Zenon DEF Command
  <2>2. ctlq' = ctlq \/ ctlq' = Append(ctlq, [cmd |-> "quit", ver |-> 0])
    BY Zenon, <1>4 DEF Stop
  <2>3. ctlq' \in Seq(Command)
    BY SMTT(30), <2>1, <2>2
  <2> QED BY Zenon, <1>4, <2>3 DEF Stop
<1>5. CASE Shutdown \/ Join \/ Tick \/ TimerFire
  BY Zenon, <1>5 DEF Shutdown, Join, Tick, TimerFire
<1>6. CASE Finish
  BY <1>6 DEF Finish
<1>7. CASE Poll \/ StartPoll \/ CtlPending \/ RspPending \/ ExpirePending
  BY Zenon, <1>7 DEF Poll, StartPoll, CtlPending, RspPending, ExpirePending
<1>8. CASE ReqPending \/ BatchDone
  BY Zenon, <1>8 DEF ReqPending, BatchDone
<1>9. CASE CtlUpdate
  BY SMTT(30), <1>9 DEF CtlUpdate
<1>10. CASE HandleRspTrash
  BY Zenon, <1>10, HeadRsp DEF HandleRspTrash
<1>11. CASE HandleRsp
  BY Zenon, <1>11, HeadRsp DEF HandleRsp
<1>12. ASSUME NEW k \in Keys, HandleExpired(k) PROVE ChannelType'
  BY Zenon, <1>12 DEF HandleExpired
<1>13. ASSUME NEW r \in Reqs, TakeReq(r) PROVE ChannelType'
  BY <1>13 DEF TakeReq
<1>14. ASSUME NEW r \in Reqs, HandleReq(r) PROVE ChannelType'
  BY Zenon, <1>13, <1>14 DEF HandleReq, HandleReqCache, HandleReqTrash, HandleReqQuery
<1>15. CASE UNCHANGED vars
  BY Zenon, <1>15 DEF vars
<1> QED
  BY Zenon, <1>1, <1>2, <1>3, <1>4, <1>5, <1>6, <1>7, <1>8, <1>9, <1>10, <1>11, <1>12, <1>14, <1>15
  DEF Next, Runtime, Owner, StartFails, CtlQuit

\* A new entry of the doing table and its query keep the tables well typed.
LEMMA StartQueryType ==
  ASSUME TypeOK, NEW k \in Keys, NEW w \in Seq(Reqs), StartQuery(k, w)
  PROVE  /\ doing' \in SUBSET Keys /\ waiters' \in [Keys -> Seq(Reqs)]
         /\ inflight' \in [Keys -> Nat]
  BY SMTT(30) DEF TypeOK, TableType, StartQuery

\* The tables of the runtime and the count of queries in the driver stay well typed.
LEMMA TableTypeNext == TypeOK /\ [Next]_vars => TableType'
<1> SUFFICES ASSUME TypeOK, [Next]_vars PROVE TableType'
  OBVIOUS
<1> USE DEF TypeOK, TableType
<1>1. ASSUME NEW r \in Reqs, Get(r) PROVE TableType'
  BY Zenon, <1>1 DEF Get
<1>2. ASSUME NEW k \in Keys, NEW rec \in DriverRecords, Respond(k, rec) PROVE TableType'
  BY <1>2 DEF Respond
<1>3. CASE Owner \/ Tick \/ TimerFire
  BY Zenon, <1>3 DEF Owner, UpdateConfig, Shutdown, Stop, Join, Tick, TimerFire
<1>4. CASE Finish
  BY <1>4 DEF Finish
<1>5. CASE Poll \/ CtlPending \/ RspPending \/ ExpirePending \/ ReqPending \/ BatchDone
  BY Zenon, <1>5 DEF Poll, CtlPending, RspPending, ExpirePending, ReqPending, BatchDone
<1>6. CASE StartPoll
  BY Zenon, <1>6 DEF StartPoll
<1>7. CASE CtlUpdate
  BY Zenon, <1>7 DEF CtlUpdate
<1>8. CASE HandleRspTrash
  BY <1>8, HeadRsp DEF HandleRspTrash
<1>9. CASE HandleRsp
  <2>1. Head(rspq).key \in Keys /\ Head(rspq).rec \in Record /\ Head(rspq).rec.expire \in Nat
    BY Zenon, <1>9, HeadRsp DEF HandleRsp, Record
  <2> QED BY SMTT(30), <1>9, <2>1 DEF HandleRsp, UpdateCache
<1>10. ASSUME NEW k \in Keys, HandleExpired(k) PROVE TableType'
  BY Zenon, <1>10 DEF HandleExpired
<1>11. ASSUME NEW r \in Reqs PROVE want[r] \in Keys
  BY Zenon DEF ClientType
<1>12. ASSUME NEW r \in Reqs, HandleReqCache(r) PROVE TableType'
  BY Zenon, <1>12 DEF HandleReqCache, TakeReq
<1>13. ASSUME NEW r \in Reqs, HandleReqTrash(r) PROVE TableType'
  <2>1. CASE want[r] \in doing
    BY Zenon, <1>13, <2>1 DEF HandleReqTrash, TakeReq
  <2>2. CASE want[r] \notin doing
    <3>1. StartQuery(want[r], <<>>) /\ <<>> \in Seq(Reqs)
      BY <1>13, <2>2 DEF HandleReqTrash
    <3> QED BY Zenon, <1>11, <1>13, <3>1, StartQueryType DEF HandleReqTrash, TakeReq
  <2> QED BY Zenon, <2>1, <2>2
<1>14. ASSUME NEW r \in Reqs, HandleReqQuery(r) PROVE TableType'
  <2>1. CASE want[r] \in doing
    <3>1. waiters[want[r]] \in Seq(Reqs)
      BY Zenon, <1>11
    <3>2. Append(waiters[want[r]], r) \in Seq(Reqs)
      BY <3>1
    <3>3. waiters' \in [Keys -> Seq(Reqs)]
      BY Zenon, <1>11, <1>14, <2>1, <3>2 DEF HandleReqQuery
    <3> QED BY Zenon, <1>14, <2>1, <3>3 DEF HandleReqQuery, TakeReq
  <2>2. CASE want[r] \notin doing
    <3>1. StartQuery(want[r], <<r>>) /\ <<r>> \in Seq(Reqs)
      BY <1>14, <2>2 DEF HandleReqQuery
    <3> QED BY Zenon, <1>11, <1>14, <3>1, StartQueryType DEF HandleReqQuery, TakeReq
  <2> QED BY Zenon, <2>1, <2>2
<1>15. CASE UNCHANGED vars
  BY Zenon, <1>15 DEF vars
<1> QED
  BY Zenon, <1>1, <1>2, <1>3, <1>4, <1>5, <1>6, <1>7, <1>8, <1>9, <1>10, <1>12, <1>13, <1>14, <1>15
  DEF Next, Runtime, StartFails, CtlQuit, HandleReq

\* Answers sent on oneshots keep the clients well typed.
LEMMA DeliverType ==
  ASSUME TypeOK, NEW S \in SUBSET Reqs, NEW ans \in [S -> Answer], Deliver(ans)
  PROVE  ClientType'
  BY Zenon DEF TypeOK, ClientType, Deliver

\* What the clients know stays well typed.
LEMMA ClientTypeNext == TypeOK /\ [Next]_vars => ClientType'
<1> SUFFICES ASSUME TypeOK, [Next]_vars PROVE ClientType'
  OBVIOUS
<1>1. ASSUME NEW r \in Reqs, Get(r) PROVE ClientType'
  BY Zenon, <1>1 DEF TypeOK, ClientType, Get
<1>2. ASSUME NEW k \in Keys, NEW rec \in DriverRecords, Respond(k, rec) PROVE ClientType'
  BY Zenon, <1>2 DEF TypeOK, ClientType, Respond
<1>3. CASE Owner \/ Tick \/ TimerFire
  BY Zenon, <1>3 DEF TypeOK, ClientType, Owner, UpdateConfig, Shutdown, Stop, Join, Tick, TimerFire
<1>4. CASE Finish
  BY Zenon, <1>4 DEF TypeOK, ClientType, Finish
<1>5. CASE Poll \/ StartPoll \/ CtlPending \/ CtlUpdate \/ RspPending
  BY Zenon, <1>5 DEF TypeOK, ClientType, Poll, StartPoll, CtlPending, CtlUpdate, RspPending
<1>6. CASE ExpirePending \/ ReqPending \/ BatchDone
  BY Zenon, <1>6 DEF TypeOK, ClientType, ExpirePending, ReqPending, BatchDone
<1>7. CASE HandleRspTrash
  <2> DEFINE k == Head(rspq).key
             ans == [r \in Senders(k) |-> [rec |-> trash[k], source |-> "trash"]]
  <2>1. k \in Keys
    BY Zenon, <1>7, HeadRsp DEF HandleRspTrash
  <2>2. trash[k] \in Record
    BY Zenon, <1>7, <2>1 DEF TypeOK, TableType, HandleRspTrash, Trashed
  <2>3. Senders(k) \in SUBSET Reqs /\ ans \in [Senders(k) -> Answer]
    BY Zenon, <2>1, <2>2, SendersType DEF Answer, Sources
  <2>4. Deliver(ans)
    BY Zenon, <1>7 DEF HandleRspTrash
  <2> QED BY Zenon, <2>3, <2>4, DeliverType
<1>8. CASE HandleRsp
  <2> DEFINE k == Head(rspq).key
             rec == Head(rspq).rec
             last == waiters[k][Len(waiters[k])]
             ans == [r \in Senders(k) |->
                       [rec |-> rec, source |-> IF r = last THEN "query" ELSE "cache"]]
  <2>1. k \in Keys /\ rec \in Record
    BY Zenon, <1>8, HeadRsp DEF HandleRsp
  <2>2. Senders(k) \in SUBSET Reqs /\ ans \in [Senders(k) -> Answer]
    BY Zenon, <2>1, SendersType DEF Answer, Sources
  <2>3. Deliver(ans)
    BY Zenon, <1>8 DEF HandleRsp
  <2> QED BY SMTT(30), <2>2, <2>3, DeliverType
<1>9. ASSUME NEW k \in Keys, HandleExpired(k) PROVE ClientType'
  BY Zenon, <1>9 DEF TypeOK, ClientType, HandleExpired
<1>10. ASSUME NEW r \in Reqs, HandleReqCache(r) PROVE ClientType'
  <2> DEFINE ans == [q \in {r} |-> [rec |-> cache[want[r]], source |-> "cache"]]
  <2>1. cache[want[r]] \in Record
    BY Zenon, <1>10 DEF TypeOK, TableType, ClientType, HandleReqCache, Cached
  <2>2. ans \in [{r} -> Answer]
    BY Zenon, <2>1 DEF Answer, Sources
  <2>3. Deliver(ans)
    BY Zenon, <1>10 DEF HandleReqCache
  <2> QED BY Zenon, <2>2, <2>3, DeliverType
<1>11. ASSUME NEW r \in Reqs, HandleReqTrash(r) PROVE ClientType'
  <2> DEFINE ans == [q \in {r} |-> [rec |-> trash[want[r]], source |-> "trash"]]
  <2>1. trash[want[r]] \in Record
    BY Zenon, <1>11 DEF TypeOK, TableType, ClientType, HandleReqTrash, Trashed
  <2>2. ans \in [{r} -> Answer]
    BY Zenon, <2>1 DEF Answer, Sources
  <2>3. Deliver(ans)
    BY Zenon, <1>11 DEF HandleReqTrash
  <2> QED BY Zenon, <2>2, <2>3, DeliverType
<1>12. ASSUME NEW r \in Reqs, HandleReqQuery(r) PROVE ClientType'
  BY Zenon, <1>12 DEF TypeOK, ClientType, HandleReqQuery
<1>13. CASE UNCHANGED vars
  BY Zenon, <1>13 DEF TypeOK, ClientType, vars
<1> QED
  BY Zenon, <1>1, <1>2, <1>3, <1>4, <1>5, <1>6, <1>7, <1>8, <1>9, <1>10, <1>11, <1>12, <1>13
  DEF Next, Runtime, StartFails, CtlQuit, HandleReq

\* The resolver keeps its state well typed whatever the interleaving: a count of
\* queries never drops below zero, a batch never takes more than its share.
THEOREM TypeCorrect == Spec => []TypeOK
<1>1. Init => TypeOK
  BY Zenon, TypeInit
<1>2. TypeOK /\ [Next]_vars => TypeOK'
  BY SMTT(30), ThreadTypeNext, ChannelTypeNext, TableTypeNext, ClientTypeNext DEF TypeOK
<1> QED BY <1>1, <1>2, PTL DEF Spec

-----------------------------------------------------------------------------
(* The tables of a key agree *)

\* Every handler leaves a cached record with its timer, without a query and without
\* an older copy in the trash, and leaves nobody waiting where the trash has an answer.
LEMMA TablesNext == TypeOK /\ TablesAgree /\ [Next]_vars => TablesAgree'
<1> SUFFICES ASSUME TypeOK, TablesAgree, [Next]_vars PROVE TablesAgree'
  OBVIOUS
<1> USE DEF TablesAgree, Cached, Trashed
<1>1. ASSUME NEW r \in Reqs, Get(r) PROVE TablesAgree'
  BY Zenon, <1>1 DEF Get
<1>2. ASSUME NEW k \in Keys, NEW rec \in DriverRecords, Respond(k, rec) PROVE TablesAgree'
  BY Zenon, <1>2 DEF Respond
<1>3. CASE Owner \/ Tick \/ TimerFire
  BY SMTT(30), <1>3 DEF Owner, UpdateConfig, Shutdown, Stop, Join, Tick, TimerFire
<1>4. CASE Finish
  BY Zenon, <1>4 DEF Finish, NoRecord, NoTime
<1>5. CASE Poll \/ CtlPending \/ CtlUpdate \/ RspPending \/ ExpirePending
  BY Zenon, <1>5 DEF Poll, CtlPending, CtlUpdate, RspPending, ExpirePending
<1>6. CASE ReqPending \/ BatchDone
  BY Zenon, <1>6 DEF ReqPending, BatchDone
<1>7. CASE StartPoll
  BY Zenon, <1>7 DEF StartPoll, TypeOK, TableType
<1>8. CASE HandleRspTrash
  <2>1. Head(rspq).key \in Keys /\ Head(rspq).rec \in Record
    BY Zenon, <1>8, HeadRsp DEF HandleRspTrash
  <2> QED BY SMTT(60), <1>8, <2>1 DEF HandleRspTrash, TypeOK, TableType
<1>9. CASE HandleRsp
  <2>1. Head(rspq).key \in Keys /\ Head(rspq).rec \in Record
    BY Zenon, <1>9, HeadRsp DEF HandleRsp
  <2> QED BY Zenon, <1>9, <2>1 DEF HandleRsp, UpdateCache, TypeOK, TableType
<1>10. ASSUME NEW k \in Keys, HandleExpired(k) PROVE TablesAgree'
  <2>1. cache[k] # NoRecord
    BY <1>10 DEF HandleExpired, Expired, NoRecord, NoTime
  <2>2. NoRecord.expire = NoTime
    BY Zenon DEF NoRecord
  <2> QED BY SMTT(30), <1>10, <2>1, <2>2 DEF HandleExpired, TypeOK, TableType
<1>11. ASSUME NEW r \in Reqs PROVE want[r] \in Keys
  BY Zenon DEF TypeOK, ClientType
<1>12. ASSUME NEW r \in Reqs, HandleReqCache(r) PROVE TablesAgree'
  BY Zenon, <1>12 DEF HandleReqCache, TakeReq
<1>13. ASSUME NEW r \in Reqs, HandleReqTrash(r) PROVE TablesAgree'
  BY <1>11, <1>13 DEF HandleReqTrash, TakeReq, StartQuery, TypeOK, TableType
<1>14. ASSUME NEW r \in Reqs, HandleReqQuery(r) PROVE TablesAgree'
  BY <1>11, <1>14 DEF HandleReqQuery, TakeReq, StartQuery, TypeOK, TableType
<1>15. CASE UNCHANGED vars
  BY Zenon, <1>15 DEF vars
<1> QED
  BY Zenon, <1>1, <1>2, <1>3, <1>4, <1>5, <1>6, <1>7, <1>8, <1>9, <1>10, <1>12, <1>13, <1>14, <1>15
  DEF Next, Runtime, StartFails, CtlQuit, HandleReq

\* The cache, trash, doing and expiry tables of ResolverRuntime agree at all times: a
\* cached record has its timer, no query and no older copy, and a request never waits
\* for a query while the trash could answer it.
THEOREM TablesCorrect == Spec => []TablesAgree
<1>1. Init => TypeOK /\ TablesAgree
  BY TypeInit DEF Init, TablesAgree, Cached, Trashed, NoRecord, NoTime
<1>2. TypeOK /\ TablesAgree /\ [Next]_vars => TablesAgree'
  BY Zenon, TablesNext
<1> QED BY <1>1, <1>2, TypeCorrect, PTL DEF Spec

-----------------------------------------------------------------------------
(* One query in flight *)

\* What a send at the back of a channel and a receive at its front do to the set of
\* its messages; stated for a channel without duplicates.
LEMMA ElemsAppend ==
  ASSUME NEW S, NEW s \in Seq(S), NEW e \in S
  PROVE  Elems(Append(s, e)) = Elems(s) \cup {e}
<1>1. Len(Append(s, e)) = Len(s) + 1 /\ Len(s) \in Nat
  OBVIOUS
<1>2. \A i \in 1..Len(s) : Append(s, e)[i] = s[i]
  OBVIOUS
<1>3. Append(s, e)[Len(s) + 1] = e
  OBVIOUS
<1>4. 1..(Len(s) + 1) = 1..Len(s) \cup {Len(s) + 1}
  BY <1>1
<1> QED BY Zenon, <1>1, <1>2, <1>3, <1>4 DEF Elems

LEMMA ElemsTail ==
  ASSUME NEW S, NEW s \in Seq(S), s # <<>>,
         \A i, j \in 1..Len(s) : s[i] = s[j] => i = j
  PROVE  /\ Elems(Tail(s)) = Elems(s) \ {Head(s)}
         /\ \A i, j \in 1..Len(Tail(s)) : Tail(s)[i] = Tail(s)[j] => i = j
<1>1. Len(Tail(s)) = Len(s) - 1 /\ Len(s) \in Nat \ {0} /\ Head(s) = s[1]
  OBVIOUS
<1>2. \A i \in 1..Len(s)-1 : Tail(s)[i] = s[i + 1] /\ i + 1 \in 1..Len(s)
  BY <1>1
<1>3. \A i, j \in 1..Len(Tail(s)) : Tail(s)[i] = Tail(s)[j] => i = j
  <2> SUFFICES ASSUME NEW i \in 1..Len(s)-1, NEW j \in 1..Len(s)-1, s[i + 1] = s[j + 1]
               PROVE  i = j
    BY Zenon, <1>1, <1>2
  <2>1. i + 1 = j + 1
    BY Zenon, <1>2
  <2> QED BY <2>1, <1>1
<1>4. ASSUME NEW e \in Elems(Tail(s)) PROVE e \in Elems(s) \ {Head(s)}
  <2>1. PICK i \in 1..Len(s)-1 : e = s[i + 1] /\ i + 1 \in 1..Len(s)
    BY Zenon, <1>1, <1>2, <1>4 DEF Elems
  <2>2. i + 1 # 1 /\ 1 \in 1..Len(s)
    BY <1>1
  <2>3. s[i + 1] # s[1]
    BY Zenon, <2>1, <2>2
  <2> QED BY Zenon, <1>1, <2>1, <2>3 DEF Elems
<1>5. ASSUME NEW e \in Elems(s) \ {Head(s)} PROVE e \in Elems(Tail(s))
  <2>1. PICK i \in 1..Len(s) : e = s[i]
    BY Zenon, <1>5 DEF Elems
  <2>2. i - 1 \in 1..Len(s)-1 /\ (i - 1) + 1 = i
    BY <1>1, <1>5, <2>1
  <2>3. Tail(s)[i - 1] = s[i]
    BY Zenon, <1>2, <2>2
  <2> QED BY Zenon, <1>1, <2>1, <2>2, <2>3 DEF Elems
<1> QED BY Zenon, <1>3, <1>4, <1>5

\* The keys answered in the response channel, all different
KeysDiffer(s) == \A i, j \in 1..Len(s) : s[i].key = s[j].key => i = j

\* A response taken from the front was the only one for its key.
LEMMA TakeRsp ==
  ASSUME TypeOK, KeysDiffer(rspq), rspq # <<>>, rspq' = Tail(rspq)
  PROVE  /\ KeysDiffer(rspq')
         /\ Answered(Head(rspq).key)
         /\ \A k \in Keys : Answered(k)' <=> Answered(k) /\ k # Head(rspq).key
<1>1. /\ Len(rspq') = Len(rspq) - 1 /\ Len(rspq) \in Nat \ {0}
      /\ Head(rspq) = rspq[1] /\ 1 \in 1..Len(rspq)
  BY DEF TypeOK, ChannelType
<1>2. \A i \in 1..Len(rspq)-1 : rspq'[i] = rspq[i + 1] /\ i + 1 \in 1..Len(rspq)
  BY <1>1 DEF TypeOK, ChannelType
<1>3. KeysDiffer(rspq')
  <2> SUFFICES ASSUME NEW i \in 1..Len(rspq)-1, NEW j \in 1..Len(rspq)-1,
                      rspq[i + 1].key = rspq[j + 1].key
               PROVE  i = j
    BY <1>1, <1>2 DEF KeysDiffer
  <2>1. i + 1 = j + 1
    BY Zenon, <1>2 DEF KeysDiffer
  <2> QED BY <2>1, <1>1
<1>4. Answered(Head(rspq).key)
  BY Zenon, <1>1 DEF Answered
<1>5. ASSUME NEW k \in Keys, Answered(k)' PROVE Answered(k) /\ k # Head(rspq).key
  <2>1. PICK i \in 1..Len(rspq)-1 : rspq[i + 1].key = k /\ i + 1 \in 1..Len(rspq)
    BY Zenon, <1>1, <1>2, <1>5 DEF Answered
  <2>2. i + 1 # 1
    BY <1>1
  <2>3. rspq[i + 1].key # rspq[1].key
    BY Zenon, <1>1, <2>1, <2>2 DEF KeysDiffer
  <2> QED BY Zenon, <1>1, <2>1, <2>3 DEF Answered
<1>6. ASSUME NEW k \in Keys, Answered(k), k # Head(rspq).key PROVE Answered(k)'
  <2>1. PICK i \in 1..Len(rspq) : rspq[i].key = k
    BY Zenon, <1>6 DEF Answered
  <2>2. i - 1 \in 1..Len(rspq)-1 /\ (i - 1) + 1 = i
    BY <1>1, <1>6, <2>1
  <2>3. rspq'[i - 1] = rspq[i]
    BY Zenon, <1>2, <2>2
  <2> QED BY Zenon, <1>1, <2>1, <2>2, <2>3 DEF Answered
<1> QED BY Zenon, <1>3, <1>4, <1>5, <1>6

\* A response for a key without one adds just that key.
LEMMA AddRsp ==
  ASSUME TypeOK, KeysDiffer(rspq), NEW k \in Keys, NEW rec \in Record, ~Answered(k),
         rspq' = Append(rspq, [key |-> k, rec |-> rec])
  PROVE  /\ KeysDiffer(rspq')
         /\ \A j \in Keys : Answered(j)' <=> Answered(j) \/ j = k
<1>1. [key |-> k, rec |-> rec] \in Response
  BY Zenon DEF Response
<1>2. Len(rspq') = Len(rspq) + 1 /\ Len(rspq) \in Nat
  BY <1>1 DEF TypeOK, ChannelType
<1>3. \A i \in 1..Len(rspq) : rspq'[i] = rspq[i]
  BY <1>1 DEF TypeOK, ChannelType
<1>4. rspq'[Len(rspq) + 1].key = k
  BY <1>1 DEF TypeOK, ChannelType
<1>5. 1..Len(rspq') = 1..Len(rspq) \cup {Len(rspq) + 1}
  BY <1>2
<1> QED BY <1>3, <1>4, <1>5 DEF Answered, KeysDiffer

\* No handler starts a second query for a key or loses track of the first.
LEMMA SingleFlightNext == TypeOK /\ SingleFlight /\ [Next]_vars => SingleFlight'
<1> SUFFICES ASSUME TypeOK, SingleFlight, [Next]_vars PROVE SingleFlight'
  OBVIOUS
<1>0. KeysDiffer(rspq)
  BY Zenon DEF SingleFlight, KeysDiffer
<1>1. ASSUME NEW r \in Reqs, Get(r) PROVE SingleFlight'
  BY Zenon, <1>1 DEF SingleFlight, Answered, Get
<1>2. ASSUME NEW k \in Keys, NEW rec \in DriverRecords, Respond(k, rec) PROVE SingleFlight'
  <2>1. rec \in Record
    BY Zenon, DriverRecordsType DEF TypeOK, ThreadType
  <2>2. inflight[k] = 1 /\ ~Answered(k) /\ k \in doing
    BY <1>2 DEF SingleFlight, Respond, TypeOK, TableType
  <2>3. /\ KeysDiffer(rspq')
        /\ \A j \in Keys : Answered(j)' <=> Answered(j) \/ j = k
    BY Zenon, <1>0, <1>2, <2>1, <2>2, AddRsp DEF Respond
  <2>4. inflight' = [inflight EXCEPT ![k] = 0] /\ doing' = doing
    BY <1>2, <2>2 DEF Respond
  <2>5. ASSUME NEW j \in Keys
        PROVE  /\ inflight'[j] <= 1
               /\ inflight'[j] = 1 => ~Answered(j)'
               /\ j \in doing' <=> inflight'[j] = 1 \/ Answered(j)'
    BY SMTT(30), <2>2, <2>3, <2>4 DEF SingleFlight, TypeOK, TableType
  <2> QED BY Zenon, <2>3, <2>5 DEF SingleFlight, KeysDiffer
<1>3. CASE Owner \/ Tick \/ TimerFire
  <2>1. UNCHANGED <<rspq, doing, inflight>>
    BY <1>3 DEF Owner, UpdateConfig, Shutdown, Stop, Join, Tick, TimerFire
  <2> QED BY Zenon, <2>1 DEF SingleFlight, Answered
<1>4. CASE Finish
  <2>1. rspq' = <<>> /\ doing' = {} /\ inflight' = [k \in Keys |-> 0]
    BY Zenon, <1>4 DEF Finish
  <2>2. Len(rspq') = 0
    BY <2>1
  <2>3. 1..Len(rspq') = {}
    BY <2>2
  <2>4. \A k \in Keys : ~Answered(k)'
    BY Zenon, <2>3 DEF Answered
  <2>5. \A k \in Keys : inflight'[k] = 0
    BY Zenon, <2>1
  <2>6. \A k \in Keys : inflight'[k] <= 1 /\ inflight'[k] # 1
    BY <2>5
  <2>7. \A k \in Keys : k \notin doing'
    BY Zenon, <2>1
  <2> QED BY Zenon, <2>3, <2>4, <2>6, <2>7 DEF SingleFlight
<1>5. CASE Poll \/ StartPoll \/ CtlPending \/ CtlUpdate \/ RspPending
  BY Zenon, <1>5 DEF SingleFlight, Answered, Poll, StartPoll, CtlPending, CtlUpdate, RspPending
<1>6. CASE ExpirePending \/ ReqPending \/ BatchDone
  BY Zenon, <1>6 DEF SingleFlight, Answered, ExpirePending, ReqPending, BatchDone
<1>7. CASE HandleRspTrash \/ HandleRsp
  <2>1. /\ rspq # <<>> /\ rspq' = Tail(rspq)
        /\ doing' = doing \ {Head(rspq).key} /\ inflight' = inflight
    BY Zenon, <1>7 DEF HandleRspTrash, HandleRsp
  <2>2. /\ KeysDiffer(rspq') /\ Answered(Head(rspq).key)
        /\ \A j \in Keys : Answered(j)' <=> Answered(j) /\ j # Head(rspq).key
    BY Zenon, <1>0, <2>1, TakeRsp
  <2>3. ASSUME NEW j \in Keys
        PROVE  /\ inflight'[j] <= 1
               /\ inflight'[j] = 1 => ~Answered(j)'
               /\ j \in doing' <=> inflight'[j] = 1 \/ Answered(j)'
    BY Zenon, <2>1, <2>2 DEF SingleFlight, TypeOK, TableType
  <2> QED BY Zenon, <2>2, <2>3 DEF SingleFlight, KeysDiffer
<1>8. ASSUME NEW k \in Keys, HandleExpired(k) PROVE SingleFlight'
  BY Zenon, <1>8 DEF SingleFlight, Answered, HandleExpired
<1>9. ASSUME NEW k \in Keys, NEW w, k \notin doing, StartQuery(k, w), rspq' = rspq
      PROVE  SingleFlight'
  BY SMTT(30), <1>9 DEF SingleFlight, Answered, StartQuery, TypeOK, TableType
<1>10. ASSUME UNCHANGED <<doing, inflight, rspq>> PROVE SingleFlight'
  BY Zenon, <1>10 DEF SingleFlight, Answered
<1>11. ASSUME NEW r \in Reqs, HandleReq(r) PROVE SingleFlight'
  <2>1. want[r] \in Keys
    BY Zenon DEF TypeOK, ClientType
  <2>2. CASE HandleReqCache(r)
    BY SMTT(30), <1>10, <2>2 DEF HandleReqCache, TakeReq
  <2>3. CASE HandleReqTrash(r)
    BY Zenon, <1>9, <1>10, <2>1, <2>3 DEF HandleReqTrash, TakeReq
  <2>4. CASE HandleReqQuery(r)
    BY Zenon, <1>9, <1>10, <2>1, <2>4 DEF HandleReqQuery, TakeReq
  <2> QED BY Zenon, <1>11, <2>2, <2>3, <2>4 DEF HandleReq
<1>12. CASE UNCHANGED vars
  BY Zenon, <1>12 DEF SingleFlight, Answered, vars
<1> QED
  BY Zenon, <1>1, <1>2, <1>3, <1>4, <1>5, <1>6, <1>7, <1>8, <1>11, <1>12
  DEF Next, Runtime, StartFails, CtlQuit

\* The doing table of ResolverRuntime mirrors the driver at all times: an entry means
\* exactly one query that runs or whose answer is in the channel, so a waiting client
\* is always owed an answer and a domain is never asked for twice at once.
THEOREM SingleFlightCorrect == Spec => []SingleFlight
<1>1. Init => SingleFlight
  <2>1. Init => rspq = <<>> /\ doing = {} /\ inflight = [k \in Keys |-> 0]
    BY Zenon DEF Init
  <2> QED BY <2>1 DEF SingleFlight, Answered
<1>2. TypeOK /\ SingleFlight /\ [Next]_vars => SingleFlight'
  BY Zenon, SingleFlightNext
<1> QED BY <1>1, <1>2, TypeCorrect, PTL DEF Spec

-----------------------------------------------------------------------------
(* No lost wakeup on the request and response channels *)

\* Past the loop that drains the responses, a response wakes the task or has woken
\* it; once asleep, the same holds of a request.
Armed ==
  /\ pc \in {"expire", "req", "idle"} /\ ~woken => rspq = <<>> /\ "rsp" \in wakers
  /\ pc = "idle" /\ ~woken => reqq = <<>> /\ "req" \in wakers

\* Every send wakes the task or finds it awake, and the task goes to sleep with both
\* wakers registered.
LEMMA ArmedNext == TypeOK /\ Armed /\ [Next]_vars => Armed'
<1> SUFFICES ASSUME TypeOK, Armed, [Next]_vars PROVE Armed'
  OBVIOUS
<1> USE DEF Armed
<1>1. ASSUME NEW r \in Reqs, Get(r) PROVE Armed'
  BY Zenon, <1>1 DEF Get, Wake
<1>2. ASSUME NEW k \in Keys, NEW rec \in DriverRecords, Respond(k, rec) PROVE Armed'
  BY Zenon, <1>2 DEF Respond, Wake
<1>3. CASE UpdateConfig
  BY Zenon, <1>3 DEF UpdateConfig, Wake
<1>4. CASE Stop
  BY Zenon, <1>4 DEF Stop, Wake
<1>5. CASE Shutdown \/ Join \/ Tick
  BY Zenon, <1>5 DEF Shutdown, Join, Tick
<1>6. CASE TimerFire
  BY Zenon, <1>6 DEF TimerFire, Wake
<1>7. CASE Finish
  BY Zenon, <1>7 DEF Finish
<1>8. CASE Poll \/ StartPoll \/ CtlPending \/ CtlUpdate
  BY Zenon, <1>8 DEF Poll, StartPoll, CtlPending, CtlUpdate
<1>9. CASE RspPending
  BY SMTT(30), <1>9 DEF RspPending
<1>10. CASE HandleRspTrash
  BY Zenon, <1>10 DEF HandleRspTrash
<1>11. CASE HandleRsp
  BY Zenon, <1>11 DEF HandleRsp
<1>12. ASSUME NEW k \in Keys, HandleExpired(k) PROVE Armed'
  BY Zenon, <1>12 DEF HandleExpired
<1>13. CASE ExpirePending
  BY Zenon, <1>13 DEF ExpirePending
<1>14. ASSUME NEW r \in Reqs, TakeReq(r) PROVE Armed'
  BY SMTT(30), <1>14 DEF TakeReq
<1>15. ASSUME NEW r \in Reqs, HandleReq(r) PROVE Armed'
  BY Zenon, <1>14, <1>15 DEF HandleReq, HandleReqCache, HandleReqTrash, HandleReqQuery
<1>16. CASE BatchDone
  BY Zenon, <1>16 DEF BatchDone
<1>17. CASE ReqPending
  BY Zenon, <1>17 DEF ReqPending
<1>18. CASE UNCHANGED vars
  BY Zenon, <1>18 DEF vars
<1> QED
  BY Zenon, <1>1, <1>2, <1>3, <1>4, <1>5, <1>6, <1>7, <1>8, <1>9, <1>10, <1>11, <1>12, <1>13,
     <1>15, <1>16, <1>17, <1>18
  DEF Next, Runtime, Owner, StartFails, CtlQuit

\* When poll_loop has returned Pending and nothing is about to wake the thread, no
\* request and no response is left behind, and either will wake it when it comes.
THEOREM WakeupCorrect == Spec => []NoSleepOnWork
<1>1. Init => Armed
  BY Zenon DEF Init, Armed
<1>2. TypeOK /\ Armed /\ [Next]_vars => Armed'
  BY Zenon, ArmedNext
<1>3. Armed => NoSleepOnWork
  BY SMTT(30) DEF Armed, NoSleepOnWork
<1> QED BY <1>1, <1>2, <1>3, TypeCorrect, PTL DEF Spec

-----------------------------------------------------------------------------
(* A stale record survives failing refreshes *)

\* Only clean_trash, an acceptable answer and the end of the thread take a record
\* out of the trash.
LEMMA StaleKeptStep ==
  ASSUME TypeOK, [Next]_vars, NEW k \in Keys, Trashed(k), trash'[k] = NoRecord
  PROVE  \/ trash[k].vanish <= now
         \/ cache'[k] # NoRecord /\ IsAcceptable(cache'[k])
         \/ pc' = "done"
<1> DEFINE Kept == \/ trash[k].vanish <= now
                   \/ cache'[k] # NoRecord /\ IsAcceptable(cache'[k])
                   \/ pc' = "done"
<1> USE DEF Trashed
<1>1. ASSUME UNCHANGED trash PROVE Kept
  BY SMTT(30), <1>1
<1>2. CASE Finish
  BY Zenon, <1>2 DEF Finish
<1>3. CASE StartPoll
  <2>1. trash[k].vanish \in Int /\ now \in Int
    BY DEF TypeOK, TableType, ThreadType, Record, NoTime
  <2>2. trash'[k] = IF trash[k].vanish > now THEN trash[k] ELSE NoRecord
    BY Zenon, <1>3 DEF StartPoll
  <2> QED BY <2>1, <2>2
<1>4. CASE HandleRsp
  <2>1. Head(rspq).key = k /\ IsAcceptable(Head(rspq).rec)
    BY Zenon, <1>4, HeadRsp DEF HandleRsp, TypeOK, TableType
  <2>2. Head(rspq).rec \in Record
    BY Zenon, <1>4, HeadRsp DEF HandleRsp
  <2>4. Head(rspq).rec # NoRecord
    BY <2>2 DEF Record, Kinds, NoRecord
  <2>3. cache'[k] = Head(rspq).rec
    BY Zenon, <1>4, <2>1 DEF HandleRsp, UpdateCache, TypeOK, TableType
  <2> QED BY Zenon, <2>1, <2>3, <2>4
<1>5. ASSUME NEW j \in Keys, HandleExpired(j) PROVE Kept
  <2>1. CASE cache[j].vanish # NoTime
    <3>1. cache[j] # NoRecord
      <4>1. NoRecord.vanish = NoTime
        BY Zenon DEF NoRecord
      <4> QED BY Zenon, <2>1, <4>1
    <3> QED BY SMTT(30), <1>5, <2>1, <3>1 DEF HandleExpired, TypeOK, TableType
  <2>2. CASE cache[j].vanish = NoTime
    BY SMTT(30), <1>5, <2>2 DEF HandleExpired, TypeOK, TableType
  <2> QED BY Zenon, <2>1, <2>2
<1>6. ASSUME NEW r \in Reqs, Get(r) PROVE Kept
  BY Zenon, <1>1, <1>6 DEF Get
<1>7. ASSUME NEW j \in Keys, NEW rec \in DriverRecords, Respond(j, rec) PROVE Kept
  BY Zenon, <1>1, <1>7 DEF Respond
<1>8. CASE Owner \/ Tick \/ TimerFire
  BY Zenon, <1>1, <1>8 DEF Owner, UpdateConfig, Shutdown, Stop, Join, Tick, TimerFire
<1>9. CASE Poll \/ CtlPending \/ CtlUpdate \/ RspPending \/ HandleRspTrash
  BY Zenon, <1>1, <1>9 DEF Poll, CtlPending, CtlUpdate, RspPending, HandleRspTrash
<1>10. CASE ExpirePending \/ ReqPending \/ BatchDone
  BY Zenon, <1>1, <1>10 DEF ExpirePending, ReqPending, BatchDone
<1>11. ASSUME NEW r \in Reqs, HandleReq(r) PROVE Kept
  BY Zenon, <1>1, <1>11 DEF HandleReq, HandleReqCache, HandleReqTrash, HandleReqQuery, TakeReq
<1>12. CASE UNCHANGED vars
  BY Zenon, <1>1, <1>12 DEF vars
<1> QED
  BY Zenon, <1>2, <1>3, <1>4, <1>5, <1>6, <1>7, <1>8, <1>9, <1>10, <1>11, <1>12
  DEF Next, Runtime, StartFails, CtlQuit

\* An error from the driver never takes a usable stale record away: it leaves the
\* trash only when it has vanished or has an acceptable successor.
THEOREM StaleKept == Spec => StaleKeptOnError
<1>1. TypeOK /\ [Next]_vars =>
        [\A k \in Keys :
           Trashed(k) /\ trash'[k] = NoRecord =>
             \/ trash[k].vanish <= now
             \/ cache'[k] # NoRecord /\ IsAcceptable(cache'[k])
             \/ pc' = "done"]_vars
  BY Zenon, StaleKeptStep
<1> QED BY <1>1, TypeCorrect, PTL DEF Spec, StaleKeptOnError

-----------------------------------------------------------------------------
(* No request is forgotten *)

\* WaiterHeld is inductive once it is known that a request is in one place only: once
\* in the request channel, or among the senders of its own key.
Held ==
  /\ WaiterHeld
  /\ \A i, j \in 1..Len(reqq) : reqq[i] = reqq[j] => i = j
  /\ \A k \in Keys : \A r \in Senders(k) : want[r] = k /\ r \notin Elems(reqq)

\* The request at the front of the channel leaves it for good.
LEMMA TakeReqHeld ==
  ASSUME TypeOK, Held, NEW r \in Reqs, TakeReq(r)
  PROVE  /\ Elems(reqq)' = Elems(reqq) \ {r} /\ r \in Elems(reqq)
         /\ \A i, j \in 1..Len(reqq') : reqq'[i] = reqq'[j] => i = j
         /\ job[r] = "waiting" /\ \A k \in Keys : r \notin Senders(k)
<1>1. reqq \in Seq(Reqs) /\ reqq # <<>> /\ r = Head(reqq) /\ reqq' = Tail(reqq)
  BY Zenon DEF TypeOK, ChannelType, TakeReq
<1>2. /\ Elems(Tail(reqq)) = Elems(reqq) \ {Head(reqq)}
      /\ \A i, j \in 1..Len(Tail(reqq)) : Tail(reqq)[i] = Tail(reqq)[j] => i = j
  BY Zenon, <1>1, ElemsTail DEF Held
<1>3. Elems(reqq)' = Elems(reqq')
  BY Zenon DEF Elems
<1>4. r \in Elems(reqq)
  BY <1>1 DEF Elems
<1> QED BY Zenon, <1>1, <1>2, <1>3, <1>4 DEF Held, WaiterHeld

\* When every entry of k is removed and its senders are answered, the others are held
\* where they were.
LEMMA AnswerHeld ==
  ASSUME TypeOK, TablesAgree, Held, NEW k \in Keys,
         doing' = doing \ {k}, waiters' = [waiters EXCEPT ![k] = <<>>],
         reqq' = reqq, want' = want,
         job' = [r \in Reqs |-> IF r \in Senders(k) THEN "answered" ELSE job[r]]
  PROVE  Held'
<1>1. \A j \in Keys : Senders(j)' = IF j = k THEN {} ELSE Senders(j)
  BY DEF Senders, Elems, TypeOK, TableType
<1>2. Elems(reqq)' = Elems(reqq)
  BY Zenon DEF Elems
<1>3. \A r \in Reqs : want[r] \in Keys
  BY Zenon DEF TypeOK, ClientType
<1>4. WaiterHeld'
  <2> SUFFICES ASSUME NEW r \in Reqs
               PROVE  job'[r] = "waiting" <=>
                        \/ r \in Elems(reqq)
                        \/ r \in Senders(want[r])' /\ want[r] \in doing'
    BY Zenon, <1>2 DEF WaiterHeld
  <2>1. CASE r \in Senders(k)
    BY Zenon, <1>1, <1>3, <2>1 DEF Held
  <2>2. CASE r \notin Senders(k)
    <3>1. job'[r] = job[r]
      BY Zenon, <2>2
    <3>2. job[r] = "waiting" <=>
            r \in Elems(reqq) \/ (r \in Senders(want[r]) /\ want[r] \in doing)
      BY Zenon DEF Held, WaiterHeld
    <3>3. CASE want[r] = k
      BY Zenon, <3>1, <3>2, <3>3, <1>1, <2>2
    <3>4. CASE want[r] # k
      <4>1. Senders(want[r])' = Senders(want[r]) /\ (want[r] \in doing' <=> want[r] \in doing)
        BY Zenon, <3>4, <1>1, <1>3
      <4> QED BY Zenon, <3>1, <3>2, <4>1
    <3> QED BY Zenon, <3>3, <3>4
  <2> QED BY Zenon, <2>1, <2>2
<1> QED BY Zenon, <1>1, <1>2, <1>4 DEF Held

\* A step that leaves the channel, the entries and the clients alone
LEMMA SameHeld ==
  ASSUME Held, UNCHANGED <<reqq, doing, waiters, want, job>>
  PROVE  Held'
<1>1. Elems(reqq)' = Elems(reqq) /\ \A k \in Keys : Senders(k)' = Senders(k)
  BY SMTT(30) DEF Senders, Elems
<1>2. WaiterHeld'
  BY <1>1 DEF Held, WaiterHeld, Senders, Elems
<1> QED BY Zenon, <1>1, <1>2 DEF Held

LEMMA HeldNext == TypeOK /\ TablesAgree /\ Held /\ [Next]_vars => Held'
<1> SUFFICES ASSUME TypeOK, TablesAgree, Held, [Next]_vars PROVE Held'
  OBVIOUS
<1>0. ASSUME NEW r \in Reqs PROVE want[r] \in Keys
  BY Zenon DEF TypeOK, ClientType
<1>1. ASSUME NEW r \in Reqs, Get(r) PROVE Held'
  <2>1. CASE pc = "done"
    <3>1. job' = [job EXCEPT ![r] = "norunning"] /\ job[r] = "new"
          /\ UNCHANGED <<reqq, doing, waiters, want>>
      BY Zenon, <1>1, <2>1 DEF Get
    <3>2. ASSUME NEW o \in Reqs PROVE job'[o] = "waiting" <=> job[o] = "waiting"
      <4>1. job \in [Reqs -> {"new", "waiting", "answered", "norunning"}]
        BY Zenon DEF TypeOK, ClientType
      <4>2. CASE o = r
        <5>1. job'[o] = "norunning" /\ job[o] = "new"
          BY Zenon, <3>1, <3>2, <4>1, <4>2
        <5> QED BY SMTT(30), <5>1
      <4>3. CASE o # r
        BY Zenon, <3>1, <3>2, <4>1, <4>3
      <4> QED BY Zenon, <4>2, <4>3
    <3>3. Elems(reqq)' = Elems(reqq) /\ \A k \in Keys : Senders(k)' = Senders(k)
      BY Zenon, <3>1 DEF Senders, Elems
    <3>4. WaiterHeld'
      <4>1. ASSUME NEW o \in Reqs
            PROVE  job'[o] = "waiting" <=>
                     o \in Elems(reqq)' \/ (o \in Senders(want[o])' /\ want[o] \in doing)
        <5>1. job[o] = "waiting" <=> o \in Elems(reqq) \/ (o \in Senders(want[o]) /\ want[o] \in doing)
          BY Zenon, <4>1 DEF Held, WaiterHeld
        <5>2. Senders(want[o])' = Senders(want[o])
          BY Zenon, <1>0, <3>1, <4>1 DEF Senders, Elems
        <5> QED BY Zenon, <3>2, <3>3, <4>1, <5>1, <5>2
      <4> QED BY Zenon, <3>1, <4>1 DEF WaiterHeld
    <3> QED BY Zenon, <3>1, <3>3, <3>4 DEF Held
  <2>2. CASE pc # "done"
    <3>1. /\ reqq' = Append(reqq, r) /\ job' = [job EXCEPT ![r] = "waiting"]
          /\ UNCHANGED <<doing, waiters, want>>
      BY Zenon, <1>1, <2>2 DEF Get
    <3>2. job[r] # "waiting"
      BY Zenon, <1>1 DEF Get
    <3>3. r \notin Elems(reqq)
      BY Zenon, <3>2 DEF Held, WaiterHeld
    <3>4. \A k \in Keys : r \notin Senders(k)
      <4> SUFFICES ASSUME NEW k \in Keys, r \in Senders(k) PROVE FALSE
        OBVIOUS
      <4>1. want[r] = k
        BY Zenon DEF Held
      <4>2. waiters[k] # <<>>
        BY DEF Senders, Elems
      <4>3. k \in doing
        BY Zenon, <4>2 DEF TablesAgree
      <4> QED BY Zenon, <3>2, <4>1, <4>3 DEF Held, WaiterHeld
    <3>5. Elems(reqq)' = Elems(reqq) \cup {r}
      <4>1. reqq \in Seq(Reqs)
        BY Zenon DEF TypeOK, ChannelType
      <4>2. Elems(Append(reqq, r)) = Elems(reqq) \cup {r}
        BY <4>1, ElemsAppend
      <4> QED BY Zenon, <3>1, <4>2 DEF Elems
    <3>6. \A i, j \in 1..Len(reqq') : reqq'[i] = reqq'[j] => i = j
      <4>1. reqq \in Seq(Reqs) /\ Len(reqq) \in Nat /\ Len(reqq') = Len(reqq) + 1
        BY <3>1 DEF TypeOK, ChannelType
      <4>2. \A i \in 1..Len(reqq) : reqq'[i] = reqq[i] /\ reqq[i] # r
        BY <3>1, <3>3, <4>1 DEF Elems
      <4>3. reqq'[Len(reqq) + 1] = r
        BY <3>1, <4>1
      <4>4. 1..Len(reqq') = 1..Len(reqq) \cup {Len(reqq) + 1}
        BY <4>1
      <4> QED BY Zenon, <4>2, <4>3, <4>4 DEF Held
    <3>7. \A k \in Keys : Senders(k)' = Senders(k)
      BY Zenon, <3>1 DEF Senders, Elems
    <3>8. WaiterHeld'
      BY <1>0, <3>1, <3>5, <3>7 DEF Held, WaiterHeld, TypeOK, ClientType
    <3> QED BY <3>1, <3>4, <3>5, <3>6, <3>7, <3>8 DEF Held
  <2> QED BY Zenon, <2>1, <2>2
<1>2. ASSUME NEW k \in Keys, NEW rec \in DriverRecords, Respond(k, rec) PROVE Held'
  BY SMTT(30), <1>2, SameHeld DEF Respond
<1>3. CASE Owner \/ Tick \/ TimerFire
  BY SMTT(30), <1>3, SameHeld DEF Owner, UpdateConfig, Shutdown, Stop, Join, Tick, TimerFire
<1>4. CASE Finish
  <2>0. /\ reqq' = <<>> /\ waiters' = [k \in Keys |-> <<>>] /\ want' = want /\ doing' = {}
        /\ job' = [r \in Reqs |-> IF job[r] = "waiting" THEN "norunning" ELSE job[r]]
    BY Zenon, <1>4 DEF Finish
  <2>1. \A k \in Keys : Senders(k)' = {}
    BY <2>0 DEF Senders, Elems
  <2>2. Elems(reqq)' = {} /\ Len(reqq') = 0
    BY <2>0 DEF Elems
  <2>3. \A r \in Reqs : job'[r] # "waiting"
    BY Zenon, <2>0
  <2>4. want' = want /\ doing' = {}
    BY Zenon, <2>0
  <2> QED BY <1>0, <2>1, <2>2, <2>3, <2>4 DEF Held, WaiterHeld
<1>5. CASE Poll \/ StartPoll \/ CtlPending \/ CtlUpdate \/ RspPending
  BY Zenon, <1>5, SameHeld DEF Poll, StartPoll, CtlPending, CtlUpdate, RspPending
<1>6. CASE ExpirePending \/ ReqPending \/ BatchDone
  BY SMTT(30), <1>6, SameHeld DEF ExpirePending, ReqPending, BatchDone
<1>7. CASE HandleRspTrash
  BY Zenon, <1>7, HeadRsp, AnswerHeld DEF HandleRspTrash, Deliver
<1>8. CASE HandleRsp
  BY Zenon, <1>8, HeadRsp, AnswerHeld DEF HandleRsp, Deliver
<1>9. ASSUME NEW k \in Keys, HandleExpired(k) PROVE Held'
  BY Zenon, <1>9, SameHeld DEF HandleExpired
<1>10. ASSUME NEW r \in Reqs, TakeReq(r), want' = want,
              job' = [q \in Reqs |-> IF q \in {r} THEN "answered" ELSE job[q]],
              \/ UNCHANGED <<doing, waiters>>
              \/ want[r] \notin doing /\ StartQuery(want[r], <<>>)
       PROVE  Held'
  <2>1. /\ Elems(reqq)' = Elems(reqq) \ {r} /\ r \in Elems(reqq)
        /\ \A i, j \in 1..Len(reqq') : reqq'[i] = reqq'[j] => i = j
        /\ job[r] = "waiting" /\ \A k \in Keys : r \notin Senders(k)
    BY Zenon, <1>10, TakeReqHeld
  <2>2. ASSUME NEW k \in Keys PROVE Senders(k)' = Senders(k)
    <3>1. waiters'[k] = waiters[k]
      BY Zenon, <1>0, <1>10 DEF StartQuery, TablesAgree, TypeOK, TableType
    <3> QED BY SMTT(30), <3>1 DEF Senders, Elems
  <2>3. ASSUME NEW k \in Keys, Senders(k) # {} PROVE k \in doing' <=> k \in doing
    <3>1. waiters[k] # <<>>
      BY <2>3 DEF Senders, Elems
    <3>2. k \in doing
      BY Zenon, <3>1 DEF TablesAgree
    <3>3. doing' = doing \/ doing' = doing \cup {want[r]}
      BY Zenon, <1>10 DEF StartQuery
    <3> QED BY Zenon, <3>2, <3>3
  <2>4. WaiterHeld'
    <3> SUFFICES ASSUME NEW q \in Reqs
                 PROVE  job'[q] = "waiting" <=>
                          \/ q \in Elems(reqq)'
                          \/ q \in Senders(want[q])' /\ want[q] \in doing'
      BY Zenon, <1>10 DEF WaiterHeld
    <3>1. CASE q = r
      BY Zenon, <1>0, <1>10, <2>1, <2>2, <3>1
    <3>2. CASE q # r
      <4>1. job'[q] = job[q] /\ (q \in Elems(reqq)' <=> q \in Elems(reqq))
        BY Zenon, <1>10, <2>1, <3>2
      <4>2. Senders(want[q])' = Senders(want[q])
        BY Zenon, <1>0, <1>10, <2>2
      <4>3. q \in Senders(want[q]) => (want[q] \in doing' <=> want[q] \in doing)
        BY Zenon, <1>0, <2>3
      <4> QED BY Zenon, <4>1, <4>2, <4>3 DEF Held, WaiterHeld
    <3> QED BY Zenon, <3>1, <3>2
  <2> QED BY <1>10, <2>1, <2>2, <2>4 DEF Held
<1>11. ASSUME NEW r \in Reqs, HandleReqCache(r) PROVE Held'
  BY Zenon, <1>10, <1>11 DEF HandleReqCache, Deliver
<1>12. ASSUME NEW r \in Reqs, HandleReqTrash(r) PROVE Held'
  <2>1. TakeReq(r) /\ want' = want
    BY Zenon, <1>12 DEF HandleReqTrash, Deliver
  <2>2. job' = [q \in Reqs |-> IF q \in {r} THEN "answered" ELSE job[q]]
    BY SMTT(30), <1>12 DEF HandleReqTrash, Deliver
  <2>3. \/ UNCHANGED <<doing, waiters>>
        \/ want[r] \notin doing /\ StartQuery(want[r], <<>>)
    BY Zenon, <1>12 DEF HandleReqTrash
  <2> QED BY Zenon, <1>10, <2>1, <2>2, <2>3
<1>13. ASSUME NEW r \in Reqs, HandleReqQuery(r) PROVE Held'
  <2>1. /\ Elems(reqq)' = Elems(reqq) \ {r} /\ r \in Elems(reqq)
        /\ \A i, j \in 1..Len(reqq') : reqq'[i] = reqq'[j] => i = j
        /\ job[r] = "waiting" /\ \A k \in Keys : r \notin Senders(k)
    BY Zenon, <1>13, TakeReqHeld DEF HandleReqQuery
  <2>2. UNCHANGED <<want, job>>
    BY Zenon, <1>13 DEF HandleReqQuery
  <2>3. doing' = doing \cup {want[r]} /\ waiters' \in [Keys -> Seq(Reqs)]
    <3>1. doing' = doing \cup {want[r]}
      BY Zenon, <1>13 DEF HandleReqQuery, StartQuery
    <3>2. TableType'
      BY Zenon, TableTypeNext
    <3> QED BY Zenon, <3>1, <3>2 DEF TableType
  <2>4. ASSUME NEW k \in Keys
        PROVE  Senders(k)' = IF k = want[r] THEN Senders(k) \cup {r} ELSE Senders(k)
    <3>1. CASE k # want[r]
      <4>1. waiters'[k] = waiters[k]
        BY SMTT(30), <1>0, <1>13, <3>1 DEF HandleReqQuery, StartQuery, TypeOK, TableType
      <4> QED BY Zenon, <3>1, <4>1 DEF Senders, Elems
    <3>2. CASE k = want[r] /\ k \in doing
      <4>1. waiters'[k] = Append(waiters[k], r) /\ waiters[k] \in Seq(Reqs)
        BY Zenon, <1>0, <1>13, <3>2 DEF HandleReqQuery, TypeOK, TableType
      <4>2. Elems(Append(waiters[k], r)) = Elems(waiters[k]) \cup {r}
        BY <4>1, ElemsAppend
      <4> QED BY Zenon, <3>2, <4>1, <4>2 DEF Senders, Elems
    <3>3. CASE k = want[r] /\ k \notin doing
      <4>1. waiters'[k] = <<r>> /\ waiters[k] = <<>>
        BY SMTT(30), <1>0, <1>13, <3>3 DEF HandleReqQuery, StartQuery, TypeOK, TableType, TablesAgree
      <4> QED BY <3>3, <4>1 DEF Senders, Elems
    <3> QED BY Zenon, <3>1, <3>2, <3>3
  <2>5. ASSUME NEW k \in Keys, Senders(k) # {} PROVE k \in doing
    BY SMTT(30), <2>5 DEF TablesAgree, Senders, Elems
  <2>6. WaiterHeld'
    <3> SUFFICES ASSUME NEW q \in Reqs
                 PROVE  job[q] = "waiting" <=>
                          \/ q \in Elems(reqq)'
                          \/ q \in Senders(want[q])' /\ want[q] \in doing'
      BY Zenon, <2>2 DEF WaiterHeld
    <3>1. CASE q = r
      BY SMTT(30), <1>0, <2>1, <2>2, <2>3, <2>4, <3>1
    <3>2. CASE q # r
      BY <1>0, <2>1, <2>2, <2>3, <2>4, <2>5, <3>2 DEF Held, WaiterHeld
    <3> QED BY Zenon, <3>1, <3>2
  <2> QED BY SMTT(30), <2>1, <2>2, <2>4, <2>6 DEF Held
<1>14. CASE UNCHANGED vars
  BY Zenon, <1>14, SameHeld DEF vars
<1> QED
  BY Zenon, <1>1, <1>2, <1>3, <1>4, <1>5, <1>6, <1>7, <1>8, <1>9, <1>11, <1>12, <1>13, <1>14
  DEF Next, Runtime, StartFails, CtlQuit, HandleReq

\* A request that waits for the resolver is always in the channel or among the senders
\* of its own key, whose query is out: none is dropped or answered twice.
THEOREM WaitersCorrect == Spec => []WaiterHeld
<1>1. Init => Held
  BY DEF Init, Held, WaiterHeld, Senders, Elems
<1>2. TypeOK /\ TablesAgree /\ Held /\ [Next]_vars => Held'
  BY Zenon, HeldNext
<1>3. Held => WaiterHeld
  BY Zenon DEF Held
<1> QED BY <1>1, <1>2, <1>3, TypeCorrect, TablesCorrect, PTL DEF Spec

=============================================================================
