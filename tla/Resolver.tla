------------------------------ MODULE Resolver ------------------------------
(***************************************************************************)
(* The caching resolver of lib/g3-resolver: one thread runs                *)
(* ResolverRuntime::poll_loop over four sources (commands, driver          *)
(* responses, expiry timers, client requests).  Clients talk to it through *)
(* ResolverHandle, the owner through Resolver, the driver answers each     *)
(* query once.  The v4 and v6 tables of the code are handled alike and     *)
(* share nothing, so a key of this module is a (family, domain) pair.      *)
(*                                                                         *)
(* A step of the runtime is one poll of one source together with the       *)
(* handler it calls.  The other threads may act between two such steps.    *)
(***************************************************************************)
EXTENDS Integers, Sequences, FiniteSets

CONSTANTS
  Keys,          \* (family, domain) pairs that clients ask for
  Reqs,          \* client requests, numbered in the order in which they are made
  MinTtl,        \* positive_min_ttl
  MaxTtl,        \* positive_max_ttl
  NegTtl,        \* negative_ttl, used by empty and failed records
  RecordTtls,    \* TTLs the servers put in their records
  BatchCount,    \* runtime.batch_request_count
  MaxUpdates,    \* bound: configuration updates the owner sends
  MaxTime        \* bound: the clock stops here

ASSUME ResolverAssumption ==
  /\ Reqs \subseteq Nat
  /\ MinTtl \in Nat /\ MaxTtl \in Nat /\ NegTtl \in Nat
  /\ RecordTtls \subseteq Nat
  /\ BatchCount \in Nat \ {0, 1}
  /\ MaxUpdates \in Nat /\ MaxTime \in Nat

VARIABLES
  now,       \* the clock
  pc,        \* where poll_loop is: "idle" after Poll::Pending, "done" after Ready
  left,      \* requests the current batch may still take
  woken,     \* the task of the runtime has been woken and not polled since
  wakers,    \* channels whose receiver holds the waker of the runtime
  ctlq, rspq, reqq,  \* the three channels
  driver,    \* a driver has been spawned
  conf,      \* version of the configuration the runtime works with
  cache,     \* CachedRecord by key
  expq,      \* the DelayQueue: deadline by key
  trash,     \* TrashedRecord by key
  doing,     \* keys with an entry in the doing table
  waiters,   \* the senders of that entry
  inflight,  \* queries the driver has not answered
  want,      \* the key that each request asks for
  job,       \* what its client knows of it
  answer,    \* what it was answered
  phase,     \* how far the owner of the Resolver object is
  sent       \* version of the last configuration it sent

thread == <<pc, left, driver, conf>>
wakeup == <<woken, wakers>>
tables == <<cache, expq, trash, doing, waiters, inflight>>
clients == <<want, job, answer>>
owner == <<phase, sent>>
vars == <<now, thread, wakeup, ctlq, rspq, reqq, tables, clients, owner>>

NoTime == -1
Kinds == {"ips", "empty", "notfound", "error"}
Record == [kind : Kinds, expire : Nat, vanish : Nat \cup {NoTime}]
NoRecord == [kind |-> "none", expire |-> NoTime, vanish |-> NoTime]
Sources == {"query", "cache", "trash"}
Answer == [rec : Record, source : Sources]
NoAnswer == [rec |-> NoRecord, source |-> "none"]
Command == [cmd : {"update", "quit"}, ver : Nat]
Response == [key : Keys, rec : Record]
Channels == {"ctl", "rsp", "req", "timer"}

Elems(s) == {s[i] : i \in 1..Len(s)}

Cached(k) == cache[k] # NoRecord
Trashed(k) == trash[k] # NoRecord

\* ResolvedRecord::is_acceptable
IsAcceptable(rec) == rec.kind # "error"

\* ResolvedRecord::resolved: from the TTL of the server to the two of the cache
ExpireTtl(ttl) ==
  IF ttl > MaxTtl + MinTtl THEN MaxTtl
  ELSE IF ttl > MinTtl + MinTtl THEN ttl - MinTtl
  ELSE MinTtl

VanishTtl(ttl) == IF ttl > MinTtl THEN ttl ELSE MinTtl + 1

Resolved(ttl) ==
  [kind |-> "ips", expire |-> now + ExpireTtl(ttl), vanish |-> now + VanishTtl(ttl)]

\* ResolvedRecord::empty, failed and timed_out
Negative(kind) == [kind |-> kind, expire |-> now + NegTtl, vanish |-> NoTime]

DriverRecords ==
  {Resolved(t) : t \in RecordTtls} \cup
  {Negative(kind) : kind \in {"empty", "notfound", "error"}}

\* A send into a channel takes the waker its receiver registered, if any.
Wake(c) ==
  /\ woken' = (woken \/ c \in wakers)
  /\ wakers' = wakers \ {c}

-----------------------------------------------------------------------------
(* Clients: ResolverHandle::get_v4 / get_v6 and ResolveJob::poll_recv *)

\* get_v4 / get_v6: the request goes into the channel unless the receiver is closed
Get(r) ==
  /\ job[r] = "new" /\ \A q \in Reqs : q < r => job[q] # "new"
  /\ IF pc = "done"
     THEN /\ job' = [job EXCEPT ![r] = "norunning"]
          /\ UNCHANGED <<reqq, wakeup>>
     ELSE /\ job' = [job EXCEPT ![r] = "waiting"]
          /\ reqq' = Append(reqq, r)
          /\ Wake("req")
  /\ UNCHANGED <<now, thread, ctlq, rspq, tables, want, answer, owner>>

-----------------------------------------------------------------------------
(* The driver: every query is answered once, protective_query_timeout at worst *)

Respond(k, rec) ==
  /\ pc # "done"
  /\ inflight[k] > 0
  /\ inflight' = [inflight EXCEPT ![k] = @ - 1]
  /\ rspq' = Append(rspq, [key |-> k, rec |-> rec])
  /\ Wake("rsp")
  /\ UNCHANGED <<now, thread, ctlq, reqq, cache, expq, trash, doing, waiters, clients, owner>>

-----------------------------------------------------------------------------
(* The owner: Resolver::update_config, shutdown and drop *)

\* update_config with a configuration that differs from the last one
UpdateConfig ==
  /\ phase = "run"
  /\ sent < MaxUpdates
  /\ pc # "done"
  /\ sent' = sent + 1
  /\ ctlq' = Append(ctlq, [cmd |-> "update", ver |-> sent + 1])
  /\ Wake("ctl")
  /\ UNCHANGED <<now, thread, rspq, reqq, tables, clients, phase>>

\* shutdown: the graceful_stop_wait before the command is sent
Shutdown ==
  /\ phase = "run"
  /\ phase' = "wait"
  /\ UNCHANGED <<now, thread, wakeup, ctlq, rspq, reqq, tables, clients, sent>>

\* stop, called by drop at once and by shutdown after the wait; then the thread is joined
Stop ==
  /\ phase \in {"run", "wait"}
  /\ phase' = "joining"
  /\ IF pc = "done"
     THEN UNCHANGED <<ctlq, wakeup>>
     ELSE ctlq' = Append(ctlq, [cmd |-> "quit", ver |-> 0]) /\ Wake("ctl")
  /\ UNCHANGED <<now, thread, rspq, reqq, tables, clients, sent>>

Join ==
  /\ phase = "joining"
  /\ pc = "done"
  /\ phase' = "joined"
  /\ UNCHANGED <<now, thread, wakeup, ctlq, rspq, reqq, tables, clients, sent>>

-----------------------------------------------------------------------------
(* Time *)

Tick ==
  /\ now < MaxTime
  /\ now' = now + 1
  /\ UNCHANGED <<thread, wakeup, ctlq, rspq, reqq, tables, clients, owner>>

Expired(k) == expq[k] # NoTime /\ expq[k] <= now

\* The timer of the delay queue wakes the task that polled it.
TimerFire ==
  /\ "timer" \in wakers
  /\ \E k \in Keys : Expired(k)
  /\ Wake("timer")
  /\ UNCHANGED <<now, thread, ctlq, rspq, reqq, tables, clients, owner>>

-----------------------------------------------------------------------------
(* The runtime: ResolverRuntime::poll_loop and its handlers *)

\* Sending its answer on the oneshot of every request in the domain of ans
Deliver(ans) ==
  /\ job' = [r \in Reqs |->
               IF r \in DOMAIN ans THEN "answered" ELSE job[r]]
  /\ answer' = [r \in Reqs |-> IF r \in DOMAIN ans THEN ans[r] ELSE answer[r]]
  /\ UNCHANGED want

\* The requests whose senders wait for the query of k
Senders(k) == Elems(waiters[k])

\* The future is ready and dropped: channels close, pending senders go with it.
Finish ==
  /\ pc' = "done"
  /\ job' = [r \in Reqs |->
               IF job[r] = "waiting" THEN "norunning" ELSE job[r]]
  /\ reqq' = <<>> /\ rspq' = <<>> /\ ctlq' = <<>>
  /\ doing' = {} /\ waiters' = [k \in Keys |-> <<>>] /\ inflight' = [k \in Keys |-> 0]
  /\ cache' = [k \in Keys |-> NoRecord] /\ expq' = [k \in Keys |-> NoTime]
  /\ trash' = [k \in Keys |-> NoRecord]
  /\ woken' = FALSE /\ wakers' = {}
  /\ UNCHANGED <<now, left, driver, conf, want, answer, owner>>

\* The executor polls the woken task.
Poll ==
  /\ pc = "idle" /\ woken
  /\ pc' = "start" /\ woken' = FALSE
  /\ UNCHANGED <<now, left, driver, conf, wakers, ctlq, rspq, reqq, tables, clients, owner>>

\* The top of poll_loop: spawn the driver if there is none, then clean_trash
StartPoll ==
  /\ pc = "start"
  /\ pc' = "ctl" /\ driver' = TRUE
  /\ trash' = [k \in Keys |-> IF trash[k].vanish > now THEN trash[k] ELSE NoRecord]
  /\ UNCHANGED <<now, left, conf, wakeup, ctlq, rspq, reqq, cache, expq, doing, waiters,
                 inflight, clients, owner>>

\* The driver of the first configuration cannot be spawned: poll_loop returns the error
StartFails ==
  /\ pc = "start" /\ ~driver
  /\ Finish

\* One command at most in each turn of the loop
CtlPending ==
  /\ pc = "ctl" /\ ctlq = <<>>
  /\ pc' = "rsp" /\ wakers' = wakers \cup {"ctl"}
  /\ UNCHANGED <<now, left, driver, conf, woken, ctlq, rspq, reqq, tables, clients, owner>>

\* Faulty form of CtlQuit: the command falls through to handle_cmd, which ignores it
CtlQuitIgnored ==
  /\ pc = "ctl" /\ ctlq # <<>> /\ Head(ctlq).cmd = "quit"
  /\ pc' = "rsp" /\ ctlq' = Tail(ctlq)
  /\ UNCHANGED <<now, left, driver, conf, wakeup, rspq, reqq, tables, clients, owner>>

CtlQuit ==
  /\ pc = "ctl" /\ ctlq # <<>> /\ Head(ctlq).cmd = "quit"
  /\ Finish

\* handle_cmd: a configuration whose driver cannot be spawned is ignored
CtlUpdate ==
  /\ pc = "ctl" /\ ctlq # <<>> /\ Head(ctlq).cmd = "update"
  /\ pc' = "rsp" /\ ctlq' = Tail(ctlq)
  /\ conf' \in {conf, Head(ctlq).ver}
  /\ UNCHANGED <<now, left, driver, wakeup, rspq, reqq, tables, clients, owner>>

RspPending ==
  /\ pc = "rsp" /\ rspq = <<>>
  /\ pc' = "expire" /\ wakers' = wakers \cup {"rsp"}
  /\ UNCHANGED <<now, left, driver, conf, woken, ctlq, rspq, reqq, tables, clients, owner>>

\* update_cache: a new earliest deadline also wakes the task that waits for the timer
UpdateCache(k, rec) ==
  /\ cache' = [cache EXCEPT ![k] = rec]
  /\ expq' = [expq EXCEPT ![k] = rec.expire]
  /\ IF \A j \in Keys : expq[j] = NoTime \/ expq[j] > rec.expire
     THEN Wake("timer")
     ELSE UNCHANGED wakeup

\* handle_rsp: an error while the old record is in the trash answers with that record
HandleRspTrash ==
  LET k == Head(rspq).key
  IN /\ pc = "rsp" /\ rspq # <<>>
     /\ ~IsAcceptable(Head(rspq).rec) /\ Trashed(k)
     /\ rspq' = Tail(rspq)
     /\ doing' = doing \ {k} /\ waiters' = [waiters EXCEPT ![k] = <<>>]
     /\ Deliver([r \in Senders(k) |-> [rec |-> trash[k], source |-> "trash"]])
     /\ UNCHANGED <<now, thread, wakeup, ctlq, reqq, cache, expq, trash, inflight, owner>>

\* Faulty form of HandleRsp: the record stays in the trash when it has a successor
HandleRspKeepsTrash ==
  LET k == Head(rspq).key
      rec == Head(rspq).rec
      last == waiters[k][Len(waiters[k])]
  IN /\ pc = "rsp" /\ rspq # <<>>
     /\ IsAcceptable(rec) \/ ~Trashed(k)
     /\ rspq' = Tail(rspq)
     /\ UNCHANGED trash
     /\ doing' = doing \ {k} /\ waiters' = [waiters EXCEPT ![k] = <<>>]
     /\ Deliver([r \in Senders(k) |->
                   [rec |-> rec, source |-> IF r = last THEN "query" ELSE "cache"]])
     /\ UpdateCache(k, rec)
     /\ UNCHANGED <<now, thread, ctlq, reqq, inflight, owner>>

\* Faulty form of HandleRsp: an error replaces the record in the trash
HandleRspForgets ==
  LET k == Head(rspq).key
      rec == Head(rspq).rec
      last == waiters[k][Len(waiters[k])]
  IN /\ pc = "rsp" /\ rspq # <<>>
     /\ rspq' = Tail(rspq)
     /\ trash' = [trash EXCEPT ![k] = NoRecord]
     /\ doing' = doing \ {k} /\ waiters' = [waiters EXCEPT ![k] = <<>>]
     /\ Deliver([r \in Senders(k) |->
                   [rec |-> rec, source |-> IF r = last THEN "query" ELSE "cache"]])
     /\ UpdateCache(k, rec)
     /\ UNCHANGED <<now, thread, ctlq, reqq, inflight, owner>>

\* handle_rsp otherwise: the last sender gets the answer of the query, the others
\* one from the cache, and the record is cached
HandleRsp ==
  LET k == Head(rspq).key
      rec == Head(rspq).rec
      last == waiters[k][Len(waiters[k])]
  IN /\ pc = "rsp" /\ rspq # <<>>
     /\ IsAcceptable(rec) \/ ~Trashed(k)
     /\ rspq' = Tail(rspq)
     /\ trash' = [trash EXCEPT ![k] = NoRecord]
     /\ doing' = doing \ {k} /\ waiters' = [waiters EXCEPT ![k] = <<>>]
     /\ Deliver([r \in Senders(k) |->
                   [rec |-> rec, source |-> IF r = last THEN "query" ELSE "cache"]])
     /\ UpdateCache(k, rec)
     /\ UNCHANGED <<now, thread, ctlq, reqq, inflight, owner>>

\* handle_expired_v4 / v6: a record that may still be of use goes to the trash
HandleExpired(k) ==
  /\ pc = "expire" /\ Expired(k)
  /\ expq' = [expq EXCEPT ![k] = NoTime]
  /\ cache' = [cache EXCEPT ![k] = NoRecord]
  /\ trash' = [trash EXCEPT ![k] = IF cache[k].vanish # NoTime THEN cache[k] ELSE @]
  /\ UNCHANGED <<now, thread, wakeup, ctlq, rspq, reqq, doing, waiters, inflight, clients, owner>>

ExpirePending ==
  /\ pc = "expire" /\ \A k \in Keys : ~Expired(k)
  /\ pc' = "req" /\ left' = BatchCount - 1 /\ wakers' = wakers \cup {"timer"}
  /\ UNCHANGED <<now, driver, conf, woken, ctlq, rspq, reqq, tables, clients, owner>>

\* The next request of the batch, and what every branch of handle_req shares
TakeReq(r) ==
  /\ pc = "req" /\ left > 0 /\ reqq # <<>> /\ r = Head(reqq)
  /\ reqq' = Tail(reqq) /\ left' = left - 1
  /\ UNCHANGED <<now, pc, driver, conf, wakeup, ctlq, rspq, cache, expq, trash, owner>>

\* The query of a key that is not in the doing table
StartQuery(k, w) ==
  /\ doing' = doing \cup {k}
  /\ waiters' = [waiters EXCEPT ![k] = w]
  /\ inflight' = [inflight EXCEPT ![k] = @ + 1]

HandleReqCache(r) ==
  LET k == want[r]
  IN /\ TakeReq(r) /\ Cached(k)
     /\ Deliver([q \in {r} |-> [rec |-> cache[k], source |-> "cache"]])
     /\ UNCHANGED <<doing, waiters, inflight>>

\* Faulty form of HandleReqTrash: the doing table is not consulted
HandleReqTrashAgain(r) ==
  LET k == want[r]
  IN /\ TakeReq(r) /\ ~Cached(k) /\ Trashed(k)
     /\ Deliver([q \in {r} |-> [rec |-> trash[k], source |-> "trash"]])
     /\ StartQuery(k, <<>>)

HandleReqTrash(r) ==
  LET k == want[r]
  IN /\ TakeReq(r) /\ ~Cached(k) /\ Trashed(k)
     /\ Deliver([q \in {r} |-> [rec |-> trash[k], source |-> "trash"]])
     /\ IF k \in doing THEN UNCHANGED <<doing, waiters, inflight>> ELSE StartQuery(k, <<>>)

\* Faulty form of HandleReqQuery: the sender is not added to a running query
HandleReqQueryDrops(r) ==
  LET k == want[r]
  IN /\ TakeReq(r) /\ ~Cached(k) /\ ~Trashed(k)
     /\ IF k \in doing THEN UNCHANGED <<doing, waiters, inflight>> ELSE StartQuery(k, <<r>>)
     /\ UNCHANGED clients

HandleReqQuery(r) ==
  LET k == want[r]
  IN /\ TakeReq(r) /\ ~Cached(k) /\ ~Trashed(k)
     /\ IF k \in doing
        THEN waiters' = [waiters EXCEPT ![k] = Append(@, r)] /\ UNCHANGED <<doing, inflight>>
        ELSE StartQuery(k, <<r>>)
     /\ UNCHANGED clients

HandleReq(r) == HandleReqCache(r) \/ HandleReqTrash(r) \/ HandleReqQuery(r)

\* The batch is used up: back to the commands
BatchDone ==
  /\ pc = "req" /\ left = 0
  /\ pc' = "ctl"
  /\ UNCHANGED <<now, left, driver, conf, wakeup, ctlq, rspq, reqq, tables, clients, owner>>

\* No request: Poll::Pending
ReqPending ==
  /\ pc = "req" /\ left > 0 /\ reqq = <<>>
  /\ pc' = "idle" /\ wakers' = wakers \cup {"req"}
  /\ UNCHANGED <<now, left, driver, conf, woken, ctlq, rspq, reqq, tables, clients, owner>>

-----------------------------------------------------------------------------
Init ==
  /\ now = 0 /\ pc = "start" /\ left = 0 /\ driver = FALSE /\ conf = 0
  /\ woken = FALSE /\ wakers = {}
  /\ ctlq = <<>> /\ rspq = <<>> /\ reqq = <<>>
  /\ cache = [k \in Keys |-> NoRecord] /\ trash = [k \in Keys |-> NoRecord]
  /\ expq = [k \in Keys |-> NoTime]
  /\ doing = {} /\ waiters = [k \in Keys |-> <<>>] /\ inflight = [k \in Keys |-> 0]
  /\ want \in [Reqs -> Keys] /\ job = [r \in Reqs |-> "new"]
  /\ answer = [r \in Reqs |-> NoAnswer]
  /\ phase = "run" /\ sent = 0

Runtime ==
  \/ Poll \/ StartPoll \/ StartFails
  \/ CtlPending \/ CtlQuit \/ CtlUpdate
  \/ RspPending \/ HandleRspTrash \/ HandleRsp
  \/ \E k \in Keys : HandleExpired(k)
  \/ ExpirePending
  \/ \E r \in Reqs : HandleReq(r)
  \/ BatchDone \/ ReqPending

Owner == UpdateConfig \/ Shutdown \/ Stop \/ Join

Next ==
  \/ Runtime \/ Owner \/ Tick \/ TimerFire
  \/ \E r \in Reqs : Get(r)
  \/ \E k \in Keys, rec \in DriverRecords : Respond(k, rec)

Spec == Init /\ [][Next]_vars

\* The thread of the runtime runs, its timers fire, a driver query ends (at the
\* latest by protective_query_timeout), and the wait of shutdown is over some day.
Fairness ==
  /\ WF_vars(Runtime) /\ WF_vars(TimerFire)
  /\ \A k \in Keys : WF_vars(\E rec \in DriverRecords : Respond(k, rec))
  /\ WF_vars(phase = "wait" /\ Stop) /\ WF_vars(Join)

FairSpec == Spec /\ Fairness

-----------------------------------------------------------------------------
(* Properties *)

ThreadType ==
  /\ now \in Nat /\ left \in Nat /\ conf \in Nat /\ sent \in Nat
  /\ pc \in {"idle", "start", "ctl", "rsp", "expire", "req", "done"}
  /\ phase \in {"run", "wait", "joining", "joined"}
  /\ woken \in BOOLEAN /\ driver \in BOOLEAN
  /\ wakers \in SUBSET Channels

ChannelType ==
  /\ ctlq \in Seq(Command)
  /\ rspq \in Seq(Response)
  /\ reqq \in Seq(Reqs)

TableType ==
  /\ cache \in [Keys -> Record \cup {NoRecord}]
  /\ trash \in [Keys -> Record \cup {NoRecord}]
  /\ expq \in [Keys -> Nat \cup {NoTime}]
  /\ doing \in SUBSET Keys
  /\ waiters \in [Keys -> Seq(Reqs)]
  /\ inflight \in [Keys -> Nat]

ClientType ==
  /\ want \in [Reqs -> Keys]
  /\ job \in [Reqs -> {"new", "waiting", "answered", "norunning"}]
  /\ answer \in [Reqs -> Answer \cup {NoAnswer}]

\* The state of the runtime, its channels, its tables and its clients is well typed:
\* no count of queries or of the batch goes below zero.
TypeOK == ThreadType /\ ChannelType /\ TableType /\ ClientType

\* The response channel holds an answer for k
Answered(k) == \E i \in 1..Len(rspq) : rspq[i].key = k

\* A key is in the doing table exactly while one query for it is out: running in
\* the driver or answered and not yet handled.  handle_req never starts a second
\* one and handle_rsp never leaves an entry behind, so no client can wait for an
\* answer that will not come.
SingleFlight ==
  /\ \A k \in Keys :
       /\ inflight[k] <= 1
       /\ inflight[k] = 1 => ~Answered(k)
       /\ k \in doing <=> inflight[k] = 1 \/ Answered(k)
  /\ \A i, j \in 1..Len(rspq) : rspq[i].key = rspq[j].key => i = j

\* Every request that waits is in one place, where the runtime finds it: the
\* request channel or the senders of its own key.
WaiterHeld ==
  \A r \in Reqs : job[r] = "waiting" <=>
    \/ r \in Elems(reqq)
    \/ r \in Senders(want[r]) /\ want[r] \in doing

\* The tables of a key: a cached record has its timer and nothing else, so no query
\* runs for it, and nobody waits for a query of a key that the trash can answer.
TablesAgree ==
  \A k \in Keys :
    /\ expq[k] = cache[k].expire
    /\ Cached(k) => ~Trashed(k) /\ k \notin doing
    /\ Trashed(k) => waiters[k] = <<>>
    /\ k \notin doing => waiters[k] = <<>>

\* The task sleeps only with nothing to do: when poll_loop has returned Pending and
\* no wakeup is on its way, the channels of requests and responses are empty and a
\* send into either will wake it.
NoSleepOnWork ==
  pc = "idle" /\ ~woken => reqq = <<>> /\ rspq = <<>> /\ {"req", "rsp"} \subseteq wakers

\* handle_rsp keeps a usable record through failing refreshes: what leaves the trash
\* has vanished (clean_trash), or a response that is acceptable replaced it, or the
\* runtime ended.
StaleKeptOnError ==
  [][\A k \in Keys :
       Trashed(k) /\ trash'[k] = NoRecord =>
         \/ trash[k].vanish <= now
         \/ cache'[k] # NoRecord /\ IsAcceptable(cache'[k])
         \/ pc' = "done"]_vars

\* Every request ends, with an answer or with the error that no resolver runs.
\* Each is made once, so this is: after any of them waits, some day none does.
RequestEnds ==
  (\E r \in Reqs : job[r] = "waiting") ~> (\A r \in Reqs : job[r] # "waiting")

\* Once the owner has decided to end the resolver, the thread ends and join()
\* returns, as long as no Update was sent before.
ShutdownEnds == (phase \in {"wait", "joining"} /\ sent = 0) ~> (phase = "joined")

\* "Set the wait duration before really shutdown the resolver thread": the same
\* with updates. It does NOT hold of the code: poll_loop does not poll the
\* command channel again after an Update, so nothing wakes it for the Quit.
ShutdownAlwaysEnds == (phase \in {"wait", "joining"}) ~> (phase = "joined")

=============================================================================
