------------------------------ MODULE Hickory -------------------------------
(***************************************************************************)
(* One query of the hickory resolver driver (HickoryResolver::run) and the *)
(* client of every name server it asks (HickoryClient).                    *)
(*                                                                         *)
(* The driver asks the first server, then one more at every retry_interval *)
(* and takes answers in between through a channel of one place.  When no   *)
(* server is left to ask it waits for one more answer.  Each client spawns *)
(* a job per request; a job queries its server, retries, and hands its     *)
(* answer to the channel, waiting for the place if it must.                *)
(*                                                                         *)
(* Durations are not modelled: a timer fires at any step at which the code *)
(* lets it win over what it races with.                                    *)
(***************************************************************************)
EXTENDS Integers, FiniteSets

CONSTANTS
  N,           \* self.clients.len()
  EachTries,   \* config.each_tries
  RetryTcp,    \* config.retry_tcp(): no encryption is configured
  TailWait     \* each_timeout >= retry_interval

\* HickoryDriverConfig::check refuses an empty list of servers
ASSUME HickoryAssumption ==
  /\ N \in Nat \ {0} /\ EachTries \in Nat
  /\ RetryTcp \in BOOLEAN /\ TailWait \in BOOLEAN

VARIABLES
  pc,          \* where the driver is
  tried,       \* servers taken from the iterator of clients
  wait_left,
  last_err,    \* the server whose error was received last, or 0
  result,      \* what run_timed returned
  chan,        \* the server whose answer fills the channel, or 0
  job,         \* the request to each server
  val,         \* the answer of its job
  try_failed, try_truncated,           \* of the job
  name,        \* the name its job asks for: 0 is that of the request
  up,          \* the client of each server: "starting", "up" or "dead"
  failed_count,\* HickoryClientState
  building,    \* tasks of the client that build a new connection
  ready        \* the new connection waits in client_receiver

driver == <<pc, tried, wait_left, last_err, result>>
jobs == <<val, try_failed, try_truncated, name>>
clients == <<up, building, ready>>
vars == <<driver, chan, job, jobs, clients, failed_count>>

Servers == 1..N

\* ResolvedRecord of a server; "empty" has no address
Answers == {"ok", "empty", "err"}
is_ok(v) == v \in {"ok", "empty"}

\* errors that the driver makes itself
LocalErrors == {"no response received", "Timeout", "DriverTimedOut"}

\* requests that hold a clone of rsp_sender: "lost" stays in the queue of a
\* client that has ended
Senders == {c \in Servers : job[c] \in {"queued", "lost", "work", "send"}}

\* servers asked whose answer the driver has not received
Outstanding ==
  {c \in Servers : job[c] \in {"queued", "lost", "dropped", "work", "send", "sent"}}

-----------------------------------------------------------------------------
(* The driver *)

AskUncounted(c) ==
  /\ tried' = c /\ UNCHANGED wait_left
  /\ job' = [job EXCEPT ![c] = IF up[c] = "dead" THEN "refused" ELSE "queued"]

\* clients.next() and the send: it fails when the client has ended
Ask(c) ==
  /\ tried' = c
  /\ IF up[c] = "dead"
     THEN wait_left' = wait_left - 1 /\ job' = [job EXCEPT ![c] = "refused"]
     ELSE job' = [job EXCEPT ![c] = "queued"] /\ UNCHANGED wait_left

SendFirst ==
  /\ pc = "start"
  /\ Ask(1)
  /\ pc' = "loop"
  /\ UNCHANGED <<last_err, result, chan, jobs, clients, failed_count>>

Return(r) == pc' = "done" /\ result' = r

RecvAnyError ==
  /\ pc = "loop" /\ chan # 0
  /\ wait_left' = wait_left - 1
  /\ Return(val[chan])
  /\ job' = [job EXCEPT ![chan] = "got"]
  /\ chan' = 0
  /\ UNCHANGED <<tried, last_err, jobs, clients, failed_count>>

Recv ==
  /\ pc = "loop" /\ chan # 0
  /\ wait_left' = wait_left - 1
  /\ IF is_ok(val[chan]) \/ wait_left' = 0
     THEN Return(val[chan]) /\ UNCHANGED last_err
     ELSE last_err' = chan /\ UNCHANGED <<pc, result>>
  /\ job' = [job EXCEPT ![chan] = "got"]
  /\ chan' = 0
  /\ UNCHANGED <<tried, jobs, clients, failed_count>>

\* the select is biased: an answer that is there goes first
AskNext ==
  /\ pc = "loop" /\ chan = 0 /\ tried < N
  /\ Ask(tried + 1)
  /\ UNCHANGED <<pc, last_err, result, chan, jobs, clients, failed_count>>

Break ==
  /\ pc = "loop" /\ chan = 0 /\ tried = N
  /\ pc' = "tail"
  /\ UNCHANGED <<tried, wait_left, last_err, result, chan, job, jobs, clients, failed_count>>

\* last_err.unwrap_or(end_err)
EndErr(e) == Return(IF last_err = 0 THEN e ELSE val[last_err])

TailRecv ==
  /\ pc = "tail" /\ TailWait /\ chan # 0
  /\ Return(val[chan])
  /\ job' = [job EXCEPT ![chan] = "got"]
  /\ chan' = 0
  /\ UNCHANGED <<tried, wait_left, last_err, jobs, clients, failed_count>>

TailNone ==
  /\ pc = "tail" /\ TailWait /\ chan = 0 /\ Senders = {}
  /\ EndErr("no response received")
  /\ UNCHANGED <<tried, wait_left, last_err, chan, job, jobs, clients, failed_count>>

TailTimeout ==
  /\ pc = "tail" /\ (TailWait => chan = 0 /\ Senders # {})
  /\ EndErr("Timeout")
  /\ UNCHANGED <<tried, wait_left, last_err, chan, job, jobs, clients, failed_count>>

\* run_timed: protective_query_timeout, looked at when run() is waiting
Protect ==
  /\ pc \in {"loop", "tail"} /\ chan = 0
  /\ Return("DriverTimedOut")
  /\ UNCHANGED <<tried, wait_left, last_err, chan, job, jobs, clients, failed_count>>

Driver ==
  SendFirst \/ Recv \/ AskNext \/ Break \/ TailRecv \/ TailNone \/ TailTimeout

-----------------------------------------------------------------------------
(* A job *)

\* HickoryClient::run: a request is taken from the queue
Spawn(c) ==
  /\ up[c] = "up" /\ job[c] = "queued"
  /\ job' = [job EXCEPT ![c] = "work"]
  /\ try_failed' = [try_failed EXCEPT ![c] = EachTries]
  /\ try_truncated' = [try_truncated EXCEPT ![c] = RetryTcp]
  /\ UNCHANGED <<driver, chan, val, name, clients, failed_count>>

\* name is a local of HickoryClientJob::run
JobReturns(c, v) ==
  /\ val' = [val EXCEPT ![c] = v] /\ job' = [job EXCEPT ![c] = "send"]
  /\ name' = [name EXCEPT ![c] = 0]

\* self.run(client, req): from the name of the request again
JobRestarts(c) == name' = [name EXCEPT ![c] = 0] /\ UNCHANGED <<val, job>>

\* the query fails; the job goes on when it may and a new client can be built
JobFails(c) ==
  /\ job[c] = "work"
  /\ failed_count' = [failed_count EXCEPT ![c] = @ + 1]
  /\ try_failed' = [try_failed EXCEPT ![c] = @ - 1]
  /\ \/ try_failed'[c] > 0 /\ JobRestarts(c)
     \/ JobReturns(c, "err")
  /\ UNCHANGED <<driver, chan, try_truncated, clients>>

\* a truncated answer is asked for again over TCP if that connects
JobTruncated(c) ==
  /\ job[c] = "work" /\ try_truncated[c]
  /\ try_truncated' = [try_truncated EXCEPT ![c] = FALSE]
  /\ JobRestarts(c) \/ UNCHANGED <<name, val, job>>
  /\ UNCHANGED <<driver, chan, try_failed, clients, failed_count>>

\* a response code, addresses or nothing
JobAnswers(c) ==
  /\ job[c] = "work"
  /\ \E v \in Answers : JobReturns(c, v)
  /\ UNCHANGED <<driver, chan, try_failed, try_truncated, clients, failed_count>>

\* only a CNAME: its target, another name, is asked for next.  Nothing ends a
\* chain, or a cycle, of CNAMEs.
JobFollows(c) ==
  /\ job[c] = "work"
  /\ name' = [name EXCEPT ![c] = 1 - @]
  /\ try_truncated' = [try_truncated EXCEPT ![c] = TRUE]
  /\ UNCHANGED <<driver, chan, job, val, try_failed, clients, failed_count>>

JobSendsOrWaits(c) ==
  /\ job[c] = "send" /\ chan = 0
  /\ chan' = c
  /\ job' = [job EXCEPT ![c] = "sent"]
  /\ UNCHANGED <<driver, jobs, clients, failed_count>>

\* rsp_sender.send(r).await: at once when the receiver is gone
JobSends(c) ==
  /\ job[c] = "send"
  /\ \/ /\ pc # "done" /\ chan = 0
        /\ chan' = c
        /\ job' = [job EXCEPT ![c] = "sent"]
     \/ /\ pc = "done"
        /\ job' = [job EXCEPT ![c] = "gone"]
        /\ UNCHANGED chan
  /\ UNCHANGED <<driver, jobs, clients, failed_count>>

Job(c) == Spawn(c) \/ JobFails(c) \/ JobTruncated(c) \/ JobAnswers(c) \/ JobFollows(c) \/ JobSends(c)

-----------------------------------------------------------------------------
(* A client *)

\* HickoryClient::new(..).await.unwrap() in the task of the client.  When it
\* panics the receiver is dropped; what is queued is dropped with it or stays.
ClientStarts(c) ==
  /\ up[c] = "starting"
  /\ \/ up' = [up EXCEPT ![c] = "up"] /\ UNCHANGED job
     \/ /\ up' = [up EXCEPT ![c] = "dead"]
        /\ \E s \in {"lost", "dropped"} :
             job' = [job EXCEPT ![c] = IF @ = "queued" THEN s ELSE @]
  /\ UNCHANGED <<driver, chan, jobs, building, ready, failed_count>>

CheckTickClears(c) ==
  /\ up[c] = "up" /\ job[c] # "queued"
  /\ failed_count[c] > 0
  /\ failed_count' = [failed_count EXCEPT ![c] = 0]
  /\ UNCHANGED <<driver, chan, job, jobs, clients>>

\* check_interval; requests go first
CheckTick(c) ==
  /\ up[c] = "up" /\ job[c] # "queued"
  /\ failed_count[c] > 0
  /\ failed_count' = [failed_count EXCEPT ![c] = 0]
  /\ building' = [building EXCEPT ![c] = @ + 1]
  /\ UNCHANGED <<driver, chan, job, jobs, up, ready>>

\* build_async_client, then try_send to a channel of one place
BuildEnds(c) ==
  /\ building[c] > 0
  /\ building' = [building EXCEPT ![c] = @ - 1]
  /\ \E built \in BOOLEAN : ready' = [ready EXCEPT ![c] = @ \/ built]
  /\ UNCHANGED <<driver, chan, job, jobs, up, failed_count>>

Replace(c) ==
  /\ up[c] = "up" /\ job[c] # "queued" /\ ready[c]
  /\ ready' = [ready EXCEPT ![c] = FALSE]
  /\ UNCHANGED <<driver, chan, job, jobs, up, building, failed_count>>

Client(c) == ClientStarts(c) \/ CheckTick(c) \/ BuildEnds(c) \/ Replace(c)

-----------------------------------------------------------------------------

Init ==
  /\ pc = "start" /\ tried = 0 /\ wait_left = N /\ last_err = 0 /\ result = "none"
  /\ chan = 0
  /\ job = [c \in Servers |-> "none"] /\ val = [c \in Servers |-> "none"]
  /\ try_failed = [c \in Servers |-> 0] /\ try_truncated = [c \in Servers |-> FALSE]
  /\ name = [c \in Servers |-> 0]
  /\ up = [c \in Servers |-> "starting"]
  /\ failed_count = [c \in Servers |-> 0]
  /\ building = [c \in Servers |-> 0] /\ ready = [c \in Servers |-> FALSE]

Next == Driver \/ Protect \/ \E c \in Servers : Job(c) \/ Client(c)

Spec == Init /\ [][Next]_vars

\* Fairness: tokio polls the driver when an answer or a timer wakes it, timers
\* fire, and queries of a job end because request_timeout ends them.  Nothing
\* is assumed of protective_query_timeout.
Fairness == WF_vars(Driver) /\ \A c \in Servers : WF_vars(Job(c)) /\ WF_vars(Client(c))

FairSpec == Spec /\ Fairness

-----------------------------------------------------------------------------
(* Properties *)

JobStates == {"none", "refused", "queued", "lost", "dropped", "work", "send", "sent", "got", "gone"}

TypeDriver ==
  /\ pc \in {"start", "loop", "tail", "done"}
  /\ tried \in 0..N /\ wait_left \in 0..N /\ last_err \in 0..N
  /\ result \in Answers \cup LocalErrors \cup {"none"}
  /\ chan \in 0..N

TypeJobs ==
  /\ job \in [Servers -> JobStates]
  /\ val \in [Servers -> Answers \cup {"none"}]
  /\ try_failed \in [Servers -> Int]
  /\ try_truncated \in [Servers -> BOOLEAN]
  /\ name \in [Servers -> 0..1]

TypeClients ==
  /\ up \in [Servers -> {"starting", "up", "dead"}]
  /\ failed_count \in [Servers -> Nat]
  /\ building \in [Servers -> Nat] /\ ready \in [Servers -> BOOLEAN]

\* Types; wait_left, a usize, never goes below zero in HickoryResolver::run.
TypeOK == TypeDriver /\ TypeJobs /\ TypeClients

\* HickoryResolver::run: wait_left counts the servers not asked yet and those
\* whose answer is still to come, whatever sends failed on the way.
WaitLeftExact == pc \in {"start", "loop"} => wait_left = (N - tried) + Cardinality(Outstanding)

\* "All server will be tried before get a positive server response": unless the
\* protective timeout ends it, run() returns an error only after it has turned
\* to every server.
AllTried == pc = "done" /\ ~is_ok(result) /\ result # "DriverTimedOut" => tried = N

\* run() reports "no response received" only when no server can have answered:
\* every request was refused by, or dropped with, the client of its server.
NoResponseMeansNone ==
  result = "no response received" => \A c \in Servers : job[c] \in {"refused", "dropped"}

\* "We will always receive responses from previous tried servers, and the first
\* positive one will be used": run() does not return the error of a server while
\* the positive answer of another one waits to be received.  It does NOT hold of
\* the code: after its loop run() returns the next record whatever it is.
FirstPositiveUsed ==
  [][pc' = "done" /\ result' = "err" =>
       ~ \E c \in Servers : job[c] = "send" /\ is_ok(val[c])]_vars

\* run() ends even if no client ever answers and without the protective timeout.
QueryEnds == <>(pc = "done")

\* The job of every request ends too, and does not wait forever for a place in the
\* channel of a query that is over, unless CNAMEs without end keep it at work.
JobsEnd ==
  \A c \in Servers :
    <>[](job[c] \notin {"queued", "work", "send"}) \/ []<><<JobFollows(c)>>_vars

\* HickoryClient::run: after a failed query the connection is built anew.
FailureRebuilds == \A c \in Servers : failed_count[c] > 0 ~> failed_count[c] = 0 /\ building[c] > 0

=============================================================================
