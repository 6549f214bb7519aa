------------------------------ MODULE IcapPool -------------------------------
(***************************************************************************)
(* The connection pool of an ICAP service: the pool task, the tasks that   *)
(* keep idle connections, and the clients that fetch and save them.        *)
(*                                                                         *)
(* Idle connections are counted, not named: idle keepers run, and one that *)
(* is over is counted in ended until it has decremented idle_conn_count.   *)
(* A client may drop its fetch at any time: what answers it finds that out *)
(* only when it sends, and the connection is dropped with the answer.      *)
(* The pool task selects with a bias: the check first, then commands of    *)
(* clients, and its own commands only when there are no others.            *)
(***************************************************************************)
EXTENDS Naturals, Sequences

CONSTANTS
  Clients,
  MinIdle, MaxIdle,
  CmdCap,       \* POOL_CMD_CHANNEL_SIZE
  Fetches,      \* bound: fetches of one client
  TaskCap,      \* bound: a check comes only while fewer tasks are under way
  ExpireCap     \* bound: the options expire only while fewer connections are idle

\* What is assumed of the constants
Bounds ==
  /\ MinIdle \in Nat /\ MaxIdle \in Nat /\ CmdCap \in Nat \ {0}
  /\ Fetches \in Nat /\ TaskCap \in Nat /\ ExpireCap \in Nat
  /\ "save" \notin Clients

VARIABLES
  cl,           \* state of each client
  gone,         \* clients that dropped a fetch which is still under way
  fetches,      \* fetches it has left
  client_cmd,   \* the client of a FetchConnection, "save" for a SaveConnection
  pool_cmd,
  conn_req,     \* clients whose request waits for a keeper
  idle, ended,
  idle_conn_count,
  creating,     \* tasks of do_create
  probing, probed,  \* tasks of check that fetch the options, that have sent them
  asking,       \* ended keepers that send CreateConnection
  expired       \* the options are expired

tasks == <<creating, probing, probed, asking>>
keepers == <<idle, ended, idle_conn_count>>
clients == <<cl, gone, fetches>>
channels == <<client_cmd, pool_cmd, conn_req>>
vars == <<clients, channels, keepers, tasks, expired>>

-----------------------------------------------------------------------------
(* IcapServiceClient *)

\* fetch_from_pool
Fetch(c) ==
  /\ cl[c] = "idle" /\ fetches[c] > 0
  /\ fetches' = [fetches EXCEPT ![c] = @ - 1]
  /\ cl' = [cl EXCEPT ![c] = "asked"]
  /\ client_cmd' = Append(client_cmd, c)
  /\ UNCHANGED <<gone, pool_cmd, conn_req, keepers, tasks, expired>>

\* The future of fetch_from_pool is dropped, and the receiver of the answer with it.
DropFetch(c) ==
  /\ cl[c] \in {"asked", "queued", "create"} /\ c \notin gone
  /\ gone' = gone \cup {c}
  /\ UNCHANGED <<cl, fetches, channels, keepers, tasks, expired>>

\* The oneshot of a fetch is used or dropped; nobody looks whether the client is there.
Answer(c, then) ==
  /\ cl' = [cl EXCEPT ![c] = IF c \in gone THEN "idle" ELSE then]
  /\ gone' = gone \ {c}

\* the task that the pool started for this fetch has a connection, or drops the sender
CreateForClient(c) ==
  /\ cl[c] = "create"
  /\ Answer(c, "use") \/ Answer(c, "fallback")
  /\ UNCHANGED <<fetches, channels, keepers, tasks, expired>>

\* the rest of fetch_connection: a connection and options of its own
Fallback(c) ==
  /\ cl[c] = "fallback"
  /\ \E then \in {"use", "idle"} : cl' = [cl EXCEPT ![c] = then]
  /\ UNCHANGED <<gone, fetches, channels, keepers, tasks, expired>>

\* The transaction ends; the adapter keeps the connection and it is reusable(), or not
Finish(c) ==
  /\ cl[c] = "use"
  /\ cl' = [cl EXCEPT ![c] = "idle"]
  /\ client_cmd' = Append(client_cmd, "save") \/ UNCHANGED client_cmd
  /\ UNCHANGED <<gone, fetches, pool_cmd, conn_req, keepers, tasks, expired>>

-----------------------------------------------------------------------------
(* IcapServicePool *)

save_connection ==
  /\ idle' = idle + 1
  /\ idle_conn_count' = idle_conn_count + 1
  /\ UNCHANGED ended

check_options_only ==
  /\ creating + probing + probed + asking + Len(pool_cmd) < TaskCap
  /\ expired /\ probing' = probing + 1
  /\ UNCHANGED <<clients, channels, keepers, creating, probed, asking, expired>>

check ==
  /\ creating + probing + probed + asking + Len(pool_cmd) < TaskCap
  /\ probing' = IF expired THEN probing + 1 ELSE probing
  /\ creating' = IF idle_conn_count < MinIdle THEN creating + (MinIdle - idle_conn_count) ELSE creating
  /\ UNCHANGED <<clients, channels, keepers, probed, asking, expired>>

\* FetchConnection: from a keeper if there seems to be one
handle_fetch(c) ==
  /\ IF idle_conn_count > 0
     THEN cl' = [cl EXCEPT ![c] = "queued"] /\ conn_req' = Append(conn_req, c)
     ELSE cl' = [cl EXCEPT ![c] = "create"] /\ UNCHANGED conn_req
  /\ UNCHANGED keepers

handle_save ==
  /\ IF idle_conn_count <= MaxIdle THEN save_connection ELSE UNCHANGED keepers
  /\ UNCHANGED <<cl, conn_req>>

handle_client_cmd ==
  /\ client_cmd # <<>>
  /\ client_cmd' = Tail(client_cmd)
  /\ IF Head(client_cmd) \in Clients THEN handle_fetch(Head(client_cmd)) ELSE handle_save
  /\ UNCHANGED <<gone, fetches, pool_cmd, tasks, expired>>

\* a connection that is no longer wanted is saved all the same
handle_pool_cmd ==
  /\ client_cmd = <<>> /\ pool_cmd # <<>>
  /\ pool_cmd' = Tail(pool_cmd)
  /\ \/ Head(pool_cmd) = "save" /\ save_connection /\ UNCHANGED <<creating, expired>>
     \/ Head(pool_cmd) = "options" /\ expired' = FALSE /\ UNCHANGED <<keepers, creating>>
     \/ /\ Head(pool_cmd) = "create"
        /\ creating' = IF idle_conn_count < MaxIdle THEN creating + 1 ELSE creating
        /\ UNCHANGED <<keepers, expired>>
  /\ UNCHANGED <<clients, client_cmd, conn_req, probing, probed, asking>>

OptionsExpire ==
  /\ ~expired /\ expired' = TRUE
  /\ idle_conn_count < ExpireCap
  /\ UNCHANGED <<clients, channels, keepers, tasks>>

Send(cmd) == Len(pool_cmd) < CmdCap /\ pool_cmd' = Append(pool_cmd, cmd) /\ UNCHANGED <<client_cmd, conn_req>>

\* the tasks of do_create
Created ==
  /\ creating > 0 /\ creating' = creating - 1
  /\ Send("save")
  /\ UNCHANGED <<clients, keepers, probing, probed, asking, expired>>

CreateFailed ==
  /\ creating > 0 /\ creating' = creating - 1
  /\ UNCHANGED <<clients, channels, keepers, probing, probed, asking, expired>>

\* the task of check: the options, then the connection that brought them
Probe ==
  /\ \/ probing > 0 /\ probing' = probing - 1 /\ probed' = probed + 1 /\ Send("options")
     \/ probing > 0 /\ probing' = probing - 1 /\ UNCHANGED <<probed, channels>>
     \/ probed > 0 /\ probed' = probed - 1 /\ Send("save") /\ UNCHANGED probing
  /\ UNCHANGED <<clients, keepers, creating, asking, expired>>

-----------------------------------------------------------------------------
(* IcapConnectionEofPoller::into_running, and the task around it *)

TakePeek ==
  /\ idle > 0 /\ conn_req # <<>>
  /\ Answer(Head(conn_req), "use")
  /\ idle' = idle - 1 /\ ended' = ended + 1
  /\ UNCHANGED <<fetches, channels, idle_conn_count, tasks, expired>>

\* a request is taken, and the keeper is over even if its client is gone
Take ==
  /\ idle > 0 /\ conn_req # <<>>
  /\ Answer(Head(conn_req), "use")
  /\ conn_req' = Tail(conn_req)
  /\ idle' = idle - 1 /\ ended' = ended + 1
  /\ UNCHANGED <<fetches, client_cmd, pool_cmd, idle_conn_count, tasks, expired>>

\* the peer sends or closes, or the idle timeout
KeeperEnd ==
  /\ idle > 0
  /\ idle' = idle - 1 /\ ended' = ended + 1
  /\ UNCHANGED <<clients, channels, idle_conn_count, tasks, expired>>

\* the count is decremented only when a new connection is wanted
fetch_sub_if_low ==
  /\ ended > 0 /\ ended' = ended - 1
  /\ IF idle_conn_count < MinIdle
     THEN idle_conn_count' = idle_conn_count - 1 /\ asking' = asking + 1
     ELSE UNCHANGED <<idle_conn_count, asking>>
  /\ UNCHANGED <<clients, channels, idle, creating, probing, probed, expired>>

fetch_sub ==
  /\ ended > 0 /\ ended' = ended - 1
  /\ idle_conn_count' = idle_conn_count - 1
  /\ asking' = IF idle_conn_count < MinIdle THEN asking + 1 ELSE asking
  /\ UNCHANGED <<clients, channels, idle, creating, probing, probed, expired>>

AskCreate ==
  /\ asking > 0 /\ asking' = asking - 1
  /\ Send("create")
  /\ UNCHANGED <<clients, keepers, creating, probing, probed, expired>>

-----------------------------------------------------------------------------

Init ==
  /\ cl = [c \in Clients |-> "idle"]
  /\ gone = {}
  /\ fetches = [c \in Clients |-> Fetches]
  /\ client_cmd = <<>> /\ pool_cmd = <<>> /\ conn_req = <<>>
  /\ idle = 0 /\ ended = 0 /\ idle_conn_count = 0
  /\ creating = 0 /\ probing = 0 /\ probed = 0 /\ asking = 0
  /\ expired = TRUE

into_running == check \/ handle_client_cmd \/ handle_pool_cmd

Next ==
  \/ into_running \/ OptionsExpire
  \/ Created \/ CreateFailed \/ Probe \/ AskCreate \/ fetch_sub
  \/ \E c \in Clients : Fetch(c) \/ DropFetch(c) \/ CreateForClient(c) \/ Fallback(c) \/ Finish(c)
  \/ Take \/ KeeperEnd

Spec == Init /\ [][Next]_vars

\* Fairness: all tasks run and the check interval ticks; a connect that is tried
\* again and again succeeds; a keeper that starts finds a waiting request before
\* its idle timeout.
FairSpec ==
  /\ Spec
  /\ WF_vars(check) /\ WF_vars(handle_client_cmd \/ handle_pool_cmd)
  /\ SF_vars(Created) /\ WF_vars(Created \/ CreateFailed)
  /\ WF_vars(Probe) /\ WF_vars(AskCreate) /\ WF_vars(fetch_sub)
  /\ \A c \in Clients : WF_vars(CreateForClient(c)) /\ WF_vars(Fallback(c)) /\ WF_vars(Finish(c))
  /\ SF_vars(Take)

-----------------------------------------------------------------------------
(* Properties *)

\* Types.
TypeOK ==
  /\ cl \in [Clients -> {"idle", "asked", "queued", "create", "fallback", "use"}]
  /\ gone \subseteq Clients
  /\ fetches \in [Clients -> Nat]
  /\ client_cmd \in Seq(Clients \cup {"save"})
  /\ pool_cmd \in Seq({"save", "options", "create"}) /\ Len(pool_cmd) <= CmdCap
  /\ conn_req \in Seq(Clients)
  /\ idle \in Nat /\ ended \in Nat /\ idle_conn_count \in Nat
  /\ creating \in Nat /\ probing \in Nat /\ probed \in Nat /\ asking \in Nat
  /\ expired \in BOOLEAN

\* idle_conn_count counts the keepers, those that are over but not yet taken off
\* included: it never wraps below zero and never stays above the truth.
IdleCounted == idle_conn_count = idle + ended

\* A fetch is under way in exactly one place: its command, a request to the keepers,
\* or a task that creates its connection, also when its client is gone; none is
\* answered twice.
FetchOnce ==
  \A c \in Clients :
    /\ cl[c] = "asked" <=> \E i \in 1..Len(client_cmd) : client_cmd[i] = c
    /\ cl[c] = "queued" <=> \E i \in 1..Len(conn_req) : conn_req[i] = c
    /\ \A i, j \in 1..Len(conn_req) : conn_req[i] = conn_req[j] => i = j
    /\ c \in gone => cl[c] \in {"asked", "queued", "create"}

\* The pool's count and its queues agree with the connections and the fetches there are.
Inv == TypeOK /\ IdleCounted /\ FetchOnce

\* "New connections will be established if the idle connections are less than
\* min_idle_count": unless keepers go on ending for ever, the pool gets back to it.
PoolRefills ==
  \/ []<>(idle_conn_count >= MinIdle)
  \/ []<><<KeeperEnd>>_vars

\* "there maybe race condition, so we have fallback at client side": a fetch always
\* ends with a connection or at the fallback, unless its client drops it, and one that
\* was dropped does not stand in the way of those behind it.  With MinIdle = 0 it does
\* NOT hold of the code: a request that no keeper takes stays in the channel.
FetchEnds == \A c \in Clients : cl[c] = "asked" ~> cl[c] \in {"use", "fallback"} \/ c \in gone

\* "Set the maximum idle connections count."  It does NOT hold of the code, which
\* compares with <= and saves the connections of its own tasks without a test.
MaxIdleKept == idle_conn_count <= MaxIdle
=============================================================================
