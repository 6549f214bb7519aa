# TLA+ specifications of g3

## The system

g3 is a family of asynchronous Rust daemons (`g3proxy`, `g3tiles`, `g3statsd`, `g3keymess`), two
helper services (`g3fcgen`, `g3iploc`), two tools (`g3bench`, `g3mkcert`) and the libraries under
`lib/` that they share. Nearly all of it runs on tokio: tasks that are polled, channels, timers and
`select!`. What is hard to test in it is the order in which these act, and that is what the
specifications here are about.

A request takes this way through g3proxy:

1. a *server* (`serve/http_proxy`) runs two tasks for a client connection, a reader that parses
   requests ahead and a writer that handles them in order (`HttpPipeline`);
2. the *forward task* of a request sends it over a kept or new upstream connection and returns the
   response (`HttpForward`), a CONNECT becomes a relay of bytes in both directions (`Transit`), each
   direction a *stream copy* (`StreamCopy`, which implements `BytePipe`);
3. the upstream's name goes through the caching *resolver* thread (`Resolver`) to one of its
   *drivers* (`Hickory`, `FailOver`);
4. reads, writes and datagrams pass the *speed limits* of task, user and server (`StreamLimit`,
   `DatagramLimit`);
5. on the way, agents ask external services over UDP and cache the answers: for certificates
   (`CertAgent`), for routes (`RouteQuery`), both built on one library cache (`EffectiveCache`), and
   for locations of addresses (`IpLocate`); ICAP servers are asked over pooled connections
   (`IcapPool`).

## Modules

One step of a module is one poll of one source together with the code that runs before the next
point where another task can act: an `await`, a `Poll::Pending`, or an access to an atomic counter
that other threads share. Durations are left out everywhere; a timer fires at any step at which the
code lets it win over what it races with (a `biased` select, and `timeout`, look at the other side
first). Names of actions are the names of the functions they model where TLA+ allows it, and
`PROJECT.json` gives the lines of every definition.

| module | code | state and steps |
|---|---|---|
| `Resolver` | `lib/g3-resolver/src/{runtime,handle,resolver}.rs` | tables `cache`, `trash`, `doing` and the expiry queue; the batch counter and wakers of `poll_loop`; clients, the driver, the owner (update, shutdown, drop) and the clock |
| `Hickory` | `driver/hickory/{driver,client}.rs`, `config/mod.rs` | one query: the driver's loop with `wait_left`, the channel of one place, a job per request, a client task per server that rebuilds its connection |
| `FailOver` | `driver/fail_over/driver.rs` | one query over two resolvers, with `fallback_delay`, the race after it and the protective timeout |
| `BytePipe` | what `StreamCopy` promises | bytes arrived, taken and given, and how the copy ended |
| `StreamCopy` | `lib/g3-io-ext/src/stream/copy.rs` | the buffer with its offsets, yields, flushes, wakers, and a writer that buffers as TLS does; byte *i* of the stream is the number *i* |
| `Transit` | `g3proxy/src/inspect/stream/mod.rs` | two `BytePipe`s, half close, the idle check, a blocked user and `force_quit` |
| `HttpPipeline` | `g3proxy/src/serve/http_proxy/task/pipeline/*.rs` | the queue of requests, the channel that hands the read half back, `alive_task`, both tasks; a request is its kind and its keep-alive |
| `HttpForward` | `.../task/forward/task.rs`, `module/http_forward/connection/eof_poller.rs` | forward tasks one after the other over one client connection: saved connection and poller, resends, three ways to send a body, ICAP, early and interim responses |
| `EffectiveCache` | `lib/g3-io-ext/src/cache/*.rs` | cache runtime, fetch handle, query handle, with their channels and timers |
| `CertAgent`, `RouteQuery` | `lib/g3-cert-agent/src/query.rs`, `g3proxy/src/escape/route_query/query.rs` | `EffectiveCache` composed with each of its two query runtimes, over a socket that loses, doubles and delays |
| `IpLocate` | `lib/g3-ip-locate/src/*.rs` | the same idea with a table of nested networks, and locations that are pushed unasked |
| `IcapPool` | `lib/g3-icap-client/src/service/{pool,connection,client}.rs` | the pool task, keepers of idle connections, clients that fetch, drop a fetch, fall back and save |
| `StreamLimit` | `lib/g3-io-ext/src/limit/**/stream.rs`, `stream/limited/*.rs` | token buckets, the local window, and every access of a poll to a bucket as a step of its own |
| `DatagramLimit` | the same for `datagram.rs`, `udp/send.rs` | buckets of packets and bytes, single packets and batches |

The `MC…` modules give constants their values. Where two components share a run (`MCDrivers`,
`MCCaches`, `MCRelay`, `MCConnections`) a variable `which`, constant in every behaviour, says which of
the two is running, and the other one stays in its initial state. `MCLookups` extends `MCDrivers` with
the ip locate agent, whose specification `LocateSpec` leaves the drivers without a query; so one module
of proofs can speak of both.

How the modules are connected:

* `Transit` does not contain `StreamCopy`, it contains what `StreamCopy` is proved to implement;
* `HttpPipeline` uses of a forward task only that a client connection it keeps is at the end of the
  request; `KeptMeansServed` of `HttpForward` is that promise;
* `CertAgent` and `RouteQuery` extend `EffectiveCache`, so its properties are checked with the real
  users of its handle and not with a made-up one;
* `Resolver` is checked against a driver that may answer anything at any time, and `EveryQueryEnds`
  of the drivers is what its fairness assumes of them.

## Runs

| run | what it shows | bounds |
|---|---|---|
| `resolver` | an entry of `doing` means exactly one query out (`SingleFlight`); the tables agree (`TablesAgree`); a failed refresh keeps a stale record (`StaleKeptOnError`); every request is answered (`RequestEnds`); a `Quit` ends the thread unless an `Update` came before it (`ShutdownEnds`) | one domain, three requests, batches of 2, one update, 2 ticks: a later request can wait, be answered from trash or find an expired record; the safety properties are proved for any number |
| `drivers` | `wait_left` is exact and an error comes only after every server had its turn; a fail_over query reports the failure of a resolver only when both have answered and neither succeeded, and its protective timeout, which drops a stale record that is held, only when the primary has no fresh valid answer, nor the standby once `fallback_delay` is over (`FailOverRight`); a hickory query ends without its protective timeout, a fail_over query ends, and a job ends unless its server answers with CNAMEs for ever (`EveryQueryEnds`); a failed connection is rebuilt | two servers, two tries, CNAMEs without a limit between two names: the first number at which answers of two servers compete for the one place in the channel |
| `relay` | a copy implements `BytePipe` and leaves no byte behind for ever (`Delivered`); the result of a relay tells what was relayed (`Outcome`); a silent relay ends (`TaskEnds`) | buffer of 3 and stream of 4 bytes: overlapping moves, reuse of the buffer, yields; relay with buffers of 1, 2 bytes each way, 2 idle checks |
| `http_forward` | what an upstream is sent of a body is a beginning of it (`BodyIntact`), a response goes to the request it answers (`RightReply`), a client connection is kept only at the end of an answered request (`KeptMeansServed`), every task ends | 2 forward tasks with bodies up to 2 units against a read buffer of 2 units, so that a body is shorter than, as long as and longer than what fits |
| `connections` | of `HttpPipeline`, `Inv`: the read half is in one place, the next request is looked for at the end of the last but for two cases (see below), `alive_task` is right; `QuitOnlyIdle`; both tasks end. Of `IcapPool`: `idle_conn_count` is exact and a fetch, dropped or not, is in one place and served once (`PoolRight`); a fetch that is not dropped ends; the pool refills | 3 requests of any kind over a queue of 2 (one queued, one handled, one parsed); 2 clients of the pool, `min_idle_count` 2: with 1 the request for a new connection at `fetch_sub` is never made |
| `caches` | no fetch forgotten, no query lost or doubled (`CacheInv`), the id maps of route_query agree with the queries (`RouteIdsMatch`), a fresh record never vanishes (`VanishOnlyStale`), every fetch ends | 2 keys, 2 fetches, batches of 2 |
| `ip_locate` | no fetch forgotten and no timeout left armed (`LocateRight`); every fetch ends if the service answers every query, however late | 2 addresses of one network, so that the answer for one is a location of the other, 2 fetches. With a network nested in the other the same properties held in a single longer run (5,089,142 states, 17 minutes), which is not kept |
| `stream_limit` | no bucket lets more through than it was given (`RateKept`); a poll holds tokens exactly where its loops look for them; every bucket is charged alike; two streams never starve each other for ever | 2 streams, 2 buckets, one update of a configuration; the window of one stream is set to 1 or 2 bytes or taken away between any two polls, the other stream has none (with windows of 1 and 2 bytes for both, the same properties held in a run of 1,471,653 states and nine minutes, which is not kept) |
| `datagram_limit` | the same for packets and bytes, with the local window | 2 sockets, 2 buckets that hold up to 2 packets and 3 bytes, single packets of 2 bytes and a batch of packets of 2 and 1: whole, cut by packets, cut by bytes, and with too few bytes for its first packet |
| `cert_agent_panic` | *violation*: a socket error ends the query runtime, and the cache runtime then reaches its `unreachable!()` | one key, two fetches |
| `forward_retry` | *violation*: a resend that cannot connect has answered the client, and the task connects again | two tasks with bodies of one unit |
| `pipeline_reader` | *violation*: a read half is handed back to a reader that has ended, "impossible" in the comment there | one CONNECT |

`CHECK_DEADLOCK FALSE` is set where the modelled system ends or its bounded input runs out; in
`http_forward`, `stream_limit` and `datagram_limit`, and in the violations `forward_retry` and
`pipeline_reader`, deadlock is checked.

### Fairness

* *The runtime runs what is ready.* Weak fairness of the steps of a task: tokio polls a task that was
  woken. Wakers are part of `Resolver` and `StreamCopy`, so a lost wakeup shows as a violation there.
* *Timers fire.* Weak fairness of timeouts, ticks and replenish tasks.
* *Strong fairness* is used where a step is enabled only now and then: a reader or writer that is
  ready again and again (`StreamCopy`, `StreamLimit`, `DatagramLimit`), a connect that is tried again
  and again and a keeper that looks for a waiting request (`IcapPool`).
* *The environment.* These are assumptions on the other side, not promises of the code:
  the far ends of a copy become ready again and again and read what they are sent (`StreamCopy`,
  the speed limits); they read what `write_flush` and `shutdown` hand out (`Transit`; both are
  awaited outside the select); an ICAP server accepts a connection some day and clients finish their
  transactions (`IcapPool`); an upstream that has begun a response header before the request is sent
  goes on or closes (`HttpForward`, `recv_response_header` at `task.rs:916` and `:1351`, which have no
  timeout); a helpful ip location service answers (`IpLocate`). A driver's query ends by its
  protective timeout (`Resolver`). Nothing is assumed of DNS servers: one that answers every question
  with another CNAME keeps its job busy for ever (`hickory/client.rs:188` follows them without a limit),
  and `JobsEnd` excepts that job alone, while the query itself still ends. Nothing is assumed either of
  the two resolvers of `FailOver`, of the certificate generator or of the route_query service.

## Proofs

TLAPS checks these for every value of the constants that the named assumption of each module allows:
sizes, numbers of servers and of pipeline places of at least 1, bursts at least as large as what is
replenished, and for `Resolver` a `BatchCount` of at least 2. In the code
`batch_request_count` is 10: nothing in the repository sets it to another value.

* `ResolverProofs`: types; `SingleFlight`; `TablesAgree`; `WaiterHeld`, that a waiting request is
  where the runtime will find it; `NoSleepOnWork`, that a sleeping thread has its waker in both
  channels and both are empty; `StaleKeptOnError`. The invariants build on one another: types, then
  the tables, then the queries, then the waiters.
* `LookupProofs`, of `Hickory`: types, with `wait_left` in 0..N; `WaitLeftExact`; `AllTried`;
  `NoResponseMeansNone`. Every action has one of seven *effects* on what the invariant talks of
  (`StepEffect`); the counting is then done once per effect with cardinalities. Of `FailOver`:
  `FailOverRight`. The invariant adds what is known of the other job while one is awaited: never
  there, answered without success, or stale and kept; and that no fresh valid answer of a resolver that
  is being listened to is left unreceived when the protective timeout fires. Of `IpLocate`: `LocateRight`. The invariant adds
  that nothing knows of a request before it is made.
* `RelayProofs`, of `StreamCopy`: `WindowExact`, `NoSleepOnWork` and the refinement `Spec => PipeSpec`.
  The invariant adds that `out` is the prefix of the stream that was written, that `read_done` means
  the reader's end was seen, and which wakers are armed at which place. Of `Transit`: `Outcome`. The
  invariant adds what each phase knows of the two copies, and that a direction which has not been
  active since the last tick was quiet for longer than `idle_count` (`IdleInv`); the count that the
  half-closed task takes over from the full one is where this is needed.
* `ConnectionProofs`, of `HttpPipeline`: `Inv` and the action property `QuitOnlyIdle`. `Inv` is not inductive: one must
  also know where the reader has the read half (`Places`), with which request an unread body travels
  (`Unread`), and that a decision to quit stays right until the timeout (`Quit`): while the reader
  waits only it could add a request, and it does not. Of `IcapPool`: `PoolRight`.
  That a fetch is in one place only is not inductive: a client must also be known to be at most once in
  either queue (`Queued`).
* `HttpForwardProofs`: `BodyIntact`, `RightReply` and `KeptMeansServed`, for bodies and a read-ahead
  buffer of any size, and any number of requests and interim responses. `HttpForwardInv` has the
  invariant, in layers. `Control` says who has the connection, whether an attempt may be retried and
  how often the client was answered at each place of the task; `ShapeInv` what was read ahead. `BodyInv`
  accounts for the body: either what was taken of it is what the upstream has followed by what is in the
  buffers (`Normal`), or a connect error was the answer, or read_all_now met the end of the client's
  data, and what it had taken is lost (`Stuck`): the task may then still be retried, but nothing more of
  the body can come, so that a wrong body cannot be sent as a whole one. `TalkInv` says that all that is
  on a connection is about the request of the task that has it, that the request was sent once, and that
  its final response is the last to come. `BodyCorrect` holds whatever the switches are. `ReplyCorrect`
  assumes `~EarlyHints`, and `KeptCorrect` also `~EagerIcap` and `~SockOptsFail`: with them the
  properties fail, see below.
* `CacheProofs`, of `EffectiveCache` with either of its query runtimes: `CacheInv`, `RouteIdsMatch` and
  the action property `VanishOnlyStale`. The cache and its query handle are proved once, against the
  steps a query runtime may take (`QueryStep`); then each runtime is shown to take only such steps. For
  the id maps one must also know that no id above `last_id` is in use.
* `StreamLimitProofs`: bursts, local window, `HeldIsRange`, `ChargedAlike` and the action property
  `RateKept`. The invariant says, per stream, what the buckets before and behind the loop index hold.
* `DatagramLimitProofs`: `Inv` and the action property `RateKept`, for any sockets, buckets, bursts and
  windows, either kind of token left unlimited, and batches of any sizes. `Inv` says what holds when the
  inner socket is called and between polls; it is not inductive, because in between a poll takes from and
  gives to one counter of one bucket at a time. `IInv` says for every place of a poll what it knows of its
  request (`Req`: how many packets it may still ask for, and that the bytes it took do not pay for them
  all where some are given back), what is checked in every bucket before and behind the one its loop is at
  (`ChkAt`), that in `release_global` nothing is checked behind the first bucket where nothing is
  (`Closed`), and that the local window still has room for the packets it granted (`WinOK`). Packets may
  be empty, so that totals repeat and `binary_search` may find any of the equal ones (`WholePackets`);
  only the bound on the bytes of a window assumes that no poll begins with an empty packet. A limiter may
  have no bucket. The panic at `token_bucket/datagram.rs:241` is a place like the others, so the theorems
  hold of behaviours that reach it. The lemmas about one bucket (`TookPacketsAt`, `GrantedAt`, …) say what a step
  makes of what is checked there and by how much what is held there changes; a step's proof adds up the
  tokens of the bucket with them (`Step`).

`FailOver`, `Transit`, `IcapPool` and `IpLocate` are reached through `INSTANCE`. What a theorem about them assumes of
the constants is an assumption of the module of the run, where TLC evaluates it (`RelayAssumption`,
`PoolAssumption`, `IpLocateAssumption`).

Only model-checked: all liveness properties (fairness and ENABLED are out of the prover's reach). Every
invariant and every action property of a passing run has a theorem.

## Where code and documents disagree

Three disagreements have a run of their own (see the findings in `PROJECT.json`). The following are
definitions of the modules whose comment says that they do not hold. TLC finds a
counterexample to each with the constants given, liveness ones under `FairSpec`, the others under
`Spec`. Paths of documents are below `sphinx/g3proxy/configuration/`, except the first, given in full.

| definition | code | the document | refuted with |
|---|---|---|---|
| `Resolver.ShutdownAlwaysEnds` | `lib/g3-resolver/src/runtime.rs:343`: one command is polled per wakeup, so a `Quit` behind an `Update` waits for another event | "Set the wait duration before really shutdown the resolver thread." (`sphinx/g3proxy/configuration/resolvers/index.rst:57`) | `MCResolver.cfg` |
| `StreamCopy.OkMeansFlushed` | `copy.rs:242`: `need_flush` was cleared by a flush that stayed pending | "If we've seen EOF and written all the data, flush out the data and finish the transfer." (`copy.rs:239`) | Size 2, MinRead 1, YieldSize 2, WriterCap 1, SockCap 1, Total 3 |
| `StreamCopy.FlushTakesEffect` | `copy.rs:220`: the same, while the copy waits for its reader | "trigger flush, no need to flush again on pending" (`copy.rs:219`) | the same with Total 2, `FairSpec` |
| `Hickory.FirstPositiveUsed` | `driver/hickory/driver.rs:147`: the wait at the end takes any answer | "We will always receive responses from previous tried servers, and the first positive one will be used." (`resolvers/hickory.rst:96`) | N 2, EachTries 1, RetryTcp FALSE, TailWait TRUE |
| `FailOver.PrimarySuccessUsed` | `driver/fail_over/driver.rs:72`: a record from the trash makes the driver await the standby first | "The **success** result of the primary resolver will always be used before the timeout." (`resolvers/fail_over.rst:10`) | either value of RetryEmpty |
| `EffectiveCache.BatchFull` | `cache/runtime.rs:150`: the loop is over `1..request_batch_handle_count`, one request less | "Set how many consequent query requests we should handle in the cache runtime before yield out to the next loop." (`escapers/route_query.rst:45`) | `CertAgent` with the constants of `MCCaches.cfg` |
| `IpLocate.WaitBounded` | `lib/g3-ip-locate/src/cache.rs:76`: an answer without a location ends a query only if the table has an old one | "Set the timeout for the cache runtime to wait response from the query runtime." (`values/geoip.rst:123`) | the constants of `MCLookups.cfg` |
| `IcapPool.FetchEnds` | `pool.rs:138`: the keeper that was counted ends first, and a request that no keeper takes stays in the channel | "there maybe race condition, so we have fallback at client side" (`pool.rs:135`) | MinIdle 0 |
| `IcapPool.MaxIdleKept` | `pool.rs:154`: the count is compared with `<=`, and connections of the pool's own tasks are saved without a test | "Set the maximum idle connections count." (`values/network.rst:242`) | the pool's constants of `MCConnections.cfg` |
| `DatagramLimit.PacketsKept` | `fixed_window/datagram.rs:64`: `>` for one packet, `>=` for a batch | "This set the max upload packets in the time slice" (`values/rate_limit.rst:78`) | N 1, RBytes 3, RPackets 0, MaxBurstBytes 3, MaxBurstPackets 0, MaxPackets 1, MaxBytes 0 |
| `DatagramLimit.UnneededReleased` | `token_bucket/datagram.rs:241`: no packet of the batch fits, and the index of `total_size_v` underflows | "release unneeded bytes" (`:239`) | batch <<2, 3>> |

Of `HttpForward` three constants describe inputs under which its properties fail; the runs have them
FALSE. `EagerIcap` (an ICAP server that answers before it has read the body): the branch of
`run_with_adaptation` that has no response yet (`task.rs:990`) does not close the client connection when
the client's data was not all read in; the branch that has one does (`task.rs:979`, "not all client data
read in, drop the client connection"). `KeptMeansServed` fails. `EarlyHints` (an upstream that sends 1xx responses): `run_without_body` and
`run_with_all_body` take such a response for the final one, and `RightReply` fails. `SockOptsFail` (a
socket option cannot be set, `task.rs:622`): the task ends without a reply and without closing, and
`KeptMeansServed` fails; `RightReply` still holds.
`AtBoundary` of `HttpPipeline`, and with it `Inv` and the theorem `PipelineCorrect`, has two exceptions
(`LeftUnread`). An upload to an FTP server that cannot be reached leaves its body in front of the next
request (`ftp/task.rs:471`). So does a CONNECT that has a body, which `HttpProxyRequest::parse` does
not ask about, when it cannot connect: the read half is handed back as it is (`pipeline/writer.rs:355`).
What `Inv` shows is that there is no third case, and that neither occurs before authentication: the
body of a request that was refused is always read first.

## Not modelled

`PROJECT.json` lists every part of the repository with its reason. The map covers about two percent
of the repository's 256,000 lines of implementation, and most of the rest has no behaviour that a
model of this kind would say something about. Counted over the `.rs` files: 26,900 lines are in
`config` directories and 19,600 in the YAML and JSON value parsers of `lib/`; 15,800 are the tools
`g3bench` and `g3mkcert`; 17,700 are the types of `lib/g3-types`. The escapers, servers and
inspectors of g3proxy (56,900 lines) do have such behaviour; of them the HTTP proxy server, the
route_query escaper and the stream relay are modelled, and most others are listed as not modelled for
lack of work done, not because they could not be. What was chosen are places where tasks, threads and
timers meet.

Left out inside modelled parts:

* the data: names, addresses, headers, certificates and payloads are tokens or numbers;
* `Hickory`: connecting, encoding, and names, of which there are two, the one of the request and another;
* `HttpForward`: speed limits, the user's request rate, headers, logs; a connect succeeds or fails;
* `HttpPipeline`: what goes on in a tunnel or an FTP dialogue;
* `StreamLimit`: adding and removing buckets of a stream between polls; `DatagramLimit`: updates of a
  bucket's configuration, resets of the window, and the receiver, which is as the sender. Its replenish
  task adds the bytes and the packets of a round in two steps; that the bytes come first is not modelled,
  so the properties hold for either order;
* `IcapPool`: messages, previews and options, and what a transaction leaves on its connection. Whether
  `reusable()` lets a connection back into the pool is open, so nothing is shown of the clean flags
  behind it (`service/connection.rs:60`).

Next in the plan: the life of a server through reload and quit (`lib/g3-daemon`, `serve/ops.rs`), the
race of connection attempts (`tcp_connect`), the multiplexed keyless backend of g3tiles, and the
collectors of g3statsd.

## Running

`tlc -config X.cfg M` for a run, `tlapm M.tla` for a module of proofs. `resolver`, `connections`,
`relay` and `ip_locate` take two to three and a half minutes on two otherwise idle cores, the others
less. `HttpForwardProofs` takes about 18 minutes to prove from nothing, `DatagramLimitProofs` 15,
`LookupProofs` eight, `RelayProofs` five, the others less.
