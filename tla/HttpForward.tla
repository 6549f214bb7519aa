---------------------------- MODULE HttpForward -----------------------------
(***************************************************************************)
(* The forward tasks that the HTTP proxy server runs one after the other   *)
(* for a client connection (HttpProxyForwardTask), with the upstream       *)
(* connection that the forward context keeps alive between them and the    *)
(* poller that watches it there (HttpConnectionEofPoller).                 *)
(*                                                                         *)
(* A step is one awaited operation.  A body is a sequence of units, the    *)
(* numbers 1..req.body; one poll of a copy moves any number of them        *)
(* (StreamCopy has the details).  A response arrives in parts.             *)
(***************************************************************************)
EXTENDS Naturals, Sequences

CONSTANTS
  BodyLen,       \* bound: units of a request body, at least 1
  BufSize,       \* units that fast_read_buf can take, at least 1
  Bypass,        \* bypass() of the ICAP clients
  EagerIcap,     \* an ICAP server may end the request before it has read the client body
  EarlyHints,    \* upstreams send a 1xx to requests without Expect, or a 103 after a 100
  SockOptsFail,  \* setting the options of the client socket may fail
  MaxReq,        \* bound: requests of the client
  MaxInfo        \* bound: informational responses to a request

\* What the proofs assume of the bounds
Bounds == BodyLen \in Nat /\ BufSize \in Nat \ {0} /\ MaxReq \in Nat

ASSUME ForwardAssumption == Bounds

VARIABLES
  n,        \* number of the current request
  req,      \* the current request
  t,        \* the task: pc and the fields of HttpProxyForwardTask that steer it
  b,        \* the client body reader, fast_read_buf and the buffer of clt_to_ups
  clt,      \* the client: units it has sent, whether it is there
  conn,     \* the upstream connection: in use by the task, saved, or none
  rsp,      \* the response header being handled
  replied,  \* final response headers the client was sent for request n
  refused   \* reply_connect_err was called for request n

vars == <<n, req, t, b, clt, conn, rsp, replied, refused>>

Requests == [body : 0..BodyLen, expect : BOOLEAN, keep_alive : BOOLEAN, audit : BOOLEAN]

Places == {"idle", "policy", "alive", "recv_conn", "new", "run", "adapt", "send", "all", "head",
           "copy", "early", "renew", "recv", "final", "last", "respond", "body", "save", "fail", "done"}

Responding == {"respond", "body"}

Responses == [code : {"100", "103", "final"}, for : 0..MaxReq, keep_alive : BOOLEAN,
              got : {"part", "head", "all"}]

NoRsp == [code |-> "final", for |-> 0, keep_alive |-> FALSE, got |-> "part"]

\* A connection: q are the requests the peer has still to answer, got what it was sent of the
\* body of the latest one, need how long that body is, in the responses on their way here
NoConn == [at |-> "none", open |-> FALSE, q |-> <<>>, got |-> <<>>, need |-> 0, in |-> <<>>,
           expect |-> FALSE, infos |-> <<>>]

Fresh == [NoConn EXCEPT !.at = "task", !.open = TRUE]

Smaller(x, y) == IF x < y THEN x ELSE y

Units(from, k) == [i \in 1..k |-> from + i]

-----------------------------------------------------------------------------
(* The client and the upstream *)

ClientSends ==
  /\ t.pc # "idle" /\ clt.open /\ clt.sent < req.body
  /\ clt' = [clt EXCEPT !.sent = @ + 1]
  /\ UNCHANGED <<n, req, t, b, conn, rsp, replied, refused>>

ClientLeaves ==
  /\ clt.open /\ t.pc # "idle"
  /\ clt' = [clt EXCEPT !.open = FALSE]
  /\ UNCHANGED <<n, req, t, b, conn, rsp, replied, refused>>

Settled == \A i \in DOMAIN conn.in : conn.in[i].got = "all"

\* The upstream answers its requests in order, at any time after the header came.
UpsAnswers ==
  /\ conn.open /\ conn.q # <<>> /\ Settled /\ ~(t.pc \in Responding /\ rsp.got = "head")
  /\ \E c \in {"100", "103", "final"}, k \in BOOLEAN :
       /\ c # "final" => /\ k /\ Len(conn.infos) < MaxInfo
                         /\ EarlyHints \/ (conn.expect /\ \A i \in DOMAIN conn.infos : conn.infos[i] = "103")
       /\ conn' = [conn EXCEPT
            !.in = Append(@, [code |-> c, for |-> Head(conn.q), keep_alive |-> k, got |-> "part"]),
            !.q = IF c = "final" THEN Tail(@) ELSE @,
            !.infos = IF c = "final" THEN <<>> ELSE Append(@, c)]
  /\ UNCHANGED <<n, req, t, b, clt, rsp, replied, refused>>

\* An upstream that is tired of an idle connection says so before it closes it.
UpsGivesUp ==
  /\ conn.open /\ conn.q = <<>> /\ conn.in = <<>> /\ conn.at = "saved"
  /\ conn' = [conn EXCEPT !.in = << [NoRsp EXCEPT !.got = "all"] >>, !.open = FALSE]
  /\ UNCHANGED <<n, req, t, b, clt, rsp, replied, refused>>

\* More of the response that is arriving, which the proxy may be reading already
UpsContinues ==
  /\ conn.open
  /\ LET More(r) == [r EXCEPT !.got = IF @ = "part" /\ r.code = "final" THEN "head" ELSE "all"]
     IN \/ /\ ~Settled
           /\ conn' = [conn EXCEPT !.in[Len(conn.in)] = More(@)]
           /\ UNCHANGED rsp
        \/ /\ conn.in = <<>> /\ t.pc \in Responding /\ rsp.got = "head"
           /\ rsp' = More(rsp)
           /\ UNCHANGED conn
  /\ UNCHANGED <<n, req, t, b, clt, replied, refused>>

UpsCloses ==
  /\ conn.open
  /\ conn' = [conn EXCEPT !.open = FALSE]
  /\ UNCHANGED <<n, req, t, b, clt, rsp, replied, refused>>

Environment == ClientSends \/ ClientLeaves \/ UpsAnswers \/ UpsGivesUp \/ UpsContinues \/ UpsCloses

-----------------------------------------------------------------------------
(* How operations fail *)

\* The error goes to run_forward.
Err(e, retry) == [t EXCEPT !.pc = "fail", !.err = e, !.retry = retry]

\* run_without_adaptation and run_with_all_body send a body they hold once more.
BodyErr(e, retry) ==
  IF b.fast = <<>> THEN Err(e, retry)
  ELSE IF t.reused /\ retry THEN [t EXCEPT !.pc = "renew", !.retry = TRUE]
  ELSE Err(e, FALSE)

\* fill_wait_data() is ready
Readable == conn.in # <<>> \/ ~conn.open

\* recv_response_header: a header is complete, or it never will be
Headed == conn.in # <<>> /\ conn.in[1].got # "part"
Headless == ~conn.open /\ ~Headed

ClientGone == ~clt.open /\ b.taken = clt.sent /\ b.left > 0

-----------------------------------------------------------------------------
(* Until there is a connection *)

HttpProxyForwardTask(r) ==
  [pc |-> "policy", scope |-> "reuse", should_close |-> ~r.keep_alive, send_error_response |-> TRUE,
   retry |-> FALSE, reused |-> FALSE, adapt |-> FALSE, close_remote |-> FALSE, err |-> "none"]

Init ==
  /\ n = 0 /\ replied = 0 /\ refused = FALSE
  /\ req = [body |-> 0, expect |-> FALSE, keep_alive |-> TRUE, audit |-> FALSE]
  /\ t = [HttpProxyForwardTask(req) EXCEPT !.pc = "idle"]
  /\ b = [taken |-> 0, left |-> 0, finished |-> FALSE, fast |-> <<>>, buf |-> <<>>, read_size |-> 0,
          sent |-> FALSE, whole |-> FALSE]
  /\ clt = [sent |-> 0, open |-> TRUE]
  /\ conn = NoConn /\ rsp = NoRsp

\* The writer of the pipeline has the next request.
Start ==
  /\ t.pc \in {"idle", "done"} /\ ~(t.pc = "done" /\ t.should_close)
  /\ n < MaxReq /\ clt.open
  /\ n' = n + 1 /\ replied' = 0 /\ refused' = FALSE
  /\ req' \in Requests
  /\ t' = HttpProxyForwardTask(req')
  /\ b' = [b EXCEPT !.taken = 0, !.fast = <<>>]
  /\ clt' = [clt EXCEPT !.sent = 0]
  /\ UNCHANGED <<conn, rsp>>

\* handle_*_acl_action when the action forbids
Refuse ==
  /\ t' = [t EXCEPT !.pc = "done", !.should_close = TRUE]
  /\ replied' = replied + 1

\* Rate limit, request semaphore and the rules for user, upstream and agent
Policy ==
  /\ t.pc = "policy"
  /\ \/ /\ t' = [t EXCEPT !.pc = "alive"]
        /\ UNCHANGED replied
     \/ Refuse
     \/ /\ SockOptsFail
        /\ t' = [t EXCEPT !.pc = "done"]
        /\ UNCHANGED replied
  /\ UNCHANGED <<n, req, b, clt, conn, rsp, refused>>

\* A connection to another upstream, or one that is too old, is dropped.
GetAlive ==
  /\ t.pc = "alive"
  /\ \/ /\ conn.at = "saved"
        /\ t' = [t EXCEPT !.pc = "recv_conn"]
        /\ UNCHANGED conn
     \/ /\ t' = [t EXCEPT !.pc = "new", !.scope = "fresh"]
        /\ conn' = NoConn
  /\ UNCHANGED <<n, req, b, clt, rsp, replied, refused>>

\* The poller shuts a saved connection down at its first byte or its end.
PollerCloses ==
  /\ conn.at = "saved" /\ Readable /\ t.pc # "recv_conn"
  /\ conn' = NoConn
  /\ UNCHANGED <<n, req, t, b, clt, rsp, replied, refused>>

\* the task that asks is not told that the connection is gone
PollerForgets ==
  /\ t.pc = "recv_conn"
  /\ IF Readable
     THEN conn' = NoConn /\ UNCHANGED t
     ELSE /\ conn' = [conn EXCEPT !.at = "task"]
          /\ t' = [t EXCEPT !.pc = "run", !.reused = TRUE, !.retry = FALSE]
  /\ UNCHANGED <<n, req, b, clt, rsp, replied, refused>>

\* It is asked for the connection: it looks at the connection once more, first.
PollerAnswers ==
  /\ t.pc = "recv_conn"
  /\ IF Readable
     THEN /\ conn' = NoConn
          /\ t' = [t EXCEPT !.pc = "new", !.scope = "fresh"]
     ELSE /\ conn' = [conn EXCEPT !.at = "task"]
          /\ t' = [t EXCEPT !.pc = "run", !.reused = TRUE, !.retry = FALSE]
  /\ UNCHANGED <<n, req, b, clt, rsp, replied, refused>>

\* get_new_connection, for a first attempt (or a second one after a reused connection failed),
\* and from within a resend
Connect ==
  /\ t.pc \in {"new", "renew"}
  /\ conn' = Fresh
  /\ t' = [t EXCEPT !.reused = FALSE,
       !.pc = IF @ = "new" THEN "run" ELSE IF b.whole THEN "all" ELSE "head"]
  /\ UNCHANGED <<n, req, b, clt, rsp, replied, refused>>

ConnectFails ==
  /\ t.pc \in {"new", "renew"}
  /\ conn' = NoConn
  /\ t' = [t EXCEPT !.reused = FALSE, !.should_close = TRUE, !.err = "ups",
       !.pc = IF @ = "new" THEN "done" ELSE "fail"]
  /\ replied' = replied + 1 /\ refused' = TRUE
  /\ UNCHANGED <<n, req, b, clt, rsp>>

\* run_with_connection
Run ==
  /\ t.pc = "run"
  /\ IF t.reused /\ Readable
     THEN t' = Err("ups", TRUE)
     ELSE \/ ~req.audit /\ t' = [t EXCEPT !.pc = "send"]
          \/ req.audit /\ t' = [t EXCEPT !.pc = "adapt", !.adapt = TRUE]
          \/ /\ req.audit   \* no ICAP connection
             /\ t' = IF Bypass THEN [t EXCEPT !.pc = "send", !.retry = TRUE] ELSE Err("ups", TRUE)
  /\ b' = [b EXCEPT !.left = req.body, !.finished = req.body = 0, !.fast = <<>>, !.buf = <<>>,
                    !.read_size = 0, !.sent = FALSE, !.whole = FALSE]
  /\ UNCHANGED <<n, req, clt, conn, rsp, replied, refused>>

\* run_forward with the result of an attempt: one more attempt, or an answer
Fail ==
  /\ t.pc = "fail"
  /\ conn' = NoConn
  /\ IF t.scope = "reuse" /\ t.retry
     THEN /\ t' = [t EXCEPT !.pc = "new", !.scope = "fresh", !.adapt = FALSE]
          /\ UNCHANGED replied
     ELSE /\ t' = [t EXCEPT !.pc = "done", !.should_close = TRUE]
          /\ replied' = IF t.send_error_response /\ t.err # "clt" THEN replied + 1 ELSE replied
  /\ UNCHANGED <<n, req, b, clt, rsp, refused>>

-----------------------------------------------------------------------------
(* Sending the request *)

\* run_without_adaptation: what read_all_now finds of the body decides how it is sent.  With
\* the buffer full it does not poll again: only the reader of a chunked body is at its end then.
Send ==
  /\ t.pc = "send"
  /\ IF req.body = 0 \/ req.expect
     THEN t' = [t EXCEPT !.pc = "head"] /\ UNCHANGED b
     ELSE LET k == Smaller(Smaller(clt.sent - b.taken, b.left), BufSize)
          IN \E end \in {k = b.left, k = b.left /\ k < BufSize} :
               /\ b' = [b EXCEPT !.taken = @ + k, !.left = @ - k, !.fast = Units(b.taken, k),
                               !.finished = end, !.whole = end]
               /\ t' = IF ~clt.open /\ k < b.left /\ k < BufSize THEN Err("clt", t.retry)
                       ELSE [t EXCEPT !.pc = IF end THEN "all" ELSE "head"]
  /\ UNCHANGED <<n, req, clt, conn, rsp, replied, refused>>

Requested(body) == [conn EXCEPT !.q = Append(@, n), !.got = body, !.need = req.body, !.expect = req.expect /\ req.body > 0]

\* send_full_req_and_recv_rsp
SendAll ==
  /\ t.pc = "all"
  /\ \/ /\ conn' = Requested(b.fast)
        /\ t' = [t EXCEPT !.pc = "recv", !.retry = TRUE]
     \/ /\ ~conn.open
        /\ t' = BodyErr("ups", TRUE)
        /\ UNCHANGED conn
  /\ UNCHANGED <<n, req, b, clt, rsp, replied, refused>>

\* what read_all_now has taken is forgotten
SendHeadOnly ==
  /\ t.pc = "head"
  /\ conn' = Requested(<<>>)
  /\ t' = [t EXCEPT !.pc = IF req.body = 0 THEN "recv" ELSE "copy", !.retry = req.body = 0]
  /\ b' = [b EXCEPT !.buf = <<>>, !.read_size = 0]
  /\ UNCHANGED <<n, req, clt, rsp, replied, refused>>

\* The start of run_without_body and of run_with_body
SendHead ==
  /\ t.pc = "head"
  /\ \/ /\ conn' = Requested(<<>>)
        /\ t' = [t EXCEPT !.pc = IF req.body = 0 THEN "recv" ELSE "copy", !.retry = req.body = 0]
        /\ b' = [b EXCEPT !.buf = b.fast, !.read_size = 0]
     \/ /\ ~conn.open
        /\ t' = BodyErr("ups", TRUE)
        /\ UNCHANGED <<conn, b>>
  /\ UNCHANGED <<n, req, clt, rsp, replied, refused>>

\* One poll reads r units from the client and writes w to c; fin: the body reader is at its end.
Moves(c, r, w, fin) ==
  LET buf == b.buf \o Units(b.taken, r)
  IN /\ w <= Len(buf) /\ (fin => r = b.left) /\ (b.finished => fin)
     /\ b' = [b EXCEPT !.taken = @ + r, !.left = @ - r, !.read_size = @ + r, !.finished = fin,
                       !.buf = SubSeq(buf, w + 1, Len(buf)), !.sent = TRUE]
     /\ conn' = [c EXCEPT !.got = @ \o SubSeq(buf, 1, w)]

Ready == Smaller(clt.sent - b.taken, b.left)

CopyDone == b.finished /\ b.buf = <<>>

\* A poll of clt_to_ups in the select of run_with_body, which looks at the upstream first
Copy ==
  /\ t.pc = "copy" /\ ~Readable /\ ~ClientGone
  /\ \E r \in 0..Ready, w \in 0..BodyLen, fin \in BOOLEAN : Moves(conn, r, w, fin)
  /\ t' = IF CopyDone' THEN [t EXCEPT !.pc = "final"] ELSE t
  /\ UNCHANGED <<n, req, clt, rsp, replied, refused>>

\* It fails, or the idle check ends it: idle for too long, user blocked, server quits.
CopyFails ==
  /\ t.pc = "copy"
  /\ \/ t' = BodyErr("ups", FALSE)
     \/ ~Readable /\ ClientGone /\ t' = BodyErr("clt", FALSE)
  /\ UNCHANGED <<n, req, b, clt, conn, rsp, replied, refused>>

\* ups_r is ready while the body is being sent: a response comes early, or the end.
UpsReady ==
  /\ t.pc \in {"copy", "adapt"} /\ Readable
  /\ t' = IF conn.in # <<>> THEN [t EXCEPT !.pc = "early"]
          ELSE BodyErr("ups", t.retry \/ b.read_size = 0)
  /\ UNCHANGED <<n, req, b, clt, conn, rsp, replied, refused>>

\* xfer of the ICAP adapter: it passes the request on, as it is or changed.
Adapt ==
  /\ t.pc = "adapt" /\ ~Readable
  /\ \/ \E r \in 0..Ready, w \in 0..BodyLen, fin \in BOOLEAN :
          Moves(IF b.sent THEN conn ELSE Requested(<<>>), r, w, fin)
     \/ \E r \in 1..Ready :   \* the ICAP server gets it first
          /\ b' = [b EXCEPT !.taken = @ + r, !.left = @ - r, !.read_size = @ + r, !.buf = @ \o Units(b.taken, r)]
          /\ UNCHANGED conn
  /\ UNCHANGED <<n, req, t, clt, rsp, replied, refused>>

\* AdaptedTransferred does not wait for the client body; then the server has sent its own.
AdaptEnds ==
  /\ t.pc = "adapt" /\ b.sent
  /\ CopyDone \/ EagerIcap
  /\ t' = [t EXCEPT !.pc = "final"]
  /\ conn' = [conn EXCEPT !.need = Len(conn.got)]
  /\ UNCHANGED <<n, req, b, clt, rsp, replied, refused>>

\* HttpErrResponse, and send_adaptation_error_response
AdaptAnswers ==
  /\ t.pc = "adapt" /\ ~Readable
  /\ \/ t' = [t EXCEPT !.pc = "save", !.should_close = TRUE, !.send_error_response = FALSE]
     \/ t' = [Err("clt", t.retry) EXCEPT !.should_close = TRUE, !.send_error_response = FALSE]
  /\ replied' = replied + 1
  /\ UNCHANGED <<n, req, b, clt, conn, rsp, refused>>

AdaptFails ==
  /\ t.pc = "adapt" /\ ~Readable
  /\ \E e \in {"ups", "clt"}, lost \in BOOLEAN :
       t' = Err(e, IF b.read_size = 0 THEN lost /\ e = "ups" ELSE t.retry)
  /\ UNCHANGED <<n, req, b, clt, conn, rsp, replied, refused>>

-----------------------------------------------------------------------------
(* Receiving the response *)

Took == conn' = [conn EXCEPT !.in = Tail(@)]

\* An informational response goes to the client, if it is there.
PassOn(pc) ==
  /\ Took
  /\ \/ t' = [t EXCEPT !.pc = pc]
     \/ ~clt.open /\ t' = BodyErr("clt", FALSE)
  /\ UNCHANGED <<n, req, b, clt, rsp, replied, refused>>

Respond(task) ==
  /\ Took /\ rsp' = conn.in[1]
  /\ t' = [task EXCEPT !.pc = "respond"]
  /\ UNCHANGED <<n, req, b, clt, replied, refused>>

\* the upstream connection is kept
FinalEarlyKeepsRemote == Respond([t EXCEPT !.should_close = @ \/ ~b.finished])

\* the client connection is kept
FinalEarlyKeepsClient == Respond([t EXCEPT !.close_remote = ~CopyDone])

\* what is not read of the body, or not sent, cannot be made up for
FinalEarly == Respond([t EXCEPT !.should_close = @ \/ ~b.finished, !.close_remote = ~CopyDone])

\* recv_response_header in the select, without a timeout
Early ==
  /\ t.pc = "early"
  /\ \/ /\ Headed /\ conn.in[1].code # "final"
        /\ PassOn(IF t.adapt THEN "adapt" ELSE "copy")
     \/ /\ Headed /\ conn.in[1].code = "final"
        /\ FinalEarly
     \/ /\ Headless
        /\ t' = BodyErr("ups", FALSE)
        /\ UNCHANGED <<n, req, b, clt, conn, rsp, replied, refused>>

\* recv_response_header after a request that was sent at once
Recv ==
  /\ t.pc = "recv" /\ Headed
  /\ Respond([t EXCEPT !.retry = FALSE])

\* ups.read.get_bytes() is 0 when nothing has arrived.
RecvFails ==
  /\ t.pc = "recv" /\ Headless
  /\ t' = BodyErr("ups", conn.in = <<>>)
  /\ UNCHANGED <<n, req, b, clt, conn, rsp, replied, refused>>

\* A timeout, or a header that is not one
RecvTimeout ==
  /\ t.pc \in {"recv", "final", "last"}
  /\ t' = BodyErr("ups", FALSE)
  /\ UNCHANGED <<n, req, b, clt, conn, rsp, replied, refused>>

\* recv_final_response_header: what follows a 100 is taken for the final header.
Final ==
  /\ t.pc \in {"final", "last"} /\ Headed
  /\ \/ t.pc = "final" /\ conn.in[1].code = "100" /\ PassOn("last")
     \/ t.pc = "final" /\ conn.in[1].code = "103" /\ PassOn("final")
     \/ (t.pc = "last" \/ conn.in[1].code = "final") /\ Respond(t)

\* send_response, up to the body
SendResponse ==
  /\ t.pc = "respond"
  /\ LET close == t.should_close \/ ~rsp.keep_alive
     IN \/ /\ t' = [t EXCEPT !.pc = "body", !.should_close = close, !.send_error_response = FALSE]
           /\ replied' = replied + 1
        \/ /\ t.adapt /\ ~Bypass   \* no ICAP connection
           /\ t' = [Err("ups", t.retry) EXCEPT !.should_close = close]
           /\ UNCHANGED replied
        \/ /\ t.adapt              \* adapted: all of it was read and written, or not
           /\ t' = [t EXCEPT !.pc = "save", !.should_close = close \/ rsp.got # "all",
                             !.send_error_response = FALSE]
           /\ replied' = replied + 1
        \/ /\ t.adapt              \* the adapter fails before or after its first byte
           /\ \E started \in BOOLEAN, e \in {"ups", "clt"} :
                /\ t' = [Err(e, t.retry) EXCEPT !.should_close = TRUE, !.send_error_response = ~started]
                /\ replied' = IF started THEN replied + 1 ELSE replied
  /\ UNCHANGED <<n, req, b, clt, conn, rsp, refused>>

\* send_response_body
SendBody ==
  /\ t.pc = "body"
  /\ \/ rsp.got = "all" /\ t' = [t EXCEPT !.pc = "save"]
     \/ t' = Err("ups", t.retry)
  /\ UNCHANGED <<n, req, b, clt, conn, rsp, replied, refused>>

\* save_or_close
Save ==
  /\ t.pc = "save"
  /\ t' = [t EXCEPT !.pc = "done"]
  /\ conn' = IF t.should_close \/ t.close_remote THEN NoConn ELSE [conn EXCEPT !.at = "saved"]
  /\ UNCHANGED <<n, req, b, clt, rsp, replied, refused>>

Task ==
  \/ Policy \/ GetAlive \/ Connect \/ ConnectFails \/ Run \/ Fail
  \/ Send \/ SendAll \/ SendHead \/ Copy \/ CopyFails \/ UpsReady
  \/ Adapt \/ AdaptEnds \/ AdaptAnswers \/ AdaptFails
  \/ Early \/ Recv \/ RecvFails \/ RecvTimeout \/ Final \/ SendResponse \/ SendBody \/ Save

Poller == PollerCloses \/ PollerAnswers

Stopped == t.pc = "done" /\ (t.should_close \/ n = MaxReq \/ ~clt.open) /\ UNCHANGED vars

Next == Environment \/ Start \/ Task \/ Poller \/ Stopped

Spec == Init /\ [][Next]_vars

\* An upstream that has begun a header goes on with it or closes.
UpsGoesOn == conn.in # <<>> /\ (UpsContinues \/ UpsCloses)

\* Timeouts fire, the poller task is run, and no upstream stops midway: the header that comes
\* before the request is sent is awaited without a timeout.
FairSpec == Spec /\ WF_vars(Task) /\ WF_vars(Poller) /\ WF_vars(UpsGoesOn)

-----------------------------------------------------------------------------
(* Properties *)

TypeOK ==
  /\ n \in 0..MaxReq /\ req \in Requests /\ replied \in 0..2 /\ refused \in BOOLEAN
  /\ t \in [pc : Places, scope : {"reuse", "fresh"}, err : {"none", "ups", "clt"},
            should_close : BOOLEAN, send_error_response : BOOLEAN, retry : BOOLEAN,
            reused : BOOLEAN, adapt : BOOLEAN, close_remote : BOOLEAN]
  /\ rsp \in Responses
  /\ clt \in [sent : 0..BodyLen, open : BOOLEAN]
  /\ b.taken \in 0..clt.sent /\ b.left \in 0..BodyLen

\* What an upstream has been sent of a body is a beginning of it, whichever connections and
\* buffers the request went through (unless a connect error was already the answer); and no
\* more was taken of it than the client sent (TypeOK).
BodyIntact ==
  /\ TypeOK
  /\ conn.at = "task" /\ ~refused => conn.got = Units(0, Len(conn.got))

\* A response that is handed to the client answers the current request or, from an upstream
\* that has given up on the connection, none; a saved connection owes none and was sent whole
\* bodies; and a second final response follows only a connect error (RetryRecoverable).
RightReply ==
  /\ t.pc \in Responding => rsp.for \in {0, n}
  /\ conn.at = "saved" =>
       conn.q = <<>> /\ Len(conn.got) = conn.need /\ \A i \in DOMAIN conn.in : conn.in[i].for = 0
  /\ replied > 1 => refused

\* A task that leaves the client connection open (should_close is false) has answered the request
\* with one final response and has read its body to the end, so that the next request begins there.
KeptMeansServed ==
  t.pc = "done" /\ ~t.should_close => replied = 1 /\ rsp.code = "final" /\ b.taken = req.body

\* Every task ends, whatever the client, the saved connection and the upstream do.
TaskEnds == t.pc = "policy" ~> t.pc = "done"

\* sphinx/g3proxy/metrics/user.rst:156 "After the old connection failed at some recoverable stage,
\* a new connection is made to retry the request."  A request that was answered is not at such
\* a stage.  It does NOT hold of the code: when the connect of a resend fails the client is
\* told, but retry_new_connection is still set from the first failure.
RetryRecoverable == t.pc = "new" => replied = 0
=============================================================================
