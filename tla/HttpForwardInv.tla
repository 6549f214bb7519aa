--------------------------- MODULE HttpForwardInv ---------------------------
(***************************************************************************)
(* The inductive invariant of HttpForward, and what each of its steps      *)
(* makes of the task, of the connection and of the body.  The proofs are   *)
(* in HttpForwardProofs.                                                   *)
(***************************************************************************)
EXTENDS HttpForward

-----------------------------------------------------------------------------
(* Types *)

Tasks == [pc : Places, scope : {"reuse", "fresh"}, err : {"none", "ups", "clt"},
          should_close : BOOLEAN, send_error_response : BOOLEAN, retry : BOOLEAN,
          reused : BOOLEAN, adapt : BOOLEAN, close_remote : BOOLEAN]

Bodies == [taken : Nat, left : 0..BodyLen, finished : BOOLEAN, fast : Seq(Nat), buf : Seq(Nat),
           read_size : Nat, sent : BOOLEAN, whole : BOOLEAN]

Conns == [at : {"none", "task", "saved"}, open : BOOLEAN, q : Seq(0..MaxReq), got : Seq(Nat), need : Nat,
          in : Seq(Responses), expect : BOOLEAN, infos : Seq({"100", "103"})]

TaskType == t \in Tasks /\ n \in 0..MaxReq /\ req \in Requests /\ refused \in BOOLEAN

BodyType == b \in Bodies /\ clt \in [sent : 0..BodyLen, open : BOOLEAN] /\ b.taken <= clt.sent
            /\ clt.sent <= req.body

ConnType == conn \in Conns /\ rsp \in Responses

-----------------------------------------------------------------------------
(* The control of the task *)

\* Where the task does not hold the connection, and where it does
Unsent == {"idle", "policy", "alive", "recv_conn", "done"}

Using == {"run", "adapt", "send", "all", "head", "copy", "early", "renew", "recv", "final", "last",
          "respond", "body", "save"}

\* Where the connection is: with the task, saved for the next one, or gone
PlaceInv ==
  /\ t.pc \in Unsent => conn.at # "task"
  /\ t.pc = "recv_conn" => conn.at = "saved"
  /\ t.pc = "new" => conn.at = "none"
  /\ t.pc = "fail" => conn.at # "saved"
  /\ t.pc \in Using => conn.at = "task"

\* An attempt that may still be retried is the first, on a saved connection, and only
\* while nothing was committed to it; after a connect error nothing is reused and the
\* client connection is to be closed.
RetryInv ==
  /\ t.pc \in {"idle", "policy", "alive", "recv_conn"} => t.scope = "reuse" /\ ~refused
  /\ t.pc = "new" => t.scope = "fresh"
  /\ t.pc \in {"policy", "alive", "recv_conn", "run", "adapt", "copy", "early", "final", "last", "respond",
               "body"} => t.scope = "fresh" \/ ~t.retry
  /\ t.pc = "renew" => t.reused
  /\ refused => ~t.reused /\ t.should_close

\* The reply that reply_connect_err has already made
Base == IF refused THEN 1 ELSE 0

\* How many replies the client has got: none before the response is sent, one after,
\* and an error response only when nothing was sent.
CountInv ==
  /\ replied \in 0..2
  /\ t.pc \in Places \ {"body", "save", "fail", "done"} => replied = Base
  /\ t.pc \in {"body", "save"} => replied = Base + 1
  /\ t.pc \in {"fail", "done"} => replied \in {Base, Base + 1}
  /\ t.pc = "body" => ~t.send_error_response
  /\ t.pc = "fail" /\ t.send_error_response => replied = Base
  /\ t.pc = "fail" /\ t.scope = "reuse" /\ t.retry => replied = Base

\* The shape of the attempt: which part of the body was read ahead, whether it is
\* all of it, and whether the request is adapted
ShapeInv ==
  /\ t.pc \in {"all"} => b.whole
  /\ t.pc \in {"head", "copy"} => ~b.whole
  /\ t.pc \in {"send", "adapt"} => b.fast = <<>> /\ ~b.whole
  /\ t.pc = "early" => ~b.whole
  /\ t.pc = "run" \/ (t.pc \in {"adapt", "early"} /\ t.adapt /\ ~b.sent) => Len(conn.got) = conn.need
  /\ t.pc = "adapt" => t.adapt
  /\ t.pc \in {"policy", "alive", "recv_conn", "new", "run", "send", "all", "head", "copy", "renew", "recv"} => ~t.adapt
  /\ t.pc = "early" /\ t.adapt => b.fast = <<>>
  /\ t.pc \in {"all", "head", "copy", "early", "renew", "recv"} => (req.body = 0 \/ req.expect => b.fast = <<>> /\ ~b.whole)
  /\ t.pc = "recv" => req.body = 0 \/ b.whole
  /\ t.pc = "copy" \/ (t.pc = "early" /\ ~t.adapt) => req.body > 0 /\ ~t.retry
  /\ t.pc = "renew" => b.fast # <<>>
  /\ t.pc \in {"send", "all", "head", "copy", "early", "adapt", "renew", "recv"} => (b.finished => b.left = 0)

-----------------------------------------------------------------------------
(* The body *)

\* g is the beginning of the body, unit by unit.
Intact(g) == g = Units(0, Len(g))

\* What was taken of the body, a units, is g, which is sent, followed by u, which is not.
Split(g, u, a) == Intact(g) /\ u = Units(Len(g), Len(u)) /\ Len(g) + Len(u) = a

\* What the upstream has, and the buffer, are what was taken of the body.
Passed == Split(conn.got, b.buf, b.taken) /\ conn.need = req.body

\* The body as it is in a task that nothing was lost of
Normal ==
  /\ t.pc \in {"policy", "alive", "recv_conn", "new", "run", "send"} => b.taken = 0
  /\ t.pc = "fail" /\ t.scope = "reuse" /\ t.retry => b.taken = 0
  /\ t.pc \in {"send", "all", "head", "copy", "early", "adapt", "renew", "recv"} => b.left + b.taken = req.body
  /\ t.pc \in {"all", "head", "renew", "recv"} => b.fast = Units(0, b.taken)
  /\ t.pc \in {"all", "recv"} => b.taken = req.body
  /\ t.pc = "renew" /\ b.whole => b.taken = req.body
  /\ t.pc = "recv" => conn.got = b.fast /\ conn.need = req.body
  /\ t.pc = "copy" \/ (t.pc = "early" /\ ~t.adapt) =>
       Passed /\ b.read_size <= b.taken /\ b.fast = Units(0, b.taken - b.read_size)
  /\ t.pc = "adapt" \/ (t.pc = "early" /\ t.adapt) =>
       /\ b.read_size = b.taken
       /\ IF b.sent THEN Passed ELSE b.buf = Units(0, b.taken)
  /\ t.pc \in {"final", "last"} => Len(conn.got) = conn.need /\ (EagerIcap \/ b.taken = req.body)
  /\ t.pc \in {"respond", "body", "save"} =>
       /\ t.should_close \/ t.close_remote \/ Len(conn.got) = conn.need
       /\ t.should_close \/ EagerIcap \/ b.taken = req.body

\* read_all_now met the end of what the client sends: the part it had taken is lost, and
\* for a retry that may still follow nothing more of the body comes.
Stuck ==
  /\ ~clt.open /\ b.taken = clt.sent /\ clt.sent < req.body /\ ~req.expect
  /\ t.pc \in {"new", "run", "send", "adapt", "early", "final", "last", "respond", "body", "save", "fail", "done"}
  /\ t.pc = "send" => b.left = req.body
  /\ t.pc \in {"adapt", "early"} =>
       t.adapt /\ b.buf = <<>> /\ b.fast = <<>> /\ ~b.finished /\ b.left = req.body /\ (b.sent => conn.got = <<>>)
  /\ t.pc \in {"final", "last"} => EagerIcap /\ Len(conn.got) = conn.need
  /\ t.pc \in {"respond", "body", "save"} =>
       (t.should_close \/ t.close_remote \/ Len(conn.got) = conn.need) /\ (t.should_close \/ EagerIcap)

\* After a connect error was the answer the body does not matter.
BodyInv == refused \/ Normal \/ Stuck

\* The upstream has got the beginning of the body and nothing else.
GotInv ==
  /\ conn.at = "task" /\ ~refused => Intact(conn.got)
  /\ conn.at = "saved" => Intact(conn.got) /\ Len(conn.got) = conn.need

-----------------------------------------------------------------------------
(* The conversation with the upstream *)

\* The requests q that are to be answered and the responses i that have come are all about request k.
About(q, i, k) == (\A j \in 1..Len(q) : q[j] = k) /\ \A j \in 1..Len(i) : i[j].for = k

Nothing(q, i) == q = <<>> /\ i = <<>>

\* On the connection of a task all is about its request; on a saved one nothing is
\* awaited, and what comes on it is about no request.
Line ==
  /\ conn.at = "none" => Nothing(conn.q, conn.in) /\ ~conn.open
  /\ conn.at = "saved" => About(conn.q, conn.in, 0) /\ conn.q = <<>>
  /\ conn.at = "task" => About(conn.q, conn.in, n)
  /\ conn.q = <<>> => conn.infos = <<>>

\* One request is to be answered, or its final response is the last that has come; informational
\* responses, f since the latest final one, come only when e, and none follows a 100.
Turn(q, i, f, e) ==
  /\ Len(q) <= 1
  /\ \A j \in 1..Len(i) : i[j].code = "final" <=> q = <<>> /\ j = Len(i)
  /\ q = <<>> => i # <<>>
  /\ ~e => f = <<>> /\ \A j \in 1..Len(i) : i[j].code = "final"
  /\ \A j, k \in 1..Len(i) : i[j].code = "100" /\ j < k => i[k].code = "final"
  /\ q # <<>> /\ (\E j \in 1..Len(i) : i[j].code = "100") => \E k \in 1..Len(f) : f[k] = "100"

\* After a 100 was taken the final response is the next.
Last(q, i, f) ==
  /\ \A j \in 1..Len(i) : i[j].code = "final"
  /\ q # <<>> => \E k \in 1..Len(f) : f[k] = "100"

\* Before the request is sent, and while its response is awaited
Silent == t.pc \in {"run", "send", "all", "head"} \/ (t.pc = "adapt" /\ ~b.sent)

Talking == t.pc \in {"copy", "early", "recv", "final", "last"} \/ (t.pc = "adapt" /\ b.sent)

\* Whose turn it is
Turns ==
  /\ Silent => Nothing(conn.q, conn.in)
  /\ t.pc = "early" /\ t.adapt => b.sent
  /\ Talking => (conn.expect => req.expect /\ req.body > 0) /\ Turn(conn.q, conn.in, conn.infos, conn.expect)
  /\ t.pc = "last" => Last(conn.q, conn.in, conn.infos)
  /\ t.pc \in {"respond", "body"} => rsp.code = "final" /\ rsp.for = n /\ Nothing(conn.q, conn.in)
  /\ t.pc = "save" => t.should_close \/ (rsp.code = "final" /\ Nothing(conn.q, conn.in))

\* A client connection that is kept had its request answered, once, and its body read.
KeptInv ==
  t.pc = "done" => t.should_close \/ (replied = 1 /\ rsp.code = "final" /\ b.taken = req.body)

Control == TaskType /\ PlaceInv /\ RetryInv /\ CountInv

-----------------------------------------------------------------------------
(* The invariants *)

\* What holds whatever the upstream sends; TalkInv when it sends no response early
IInv == Control /\ BodyType /\ ConnType /\ ShapeInv /\ BodyInv /\ GotInv

TalkInv == Line /\ Turns

-----------------------------------------------------------------------------
(* The task after a step *)

\* x is the task of these fields.
Is(x, p, s, e, c, m, r, u, a, k) ==
  /\ x \in Tasks
  /\ x.pc = p /\ x.scope = s /\ x.err = e
  /\ x.should_close = c /\ x.send_error_response = m /\ x.retry = r
  /\ x.reused = u /\ x.adapt = a /\ x.close_remote = k

\* The task is at p, and otherwise as it was.
At(p) ==
  Is(t', p, t.scope, t.err, t.should_close, t.send_error_response, t.retry, t.reused, t.adapt, t.close_remote)

AtWith(p, c, m) == Is(t', p, t.scope, t.err, c, m, t.retry, t.reused, t.adapt, t.close_remote)

AtAgain(p, r) ==
  Is(t', p, t.scope, t.err, t.should_close, t.send_error_response, r, t.reused, t.adapt, t.close_remote)

Fails(e, r) ==
  Is(t', "fail", t.scope, e, t.should_close, t.send_error_response, r, t.reused, t.adapt, t.close_remote)

FailsWith(e, r, c, m) == Is(t', "fail", t.scope, e, c, m, r, t.reused, t.adapt, t.close_remote)

\* An error while the body is sent: a new connection when the saved one was lost and
\* what was read of the body can be sent again, else a failure
BodyFails(e, r) ==
  \/ b.fast = <<>> /\ Fails(e, r)
  \/ b.fast # <<>> /\ t.reused /\ r /\ AtAgain("renew", TRUE)
  \/ b.fast # <<>> /\ ~(t.reused /\ r) /\ Fails(e, FALSE)

Errors == {"none", "ups", "clt"}

\* What read_all_now takes
Found == Smaller(Smaller(clt.sent - b.taken, b.left), BufSize)

\* It is taken; all: the reader is at its end.
TakesFound(all) ==
  /\ all => Found = b.left
  /\ b' = [b EXCEPT !.taken = @ + Found, !.left = @ - Found, !.fast = Units(b.taken, Found),
                    !.finished = all, !.whole = all]

-----------------------------------------------------------------------------
(* The connection and the body after a step *)

\* x is the connection of these fields.
IsConn(x, a, o, q, g, d, i, e, f) ==
  /\ x \in Conns
  /\ x.at = a /\ x.open = o /\ x.q = q /\ x.got = g /\ x.need = d /\ x.in = i /\ x.expect = e /\ x.infos = f

Gone == IsConn(conn', "none", FALSE, <<>>, <<>>, 0, <<>>, FALSE, <<>>)

\* The connection as it was, but for what is awaited and what has arrived
Talked(q, i, f) == IsConn(conn', conn.at, conn.open, q, conn.got, conn.need, i, conn.expect, f)

\* The connection as it was, but open or not, with the responses i
Holds(o, i) == IsConn(conn', conn.at, o, conn.q, conn.got, conn.need, i, conn.expect, conn.infos)

\* The request was sent with the first part of its body.
Asked(x, body) ==
  \E e \in BOOLEAN :
    /\ e <=> req.expect /\ req.body > 0
    /\ IsConn(x, conn.at, conn.open, Append(conn.q, n), body, req.body, conn.in, e, conn.infos)

\* x is the body of these fields.
IsBody(x, y, l, e, f, u, r, s, o) ==
  /\ x \in Bodies
  /\ x.taken = y /\ x.left = l /\ x.finished = e /\ x.fast = f /\ x.buf = u
  /\ x.read_size = r /\ x.sent = s /\ x.whole = o

\* What is in the buffer when r units were read
Filled(r) == b.buf \o Units(b.taken, r)

-----------------------------------------------------------------------------
(* What the actions do, one by one *)

TaskAfterPolicy ==
  \/ At("alive") /\ UNCHANGED replied
  \/ AtWith("done", TRUE, t.send_error_response) /\ replied' = replied + 1
  \/ SockOptsFail /\ At("done") /\ UNCHANGED replied

TaskAfterGetAlive ==
  \/ At("recv_conn") /\ conn.at = "saved" /\ UNCHANGED conn
  \/ /\ Is(t', "new", "fresh", t.err, t.should_close, t.send_error_response, t.retry, t.reused, t.adapt,
           t.close_remote)
     /\ conn' = NoConn

TaskAfterPoller ==
  \/ /\ Is(t', "new", "fresh", t.err, t.should_close, t.send_error_response, t.retry, t.reused, t.adapt,
           t.close_remote)
     /\ Readable /\ conn' = NoConn
  \/ /\ Is(t', "run", t.scope, t.err, t.should_close, t.send_error_response, FALSE, TRUE, t.adapt,
           t.close_remote)
     /\ ~Readable /\ conn' = [conn EXCEPT !.at = "task"]

TaskAfterConnect ==
  \E p \in {"run", "all", "head"} :
    /\ p = "run" <=> t.pc = "new"
    /\ t.pc = "renew" => (p = "all" <=> b.whole)
    /\ Is(t', p, t.scope, t.err, t.should_close, t.send_error_response, t.retry, FALSE, t.adapt, t.close_remote)

TaskAfterConnectFails ==
  \E p \in {"done", "fail"} :
    /\ p = "done" <=> t.pc = "new"
    /\ Is(t', p, t.scope, "ups", TRUE, t.send_error_response, t.retry, FALSE, t.adapt, t.close_remote)

TaskAfterRun ==
  \/ Fails("ups", TRUE)
  \/ ~(t.reused /\ Readable) /\ At("send")
  \/ /\ ~(t.reused /\ Readable)
     /\ Is(t', "adapt", t.scope, t.err, t.should_close, t.send_error_response, t.retry, t.reused, TRUE,
           t.close_remote)
  \/ ~(t.reused /\ Readable) /\ AtAgain("send", TRUE)

TaskAfterFail ==
  \/ /\ t.scope = "reuse" /\ t.retry /\ UNCHANGED replied
     /\ Is(t', "new", "fresh", t.err, t.should_close, t.send_error_response, t.retry, t.reused, FALSE,
           t.close_remote)
  \/ /\ AtWith("done", TRUE, t.send_error_response)
     /\ \/ UNCHANGED replied
        \/ t.send_error_response /\ replied' = replied + 1

TaskAfterSend ==
  \/ (req.body = 0 \/ req.expect) /\ At("head") /\ UNCHANGED b
  \/ /\ ~(req.body = 0 \/ req.expect)
     /\ \E all \in BOOLEAN :
          /\ TakesFound(all)
          /\ \/ ~clt.open /\ Found < b.left /\ Found < BufSize /\ Fails("clt", t.retry)
             \/ ~(~clt.open /\ Found < b.left /\ Found < BufSize) /\ all /\ At("all")
             \/ ~(~clt.open /\ Found < b.left /\ Found < BufSize) /\ ~all /\ At("head")

TaskAfterSendAll ==
  \/ conn' = Requested(b.fast) /\ AtAgain("recv", TRUE)
  \/ ~conn.open /\ BodyFails("ups", TRUE) /\ UNCHANGED conn

TaskAfterSendHead ==
  \/ /\ conn' = Requested(<<>>) /\ b' = [b EXCEPT !.buf = b.fast, !.read_size = 0]
     /\ \/ req.body = 0 /\ AtAgain("recv", TRUE)
        \/ req.body # 0 /\ AtAgain("copy", FALSE)
  \/ ~conn.open /\ BodyFails("ups", TRUE) /\ UNCHANGED <<conn, b>>

TaskAfterUpsReady ==
  \/ conn.in # <<>> /\ At("early")
  \/ conn.in = <<>> /\ \E r \in BOOLEAN : (r <=> t.retry \/ b.read_size = 0) /\ BodyFails("ups", r)

TaskAfterFinalEarly ==
  \E c, k \in BOOLEAN :
    /\ c <=> t.should_close \/ ~b.finished
    /\ k <=> ~CopyDone
    /\ Is(t', "respond", t.scope, t.err, c, t.send_error_response, t.retry, t.reused, t.adapt, k)

TaskAfterEarly ==
  \/ Headed /\ conn.in[1].code # "final" /\ t.adapt /\ PassOn("adapt")
  \/ Headed /\ conn.in[1].code # "final" /\ ~t.adapt /\ PassOn("copy")
  \/ Headed /\ conn.in[1].code = "final" /\ FinalEarly
  \/ BodyFails("ups", FALSE) /\ UNCHANGED <<n, req, b, clt, conn, rsp, replied, refused>>

TaskAfterFinal ==
  \/ t.pc = "final" /\ conn.in[1].code = "100" /\ PassOn("last")
  \/ t.pc = "final" /\ conn.in[1].code = "103" /\ PassOn("final")
  \/ /\ t.pc = "last" \/ conn.in[1].code = "final"
     /\ At("respond") /\ Took /\ rsp' = conn.in[1] /\ UNCHANGED <<n, req, b, clt, replied, refused>>

TaskAfterSendResponse ==
  \E c \in BOOLEAN :
    /\ t.should_close => c
    /\ \/ AtWith("body", c, FALSE) /\ replied' = replied + 1
       \/ FailsWith("ups", t.retry, c, t.send_error_response) /\ UNCHANGED replied
       \/ AtWith("save", c, FALSE) /\ replied' = replied + 1
       \/ \E started \in BOOLEAN, e \in {"ups", "clt"}, m \in BOOLEAN :
            /\ m <=> ~started
            /\ FailsWith(e, t.retry, c, m)
            /\ replied' = IF started THEN replied + 1 ELSE replied

ConnAfterAnswers ==
  \E c \in {"100", "103", "final"}, k \in BOOLEAN :
    LET r == [code |-> c, for |-> Head(conn.q), keep_alive |-> k, got |-> "part"] IN
    /\ conn.q # <<>>
    /\ c # "final" => EarlyHints \/ (conn.expect /\ \A i \in DOMAIN conn.infos : conn.infos[i] = "103")
    /\ r \in Responses
    /\ \/ c = "final" /\ Talked(Tail(conn.q), Append(conn.in, r), <<>>)
       \/ c # "final" /\ Talked(conn.q, Append(conn.in, r), Append(conn.infos, c))

ConnAfterGivesUp ==
  Holds(FALSE, << [NoRsp EXCEPT !.got = "all"] >>) /\ conn.at = "saved"
  /\ [NoRsp EXCEPT !.got = "all"] \in Responses /\ [NoRsp EXCEPT !.got = "all"].for = 0

ConnAfterContinues ==
  \/ \E i \in Seq(Responses) :
       /\ Holds(conn.open, i) /\ Len(i) = Len(conn.in)
       /\ \A j \in 1..Len(i) : i[j].code = conn.in[j].code /\ i[j].for = conn.in[j].for
       /\ UNCHANGED rsp
  \/ /\ UNCHANGED conn
     /\ rsp' \in Responses /\ rsp'.code = rsp.code /\ rsp'.for = rsp.for

ConnAfterEnds ==
  IsConn(conn', conn.at, conn.open, conn.q, conn.got, Len(conn.got), conn.in, conn.expect, conn.infos)

BodyAfterStart ==
  IsBody(b', 0, b.left, b.finished, <<>>, b.buf, b.read_size, b.sent, b.whole) /\ clt'.sent = 0
  /\ clt'.open = clt.open /\ clt' \in [sent : 0..BodyLen, open : BOOLEAN]

BodyAfterRun ==
  \E e \in BOOLEAN : (e <=> req.body = 0) /\ IsBody(b', b.taken, req.body, e, <<>>, <<>>, 0, FALSE, FALSE)

\* What read_all_now finds is bounded by the body, the client and the buffer.
FoundFits ==
  /\ Found \in Nat /\ Found <= b.left /\ Found <= clt.sent - b.taken /\ Found <= BufSize
  /\ Found = b.left \/ Found = clt.sent - b.taken \/ Found = BufSize

BodyAfterSent(all) ==
  IsBody(b', b.taken + Found, b.left - Found, all, Units(b.taken, Found), b.buf, b.read_size, b.sent, all)

ConnAfterTarget ==
  LET c == IF b.sent THEN conn ELSE Requested(<<>>) IN
  /\ c \in Conns /\ Requested(<<>>) \in Conns
  /\ b.sent => c = conn
  /\ ~b.sent => \E e \in BOOLEAN :
       /\ e <=> req.expect /\ req.body > 0
       /\ IsConn(c, conn.at, conn.open, Append(conn.q, n), <<>>, req.body, conn.in, e, conn.infos)

\* What the client and the upstream cannot change
KeptByEnv ==
  /\ UNCHANGED <<n, req, t, b, replied, refused>>
  /\ conn'.at = conn.at /\ conn'.got = conn.got /\ conn'.need = conn.need
  /\ ~clt.open => UNCHANGED clt
=============================================================================
