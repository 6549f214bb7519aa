-------------------------- MODULE HttpForwardProofs --------------------------
(***************************************************************************)
(* Proofs about HttpForward, for any length of a body, any size of the     *)
(* buffer of read_all_now and any number of requests and informational     *)
(* responses.  First what each action makes of the task, the connection    *)
(* and the body, then one lemma for each part of the invariant of          *)
(* HttpForwardInv, with one step for each action, and the theorems.        *)
(***************************************************************************)
EXTENDS HttpForwardInv, TLAPS

-----------------------------------------------------------------------------
(* What each step makes of the task *)

LEMMA AtIs ==
  ASSUME TaskType, NEW p \in Places, t' = [t EXCEPT !.pc = p]
  PROVE  At(p)
  BY DEF At, Is, Tasks, TaskType

LEMMA AtWithIs ==
  ASSUME TaskType, NEW p \in Places, NEW c \in BOOLEAN, NEW m \in BOOLEAN,
         t' = [t EXCEPT !.pc = p, !.should_close = c, !.send_error_response = m]
  PROVE  AtWith(p, c, m)
  BY Zenon DEF AtWith, Is, Tasks, TaskType

LEMMA AtAgainIs ==
  ASSUME TaskType, NEW p \in Places, NEW r \in BOOLEAN, t' = [t EXCEPT !.pc = p, !.retry = r]
  PROVE  AtAgain(p, r)
  BY Zenon DEF AtAgain, Is, Tasks, TaskType

LEMMA FailsIs ==
  ASSUME TaskType, NEW e \in Errors, NEW r \in BOOLEAN, t' = Err(e, r)
  PROVE  Fails(e, r)
  BY Zenon DEF Fails, Is, Tasks, Places, Err, TaskType, Errors

LEMMA FailsWithIs ==
  ASSUME TaskType, NEW e \in Errors, NEW r \in BOOLEAN, NEW c \in BOOLEAN, NEW m \in BOOLEAN,
         t' = [Err(e, r) EXCEPT !.should_close = c, !.send_error_response = m]
  PROVE  FailsWith(e, r, c, m)
<1>1. "fail" \in Places
  BY DEF Places
<1>2. t' = [t EXCEPT !.pc = "fail", !.err = e, !.retry = r, !.should_close = c, !.send_error_response = m]
  BY Zenon DEF Err, TaskType, Tasks
<1>3. t' \in Tasks
  BY Zenon, <1>1, <1>2 DEF TaskType, Tasks, Errors
<1> QED BY Zenon, <1>2, <1>3 DEF FailsWith, Is, TaskType, Tasks

LEMMA BodyFailsIs ==
  ASSUME TaskType, NEW e \in Errors, NEW r \in BOOLEAN, t' = BodyErr(e, r)
  PROVE  BodyFails(e, r)
<1>0. "renew" \in Places
  BY DEF Places
<1>1. CASE b.fast = <<>>
  <2>1. t' = Err(e, r)
    BY Zenon, <1>1 DEF BodyErr
  <2> QED BY Zenon, <1>1, <2>1, FailsIs DEF BodyFails
<1>2. CASE b.fast # <<>> /\ t.reused /\ r
  <2>1. t' = [t EXCEPT !.pc = "renew", !.retry = TRUE]
    BY Zenon, <1>2 DEF BodyErr
  <2> QED BY Zenon, <1>0, <1>2, <2>1, AtAgainIs DEF BodyFails
<1>3. CASE b.fast # <<>> /\ ~(t.reused /\ r)
  <2>1. t' = Err(e, FALSE)
    BY Zenon, <1>3 DEF BodyErr
  <2> QED BY Zenon, <1>3, <2>1, FailsIs DEF BodyFails
<1> QED BY Zenon, <1>1, <1>2, <1>3

LEMMA StartTask ==
  ASSUME Bounds, TaskType, Start
  PROVE  Is(t', "policy", "reuse", "none", ~req'.keep_alive, TRUE, FALSE, FALSE, FALSE, FALSE) /\ TaskType'
<1> DEFINE c == ~req'.keep_alive
<1>1. c \in BOOLEAN
  OBVIOUS
<1>2. t' = [pc |-> "policy", scope |-> "reuse", should_close |-> c, send_error_response |-> TRUE,
            retry |-> FALSE, reused |-> FALSE, adapt |-> FALSE, close_remote |-> FALSE, err |-> "none"]
  BY Zenon DEF Start, HttpProxyForwardTask
<1>3. n' \in 0..MaxReq /\ req' \in Requests /\ refused' \in BOOLEAN
  <2>1. n' \in 0..MaxReq
    BY DEF Bounds, Start, TaskType
  <2> QED BY Zenon, <2>1 DEF Start
<1> HIDE DEF c
<1>4. Is(t', "policy", "reuse", "none", c, TRUE, FALSE, FALSE, FALSE, FALSE)
  BY <1>1, <1>2 DEF Is, Tasks, Places
<1> QED BY Zenon, <1>3, <1>4 DEF c, TaskType, Is

LEMMA PolicyTask ==
  ASSUME TaskType, Policy
  PROVE  TaskAfterPolicy
<1> USE DEF TaskAfterPolicy
<1>0. "alive" \in Places /\ "done" \in Places
  BY DEF Places
<1>1. CASE Refuse
  <2>1. t' = [t EXCEPT !.pc = "done", !.should_close = TRUE]
    BY Zenon, <1>1 DEF Refuse
  <2>2. AtWith("done", TRUE, t.send_error_response)
    BY Zenon, <2>1 DEF AtWith, Is, Tasks, Places, TaskType
  <2> QED BY Zenon, <1>1, <2>2 DEF Refuse
<1> QED BY Zenon, <1>0, <1>1, AtIs DEF Policy

LEMMA GetAliveTask ==
  ASSUME TaskType, GetAlive
  PROVE  TaskAfterGetAlive
<1> USE DEF TaskAfterGetAlive
<1>0. "recv_conn" \in Places
  BY DEF Places
<1>1. CASE t' = [t EXCEPT !.pc = "new", !.scope = "fresh"] /\ conn' = NoConn
  BY Zenon, <1>1 DEF Is, Tasks, Places, TaskType
<1> QED BY Zenon, <1>0, <1>1, AtIs DEF GetAlive

LEMMA PollerTask ==
  ASSUME TaskType, PollerAnswers
  PROVE  TaskAfterPoller
<1> USE DEF TaskAfterPoller
<1>1. CASE Readable
  <2>1. t' = [t EXCEPT !.pc = "new", !.scope = "fresh"] /\ conn' = NoConn
    BY Zenon, <1>1 DEF PollerAnswers
  <2>2. Is(t', "new", "fresh", t.err, t.should_close, t.send_error_response, t.retry, t.reused, t.adapt,
           t.close_remote)
    BY Zenon, <2>1 DEF Is, Tasks, Places, TaskType
  <2> QED BY Zenon, <1>1, <2>1, <2>2
<1>2. CASE ~Readable
  <2>1. t' = [t EXCEPT !.pc = "run", !.reused = TRUE, !.retry = FALSE] /\ conn' = [conn EXCEPT !.at = "task"]
    BY Zenon, <1>2 DEF PollerAnswers
  <2>2. Is(t', "run", t.scope, t.err, t.should_close, t.send_error_response, FALSE, TRUE, t.adapt, t.close_remote)
    BY Zenon, <2>1 DEF Is, Tasks, Places, TaskType
  <2> QED BY Zenon, <1>2, <2>1, <2>2
<1> QED BY Zenon, <1>1, <1>2

LEMMA ConnectTask ==
  ASSUME TaskType, Connect
  PROVE  TaskAfterConnect
<1> USE DEF TaskAfterConnect
<1> DEFINE p == IF t.pc = "new" THEN "run" ELSE IF b.whole THEN "all" ELSE "head"
<1>1. p \in {"run", "all", "head"} /\ (p = "run" <=> t.pc = "new") /\ (t.pc = "renew" => (p = "all" <=> b.whole))
  OBVIOUS
<1>2. t' = [t EXCEPT !.reused = FALSE, !.pc = p]
  BY DEF Connect, Tasks, TaskType
<1> HIDE DEF p
<1>3. Is(t', p, t.scope, t.err, t.should_close, t.send_error_response, t.retry, FALSE, t.adapt, t.close_remote)
  BY Zenon, <1>1, <1>2 DEF Is, Tasks, Places, TaskType
<1> QED BY Zenon, <1>1, <1>3

LEMMA ConnectFailsTask ==
  ASSUME TaskType, ConnectFails
  PROVE  TaskAfterConnectFails
<1> USE DEF TaskAfterConnectFails
<1> DEFINE p == IF t.pc = "new" THEN "done" ELSE "fail"
<1>1. p \in {"done", "fail"} /\ (p = "done" <=> t.pc = "new")
  OBVIOUS
<1>2. t' = [t EXCEPT !.reused = FALSE, !.should_close = TRUE, !.err = "ups", !.pc = p]
  BY DEF ConnectFails, Tasks, TaskType
<1> HIDE DEF p
<1>3. Is(t', p, t.scope, "ups", TRUE, t.send_error_response, t.retry, FALSE, t.adapt, t.close_remote)
  BY Zenon, <1>1, <1>2 DEF Is, Tasks, Places, TaskType
<1> QED BY Zenon, <1>1, <1>3

LEMMA RunTask ==
  ASSUME TaskType, Run
  PROVE  TaskAfterRun
<1> USE DEF TaskAfterRun
<1>0. "send" \in Places /\ "ups" \in Errors
  BY DEF Places, Errors
<1>1. CASE t' = [t EXCEPT !.pc = "adapt", !.adapt = TRUE] /\ ~(t.reused /\ Readable)
  <2>1. Is(t', "adapt", t.scope, t.err, t.should_close, t.send_error_response, t.retry, t.reused, TRUE,
           t.close_remote)
    BY Zenon, <1>1 DEF Is, Tasks, Places, TaskType
  <2> QED BY Zenon, <1>1, <2>1
<1>2. \/ t' = Err("ups", TRUE)
      \/ ~(t.reused /\ Readable) /\ t' = [t EXCEPT !.pc = "send"]
      \/ ~(t.reused /\ Readable) /\ t' = [t EXCEPT !.pc = "adapt", !.adapt = TRUE]
      \/ ~(t.reused /\ Readable) /\ t' = [t EXCEPT !.pc = "send", !.retry = TRUE]
  BY Zenon DEF Run
<1> QED BY Zenon, <1>0, <1>1, <1>2, FailsIs, AtIs, AtAgainIs

LEMMA FailTask ==
  ASSUME TaskType, Fail
  PROVE  TaskAfterFail
<1> USE DEF TaskAfterFail
<1>1. CASE t.scope = "reuse" /\ t.retry
  <2>1. t' = [t EXCEPT !.pc = "new", !.scope = "fresh", !.adapt = FALSE] /\ UNCHANGED replied
    BY Zenon, <1>1 DEF Fail
  <2>2. Is(t', "new", "fresh", t.err, t.should_close, t.send_error_response, t.retry, t.reused, FALSE,
           t.close_remote)
    BY Zenon, <2>1 DEF Is, Tasks, Places, TaskType
  <2> QED BY Zenon, <1>1, <2>1, <2>2
<1>2. CASE ~(t.scope = "reuse" /\ t.retry)
  <2>1. t' = [t EXCEPT !.pc = "done", !.should_close = TRUE]
    BY Zenon, <1>2 DEF Fail
  <2>2. AtWith("done", TRUE, t.send_error_response)
    BY Zenon, <2>1 DEF AtWith, Is, Tasks, Places, TaskType
  <2>3. UNCHANGED replied \/ (t.send_error_response /\ replied' = replied + 1)
    BY Zenon, <1>2 DEF Fail
  <2> QED BY Zenon, <2>2, <2>3
<1> QED BY Zenon, <1>1, <1>2

LEMMA SendTask ==
  ASSUME TaskType, Send
  PROVE  TaskAfterSend
<1> USE DEF TaskAfterSend
<1>0. "head" \in Places /\ "all" \in Places /\ "clt" \in Errors
  BY DEF Places, Errors
<1>1. t.retry \in BOOLEAN
  BY DEF TaskType, Tasks
<1>2. \/ (req.body = 0 \/ req.expect) /\ t' = [t EXCEPT !.pc = "head"] /\ UNCHANGED b
      \/ /\ ~(req.body = 0 \/ req.expect)
         /\ \E all \in BOOLEAN :
              /\ TakesFound(all)
              /\ t' = IF ~clt.open /\ Found < b.left /\ Found < BufSize THEN Err("clt", t.retry)
                      ELSE [t EXCEPT !.pc = IF all THEN "all" ELSE "head"]
  BY Zenon DEF Send, Found, TakesFound
<1> DEFINE gone == ~clt.open /\ Found < b.left /\ Found < BufSize
<1>4. ASSUME NEW all \in BOOLEAN,
             t' = IF gone THEN Err("clt", t.retry) ELSE [t EXCEPT !.pc = IF all THEN "all" ELSE "head"]
      PROVE  \/ gone /\ Fails("clt", t.retry)
             \/ ~gone /\ all /\ At("all")
             \/ ~gone /\ ~all /\ At("head")
  <2> HIDE DEF gone
  <2>1. CASE gone
    BY Zenon, <1>0, <1>1, <1>4, <2>1, FailsIs
  <2>2. CASE ~gone /\ all
    <3>1. t' = [t EXCEPT !.pc = "all"]
      BY Zenon, <1>4, <2>2
    <3> QED BY Zenon, <1>0, <2>2, <3>1, AtIs
  <2>3. CASE ~gone /\ ~all
    <3>1. t' = [t EXCEPT !.pc = "head"]
      BY Zenon, <1>4, <2>3
    <3> QED BY Zenon, <1>0, <2>3, <3>1, AtIs
  <2> QED BY Zenon, <2>1, <2>2, <2>3
<1> QED BY Zenon, <1>0, <1>2, <1>4, AtIs

LEMMA SendAllTask ==
  ASSUME TaskType, SendAll
  PROVE  TaskAfterSendAll
<1> USE DEF TaskAfterSendAll
<1>0. "recv" \in Places /\ "ups" \in Errors
  BY DEF Places, Errors
<1> QED BY Zenon, <1>0, AtAgainIs, BodyFailsIs DEF SendAll

LEMMA SendHeadTask ==
  ASSUME TaskType, SendHead
  PROVE  TaskAfterSendHead
<1> USE DEF TaskAfterSendHead
<1>0. "recv" \in Places /\ "copy" \in Places /\ "ups" \in Errors
  BY DEF Places, Errors
<1>1. CASE /\ conn' = Requested(<<>>) /\ b' = [b EXCEPT !.buf = b.fast, !.read_size = 0]
           /\ t' = [t EXCEPT !.pc = IF req.body = 0 THEN "recv" ELSE "copy", !.retry = req.body = 0]
  <2>1. CASE req.body = 0
    <3>1. (req.body = 0) = TRUE
      BY <2>1
    <3>2. t' = [t EXCEPT !.pc = "recv", !.retry = TRUE]
      BY Zenon, <1>1, <2>1, <3>1
    <3> QED BY Zenon, <1>0, <1>1, <2>1, <3>2, AtAgainIs
  <2>2. CASE req.body # 0
    <3>1. (req.body = 0) = FALSE
      BY <2>2
    <3>2. t' = [t EXCEPT !.pc = "copy", !.retry = FALSE]
      BY Zenon, <1>1, <2>2, <3>1
    <3> QED BY Zenon, <1>0, <1>1, <2>2, <3>2, AtAgainIs
  <2> QED BY Zenon, <2>1, <2>2
<1> QED BY Zenon, <1>0, <1>1, BodyFailsIs DEF SendHead

LEMMA CopyTask ==
  ASSUME TaskType, Copy
  PROVE  (CopyDone' /\ At("final")) \/ (~CopyDone' /\ t' = t)
<1>0. "final" \in Places
  BY DEF Places
<1>1. CASE CopyDone'
  <2>1. t' = [t EXCEPT !.pc = "final"]
    BY Zenon, <1>1 DEF Copy
  <2> QED BY Zenon, <1>0, <1>1, <2>1, AtIs
<1>2. CASE ~CopyDone'
  BY Zenon, <1>2 DEF Copy
<1> QED BY Zenon, <1>1, <1>2

LEMMA CopyFailsTask ==
  ASSUME TaskType, CopyFails
  PROVE  BodyFails("ups", FALSE) \/ BodyFails("clt", FALSE)
<1>0. "ups" \in Errors /\ "clt" \in Errors
  BY DEF Errors
<1> QED BY Zenon, <1>0, BodyFailsIs DEF CopyFails

LEMMA UpsReadyTask ==
  ASSUME TaskType, UpsReady
  PROVE  TaskAfterUpsReady
<1> USE DEF TaskAfterUpsReady
<1>0. "early" \in Places /\ "ups" \in Errors
  BY DEF Places, Errors
<1>1. CASE conn.in # <<>>
  BY Zenon, <1>0, <1>1, AtIs DEF UpsReady
<1>2. CASE conn.in = <<>>
  <2> DEFINE r == t.retry \/ b.read_size = 0
  <2>1. r \in BOOLEAN /\ (r <=> t.retry \/ b.read_size = 0) /\ t' = BodyErr("ups", r)
    BY Zenon, <1>2 DEF UpsReady
  <2> HIDE DEF r
  <2>2. BodyFails("ups", r)
    BY Zenon, <1>0, <2>1, BodyFailsIs
  <2> QED BY Zenon, <1>2, <2>1, <2>2
<1> QED BY Zenon, <1>1, <1>2

LEMMA AdaptEndsTask ==
  ASSUME TaskType, AdaptEnds
  PROVE  At("final")
<1>0. "final" \in Places
  BY DEF Places
<1> QED BY Zenon, <1>0, AtIs DEF AdaptEnds

LEMMA AdaptAnswersTask ==
  ASSUME TaskType, AdaptAnswers
  PROVE  AtWith("save", TRUE, FALSE) \/ FailsWith("clt", t.retry, TRUE, FALSE)
<1>0. "save" \in Places /\ "clt" \in Errors
  BY DEF Places, Errors
<1>1. t.retry \in BOOLEAN
  BY DEF TaskType, Tasks
<1> QED BY Zenon, <1>0, <1>1, AtWithIs, FailsWithIs DEF AdaptAnswers

LEMMA AdaptFailsTask ==
  ASSUME TaskType, AdaptFails
  PROVE  \E e \in Errors, r \in BOOLEAN : (r => b.read_size = 0 \/ t.retry) /\ Fails(e, r)
<1>1. PICK e \in {"ups", "clt"}, lost \in BOOLEAN :
        t' = Err(e, IF b.read_size = 0 THEN lost /\ e = "ups" ELSE t.retry)
  BY Zenon DEF AdaptFails
<1> DEFINE r == IF b.read_size = 0 THEN lost /\ e = "ups" ELSE t.retry
<1>2. t.retry \in BOOLEAN /\ e \in Errors
  BY DEF TaskType, Tasks, Errors
<1>3. r \in BOOLEAN /\ (r => b.read_size = 0 \/ t.retry)
  BY Zenon, <1>2
<1>4. t' = Err(e, r)
  BY Zenon, <1>1
<1> HIDE DEF r
<1> QED BY Zenon, <1>2, <1>3, <1>4, FailsIs

LEMMA PassOnTask ==
  ASSUME TaskType, NEW p \in Places, PassOn(p)
  PROVE  At(p) \/ (~clt.open /\ BodyFails("clt", FALSE))
<1>0. "clt" \in Errors
  BY DEF Errors
<1> QED BY Zenon, <1>0, AtIs, BodyFailsIs DEF PassOn

LEMMA FinalEarlyTask ==
  ASSUME TaskType, FinalEarly
  PROVE  TaskAfterFinalEarly
<1> USE DEF TaskAfterFinalEarly
<1> DEFINE c == t.should_close \/ ~b.finished
           k == ~CopyDone
<1>1. c \in BOOLEAN /\ k \in BOOLEAN /\ (c <=> t.should_close \/ ~b.finished) /\ (k <=> ~CopyDone)
  BY Zenon
<1>2. t' = [[t EXCEPT !.should_close = c, !.close_remote = k] EXCEPT !.pc = "respond"]
  BY DEF FinalEarly, Respond, TaskType, Tasks
<1> HIDE DEF c, k
<1>3. Is(t', "respond", t.scope, t.err, c, t.send_error_response, t.retry, t.reused, t.adapt, k)
  BY Zenon, <1>1, <1>2 DEF Is, Tasks, Places, TaskType
<1> QED BY Zenon, <1>1, <1>3

LEMMA EarlyTask ==
  ASSUME TaskType, Early
  PROVE  TaskAfterEarly
<1> USE DEF TaskAfterEarly
<1>0. "ups" \in Errors
  BY DEF Errors
<1>1. CASE Headed /\ conn.in[1].code # "final" /\ PassOn(IF t.adapt THEN "adapt" ELSE "copy")
  <2>1. CASE t.adapt
    BY Zenon, <1>1, <2>1
  <2>2. CASE ~t.adapt
    BY Zenon, <1>1, <2>2
  <2> QED BY Zenon, <2>1, <2>2
<1> QED BY Zenon, <1>0, <1>1, BodyFailsIs DEF Early

LEMMA RecvTask ==
  ASSUME TaskType, Recv
  PROVE  AtAgain("respond", FALSE)
<1>1. t' = [[t EXCEPT !.retry = FALSE] EXCEPT !.pc = "respond"]
  BY Zenon DEF Recv, Respond
<1> QED BY Zenon, <1>1 DEF AtAgain, Is, Tasks, Places, TaskType

LEMMA RecvFailsTask ==
  ASSUME TaskType, RecvFails \/ RecvTimeout
  PROVE  \E r \in BOOLEAN : BodyFails("ups", r)
<1>0. "ups" \in Errors
  BY DEF Errors
<1>1. CASE RecvFails
  <2> DEFINE r == conn.in = <<>>
  <2>1. r \in BOOLEAN /\ t' = BodyErr("ups", r)
    BY Zenon, <1>1 DEF RecvFails
  <2> HIDE DEF r
  <2> QED BY Zenon, <1>0, <2>1, BodyFailsIs
<1>2. CASE RecvTimeout
  BY Zenon, <1>0, <1>2, BodyFailsIs DEF RecvTimeout
<1> QED BY Zenon, <1>1, <1>2

LEMMA TimeoutTask ==
  ASSUME TaskType, RecvTimeout
  PROVE  BodyFails("ups", FALSE)
<1>0. "ups" \in Errors
  BY DEF Errors
<1> QED BY Zenon, <1>0, BodyFailsIs DEF RecvTimeout

LEMMA FinalTask ==
  ASSUME TaskType, Final
  PROVE  TaskAfterFinal
<1> USE DEF TaskAfterFinal
<1>0. "respond" \in Places
  BY DEF Places
<1> QED BY Zenon, <1>0, AtIs DEF Final, Respond

LEMMA SendResponseTask ==
  ASSUME TaskType, ConnType, SendResponse
  PROVE  TaskAfterSendResponse
<1> USE DEF TaskAfterSendResponse
<1>0. "body" \in Places /\ "save" \in Places /\ "ups" \in Errors /\ "clt" \in Errors
  BY DEF Places, Errors
<1>1. t.retry \in BOOLEAN /\ t.send_error_response \in BOOLEAN
  BY DEF TaskType, Tasks
<1> DEFINE close == t.should_close \/ ~rsp.keep_alive
<1>2. close \in BOOLEAN /\ (t.should_close => close)
  BY Zenon
<1>3. CASE /\ t' = [t EXCEPT !.pc = "body", !.should_close = close, !.send_error_response = FALSE]
           /\ replied' = replied + 1
  <2> HIDE DEF close
  <2> QED BY Zenon, <1>0, <1>2, <1>3, AtWithIs
<1>4. CASE t' = [Err("ups", t.retry) EXCEPT !.should_close = close] /\ UNCHANGED replied
  <2> HIDE DEF close
  <2>1. FailsWith("ups", t.retry, close, t.send_error_response)
    BY Zenon, <1>2, <1>4 DEF FailsWith, Is, Tasks, Places, Err, TaskType
  <2> QED BY Zenon, <1>2, <1>4, <2>1
<1>5. CASE /\ t' = [t EXCEPT !.pc = "save", !.should_close = close \/ rsp.got # "all", !.send_error_response = FALSE]
           /\ replied' = replied + 1
  <2> DEFINE c == close \/ rsp.got # "all"
  <2>1. c \in BOOLEAN /\ (t.should_close => c)
    BY Zenon
  <2>2. t' = [t EXCEPT !.pc = "save", !.should_close = c, !.send_error_response = FALSE]
    BY Zenon, <1>5
  <2> HIDE DEF c
  <2> QED BY Zenon, <1>0, <1>5, <2>1, <2>2, AtWithIs
<1>6. ASSUME NEW started \in BOOLEAN, NEW e \in {"ups", "clt"},
             t' = [Err(e, t.retry) EXCEPT !.should_close = TRUE, !.send_error_response = ~started],
             replied' = IF started THEN replied + 1 ELSE replied
      PROVE  \E m \in BOOLEAN : (m <=> ~started) /\ FailsWith(e, t.retry, TRUE, m)
  <2> DEFINE m == ~started
  <2>1. m \in BOOLEAN /\ (m <=> ~started) /\ e \in Errors
    BY Zenon, <1>0
  <2>2. t' = [Err(e, t.retry) EXCEPT !.should_close = TRUE, !.send_error_response = m]
    BY Zenon, <1>6
  <2> HIDE DEF m
  <2> QED BY Zenon, <1>1, <2>1, <2>2, FailsWithIs
<1>7. \/ /\ t' = [t EXCEPT !.pc = "body", !.should_close = close, !.send_error_response = FALSE]
         /\ replied' = replied + 1
      \/ t' = [Err("ups", t.retry) EXCEPT !.should_close = close] /\ UNCHANGED replied
      \/ /\ t' = [t EXCEPT !.pc = "save", !.should_close = close \/ rsp.got # "all", !.send_error_response = FALSE]
         /\ replied' = replied + 1
      \/ \E started \in BOOLEAN, e \in {"ups", "clt"} :
           /\ t' = [Err(e, t.retry) EXCEPT !.should_close = TRUE, !.send_error_response = ~started]
           /\ replied' = IF started THEN replied + 1 ELSE replied
  BY Zenon DEF SendResponse
<1> HIDE DEF close
<1> QED BY Zenon, <1>3, <1>4, <1>5, <1>6, <1>7

LEMMA SendBodyTask ==
  ASSUME TaskType, SendBody
  PROVE  At("save") \/ Fails("ups", t.retry)
<1>0. "save" \in Places /\ "ups" \in Errors
  BY DEF Places, Errors
<1>1. t.retry \in BOOLEAN
  BY DEF TaskType, Tasks
<1> QED BY Zenon, <1>0, <1>1, AtIs, FailsIs DEF SendBody

LEMMA SaveTask ==
  ASSUME TaskType, Save
  PROVE  At("done")
<1>0. "done" \in Places
  BY DEF Places
<1> QED BY Zenon, <1>0, AtIs DEF Save

-----------------------------------------------------------------------------
(* What each step makes of the connection and of the body *)

LEMMA GoneIs ==
  ASSUME conn' = NoConn PROVE Gone
  BY DEF Gone, IsConn, Conns, NoConn

LEMMA FreshIs ==
  ASSUME conn' = Fresh
  PROVE  IsConn(conn', "task", TRUE, <<>>, <<>>, 0, <<>>, FALSE, <<>>)
<1>1. conn' = [at |-> "task", open |-> TRUE, q |-> <<>>, got |-> <<>>, need |-> 0, in |-> <<>>,
               expect |-> FALSE, infos |-> <<>>]
  BY Zenon DEF NoConn, Fresh
<1> QED BY <1>1 DEF IsConn, Conns

LEMMA ConcatIs ==
  ASSUME NEW S, NEW s \in Seq(S), NEW u \in Seq(S)
  PROVE  /\ s \o u \in Seq(S) /\ Len(s \o u) = Len(s) + Len(u)
         /\ \A i \in 1..(Len(s) + Len(u)) : (s \o u)[i] = IF i <= Len(s) THEN s[i] ELSE u[i - Len(s)]
  OBVIOUS

LEMMA HeadTail ==
  ASSUME NEW S, NEW s \in Seq(S), s # <<>>
  PROVE  Head(s) \in S /\ Tail(s) \in Seq(S)
  OBVIOUS

LEMMA AskedIs ==
  ASSUME Bounds, TaskType, ConnType, NEW body \in Seq(Nat)
  PROVE  Asked(Requested(body), body)
<1> DEFINE e == req.expect /\ req.body > 0
<1>1. e \in BOOLEAN /\ (e <=> req.expect /\ req.body > 0)
  BY Zenon
<1>2. Append(conn.q, n) \in Seq(0..MaxReq) /\ req.body \in Nat
  BY DEF Bounds, ConnType, Conns, TaskType, Requests
<1>3. Requested(body) = [conn EXCEPT !.q = Append(conn.q, n), !.got = body, !.need = req.body, !.expect = e]
  BY DEF Requested, ConnType, Conns
<1> HIDE DEF e
<1>4. IsConn(Requested(body), conn.at, conn.open, Append(conn.q, n), body, req.body, conn.in, e, conn.infos)
  BY Zenon, <1>1, <1>2, <1>3 DEF IsConn, Conns, ConnType
<1> QED BY Zenon, <1>1, <1>4 DEF Asked

LEMMA TookIs ==
  ASSUME ConnType, Took, conn.in # <<>>
  PROVE  Holds(conn.open, Tail(conn.in)) /\ conn.in[1] \in Responses
<1>1. conn.in \in Seq(Responses)
  BY DEF ConnType, Conns
<1>2. Tail(conn.in) \in Seq(Responses) /\ conn.in[1] \in Responses
  BY <1>1
<1>3. conn' = [conn EXCEPT !.in = Tail(conn.in)]
  BY DEF Took, ConnType, Conns
<1> HIDE <1>1
<1>4. Holds(conn.open, Tail(conn.in))
  BY Zenon, <1>2, <1>3 DEF Holds, IsConn, Conns, ConnType
<1> QED BY Zenon, <1>2, <1>4

LEMMA AnswersIs ==
  ASSUME TaskType, ConnType, UpsAnswers
  PROVE  ConnAfterAnswers
<1> USE DEF ConnAfterAnswers
<1>1. PICK c \in {"100", "103", "final"}, k \in BOOLEAN :
        /\ c # "final" => EarlyHints \/ (conn.expect /\ \A i \in DOMAIN conn.infos : conn.infos[i] = "103")
        /\ conn' = [conn EXCEPT
             !.in = Append(@, [code |-> c, for |-> Head(conn.q), keep_alive |-> k, got |-> "part"]),
             !.q = IF c = "final" THEN Tail(@) ELSE @,
             !.infos = IF c = "final" THEN <<>> ELSE Append(@, c)]
  BY Zenon DEF UpsAnswers
<1> DEFINE r == [code |-> c, for |-> Head(conn.q), keep_alive |-> k, got |-> "part"]
<1>2. conn.q # <<>>
  BY Zenon DEF UpsAnswers
<1>3. conn.q \in Seq(0..MaxReq) /\ conn.in \in Seq(Responses) /\ conn.infos \in Seq({"100", "103"})
  BY DEF ConnType, Conns
<1>4. Head(conn.q) \in 0..MaxReq /\ Tail(conn.q) \in Seq(0..MaxReq)
  BY Zenon, <1>2, <1>3, HeadTail
<1>5. r \in Responses
  BY <1>4 DEF Responses
<1> HIDE DEF r
<1>6. Append(conn.in, r) \in Seq(Responses)
  BY <1>3, <1>5
<1>7. CASE c = "final"
  <2>1. conn' = [conn EXCEPT !.in = Append(conn.in, r), !.q = Tail(conn.q), !.infos = <<>>]
    BY <1>1, <1>7 DEF r, ConnType, Conns
  <2>0. <<>> \in Seq({"100", "103"})
    OBVIOUS
  <2>2. Talked(Tail(conn.q), Append(conn.in, r), <<>>)
    BY Zenon, <1>4, <1>6, <2>0, <2>1 DEF Talked, IsConn, ConnType, Conns
  <2> QED BY Zenon, <1>1, <1>2, <1>5, <1>7, <2>2 DEF r
<1>8. CASE c # "final"
  <2>1. conn' = [conn EXCEPT !.in = Append(conn.in, r), !.q = conn.q, !.infos = Append(conn.infos, c)]
    BY <1>1, <1>8 DEF r, ConnType, Conns
  <2>2. Append(conn.infos, c) \in Seq({"100", "103"})
    BY <1>3, <1>8
  <2>3. Talked(conn.q, Append(conn.in, r), Append(conn.infos, c))
    BY Zenon, <1>6, <2>1, <2>2 DEF Talked, IsConn, ConnType, Conns
  <2> QED BY Zenon, <1>1, <1>2, <1>5, <1>8, <2>3 DEF r
<1> QED BY Zenon, <1>7, <1>8

LEMMA GivesUpIs ==
  ASSUME Bounds, ConnType, UpsGivesUp
  PROVE  ConnAfterGivesUp
<1> USE DEF ConnAfterGivesUp
<1> DEFINE r == [NoRsp EXCEPT !.got = "all"]
<1>1. r \in Responses /\ r.for = 0
  <2>1. NoRsp \in Responses /\ NoRsp.for = 0
    BY DEF Bounds, NoRsp, Responses
  <2> HIDE DEF NoRsp
  <2> QED BY <2>1 DEF Responses
<1>2. conn' = [conn EXCEPT !.in = << r >>, !.open = FALSE] /\ conn.at = "saved"
  BY Zenon DEF UpsGivesUp
<1> HIDE DEF r
<1>3. << r >> \in Seq(Responses)
  BY <1>1
<1>4. Holds(FALSE, << r >>)
  BY Zenon, <1>2, <1>3 DEF Holds, IsConn, ConnType, Conns
<1> QED BY Zenon, <1>1, <1>2, <1>4 DEF r

LEMMA ClosesIs ==
  ASSUME ConnType, UpsCloses
  PROVE  Holds(FALSE, conn.in)
  BY Zenon DEF UpsCloses, Holds, IsConn, ConnType, Conns

\* The response that is arriving stays the one it is.
LEMMA ContinuesIs ==
  ASSUME ConnType, UpsContinues
  PROVE  ConnAfterContinues
<1> USE DEF ConnAfterContinues
<1> DEFINE More(r) == [r EXCEPT !.got = IF @ = "part" /\ r.code = "final" THEN "head" ELSE "all"]
<1>1. ASSUME NEW r \in Responses PROVE More(r) \in Responses /\ More(r).code = r.code /\ More(r).for = r.for
  BY DEF Responses
<1>2. conn.in \in Seq(Responses) /\ rsp \in Responses
  BY DEF ConnType, Conns
<1>3. \/ ~Settled /\ conn' = [conn EXCEPT !.in[Len(conn.in)] = More(@)] /\ UNCHANGED rsp
      \/ rsp' = More(rsp) /\ UNCHANGED conn
  BY Zenon DEF UpsContinues
<1> HIDE DEF More
<1>4. CASE ~Settled /\ conn' = [conn EXCEPT !.in[Len(conn.in)] = More(@)] /\ UNCHANGED rsp
  <2> DEFINE l == Len(conn.in)
             i == [conn.in EXCEPT ![l] = More(conn.in[l])]
  <2>1. l \in 1..Len(conn.in)
    BY <1>2, <1>4 DEF Settled
  <2>2. conn.in[l] \in Responses
    BY <1>2, <2>1
  <2>3. More(conn.in[l]) \in Responses /\ More(conn.in[l]).code = conn.in[l].code /\ More(conn.in[l]).for = conn.in[l].for
    BY Zenon, <1>1, <2>2
  <2>4. i \in Seq(Responses) /\ Len(i) = Len(conn.in) /\ \A j \in 1..Len(i) : i[j] = IF j = l THEN More(conn.in[l]) ELSE conn.in[j]
    BY <1>2, <2>1, <2>3
  <2>5. conn' = [conn EXCEPT !.in = i]
    BY <1>4 DEF ConnType, Conns
  <2> HIDE DEF i, l
  <2>6. Holds(conn.open, i)
    BY Zenon, <2>4, <2>5 DEF Holds, IsConn, ConnType, Conns
  <2> QED BY Zenon, <1>4, <2>3, <2>4, <2>6
<1>5. CASE rsp' = More(rsp) /\ UNCHANGED conn
  BY Zenon, <1>1, <1>2, <1>5
<1> QED BY Zenon, <1>3, <1>4, <1>5

LEMMA EndsIs ==
  ASSUME ConnType, AdaptEnds
  PROVE  ConnAfterEnds
<1> USE DEF ConnAfterEnds
<1>1. Len(conn.got) \in Nat
  BY DEF ConnType, Conns
<1> QED BY Zenon, <1>1 DEF AdaptEnds, IsConn, ConnType, Conns

LEMMA AtPlaceIs ==
  ASSUME ConnType, NEW a \in {"none", "task", "saved"}, conn' = [conn EXCEPT !.at = a]
  PROVE  IsConn(conn', a, conn.open, conn.q, conn.got, conn.need, conn.in, conn.expect, conn.infos)
  BY Zenon DEF IsConn, ConnType, Conns

LEMMA UnitsType ==
  ASSUME NEW from \in Nat, NEW k \in Nat
  PROVE  Units(from, k) \in Seq(Nat) /\ Len(Units(from, k)) = k /\ \A i \in 1..k : Units(from, k)[i] = from + i
  BY DEF Units

LEMMA StartBody ==
  ASSUME Bounds, BodyType, Start
  PROVE  BodyAfterStart
<1> USE DEF BodyAfterStart
<1>0. b' = [b EXCEPT !.taken = 0, !.fast = <<>>] /\ clt' = [clt EXCEPT !.sent = 0]
  BY Zenon DEF Start
<1>1. IsBody(b', 0, b.left, b.finished, <<>>, b.buf, b.read_size, b.sent, b.whole)
  <2>1. <<>> \in Seq(Nat)
    OBVIOUS
  <2> QED BY Zenon, <1>0, <2>1 DEF IsBody, Bodies, BodyType
<1>2. clt'.sent = 0 /\ clt'.open = clt.open /\ clt' \in [sent : 0..BodyLen, open : BOOLEAN]
  <2>1. 0 \in 0..BodyLen
    BY DEF Bounds
  <2>2. clt \in [sent : 0..BodyLen, open : BOOLEAN]
    BY DEF BodyType
  <2> QED BY <1>0, <2>1, <2>2
<1> QED BY Zenon, <1>1, <1>2

LEMMA RunBody ==
  ASSUME TaskType, BodyType, Run
  PROVE  BodyAfterRun
<1> USE DEF BodyAfterRun
<1> DEFINE e == req.body = 0
<1>1. e \in BOOLEAN /\ (e <=> req.body = 0)
  BY Zenon
<1>2. b' = [b EXCEPT !.left = req.body, !.finished = e, !.fast = <<>>, !.buf = <<>>, !.read_size = 0,
                     !.sent = FALSE, !.whole = FALSE]
  BY Zenon DEF Run
<1>3. req.body \in 0..BodyLen /\ <<>> \in Seq(Nat)
  BY DEF TaskType, Requests
<1> HIDE DEF e
<1>4. IsBody(b', b.taken, req.body, e, <<>>, <<>>, 0, FALSE, FALSE)
  BY Zenon, <1>1, <1>2, <1>3 DEF IsBody, Bodies, BodyType
<1> QED BY Zenon, <1>1, <1>4

\* A part of what the client has sent, and of what is left
LEMMA FoundIs ==
  ASSUME Bounds, BodyType
  PROVE  FoundFits
<1> USE DEF FoundFits
<1>1. b.taken \in Nat /\ b.left \in Nat /\ clt.sent \in Nat /\ b.taken <= clt.sent
  BY DEF Bounds, BodyType, Bodies
<1> QED BY <1>1 DEF Bounds, Found, Smaller

LEMMA SentBody ==
  ASSUME Bounds, BodyType, NEW all \in BOOLEAN, TakesFound(all)
  PROVE  BodyAfterSent(all)
<1> USE DEF BodyAfterSent
<1>2. b.taken \in Nat /\ b.left \in 0..BodyLen
  BY DEF BodyType, Bodies
<1>3. b.taken + Found \in Nat /\ b.left - Found \in 0..BodyLen
  BY <1>2, FoundIs DEF FoundFits, Bounds
<1>4. Units(b.taken, Found) \in Seq(Nat)
  BY Zenon, <1>2, FoundIs, UnitsType DEF FoundFits
<1>5. b' = [b EXCEPT !.taken = b.taken + Found, !.left = b.left - Found, !.fast = Units(b.taken, Found),
                     !.finished = all, !.whole = all]
  BY Zenon DEF TakesFound
<1> QED BY Zenon, <1>3, <1>4, <1>5 DEF IsBody, Bodies, BodyType

LEMMA HeadBody ==
  ASSUME BodyType, b' = [b EXCEPT !.buf = b.fast, !.read_size = 0]
  PROVE  IsBody(b', b.taken, b.left, b.finished, b.fast, b.fast, 0, b.sent, b.whole)
  BY Zenon DEF IsBody, Bodies, BodyType

LEMMA ReadyIs ==
  ASSUME Bounds, BodyType
  PROVE  Ready \in Nat /\ Ready <= b.left /\ Ready <= clt.sent - b.taken
<1>1. b.taken \in Nat /\ b.left \in Nat /\ clt.sent \in Nat /\ b.taken <= clt.sent
  BY DEF Bounds, BodyType, Bodies
<1> QED BY <1>1 DEF Ready, Smaller

LEMMA FilledIs ==
  ASSUME Bounds, BodyType, NEW r \in 0..Ready
  PROVE  r \in Nat /\ Filled(r) \in Seq(Nat) /\ Len(Filled(r)) = Len(b.buf) + r
<1>1. b.taken \in Nat /\ b.buf \in Seq(Nat) /\ r \in Nat
  BY ReadyIs DEF BodyType, Bodies
<1> DEFINE u == Units(b.taken, r)
<1>2. u \in Seq(Nat) /\ Len(u) = r
  BY Zenon, <1>1, UnitsType
<1> HIDE DEF u
<1>3. b.buf \o u \in Seq(Nat) /\ Len(b.buf \o u) = Len(b.buf) + Len(u)
  BY Zenon, <1>1, <1>2, ConcatIs
<1> QED BY Zenon, <1>1, <1>2, <1>3 DEF Filled, u

\* The counts of a body after r of the units that are left are read
LEMMA ReadCounts ==
  ASSUME NEW len \in Nat, NEW taken \in Nat, NEW left \in 0..len, NEW size \in Nat, NEW r \in Nat, r <= left
  PROVE  taken + r \in Nat /\ left - r \in 0..len /\ size + r \in Nat
  BY SMTT(30)

LEMMA MovesIs ==
  ASSUME Bounds, BodyType, NEW c \in Conns, NEW r \in 0..Ready, NEW k \in 0..BodyLen, NEW fin \in BOOLEAN, Moves(c, r, k, fin)
  PROVE  /\ IsBody(b', b.taken + r, b.left - r, fin, b.fast, SubSeq(Filled(r), k + 1, Len(Filled(r))),
                   b.read_size + r, TRUE, b.whole)
         /\ IsConn(conn', c.at, c.open, c.q, c.got \o SubSeq(Filled(r), 1, k), c.need, c.in, c.expect, c.infos)
         /\ k <= Len(Filled(r)) /\ (fin => r = b.left) /\ (b.finished => fin)
<1>1. r \in Nat /\ Filled(r) \in Seq(Nat) /\ k \in Nat
  BY FilledIs DEF Bounds
<1>2. k <= Len(Filled(r)) /\ (fin => r = b.left) /\ (b.finished => fin)
  BY Zenon DEF Moves, Filled
<1>3. SubSeq(Filled(r), k + 1, Len(Filled(r))) \in Seq(Nat) /\ SubSeq(Filled(r), 1, k) \in Seq(Nat)
  BY <1>1, <1>2
<1>4. b.taken + r \in Nat /\ b.left - r \in 0..BodyLen /\ b.read_size + r \in Nat
  <2>1. b.taken \in Nat /\ b.left \in 0..BodyLen /\ b.read_size \in Nat
    BY DEF BodyType, Bodies
  <2>2. r <= b.left
    BY <1>1, <2>1, ReadyIs DEF Bounds
  <2>3. BodyLen \in Nat
    BY Zenon DEF Bounds
  <2> QED BY Zenon, <1>1, <2>1, <2>2, <2>3, ReadCounts
<1> DEFINE rest == SubSeq(Filled(r), k + 1, Len(Filled(r)))
           out == SubSeq(Filled(r), 1, k)
<1>5. b' = [b EXCEPT !.taken = b.taken + r, !.left = b.left - r, !.read_size = b.read_size + r, !.finished = fin,
                     !.buf = rest, !.sent = TRUE]
  BY DEF Moves, Filled, BodyType, Bodies
<1>6. conn' = [c EXCEPT !.got = c.got \o out]
  BY DEF Moves, Filled, Conns
<1> HIDE DEF rest, out
<1>7. IsBody(b', b.taken + r, b.left - r, fin, b.fast, rest, b.read_size + r, TRUE, b.whole)
  BY Zenon, <1>3, <1>4, <1>5 DEF rest, IsBody, Bodies, BodyType
<1>8. c.got \o out \in Seq(Nat)
  BY <1>3 DEF out, Conns
<1>9. IsConn(conn', c.at, c.open, c.q, c.got \o out, c.need, c.in, c.expect, c.infos)
  BY Zenon, <1>6, <1>8 DEF IsConn, Conns
<1> QED BY Zenon, <1>2, <1>7, <1>9 DEF rest, out

LEMMA HeldBackIs ==
  ASSUME Bounds, BodyType, NEW r \in 1..Ready,
         b' = [b EXCEPT !.taken = @ + r, !.left = @ - r, !.read_size = @ + r, !.buf = @ \o Units(b.taken, r)]
  PROVE  IsBody(b', b.taken + r, b.left - r, b.finished, b.fast, Filled(r), b.read_size + r, b.sent, b.whole)
<1>0. r \in 0..Ready
  BY ReadyIs
<1>1. r \in Nat /\ Filled(r) \in Seq(Nat)
  BY <1>0, FilledIs
<1>2. b.taken + r \in Nat /\ b.left - r \in 0..BodyLen /\ b.read_size + r \in Nat
  <2>1. b.taken \in Nat /\ b.left \in 0..BodyLen /\ b.read_size \in Nat
    BY DEF BodyType, Bodies
  <2>2. r <= b.left
    BY <1>1, <2>1, ReadyIs DEF Bounds
  <2>3. BodyLen \in Nat
    BY Zenon DEF Bounds
  <2> QED BY SMTT(60), <1>1, <2>1, <2>2, <2>3
<1>3. b' = [b EXCEPT !.taken = b.taken + r, !.left = b.left - r, !.read_size = b.read_size + r, !.buf = Filled(r)]
  BY DEF Filled, BodyType, Bodies
<1> QED BY Zenon, <1>1, <1>2, <1>3 DEF IsBody, Bodies, BodyType

-----------------------------------------------------------------------------
(* The control *)

\* Where the connection is, whether the attempt may be retried and how often the client was answered
\* agree with the place of the task, after every step.
LEMMA ControlStep ==
  ASSUME Bounds
  PROVE  Control /\ BodyType /\ ConnType /\ [Next]_vars => Control'
<1>CountOn.
  ASSUME t'.pc \notin {"body", "save", "fail", "done"}, replied' = Base', Base' \in 0..1
  PROVE  CountInv'
    BY <1>CountOn DEF CountInv, Base
<1>CountAnswered.
  ASSUME t'.pc \in {"body", "save"}, ~t'.send_error_response, replied' = Base' + 1, Base' \in 0..1
  PROVE  CountInv'
    BY <1>CountAnswered DEF CountInv, Base
<1>CountFailed.
  ASSUME t'.pc = "fail", t'.send_error_response \/ (t'.scope = "reuse" /\ t'.retry) => replied' = Base',
         replied' \in {Base', Base' + 1}, Base' \in 0..1
  PROVE  CountInv'
    BY <1>CountFailed DEF CountInv, Base
<1>CountDone.
  ASSUME t'.pc = "done", replied' \in {Base', Base' + 1}, Base' \in 0..1
  PROVE  CountInv'
    BY <1>CountDone DEF CountInv, Base
<1>SaveControl.
  ASSUME Control, ConnType, Save
  PROVE  Control'
  <2> USE <1>SaveControl
  <2>1. t.pc = "save" /\ UNCHANGED <<n, req, replied, refused>> /\ TaskType
    BY Zenon DEF Save, Control
  <2>2. conn'.at \in {"none", "saved"}
    BY Zenon, GoneIs, AtPlaceIs DEF Save, Gone, IsConn
  <2>3. PlaceInv'
    BY <2>1, <2>2, SaveTask DEF At, Is, PlaceInv, Using, Unsent
  <2>4. RetryInv'
    BY <2>1, SaveTask DEF Control, At, Is, RetryInv
  <2>5. CountInv'
    BY <2>1, SaveTask DEF Control, At, Is, CountInv, Base
  <2>6. TaskType'
    BY Zenon, <2>1, SaveTask DEF At, Is, TaskType
  <2> QED BY Zenon, <2>3, <2>4, <2>5, <2>6 DEF Control
<1>SendResponseControl.
  ASSUME Control, ConnType, SendResponse
  PROVE  Control'
  <2> USE <1>SendResponseControl
  <2>1. t.pc = "respond" /\ UNCHANGED <<n, req, conn, refused>> /\ TaskType
    BY Zenon DEF SendResponse, Control
  <2>3. PlaceInv'
    BY Zenon, <2>1, SendResponseTask DEF TaskAfterSendResponse, Control, AtWith, FailsWith, Is, PlaceInv, Using, Unsent
  <2>4. RetryInv'
    BY Zenon, <2>1, SendResponseTask DEF TaskAfterSendResponse, Control, AtWith, FailsWith, Is, RetryInv
  <2>7. replied = Base /\ Base' = Base /\ Base \in 0..1
    BY <2>1 DEF Control, CountInv, Base, Places, TaskType
  <2>5. CountInv'
    <3>1. t.scope = "fresh" \/ ~t.retry
      BY <2>1 DEF Control, RetryInv
    <3>2. Base' \in 0..1 /\ Base' \in {Base', Base' + 1} /\ Base' + 1 \in {Base', Base' + 1} /\ "fresh" # "reuse"
      BY <2>7
    <3>3. (replied' = replied + 1 => replied' = Base' + 1) /\ (replied' = replied => replied' = Base')
      BY Zenon, <2>7
    <3> QED BY Zenon, <2>1, <3>1, <3>2, <3>3, SendResponseTask, <1>CountAnswered, <1>CountFailed DEF TaskAfterSendResponse, AtWith, FailsWith, Is
  <2>6. TaskType'
    BY Zenon, <2>1, SendResponseTask DEF TaskAfterSendResponse, AtWith, FailsWith, Is, TaskType
  <2> QED BY Zenon, <2>3, <2>4, <2>5, <2>6 DEF Control
<1>PolicyControl.
  ASSUME Control, Policy
  PROVE  Control'
  <2> USE <1>PolicyControl
  <2>1. t.pc = "policy" /\ UNCHANGED <<n, req, conn, refused>> /\ TaskType
    BY Zenon DEF Policy, Control
  <2>3. PlaceInv'
    BY Zenon, <2>1, PolicyTask DEF TaskAfterPolicy, Control, At, AtWith, AtAgain, Fails, FailsWith, BodyFails, Is, PlaceInv, Using, Unsent
  <2>4. RetryInv'
    BY Zenon, <2>1, PolicyTask DEF TaskAfterPolicy, Control, At, AtWith, AtAgain, Fails, FailsWith, BodyFails, Is, RetryInv
  <2>7. replied = Base /\ Base' = Base /\ Base \in 0..1
    BY <2>1 DEF Control, CountInv, Base, Places, TaskType
  <2>5. CountInv'
    <3>1. "alive" \notin {"body", "save", "fail", "done"} /\ Base' \in 0..1
      BY <2>7
    <3>2. replied' \in {replied, replied + 1} => replied' \in {Base', Base' + 1}
      BY Zenon, <2>7
    <3> QED BY Zenon, <2>1, <2>7, <3>1, <3>2, PolicyTask, <1>CountOn, <1>CountDone DEF TaskAfterPolicy, At, AtWith, Is
  <2>6. TaskType'
    BY Zenon, <2>1, PolicyTask DEF TaskAfterPolicy, At, AtWith, AtAgain, Fails, FailsWith, BodyFails, Is, TaskType
  <2> QED BY Zenon, <2>3, <2>4, <2>5, <2>6 DEF Control
<1>GetAliveControl.
  ASSUME Control, GetAlive
  PROVE  Control'
  <2> USE <1>GetAliveControl
  <2>1. t.pc = "alive" /\ UNCHANGED <<n, req, replied, refused>> /\ TaskType
    BY Zenon DEF GetAlive, Control
  <2>2. conn' = NoConn => conn'.at = "none"
    BY Zenon, GoneIs DEF Gone, IsConn
  <2>3. PlaceInv'
    BY <2>1, <2>2, GetAliveTask DEF TaskAfterGetAlive, Control, At, AtWith, AtAgain, Fails, FailsWith, BodyFails, Is, PlaceInv, Using, Unsent
  <2>4. RetryInv'
    BY <2>1, <2>2, GetAliveTask DEF TaskAfterGetAlive, Control, At, AtWith, AtAgain, Fails, FailsWith, BodyFails, Is, RetryInv
  <2>5. CountInv'
    BY <2>1, <2>2, GetAliveTask DEF TaskAfterGetAlive, Control, At, AtWith, AtAgain, Fails, FailsWith, BodyFails, Is, CountInv, RetryInv, Base, Places
  <2>6. TaskType'
    BY Zenon, <2>1, <2>2, GetAliveTask DEF TaskAfterGetAlive, At, AtWith, AtAgain, Fails, FailsWith, BodyFails, Is, TaskType
  <2> QED BY Zenon, <2>3, <2>4, <2>5, <2>6 DEF Control
<1>PollerAnswersControl.
  ASSUME Control, ConnType, PollerAnswers
  PROVE  Control'
  <2> USE <1>PollerAnswersControl
  <2>1. t.pc = "recv_conn" /\ UNCHANGED <<n, req, replied, refused>> /\ TaskType
    BY Zenon DEF PollerAnswers, Control
  <2>2. (conn' = NoConn => conn'.at = "none") /\ (conn' = [conn EXCEPT !.at = "task"] => conn'.at = "task")
    BY Zenon, GoneIs, AtPlaceIs DEF Gone, IsConn
  <2>3. PlaceInv'
    BY Zenon, <2>1, <2>2, PollerTask DEF TaskAfterPoller, Control, At, AtWith, AtAgain, Fails, FailsWith, BodyFails, Is, PlaceInv, Using, Unsent
  <2>4. RetryInv'
    BY Zenon, <2>1, <2>2, PollerTask DEF TaskAfterPoller, Control, At, AtWith, AtAgain, Fails, FailsWith, BodyFails, Is, RetryInv
  <2>5. CountInv'
    BY Zenon, <2>1, <2>2, PollerTask DEF TaskAfterPoller, Control, At, AtWith, AtAgain, Fails, FailsWith, BodyFails, Is, CountInv, RetryInv, Base, Places
  <2>6. TaskType'
    BY Zenon, <2>1, <2>2, PollerTask DEF TaskAfterPoller, At, AtWith, AtAgain, Fails, FailsWith, BodyFails, Is, TaskType
  <2> QED BY Zenon, <2>3, <2>4, <2>5, <2>6 DEF Control
<1>ConnectControl.
  ASSUME Control, Connect
  PROVE  Control'
  <2> USE <1>ConnectControl
  <2>1. t.pc \in {"new", "renew"} /\ UNCHANGED <<n, req, replied, refused>> /\ TaskType
    BY Zenon DEF Connect, Control
  <2>2. conn'.at = "task"
    BY Zenon, FreshIs DEF Connect, IsConn
  <2>3. PlaceInv'
    BY Zenon, <2>1, <2>2, ConnectTask DEF TaskAfterConnect, Control, At, AtWith, AtAgain, Fails, FailsWith, BodyFails, Is, PlaceInv, Using, Unsent
  <2>4. RetryInv'
    BY Zenon, <2>1, <2>2, ConnectTask DEF TaskAfterConnect, Control, At, AtWith, AtAgain, Fails, FailsWith, BodyFails, Is, RetryInv
  <2>5. CountInv'
    BY Zenon, <2>1, <2>2, ConnectTask DEF TaskAfterConnect, Control, At, AtWith, AtAgain, Fails, FailsWith, BodyFails, Is, CountInv, RetryInv, Base, Places
  <2>6. TaskType'
    BY Zenon, <2>1, <2>2, ConnectTask DEF TaskAfterConnect, At, AtWith, AtAgain, Fails, FailsWith, BodyFails, Is, TaskType
  <2> QED BY Zenon, <2>3, <2>4, <2>5, <2>6 DEF Control
<1>ConnectFailsControl.
  ASSUME Control, ConnectFails
  PROVE  Control'
  <2> USE <1>ConnectFailsControl
  <2>1. t.pc \in {"new", "renew"} /\ UNCHANGED <<n, req>> /\ TaskType
    BY Zenon DEF ConnectFails, Control
  <2>2. conn'.at = "none" /\ replied' = replied + 1 /\ refused' = TRUE
    BY Zenon, GoneIs DEF ConnectFails, Gone, IsConn
  <2>3. PlaceInv'
    BY Zenon, <2>1, <2>2, ConnectFailsTask DEF TaskAfterConnectFails, Control, At, AtWith, AtAgain, Fails, FailsWith, BodyFails, Is, PlaceInv, Using, Unsent
  <2>4. RetryInv'
    BY Zenon, <2>1, <2>2, ConnectFailsTask DEF TaskAfterConnectFails, Control, At, AtWith, AtAgain, Fails, FailsWith, BodyFails, Is, RetryInv
  <2>7. replied' \in {Base', Base' + 1} /\ Base' = 1 /\ (t.pc = "renew" => replied' = Base')
    BY <2>1, <2>2 DEF Control, CountInv, Base, Places, TaskType, RetryInv
  <2>5. CountInv'
    <3>1. t'.pc \in {"done", "fail"} /\ (t'.pc = "done" <=> t.pc = "new")
      BY Zenon, <2>1, ConnectFailsTask DEF TaskAfterConnectFails, Is
    <3>2. Base' \in 0..1 /\ "fail" # "done"
      BY <2>7
    <3> QED BY Zenon, <2>1, <2>7, <3>1, <3>2, <1>CountDone, <1>CountFailed
  <2>6. TaskType'
    BY Zenon, <2>1, <2>2, ConnectFailsTask DEF TaskAfterConnectFails, At, AtWith, AtAgain, Fails, FailsWith, BodyFails, Is, TaskType
  <2> QED BY Zenon, <2>3, <2>4, <2>5, <2>6 DEF Control
<1>RunControl.
  ASSUME Control, Run
  PROVE  Control'
  <2> USE <1>RunControl
  <2>1. t.pc = "run" /\ UNCHANGED <<n, req, conn, replied, refused>> /\ TaskType
    BY Zenon DEF Run, Control
  <2>3. PlaceInv'
    BY Zenon, <2>1, RunTask DEF TaskAfterRun, Control, At, AtWith, AtAgain, Fails, FailsWith, BodyFails, Is, PlaceInv, Using, Unsent
  <2>4. RetryInv'
    BY Zenon, <2>1, RunTask DEF TaskAfterRun, Control, At, AtWith, AtAgain, Fails, FailsWith, BodyFails, Is, RetryInv
  <2>5. CountInv'
    BY Zenon, <2>1, RunTask DEF TaskAfterRun, Control, At, AtWith, AtAgain, Fails, FailsWith, BodyFails, Is, CountInv, RetryInv, Base, Places
  <2>6. TaskType'
    BY Zenon, <2>1, RunTask DEF TaskAfterRun, At, AtWith, AtAgain, Fails, FailsWith, BodyFails, Is, TaskType
  <2> QED BY Zenon, <2>3, <2>4, <2>5, <2>6 DEF Control
<1>FailControl.
  ASSUME Control, Fail
  PROVE  Control'
  <2> USE <1>FailControl
  <2>1. t.pc = "fail" /\ UNCHANGED <<n, req, refused>> /\ TaskType
    BY Zenon DEF Fail, Control
  <2>2. conn'.at = "none"
    BY Zenon, GoneIs DEF Fail, Gone, IsConn
  <2>3. PlaceInv'
    BY Zenon, <2>1, <2>2, FailTask DEF TaskAfterFail, Control, At, AtWith, AtAgain, Fails, FailsWith, BodyFails, Is, PlaceInv, Using, Unsent
  <2>4. RetryInv'
    BY Zenon, <2>1, <2>2, FailTask DEF TaskAfterFail, Control, At, AtWith, AtAgain, Fails, FailsWith, BodyFails, Is, RetryInv
  <2>7. replied \in {Base, Base + 1} /\ Base' = Base /\ Base \in 0..1
    BY <2>1, <2>2 DEF Control, CountInv, Base, Places, TaskType
  <2>5. CountInv'
    <3>1. CASE t.scope = "reuse" /\ t.retry /\ UNCHANGED replied /\ t'.pc = "new"
      <4>1. replied' = Base' /\ Base' \in 0..1 /\ "new" \notin {"body", "save", "fail", "done"}
        BY <2>1, <2>7, <3>1 DEF Control, CountInv
      <4> QED BY Zenon, <3>1, <4>1, <1>CountOn
    <3>2. CASE t'.pc = "done" /\ (UNCHANGED replied \/ (t.send_error_response /\ replied' = replied + 1))
      <4>1. replied' \in {Base', Base' + 1} /\ Base' \in 0..1
        BY <2>1, <2>7, <3>2 DEF Control, CountInv
      <4> QED BY Zenon, <3>2, <4>1, <1>CountDone
    <3> QED BY Zenon, <2>1, <3>1, <3>2, FailTask DEF TaskAfterFail, AtWith, Is
  <2>6. TaskType'
    BY Zenon, <2>1, <2>2, FailTask DEF TaskAfterFail, At, AtWith, AtAgain, Fails, FailsWith, BodyFails, Is, TaskType
  <2> QED BY Zenon, <2>3, <2>4, <2>5, <2>6 DEF Control
<1>SendControl.
  ASSUME Control, Send
  PROVE  Control'
  <2> USE <1>SendControl
  <2>1. t.pc = "send" /\ UNCHANGED <<n, req, conn, replied, refused>> /\ TaskType
    BY Zenon DEF Send, Control
  <2>3. PlaceInv'
    BY <2>1, SendTask DEF TaskAfterSend, Control, At, AtWith, AtAgain, Fails, FailsWith, BodyFails, Is, PlaceInv, Using, Unsent
  <2>4. RetryInv'
    BY <2>1, SendTask DEF TaskAfterSend, Control, At, AtWith, AtAgain, Fails, FailsWith, BodyFails, Is, RetryInv
  <2>5. CountInv'
    BY <2>1, SendTask DEF TaskAfterSend, Control, At, AtWith, AtAgain, Fails, FailsWith, BodyFails, Is, CountInv, RetryInv, Base, Places
  <2>6. TaskType'
    BY Zenon, <2>1, SendTask DEF TaskAfterSend, At, AtWith, AtAgain, Fails, FailsWith, BodyFails, Is, TaskType
  <2> QED BY Zenon, <2>3, <2>4, <2>5, <2>6 DEF Control
<1>SendAllControl.
  ASSUME Control, BodyType, ConnType, SendAll
  PROVE  Control'
  <2> USE <1>SendAllControl
  <2>1. t.pc = "all" /\ UNCHANGED <<n, req, replied, refused>> /\ TaskType
    BY Zenon DEF SendAll, Control
  <2>0. b.fast \in Seq(Nat)
    BY DEF BodyType, Bodies
  <2>2. conn'.at = conn.at
    BY Zenon, <2>0, <2>1, AskedIs DEF SendAll, Asked, IsConn
  <2>3. PlaceInv'
    BY Zenon, <2>1, <2>2, SendAllTask DEF TaskAfterSendAll, Control, At, AtWith, AtAgain, Fails, FailsWith, BodyFails, Is, PlaceInv, Using, Unsent
  <2>4. RetryInv'
    BY Zenon, <2>1, <2>2, SendAllTask DEF TaskAfterSendAll, Control, At, AtWith, AtAgain, Fails, FailsWith, BodyFails, Is, RetryInv
  <2>5. CountInv'
    BY Zenon, <2>1, <2>2, SendAllTask DEF TaskAfterSendAll, Control, At, AtWith, AtAgain, Fails, FailsWith, BodyFails, Is, CountInv, RetryInv, Base, Places
  <2>6. TaskType'
    BY Zenon, <2>1, <2>2, SendAllTask DEF TaskAfterSendAll, At, AtWith, AtAgain, Fails, FailsWith, BodyFails, Is, TaskType
  <2> QED BY Zenon, <2>3, <2>4, <2>5, <2>6 DEF Control
<1>SendHeadControl.
  ASSUME Control, BodyType, ConnType, SendHead
  PROVE  Control'
  <2> USE <1>SendHeadControl
  <2>1. t.pc = "head" /\ UNCHANGED <<n, req, replied, refused>> /\ TaskType
    BY Zenon DEF SendHead, Control
  <2>0. <<>> \in Seq(Nat)
    OBVIOUS
  <2>2. conn'.at = conn.at
    <3>1. conn' = Requested(<<>>) \/ UNCHANGED conn
      BY Zenon DEF SendHead
    <3>2. Requested(<<>>).at = conn.at
      BY Zenon, <2>0, <2>1, AskedIs DEF Asked, IsConn
    <3> QED BY Zenon, <3>1, <3>2
  <2>3. PlaceInv'
    BY Zenon, <2>1, <2>2, SendHeadTask DEF TaskAfterSendHead, Control, At, AtWith, AtAgain, Fails, FailsWith, BodyFails, Is, PlaceInv, Using, Unsent
  <2>4. RetryInv'
    BY Zenon, <2>1, <2>2, SendHeadTask DEF TaskAfterSendHead, Control, At, AtWith, AtAgain, Fails, FailsWith, BodyFails, Is, RetryInv
  <2>5. CountInv'
    BY Zenon, <2>1, <2>2, SendHeadTask DEF TaskAfterSendHead, Control, At, AtWith, AtAgain, Fails, FailsWith, BodyFails, Is, CountInv, RetryInv, Base, Places
  <2>6. TaskType'
    BY Zenon, <2>1, <2>2, SendHeadTask DEF TaskAfterSendHead, At, AtWith, AtAgain, Fails, FailsWith, BodyFails, Is, TaskType
  <2> QED BY Zenon, <2>3, <2>4, <2>5, <2>6 DEF Control
<1>CopyControl.
  ASSUME Control, BodyType, ConnType, Copy
  PROVE  Control'
  <2> USE <1>CopyControl
  <2>1. t.pc = "copy" /\ UNCHANGED <<n, req, replied, refused>> /\ TaskType
    BY Zenon DEF Copy, Control
  <2>2. conn'.at = conn.at
    BY Zenon, MovesIs DEF Copy, IsConn, ConnType
  <2>3. PlaceInv'
    BY <2>1, <2>2, CopyTask DEF Control, At, AtWith, AtAgain, Fails, FailsWith, BodyFails, Is, PlaceInv, Using, Unsent
  <2>4. RetryInv'
    BY <2>1, <2>2, CopyTask DEF Control, At, AtWith, AtAgain, Fails, FailsWith, BodyFails, Is, RetryInv
  <2>5. CountInv'
    BY <2>1, <2>2, CopyTask DEF Control, At, AtWith, AtAgain, Fails, FailsWith, BodyFails, Is, CountInv, RetryInv, Base, Places
  <2>6. TaskType'
    BY Zenon, <2>1, <2>2, CopyTask DEF At, AtWith, AtAgain, Fails, FailsWith, BodyFails, Is, TaskType
  <2> QED BY Zenon, <2>3, <2>4, <2>5, <2>6 DEF Control
<1>CopyFailsControl.
  ASSUME Control, CopyFails
  PROVE  Control'
  <2> USE <1>CopyFailsControl
  <2>1. t.pc = "copy" /\ UNCHANGED <<n, req, conn, replied, refused>> /\ TaskType
    BY Zenon DEF CopyFails, Control
  <2>3. PlaceInv'
    BY Zenon, <2>1, CopyFailsTask DEF Control, At, AtWith, AtAgain, Fails, FailsWith, BodyFails, Is, PlaceInv, Using, Unsent
  <2>4. RetryInv'
    BY Zenon, <2>1, CopyFailsTask DEF Control, At, AtWith, AtAgain, Fails, FailsWith, BodyFails, Is, RetryInv
  <2>5. CountInv'
    BY Zenon, <2>1, CopyFailsTask DEF Control, At, AtWith, AtAgain, Fails, FailsWith, BodyFails, Is, CountInv, RetryInv, Base, Places
  <2>6. TaskType'
    BY Zenon, <2>1, CopyFailsTask DEF At, AtWith, AtAgain, Fails, FailsWith, BodyFails, Is, TaskType
  <2> QED BY Zenon, <2>3, <2>4, <2>5, <2>6 DEF Control
<1>UpsReadyControl.
  ASSUME Control, UpsReady
  PROVE  Control'
  <2> USE <1>UpsReadyControl
  <2>1. t.pc \in {"copy", "adapt"} /\ UNCHANGED <<n, req, conn, replied, refused>> /\ TaskType
    BY Zenon DEF UpsReady, Control
  <2>3. PlaceInv'
    BY Zenon, <2>1, UpsReadyTask DEF TaskAfterUpsReady, Control, At, AtWith, AtAgain, Fails, FailsWith, BodyFails, Is, PlaceInv, Using, Unsent
  <2>4. RetryInv'
    BY Zenon, <2>1, UpsReadyTask DEF TaskAfterUpsReady, Control, At, AtWith, AtAgain, Fails, FailsWith, BodyFails, Is, RetryInv
  <2>5. CountInv'
    BY Zenon, <2>1, UpsReadyTask DEF TaskAfterUpsReady, Control, At, AtWith, AtAgain, Fails, FailsWith, BodyFails, Is, CountInv, RetryInv, Base, Places
  <2>6. TaskType'
    BY Zenon, <2>1, UpsReadyTask DEF TaskAfterUpsReady, At, AtWith, AtAgain, Fails, FailsWith, BodyFails, Is, TaskType
  <2> QED BY Zenon, <2>3, <2>4, <2>5, <2>6 DEF Control
<1>AdaptControl.
  ASSUME Control, BodyType, ConnType, Adapt
  PROVE  Control'
  <2> USE <1>AdaptControl
  <2>1. t.pc = "adapt" /\ UNCHANGED <<n, req, t, replied, refused>> /\ TaskType
    BY Zenon DEF Adapt, Control
  <2>0. <<>> \in Seq(Nat)
    OBVIOUS
  <2>2. conn'.at = conn.at
    <3>1. Requested(<<>>) \in Conns /\ Requested(<<>>).at = conn.at
      BY Zenon, <2>0, <2>1, AskedIs DEF Asked, IsConn
    <3>2. (IF b.sent THEN conn ELSE Requested(<<>>)) \in Conns /\ (IF b.sent THEN conn ELSE Requested(<<>>)).at = conn.at
      BY Zenon, <3>1 DEF ConnType
    <3> QED BY Zenon, <3>2, MovesIs DEF Adapt, IsConn
  <2>3. PlaceInv'
    BY <2>1, <2>2 DEF Control, At, AtWith, AtAgain, Fails, FailsWith, BodyFails, Is, PlaceInv, Using, Unsent
  <2>4. RetryInv'
    BY <2>1, <2>2 DEF Control, At, AtWith, AtAgain, Fails, FailsWith, BodyFails, Is, RetryInv
  <2>5. CountInv'
    BY <2>1, <2>2 DEF Control, At, AtWith, AtAgain, Fails, FailsWith, BodyFails, Is, CountInv, RetryInv, Base, Places
  <2>6. TaskType'
    BY Zenon, <2>1, <2>2 DEF At, AtWith, AtAgain, Fails, FailsWith, BodyFails, Is, TaskType
  <2> QED BY Zenon, <2>3, <2>4, <2>5, <2>6 DEF Control
<1>AdaptEndsControl.
  ASSUME Control, ConnType, AdaptEnds
  PROVE  Control'
  <2> USE <1>AdaptEndsControl
  <2>1. t.pc = "adapt" /\ UNCHANGED <<n, req, replied, refused>> /\ TaskType
    BY Zenon DEF AdaptEnds, Control
  <2>2. conn'.at = conn.at
    BY Zenon, EndsIs DEF ConnAfterEnds, IsConn
  <2>3. PlaceInv'
    BY <2>1, <2>2, AdaptEndsTask DEF Control, At, AtWith, AtAgain, Fails, FailsWith, BodyFails, Is, PlaceInv, Using, Unsent
  <2>4. RetryInv'
    BY <2>1, <2>2, AdaptEndsTask DEF Control, At, AtWith, AtAgain, Fails, FailsWith, BodyFails, Is, RetryInv
  <2>5. CountInv'
    BY <2>1, <2>2, AdaptEndsTask DEF Control, At, AtWith, AtAgain, Fails, FailsWith, BodyFails, Is, CountInv, RetryInv, Base, Places
  <2>6. TaskType'
    BY Zenon, <2>1, <2>2, AdaptEndsTask DEF At, AtWith, AtAgain, Fails, FailsWith, BodyFails, Is, TaskType
  <2> QED BY Zenon, <2>3, <2>4, <2>5, <2>6 DEF Control
<1>AdaptAnswersControl.
  ASSUME Control, AdaptAnswers
  PROVE  Control'
  <2> USE <1>AdaptAnswersControl
  <2>1. t.pc = "adapt" /\ replied' = replied + 1 /\ UNCHANGED <<n, req, conn, refused>> /\ TaskType
    BY Zenon DEF AdaptAnswers, Control
  <2>3. PlaceInv'
    BY Zenon, <2>1, AdaptAnswersTask DEF Control, At, AtWith, AtAgain, Fails, FailsWith, BodyFails, Is, PlaceInv, Using, Unsent
  <2>4. RetryInv'
    BY Zenon, <2>1, AdaptAnswersTask DEF Control, At, AtWith, AtAgain, Fails, FailsWith, BodyFails, Is, RetryInv
  <2>7. replied = Base /\ Base' = Base /\ Base \in 0..1
    BY <2>1 DEF Control, CountInv, Base, Places, TaskType
  <2>5. CountInv'
    <3>1. t.scope = "fresh" \/ ~t.retry
      BY <2>1 DEF Control, RetryInv
    <3>2. /\ Base' \in 0..1 /\ Base' + 1 \in {Base', Base' + 1} /\ replied' = Base' + 1
          /\ "fresh" # "reuse" /\ "save" \in {"body", "save"}
      BY <2>1, <2>7
    <3> QED BY Zenon, <2>1, <3>1, <3>2, AdaptAnswersTask, <1>CountAnswered, <1>CountFailed DEF AtWith, FailsWith, Is
  <2>6. TaskType'
    BY Zenon, <2>1, AdaptAnswersTask DEF At, AtWith, AtAgain, Fails, FailsWith, BodyFails, Is, TaskType
  <2> QED BY Zenon, <2>3, <2>4, <2>5, <2>6 DEF Control
<1>AdaptFailsControl.
  ASSUME Control, AdaptFails
  PROVE  Control'
  <2> USE <1>AdaptFailsControl
  <2>1. t.pc = "adapt" /\ UNCHANGED <<n, req, conn, replied, refused>> /\ TaskType
    BY Zenon DEF AdaptFails, Control
  <2>3. PlaceInv'
    BY <2>1, AdaptFailsTask DEF Control, At, AtWith, AtAgain, Fails, FailsWith, BodyFails, Is, PlaceInv, Using, Unsent
  <2>4. RetryInv'
    BY <2>1, AdaptFailsTask DEF Control, At, AtWith, AtAgain, Fails, FailsWith, BodyFails, Is, RetryInv
  <2>5. CountInv'
    BY <2>1, AdaptFailsTask DEF Control, At, AtWith, AtAgain, Fails, FailsWith, BodyFails, Is, CountInv, RetryInv, Base, Places
  <2>6. TaskType'
    BY Zenon, <2>1, AdaptFailsTask DEF At, AtWith, AtAgain, Fails, FailsWith, BodyFails, Is, TaskType
  <2> QED BY Zenon, <2>3, <2>4, <2>5, <2>6 DEF Control
<1>RecvControl.
  ASSUME Control, ConnType, Recv
  PROVE  Control'
  <2> USE <1>RecvControl
  <2>1. t.pc = "recv" /\ UNCHANGED <<n, req, replied, refused>> /\ TaskType
    BY Zenon DEF Recv, Respond, Control
  <2>2. conn'.at = conn.at
    BY Zenon, TookIs DEF Recv, Respond, Headed, Holds, IsConn
  <2>3. PlaceInv'
    BY <2>1, <2>2, RecvTask DEF Control, At, AtWith, AtAgain, Fails, FailsWith, BodyFails, Is, PlaceInv, Using, Unsent
  <2>4. RetryInv'
    BY Zenon, <2>1, <2>2, RecvTask DEF Control, At, AtWith, AtAgain, Fails, FailsWith, BodyFails, Is, RetryInv
  <2>5. CountInv'
    BY <2>1, <2>2, RecvTask DEF Control, At, AtWith, AtAgain, Fails, FailsWith, BodyFails, Is, CountInv, RetryInv, Base, Places
  <2>6. TaskType'
    BY Zenon, <2>1, <2>2, RecvTask DEF At, AtWith, AtAgain, Fails, FailsWith, BodyFails, Is, TaskType
  <2> QED BY Zenon, <2>3, <2>4, <2>5, <2>6 DEF Control
<1>RecvFailsControl.
  ASSUME Control, RecvFails
  PROVE  Control'
  <2> USE <1>RecvFailsControl
  <2>1. t.pc = "recv" /\ UNCHANGED <<n, req, conn, replied, refused>> /\ TaskType
    BY Zenon DEF RecvFails, Control
  <2>3. PlaceInv'
    BY Zenon, <2>1, RecvFailsTask DEF Control, At, AtWith, AtAgain, Fails, FailsWith, BodyFails, Is, PlaceInv, Using, Unsent
  <2>4. RetryInv'
    BY Zenon, <2>1, RecvFailsTask DEF Control, At, AtWith, AtAgain, Fails, FailsWith, BodyFails, Is, RetryInv
  <2>5. CountInv'
    BY Zenon, <2>1, RecvFailsTask DEF Control, At, AtWith, AtAgain, Fails, FailsWith, BodyFails, Is, CountInv, RetryInv, Base, Places
  <2>6. TaskType'
    BY Zenon, <2>1, RecvFailsTask DEF At, AtWith, AtAgain, Fails, FailsWith, BodyFails, Is, TaskType
  <2> QED BY Zenon, <2>3, <2>4, <2>5, <2>6 DEF Control
<1>RecvTimeoutControl.
  ASSUME Control, RecvTimeout
  PROVE  Control'
  <2> USE <1>RecvTimeoutControl
  <2>1. t.pc \in {"recv", "final", "last"} /\ UNCHANGED <<n, req, conn, replied, refused>> /\ TaskType
    BY Zenon DEF RecvTimeout, Control
  <2>3. PlaceInv'
    BY Zenon, <2>1, TimeoutTask DEF Control, At, AtWith, AtAgain, Fails, FailsWith, BodyFails, Is, PlaceInv, Using, Unsent
  <2>4. RetryInv'
    BY Zenon, <2>1, TimeoutTask DEF Control, At, AtWith, AtAgain, Fails, FailsWith, BodyFails, Is, RetryInv
  <2>5. CountInv'
    BY Zenon, <2>1, TimeoutTask DEF Control, At, AtWith, AtAgain, Fails, FailsWith, BodyFails, Is, CountInv, RetryInv, Base, Places
  <2>6. TaskType'
    BY Zenon, <2>1, TimeoutTask DEF At, AtWith, AtAgain, Fails, FailsWith, BodyFails, Is, TaskType
  <2> QED BY Zenon, <2>3, <2>4, <2>5, <2>6 DEF Control
<1>SendBodyControl.
  ASSUME Control, SendBody
  PROVE  Control'
  <2> USE <1>SendBodyControl
  <2>1. t.pc = "body" /\ UNCHANGED <<n, req, conn, replied, refused>> /\ TaskType
    BY Zenon DEF SendBody, Control
  <2>3. PlaceInv'
    BY <2>1, SendBodyTask DEF Control, At, AtWith, AtAgain, Fails, FailsWith, BodyFails, Is, PlaceInv, Using, Unsent
  <2>4. RetryInv'
    BY <2>1, SendBodyTask DEF Control, At, AtWith, AtAgain, Fails, FailsWith, BodyFails, Is, RetryInv
  <2>5. CountInv'
    BY <2>1, SendBodyTask DEF Control, At, AtWith, AtAgain, Fails, FailsWith, BodyFails, Is, CountInv, RetryInv, Base, Places
  <2>6. TaskType'
    BY Zenon, <2>1, SendBodyTask DEF At, AtWith, AtAgain, Fails, FailsWith, BodyFails, Is, TaskType
  <2> QED BY Zenon, <2>3, <2>4, <2>5, <2>6 DEF Control
<1>SameControl.
  ASSUME Control, UNCHANGED <<n, req, t, replied, refused>>, conn'.at = conn.at
  PROVE  Control'
  <2> USE <1>SameControl
  <2>1. TaskType' /\ PlaceInv'
    BY Zenon DEF Control, TaskType, PlaceInv
  <2>2. RetryInv' /\ CountInv'
    BY Zenon DEF Control, RetryInv, CountInv, Base
  <2> QED BY Zenon, <2>1, <2>2 DEF Control
<1>EnvControl.
  ASSUME Control, ConnType, BodyType, Environment
  PROVE  Control'
  <2> USE <1>EnvControl
  <2>1. UNCHANGED <<n, req, t, replied, refused>>
    BY Zenon DEF Environment, ClientSends, ClientLeaves, UpsAnswers, UpsGivesUp, UpsContinues, UpsCloses
  <2>2. conn'.at = conn.at
    <3>1. CASE ClientSends \/ ClientLeaves
      BY Zenon, <3>1 DEF ClientSends, ClientLeaves
    <3>2. CASE UpsAnswers
      BY Zenon, <3>2, AnswersIs DEF ConnAfterAnswers, Control, Talked, IsConn
    <3>3. CASE UpsGivesUp \/ UpsCloses \/ UpsContinues
      BY Zenon, <3>3, GivesUpIs, ClosesIs, ContinuesIs DEF ConnAfterGivesUp, ConnAfterContinues, Holds, IsConn
    <3> QED BY Zenon, <3>1, <3>2, <3>3 DEF Environment
  <2> QED BY Zenon, <2>1, <2>2, <1>SameControl
<1>StartControl.
  ASSUME Control, Start
  PROVE  Control'
  <2> USE <1>StartControl
  <2>1. /\ t.pc \in {"idle", "done"} /\ UNCHANGED conn /\ replied' = 0 /\ refused' = FALSE
        /\ TaskType /\ PlaceInv
    BY Zenon DEF Start, Control
  <2>2. t'.pc = "policy" /\ t'.scope = "reuse" /\ t'.retry = FALSE /\ TaskType'
    BY Zenon, <2>1, StartTask DEF Is
  <2>3. PlaceInv'
    BY <2>1, <2>2 DEF PlaceInv, Using, Unsent
  <2>4. RetryInv'
    BY <2>1, <2>2 DEF RetryInv
  <2>5. CountInv'
    BY <2>1, <2>2 DEF CountInv, Base
  <2> QED BY Zenon, <2>2, <2>3, <2>4, <2>5 DEF Control
<1>PollerClosesControl.
  ASSUME Control, PollerCloses
  PROVE  Control'
  <2> USE <1>PollerClosesControl
  <2>1. conn.at = "saved" /\ t.pc # "recv_conn" /\ UNCHANGED <<n, req, t, replied, refused>>
    BY Zenon DEF PollerCloses
  <2>2. conn'.at = "none"
    BY Zenon, GoneIs DEF PollerCloses, Gone, IsConn
  <2>3. PlaceInv'
    BY <2>1, <2>2 DEF Control, PlaceInv, Using, Unsent
  <2>4. TaskType /\ RetryInv /\ CountInv
    BY Zenon DEF Control
  <2> QED BY Zenon, <2>1, <2>3, <2>4 DEF Control, TaskType, RetryInv, CountInv, Base
<1>PassOnControl.
  ASSUME Control, ConnType, t.pc \in {"early", "final"}, Headed, NEW p \in {"adapt", "copy", "last", "final"}, PassOn(p)
  PROVE  Control'
  <2> USE <1>PassOnControl
  <2>1. p \in Places /\ TaskType /\ UNCHANGED <<n, req, replied, refused>>
    BY Zenon DEF Places, Control, PassOn
  <2>2. conn'.at = conn.at
    BY Zenon, TookIs DEF PassOn, Headed, Holds, IsConn
  <2>0. At(p) \/ BodyFails("clt", FALSE)
    BY Zenon, <2>1, PassOnTask
  <2>3. PlaceInv'
    BY <2>0, <2>1, <2>2 DEF Control, At, AtAgain, Fails, BodyFails, Is, PlaceInv, Using, Unsent
  <2>4. RetryInv'
    BY <2>0, <2>1 DEF Control, At, AtAgain, Fails, BodyFails, Is, RetryInv
  <2>5. CountInv'
    BY <2>0, <2>1 DEF Control, At, AtAgain, Fails, BodyFails, Is, CountInv, Base, Places
  <2>6. TaskType'
    BY Zenon, <2>0, <2>1 DEF At, AtAgain, Fails, BodyFails, Is, TaskType
  <2> QED BY Zenon, <2>3, <2>4, <2>5, <2>6 DEF Control
<1>RespondControl.
  ASSUME Control, t.pc \in {"early", "final", "last"}, conn'.at = conn.at, UNCHANGED <<n, req, replied, refused>>,
         t' \in Tasks, t'.pc = "respond", t'.scope = t.scope, t'.retry = t.retry, t'.reused = t.reused,
         t.should_close => t'.should_close
  PROVE  Control'
  <2> USE <1>RespondControl
  <2>3. PlaceInv'
    BY DEF Control, PlaceInv, Using, Unsent
  <2>4. RetryInv'
    BY DEF Control, RetryInv
  <2>5. CountInv'
    BY DEF Control, CountInv, Base, Places
  <2>6. TaskType'
    BY Zenon DEF Control, TaskType
  <2> QED BY Zenon, <2>3, <2>4, <2>5, <2>6 DEF Control
<1>EarlyControl.
  ASSUME Control, ConnType, Early
  PROVE  Control'
  <2> USE <1>EarlyControl
  <2>1. t.pc = "early" /\ TaskType
    BY Zenon DEF Early, Control
  <2>2. CASE Headed /\ (PassOn("adapt") \/ PassOn("copy"))
    BY Zenon, <2>1, <2>2, <1>PassOnControl
  <2>3. CASE Headed /\ FinalEarly
    <3>1. conn'.at = conn.at /\ UNCHANGED <<n, req, replied, refused>>
      BY Zenon, <2>3, TookIs DEF FinalEarly, Respond, Headed, Holds, IsConn
    <3>2. /\ t' \in Tasks /\ t'.pc = "respond" /\ t'.scope = t.scope /\ t'.retry = t.retry /\ t'.reused = t.reused
          /\ t.should_close => t'.should_close
      BY Zenon, <2>1, <2>3, FinalEarlyTask DEF TaskAfterFinalEarly, Is
    <3> QED BY Zenon, <2>1, <3>1, <3>2, <1>RespondControl
  <2>4. CASE BodyFails("ups", FALSE) /\ UNCHANGED <<n, req, b, clt, conn, rsp, replied, refused>>
    <3>3. PlaceInv'
      BY <2>1, <2>4 DEF Control, AtAgain, Fails, BodyFails, Is, PlaceInv, Using, Unsent
    <3>4. RetryInv'
      BY <2>1, <2>4 DEF Control, AtAgain, Fails, BodyFails, Is, RetryInv
    <3>5. CountInv'
      BY <2>1, <2>4 DEF Control, AtAgain, Fails, BodyFails, Is, CountInv, Base, Places
    <3>6. TaskType'
      BY Zenon, <2>1, <2>4 DEF AtAgain, Fails, BodyFails, Is, TaskType
    <3> QED BY Zenon, <3>3, <3>4, <3>5, <3>6 DEF Control
  <2> QED BY Zenon, <2>1, <2>2, <2>3, <2>4, EarlyTask DEF TaskAfterEarly
<1>FinalControl.
  ASSUME Control, ConnType, Final
  PROVE  Control'
  <2> USE <1>FinalControl
  <2>1. t.pc \in {"final", "last"} /\ TaskType /\ Headed
    BY Zenon DEF Final, Control
  <2>2. CASE t.pc = "final" /\ (PassOn("last") \/ PassOn("final"))
    BY Zenon, <2>1, <2>2, <1>PassOnControl
  <2>3. CASE At("respond") /\ Took /\ UNCHANGED <<n, req, b, clt, replied, refused>>
    <3>1. conn'.at = conn.at
      BY Zenon, <2>1, <2>3, TookIs DEF Headed, Holds, IsConn
    <3>2. t.pc \in {"early", "final", "last"}
      BY Zenon, <2>1
    <3> QED BY Zenon, <2>3, <3>1, <3>2, <1>RespondControl DEF At, Is
  <2> QED BY Zenon, <2>1, <2>2, <2>3, FinalTask DEF TaskAfterFinal
<1> QED
  <2> SUFFICES ASSUME Control, BodyType, ConnType, [Next]_vars
               PROVE  Control'
    OBVIOUS
  <2>1. CASE UNCHANGED vars \/ Stopped
    <3>1. UNCHANGED <<n, req, t, conn, replied, refused>>
      BY Zenon, <2>1 DEF Stopped, vars
    <3> QED BY Zenon, <3>1, <1>SameControl
  <2>2. CASE Start \/ Environment \/ Poller
    BY Zenon, <2>2, <1>StartControl, <1>EnvControl, <1>PollerClosesControl, <1>PollerAnswersControl DEF Poller
  <2>3. CASE Policy \/ GetAlive \/ Connect \/ ConnectFails \/ Run \/ Fail
    BY Zenon, <2>3, <1>PolicyControl, <1>GetAliveControl, <1>ConnectControl, <1>ConnectFailsControl, <1>RunControl, <1>FailControl
  <2>4. CASE Send \/ SendAll \/ SendHead \/ Copy \/ CopyFails \/ UpsReady
    BY Zenon, <2>4, <1>SendControl, <1>SendAllControl, <1>SendHeadControl, <1>CopyControl, <1>CopyFailsControl, <1>UpsReadyControl
  <2>5. CASE Adapt \/ AdaptEnds \/ AdaptAnswers \/ AdaptFails
    BY Zenon, <2>5, <1>AdaptControl, <1>AdaptEndsControl, <1>AdaptAnswersControl, <1>AdaptFailsControl
  <2>6. CASE Early \/ Recv \/ RecvFails \/ RecvTimeout \/ Final \/ SendResponse \/ SendBody \/ Save
    BY Zenon, <2>6, <1>EarlyControl, <1>RecvControl, <1>RecvFailsControl, <1>RecvTimeoutControl, <1>FinalControl, <1>SendResponseControl,
       <1>SendBodyControl, <1>SaveControl
  <2> QED BY Zenon, <2>1, <2>2, <2>3, <2>4, <2>5, <2>6 DEF Next, Task

-----------------------------------------------------------------------------
(* Bodies as sequences of units *)

LEMMA EqualSeq ==
  ASSUME NEW s, NEW u, NEW m \in Nat, s \in Seq(Nat), u \in Seq(Nat), Len(s) = m, Len(u) = m,
         \A i \in 1..m : s[i] = u[i]
  PROVE  s = u
  OBVIOUS

\* Two consecutive parts of the body make one.
LEMMA UnitsCat ==
  ASSUME NEW a \in Nat, NEW x \in Nat, NEW r \in Nat
  PROVE  Units(a, x) \o Units(a + x, r) = Units(a, x + r)
<1> DEFINE s == Units(a, x)
           u == Units(a + x, r)
           v == Units(a, x + r)
<1>1. s \in Seq(Nat) /\ Len(s) = x /\ \A i \in 1..x : s[i] = a + i
  BY UnitsType
<1>0. a + x \in Nat
  OBVIOUS
<1>2. u \in Seq(Nat) /\ Len(u) = r /\ \A i \in 1..r : u[i] = (a + x) + i
  BY Zenon, <1>0, UnitsType
<1>3. v \in Seq(Nat) /\ Len(v) = x + r /\ \A i \in 1..(x + r) : v[i] = a + i
  BY UnitsType
<1> HIDE DEF s, u, v
<1>4. s \o u \in Seq(Nat) /\ Len(s \o u) = x + r
  BY Zenon, <1>1, <1>2, ConcatIs
<1>5. ASSUME NEW i \in 1..(x + r) PROVE (s \o u)[i] = v[i]
  <2>1. (s \o u)[i] = IF i <= Len(s) THEN s[i] ELSE u[i - Len(s)]
    BY Zenon, <1>1, <1>2, <1>4, ConcatIs
  <2>2. CASE i <= x
    BY <1>1, <1>3, <2>1, <2>2
  <2>3. CASE ~(i <= x)
    <3>1. i - x \in 1..r
      BY <2>3
    <3>2. u[i - x] = (a + x) + (i - x)
      BY <1>2, <3>1
    <3> QED BY <1>1, <1>3, <2>1, <2>3, <3>2
  <2> QED BY Zenon, <2>2, <2>3
<1>6. x + r \in Nat
  OBVIOUS
<1>7. s \o u = v
  BY Zenon, <1>3, <1>4, <1>5, <1>6, EqualSeq
<1> QED BY <1>7 DEF s, u, v

\* The first k units of a part of the body
LEMMA UnitsFront ==
  ASSUME NEW a \in Nat, NEW m \in Nat, NEW k \in Nat, k <= m
  PROVE  SubSeq(Units(a, m), 1, k) = Units(a, k)
<1> DEFINE s == Units(a, m)
           u == Units(a, k)
<1>1. s \in Seq(Nat) /\ Len(s) = m /\ \A i \in 1..m : s[i] = a + i
  BY UnitsType
<1>2. u \in Seq(Nat) /\ Len(u) = k /\ \A i \in 1..k : u[i] = a + i
  BY UnitsType
<1> HIDE DEF s, u
<1>3. SubSeq(s, 1, k) \in Seq(Nat) /\ Len(SubSeq(s, 1, k)) = k /\ \A i \in 1..k : SubSeq(s, 1, k)[i] = s[i]
  BY <1>1
<1>4. SubSeq(s, 1, k) = u
  BY <1>1, <1>2, <1>3, EqualSeq
<1> QED BY <1>4 DEF s, u

\* What follows the first k units
LEMMA UnitsBack ==
  ASSUME NEW a \in Nat, NEW m \in Nat, NEW k \in Nat, k <= m
  PROVE  SubSeq(Units(a, m), k + 1, m) = Units(a + k, m - k)
<1> DEFINE s == Units(a, m)
           u == Units(a + k, m - k)
           v == SubSeq(s, k + 1, m)
<1>1. s \in Seq(Nat) /\ Len(s) = m /\ \A i \in 1..m : s[i] = a + i
  BY UnitsType
<1>2. a + k \in Nat /\ m - k \in Nat
  OBVIOUS
<1>3. u \in Seq(Nat) /\ Len(u) = m - k /\ \A i \in 1..(m - k) : u[i] = (a + k) + i
  BY <1>2, UnitsType
<1> HIDE DEF s, u
<1>4. v \in Seq(Nat) /\ Len(v) = m - k /\ \A i \in 1..(m - k) : v[i] = s[k + i]
  <2>1. Len(v) = m - k
    BY <1>1
  <2>2. v \in Seq(Nat)
    BY <1>1
  <2>3. \A i \in 1..(m - k) : v[i] = s[k + i]
    BY <1>1
  <2> QED BY <2>1, <2>2, <2>3
<1>5. ASSUME NEW i \in 1..(m - k) PROVE v[i] = u[i]
  <2>1. k + i \in 1..m
    OBVIOUS
  <2> QED BY <1>1, <1>3, <1>4, <2>1
<1> HIDE DEF v
<1>6. v = u
  BY <1>2, <1>3, <1>4, <1>5, EqualSeq
<1> QED BY <1>6 DEF s, u, v

\* A poll of a copy that moves r units in and k out keeps the body in order.
LEMMA UnitsMove ==
  ASSUME NEW g \in Seq(Nat), NEW u \in Seq(Nat), NEW a \in Nat, NEW r \in Nat, NEW k \in Nat,
         Split(g, u, a), k <= Len(u) + r
  PROVE  LET f == u \o Units(a, r)
             h == g \o SubSeq(f, 1, k)
             v == SubSeq(f, k + 1, Len(f))
         IN Split(h, v, a + r) /\ Len(h) \in Nat /\ Len(v) \in Nat
<1> DEFINE x == Len(g)
           y == Len(u)
<1>1. x \in Nat /\ y \in Nat /\ x + y = a /\ k <= y + r
  BY DEF Split
<1>2. g = Units(0, x) /\ u = Units(x, y)
  BY Zenon DEF Split, Intact
<1> HIDE DEF x, y
<1> DEFINE m == y + r
<1>3. m \in Nat /\ k <= m /\ m - k \in Nat /\ x + k \in Nat
  BY <1>1
<1>4. u \o Units(a, r) = Units(x, m)
  <2>1. Units(x, y) \o Units(x + y, r) = Units(x, y + r)
    <3>1. x \in Nat /\ y \in Nat
      BY Zenon, <1>1
    <3> QED BY Zenon, <3>1, UnitsCat
  <2> QED BY Zenon, <1>1, <1>2, <2>1
<1>5. (x + k) + (m - k) = a + r
  BY <1>1
<1> HIDE DEF m
<1>6. Len(Units(x, m)) = m
  BY Zenon, <1>1, <1>3, UnitsType
<1>7. SubSeq(Units(x, m), 1, k) = Units(x, k)
  BY Zenon, <1>1, <1>3, UnitsFront
<1>8. SubSeq(Units(x, m), k + 1, m) = Units(x + k, m - k)
  <2>1. x \in Nat
    BY <1>1
  <2>2. m \in Nat /\ k <= m
    BY <1>3
  <2> QED BY Zenon, <2>1, <2>2, UnitsBack
<1>9. Units(0, x) \o Units(x, k) = Units(0, x + k)
  <2>1. Units(0, x) \o Units(0 + x, k) = Units(0, x + k)
    <3>1. x \in Nat /\ 0 \in Nat
      BY <1>1
    <3> QED BY Zenon, <3>1, UnitsCat
  <2>2. 0 + x = x
    BY <1>1
  <2> QED BY Zenon, <2>1, <2>2
<1>10. Len(Units(0, x + k)) = x + k /\ Len(Units(x + k, m - k)) = m - k
  BY Zenon, <1>3, UnitsType
<1>11. g \o SubSeq(u \o Units(a, r), 1, k) = Units(0, x + k)
  BY Zenon, <1>2, <1>4, <1>7, <1>9
<1>12. SubSeq(u \o Units(a, r), k + 1, Len(u \o Units(a, r))) = Units(x + k, m - k)
  BY Zenon, <1>4, <1>6, <1>8
<1> QED BY Zenon, <1>3, <1>5, <1>10, <1>11, <1>12 DEF Split, Intact

\* Before anything is sent
LEMMA SplitNew ==
  ASSUME NEW u, NEW a \in Nat, u = Units(0, a)
  PROVE  Split(<<>>, u, a)
<1>1. Len(<<>>) = 0 /\ 0 + a = a /\ 0 \in Nat
  OBVIOUS
<1>2. Units(0, 0) = <<>>
  BY DEF Units
<1>3. Len(Units(0, a)) = a
  BY Zenon, <1>1, UnitsType
<1> QED BY Zenon, <1>1, <1>2, <1>3 DEF Split, Intact

-----------------------------------------------------------------------------
(* The types *)

LEMMA EmptyBody ==
  <<>> \in Seq(Nat) /\ <<>> \in Seq({"100", "103"})
  OBVIOUS

\* What a step of the copy or of the adapter works on
LEMMA TargetIs ==
  ASSUME Bounds, TaskType, ConnType
  PROVE  ConnAfterTarget
<1> USE DEF ConnAfterTarget
<1>1. Asked(Requested(<<>>), <<>>)
  BY Zenon, EmptyBody, AskedIs
<1>2. CASE b.sent
  BY Zenon, <1>1, <1>2 DEF ConnType, Asked, IsConn
<1>3. CASE ~b.sent
  BY Zenon, <1>1, <1>3 DEF Asked, IsConn
<1> QED BY Zenon, <1>2, <1>3

\* No step takes a unit that the client has not sent.
LEMMA BodyTypeStep ==
  ASSUME Bounds
  PROVE  TaskType /\ BodyType /\ ConnType /\ [Next]_vars => BodyType'
<1>TakenMore.
  ASSUME BodyType, NEW r \in 0..Ready, UNCHANGED <<clt, req>>, b' \in Bodies, b'.taken = b.taken + r
  PROVE  BodyType'
  <2> USE <1>TakenMore
  <2>1. clt.sent \in Nat /\ b.taken \in Nat /\ Ready \in Nat /\ Ready <= clt.sent - b.taken
    BY ReadyIs DEF Bounds, BodyType, Bodies
  <2>2. b'.taken <= clt'.sent
    BY <2>1
  <2> QED BY Zenon, <2>2 DEF BodyType
<1> QED
  <2> SUFFICES ASSUME TaskType, BodyType, ConnType, [Next]_vars
               PROVE  BodyType'
    OBVIOUS
  <2>1. CASE ClientSends
    <3>1. clt.sent < req.body /\ clt' = [clt EXCEPT !.sent = @ + 1] /\ UNCHANGED <<b, req>>
      BY Zenon, <2>1 DEF ClientSends
    <3>2. req.body \in 0..BodyLen
      BY DEF TaskType, Requests
    <3>3. clt' \in [sent : 0..BodyLen, open : BOOLEAN] /\ clt'.sent = clt.sent + 1
      BY <3>1, <3>2 DEF Bounds, BodyType
    <3>4. b.taken <= clt.sent + 1 /\ clt.sent + 1 <= req.body
      BY <3>1, <3>2 DEF Bounds, BodyType, Bodies
    <3> QED BY Zenon, <3>1, <3>3, <3>4 DEF BodyType
  <2>2. CASE ClientLeaves
    <3>1. clt' = [clt EXCEPT !.open = FALSE] /\ UNCHANGED <<b, req>>
      BY Zenon, <2>2 DEF ClientLeaves
    <3>2. clt' \in [sent : 0..BodyLen, open : BOOLEAN] /\ clt'.sent = clt.sent
      BY Zenon, <3>1 DEF BodyType
    <3> QED BY Zenon, <3>1, <3>2 DEF BodyType
  <2>3. CASE Start
    <3>1. b' \in Bodies /\ b'.taken = 0 /\ clt'.sent = 0 /\ clt' \in [sent : 0..BodyLen, open : BOOLEAN]
      BY Zenon, <2>3, StartBody DEF BodyAfterStart, IsBody
    <3>2. req'.body \in 0..BodyLen
      BY <2>3 DEF Start, Requests
    <3>3. b'.taken <= clt'.sent /\ clt'.sent <= req'.body
      BY <3>1, <3>2 DEF Bounds
    <3> QED BY Zenon, <3>1, <3>3 DEF BodyType
  <2>4. CASE Run
    <3>1. b' \in Bodies /\ b'.taken = b.taken /\ UNCHANGED <<clt, req>>
      BY Zenon, <2>4, RunBody DEF BodyAfterRun, IsBody, Run
    <3> QED BY Zenon, <3>1 DEF BodyType
  <2>5. CASE Send
    <3>0. UNCHANGED <<clt, req>>
      BY Zenon, <2>5 DEF Send
    <3>1. UNCHANGED b \/ (b' \in Bodies /\ b'.taken = b.taken + Found)
      <4>1. UNCHANGED b \/ \E all \in BOOLEAN : BodyAfterSent(all)
        BY Zenon, <2>5, SendTask, SentBody DEF TaskAfterSend
      <4> QED BY Zenon, <4>1 DEF BodyAfterSent, IsBody
    <3>2. b.taken <= clt.sent /\ b.taken + Found <= clt.sent
      BY FoundIs DEF FoundFits, Bounds, BodyType, Bodies
    <3> QED BY Zenon, <3>0, <3>1, <3>2 DEF BodyType
  <2>6. CASE SendHead
    <3>1. b' \in Bodies /\ b'.taken = b.taken /\ UNCHANGED <<clt, req>>
      BY Zenon, <2>6, HeadBody DEF IsBody, SendHead, BodyType
    <3> QED BY Zenon, <3>1 DEF BodyType
  <2>7. CASE Copy
    <3>1. PICK r \in 0..Ready, k \in 0..BodyLen, fin \in BOOLEAN : Moves(conn, r, k, fin)
      BY Zenon, <2>7 DEF Copy
    <3>2. b' \in Bodies /\ b'.taken = b.taken + r /\ UNCHANGED <<clt, req>>
      BY Zenon, <2>7, <3>1, MovesIs DEF IsBody, ConnType, Copy
    <3> QED BY Zenon, <3>2, <1>TakenMore
  <2>8. CASE Adapt
    <3> DEFINE c == IF b.sent THEN conn ELSE Requested(<<>>)
    <3>0. c \in Conns /\ UNCHANGED <<clt, req>>
      BY Zenon, <2>8, TargetIs DEF ConnAfterTarget, Adapt
    <3>1. CASE \E r \in 0..Ready, k \in 0..BodyLen, fin \in BOOLEAN : Moves(c, r, k, fin)
      <4> HIDE DEF c
      <4>1. PICK r \in 0..Ready, k \in 0..BodyLen, fin \in BOOLEAN : Moves(c, r, k, fin)
        BY Zenon, <3>1
      <4>2. b' \in Bodies /\ b'.taken = b.taken + r
        BY Zenon, <3>0, <4>1, MovesIs DEF IsBody
      <4> QED BY Zenon, <3>0, <4>2, <1>TakenMore
    <3>2. CASE \E r \in 1..Ready : b' = [b EXCEPT !.taken = @ + r, !.left = @ - r, !.read_size = @ + r,
                                                  !.buf = @ \o Units(b.taken, r)]
      <4>1. PICK r \in 1..Ready : b' = [b EXCEPT !.taken = @ + r, !.left = @ - r, !.read_size = @ + r,
                                                 !.buf = @ \o Units(b.taken, r)]
        BY Zenon, <3>2
      <4>2. b' \in Bodies /\ b'.taken = b.taken + r
        BY Zenon, <4>1, HeldBackIs DEF IsBody
      <4>3. r \in 0..Ready
        BY ReadyIs
      <4> QED BY Zenon, <3>0, <4>2, <4>3, <1>TakenMore
    <3> QED BY Zenon, <2>8, <3>1, <3>2 DEF Adapt
  <2>9. CASE UNCHANGED <<b, clt, req>>
    BY Zenon, <2>9 DEF BodyType
  <2>10. CASE Environment
    BY Zenon, <2>1, <2>2, <2>9, <2>10 DEF Environment, UpsAnswers, UpsGivesUp, UpsContinues, UpsCloses
  <2>11. CASE Policy \/ GetAlive \/ Connect \/ ConnectFails \/ Fail \/ SendAll \/ CopyFails \/ UpsReady
    BY Zenon, <2>9, <2>11 DEF Policy, GetAlive, Connect, ConnectFails, Fail, SendAll, CopyFails, UpsReady
  <2>12. CASE AdaptEnds \/ AdaptAnswers \/ AdaptFails \/ Early \/ Recv \/ RecvFails \/ RecvTimeout \/ Final
    BY Zenon, <2>9, <2>12 DEF AdaptEnds, AdaptAnswers, AdaptFails, Early, Recv, RecvFails, RecvTimeout, Final, PassOn,
       FinalEarly, Respond
  <2>13. CASE SendResponse \/ SendBody \/ Save \/ Poller \/ Stopped \/ UNCHANGED vars
    BY Zenon, <2>9, <2>13 DEF SendResponse, SendBody, Save, Poller, PollerCloses, PollerAnswers, Stopped, vars
  <2> QED BY Zenon, <2>3, <2>4, <2>5, <2>6, <2>7, <2>8, <2>10, <2>11, <2>12, <2>13 DEF Next, Task

LEMMA ConnTypeStep ==
  ASSUME Bounds
  PROVE  TaskType /\ BodyType /\ ConnType /\ [Next]_vars => ConnType'
<1>RespondConn.
  ASSUME ConnType, Headed, Took
  PROVE  conn' \in Conns /\ conn.in[1] \in Responses
    BY Zenon, <1>RespondConn, TookIs DEF Headed, Holds, IsConn
<1> QED
  <2> SUFFICES ASSUME TaskType, BodyType, ConnType, [Next]_vars
               PROVE  ConnType'
    OBVIOUS
  <2>1. CASE UpsAnswers
    BY Zenon, <2>1, AnswersIs DEF ConnAfterAnswers, Talked, IsConn, ConnType, UpsAnswers
  <2>2. CASE UpsGivesUp \/ UpsCloses \/ UpsContinues
    BY Zenon, <2>2, GivesUpIs, ClosesIs, ContinuesIs DEF ConnAfterGivesUp, ConnAfterContinues, Holds, IsConn, ConnType, UpsGivesUp, UpsCloses
  <2>3. CASE GetAlive \/ Poller \/ ConnectFails \/ Fail \/ Save
    <3>1. conn' = NoConn => conn' \in Conns
      BY Zenon, GoneIs DEF Gone, IsConn
    <3>2. ASSUME NEW a \in {"none", "task", "saved"}, conn' = [conn EXCEPT !.at = a] PROVE conn' \in Conns
      BY Zenon, <3>2, AtPlaceIs DEF IsConn
    <3> QED BY Zenon, <2>3, <3>1, <3>2 DEF GetAlive, Poller, PollerCloses, PollerAnswers, ConnectFails, Fail, Save, ConnType
  <2>4. CASE Connect
    BY Zenon, <2>4, FreshIs DEF Connect, IsConn, ConnType
  <2>5. CASE SendAll
    <3>1. b.fast \in Seq(Nat)
      BY DEF BodyType, Bodies
    <3> QED BY Zenon, <2>5, <3>1, AskedIs DEF SendAll, Asked, IsConn, ConnType
  <2>6. CASE SendHead
    BY Zenon, <2>6, EmptyBody, AskedIs DEF SendHead, Asked, IsConn, ConnType
  <2>7. CASE Copy
    BY Zenon, <2>7, MovesIs DEF Copy, IsConn, ConnType
  <2>8. CASE Adapt
    <3> DEFINE c == IF b.sent THEN conn ELSE Requested(<<>>)
    <3>0. c \in Conns
      BY Zenon, TargetIs DEF ConnAfterTarget
    <3>1. (\E r \in 0..Ready, k \in 0..BodyLen, fin \in BOOLEAN : Moves(c, r, k, fin)) \/ UNCHANGED conn
      BY Zenon, <2>8 DEF Adapt
    <3> HIDE DEF c
    <3> QED BY Zenon, <2>8, <3>0, <3>1, MovesIs DEF Adapt, IsConn, ConnType
  <2>9. CASE AdaptEnds
    BY Zenon, <2>9, EndsIs DEF ConnAfterEnds, AdaptEnds, IsConn, ConnType
  <2>10. CASE Early \/ Recv \/ Final
    BY Zenon, <2>10, <1>RespondConn DEF Early, Recv, Final, PassOn, FinalEarly, Respond, ConnType
  <2>11. CASE UNCHANGED <<conn, rsp>>
    BY Zenon, <2>11 DEF ConnType
  <2>12. CASE ClientSends \/ ClientLeaves \/ Start \/ Policy \/ Run \/ Send \/ CopyFails \/ UpsReady \/ AdaptAnswers
    BY Zenon, <2>11, <2>12 DEF ClientSends, ClientLeaves, Start, Policy, Run, Send, CopyFails, UpsReady, AdaptAnswers
  <2>13. CASE AdaptFails \/ RecvFails \/ RecvTimeout \/ SendResponse \/ SendBody \/ Stopped \/ UNCHANGED vars
    BY Zenon, <2>11, <2>13 DEF AdaptFails, RecvFails, RecvTimeout, SendResponse, SendBody, Stopped, vars
  <2> QED BY Zenon, <2>1, <2>2, <2>3, <2>4, <2>5, <2>6, <2>7, <2>8, <2>9, <2>10, <2>12, <2>13 DEF Next, Task, Environment

-----------------------------------------------------------------------------
(* The shape of an attempt *)

LEMMA FailsFree ==
  ASSUME NEW e, BodyFails(e, FALSE)
  PROVE  t'.pc = "fail" /\ Fails(e, FALSE)
  BY Zenon DEF BodyFails, Fails, Is

\* The client and the upstream do not change the task.
LEMMA EnvSame ==
  ASSUME Bounds, TaskType, BodyType, ConnType, Environment
  PROVE  KeptByEnv
<1> USE DEF KeptByEnv
<1>1. UNCHANGED <<n, req, t, b, replied, refused>> /\ (~clt.open => UNCHANGED clt)
  BY Zenon DEF Environment, ClientSends, ClientLeaves, UpsAnswers, UpsGivesUp, UpsContinues, UpsCloses
<1>2. CASE ClientSends \/ ClientLeaves
  BY Zenon, <1>1, <1>2 DEF ClientSends, ClientLeaves
<1>3. CASE UpsAnswers
  BY Zenon, <1>1, <1>3, AnswersIs DEF ConnAfterAnswers, Talked, IsConn
<1>4. CASE UpsGivesUp \/ UpsCloses \/ UpsContinues
  BY Zenon, <1>1, <1>4, GivesUpIs, ClosesIs, ContinuesIs DEF ConnAfterGivesUp, ConnAfterContinues, Holds, IsConn
<1> QED BY Zenon, <1>2, <1>3, <1>4 DEF Environment

LEMMA TookSame ==
  ASSUME ConnType, Headed, Took
  PROVE  conn'.at = conn.at /\ conn'.got = conn.got /\ conn'.need = conn.need
  BY Zenon, TookIs DEF Headed, Holds, IsConn

\* What was read ahead fits the place of the task.
LEMMA ShapeStep ==
  ASSUME Bounds
  PROVE  Control /\ BodyType /\ ConnType /\ ShapeInv /\ GotInv /\ [Next]_vars => ShapeInv'
<1>ShapeFree.
  ASSUME t'.pc \in {"final", "last", "respond", "body", "save", "fail", "done"}
  PROVE  ShapeInv'
    BY <1>ShapeFree DEF ShapeInv
<1>ShapeBegins.
  ASSUME t'.pc \in {"policy", "alive", "recv_conn", "new"}, ~t'.adapt
  PROVE  ShapeInv'
    BY <1>ShapeBegins DEF ShapeInv
\* renew is reached with what read_all_now has found.
<1>RenewShape.
  ASSUME ShapeInv, t.pc \in {"all", "head", "copy", "adapt", "early", "recv"}, NEW e, NEW r, BodyFails(e, r),
         UNCHANGED <<req, b>>
  PROVE  ShapeInv'
  <2> USE <1>RenewShape
  <2>1. CASE t'.pc = "fail"
    BY Zenon, <2>1, <1>ShapeFree
  <2>2. CASE b.fast # <<>> /\ t'.pc = "renew" /\ t'.adapt = t.adapt
    BY <2>2 DEF ShapeInv
  <2> QED BY Zenon, <2>1, <2>2 DEF BodyFails, Fails, AtAgain, Is
<1>SameShape.
  ASSUME ShapeInv, UNCHANGED <<t, req, b>>, conn'.got = conn.got, conn'.need = conn.need
  PROVE  ShapeInv'
    BY Zenon, <1>SameShape DEF ShapeInv
<1>PollerShape.
  ASSUME Control, ConnType, ShapeInv, GotInv, PollerAnswers
  PROVE  ShapeInv'
  <2> USE <1>PollerShape
  <2>1. t.pc = "recv_conn" /\ TaskType /\ conn.at = "saved"
    BY DEF PollerAnswers, Control, PlaceInv
  <2>4. ~t.adapt
    BY <2>1 DEF ShapeInv
  <2>2. CASE t'.pc = "new" /\ t'.adapt = t.adapt
    BY Zenon, <2>2, <2>4, <1>ShapeBegins
  <2>3. CASE t'.pc = "run" /\ t'.adapt = t.adapt /\ conn' = [conn EXCEPT !.at = "task"]
    <3>1. conn'.got = conn.got /\ conn'.need = conn.need
      BY Zenon, <2>3, AtPlaceIs DEF IsConn
    <3>2. Len(conn.got) = conn.need
      BY Zenon, <2>1 DEF GotInv
    <3> QED BY <2>3, <2>4, <3>1, <3>2 DEF ShapeInv
  <2> QED BY Zenon, <2>1, <2>2, <2>3, PollerTask DEF TaskAfterPoller, Is
<1>ConnectShape.
  ASSUME TaskType, ShapeInv, Connect
  PROVE  ShapeInv'
  <2> USE <1>ConnectShape
  <2>1. t.pc \in {"new", "renew"} /\ UNCHANGED <<b, req>>
    BY Zenon DEF Connect
  <2>2. conn'.got = <<>> /\ conn'.need = 0
    BY Zenon, FreshIs DEF Connect, IsConn
  <2>3. Len(conn'.got) = conn'.need
    BY <2>2
  <2> QED BY Zenon, <2>1, <2>3, ConnectTask DEF TaskAfterConnect, Is, ShapeInv
<1>RunShape.
  ASSUME TaskType, BodyType, ShapeInv, Run
  PROVE  ShapeInv'
  <2> USE <1>RunShape
  <2>1. t.pc = "run" /\ UNCHANGED <<req, conn>>
    BY Zenon DEF Run
  <2>2. b'.fast = <<>> /\ b'.whole = FALSE /\ b'.sent = FALSE /\ b'.left = req.body /\ (b'.finished <=> req.body = 0)
    BY Zenon, RunBody DEF BodyAfterRun, IsBody
  <2>4. ~t.adapt
    BY <2>1 DEF ShapeInv
  <2>3. t'.pc \in {"send", "adapt", "fail"} /\ (t'.pc = "adapt" => t'.adapt) /\ (t'.pc = "send" => ~t'.adapt)
    BY Zenon, <2>4, RunTask DEF TaskAfterRun, At, AtAgain, Fails, Is
  <2> QED BY <2>1, <2>2, <2>3 DEF ShapeInv
<1>SendShape.
  ASSUME TaskType, BodyType, ShapeInv, Send
  PROVE  ShapeInv'
  <2> USE <1>SendShape
  <2>1. t.pc = "send" /\ UNCHANGED <<req, conn>>
    BY Zenon DEF Send
  <2>2. CASE (req.body = 0 \/ req.expect) /\ At("head") /\ UNCHANGED b
    BY <2>1, <2>2 DEF At, Is, ShapeInv
  <2>3. ASSUME NEW all \in BOOLEAN, ~(req.body = 0 \/ req.expect), TakesFound(all), t'.adapt = t.adapt,
               t'.pc = "fail" \/ (all /\ t'.pc = "all") \/ (~all /\ t'.pc = "head")
        PROVE  ShapeInv'
    <3>1. (b'.finished <=> all) /\ (b'.whole <=> all) /\ b'.left = b.left - Found
      BY Zenon, <2>3, SentBody DEF BodyAfterSent, IsBody
    <3>2. all => b'.left = 0
      BY <2>3, <3>1, FoundIs DEF FoundFits, TakesFound, BodyType, Bodies
    <3> QED BY <2>1, <2>3, <3>1, <3>2 DEF ShapeInv
  <2>4. \/ (req.body = 0 \/ req.expect) /\ At("head") /\ UNCHANGED b
        \/ \E all \in BOOLEAN :
             /\ ~(req.body = 0 \/ req.expect) /\ TakesFound(all) /\ t'.adapt = t.adapt
             /\ t'.pc = "fail" \/ (all /\ t'.pc = "all") \/ (~all /\ t'.pc = "head")
    BY Zenon, SendTask DEF TaskAfterSend, At, Fails, Is
  <2> QED BY Zenon, <2>2, <2>3, <2>4
<1>SendAllShape.
  ASSUME TaskType, ShapeInv, SendAll
  PROVE  ShapeInv'
  <2> USE <1>SendAllShape
  <2>1. t.pc = "all" /\ UNCHANGED <<req, b>>
    BY Zenon DEF SendAll
  <2>2. CASE t'.pc = "recv" /\ t'.adapt = t.adapt
    BY <2>1, <2>2 DEF ShapeInv
  <2>3. CASE BodyFails("ups", TRUE)
    BY Zenon, <2>1, <2>3, <1>RenewShape
  <2> QED BY Zenon, <2>2, <2>3, SendAllTask DEF TaskAfterSendAll, AtAgain, Is
<1>SendHeadShape.
  ASSUME TaskType, BodyType, ShapeInv, SendHead
  PROVE  ShapeInv'
  <2> USE <1>SendHeadShape
  <2>1. t.pc = "head" /\ UNCHANGED req /\ b.whole \in BOOLEAN /\ req.body \in Nat
    BY DEF Bounds, SendHead, BodyType, Bodies, TaskType, Requests
  <2>2. CASE /\ conn' = Requested(<<>>) /\ b' = [b EXCEPT !.buf = b.fast, !.read_size = 0]
             /\ \/ req.body = 0 /\ AtAgain("recv", TRUE)
                \/ req.body # 0 /\ AtAgain("copy", FALSE)
    <3>1. b'.fast = b.fast /\ b'.whole = b.whole /\ b'.finished = b.finished /\ b'.left = b.left
      BY Zenon, <2>2, HeadBody DEF IsBody
    <3>2. ~t.adapt
      BY <2>1 DEF ShapeInv
    <3> QED BY <2>1, <2>2, <3>1, <3>2 DEF AtAgain, Is, ShapeInv
  <2>3. CASE ~conn.open /\ BodyFails("ups", TRUE) /\ UNCHANGED <<conn, b>>
    BY Zenon, <2>1, <2>3, <1>RenewShape
  <2> QED BY Zenon, <2>2, <2>3, SendHeadTask DEF TaskAfterSendHead
\* A poll that moves units keeps the end of the body and the end of the reader together.
<1>MovedShape.
  ASSUME BodyType, ShapeInv, t.pc \in {"copy", "adapt"}, UNCHANGED <<t, req>>, b'.fast = b.fast, b'.whole = b.whole,
         b'.sent, b'.finished => b'.left = 0
  PROVE  ShapeInv'
    BY <1>MovedShape DEF ShapeInv
<1>CopyShape.
  ASSUME TaskType, BodyType, ConnType, ShapeInv, Copy
  PROVE  ShapeInv'
  <2> USE <1>CopyShape
  <2>1. t.pc = "copy" /\ UNCHANGED req
    BY Zenon DEF Copy
  <2>2. CASE t'.pc = "final"
    BY Zenon, <2>2, <1>ShapeFree
  <2>3. CASE t' = t
    <3>1. PICK r \in 0..Ready, k \in 0..BodyLen, fin \in BOOLEAN : Moves(conn, r, k, fin)
      BY Zenon DEF Copy
    <3>2. /\ b'.left = b.left - r /\ b'.finished = fin /\ b'.fast = b.fast /\ b'.sent = TRUE /\ b'.whole = b.whole
          /\ fin => r = b.left
      BY Zenon, <3>1, MovesIs DEF IsBody, ConnType
    <3>3. b'.finished => b'.left = 0
      BY <3>2 DEF BodyType, Bodies
    <3> QED BY Zenon, <2>1, <2>3, <3>2, <3>3, <1>MovedShape
  <2> QED BY Zenon, <2>2, <2>3, CopyTask DEF At, Is
<1>UpsReadyShape.
  ASSUME TaskType, ShapeInv, UpsReady
  PROVE  ShapeInv'
  <2> USE <1>UpsReadyShape
  <2>1. t.pc \in {"copy", "adapt"} /\ UNCHANGED <<req, b, conn>>
    BY Zenon DEF UpsReady
  <2>2. CASE At("early")
    BY <2>1, <2>2 DEF At, Is, ShapeInv
  <2>3. CASE \E r \in BOOLEAN : BodyFails("ups", r)
    BY Zenon, <2>1, <2>3, <1>RenewShape
  <2> QED BY Zenon, <2>2, <2>3, UpsReadyTask DEF TaskAfterUpsReady
<1>AdaptShape.
  ASSUME TaskType, BodyType, ConnType, ShapeInv, Adapt
  PROVE  ShapeInv'
  <2> USE <1>AdaptShape
  <2> DEFINE c == IF b.sent THEN conn ELSE Requested(<<>>)
  <2>1. t.pc = "adapt" /\ UNCHANGED <<t, req>> /\ c \in Conns
    BY Zenon, TargetIs DEF ConnAfterTarget, Adapt
  <2>2. CASE \E r \in 0..Ready, k \in 0..BodyLen, fin \in BOOLEAN : Moves(c, r, k, fin)
    <3> HIDE DEF c
    <3>1. PICK r \in 0..Ready, k \in 0..BodyLen, fin \in BOOLEAN : Moves(c, r, k, fin)
      BY Zenon, <2>2
    <3>2. /\ b'.left = b.left - r /\ b'.finished = fin /\ b'.fast = b.fast /\ b'.sent = TRUE /\ b'.whole = b.whole
          /\ fin => r = b.left
      BY Zenon, <2>1, <3>1, MovesIs DEF IsBody
    <3>3. b'.finished => b'.left = 0
      BY <3>2 DEF BodyType, Bodies
    <3> QED BY Zenon, <2>1, <3>2, <3>3, <1>MovedShape
  <2>3. CASE /\ \E r \in 1..Ready : b' = [b EXCEPT !.taken = @ + r, !.left = @ - r, !.read_size = @ + r,
                                                   !.buf = @ \o Units(b.taken, r)]
             /\ UNCHANGED conn
    <3>1. PICK r \in 1..Ready : b' = [b EXCEPT !.taken = @ + r, !.left = @ - r, !.read_size = @ + r,
                                               !.buf = @ \o Units(b.taken, r)]
      BY Zenon, <2>3
    <3>2. b'.left = b.left - r /\ b'.finished = b.finished /\ b'.fast = b.fast /\ b'.sent = b.sent /\ b'.whole = b.whole
      BY Zenon, <3>1, HeldBackIs DEF IsBody
    <3>3. b.finished => b.left = 0
      BY <2>1 DEF ShapeInv
    <3>4. ~b'.finished
      BY <3>2, <3>3, ReadyIs DEF BodyType, Bodies
    <3> QED BY <2>1, <2>3, <3>2, <3>4 DEF ShapeInv
  <2> QED BY Zenon, <2>2, <2>3 DEF Adapt
<1>EarlyShape.
  ASSUME TaskType, ConnType, ShapeInv, Early
  PROVE  ShapeInv'
  <2> USE <1>EarlyShape
  <2>1. t.pc = "early"
    BY Zenon DEF Early
  <2>2. ASSUME NEW p \in {"adapt", "copy"}, Headed, PassOn(p), p = "adapt" <=> t.adapt
        PROVE  ShapeInv'
    <3>1. p \in Places /\ UNCHANGED <<req, b>> /\ conn'.got = conn.got /\ conn'.need = conn.need
      BY Zenon, <2>2, TookIs DEF Places, PassOn, Headed, Holds, IsConn
    <3>2. CASE At(p)
      <4>1. t'.pc = p /\ t'.adapt = t.adapt /\ t'.retry = t.retry
        BY Zenon, <3>2 DEF At, Is
      <4>2. CASE p = "adapt"
        BY SMTT(60), <2>1, <2>2, <3>1, <4>1, <4>2 DEF ShapeInv
      <4>3. CASE p = "copy"
        <5>1. ~t.adapt
          BY <2>2, <4>3
        <5> QED BY <2>1, <3>1, <4>1, <4>3, <5>1 DEF ShapeInv
      <4> QED BY <4>2, <4>3
    <3>3. CASE BodyFails("clt", FALSE)
      BY Zenon, <3>3, FailsFree, <1>ShapeFree
    <3> QED BY Zenon, <2>2, <3>1, <3>2, <3>3, PassOnTask
  <2>3. CASE BodyFails("ups", FALSE)
    BY Zenon, <2>3, FailsFree, <1>ShapeFree
  <2>4. CASE FinalEarly
    BY Zenon, <2>4, FinalEarlyTask, <1>ShapeFree DEF TaskAfterFinalEarly, Is
  <2>5. "adapt" # "copy"
    OBVIOUS
  <2> QED BY Zenon, <2>2, <2>3, <2>4, <2>5, EarlyTask DEF TaskAfterEarly
<1>BeginShape.
  ASSUME Control, ConnType, BodyType, ShapeInv, Start \/ Policy \/ GetAlive \/ PollerCloses
  PROVE  ShapeInv'
  <2> USE <1>BeginShape
  <2>0. TaskType
    BY Zenon DEF Control
  <2>1. CASE Start
    BY Zenon, <2>0, <2>1, StartTask, <1>ShapeBegins DEF Is
  <2>2. CASE Policy
    <3>1. ~t.adapt
      BY <2>2 DEF Policy, ShapeInv
    <3> QED BY Zenon, <2>0, <2>2, <3>1, PolicyTask, <1>ShapeBegins, <1>ShapeFree DEF TaskAfterPolicy, At, AtWith, Is
  <2>3. CASE GetAlive
    <3>1. ~t.adapt
      BY <2>3 DEF GetAlive, ShapeInv
    <3> QED BY Zenon, <2>0, <2>3, <3>1, GetAliveTask, <1>ShapeBegins DEF TaskAfterGetAlive, At, Is
  <2>4. CASE PollerCloses
    <3>1. conn.at = "saved" /\ UNCHANGED <<t, req, b>>
      BY Zenon, <2>4 DEF PollerCloses
    <3>2. t.pc \notin {"run", "adapt", "early"}
      BY <3>1 DEF Control, PlaceInv, Using
    <3> QED BY <3>1, <3>2 DEF ShapeInv
  <2> QED BY Zenon, <2>1, <2>2, <2>3, <2>4
<1>EndShape.
  ASSUME TaskType, ConnType, ShapeInv,
         \/ ConnectFails \/ Fail \/ CopyFails \/ AdaptEnds \/ AdaptAnswers \/ AdaptFails
         \/ Recv \/ RecvFails \/ RecvTimeout \/ Final \/ SendResponse \/ SendBody \/ Save
  PROVE  ShapeInv'
  <2> USE <1>EndShape
  <2>1. CASE ConnectFails
    BY Zenon, <2>1, ConnectFailsTask, <1>ShapeFree DEF TaskAfterConnectFails, Is
  <2>2. CASE Fail
    BY Zenon, <2>2, FailTask, <1>ShapeFree, <1>ShapeBegins DEF TaskAfterFail, AtWith, Is
  <2>3. CASE CopyFails
    BY Zenon, <2>3, CopyFailsTask, FailsFree, <1>ShapeFree
  <2>4. CASE AdaptEnds
    BY Zenon, <2>4, AdaptEndsTask, <1>ShapeFree DEF At, Is
  <2>5. CASE AdaptAnswers
    BY Zenon, <2>5, AdaptAnswersTask, <1>ShapeFree DEF AtWith, FailsWith, Is
  <2>6. CASE AdaptFails
    BY Zenon, <2>6, AdaptFailsTask, <1>ShapeFree DEF Fails, Is
  <2>7. CASE Recv
    BY Zenon, <2>7, RecvTask, <1>ShapeFree DEF AtAgain, Is
  <2>8. CASE RecvFails
    BY Zenon, <2>8, RecvFailsTask, <1>RenewShape DEF RecvFails
  <2>9. CASE RecvTimeout
    BY Zenon, <2>9, TimeoutTask, FailsFree, <1>ShapeFree
  <2>10. CASE Final
    <3>1. "last" \in Places /\ "final" \in Places
      BY Zenon DEF Places
    <3> QED BY Zenon, <2>10, <3>1, FinalTask, PassOnTask, FailsFree, <1>ShapeFree DEF TaskAfterFinal, At, Is
  <2>11. CASE SendResponse
    BY Zenon, <2>11, SendResponseTask, <1>ShapeFree DEF TaskAfterSendResponse, AtWith, FailsWith, Is
  <2>12. CASE SendBody
    BY Zenon, <2>12, SendBodyTask, <1>ShapeFree DEF At, Fails, Is
  <2>13. CASE Save
    BY Zenon, <2>13, SaveTask, <1>ShapeFree DEF At, Is
  <2> QED BY Zenon, <2>1, <2>2, <2>3, <2>4, <2>5, <2>6, <2>7, <2>8, <2>9, <2>10, <2>11, <2>12, <2>13
<1> QED
  <2> SUFFICES ASSUME Control, BodyType, ConnType, ShapeInv, GotInv, [Next]_vars
               PROVE  ShapeInv'
    OBVIOUS
  <2>0. TaskType
    BY Zenon DEF Control
  <2>1. CASE Environment
    BY Zenon, <2>0, <2>1, EnvSame, <1>SameShape DEF KeptByEnv
  <2>2. CASE UNCHANGED vars \/ Stopped
    BY Zenon, <2>2 DEF Stopped, vars, ShapeInv
  <2>3. CASE Start \/ Policy \/ GetAlive \/ PollerCloses
    BY Zenon, <2>3, <1>BeginShape
  <2>4. CASE PollerAnswers \/ Connect \/ Run \/ Send \/ SendAll \/ SendHead
    BY Zenon, <2>0, <2>4, <1>PollerShape, <1>ConnectShape, <1>RunShape, <1>SendShape, <1>SendAllShape, <1>SendHeadShape
  <2>5. CASE Copy \/ UpsReady \/ Adapt \/ Early
    BY Zenon, <2>0, <2>5, <1>CopyShape, <1>UpsReadyShape, <1>AdaptShape, <1>EarlyShape
  <2>6. CASE \/ ConnectFails \/ Fail \/ CopyFails \/ AdaptEnds \/ AdaptAnswers \/ AdaptFails
             \/ Recv \/ RecvFails \/ RecvTimeout \/ Final \/ SendResponse \/ SendBody \/ Save
    BY Zenon, <2>0, <2>6, <1>EndShape
  <2> QED BY Zenon, <2>1, <2>2, <2>3, <2>4, <2>5, <2>6 DEF Next, Task, Poller

-----------------------------------------------------------------------------
(* The body *)

LEMMA FastEmpty ==
  ASSUME BodyType, b.fast = Units(0, b.taken)
  PROVE  Len(b.fast) = b.taken /\ (b.fast = <<>> => b.taken = 0)
<1>1. b.taken \in Nat
  BY DEF BodyType, Bodies
<1>2. 0 \in Nat /\ Len(<<>>) = 0
  OBVIOUS
<1>3. Len(Units(0, b.taken)) = b.taken
  BY Zenon, <1>1, <1>2, UnitsType
<1> QED BY Zenon, <1>2, <1>3

LEMMA UnitsNone ==
  Units(0, 0) = <<>>
  BY DEF Units

\* A poll of the copy or of the adapter, from a connection c
LEMMA MovedBody ==
  ASSUME Bounds, BodyType, NEW c \in Conns, NEW r \in 0..Ready, NEW k \in 0..BodyLen, NEW fin \in BOOLEAN, Moves(c, r, k, fin),
         UNCHANGED req, c.need = req.body, b.left + b.taken = req.body, Split(c.got, b.buf, b.taken)
  PROVE  /\ Passed' /\ b'.left + b'.taken = req.body
         /\ CopyDone' => b'.taken = req.body /\ Len(conn'.got) = conn'.need
<1>1. /\ b'.taken = b.taken + r /\ b'.left = b.left - r /\ b'.finished = fin
      /\ b'.buf = SubSeq(Filled(r), k + 1, Len(Filled(r)))
      /\ conn'.got = c.got \o SubSeq(Filled(r), 1, k) /\ conn'.need = c.need
      /\ k <= Len(Filled(r)) /\ (fin => r = b.left)
  BY Zenon, MovesIs DEF IsBody, IsConn
<1>2. c.got \in Seq(Nat) /\ b.buf \in Seq(Nat) /\ b.taken \in Nat /\ b.left \in Nat /\ k \in Nat
  BY DEF Bounds, Conns, BodyType, Bodies
<1>3. r \in Nat /\ Len(Filled(r)) = Len(b.buf) + r
  BY Zenon, FilledIs
<1>4. k <= Len(b.buf) + r
  BY Zenon, <1>1, <1>3
<1>5. Split(conn'.got, b'.buf, b'.taken) /\ Len(conn'.got) \in Nat /\ Len(b'.buf) \in Nat
  <2> DEFINE f == b.buf \o Units(b.taken, r)
             h == c.got \o SubSeq(f, 1, k)
             v == SubSeq(f, k + 1, Len(f))
  <2>1. Split(h, v, b.taken + r) /\ Len(h) \in Nat /\ Len(v) \in Nat
    BY Zenon, <1>2, <1>3, <1>4, UnitsMove
  <2>2. conn'.got = h /\ b'.buf = v
    BY Zenon, <1>1 DEF Filled
  <2> HIDE DEF f, h, v
  <2> QED BY Zenon, <1>1, <2>1, <2>2
<1>6. b'.left + b'.taken = req.body
  <2>1. b'.taken = b.taken + r /\ b'.left = b.left - r
    BY Zenon, <1>1
  <2> QED BY <1>2, <1>3, <2>1
<1>7. Passed'
  BY Zenon, <1>1, <1>5 DEF Passed
<1>8. ASSUME CopyDone' PROVE b'.taken = req.body /\ Len(conn'.got) = conn'.need
  <2>1. b'.buf = <<>> /\ fin /\ b'.taken = b.taken + r /\ r = b.left /\ conn'.need = req.body
    BY Zenon, <1>1, <1>8 DEF CopyDone
  <2>2. Len(<<>>) = 0
    OBVIOUS
  <2>3. Len(conn'.got) + 0 = b'.taken
    BY Zenon, <1>5, <2>1, <2>2 DEF Split
  <2> QED BY <1>2, <1>5, <2>1, <2>3
<1> QED BY Zenon, <1>6, <1>7, <1>8

\* A poll of the copy keeps the body intact.
LEMMA CopyBody ==
  ASSUME Bounds, TaskType, BodyType, ConnType, BodyInv, Copy
  PROVE  BodyInv' /\ (refused \/ Intact(conn.got)')
<1>1. t.pc = "copy" /\ UNCHANGED <<req, clt, refused>>
  BY Zenon DEF Copy
<1>2. CASE Normal
  <2>1. PICK r \in 0..Ready, k \in 0..BodyLen, fin \in BOOLEAN : Moves(conn, r, k, fin)
    BY Zenon DEF Copy
  <2>2. /\ Passed /\ b.read_size <= b.taken /\ b.fast = Units(0, b.taken - b.read_size)
        /\ b.left + b.taken = req.body
    BY <1>1, <1>2 DEF Normal
  <2>3. /\ Passed' /\ b'.left + b'.taken = req.body
        /\ CopyDone' => b'.taken = req.body /\ Len(conn'.got) = conn'.need
    BY Zenon, <1>1, <2>1, <2>2, MovedBody DEF ConnType, Passed
  <2>4. b'.taken = b.taken + r /\ b'.read_size = b.read_size + r /\ b'.fast = b.fast
    BY Zenon, <2>1, MovesIs DEF IsBody, ConnType
  <2>5. b.taken \in Nat /\ b.read_size \in Nat /\ r \in Nat
    BY ReadyIs DEF BodyType, Bodies
  <2>6. b'.read_size <= b'.taken /\ b'.taken - b'.read_size = b.taken - b.read_size
    BY <2>2, <2>4, <2>5
  <2>7. b'.fast = Units(0, b'.taken - b'.read_size)
    BY Zenon, <2>2, <2>4, <2>6
  <2>8. CASE t' = t
    <3>1. Normal'
      BY <1>1, <2>3, <2>6, <2>7, <2>8 DEF Normal
    <3> QED BY Zenon, <2>3, <3>1 DEF BodyInv, Passed, Split
  <2>9. CASE CopyDone' /\ t'.pc = "final"
    <3>1. Normal'
      BY <1>1, <2>3, <2>9 DEF Normal
    <3> QED BY Zenon, <2>3, <3>1 DEF BodyInv, Passed, Split
  <2> QED BY Zenon, <2>8, <2>9, CopyTask DEF At, Is
<1>3. CASE Stuck
  BY <1>1, <1>3 DEF Stuck
<1> QED BY Zenon, <1>1, <1>2, <1>3 DEF BodyInv

\* A poll of the adapter keeps the body intact.
LEMMA AdaptBody ==
  ASSUME Bounds
  PROVE  TaskType /\ BodyType /\ ConnType /\ BodyInv /\ Adapt => BodyInv' /\ (refused \/ Intact(conn.got)' \/ UNCHANGED conn)
\* The ICAP server has all of the body, or the upstream has the beginning of it.
<1>AdaptNormal.
  ASSUME TaskType, BodyType, ConnType, Normal, Adapt, ~refused
  PROVE  Normal' /\ (Intact(conn.got)' \/ UNCHANGED conn)
  \* The same when the units read stay in the buffer
  <2>UnitsHeld.
    ASSUME NEW g \in Seq(Nat), NEW u \in Seq(Nat), NEW a \in Nat, NEW r \in Nat, Split(g, u, a)
    PROVE  Split(g, u \o Units(a, r), a + r)
    <3> USE <2>UnitsHeld
    <3> DEFINE x == Len(g)
               y == Len(u)
               m == y + r
    <3>1. x \in Nat /\ y \in Nat /\ x + y = a
      BY DEF Split
    <3>2. m \in Nat /\ x + m = a + r
      BY SMTT(60), <3>1
    <3>3. u = Units(x, y)
      BY Zenon DEF Split
    <3> HIDE DEF x, y
    <3>4. u \o Units(a, r) = Units(x, m)
      <4>1. Units(x, y) \o Units(x + y, r) = Units(x, y + r)
        <5>1. x \in Nat /\ y \in Nat
          BY Zenon, <3>1
        <5> QED BY Zenon, <5>1, UnitsCat
      <4> QED BY Zenon, <3>1, <3>3, <4>1
    <3> HIDE DEF m
    <3>5. Len(Units(x, m)) = m
      BY Zenon, <3>1, <3>2, UnitsType
    <3>6. Len(u \o Units(a, r)) = m /\ Intact(g)
      BY Zenon, <3>4, <3>5 DEF Split
    <3> QED BY Zenon, <3>2, <3>4, <3>6 DEF Split, x
  <2> USE <1>AdaptNormal
  <2> DEFINE c == IF b.sent THEN conn ELSE Requested(<<>>)
  <2>1. t.pc = "adapt" /\ UNCHANGED <<t, req>> /\ c \in Conns /\ b.taken \in Nat /\ b.left \in Nat /\ b.buf \in Seq(Nat)
    <3>1. b.taken \in Nat /\ b.left \in Nat /\ b.buf \in Seq(Nat)
      BY DEF Bounds, BodyType, Bodies
    <3> QED BY Zenon, <3>1, TargetIs DEF ConnAfterTarget, Adapt
  <2>2. b.left + b.taken = req.body /\ b.read_size = b.taken /\ (IF b.sent THEN Passed ELSE b.buf = Units(0, b.taken))
    BY <2>1 DEF Normal
  <2>3. CASE \E r \in 0..Ready, k \in 0..BodyLen, fin \in BOOLEAN : Moves(c, r, k, fin)
    <3>1. c.need = req.body /\ Split(c.got, b.buf, b.taken)
      <4>1. CASE b.sent
        BY Zenon, <2>2, <4>1 DEF Passed
      <4>2. CASE ~b.sent
        <5>1. c.need = req.body /\ c.got = <<>>
          BY Zenon, <4>2, TargetIs DEF ConnAfterTarget, IsConn
        <5> HIDE DEF c
        <5> QED BY Zenon, <2>1, <2>2, <4>2, <5>1, SplitNew
      <4> QED BY Zenon, <4>1, <4>2
    <3> HIDE DEF c
    <3>2. PICK r \in 0..Ready, k \in 0..BodyLen, fin \in BOOLEAN : Moves(c, r, k, fin)
      BY Zenon, <2>3
    <3>3. Passed' /\ b'.left + b'.taken = req.body
      BY Zenon, <2>1, <2>2, <3>1, <3>2, MovedBody
    <3>4. b'.taken = b.taken + r /\ b'.read_size = b.read_size + r /\ b'.sent = TRUE
      BY Zenon, <2>1, <3>2, MovesIs DEF IsBody
    <3>5. b'.read_size = b'.taken
      BY Zenon, <2>2, <3>4
    <3>6. Normal'
      BY <2>1, <3>3, <3>4, <3>5 DEF Normal
    <3> QED BY Zenon, <3>3, <3>6 DEF Passed, Split
  <2>4. CASE /\ \E r \in 1..Ready : b' = [b EXCEPT !.taken = @ + r, !.left = @ - r, !.read_size = @ + r,
                                                   !.buf = @ \o Units(b.taken, r)]
             /\ UNCHANGED conn
    <3>1. PICK r \in 1..Ready : b' = [b EXCEPT !.taken = @ + r, !.left = @ - r, !.read_size = @ + r,
                                               !.buf = @ \o Units(b.taken, r)]
      BY Zenon, <2>4
    <3>2. b'.taken = b.taken + r /\ b'.left = b.left - r /\ b'.read_size = b.read_size + r /\ b'.buf = b.buf \o Units(b.taken, r)
          /\ b'.sent = b.sent
      BY Zenon, <3>1, HeldBackIs DEF IsBody, Filled
    <3>3. r \in Nat /\ r <= b.left
      BY <2>1, ReadyIs
    <3>4. b'.read_size = b'.taken /\ b'.left + b'.taken = req.body
      BY <2>1, <2>2, <3>2, <3>3
    <3>5. CASE b.sent
      <4>1. Passed /\ conn.got \in Seq(Nat)
        BY <2>2, <3>5 DEF ConnType, Conns
      <4>2. Split(conn.got, b.buf \o Units(b.taken, r), b.taken + r)
        BY Zenon, <2>1, <3>3, <4>1, <2>UnitsHeld DEF Passed
      <4>3. Passed'
        BY Zenon, <2>1, <2>4, <3>2, <4>1, <4>2 DEF Passed
      <4>4. Normal'
        BY Zenon, <2>1, <3>2, <3>4, <3>5, <4>3 DEF Normal
      <4> QED BY Zenon, <2>4, <4>4
    <3>6. CASE ~b.sent
      <4>1. b.buf = Units(0, b.taken)
        BY Zenon, <2>2, <3>6
      <4>2. Units(0, b.taken) \o Units(0 + b.taken, r) = Units(0, b.taken + r)
        BY Zenon, <2>1, <3>3, UnitsCat
      <4>3. 0 + b.taken = b.taken
        BY <2>1
      <4>4. b'.buf = Units(0, b'.taken)
        BY Zenon, <3>2, <4>1, <4>2, <4>3
      <4>5. Normal'
        BY <2>1, <3>2, <3>4, <3>6, <4>4 DEF Normal
      <4> QED BY Zenon, <2>4, <4>5
    <3> QED BY Zenon, <3>5, <3>6
  <2> QED BY Zenon, <2>3, <2>4 DEF Adapt
<1>AdaptStuck.
  ASSUME TaskType, BodyType, ConnType, Stuck, Adapt
  PROVE  Stuck' /\ (Intact(conn.got)' \/ UNCHANGED conn)
  <2> USE <1>AdaptStuck
  <2> DEFINE c == IF b.sent THEN conn ELSE Requested(<<>>)
  <2>1. t.pc = "adapt" /\ UNCHANGED <<t, req, clt>> /\ c \in Conns
    BY Zenon, TargetIs DEF ConnAfterTarget, Adapt
  <2>2. /\ ~clt.open /\ b.taken = clt.sent /\ clt.sent < req.body /\ ~req.expect /\ t.adapt
        /\ b.buf = <<>> /\ b.fast = <<>> /\ ~b.finished /\ b.left = req.body /\ (b.sent => conn.got = <<>>)
    BY <2>1 DEF Stuck
  <2>3. Ready = 0 /\ req.body # 0 /\ b.taken \in Nat /\ b.left \in Nat
    BY <2>2, ReadyIs DEF Bounds, BodyType, Bodies, TaskType, Requests
  <2>4. c.got = <<>>
    BY Zenon, <2>2, TargetIs DEF ConnAfterTarget, IsConn
  <2>5. CASE \E r \in 0..Ready, k \in 0..BodyLen, fin \in BOOLEAN : Moves(c, r, k, fin)
    <3> HIDE DEF c
    <3>1. PICK r \in 0..Ready, k \in 0..BodyLen, fin \in BOOLEAN : Moves(c, r, k, fin)
      BY Zenon, <2>5
    <3>2. /\ b'.taken = b.taken + r /\ b'.left = b.left - r /\ b'.finished = fin /\ b'.fast = b.fast
          /\ b'.buf = SubSeq(Filled(r), k + 1, Len(Filled(r)))
          /\ conn'.got = c.got \o SubSeq(Filled(r), 1, k)
          /\ k <= Len(Filled(r)) /\ (fin => r = b.left)
      BY Zenon, <2>1, <3>1, MovesIs DEF IsBody, IsConn
    <3>3. r = 0 /\ ~fin
      BY <2>2, <2>3, <3>2
    <3>4. Filled(r) \in Seq(Nat) /\ Len(Filled(r)) = Len(b.buf) + r
      BY Zenon, FilledIs
    <3>5. Len(Filled(r)) = 0 /\ k = 0
      BY <2>2, <3>2, <3>3, <3>4
    <3>6. Filled(r) = <<>>
      BY <3>4, <3>5
    <3>7. b'.buf = <<>> /\ conn'.got = <<>>
      <4>1. SubSeq(<<>>, 0 + 1, 0) = <<>> /\ SubSeq(<<>>, 1, 0) = <<>> /\ <<>> \o <<>> = <<>>
        OBVIOUS
      <4> QED BY Zenon, <2>4, <3>2, <3>5, <3>6, <4>1
    <3>8. b'.taken = b.taken /\ b'.left = b.left
      BY <2>3, <3>2, <3>3
    <3>9. Stuck'
      BY Zenon, <2>1, <2>2, <3>2, <3>3, <3>7, <3>8 DEF Stuck
    <3>10. Intact(conn.got)'
      BY <3>7, UnitsNone DEF Intact
    <3> QED BY Zenon, <3>9, <3>10
  <2>6. ~\E r \in 1..Ready : TRUE
    BY <2>3
  <2> QED BY Zenon, <2>5, <2>6 DEF Adapt
<1> QED
  <2> SUFFICES ASSUME TaskType, BodyType, ConnType, BodyInv, Adapt
               PROVE  BodyInv' /\ (refused \/ Intact(conn.got)' \/ UNCHANGED conn)
    OBVIOUS
  <2>1. UNCHANGED refused
    BY Zenon DEF Adapt
  <2> QED BY Zenon, <2>1, <1>AdaptNormal, <1>AdaptStuck DEF BodyInv

\* What was taken of the body is accounted for at every place of the task, or is lost for good.
LEMMA BodyStep ==
  ASSUME Bounds
  PROVE  Control /\ BodyType /\ ConnType /\ ShapeInv /\ BodyInv /\ [Next]_vars => BodyInv'
<1>NormalDone.
  ASSUME t'.pc = "done"
  PROVE  Normal'
    BY <1>NormalDone DEF Normal
<1>NormalFail.
  ASSUME t'.pc = "fail", t'.scope = "reuse" /\ t'.retry => b'.taken = 0
  PROVE  Normal'
    BY <1>NormalFail DEF Normal
<1>NormalBegins.
  ASSUME t'.pc \in {"policy", "alive", "recv_conn", "new", "run"}, b'.taken = 0
  PROVE  Normal'
    BY <1>NormalBegins DEF Normal
<1>NormalAnswered.
  ASSUME t'.pc \in {"respond", "body", "save"},
         t'.should_close \/ t'.close_remote \/ Len(conn'.got) = conn'.need,
         t'.should_close \/ EagerIcap \/ b'.taken = req'.body
  PROVE  Normal'
    BY <1>NormalAnswered DEF Normal
<1>StuckFree.
  ASSUME Stuck, UNCHANGED <<clt, req>>, b'.taken = b.taken, t'.pc \in {"new", "run", "fail", "done"}
  PROVE  Stuck'
    BY <1>StuckFree DEF Stuck
<1>StuckAnswered.
  ASSUME Stuck, UNCHANGED <<clt, req, b>>, t'.pc \in {"respond", "body", "save"},
         t'.should_close \/ t'.close_remote \/ Len(conn'.got) = conn'.need,
         t'.should_close \/ EagerIcap
  PROVE  Stuck'
    BY <1>StuckAnswered DEF Stuck
<1>SameBody.
  ASSUME BodyInv, UNCHANGED <<t, req, b, refused>>, ~clt.open => UNCHANGED clt,
         conn'.got = conn.got, conn'.need = conn.need
  PROVE  BodyInv'
  <2> USE <1>SameBody
  <2>1. CASE Normal
    BY Zenon, <2>1 DEF BodyInv, Normal, Passed
  <2>2. CASE Stuck
    <3>1. UNCHANGED clt
      BY Zenon, <2>2 DEF Stuck
    <3> QED BY Zenon, <2>2, <3>1 DEF BodyInv, Stuck
  <2> QED BY Zenon, <2>1, <2>2 DEF BodyInv
<1>BeginBody.
  ASSUME Control, BodyType, ConnType, BodyInv,
         Start \/ Policy \/ GetAlive \/ PollerCloses \/ PollerAnswers \/ ConnectFails
  PROVE  BodyInv'
  <2> USE <1>BeginBody
  <2>0. TaskType
    BY Zenon DEF Control
  <2>1. CASE Start
    BY Zenon, <2>0, <2>1, StartTask, StartBody, <1>NormalBegins DEF BodyAfterStart, Is, IsBody, BodyInv
  <2>2. ASSUME t.pc \in {"policy", "alive", "recv_conn"}
        PROVE  b.taken = 0
    BY <2>2 DEF BodyInv, Normal, Stuck, Control, RetryInv
  <2>3. CASE Policy
    BY Zenon, <2>0, <2>2, <2>3, PolicyTask, <1>NormalBegins, <1>NormalDone DEF TaskAfterPolicy, Policy, At, AtWith, Is, BodyInv
  <2>4. CASE GetAlive
    BY Zenon, <2>0, <2>2, <2>4, GetAliveTask, <1>NormalBegins DEF TaskAfterGetAlive, GetAlive, At, Is, BodyInv
  <2>5. CASE PollerCloses
    <3>1. conn.at = "saved" /\ UNCHANGED <<t, req, b, clt, refused>>
      BY Zenon, <2>5 DEF PollerCloses
    <3>2. t.pc \notin Using
      BY Zenon, <3>1 DEF Control, PlaceInv
    <3>3. Normal => Normal'
      BY <3>1, <3>2 DEF Normal, Using
    <3>4. Stuck => Stuck'
      BY <3>1, <3>2 DEF Stuck, Using
    <3> QED BY Zenon, <3>1, <3>3, <3>4 DEF BodyInv
  <2>6. CASE PollerAnswers
    BY Zenon, <2>0, <2>2, <2>6, PollerTask, <1>NormalBegins DEF TaskAfterPoller, PollerAnswers, Is, BodyInv
  <2>7. CASE ConnectFails
    BY Zenon, <2>7 DEF ConnectFails, BodyInv
  <2> QED BY Zenon, <2>1, <2>3, <2>4, <2>5, <2>6, <2>7
<1>ConnectBody.
  ASSUME TaskType, BodyType, ShapeInv, BodyInv, Connect
  PROVE  BodyInv'
  <2> USE <1>ConnectBody
  <2>1. t.pc \in {"new", "renew"} /\ UNCHANGED <<b, req, clt, refused>>
    BY Zenon DEF Connect
  <2>2. t'.pc \in {"run", "all", "head"} /\ (t'.pc = "run" <=> t.pc = "new") /\ (t.pc = "renew" => (t'.pc = "all" <=> b.whole))
    BY Zenon, ConnectTask DEF TaskAfterConnect, Is
  <2>3. CASE Normal
    <3>1. Normal'
      BY <2>1, <2>2, <2>3 DEF Normal
    <3> QED BY Zenon, <3>1 DEF BodyInv
  <2>4. CASE Stuck
    <3>1. t'.pc = "run"
      BY <2>1, <2>2, <2>4 DEF Stuck
    <3> QED BY Zenon, <2>1, <2>4, <3>1, <1>StuckFree DEF BodyInv
  <2> QED BY Zenon, <2>1, <2>3, <2>4 DEF BodyInv
<1>RunBodyInv.
  ASSUME TaskType, BodyType, BodyInv, Run
  PROVE  BodyInv'
  <2> USE <1>RunBodyInv
  <2>1. t.pc = "run" /\ UNCHANGED <<req, clt, refused>> /\ req.body \in Nat
    BY DEF Bounds, Run, TaskType, Requests
  <2>2. /\ b'.taken = b.taken /\ b'.fast = <<>> /\ b'.buf = <<>> /\ b'.read_size = 0 /\ b'.sent = FALSE
        /\ b'.left = req.body /\ (b'.finished <=> req.body = 0)
    BY Zenon, RunBody DEF BodyAfterRun, IsBody
  <2>3. t'.pc \in {"send", "adapt", "fail"} /\ (t'.pc = "adapt" => t'.adapt)
    BY Zenon, RunTask DEF TaskAfterRun, At, AtAgain, Fails, Is
  <2>4. CASE Normal
    <3>1. b.taken = 0
      BY <2>1, <2>4 DEF Normal
    <3>2. Normal'
      BY <2>1, <2>2, <2>3, <3>1, UnitsNone DEF Normal
    <3> QED BY Zenon, <3>2 DEF BodyInv
  <2>5. CASE Stuck
    <3>1. req.body # 0
      BY <2>1, <2>5 DEF Stuck, BodyType
    <3>2. Stuck'
      BY <2>1, <2>2, <2>3, <2>5, <3>1 DEF Stuck
    <3> QED BY Zenon, <3>2 DEF BodyInv
  <2> QED BY Zenon, <2>1, <2>4, <2>5 DEF BodyInv
<1>FailBody.
  ASSUME TaskType, BodyInv, Fail
  PROVE  BodyInv'
  <2> USE <1>FailBody
  <2>1. t.pc = "fail" /\ UNCHANGED <<req, b, clt, refused>>
    BY Zenon DEF Fail
  <2>2. (t'.pc = "new" /\ t.scope = "reuse" /\ t.retry) \/ t'.pc = "done"
    BY Zenon, FailTask DEF TaskAfterFail, AtWith, Is
  <2>3. CASE Normal
    <3>1. t.scope = "reuse" /\ t.retry => b.taken = 0
      BY Zenon, <2>1, <2>3 DEF Normal
    <3> QED BY Zenon, <2>1, <2>2, <3>1, <1>NormalBegins, <1>NormalDone DEF BodyInv
  <2>4. CASE Stuck
    BY Zenon, <2>1, <2>2, <2>4, <1>StuckFree DEF BodyInv
  <2> QED BY Zenon, <2>1, <2>3, <2>4 DEF BodyInv
<1>SendBodyInv.
  ASSUME TaskType, BodyType, ShapeInv, BodyInv, Send
  PROVE  BodyInv'
  <2> USE <1>SendBodyInv
  <2>1. t.pc = "send" /\ UNCHANGED <<req, clt, refused>> /\ b.taken \in Nat /\ b.left \in Nat /\ clt.sent \in Nat
    BY DEF Bounds, Send, BodyType, Bodies
  <2>2. CASE (req.body = 0 \/ req.expect) /\ At("head") /\ UNCHANGED b
    <3>1. t'.pc = "head" /\ b.fast = <<>>
      BY SMTT(60), <2>1, <2>2 DEF At, Is, ShapeInv
    <3>2. CASE Normal
      <4>1. Normal'
        BY <2>1, <2>2, <3>1, <3>2, UnitsNone DEF Normal
      <4> QED BY Zenon, <4>1 DEF BodyInv
    <3>3. CASE Stuck
      BY <2>1, <2>2, <3>3 DEF Stuck, BodyType
    <3> QED BY Zenon, <2>1, <3>2, <3>3 DEF BodyInv
  <2>3. ASSUME NEW all \in BOOLEAN, ~(req.body = 0 \/ req.expect), TakesFound(all),
               \/ ~clt.open /\ Found < b.left /\ Found < BufSize /\ Fails("clt", t.retry)
               \/ ~(~clt.open /\ Found < b.left /\ Found < BufSize) /\ all /\ At("all")
               \/ ~(~clt.open /\ Found < b.left /\ Found < BufSize) /\ ~all /\ At("head")
        PROVE  BodyInv'
    <3>1. b'.taken = b.taken + Found /\ b'.left = b.left - Found /\ b'.fast = Units(b.taken, Found)
      BY Zenon, <2>3, SentBody DEF BodyAfterSent, IsBody
    <3>2. \/ ~clt.open /\ Found < b.left /\ Found < BufSize /\ t'.pc = "fail"
          \/ ~(~clt.open /\ Found < b.left /\ Found < BufSize) /\ all /\ t'.pc = "all"
          \/ ~(~clt.open /\ Found < b.left /\ Found < BufSize) /\ t'.pc = "head"
      BY Zenon, <2>3 DEF At, Fails, Is
    <3>3. CASE Normal
      <4>1. b.taken = 0 /\ b.left = req.body
        BY <2>1, <3>3 DEF Normal
      <4>2. b'.taken = Found /\ b'.fast = Units(0, b'.taken) /\ b'.left + b'.taken = req.body /\ (all => b'.taken = req.body)
        BY <2>1, <2>3, <3>1, <4>1, FoundIs DEF FoundFits, TakesFound
      <4>3. CASE t'.pc = "fail"
        <5>1. ~clt.open /\ Found < b.left /\ Found < BufSize
          BY <3>2, <4>3
        <5>2. b'.taken = clt.sent /\ clt.sent < req.body
          BY <2>1, <4>1, <4>2, <5>1, FoundIs DEF FoundFits
        <5>3. Stuck'
          BY SMTT(60), <2>1, <2>3, <4>3, <5>1, <5>2 DEF Stuck
        <5> QED BY Zenon, <5>3 DEF BodyInv
      <4>4. CASE t'.pc = "all" /\ all
        <5>1. Normal'
          BY <2>1, <4>2, <4>4 DEF Normal
        <5> QED BY Zenon, <5>1 DEF BodyInv
      <4>5. CASE t'.pc = "head"
        <5>1. Normal'
          BY <2>1, <4>2, <4>5 DEF Normal
        <5> QED BY Zenon, <5>1 DEF BodyInv
      <4> QED BY Zenon, <3>2, <4>3, <4>4, <4>5
    <3>4. CASE Stuck
      <4>1. b.left = req.body /\ b.taken = clt.sent /\ clt.sent < req.body /\ ~clt.open
        BY <2>1, <3>4 DEF Stuck
      <4>2. Found = 0 /\ Found < b.left /\ Found < BufSize
        BY <2>1, <4>1, FoundIs DEF FoundFits, Bounds
      <4>3. t'.pc = "fail" /\ b'.taken = b.taken
        BY <2>1, <3>1, <3>2, <4>1, <4>2
      <4> QED BY Zenon, <2>1, <3>4, <4>3, <1>StuckFree DEF BodyInv
    <3> QED BY Zenon, <2>1, <3>3, <3>4 DEF BodyInv
  <2> QED BY Zenon, <2>2, <2>3, SendTask DEF TaskAfterSend
\* A request that is sent again is what was read of it.
<1>RenewBody.
  ASSUME BodyType, ShapeInv, Normal, t.pc \in {"all", "head", "recv"}, NEW e, NEW r, BodyFails(e, r), UNCHANGED <<req, b>>
  PROVE  Normal'
  <2> USE <1>RenewBody
  <2>1. b.fast = Units(0, b.taken)
    BY DEF Normal
  <2>2. CASE t'.pc = "fail" /\ (b.fast = <<>> \/ t'.retry = FALSE)
    BY Zenon, <2>1, <2>2, FastEmpty, <1>NormalFail
  <2>3. CASE t'.pc = "renew"
    BY <2>3 DEF Normal, ShapeInv
  <2> QED BY Zenon, <2>2, <2>3 DEF BodyFails, Fails, AtAgain, Is
<1>SendAllBody.
  ASSUME TaskType, BodyType, ConnType, ShapeInv, BodyInv, SendAll
  PROVE  BodyInv'
  <2> USE <1>SendAllBody
  <2>1. t.pc = "all" /\ UNCHANGED <<req, b, clt, refused>> /\ b.fast \in Seq(Nat)
    BY DEF SendAll, BodyType, Bodies
  <2>2. CASE Normal
    <3>1. CASE conn' = Requested(b.fast) /\ AtAgain("recv", TRUE)
      <4>1. conn'.got = b.fast /\ conn'.need = req.body
        BY Zenon, <2>1, <3>1, AskedIs DEF Asked, IsConn
      <4>2. t'.pc = "recv"
        BY Zenon, <3>1 DEF AtAgain, Is
      <4>3. Normal'
        BY <2>1, <2>2, <4>1, <4>2 DEF Normal
      <4> QED BY Zenon, <4>3 DEF BodyInv
    <3>2. CASE BodyFails("ups", TRUE)
      BY Zenon, <2>1, <2>2, <3>2, <1>RenewBody DEF BodyInv
    <3> QED BY Zenon, <3>1, <3>2, SendAllTask DEF TaskAfterSendAll
  <2>3. CASE Stuck
    BY <2>1, <2>3 DEF Stuck
  <2> QED BY Zenon, <2>1, <2>2, <2>3 DEF BodyInv
<1>SendHeadBody.
  ASSUME TaskType, BodyType, ConnType, ShapeInv, BodyInv, SendHead
  PROVE  BodyInv'
  <2> USE <1>SendHeadBody
  <2>1. t.pc = "head" /\ UNCHANGED <<req, clt, refused>> /\ req.body \in Nat /\ b.taken \in Nat /\ b.left \in Nat
    BY DEF Bounds, SendHead, BodyType, Bodies, TaskType, Requests
  <2>2. CASE Normal
    <3>1. CASE /\ conn' = Requested(<<>>) /\ b' = [b EXCEPT !.buf = b.fast, !.read_size = 0]
               /\ \/ req.body = 0 /\ AtAgain("recv", TRUE)
                  \/ req.body # 0 /\ AtAgain("copy", FALSE)
      <4>1. conn'.got = <<>> /\ conn'.need = req.body
        BY Zenon, <3>1, EmptyBody, AskedIs DEF Asked, IsConn
      <4>2. b'.taken = b.taken /\ b'.left = b.left /\ b'.fast = b.fast /\ b'.buf = b.fast /\ b'.read_size = 0
        BY Zenon, <3>1, HeadBody DEF IsBody
      <4>3. b.fast = Units(0, b.taken) /\ b.left + b.taken = req.body
        BY <2>1, <2>2 DEF Normal
      <4>4. Len(b.fast) = b.taken
        BY Zenon, <4>3, FastEmpty
      <4>5. CASE req.body = 0 /\ t'.pc = "recv"
        <5>1. b.taken = 0 /\ b.fast = <<>>
          BY <2>1, <4>3, <4>5, UnitsNone
        <5>2. Normal'
          BY <2>1, <4>1, <4>2, <4>3, <4>5, <5>1 DEF Normal
        <5> QED BY Zenon, <5>2 DEF BodyInv
      <4>6. CASE t'.pc = "copy"
        <5>1. Split(<<>>, b.fast, b.taken)
          BY Zenon, <2>1, <4>3, SplitNew
        <5>2. Passed'
          BY Zenon, <2>1, <4>1, <4>2, <5>1 DEF Passed
        <5>3. b'.read_size <= b'.taken /\ b'.fast = Units(0, b'.taken - b'.read_size) /\ b'.left + b'.taken = req'.body
          BY <2>1, <4>2, <4>3
        <5>4. Normal'
          BY <4>6, <5>2, <5>3 DEF Normal
        <5> QED BY Zenon, <5>4 DEF BodyInv
      <4> QED BY Zenon, <3>1, <4>5, <4>6 DEF AtAgain, Is
    <3>2. CASE ~conn.open /\ BodyFails("ups", TRUE) /\ UNCHANGED <<conn, b>>
      BY Zenon, <2>1, <2>2, <3>2, <1>RenewBody DEF BodyInv
    <3> QED BY Zenon, <3>1, <3>2, SendHeadTask DEF TaskAfterSendHead
  <2>3. CASE Stuck
    BY <2>1, <2>3 DEF Stuck
  <2> QED BY Zenon, <2>1, <2>2, <2>3 DEF BodyInv
\* A failure that is not to be retried
<1>FailedBody.
  ASSUME BodyInv, t'.pc = "fail", t'.scope = "fresh" \/ ~t'.retry, UNCHANGED <<req, b, clt, refused>>
  PROVE  BodyInv'
  <2> USE <1>FailedBody
  <2>1. "fresh" # "reuse"
    OBVIOUS
  <2>2. Normal'
    BY Zenon, <2>1, <1>NormalFail
  <2> QED BY Zenon, <2>2 DEF BodyInv
<1>UpsReadyBody.
  ASSUME Control, BodyType, ShapeInv, BodyInv, UpsReady
  PROVE  BodyInv'
  <2> USE <1>UpsReadyBody
  <2>1. t.pc \in {"copy", "adapt"} /\ UNCHANGED <<req, b, clt, conn, refused>> /\ TaskType
    BY Zenon DEF UpsReady, Control
  <2>2. CASE At("early")
    <3>1. t'.pc = "early" /\ t'.adapt = t.adapt
      BY Zenon, <2>2 DEF At, Is
    <3>2. (t.pc = "copy" => ~t.adapt) /\ (t.pc = "adapt" => t.adapt)
      BY DEF ShapeInv
    <3>3. Normal => Normal'
      BY Zenon, <2>1, <3>1, <3>2 DEF Normal, Passed
    <3>4. Stuck => Stuck'
      BY <2>1, <3>1, <3>2 DEF Stuck
    <3> QED BY Zenon, <2>1, <3>3, <3>4 DEF BodyInv
  <2>3. ASSUME NEW r \in BOOLEAN, r <=> t.retry \/ b.read_size = 0, BodyFails("ups", r)
        PROVE  BodyInv'
    <3>1. t.scope = "fresh" \/ ~t.retry
      BY <2>1 DEF Control, RetryInv
    <3>2. b.taken \in Nat /\ b.read_size \in Nat
      BY DEF BodyType, Bodies
    <3>3. CASE t'.pc = "fail" /\ t'.retry = FALSE
      BY Zenon, <2>1, <3>3, <1>FailedBody
    <3>4. CASE t'.pc = "fail" /\ t'.retry = r /\ t'.scope = t.scope /\ b.fast = <<>>
      <4>1. CASE Stuck
        BY Zenon, <2>1, <3>4, <4>1, <1>StuckFree DEF BodyInv
      <4>2. CASE Normal /\ ~(t'.scope = "fresh" \/ ~t'.retry)
        <5>1. b.read_size = 0
          BY <2>3, <3>1, <3>4, <4>2
        <5>2. CASE t.pc = "adapt"
          <6>1. b.taken = 0
            BY SMTT(60), <4>2, <5>1, <5>2 DEF Normal
          <6> QED BY Zenon, <2>1, <3>4, <6>1, <1>NormalFail DEF BodyInv
        <5>3. CASE t.pc = "copy"
          <6>1. b.fast = Units(0, b.taken - b.read_size)
            BY <4>2, <5>3 DEF Normal
          <6>2. b.taken - b.read_size = b.taken
            BY <3>2, <5>1
          <6>3. b.taken = 0
            BY Zenon, <3>4, <6>1, <6>2, FastEmpty
          <6> QED BY Zenon, <2>1, <3>4, <6>3, <1>NormalFail DEF BodyInv
        <5> QED BY Zenon, <2>1, <5>2, <5>3
      <4> QED BY Zenon, <2>1, <3>4, <4>1, <4>2, <1>FailedBody DEF BodyInv
    <3>5. CASE t'.pc = "renew" /\ b.fast # <<>> /\ r
      <4>1. t.pc = "copy" /\ ~t.retry /\ ~b.whole
        BY <2>1, <3>5 DEF ShapeInv
      <4>2. b.read_size = 0
        BY <2>3, <3>5, <4>1
      <4>3. CASE Normal
        <5>1. b.fast = Units(0, b.taken - b.read_size) /\ b.left + b.taken = req.body
          BY <4>1, <4>3 DEF Normal
        <5>2. b.taken - b.read_size = b.taken
          BY <3>2, <4>2
        <5>3. b.fast = Units(0, b.taken)
          BY Zenon, <5>1, <5>2
        <5>4. Normal'
          BY <2>1, <3>5, <4>1, <5>1, <5>3 DEF Normal
        <5> QED BY Zenon, <5>4 DEF BodyInv
      <4>4. CASE Stuck
        BY <4>1, <4>4 DEF Stuck
      <4> QED BY Zenon, <2>1, <4>3, <4>4 DEF BodyInv
    <3> QED BY Zenon, <2>3, <3>3, <3>4, <3>5 DEF BodyFails, Fails, AtAgain, Is
  <2> QED BY Zenon, <2>1, <2>2, <2>3, UpsReadyTask DEF TaskAfterUpsReady
<1>AdaptEndsBody.
  ASSUME TaskType, BodyType, ConnType, ShapeInv, BodyInv, AdaptEnds
  PROVE  BodyInv'
  <2> USE <1>AdaptEndsBody
  <2>1. t.pc = "adapt" /\ (CopyDone \/ EagerIcap) /\ UNCHANGED <<req, b, clt, refused>>
    BY Zenon DEF AdaptEnds
  <2>2. t'.pc = "final" /\ Len(conn'.got) = conn'.need
    BY Zenon, AdaptEndsTask, EndsIs DEF ConnAfterEnds, At, Is, IsConn
  <2>3. CASE Normal
    <3>1. b.finished => b.left = 0
      BY <2>1 DEF ShapeInv
    <3>2. b.left + b.taken = req.body /\ b.taken \in Nat
      BY <2>1, <2>3 DEF Normal, BodyType, Bodies
    <3>3. EagerIcap \/ b.taken = req.body
      BY <2>1, <3>1, <3>2 DEF CopyDone
    <3>4. Normal'
      BY <2>1, <2>2, <3>3 DEF Normal
    <3> QED BY Zenon, <3>4 DEF BodyInv
  <2>4. CASE Stuck
    <3>1. EagerIcap
      BY <2>1, <2>4 DEF Stuck, CopyDone
    <3>2. Stuck'
      BY <2>1, <2>2, <2>4, <3>1 DEF Stuck
    <3> QED BY Zenon, <3>2 DEF BodyInv
  <2> QED BY Zenon, <2>1, <2>3, <2>4 DEF BodyInv
<1>AdaptFailsBody.
  ASSUME Control, BodyType, BodyInv, AdaptFails
  PROVE  BodyInv'
  <2> USE <1>AdaptFailsBody
  <2>1. t.pc = "adapt" /\ UNCHANGED <<req, b, clt, refused>> /\ TaskType
    BY Zenon DEF AdaptFails, Control
  <2>2. PICK e \in Errors, r \in BOOLEAN : (r => b.read_size = 0 \/ t.retry) /\ Fails(e, r)
    BY Zenon, <2>1, AdaptFailsTask
  <2>3. t'.pc = "fail" /\ t'.retry = r /\ t'.scope = t.scope
    BY Zenon, <2>2 DEF Fails, Is
  <2>4. t.scope = "fresh" \/ ~t.retry
    BY <2>1 DEF Control, RetryInv
  <2>5. CASE Normal /\ ~(t'.scope = "fresh" \/ ~t'.retry)
    <3>1. b.taken = 0
      BY <2>1, <2>2, <2>3, <2>4, <2>5 DEF Normal
    <3> QED BY Zenon, <2>1, <2>3, <3>1, <1>NormalFail DEF BodyInv
  <2>6. CASE Stuck
    BY Zenon, <2>1, <2>3, <2>6, <1>StuckFree DEF BodyInv
  <2> QED BY Zenon, <2>1, <2>3, <2>5, <2>6, <1>FailedBody DEF BodyInv
<1>PassOnBody.
  ASSUME ConnType, TaskType, BodyInv, Headed, NEW p, PassOn(p),
         \/ t.pc = "early" /\ t.adapt /\ p = "adapt"
         \/ t.pc = "early" /\ ~t.adapt /\ p = "copy"
         \/ t.pc = "final" /\ p \in {"last", "final"}
  PROVE  BodyInv'
  <2> USE <1>PassOnBody
  <2>2. UNCHANGED <<req, b, clt, refused>> /\ conn'.got = conn.got /\ conn'.need = conn.need /\ p \in Places
    BY Zenon, TookSame DEF PassOn, Places
  <2>3. CASE At(p)
    <3>1. t'.pc = p /\ t'.adapt = t.adapt
      BY Zenon, <2>3 DEF At, Is
    <3>2. Passed => Passed'
      BY Zenon, <2>2 DEF Passed
    <3>3. Normal => Normal'
      BY <2>2, <3>1, <3>2 DEF Normal
    <3>4. Stuck => Stuck'
      BY <2>2, <3>1 DEF Stuck
    <3> QED BY Zenon, <2>2, <3>3, <3>4 DEF BodyInv
  <2>4. CASE BodyFails("clt", FALSE)
    BY Zenon, <2>2, <2>4, FailsFree, <1>FailedBody DEF Fails, Is
  <2> QED BY Zenon, <2>2, <2>3, <2>4, PassOnTask
<1>EarlyBody.
  ASSUME TaskType, BodyType, ConnType, ShapeInv, BodyInv, Early
  PROVE  BodyInv'
  <2>FinalEarlyBody.
    ASSUME TaskType, BodyType, ConnType, ShapeInv, BodyInv, t.pc = "early", Headed, FinalEarly
    PROVE  BodyInv'
    <3> USE <2>FinalEarlyBody
    <3>1. UNCHANGED <<req, b, clt, refused>> /\ conn'.got = conn.got /\ conn'.need = conn.need
      BY Zenon, TookSame DEF FinalEarly, Respond
    <3>2. /\ t'.pc = "respond" /\ (t'.should_close <=> t.should_close \/ ~b.finished)
          /\ t'.close_remote <=> ~CopyDone
      BY Zenon, FinalEarlyTask DEF TaskAfterFinalEarly, Is
    <3>3. CASE Normal /\ b.finished
      <4>1. b.left = 0 /\ b.left + b.taken = req.body /\ b.taken \in Nat
        BY <3>3 DEF ShapeInv, Normal, BodyType, Bodies
      <4>2. b.taken = req.body
        BY <4>1
      <4>3. CopyDone => Len(conn.got) = conn.need
        <5>1. ASSUME Passed, CopyDone PROVE Len(conn.got) = conn.need
          <6>1. Len(conn.got) + Len(b.buf) = b.taken /\ conn.need = req.body /\ b.buf = <<>>
            BY Zenon, <5>1 DEF Passed, Split, CopyDone
          <6>2. Len(conn.got) \in Nat
            BY SMTT(60) DEF ConnType, Conns
          <6> QED BY <4>2, <6>1, <6>2
        <5>2. Passed \/ Len(conn.got) = conn.need
          BY <3>3 DEF Normal, ShapeInv
        <5> QED BY Zenon, <5>1, <5>2
      <4>4. t'.should_close \/ t'.close_remote \/ Len(conn'.got) = conn'.need
        BY Zenon, <3>1, <3>2, <4>3
      <4> QED BY Zenon, <3>1, <3>2, <4>2, <4>4, <1>NormalAnswered DEF BodyInv
    <3>4. CASE ~b.finished
      BY Zenon, <3>2, <3>4, <1>NormalAnswered DEF BodyInv
    <3>5. CASE Stuck
      BY <3>4, <3>5 DEF Stuck
    <3> QED BY Zenon, <3>1, <3>3, <3>4, <3>5 DEF BodyInv
  <2> USE <1>EarlyBody
  <2>1. t.pc = "early"
    BY Zenon DEF Early
  <2>2. CASE Headed /\ conn.in[1].code # "final" /\ t.adapt /\ PassOn("adapt")
    BY Zenon, <2>1, <2>2, <1>PassOnBody
  <2>3. CASE Headed /\ conn.in[1].code # "final" /\ ~t.adapt /\ PassOn("copy")
    BY Zenon, <2>1, <2>3, <1>PassOnBody
  <2>4. CASE Headed /\ conn.in[1].code = "final" /\ FinalEarly
    BY Zenon, <2>1, <2>4, <2>FinalEarlyBody
  <2>5. CASE BodyFails("ups", FALSE) /\ UNCHANGED <<n, req, b, clt, conn, rsp, replied, refused>>
    BY Zenon, <2>5, FailsFree, <1>FailedBody DEF Fails, Is
  <2> QED BY Zenon, <2>2, <2>3, <2>4, <2>5, EarlyTask DEF TaskAfterEarly
<1>RecvBody.
  ASSUME TaskType, BodyType, ConnType, BodyInv, Recv
  PROVE  BodyInv'
  <2> USE <1>RecvBody
  <2>1. t.pc = "recv" /\ UNCHANGED <<req, b, clt, refused>> /\ conn'.got = conn.got /\ conn'.need = conn.need
    BY Zenon, TookSame DEF Recv, Respond
  <2>2. t'.pc = "respond"
    BY Zenon, RecvTask DEF AtAgain, Is
  <2>3. CASE Normal
    <3>1. b.fast = Units(0, b.taken) /\ b.taken = req.body /\ conn.got = b.fast /\ conn.need = req.body
      BY <2>1, <2>3 DEF Normal
    <3>2. Len(b.fast) = b.taken
      BY Zenon, <3>1, FastEmpty
    <3> QED BY Zenon, <2>1, <2>2, <3>1, <3>2, <1>NormalAnswered DEF BodyInv
  <2>4. CASE Stuck
    BY <2>1, <2>4 DEF Stuck
  <2> QED BY Zenon, <2>1, <2>3, <2>4 DEF BodyInv
<1>RecvFailsBody.
  ASSUME TaskType, BodyType, ShapeInv, BodyInv, RecvFails
  PROVE  BodyInv'
  <2> USE <1>RecvFailsBody
  <2>1. t.pc = "recv" /\ UNCHANGED <<req, b, clt, refused>>
    BY Zenon DEF RecvFails
  <2>2. CASE Normal
    BY Zenon, <2>1, <2>2, RecvFailsTask, <1>RenewBody DEF BodyInv
  <2>3. CASE Stuck
    BY <2>1, <2>3 DEF Stuck
  <2> QED BY Zenon, <2>1, <2>2, <2>3 DEF BodyInv
<1>FinalBody.
  ASSUME TaskType, BodyType, ConnType, BodyInv, Final
  PROVE  BodyInv'
  <2> USE <1>FinalBody
  <2>1. t.pc \in {"final", "last"} /\ Headed
    BY Zenon DEF Final
  <2>2. CASE t.pc = "final" /\ (PassOn("last") \/ PassOn("final"))
    BY Zenon, <2>1, <2>2, <1>PassOnBody
  <2>3. CASE At("respond") /\ Took /\ UNCHANGED <<n, req, b, clt, replied, refused>>
    <3>1. conn'.got = conn.got /\ conn'.need = conn.need /\ t'.pc = "respond"
      BY Zenon, <2>1, <2>3, TookSame DEF At, Is
    <3>2. CASE Normal
      <4>1. Len(conn.got) = conn.need /\ (EagerIcap \/ b.taken = req.body)
        BY <2>1, <3>2 DEF Normal
      <4> QED BY Zenon, <2>3, <3>1, <4>1, <1>NormalAnswered DEF BodyInv
    <3>3. CASE Stuck
      <4>1. Len(conn.got) = conn.need /\ EagerIcap
        BY <2>1, <3>3 DEF Stuck
      <4> QED BY Zenon, <2>3, <3>1, <3>3, <4>1, <1>StuckAnswered DEF BodyInv
    <3> QED BY Zenon, <2>3, <3>2, <3>3 DEF BodyInv
  <2> QED BY Zenon, <2>2, <2>3, FinalTask DEF TaskAfterFinal
<1>AnswerBody.
  ASSUME Control, ConnType, BodyInv, SendResponse \/ SendBody
  PROVE  BodyInv'
  \* Steps after the response has come leave the body as it is.
  <2>AnsweredBody.
    ASSUME BodyInv, t.pc \in {"respond", "body"}, t'.pc \in {"body", "save"}, t.should_close => t'.should_close,
           t'.close_remote = t.close_remote, UNCHANGED <<req, b, clt, conn, refused>>
    PROVE  BodyInv'
    <3> USE <2>AnsweredBody
    <3>1. CASE Normal
      <4>1. /\ t.should_close \/ t.close_remote \/ Len(conn.got) = conn.need
            /\ t.should_close \/ EagerIcap \/ b.taken = req.body
        BY <3>1 DEF Normal
      <4> QED BY Zenon, <4>1, <1>NormalAnswered DEF BodyInv
    <3>2. CASE Stuck
      <4>1. (t.should_close \/ t.close_remote \/ Len(conn.got) = conn.need) /\ (t.should_close \/ EagerIcap)
        BY <3>2 DEF Stuck
      <4> QED BY Zenon, <3>2, <4>1, <1>StuckAnswered DEF BodyInv
    <3> QED BY Zenon, <3>1, <3>2 DEF BodyInv
  <2> USE <1>AnswerBody
  <2>1. t.pc \in {"respond", "body"} /\ UNCHANGED <<req, b, clt, conn, refused>> /\ TaskType
    BY Zenon DEF SendResponse, SendBody, Control
  <2>2. t.scope = "fresh" \/ ~t.retry
    BY <2>1 DEF Control, RetryInv
  <2>3. \/ t'.pc \in {"body", "save"} /\ (t.should_close => t'.should_close) /\ t'.close_remote = t.close_remote
        \/ t'.pc = "fail" /\ t'.scope = t.scope /\ t'.retry = t.retry
    BY Zenon, <2>1, SendResponseTask, SendBodyTask DEF TaskAfterSendResponse, At, AtWith, Fails, FailsWith, Is
  <2> QED BY Zenon, <2>1, <2>2, <2>3, <2>AnsweredBody, <1>FailedBody
<1>AdaptAnswersBody.
  ASSUME Control, BodyInv, AdaptAnswers
  PROVE  BodyInv'
  <2> USE <1>AdaptAnswersBody
  <2>1. t.pc = "adapt" /\ UNCHANGED <<req, b, clt, conn, refused>> /\ TaskType
    BY Zenon DEF AdaptAnswers, Control
  <2>2. t.scope = "fresh" \/ ~t.retry
    BY <2>1 DEF Control, RetryInv
  <2>3. \/ t'.pc = "save" /\ t'.should_close = TRUE
        \/ t'.pc = "fail" /\ t'.scope = t.scope /\ t'.retry = t.retry
    BY Zenon, <2>1, AdaptAnswersTask DEF AtWith, FailsWith, Is
  <2> QED BY Zenon, <2>1, <2>2, <2>3, <1>NormalAnswered, <1>FailedBody DEF BodyInv
<1>EndBody.
  ASSUME TaskType, BodyInv, CopyFails \/ RecvTimeout \/ Save
  PROVE  BodyInv'
  <2> USE <1>EndBody
  <2>1. UNCHANGED <<req, b, clt, refused>>
    BY Zenon DEF CopyFails, RecvTimeout, Save
  <2>2. (t'.pc = "fail" /\ t'.retry = FALSE) \/ t'.pc = "done"
    BY Zenon, CopyFailsTask, TimeoutTask, SaveTask, FailsFree DEF At, Fails, Is
  <2> QED BY Zenon, <2>1, <2>2, <1>FailedBody, <1>NormalDone DEF BodyInv
<1> QED
  <2> SUFFICES ASSUME Control, BodyType, ConnType, ShapeInv, BodyInv, [Next]_vars
               PROVE  BodyInv'
    OBVIOUS
  <2>0. TaskType
    BY Zenon DEF Control
  <2>1. CASE Environment
    BY Zenon, <2>0, <2>1, EnvSame, <1>SameBody DEF KeptByEnv
  <2>2. CASE UNCHANGED vars \/ Stopped
    BY Zenon, <2>2, <1>SameBody DEF Stopped, vars
  <2>3. CASE Start \/ Policy \/ GetAlive \/ PollerCloses \/ PollerAnswers \/ ConnectFails
    BY Zenon, <2>3, <1>BeginBody
  <2>4. CASE Connect \/ Run \/ Fail \/ Send \/ SendAll \/ SendHead
    BY Zenon, <2>0, <2>4, <1>ConnectBody, <1>RunBodyInv, <1>FailBody, <1>SendBodyInv, <1>SendAllBody, <1>SendHeadBody
  <2>5. CASE Copy \/ UpsReady \/ Adapt \/ AdaptEnds \/ AdaptAnswers \/ AdaptFails
    BY Zenon, <2>0, <2>5, CopyBody, <1>UpsReadyBody, AdaptBody, <1>AdaptEndsBody, <1>AdaptAnswersBody, <1>AdaptFailsBody
  <2>6. CASE Early \/ Recv \/ RecvFails \/ Final \/ SendResponse \/ SendBody
    BY Zenon, <2>0, <2>6, <1>EarlyBody, <1>RecvBody, <1>RecvFailsBody, <1>FinalBody, <1>AnswerBody
  <2>7. CASE CopyFails \/ RecvTimeout \/ Save
    BY Zenon, <2>0, <2>7, <1>EndBody
  <2> QED BY Zenon, <2>1, <2>2, <2>3, <2>4, <2>5, <2>6, <2>7 DEF Next, Task, Poller

-----------------------------------------------------------------------------
(* What the upstream has got *)

\* What was sent stays the beginning of the body.
LEMMA GotStep ==
  ASSUME Bounds
  PROVE  Control /\ BodyType /\ ConnType /\ BodyInv /\ GotInv /\ [Next]_vars => GotInv'
<1>GotSame.
  ASSUME GotInv, conn'.at = conn.at, conn'.got = conn.got, conn'.need = conn.need, UNCHANGED refused
  PROVE  GotInv'
    BY Zenon, <1>GotSame DEF GotInv, Intact
<1>GotGone.
  ASSUME conn' = NoConn
  PROVE  GotInv'
  <2> USE <1>GotGone
  <2>1. conn'.at = "none"
    BY Zenon, GoneIs DEF Gone, IsConn
  <2> QED BY <2>1 DEF GotInv
<1>GotNew.
  ASSUME conn'.at = "task", refused' \/ Intact(conn.got)'
  PROVE  GotInv'
    BY <1>GotNew DEF GotInv
<1>IntactNone.
  ASSUME conn'.got = <<>>
  PROVE  Intact(conn.got)'
    BY <1>IntactNone, UnitsNone DEF Intact
<1>SaveGot.
  ASSUME Control, ConnType, BodyInv, GotInv, Save
  PROVE  GotInv'
  <2> USE <1>SaveGot
  <2>1. t.pc = "save" /\ UNCHANGED refused
    BY Zenon DEF Save
  <2>2. CASE t.should_close \/ t.close_remote
    BY Zenon, <2>2, <1>GotGone DEF Save
  <2>3. CASE ~(t.should_close \/ t.close_remote)
    <3>1. ~refused /\ conn.at = "task"
      BY SMTT(60), <2>1, <2>3 DEF Control, RetryInv, PlaceInv, Using
    <3>2. Len(conn.got) = conn.need
      BY <2>1, <2>3, <3>1 DEF BodyInv, Normal, Stuck
    <3>3. Intact(conn.got)
      BY Zenon, <3>1 DEF GotInv
    <3>4. conn'.at = "saved" /\ conn'.got = conn.got /\ conn'.need = conn.need
      BY Zenon, <2>3, AtPlaceIs DEF Save, IsConn
    <3>5. Intact(conn.got)' /\ Len(conn'.got) = conn'.need /\ "saved" # "task"
      BY Zenon, <3>2, <3>3, <3>4 DEF Intact
    <3> QED BY Zenon, <3>4, <3>5 DEF GotInv
  <2> QED BY Zenon, <2>2, <2>3
<1>SendGot.
  ASSUME Control, BodyType, ConnType, BodyInv, GotInv, SendAll \/ SendHead
  PROVE  GotInv'
  <2> USE <1>SendGot
  <2>0. TaskType /\ UNCHANGED refused
    BY Zenon DEF Control, SendAll, SendHead
  <2>1. conn.at = "task"
    BY Zenon DEF SendAll, SendHead, Control, PlaceInv, Using
  <2>2. CASE UNCHANGED conn
    BY Zenon, <2>0, <2>2, <1>GotSame
  <2>3. CASE SendHead /\ conn' = Requested(<<>>)
    <3>1. conn'.at = "task" /\ conn'.got = <<>>
      BY Zenon, <2>0, <2>1, <2>3, EmptyBody, AskedIs DEF Asked, IsConn
    <3> QED BY Zenon, <3>1, <1>IntactNone, <1>GotNew
  <2>4. CASE SendAll /\ conn' = Requested(b.fast)
    <3>0. b.fast \in Seq(Nat) /\ t.pc = "all"
      BY <2>4 DEF SendAll, BodyType, Bodies
    <3>1. conn'.at = "task" /\ conn'.got = b.fast
      BY Zenon, <2>0, <2>1, <2>4, <3>0, AskedIs DEF Asked, IsConn
    <3>2. refused \/ b.fast = Units(0, b.taken)
      BY <3>0 DEF BodyInv, Normal, Stuck
    <3>3. refused \/ b.fast = Units(0, Len(b.fast))
      BY Zenon, <3>2, FastEmpty
    <3>4. refused \/ Intact(conn.got)'
      BY Zenon, <3>1, <3>3 DEF Intact
    <3> QED BY Zenon, <2>0, <3>1, <3>4, <1>GotNew
  <2> QED BY Zenon, <2>2, <2>3, <2>4 DEF SendAll, SendHead
<1>MoveGot.
  ASSUME Control, BodyType, ConnType, BodyInv, GotInv, Copy \/ Adapt, Control'
  PROVE  GotInv'
  <2> USE <1>MoveGot
  <2>0. TaskType /\ UNCHANGED refused
    BY Zenon DEF Control, Copy, Adapt
  <2>1. conn.at = "task" /\ t.pc \in {"copy", "adapt"}
    BY Zenon DEF Copy, Adapt, Control, PlaceInv, Using
  <2>2. refused \/ Intact(conn.got)' \/ UNCHANGED conn
    BY Zenon, <2>0, CopyBody, AdaptBody
  <2>3. conn'.at = "task"
    <3>1. t'.pc \in {"copy", "adapt", "final"}
      BY Zenon, <2>0, <2>1, CopyTask DEF At, Is, Adapt
    <3> QED BY <3>1 DEF Control, PlaceInv, Using
  <2> QED BY Zenon, <2>0, <2>2, <2>3, <1>GotSame, <1>GotNew
<1> QED
  <2> SUFFICES ASSUME Control, BodyType, ConnType, BodyInv, GotInv, [Next]_vars
               PROVE  GotInv'
    OBVIOUS
  <2>0. TaskType
    BY Zenon DEF Control
  <2>1. CASE Environment
    BY Zenon, <2>0, <2>1, EnvSame, <1>GotSame DEF KeptByEnv
  <2>2. CASE UNCHANGED <<conn, refused>>
    BY Zenon, <2>2, <1>GotSame
  <2>3. CASE Start
    <3>1. conn.at # "task" /\ UNCHANGED conn
      BY <2>3 DEF Start, Control, PlaceInv, Unsent
    <3> QED BY Zenon, <3>1 DEF GotInv, Intact
  <2>4. CASE Policy \/ Run \/ Send \/ CopyFails \/ UpsReady \/ AdaptAnswers \/ AdaptFails \/ RecvFails \/ RecvTimeout
    BY Zenon, <2>2, <2>4 DEF Policy, Run, Send, CopyFails, UpsReady, AdaptAnswers, AdaptFails, RecvFails, RecvTimeout
  <2>5. CASE SendResponse \/ SendBody \/ Stopped \/ UNCHANGED vars
    BY Zenon, <2>2, <2>5 DEF SendResponse, SendBody, Stopped, vars
  <2>6. CASE GetAlive \/ PollerCloses \/ ConnectFails \/ Fail
    BY Zenon, <2>2, <2>6, <1>GotGone DEF GetAlive, PollerCloses, ConnectFails, Fail
  <2>7. CASE PollerAnswers
    <3>1. CASE conn' = [conn EXCEPT !.at = "task"]
      <4>1. conn'.at = "task" /\ conn'.got = conn.got
        BY Zenon, <3>1, AtPlaceIs DEF IsConn
      <4>2. conn.at = "saved"
        BY <2>7 DEF PollerAnswers, Control, PlaceInv
      <4>3. Intact(conn.got)'
        BY Zenon, <4>1, <4>2 DEF GotInv, Intact
      <4> QED BY Zenon, <4>1, <4>3, <1>GotNew
    <3> QED BY Zenon, <2>0, <2>7, <3>1, PollerTask, <1>GotGone DEF TaskAfterPoller
  <2>8. CASE Connect
    BY Zenon, <2>8, FreshIs, <1>IntactNone, <1>GotNew DEF Connect, IsConn
  <2>9. CASE SendAll \/ SendHead
    BY Zenon, <2>9, <1>SendGot
  <2>10. CASE Copy \/ Adapt
    <3>1. Control'
      BY Zenon, <2>10, ControlStep DEF Next, Task
    <3> QED BY Zenon, <2>10, <3>1, <1>MoveGot
  <2>11. CASE AdaptEnds
    <3>1. conn'.at = conn.at /\ conn'.got = conn.got /\ conn.at = "task" /\ UNCHANGED refused
      BY <2>11, EndsIs DEF ConnAfterEnds, AdaptEnds, IsConn, Control, PlaceInv, Using
    <3> QED BY Zenon, <3>1, <1>GotNew DEF GotInv, Intact
  <2>12. CASE Early \/ Recv \/ Final
    <3>1. UNCHANGED refused /\ ((Headed /\ Took) \/ UNCHANGED conn)
      BY Zenon, <2>12 DEF Early, Recv, Final, PassOn, FinalEarly, Respond
    <3> QED BY Zenon, <3>1, TookSame, <1>GotSame
  <2>13. CASE Save
    BY Zenon, <2>13, <1>SaveGot
  <2> QED BY Zenon, <2>1, <2>3, <2>4, <2>5, <2>6, <2>7, <2>8, <2>9, <2>10, <2>11, <2>12, <2>13 DEF Next, Task, Poller

-----------------------------------------------------------------------------
(* The conversation with the upstream *)

\* What the conversation's steps do to the sequences
LEMMA EmptyIs ==
  ASSUME NEW S, NEW s \in Seq(S)
  PROVE  (s = <<>> <=> Len(s) = 0) /\ Len(s) \in Nat
  OBVIOUS

LEMMA TailIs ==
  ASSUME NEW S, NEW s \in Seq(S), s # <<>>
  PROVE  /\ Len(s) \in Nat /\ Len(s) >= 1 /\ Len(Tail(s)) = Len(s) - 1
         /\ \A j \in 1..Len(Tail(s)) : Tail(s)[j] = s[j + 1]
         /\ Len(s) = 1 => Tail(s) = <<>>
         /\ Tail(s) = <<>> => Len(s) = 1
         /\ Head(s) = s[1]
<1>1. /\ Len(s) \in Nat /\ Len(s) >= 1 /\ Len(Tail(s)) = Len(s) - 1
      /\ \A j \in 1..Len(Tail(s)) : Tail(s)[j] = s[j + 1]
      /\ Tail(s) \in Seq(S)
  BY EmptyIs
<1>2. Head(s) = s[1]
  OBVIOUS
<1>3. Tail(s) = <<>> <=> Len(Tail(s)) = 0
  BY Zenon, <1>1, EmptyIs
<1> QED BY <1>1, <1>2, <1>3

LEMMA MoreIs ==
  ASSUME NEW S, NEW s \in Seq(S), NEW x
  PROVE  /\ Len(s) \in Nat /\ Len(Append(s, x)) = Len(s) + 1
         /\ \A j \in 1..Len(s) : Append(s, x)[j] = s[j]
         /\ Append(s, x)[Len(s) + 1] = x
         /\ Append(s, x) # <<>>
         /\ Append(<<>>, x) = <<x>>
  OBVIOUS

LEMMA ConnSeqs ==
  ASSUME ConnType
  PROVE  /\ conn.q \in Seq(0..MaxReq) /\ conn.in \in Seq(Responses) /\ conn.infos \in Seq({"100", "103"})
         /\ conn.expect \in BOOLEAN
  BY DEF ConnType, Conns

\* The adapter sends the request at most once.
LEMMA AdaptConn ==
  ASSUME Bounds, TaskType, BodyType, ConnType, Adapt
  PROVE  \/ UNCHANGED conn /\ b'.sent = b.sent
         \/ /\ b.sent /\ b'.sent
            /\ conn'.at = conn.at /\ conn'.open = conn.open /\ conn'.q = conn.q /\ conn'.in = conn.in
            /\ conn'.expect = conn.expect /\ conn'.infos = conn.infos
         \/ /\ ~b.sent /\ b'.sent
            /\ conn'.at = conn.at /\ conn'.open = conn.open /\ conn'.q = Append(conn.q, n) /\ conn'.in = conn.in
            /\ conn'.expect => req.expect /\ req.body > 0
            /\ conn'.infos = conn.infos
<1> DEFINE c == IF b.sent THEN conn ELSE Requested(<<>>)
<1>0. /\ c \in Conns
      /\ b.sent => c = conn
      /\ ~b.sent => \E e \in BOOLEAN :
           /\ e <=> req.expect /\ req.body > 0
           /\ IsConn(c, conn.at, conn.open, Append(conn.q, n), <<>>, req.body, conn.in, e, conn.infos)
  BY Zenon, TargetIs DEF ConnAfterTarget
<1>1. CASE \E r \in 0..Ready, k \in 0..BodyLen, fin \in BOOLEAN : Moves(c, r, k, fin)
  <2> HIDE DEF c
  <2>1. /\ b'.sent = TRUE /\ conn'.at = c.at /\ conn'.open = c.open /\ conn'.q = c.q /\ conn'.in = c.in
        /\ conn'.expect = c.expect /\ conn'.infos = c.infos
    <3>1. PICK r \in 0..Ready, k \in 0..BodyLen, fin \in BOOLEAN : Moves(c, r, k, fin)
      BY Zenon, <1>1
    <3>2. c \in Conns
      BY Zenon, <1>0
    <3> QED BY Zenon, <3>1, <3>2, MovesIs DEF IsConn, IsBody
  <2> QED BY Zenon, <1>0, <2>1 DEF IsConn
<1>2. CASE UNCHANGED conn /\ \E r \in 1..Ready :
             b' = [b EXCEPT !.taken = @ + r, !.left = @ - r, !.read_size = @ + r, !.buf = @ \o Units(b.taken, r)]
  BY Zenon, <1>2, HeldBackIs DEF IsBody
<1> QED BY Zenon, <1>1, <1>2 DEF Adapt

\* A connection changes hands only when no answer is awaited on it.
LEMMA LineStep ==
  ASSUME Bounds
  PROVE  ~EarlyHints /\ Control /\ BodyType /\ ConnType /\ Line /\ Turns /\ [Next]_vars => Line'
<1>AboutNothing.
  ASSUME NEW k
  PROVE  About(<<>>, <<>>, k)
    BY <1>AboutNothing DEF About
<1>LineSame.
  ASSUME Line, n' = n \/ conn.at # "task", conn'.at = conn.at, conn'.open => conn.open, conn'.q = conn.q, conn'.in = conn.in,
         conn'.infos = conn.infos
  PROVE  Line'
    BY Zenon, <1>LineSame DEF Line
<1>LineGone.
  ASSUME conn' = NoConn
  PROVE  Line'
  <2> USE <1>LineGone
  <2>1. Gone
    BY Zenon, GoneIs
  <2>2. conn'.at = "none" /\ ~conn'.open /\ Nothing(conn.q, conn.in)' /\ conn'.infos = <<>>
    BY Zenon, <2>1 DEF Gone, IsConn, Nothing
  <2> QED BY <2>2 DEF Line
\* A task's connection with nothing to come
<1>LineTask.
  ASSUME conn'.at = "task", About(conn'.q, conn'.in, n'), conn'.q = <<>> => conn'.infos = <<>>
  PROVE  Line'
    BY <1>LineTask DEF Line
<1>LineAsked.
  ASSUME TaskType, ConnType, Line, Nothing(conn.q, conn.in), UNCHANGED n, conn'.at = "task",
         conn'.q = Append(conn.q, n), conn'.in = conn.in
  PROVE  Line'
  <2>AboutAsked.
    ASSUME NEW k
    PROVE  About(Append(<<>>, k), <<>>, k)
    <3> USE <2>AboutAsked
    <3>1. Append(<<>>, k) = <<k>>
      OBVIOUS
    <3> QED BY <3>1 DEF About
  <2> USE <1>LineAsked
  <2>1. About(Append(<<>>, n), <<>>, n)
    BY Zenon, <2>AboutAsked
  <2>2. conn'.q # <<>>
    <3>1. ASSUME NEW S, NEW s \in Seq(S) PROVE Append(s, n) # <<>>
      BY MoreIs
    <3> QED BY Zenon, <3>1, ConnSeqs
  <2> QED BY Zenon, <2>1, <2>2, <1>LineTask DEF Nothing
<1>LineTook.
  ASSUME ConnType, Line, Headed, Took, conn.at = "task", UNCHANGED n
  PROVE  Line'
  <2>AboutTook.
    ASSUME NEW Q, NEW S, NEW q \in Seq(Q), NEW i \in Seq(S), NEW k, About(q, i, k), i # <<>>
    PROVE  About(q, Tail(i), k) /\ i[1].for = k
      BY <2>AboutTook, TailIs DEF About
  <2> USE <1>LineTook
  <2>1. conn.in # <<>>
    BY Zenon DEF Headed
  <2>2. conn'.at = conn.at /\ conn'.q = conn.q /\ conn'.in = Tail(conn.in) /\ conn'.infos = conn.infos
    BY Zenon, <2>1, TookIs DEF Holds, IsConn
  <2>3. About(conn.q, Tail(conn.in), n)
    <3>1. About(conn.q, conn.in, n)
      BY Zenon DEF Line
    <3>2. conn.q \in Seq(0..MaxReq) /\ conn.in \in Seq(Responses)
      BY Zenon, ConnSeqs
    <3> QED BY Zenon, <2>1, <3>1, <3>2, <2>AboutTook
  <2> QED BY Zenon, <2>2, <2>3, <1>LineTask DEF Line
<1>EnvLine.
  ASSUME TaskType, ConnType, Line, Environment
  PROVE  Line'
  <2>AboutSame.
    ASSUME NEW Q, NEW q \in Seq(Q), NEW i, NEW l, NEW k, About(q, i, k), Len(l) = Len(i),
           \A j \in 1..Len(l) : l[j].for = i[j].for
    PROVE  About(q, l, k)
      BY <2>AboutSame DEF About
  <2>AnswersTalk.
    ASSUME TaskType, ConnType, Line, UpsAnswers
    PROVE  Line' /\ conn.q # <<>>
    <3>AboutMore.
      ASSUME NEW Q, NEW S, NEW q \in Seq(Q), NEW i \in Seq(S), NEW k, About(q, i, k), NEW r, q # <<>>, r.for = Head(q)
      PROVE  About(q, Append(i, r), k) /\ About(Tail(q), Append(i, r), k)
      <4> USE <3>AboutMore
      <4>1. r.for = k
        <5>1. Head(q) = q[1] /\ 1 \in 1..Len(q)
          BY TailIs
        <5> QED BY Zenon, <5>1 DEF About
      <4>2. \A j \in 1..Len(Append(i, r)) : Append(i, r)[j].for = k
        BY <4>1, MoreIs DEF About
      <4>3. \A j \in 1..Len(Tail(q)) : Tail(q)[j] = k
        BY TailIs DEF About
      <4> QED BY Zenon, <4>2, <4>3 DEF About
    <3> USE <2>AnswersTalk
    <3>1. conn.q # <<>> /\ conn.open /\ UNCHANGED n
      BY Zenon DEF UpsAnswers
    <3>2. conn.at = "task"
      <4>1. conn.at \in {"none", "task", "saved"}
        BY DEF ConnType, Conns
      <4> QED BY <3>1, <4>1 DEF Line
    <3>3. About(conn.q, conn.in, n)
      BY Zenon, <3>2 DEF Line
    <3>4. PICK c \in {"100", "103", "final"}, k \in BOOLEAN :
            LET r == [code |-> c, for |-> Head(conn.q), keep_alive |-> k, got |-> "part"] IN
            \/ Talked(Tail(conn.q), Append(conn.in, r), <<>>)
            \/ Talked(conn.q, Append(conn.in, r), Append(conn.infos, c))
      BY Zenon, AnswersIs DEF ConnAfterAnswers
    <3> DEFINE r == [code |-> c, for |-> Head(conn.q), keep_alive |-> k, got |-> "part"]
    <3>5. r.for = Head(conn.q)
      OBVIOUS
    <3>6. \/ Talked(Tail(conn.q), Append(conn.in, r), <<>>)
          \/ Talked(conn.q, Append(conn.in, r), Append(conn.infos, c))
      BY Zenon, <3>4
    <3> HIDE DEF r
    <3>7. About(conn.q, Append(conn.in, r), n) /\ About(Tail(conn.q), Append(conn.in, r), n)
      BY Zenon, <3>1, <3>3, <3>5, ConnSeqs, <3>AboutMore
    <3> QED BY Zenon, <3>1, <3>2, <3>6, <3>7, <1>LineTask DEF Talked, IsConn
  <2> USE <1>EnvLine
  <2>1. UNCHANGED n
    BY Zenon DEF Environment, ClientSends, ClientLeaves, UpsAnswers, UpsGivesUp, UpsContinues, UpsCloses
  <2>2. CASE UNCHANGED conn
    BY Zenon, <2>1, <2>2, <1>LineSame
  <2>3. CASE UpsGivesUp
    <3> DEFINE r == [NoRsp EXCEPT !.got = "all"]
    <3>1. Holds(FALSE, <<r>>) /\ conn.at = "saved" /\ r.for = 0
      BY Zenon, <2>3, GivesUpIs DEF ConnAfterGivesUp
    <3>2. conn.q = <<>> /\ conn.infos = <<>>
      BY Zenon, <3>1 DEF Line
    <3> HIDE DEF r
    <3>3. About(<<>>, <<r>>, 0)
      BY <3>1 DEF About
    <3>4. conn'.at = "saved" /\ conn'.q = <<>> /\ conn'.infos = <<>> /\ About(conn.q, conn.in, 0)'
      BY Zenon, <3>1, <3>2, <3>3 DEF Holds, IsConn
    <3> QED BY <3>4 DEF Line
  <2>4. CASE UpsCloses
    BY Zenon, <2>1, <2>4, ClosesIs, <1>LineSame DEF Holds, IsConn
  <2>5. CASE UpsContinues
    <3>1. ASSUME NEW i \in Seq(Responses), Holds(conn.open, i), Len(i) = Len(conn.in),
                 \A j \in 1..Len(i) : i[j].code = conn.in[j].code /\ i[j].for = conn.in[j].for
          PROVE  Line'
      <4>1. /\ conn'.at = conn.at /\ conn'.open = conn.open /\ conn'.q = conn.q /\ conn'.infos = conn.infos
            /\ conn'.in = i
        BY Zenon, <3>1 DEF Holds, IsConn
      <4>2. ASSUME NEW k, About(conn.q, conn.in, k) PROVE About(conn.q, i, k)
        BY Zenon, <3>1, <4>2, ConnSeqs, <2>AboutSame
      <4>3. conn.in = <<>> => i = <<>>
        BY <3>1, ConnSeqs, EmptyIs
      <4>4. Nothing(conn.q, conn.in) => Nothing(conn.q, conn.in)'
        BY Zenon, <4>1, <4>3 DEF Nothing
      <4> QED BY Zenon, <2>1, <4>1, <4>2, <4>4 DEF Line
    <3> QED BY Zenon, <2>2, <2>5, <3>1, ContinuesIs DEF ConnAfterContinues
  <2>6. CASE ClientSends \/ ClientLeaves
    BY Zenon, <2>2, <2>6 DEF ClientSends, ClientLeaves
  <2>7. CASE UpsAnswers
    BY Zenon, <2>7, <2>AnswersTalk
  <2> QED BY Zenon, <2>3, <2>4, <2>5, <2>6, <2>7 DEF Environment
<1>SameLine.
  ASSUME Line, \/ Policy \/ Run \/ Send \/ CopyFails \/ UpsReady \/ AdaptAnswers \/ AdaptFails \/ RecvFails \/ RecvTimeout
               \/ SendResponse \/ SendBody \/ Stopped \/ UNCHANGED vars
  PROVE  Line'
  <2> USE <1>SameLine
  <2>1. UNCHANGED <<n, conn>>
    BY Zenon DEF Policy, Run, Send, CopyFails, UpsReady, AdaptAnswers, AdaptFails, RecvFails, RecvTimeout, SendResponse,
                 SendBody, Stopped, vars
  <2> QED BY Zenon, <2>1, <1>LineSame
<1> QED
  <2> SUFFICES ASSUME ~EarlyHints, Control, BodyType, ConnType, Line, Turns, [Next]_vars
               PROVE  Line'
    OBVIOUS
  <2>0. TaskType
    BY Zenon DEF Control
  <2>1. CASE Environment
    BY Zenon, <2>0, <2>1, <1>EnvLine
  <2>2. CASE \/ Policy \/ Run \/ Send \/ CopyFails \/ UpsReady \/ AdaptAnswers \/ AdaptFails \/ RecvFails \/ RecvTimeout
             \/ SendResponse \/ SendBody \/ Stopped \/ UNCHANGED vars
    BY Zenon, <2>2, <1>SameLine
  <2>3. CASE Start
    <3>1. conn.at # "task" /\ UNCHANGED conn
      BY <2>3 DEF Start, Control, PlaceInv, Unsent
    <3> QED BY Zenon, <3>1, <1>LineSame
  <2>4. CASE GetAlive \/ PollerCloses \/ ConnectFails \/ Fail
    BY Zenon, <2>4, <1>LineGone, <1>LineSame DEF GetAlive, PollerCloses, ConnectFails, Fail
  <2>5. CASE PollerAnswers
    <3>1. CASE ~Readable /\ conn' = [conn EXCEPT !.at = "task"]
      <4>1. conn.at = "saved"
        BY <2>5 DEF PollerAnswers, Control, PlaceInv
      <4>2. conn.in = <<>> /\ conn.q = <<>> /\ conn.infos = <<>>
        BY Zenon, <3>1, <4>1 DEF Readable, Line
      <4>3. conn'.at = "task" /\ conn'.q = conn.q /\ conn'.in = conn.in /\ conn'.infos = conn.infos
        BY Zenon, <3>1, AtPlaceIs DEF IsConn
      <4> QED BY Zenon, <4>2, <4>3, <1>AboutNothing, <1>LineTask
    <3> QED BY Zenon, <2>0, <2>5, <3>1, PollerTask, <1>LineGone DEF TaskAfterPoller
  <2>6. CASE Connect
    BY Zenon, <2>6, FreshIs, <1>AboutNothing, <1>LineTask DEF Connect, IsConn
  <2>7. CASE SendAll \/ SendHead
    <3>1. Nothing(conn.q, conn.in) /\ conn.at = "task" /\ UNCHANGED n
      BY Zenon, <2>7 DEF SendAll, SendHead, Turns, Silent, Control, PlaceInv, Using
    <3>2. CASE UNCHANGED conn
      BY Zenon, <3>1, <3>2, <1>LineSame
    <3>3. ASSUME NEW body \in Seq(Nat), conn' = Requested(body) PROVE Line'
      BY Zenon, <2>0, <3>1, <3>3, AskedIs, <1>LineAsked DEF Asked, IsConn
    <3>4. b.fast \in Seq(Nat) /\ <<>> \in Seq(Nat)
      BY EmptyBody DEF BodyType, Bodies
    <3> QED BY Zenon, <2>7, <3>2, <3>3, <3>4 DEF SendAll, SendHead
  <2>8. CASE Copy
    BY Zenon, <2>8, MovesIs, <1>LineSame DEF Copy, IsConn, ConnType
  <2>9. CASE Adapt
    <3>1. conn.at = "task" /\ UNCHANGED n /\ t.pc = "adapt"
      BY Zenon, <2>9 DEF Adapt, Control, PlaceInv, Using
    <3>2. ~b.sent => Nothing(conn.q, conn.in)
      BY <3>1 DEF Turns, Silent
    <3> QED BY Zenon, <2>0, <2>9, <3>1, <3>2, AdaptConn, <1>LineSame, <1>LineAsked
  <2>10. CASE AdaptEnds
    BY Zenon, <2>10, EndsIs, <1>LineSame DEF ConnAfterEnds, AdaptEnds, IsConn
  <2>11. CASE Early \/ Recv \/ Final
    <3>1. UNCHANGED n /\ ((Headed /\ Took) \/ UNCHANGED conn)
      BY Zenon, <2>11 DEF Early, Recv, Final, PassOn, FinalEarly, Respond
    <3>2. conn.at = "task"
      BY Zenon, <2>11 DEF Early, Recv, Final, Control, PlaceInv, Using
    <3> QED BY Zenon, <3>1, <3>2, <1>LineTook, <1>LineSame
  <2>12. CASE Save
    <3>1. CASE conn' = NoConn
      BY Zenon, <3>1, <1>LineGone
    <3>2. CASE ~t.should_close /\ conn' = [conn EXCEPT !.at = "saved"]
      <4>1. conn'.at = "saved" /\ conn'.q = conn.q /\ conn'.in = conn.in /\ conn'.infos = conn.infos
        BY Zenon, <3>2, AtPlaceIs DEF IsConn
      <4>2. t.pc = "save"
        BY Zenon, <2>12 DEF Save
      <4>3. Nothing(conn.q, conn.in)
        BY <3>2, <4>2 DEF Turns
      <4>4. conn.q = <<>> /\ conn.in = <<>> /\ conn.infos = <<>> /\ About(<<>>, <<>>, 0)
        BY Zenon, <4>3, <1>AboutNothing DEF Nothing, Line
      <4>5. conn'.q = <<>> /\ conn'.infos = <<>> /\ About(conn.q, conn.in, 0)'
        BY Zenon, <4>1, <4>4
      <4> QED BY <4>1, <4>5 DEF Line
    <3> QED BY Zenon, <2>12, <3>1, <3>2 DEF Save
  <2> QED BY Zenon, <2>1, <2>2, <2>3, <2>4, <2>5, <2>6, <2>7, <2>8, <2>9, <2>10, <2>11, <2>12 DEF Next, Task, Poller

LEMMA BodyFailed ==
  ASSUME NEW e, NEW r, BodyFails(e, r)
  PROVE  t'.pc \in {"fail", "renew"}
  BY DEF BodyFails, Fails, AtAgain, Is

\* The request is sent once on a connection, and its final response is the last that comes.
LEMMA TurnsStep ==
  ASSUME Bounds
  PROVE  ~EarlyHints /\ Control /\ BodyType /\ ConnType /\ ShapeInv /\ Line /\ Turns /\ ConnType' /\ [Next]_vars => Turns'
<1>TurnsFree.
  ASSUME t'.pc \in {"idle", "policy", "alive", "recv_conn", "new", "renew", "fail", "done"}
  PROVE  Turns'
    BY <1>TurnsFree DEF Turns, Silent, Talking
<1>TurnsSilent.
  ASSUME t'.pc \in {"run", "send", "all", "head"} \/ (t'.pc = "adapt" /\ ~b'.sent), Nothing(conn'.q, conn'.in)
  PROVE  Turns'
  <2> USE <1>TurnsSilent
  <2>1. t'.pc \notin {"copy", "early", "recv", "final", "last", "respond", "body", "save"}
    OBVIOUS
  <2> QED BY <2>1 DEF Turns, Silent, Talking
<1>TurnsTalking.
  ASSUME t'.pc \in {"copy", "recv", "final", "last"} \/ (t'.pc \in {"adapt", "early"} /\ b'.sent)
           \/ (t'.pc = "early" /\ ~t'.adapt),
         conn'.expect => req'.expect /\ req'.body > 0, Turn(conn'.q, conn'.in, conn'.infos, conn'.expect),
         t'.pc = "last" => Last(conn'.q, conn'.in, conn'.infos)
  PROVE  Turns'
    BY <1>TurnsTalking DEF Turns, Silent, Talking
<1>TurnsAnswered.
  ASSUME t'.pc \in {"respond", "body", "save"}, rsp'.code = "final", rsp'.for = n', Nothing(conn'.q, conn'.in)
  PROVE  Turns'
    BY <1>TurnsAnswered DEF Turns, Silent, Talking
<1>TurnsSame.
  ASSUME Turns, UNCHANGED <<n, req, t, b>>, rsp'.code = rsp.code, rsp'.for = rsp.for, conn'.q = conn.q, conn'.in = conn.in,
         conn'.infos = conn.infos, conn'.expect = conn.expect
  PROVE  Turns'
    BY Zenon, <1>TurnsSame DEF Turns, Silent, Talking
<1>EnvTurns.
  ASSUME ~EarlyHints, Control, ConnType, Line, Turns, Environment
  PROVE  Turns'
  <2>AnswersTurns.
    ASSUME ~EarlyHints, TaskType, ConnType, Line, Turns, UpsAnswers
    PROVE  Turns'
    \* The final response ends the turn.
    <3>TurnAnswered.
      ASSUME NEW Q, NEW q \in Seq(Q), NEW i \in Seq(Responses), NEW f, NEW e \in BOOLEAN, Turn(q, i, f, e), q # <<>>,
             NEW r \in Responses, r.code = "final"
      PROVE  Turn(Tail(q), Append(i, r), <<>>, e) /\ (Last(q, i, f) => Last(Tail(q), Append(i, r), <<>>))
      <4> USE <3>TurnAnswered
      <4> DEFINE l == Append(i, r)
      <4>1. /\ Len(i) \in Nat /\ Len(l) = Len(i) + 1 /\ l[Len(i) + 1] = r /\ l # <<>>
            /\ \A j \in 1..Len(i) : l[j] = i[j]
        BY MoreIs
      <4>2. Tail(q) = <<>>
        BY TailIs DEF Turn
      <4> HIDE DEF l
      <4>3. \A j \in 1..Len(l) : l[j].code = "final" <=> j = Len(l)
        BY <4>1 DEF Turn
      <4>4. ~e => \A j \in 1..Len(l) : l[j].code = "final"
        BY <4>1 DEF Turn
      <4>5. \A j, k \in 1..Len(l) : l[j].code = "100" /\ j < k => l[k].code = "final"
        BY <4>1 DEF Turn
      <4>6. Turn(<<>>, l, <<>>, e)
        BY <4>1, <4>3, <4>4, <4>5 DEF Turn
      <4>7. Last(q, i, f) => Last(<<>>, l, <<>>)
        BY <4>1 DEF Last
      <4> QED BY Zenon, <4>2, <4>6, <4>7 DEF l
    <3>TurnInformed.
      ASSUME NEW Q, NEW q \in Seq(Q), NEW i \in Seq(Responses), NEW f \in Seq({"100", "103"}), NEW e \in BOOLEAN,
             Turn(q, i, f, e), q # <<>>, NEW r \in Responses, r.code # "final", e,
             \A j \in 1..Len(f) : f[j] = "103"
      PROVE  Turn(q, Append(i, r), Append(f, r.code), e) /\ ~Last(q, i, f)
      <4> USE <3>TurnInformed
      <4> DEFINE l == Append(i, r)
                 g == Append(f, r.code)
      <4>1. /\ Len(i) \in Nat /\ Len(l) = Len(i) + 1 /\ l[Len(i) + 1] = r
            /\ \A j \in 1..Len(i) : l[j] = i[j]
        BY MoreIs
      <4>2. /\ Len(f) \in Nat /\ Len(g) = Len(f) + 1 /\ g[Len(f) + 1] = r.code
            /\ \A j \in 1..Len(f) : g[j] = f[j]
        BY MoreIs
      <4>0. \A j \in 1..Len(i) : i[j].code # "100"
        BY DEF Turn
      <4> HIDE DEF l, g
      <4>3. \A j \in 1..Len(l) : l[j].code # "final"
        BY <4>1 DEF Turn
      <4>4. \A j, k \in 1..Len(l) : l[j].code = "100" /\ j < k => l[k].code = "final"
        <5> SUFFICES ASSUME NEW j \in 1..Len(l), NEW k \in 1..Len(l), l[j].code = "100", j < k PROVE FALSE
          BY Zenon
        <5>1. j \in 1..Len(i)
          BY <4>1
        <5> QED BY Zenon, <4>0, <4>1, <5>1
      <4>5. (\E j \in 1..Len(l) : l[j].code = "100") => r.code = "100"
        BY <4>0, <4>1
      <4>6. (\E j \in 1..Len(l) : l[j].code = "100") => \E k \in 1..Len(g) : g[k] = "100"
        BY <4>2, <4>5
      <4>7. Turn(q, l, g, e)
        BY Zenon, <4>3, <4>4, <4>6 DEF Turn
      <4>8. ~Last(q, i, f)
        BY DEF Last
      <4> QED BY Zenon, <4>7, <4>8 DEF l, g
    <3> USE <2>AnswersTurns
    <3>1. conn.q # <<>> /\ UNCHANGED <<n, req, t, b>>
      BY Zenon DEF UpsAnswers
    <3>2. ~Silent /\ t.pc \notin {"respond", "body"} /\ (t.pc = "save" => t.should_close)
      BY <3>1 DEF Turns, Nothing
    <3>3. PICK c \in {"100", "103", "final"}, k \in BOOLEAN :
            LET r == [code |-> c, for |-> Head(conn.q), keep_alive |-> k, got |-> "part"] IN
            /\ c # "final" => conn.expect /\ \A i \in DOMAIN conn.infos : conn.infos[i] = "103"
            /\ r \in Responses
            /\ \/ c = "final" /\ Talked(Tail(conn.q), Append(conn.in, r), <<>>)
               \/ c # "final" /\ Talked(conn.q, Append(conn.in, r), Append(conn.infos, c))
      BY Zenon, AnswersIs DEF ConnAfterAnswers
    <3> DEFINE r == [code |-> c, for |-> Head(conn.q), keep_alive |-> k, got |-> "part"]
    <3>4. r \in Responses /\ (c = "final" => Talked(Tail(conn.q), Append(conn.in, r), <<>>))
          /\ (c # "final" => Talked(conn.q, Append(conn.in, r), Append(conn.infos, c)))
      BY Zenon, <3>3
    <3>5. r.code = c
      OBVIOUS
    <3> HIDE DEF r
    <3>6. c # "final" => conn.expect /\ \A i \in 1..Len(conn.infos) : conn.infos[i] = "103"
      BY <3>3, ConnSeqs
    <3>7. conn'.expect = conn.expect
      BY Zenon, <3>4 DEF Talked, IsConn
    <3>8. ASSUME Turn(conn.q, conn.in, conn.infos, conn.expect)
          PROVE  /\ Turn(conn'.q, conn'.in, conn'.infos, conn'.expect)
                 /\ Last(conn.q, conn.in, conn.infos) => Last(conn'.q, conn'.in, conn'.infos)
      <4>1. CASE c = "final"
        <5>1. conn'.q = Tail(conn.q) /\ conn'.in = Append(conn.in, r) /\ conn'.infos = <<>>
          BY Zenon, <3>4, <4>1 DEF Talked, IsConn
        <5> QED BY Zenon, <3>1, <3>4, <3>5, <3>7, <3>8, <4>1, <5>1, ConnSeqs, <3>TurnAnswered
      <4>2. CASE c # "final"
        <5>1. conn'.q = conn.q /\ conn'.in = Append(conn.in, r) /\ conn'.infos = Append(conn.infos, r.code)
          BY Zenon, <3>4, <3>5, <4>2 DEF Talked, IsConn
        <5> QED BY Zenon, <3>1, <3>4, <3>5, <3>6, <3>7, <3>8, <4>2, <5>1, ConnSeqs, <3>TurnInformed
      <4> QED BY Zenon, <4>1, <4>2
    <3>9. Talking => Turn(conn'.q, conn'.in, conn'.infos, conn'.expect) /\ (conn'.expect => req.expect /\ req.body > 0)
      BY Zenon, <3>7, <3>8 DEF Turns
    <3>10. t.pc = "last" => Last(conn'.q, conn'.in, conn'.infos)
      BY Zenon, <3>8 DEF Turns, Talking
    <3> QED BY Zenon, <3>1, <3>2, <3>9, <3>10 DEF Turns, Silent, Talking
  <2>ContinuesTurns.
    ASSUME ConnType, Turns, UpsContinues
    PROVE  Turns'
    <3>TurnSame.
      ASSUME NEW Q, NEW q \in Seq(Q), NEW i \in Seq(Responses), NEW l \in Seq(Responses), NEW f, NEW e \in BOOLEAN,
             Turn(q, i, f, e), Len(l) = Len(i), \A j \in 1..Len(l) : l[j].code = i[j].code
      PROVE  Turn(q, l, f, e)
      <4> USE <3>TurnSame
      <4>1. q = <<>> => l # <<>>
        BY EmptyIs DEF Turn
      <4> QED BY Zenon, <4>1 DEF Turn
    <3>LastSame.
      ASSUME NEW q, NEW i, NEW l, NEW f, Last(q, i, f), Len(l) = Len(i), \A j \in 1..Len(l) : l[j].code = i[j].code
      PROVE  Last(q, l, f)
        BY <3>LastSame DEF Last
    <3> USE <2>ContinuesTurns
    <3>0. UNCHANGED <<n, req, t, b>>
      BY Zenon DEF UpsContinues
    <3>1. ASSUME NEW i \in Seq(Responses), Holds(conn.open, i), Len(i) = Len(conn.in), UNCHANGED rsp,
                 \A j \in 1..Len(i) : i[j].code = conn.in[j].code /\ i[j].for = conn.in[j].for
          PROVE  Turns'
      <4>1. conn'.q = conn.q /\ conn'.infos = conn.infos /\ conn'.in = i /\ conn'.expect = conn.expect
        BY Zenon, <3>1 DEF Holds, IsConn
      <4>2. conn.in = <<>> => i = <<>>
        BY <3>1, ConnSeqs, EmptyIs
      <4>3. Nothing(conn.q, conn.in) => Nothing(conn'.q, conn'.in)
        BY Zenon, <4>1, <4>2 DEF Nothing
      <4>4. Turn(conn.q, conn.in, conn.infos, conn.expect) => Turn(conn'.q, conn'.in, conn'.infos, conn'.expect)
        BY Zenon, <3>1, <4>1, ConnSeqs, <3>TurnSame
      <4>5. Last(conn.q, conn.in, conn.infos) => Last(conn'.q, conn'.in, conn'.infos)
        BY Zenon, <3>1, <4>1, <3>LastSame
      <4> QED BY Zenon, <3>0, <3>1, <4>1, <4>3, <4>4, <4>5 DEF Turns, Silent, Talking
    <3>2. CASE UNCHANGED conn /\ rsp'.code = rsp.code /\ rsp'.for = rsp.for
      BY Zenon, <3>0, <3>2, <1>TurnsSame
    <3> QED BY Zenon, <3>1, <3>2, ContinuesIs DEF ConnAfterContinues
  <2> USE <1>EnvTurns
  <2>0. TaskType
    BY Zenon DEF Control
  <2>1. CASE ClientSends \/ ClientLeaves
    BY Zenon, <2>1, <1>TurnsSame DEF ClientSends, ClientLeaves
  <2>2. CASE UpsGivesUp
    <3>1. conn.at = "saved" /\ UNCHANGED t
      BY Zenon, <2>2 DEF UpsGivesUp
    <3>2. t.pc \notin Using
      BY <3>1 DEF Control, PlaceInv
    <3>3. t'.pc \in {"idle", "policy", "alive", "recv_conn", "new", "fail", "done"}
      BY <2>0, <3>1, <3>2 DEF TaskType, Tasks, Places, Using
    <3> QED BY <3>3, <1>TurnsFree
  <2>3. CASE UpsCloses
    BY Zenon, <2>3, ClosesIs, <1>TurnsSame DEF Holds, IsConn, UpsCloses
  <2> QED BY Zenon, <2>0, <2>1, <2>2, <2>3, <2>AnswersTurns, <2>ContinuesTurns DEF Environment
<1>BeginTurns.
  ASSUME Control, ConnType, Line, Turns,
         Start \/ Policy \/ GetAlive \/ PollerCloses \/ PollerAnswers \/ Connect \/ ConnectFails \/ Fail
  PROVE  Turns'
  <2> USE <1>BeginTurns
  <2>0. TaskType
    BY Zenon DEF Control
  <2>1. CASE Start \/ Policy \/ GetAlive
    <3>1. t'.pc \in {"policy", "alive", "recv_conn", "new", "done"}
      BY Zenon, <2>0, <2>1, StartTask, PolicyTask, GetAliveTask DEF TaskAfterPolicy, TaskAfterGetAlive, At, AtWith, Is
    <3> QED BY <3>1, <1>TurnsFree
  <2>2. CASE PollerCloses
    <3>1. conn.at = "saved" /\ UNCHANGED t
      BY Zenon, <2>2 DEF PollerCloses
    <3>2. t.pc \notin Using
      BY <3>1 DEF Control, PlaceInv
    <3>3. t'.pc \in {"idle", "policy", "alive", "recv_conn", "new", "fail", "done"}
      BY <2>0, <3>1, <3>2 DEF TaskType, Tasks, Places, Using
    <3> QED BY <3>3, <1>TurnsFree
  <2>3. CASE PollerAnswers
    <3>1. CASE ~Readable /\ conn' = [conn EXCEPT !.at = "task"] /\ t'.pc = "run"
      <4>1. conn.at = "saved"
        BY <2>3 DEF PollerAnswers, Control, PlaceInv
      <4>2. conn.in = <<>> /\ conn.q = <<>>
        BY Zenon, <3>1, <4>1 DEF Readable, Line
      <4>3. conn'.q = conn.q /\ conn'.in = conn.in
        BY Zenon, <3>1, AtPlaceIs DEF IsConn
      <4> QED BY Zenon, <3>1, <4>2, <4>3, <1>TurnsSilent DEF Nothing
    <3>2. CASE t'.pc = "new"
      BY Zenon, <3>2, <1>TurnsFree
    <3> QED BY Zenon, <2>0, <2>3, <3>1, <3>2, PollerTask DEF TaskAfterPoller, Is
  <2>4. CASE Connect
    <3>1. Nothing(conn'.q, conn'.in)
      BY Zenon, <2>4, FreshIs DEF Connect, IsConn, Nothing
    <3>2. t'.pc \in {"run", "all", "head"}
      BY Zenon, <2>0, <2>4, ConnectTask DEF TaskAfterConnect, Is
    <3> QED BY <3>1, <3>2, <1>TurnsSilent
  <2>5. CASE ConnectFails \/ Fail
    <3>1. t'.pc \in {"new", "fail", "done"}
      BY Zenon, <2>0, <2>5, ConnectFailsTask, FailTask DEF TaskAfterConnectFails, TaskAfterFail, AtWith, Is
    <3> QED BY <3>1, <1>TurnsFree
  <2> QED BY Zenon, <2>1, <2>2, <2>3, <2>4, <2>5
<1>AskedTurns.
  ASSUME TaskType, ConnType, Line, Nothing(conn.q, conn.in), UNCHANGED req, conn'.q = Append(conn.q, n), conn'.in = conn.in,
         conn'.infos = conn.infos, conn'.expect => req.expect /\ req.body > 0, conn'.expect \in BOOLEAN,
         t'.pc \in {"copy", "recv"} \/ (t'.pc = "adapt" /\ b'.sent)
  PROVE  Turns'
  <2>TurnAsked.
    ASSUME NEW k, NEW e \in BOOLEAN
    PROVE  Turn(Append(<<>>, k), <<>>, <<>>, e)
    <3> USE <2>TurnAsked
    <3>1. Append(<<>>, k) = <<k>>
      OBVIOUS
    <3> QED BY <3>1 DEF Turn
  <2> USE <1>AskedTurns
  <2>1. conn.q = <<>> /\ conn.in = <<>> /\ conn.infos = <<>>
    BY Zenon DEF Nothing, Line
  <2>2. Turn(conn'.q, conn'.in, conn'.infos, conn'.expect)
    BY Zenon, <2>1, <2>TurnAsked
  <2>3. t'.pc # "last" /\ (t'.pc \in {"copy", "recv", "final", "last"} \/ (t'.pc \in {"adapt", "early"} /\ b'.sent))
    OBVIOUS
  <2> QED BY Zenon, <2>2, <2>3, <1>TurnsTalking
<1>FailedTurns.
  ASSUME t'.pc \in {"fail", "renew"}
  PROVE  Turns'
  <2> USE <1>FailedTurns
  <2>1. t'.pc \in {"idle", "policy", "alive", "recv_conn", "new", "renew", "fail", "done"}
    OBVIOUS
  <2> QED BY Zenon, <2>1, <1>TurnsFree
<1>SendTurns.
  ASSUME Control, BodyType, ConnType, ConnType', Line, Turns, Run \/ Send \/ SendAll \/ SendHead
  PROVE  Turns'
  <2> USE <1>SendTurns
  <2>0. TaskType
    BY Zenon DEF Control
  <2>1. Nothing(conn.q, conn.in) /\ UNCHANGED <<n, req>>
    <3>1. UNCHANGED <<n, req>> /\ t.pc \in {"run", "send", "all", "head"}
      BY Zenon DEF Run, Send, SendAll, SendHead
    <3> QED BY Zenon, <3>1 DEF Turns, Silent
  <2>2. conn'.expect \in BOOLEAN
    BY DEF ConnType, Conns
  <2>3. CASE Run
    <3>1. b'.sent = FALSE /\ UNCHANGED conn
      BY Zenon, <2>0, <2>3, RunBody DEF BodyAfterRun, Run, IsBody
    <3>2. t'.pc \in {"fail", "send", "adapt"}
      BY Zenon, <2>0, <2>3, RunTask DEF TaskAfterRun, At, AtAgain, Fails, Is
    <3>3. t'.pc = "fail" \/ t'.pc \in {"run", "send", "all", "head"} \/ (t'.pc = "adapt" /\ ~b'.sent)
      BY <3>1, <3>2
    <3> QED BY Zenon, <2>1, <3>1, <3>3, <1>FailedTurns, <1>TurnsSilent
  <2>4. CASE Send
    <3>1. t'.pc \in {"fail", "all", "head"} /\ UNCHANGED conn
      BY <2>0, <2>4, SendTask DEF TaskAfterSend, At, Fails, Is, Send
    <3>2. t'.pc \in {"fail", "renew"} \/ t'.pc \in {"run", "send", "all", "head"}
      BY <3>1
    <3> QED BY Zenon, <2>1, <3>1, <3>2, <1>FailedTurns, <1>TurnsSilent
  <2>5. ASSUME NEW body \in Seq(Nat), conn' = Requested(body), t'.pc \in {"recv", "copy"} PROVE Turns'
    <3>1. /\ conn'.q = Append(conn.q, n) /\ conn'.in = conn.in /\ conn'.infos = conn.infos
          /\ conn'.expect => req.expect /\ req.body > 0
      BY Zenon, <2>0, <2>5, AskedIs DEF Asked, IsConn
    <3> QED BY Zenon, <2>0, <2>1, <2>2, <2>5, <3>1, <1>AskedTurns
  <2>6. CASE SendAll
    <3>1. b.fast \in Seq(Nat)
      BY DEF BodyType, Bodies
    <3> QED BY Zenon, <2>0, <2>5, <2>6, <3>1, SendAllTask, BodyFailed, <1>FailedTurns DEF TaskAfterSendAll, AtAgain, Is
  <2>7. CASE SendHead
    BY Zenon, <2>0, <2>5, <2>7, EmptyBody, SendHeadTask, BodyFailed, <1>FailedTurns DEF TaskAfterSendHead, AtAgain, Is
  <2> QED BY Zenon, <2>3, <2>4, <2>6, <2>7
<1>MoveTurns.
  ASSUME Control, BodyType, ConnType, ConnType', ShapeInv, Line, Turns, Copy \/ Adapt \/ AdaptEnds \/ UpsReady
  PROVE  Turns'
  <2> USE <1>MoveTurns
  <2>0. TaskType /\ UNCHANGED <<n, req>>
    BY Zenon DEF Control, Copy, Adapt, AdaptEnds, UpsReady
  <2>1. conn'.expect \in BOOLEAN
    BY DEF ConnType, Conns
  <2>2. ASSUME Talking, t'.pc \in {"copy", "final"} \/ (t'.pc \in {"adapt", "early"} /\ b'.sent) \/ (t'.pc = "early" /\ ~t'.adapt),
               conn'.q = conn.q, conn'.in = conn.in, conn'.infos = conn.infos, conn'.expect = conn.expect
        PROVE  Turns'
    <3>1. Turn(conn'.q, conn'.in, conn'.infos, conn'.expect) /\ (conn'.expect => req.expect /\ req.body > 0)
      BY Zenon, <2>2 DEF Turns
    <3>2. t'.pc # "last"
      BY <2>2
    <3> QED BY Zenon, <2>0, <2>2, <3>1, <3>2, <1>TurnsTalking
  <2>3. CASE Copy
    <3>1. conn'.q = conn.q /\ conn'.in = conn.in /\ conn'.infos = conn.infos /\ conn'.expect = conn.expect
      BY Zenon, <2>3, MovesIs DEF Copy, IsConn, ConnType
    <3>2. t'.pc \in {"copy", "final"} /\ Talking
      BY <2>0, <2>3, CopyTask DEF At, Is, Copy, Talking
    <3> QED BY Zenon, <2>2, <3>1, <3>2
  <2>4. CASE Adapt
    <3>1. t.pc = "adapt" /\ t' = t
      BY Zenon, <2>4 DEF Adapt
    <3>2. b.sent => Talking
      BY <3>1 DEF Talking
    <3>3. ~b.sent => Nothing(conn.q, conn.in)
      BY <3>1 DEF Turns, Silent
    <3>4. CASE b.sent
      <4>1. b'.sent /\ conn'.q = conn.q /\ conn'.in = conn.in /\ conn'.infos = conn.infos /\ conn'.expect = conn.expect
        BY Zenon, <2>0, <2>4, <3>4, AdaptConn
      <4> QED BY Zenon, <2>2, <3>1, <3>2, <3>4, <4>1
    <3>5. CASE ~b.sent /\ ~b'.sent
      <4>1. UNCHANGED conn
        BY Zenon, <2>0, <2>4, <3>5, AdaptConn
      <4> QED BY Zenon, <3>1, <3>3, <3>5, <4>1, <1>TurnsSilent
    <3>6. CASE ~b.sent /\ b'.sent
      <4>1. /\ conn'.q = Append(conn.q, n) /\ conn'.in = conn.in /\ conn'.infos = conn.infos
            /\ conn'.expect => req.expect /\ req.body > 0
        <5>1. b'.sent # b.sent
          BY Zenon, <3>6
        <5> QED BY Zenon, <2>0, <2>4, <3>6, <5>1, AdaptConn
      <4> QED BY Zenon, <2>0, <2>1, <3>1, <3>3, <3>6, <4>1, <1>AskedTurns
    <3> QED BY Zenon, <3>4, <3>5, <3>6
  <2>5. CASE AdaptEnds
    <3>1. conn'.q = conn.q /\ conn'.in = conn.in /\ conn'.infos = conn.infos /\ conn'.expect = conn.expect
      BY Zenon, <2>5, EndsIs DEF ConnAfterEnds, IsConn
    <3>2. t'.pc = "final"
      BY Zenon, <2>0, <2>5, AdaptEndsTask DEF At, Is
    <3>3. Talking
      BY Zenon, <2>5 DEF AdaptEnds, Talking
    <3> QED BY Zenon, <2>2, <3>1, <3>2, <3>3
  <2>6. CASE UpsReady
    <3>1. UNCHANGED <<conn, b>> /\ t.pc \in {"copy", "adapt"}
      BY Zenon, <2>6 DEF UpsReady
    <3>2. CASE conn.in # <<>> /\ At("early")
      <4>1. t'.pc = "early" /\ t'.adapt = t.adapt
        BY Zenon, <3>2 DEF At, Is
      <4>2. t.pc = "adapt" => b.sent
        BY Zenon, <3>2 DEF Turns, Silent, Nothing
      <4>3. Talking
        BY <3>1, <4>2 DEF Talking
      <4>4. t.pc = "copy" => ~t.adapt
        BY DEF ShapeInv
      <4> QED BY Zenon, <2>2, <3>1, <4>1, <4>2, <4>3, <4>4
    <3>3. CASE \E r \in BOOLEAN : BodyFails("ups", r)
      BY Zenon, <3>3, BodyFailed, <1>FailedTurns
    <3> QED BY Zenon, <2>0, <2>6, <3>2, <3>3, UpsReadyTask DEF TaskAfterUpsReady
  <2> QED BY Zenon, <2>3, <2>4, <2>5, <2>6
<1>ReceiveTurns.
  ASSUME Control, ConnType, ShapeInv, Line, Turns, Early \/ Recv \/ Final
  PROVE  Turns'
  <2>TookTurns.
    ASSUME Control, ConnType, Line, Turns, Talking, Headed, NEW p, PassOn(p),
           conn.in[1].code # "final",
           \/ p \in {"copy", "final"}
           \/ p = "adapt" /\ b.sent
           \/ p = "last" /\ conn.in[1].code = "100"
    PROVE  Turns'
    <3>TurnTook.
      ASSUME NEW Q, NEW q \in Seq(Q), NEW i \in Seq(Responses), NEW f, NEW e \in BOOLEAN, Turn(q, i, f, e), i # <<>>,
             i[1].code # "final"
      PROVE  Turn(q, Tail(i), f, e)
      <4> USE <3>TurnTook
      <4> DEFINE l == Tail(i)
      <4>1. /\ Len(i) \in Nat /\ Len(i) >= 1 /\ Len(l) = Len(i) - 1
            /\ \A j \in 1..Len(l) : l[j] = i[j + 1]
            /\ l = <<>> => Len(i) = 1
        BY TailIs
      <4> HIDE DEF l
      <4>2. \A j \in 1..Len(l) : l[j].code = "final" <=> q = <<>> /\ j = Len(l)
        BY <4>1 DEF Turn
      <4>3. q = <<>> => l # <<>>
        BY <4>1 DEF Turn
      <4>4. ~e => f = <<>> /\ \A j \in 1..Len(l) : l[j].code = "final"
        BY <4>1 DEF Turn
      <4>5. \A j, k \in 1..Len(l) : l[j].code = "100" /\ j < k => l[k].code = "final"
        <5>1. \A j, k \in 1..Len(i) : i[j].code = "100" /\ j < k => i[k].code = "final"
          BY Zenon DEF Turn
        <5>2. ASSUME NEW j \in 1..Len(l), NEW k \in 1..Len(l), l[j].code = "100", j < k PROVE l[k].code = "final"
          <6>1. j + 1 \in 1..Len(i) /\ k + 1 \in 1..Len(i) /\ j + 1 < k + 1
            BY <4>1, <5>2
          <6> QED BY Zenon, <4>1, <5>1, <5>2, <6>1
        <5> QED BY Zenon, <5>2
      <4>6. q # <<>> /\ (\E j \in 1..Len(l) : l[j].code = "100") => \E k \in 1..Len(f) : f[k] = "100"
        BY <4>1 DEF Turn
      <4>7. Turn(q, l, f, e)
        BY Zenon, <4>2, <4>3, <4>4, <4>5, <4>6 DEF Turn
      <4> QED BY Zenon, <4>7 DEF l
    \* What follows a 100 is the final response.
    <3>TurnLast.
      ASSUME NEW Q, NEW q \in Seq(Q), NEW i \in Seq(Responses), NEW f, NEW e \in BOOLEAN, Turn(q, i, f, e), i # <<>>,
             i[1].code = "100"
      PROVE  Last(q, Tail(i), f)
      <4> USE <3>TurnLast
      <4>1. /\ Len(i) \in Nat /\ Len(i) >= 1 /\ Len(Tail(i)) = Len(i) - 1
            /\ \A j \in 1..Len(Tail(i)) : Tail(i)[j] = i[j + 1]
        BY TailIs
      <4>2. \A j \in 1..Len(Tail(i)) : Tail(i)[j].code = "final"
        <5>1. \A j, k \in 1..Len(i) : i[j].code = "100" /\ j < k => i[k].code = "final"
          BY Zenon DEF Turn
        <5>2. ASSUME NEW j \in 1..Len(Tail(i)) PROVE Tail(i)[j].code = "final"
          <6>1. j + 1 \in 1..Len(i) /\ 1 \in 1..Len(i) /\ 1 < j + 1
            BY <4>1
          <6> QED BY Zenon, <4>1, <5>1, <5>2, <6>1
        <5> QED BY Zenon, <5>2
      <4>3. q # <<>> => \E k \in 1..Len(f) : f[k] = "100"
        <5>1. 1 \in 1..Len(i)
          BY <4>1
        <5> QED BY Zenon, <5>1 DEF Turn
      <4> QED BY Zenon, <4>2, <4>3 DEF Last
    <3> USE <2>TookTurns
    <3>0. TaskType /\ UNCHANGED <<n, req, b>> /\ Took /\ conn.in # <<>> /\ p \in Places
      BY Zenon DEF Control, PassOn, Headed, Places
    <3>1. conn'.q = conn.q /\ conn'.in = Tail(conn.in) /\ conn'.infos = conn.infos /\ conn'.expect = conn.expect
      BY Zenon, <3>0, TookIs DEF Holds, IsConn
    <3>2. Turn(conn.q, conn.in, conn.infos, conn.expect) /\ (conn.expect => req.expect /\ req.body > 0)
      BY Zenon DEF Turns
    <3>3. Turn(conn'.q, conn'.in, conn'.infos, conn'.expect)
      BY Zenon, <3>0, <3>1, <3>2, ConnSeqs, <3>TurnTook
    <3>4. p = "last" => Last(conn'.q, conn'.in, conn'.infos)
      <4>1. p = "last" => conn.in[1].code = "100"
        OBVIOUS
      <4> QED BY Zenon, <3>0, <3>1, <3>2, <4>1, ConnSeqs, <3>TurnLast
    <3>5. CASE t'.pc = p
      BY Zenon, <3>0, <3>1, <3>2, <3>3, <3>4, <3>5, <1>TurnsTalking
    <3>6. CASE BodyFails("clt", FALSE)
      BY Zenon, <3>6, BodyFailed, <1>FailedTurns
    <3> QED BY Zenon, <3>0, <3>5, <3>6, PassOnTask DEF At, Is
  \* The final response is handed over.
  <2>RespondTurns.
    ASSUME Control, ConnType, Line, Turns, Talking, Headed, Took, rsp' = conn.in[1], UNCHANGED n, conn.in[1].code = "final",
           t'.pc = "respond"
    PROVE  Turns'
    <3>TurnOver.
      ASSUME NEW Q, NEW q \in Seq(Q), NEW i \in Seq(Responses), NEW f, NEW e \in BOOLEAN, Turn(q, i, f, e), i # <<>>,
             i[1].code = "final"
      PROVE  Nothing(q, Tail(i))
      <4> USE <3>TurnOver
      <4>1. Len(i) \in Nat /\ Len(i) >= 1 /\ (Len(i) = 1 => Tail(i) = <<>>)
        BY TailIs
      <4>2. q = <<>> /\ 1 = Len(i)
        <5>1. 1 \in 1..Len(i)
          BY <4>1
        <5> QED BY Zenon, <5>1 DEF Turn
      <4> QED BY Zenon, <4>1, <4>2 DEF Nothing
    <3> USE <2>RespondTurns
    <3>0. TaskType /\ conn.in # <<>> /\ conn.at = "task"
      BY DEF Control, Headed, PlaceInv, Talking, Using
    <3>1. conn'.q = conn.q /\ conn'.in = Tail(conn.in)
      BY Zenon, <3>0, TookIs DEF Holds, IsConn
    <3>2. Nothing(conn'.q, conn'.in)
      BY Zenon, <3>0, <3>1, ConnSeqs, <3>TurnOver DEF Turns
    <3>3. rsp'.for = n'
      <4>1. About(conn.q, conn.in, n)
        BY Zenon, <3>0 DEF Line
      <4>2. conn.in[1].for = n
        <5>1. 1 \in 1..Len(conn.in)
          BY <3>0, ConnSeqs, EmptyIs
        <5> QED BY Zenon, <4>1, <5>1 DEF About
      <4> QED BY Zenon, <4>2
    <3> QED BY Zenon, <3>2, <3>3, <1>TurnsAnswered
  <2> USE <1>ReceiveTurns
  <2>0. TaskType /\ Talking
    BY Zenon DEF Control, Talking, Early, Recv, Final
  <2>1. CASE Early
    <3>1. t.pc = "early" /\ (t.adapt => b.sent)
      BY Zenon, <2>1 DEF Early, Turns
    <3>2. CASE Headed /\ conn.in[1].code # "final" /\ t.adapt /\ PassOn("adapt")
      BY Zenon, <2>0, <3>1, <3>2, <2>TookTurns
    <3>3. CASE Headed /\ conn.in[1].code # "final" /\ ~t.adapt /\ PassOn("copy")
      BY Zenon, <2>0, <3>3, <2>TookTurns
    <3>4. CASE Headed /\ conn.in[1].code = "final" /\ FinalEarly
      <4>1. Took /\ rsp' = conn.in[1] /\ UNCHANGED n /\ t'.pc = "respond"
        BY Zenon, <2>0, <3>4, FinalEarlyTask DEF TaskAfterFinalEarly, FinalEarly, Respond, Is
      <4> QED BY Zenon, <2>0, <3>4, <4>1, <2>RespondTurns
    <3>5. CASE BodyFails("ups", FALSE)
      BY Zenon, <3>5, BodyFailed, <1>FailedTurns
    <3> QED BY Zenon, <2>0, <2>1, <3>2, <3>3, <3>4, <3>5, EarlyTask DEF TaskAfterEarly
  <2>2. CASE Recv
    <3>1. Headed /\ Took /\ rsp' = conn.in[1] /\ UNCHANGED n /\ t'.pc = "respond"
      BY Zenon, <2>0, <2>2, RecvTask DEF Recv, Respond, AtAgain, Is
    <3>2. ~(req.expect /\ req.body > 0)
      BY <2>2 DEF Recv, ShapeInv
    <3>3. ~conn.expect /\ Turn(conn.q, conn.in, conn.infos, conn.expect)
      BY Zenon, <2>0, <3>2 DEF Turns
    <3>4. 1 \in 1..Len(conn.in)
      BY <3>1, ConnSeqs, EmptyIs DEF Headed
    <3>5. conn.in[1].code = "final"
      BY Zenon, <3>3, <3>4 DEF Turn
    <3> QED BY Zenon, <2>0, <3>1, <3>5, <2>RespondTurns
  <2>3. CASE Final
    <3>1. Headed /\ t.pc \in {"final", "last"}
      BY Zenon, <2>3 DEF Final
    <3>2. CASE conn.in[1].code = "100" /\ PassOn("last")
      <4>1. conn.in[1].code # "final"
        BY <3>2
      <4> QED BY Zenon, <2>0, <3>1, <3>2, <4>1, <2>TookTurns
    <3>3. CASE conn.in[1].code = "103" /\ PassOn("final")
      <4>1. conn.in[1].code # "final"
        BY <3>3
      <4> QED BY Zenon, <2>0, <3>1, <3>3, <4>1, <2>TookTurns
    <3>4. CASE /\ t.pc = "last" \/ conn.in[1].code = "final"
               /\ At("respond") /\ Took /\ rsp' = conn.in[1] /\ UNCHANGED n
      <4>1. 1 \in 1..Len(conn.in)
        BY <3>1, ConnSeqs, EmptyIs DEF Headed
      <4>2. conn.in[1].code = "final"
        BY Zenon, <3>4, <4>1 DEF Turns, Last
      <4> QED BY Zenon, <2>0, <3>1, <3>4, <4>2, <2>RespondTurns DEF At, Is
    <3> QED BY Zenon, <2>0, <2>3, <3>2, <3>3, <3>4, FinalTask DEF TaskAfterFinal
  <2> QED BY Zenon, <2>1, <2>2, <2>3
<1>AnsweredTurns.
  ASSUME Control, ConnType, Turns, AdaptAnswers \/ SendResponse \/ SendBody
  PROVE  Turns'
  <2>TurnsClosing.
    ASSUME t'.pc = "save", t'.should_close
    PROVE  Turns'
      BY <2>TurnsClosing DEF Turns, Silent, Talking
  <2> USE <1>AnsweredTurns
  <2>0. TaskType /\ UNCHANGED <<n, conn, rsp>>
    BY Zenon DEF Control, AdaptAnswers, SendResponse, SendBody
  <2>1. CASE AdaptAnswers
    BY Zenon, <2>0, <2>1, AdaptAnswersTask, <2>TurnsClosing, <1>FailedTurns DEF AtWith, FailsWith, Is
  <2>2. CASE SendResponse \/ SendBody
    <3>1. t.pc \in {"respond", "body"}
      BY Zenon, <2>2 DEF SendResponse, SendBody
    <3>2. rsp.code = "final" /\ rsp.for = n /\ Nothing(conn.q, conn.in)
      BY Zenon, <3>1 DEF Turns
    <3>3. t'.pc \in {"body", "save"} \/ t'.pc = "fail"
      BY Zenon, <2>0, <2>2, SendResponseTask, SendBodyTask DEF TaskAfterSendResponse, At, AtWith, Fails, FailsWith, Is
    <3> QED BY Zenon, <2>0, <3>2, <3>3, <1>TurnsAnswered, <1>FailedTurns
  <2> QED BY Zenon, <2>1, <2>2
<1>EndTurns.
  ASSUME TaskType, CopyFails \/ AdaptFails \/ RecvFails \/ RecvTimeout \/ Save
  PROVE  Turns'
  <2> USE <1>EndTurns
  <2>1. CASE CopyFails \/ RecvFails \/ RecvTimeout
    BY Zenon, <2>1, CopyFailsTask, RecvFailsTask, BodyFailed, <1>FailedTurns
  <2>2. CASE AdaptFails
    BY Zenon, <2>2, AdaptFailsTask, <1>FailedTurns DEF Fails, Is
  <2>3. CASE Save
    BY Zenon, <2>3, SaveTask, <1>TurnsFree DEF At, Is
  <2> QED BY Zenon, <2>1, <2>2, <2>3
<1> QED
  <2> SUFFICES ASSUME ~EarlyHints, Control, BodyType, ConnType, ShapeInv, Line, Turns, ConnType', [Next]_vars
               PROVE  Turns'
    OBVIOUS
  <2>0. TaskType
    BY Zenon DEF Control
  <2>1. CASE Environment
    BY Zenon, <2>1, <1>EnvTurns
  <2>2. CASE Stopped \/ UNCHANGED vars
    BY Zenon, <2>2, <1>TurnsSame DEF Stopped, vars
  <2>3. CASE Start \/ Policy \/ GetAlive \/ PollerCloses \/ PollerAnswers \/ Connect \/ ConnectFails \/ Fail
    BY Zenon, <2>3, <1>BeginTurns
  <2>4. CASE Run \/ Send \/ SendAll \/ SendHead
    BY Zenon, <2>4, <1>SendTurns
  <2>5. CASE Copy \/ Adapt \/ AdaptEnds \/ UpsReady
    BY Zenon, <2>5, <1>MoveTurns
  <2>6. CASE Early \/ Recv \/ Final \/ AdaptAnswers \/ SendResponse \/ SendBody
    BY Zenon, <2>6, <1>ReceiveTurns, <1>AnsweredTurns
  <2>7. CASE CopyFails \/ AdaptFails \/ RecvFails \/ RecvTimeout \/ Save
    BY Zenon, <2>0, <2>7, <1>EndTurns
  <2> QED BY Zenon, <2>1, <2>2, <2>3, <2>4, <2>5, <2>6, <2>7 DEF Next, Task, Poller

-----------------------------------------------------------------------------
(* The client connection *)

\* The client connection is kept only by a task that got to its end.
LEMMA KeptStep ==
  ASSUME Bounds
  PROVE  ~EagerIcap /\ ~SockOptsFail /\ Control /\ BodyType /\ ConnType /\ BodyInv /\ Turns /\ KeptInv /\ [Next]_vars => KeptInv'
<1>SaveKept.
  ASSUME ~EagerIcap, Control, BodyInv, Turns, Save
  PROVE  KeptInv'
  <2> USE <1>SaveKept
  <2>1. t.pc = "save" /\ UNCHANGED <<req, b, rsp, replied, refused>> /\ TaskType
    BY Zenon DEF Save, Control
  <2>2. CASE t.should_close
    <3>1. t'.should_close
      BY Zenon, <2>1, <2>2, SaveTask DEF At, Is
    <3> QED BY Zenon, <3>1 DEF KeptInv
  <2>3. CASE ~t.should_close
    <3>1. ~refused
      BY Zenon, <2>3 DEF Control, RetryInv
    <3>2. replied = 1
      BY SMTT(60), <2>1, <3>1 DEF Control, CountInv, Base
    <3>3. b.taken = req.body
      BY <2>1, <2>3, <3>1 DEF BodyInv, Normal, Stuck
    <3>4. rsp.code = "final"
      BY Zenon, <2>1, <2>3 DEF Turns
    <3> QED BY Zenon, <2>1, <3>2, <3>3, <3>4 DEF KeptInv
  <2> QED BY Zenon, <2>2, <2>3
<1> QED
  <2> SUFFICES ASSUME ~EagerIcap, ~SockOptsFail, Control, BodyType, ConnType, BodyInv, Turns, KeptInv, [Next]_vars
               PROVE  KeptInv'
    OBVIOUS
  <2>0. TaskType
    BY Zenon DEF Control
  <2>1. CASE t'.pc # "done" \/ t'.should_close
    BY Zenon, <2>1 DEF KeptInv
  <2>2. CASE UNCHANGED <<t, req, b, replied, rsp>>
    BY Zenon, <2>2 DEF KeptInv
  <2>3. CASE Environment
    <3>1. CASE UpsContinues
      <4>1. UNCHANGED <<t, req, b, replied>> /\ (rsp' = rsp \/ t.pc \in Responding)
        BY Zenon, <3>1 DEF UpsContinues
      <4>2. CASE t.pc \in Responding
        <5>1. t'.pc # "done"
          BY <4>1, <4>2 DEF Responding
        <5> QED BY Zenon, <2>1, <5>1
      <4> QED BY Zenon, <2>2, <4>1, <4>2
    <3> QED BY Zenon, <2>2, <2>3, <3>1 DEF Environment, ClientSends, ClientLeaves, UpsAnswers, UpsGivesUp, UpsCloses
  <2>4. CASE Stopped \/ PollerCloses \/ UNCHANGED vars
    BY Zenon, <2>2, <2>4 DEF Stopped, PollerCloses, vars
  <2>5. CASE Start \/ GetAlive \/ PollerAnswers \/ Connect \/ Run \/ Send \/ SendAll \/ SendHead
    <3>1. t'.pc \in {"policy", "recv_conn", "new", "run", "fail", "send", "adapt", "all", "head", "recv", "copy", "renew"}
      BY Zenon, <2>0, <2>5, StartTask, GetAliveTask, PollerTask, ConnectTask, RunTask, SendTask, SendAllTask, SendHeadTask, BodyFailed
         DEF TaskAfterGetAlive, TaskAfterPoller, TaskAfterConnect, TaskAfterRun, TaskAfterSend, TaskAfterSendAll, TaskAfterSendHead, At, AtAgain, Fails, Is
    <3>2. t'.pc # "done"
      BY <3>1
    <3> QED BY Zenon, <2>1, <3>2
  <2>6. CASE Policy
    <3>1. At("alive") \/ (AtWith("done", TRUE, t.send_error_response)) \/ SockOptsFail
      BY Zenon, <2>0, <2>6, PolicyTask DEF TaskAfterPolicy
    <3>2. "alive" # "done"
      OBVIOUS
    <3> QED BY Zenon, <2>1, <3>1, <3>2 DEF At, AtWith, Is
  <2>7. CASE ConnectFails \/ Fail
    <3>1. t'.pc = "new" \/ t'.should_close
      BY Zenon, <2>0, <2>7, ConnectFailsTask, FailTask DEF TaskAfterConnectFails, TaskAfterFail, AtWith, Is
    <3>2. "new" # "done"
      OBVIOUS
    <3> QED BY Zenon, <2>1, <3>1, <3>2
  <2>8. CASE Copy \/ CopyFails \/ UpsReady \/ Adapt \/ AdaptEnds \/ AdaptAnswers \/ AdaptFails
    <3>0. t.pc \in {"copy", "adapt"}
      BY Zenon, <2>8 DEF Copy, CopyFails, UpsReady, Adapt, AdaptEnds, AdaptAnswers, AdaptFails
    <3>1. t' = t \/ t'.pc \in {"final", "fail", "early", "renew", "save"}
      BY Zenon, <2>0, <2>8, CopyTask, CopyFailsTask, UpsReadyTask, AdaptEndsTask, AdaptAnswersTask, AdaptFailsTask, BodyFailed
         DEF TaskAfterUpsReady, At, AtWith, Fails, FailsWith, Is, Adapt
    <3>2. t'.pc # "done"
      BY <3>0, <3>1
    <3> QED BY Zenon, <2>1, <3>2
  <2>9. CASE Early \/ Recv \/ RecvFails \/ RecvTimeout \/ Final
    <3>1. ASSUME NEW p \in {"adapt", "copy", "last", "final"}, PassOn(p) PROVE t'.pc # "done"
      <4>1. p \in Places /\ p # "done"
        BY DEF Places
      <4>2. t'.pc = p \/ t'.pc \in {"fail", "renew"}
        BY Zenon, <2>0, <3>1, <4>1, PassOnTask, BodyFailed DEF At, Is
      <4> QED BY <4>1, <4>2
    <3>2. ASSUME t'.pc \in {"respond", "fail", "renew"} PROVE t'.pc # "done"
      BY <3>2
    <3>3. CASE Early
      BY Zenon, <2>0, <3>1, <3>2, <3>3, EarlyTask, FinalEarlyTask, BodyFailed, <2>1 DEF TaskAfterFinalEarly, TaskAfterEarly, Is
    <3>4. CASE Recv \/ RecvFails \/ RecvTimeout
      BY Zenon, <2>0, <3>2, <3>4, RecvTask, RecvFailsTask, BodyFailed, <2>1 DEF AtAgain, Is
    <3>5. CASE Final
      BY Zenon, <2>0, <3>1, <3>2, <3>5, FinalTask, <2>1 DEF TaskAfterFinal, At, Is
    <3> QED BY Zenon, <2>9, <3>3, <3>4, <3>5
  <2>10. CASE SendResponse \/ SendBody
    <3>1. t'.pc \in {"body", "save", "fail"}
      BY Zenon, <2>0, <2>10, SendResponseTask, SendBodyTask DEF TaskAfterSendResponse, At, AtWith, Fails, FailsWith, Is
    <3>2. t'.pc # "done"
      BY <3>1
    <3> QED BY Zenon, <2>1, <3>2
  <2>11. CASE Save
    BY Zenon, <2>11, <1>SaveKept
  <2> QED BY Zenon, <2>3, <2>4, <2>5, <2>6, <2>7, <2>8, <2>9, <2>10, <2>11 DEF Next, Task, Poller

-----------------------------------------------------------------------------
(* The theorems *)

\* The invariants hold at the start.
LEMMA InitIs ==
  ASSUME Bounds, Init
  PROVE  IInv /\ TalkInv /\ KeptInv
<1>0. 0 \in 0..MaxReq /\ 0 \in 0..BodyLen /\ 0 \in Nat
  BY DEF Bounds
<1>1. req \in Requests /\ req.body = 0 /\ req.keep_alive = TRUE
  BY <1>0 DEF Init, Requests
<1>2. /\ t \in Tasks /\ t.pc = "idle" /\ t.scope = "reuse" /\ t.retry = FALSE /\ t.reused = FALSE
      /\ t.should_close = FALSE
  <2>1. t = [pc |-> "idle", scope |-> "reuse", should_close |-> ~req.keep_alive, send_error_response |-> TRUE,
             retry |-> FALSE, reused |-> FALSE, adapt |-> FALSE, close_remote |-> FALSE, err |-> "none"]
    BY Zenon DEF Init, HttpProxyForwardTask
  <2>2. (~req.keep_alive) = FALSE
    BY <1>1
  <2>3. t = [pc |-> "idle", scope |-> "reuse", should_close |-> FALSE, send_error_response |-> TRUE,
             retry |-> FALSE, reused |-> FALSE, adapt |-> FALSE, close_remote |-> FALSE, err |-> "none"]
    BY Zenon, <2>1, <2>2
  <2> QED BY <2>3 DEF Tasks, Places
<1>3. n = 0 /\ replied = 0 /\ refused = FALSE /\ conn = NoConn /\ rsp = NoRsp
  BY Zenon DEF Init
<1>4. TaskType
  BY Zenon, <1>0, <1>1, <1>2, <1>3 DEF TaskType
<1>5. <<>> \in Seq(0..MaxReq) /\ <<>> \in Seq(Nat) /\ <<>> \in Seq(Responses) /\ <<>> \in Seq({"100", "103"})
  OBVIOUS
<1>6. /\ conn \in Conns /\ conn.at = "none" /\ conn.q = <<>> /\ conn.in = <<>> /\ conn.infos = <<>>
      /\ conn.open = FALSE
  BY <1>3, <1>5 DEF NoConn, Conns
<1>7. ConnType
  <2>1. rsp \in Responses
    BY <1>0, <1>3 DEF NoRsp, Responses
  <2> QED BY Zenon, <1>6, <2>1 DEF ConnType
<1>8. b \in Bodies /\ b.taken = 0
  BY <1>0, <1>5 DEF Init, Bodies
<1>9. BodyType
  <2>1. clt \in [sent : 0..BodyLen, open : BOOLEAN] /\ clt.sent = 0
    BY <1>0 DEF Init
  <2> QED BY <1>1, <1>8, <2>1 DEF BodyType
<1>10. PlaceInv /\ RetryInv /\ CountInv
  BY SMTT(60), <1>2, <1>3, <1>6 DEF PlaceInv, RetryInv, CountInv, Base, Unsent, Using
<1>11. ShapeInv /\ Normal /\ KeptInv
  BY <1>2 DEF ShapeInv, Normal, KeptInv
<1>12. GotInv
  BY <1>6 DEF GotInv
<1>13. Line
  BY <1>6 DEF Line, Nothing
<1>14. Turns
  BY <1>2 DEF Turns, Silent, Talking
<1> QED BY Zenon, <1>4, <1>7, <1>9, <1>10, <1>11, <1>12, <1>13, <1>14 DEF IInv, TalkInv, Control, BodyInv

\* The invariant is inductive.
LEMMA IInvStep ==
  ASSUME Bounds, IInv, [Next]_vars
  PROVE  IInv'
<1>1. Control /\ BodyType /\ ConnType /\ ShapeInv /\ BodyInv /\ GotInv /\ TaskType
  BY Zenon DEF IInv, Control
<1>2. Control'
  BY Zenon, <1>1, ControlStep
<1>3. BodyType' /\ ConnType'
  BY Zenon, <1>1, BodyTypeStep, ConnTypeStep
<1>4. ShapeInv' /\ BodyInv' /\ GotInv'
  BY Zenon, <1>1, ShapeStep, BodyStep, GotStep
<1> QED BY Zenon, <1>2, <1>3, <1>4 DEF IInv

\* So is the one of the conversation, given the first.
LEMMA TalkStep ==
  ASSUME Bounds, ~EarlyHints, IInv, TalkInv, [Next]_vars
  PROVE  TalkInv'
<1>1. ConnType'
  BY Zenon, IInvStep DEF IInv
<1> QED BY Zenon, <1>1, LineStep, TurnsStep DEF IInv, TalkInv

\* What an upstream is sent of a body is a beginning of it, unit by unit, through the buffer that
\* read_all_now fills, the copy, the adapter, resends and retries, whatever the client, the
\* upstream and the ICAP server do; and the state keeps its type, with no unit taken that the
\* client did not send.
THEOREM BodyCorrect ==
  Spec => []BodyIntact
<1>1. Init => IInv
  BY Zenon, ForwardAssumption, InitIs
<1>2. IInv /\ [Next]_vars => IInv'
  BY Zenon, ForwardAssumption, IInvStep
<1>3. IInv => TypeOK
  <2> SUFFICES ASSUME IInv PROVE TypeOK
    OBVIOUS
  <2>1. TaskType /\ CountInv /\ BodyType /\ ConnType
    BY Zenon DEF IInv, Control
  <2>2. b.taken \in Nat /\ b.left \in 0..BodyLen /\ b.taken <= clt.sent /\ clt.sent \in Nat
    BY <2>1, ForwardAssumption DEF Bounds, BodyType, Bodies
  <2>3. b.taken \in 0..clt.sent
    BY <2>2
  <2>4. replied \in 0..2
    BY Zenon, <2>1 DEF CountInv
  <2>5. t \in Tasks /\ n \in 0..MaxReq /\ req \in Requests /\ refused \in BOOLEAN /\ rsp \in Responses
        /\ clt \in [sent : 0..BodyLen, open : BOOLEAN]
    BY Zenon, <2>1 DEF TaskType, BodyType, ConnType
  <2> QED BY Zenon, <2>2, <2>3, <2>4, <2>5 DEF TypeOK, Tasks
<1>4. IInv => BodyIntact
  BY Zenon, <1>3 DEF IInv, GotInv, Intact, BodyIntact
<1> QED BY <1>1, <1>2, <1>4, PTL DEF Spec

\* When upstreams send informational responses only to requests that expect one: a response that
\* is handed to the client answers the request the task is about, through saved connections,
\* early responses, resends and retries; a saved connection owes no answer and was sent whole
\* bodies; and a request is answered twice only after a connect error.
THEOREM ReplyCorrect ==
  ASSUME ~EarlyHints
  PROVE  Spec => []RightReply
<1>1. Init => IInv /\ TalkInv
  BY Zenon, ForwardAssumption, InitIs
<1>2. (IInv /\ TalkInv) /\ [Next]_vars => (IInv /\ TalkInv)'
  BY Zenon, ForwardAssumption, IInvStep, TalkStep
<1>3. IInv /\ TalkInv => RightReply
  <2> SUFFICES ASSUME IInv, TalkInv PROVE RightReply
    OBVIOUS
  <2>1. t.pc \in Responding => rsp.for \in {0, n}
    BY DEF Responding, TalkInv, Turns
  <2>2. ASSUME conn.at = "saved"
        PROVE  conn.q = <<>> /\ Len(conn.got) = conn.need /\ \A i \in DOMAIN conn.in : conn.in[i].for = 0
    <3>1. DOMAIN conn.in = 1..Len(conn.in)
      BY DEF IInv, ConnType, Conns
    <3> QED BY Zenon, <2>2, <3>1 DEF IInv, TalkInv, Line, About, GotInv
  <2>3. replied > 1 => refused
    <3>1. CountInv /\ TaskType
      BY Zenon DEF IInv, Control
    <3> QED BY <3>1 DEF CountInv, Base, TaskType, Tasks, Places
  <2> QED BY Zenon, <2>1, <2>2, <2>3 DEF RightReply
<1> QED BY <1>1, <1>2, <1>3, PTL DEF Spec

\* When besides the ICAP server reads the whole body and the options of the client socket can be
\* set: a task that leaves the client connection open has answered the request once, with a
\* final response, and has read its body to the end.
THEOREM KeptCorrect ==
  ASSUME ~EarlyHints, ~EagerIcap, ~SockOptsFail
  PROVE  Spec => []KeptMeansServed
<1>1. Init => IInv /\ TalkInv /\ KeptInv
  BY Zenon, ForwardAssumption, InitIs
<1>2. (IInv /\ TalkInv /\ KeptInv) /\ [Next]_vars => (IInv /\ TalkInv /\ KeptInv)'
  <2>1. (IInv /\ TalkInv /\ KeptInv) /\ [Next]_vars => KeptInv'
    BY Zenon, ForwardAssumption, KeptStep DEF IInv, TalkInv
  <2> QED BY Zenon, ForwardAssumption, <2>1, IInvStep, TalkStep
<1>3. KeptInv => KeptMeansServed
  BY Zenon DEF KeptInv, KeptMeansServed
<1> QED BY <1>1, <1>2, <1>3, PTL DEF Spec
=============================================================================
