-------------------------- MODULE ConnectionProofs --------------------------
(***************************************************************************)
(* Proofs about the tasks of a client connection, for any length of the    *)
(* pipeline and any number of requests: the read half of the connection is *)
(* in one place, the reader looks for a request only at the end of the one *)
(* before or in front of a body that one of two tasks left unread, and the *)
(* idle timeout never closes a connection that is in use.                  *)
(* Then, for any number of clients and any limits, about the pool of       *)
(* connections to an ICAP service.                                         *)
(***************************************************************************)
EXTENDS MCConnections, TLAPS

\* No request has the read half
Unheld ==
  /\ ~Holding /\ stream = <<>>
  /\ \A i \in DOMAIN task_queue : task_queue[i].kind \notin TakesStream

\* Where the reader has the read half, and where it has just given it to a request
Places ==
  /\ reader = "parse" => parsed < sent
  /\ reader \in {"wait", "parse", "send_err"} => has_stream
  /\ reader = "back" => ~has_stream
  /\ reader # "end" /\ (has_stream \/ reader = "send") => Unheld
  /\ reader = "send" => req.kind # "bad" /\ (has_stream <=> req.kind \notin TakesStream)

\* A read half that was handed back is at the end of the requests, or no request is queued and
\* the last one left its body
Quiet == unread = "none" \/ (LeftUnread /\ task_queue = <<>>)

\* A body is unread only with the request that it belongs to
Unread ==
  /\ reader # "end" /\ has_stream => Quiet
  /\ reader # "end" /\ stream # <<>> /\ Head(stream) = "reader" => Quiet
  /\ reader # "end" /\ Holding => unread = "none" \/ cur.kind = unread
  /\ reader # "end" /\ unread # "none" =>
       \A i \in DOMAIN task_queue : task_queue[i].kind \in TakesStream => task_queue[i].kind = unread
  /\ reader = "send" => unread = "none" \/ req.kind = unread
  /\ writer = "run" => auth_failed = 0

\* The decision to quit after the timeout stays right until the timeout
Quit == reader = "wait" /\ quit_after_timeout => alive_task <= 0

IInv == Inv /\ Places /\ Unread /\ Quit

USE PipelineAssumption

\* What the writer has left unread stays so until it takes another request.
LEMMA QuietFact ==
  ASSUME UNCHANGED <<cur, auth_failed>>, unread' = unread \/ unread' = "none",
         task_queue' = task_queue \/ task_queue' = <<>>
  PROVE  (Quiet => Quiet') /\ (unread = "none" \/ LeftUnread => unread' = "none" \/ LeftUnread')
BY Zenon DEF Quiet, LeftUnread

-----------------------------------------------------------------------------
(* Sequences *)

\* What Append does to a sequence
LEMMA AppendFact ==
  ASSUME NEW S, NEW s \in Seq(S), NEW e \in S
  PROVE  /\ Append(s, e) \in Seq(S) /\ Append(s, e) # <<>>
         /\ Len(Append(s, e)) = Len(s) + 1
         /\ DOMAIN Append(s, e) = 1..(Len(s) + 1)
         /\ \A i \in 1..Len(s) : Append(s, e)[i] = s[i]
         /\ Append(s, e)[Len(s) + 1] = e
OBVIOUS

\* What Head and Tail are of a sequence that is not empty
LEMMA TailFact ==
  ASSUME NEW S, NEW s \in Seq(S), s # <<>>
  PROVE  /\ Len(s) \in Nat \ {0} /\ Head(s) = s[1] /\ Head(s) \in S
         /\ Tail(s) \in Seq(S) /\ Len(Tail(s)) = Len(s) - 1
         /\ \A i \in 1..(Len(s) - 1) : Tail(s)[i] = s[i + 1]
OBVIOUS

\* A queue has a length, and is empty when it is 0
LEMMA LenFact ==
  ASSUME NEW S, NEW s \in Seq(S)
  PROVE  Len(s) \in Nat /\ DOMAIN s = 1..Len(s) /\ (Len(s) = 0 <=> s = <<>>)
OBVIOUS

\* A sequence of length one has an empty tail
LEMMA TailOfOne ==
  ASSUME NEW S, NEW s \in Seq(S), Len(s) = 1
  PROVE  Tail(s) = <<>>
<1>1. s # <<>>
  OBVIOUS
<1>2. Tail(s) \in Seq(S) /\ Len(Tail(s)) = 0
  BY <1>1, TailFact
<1> QED BY Zenon, <1>2, LenFact

\* The initial state satisfies the invariant.
LEMMA InitInv == Init => IInv
<1> SUFFICES ASSUME Init PROVE IInv OBVIOUS
<1>1. TypeOK
  <2>1. NoReq \in Requests
    BY DEF NoReq, Requests, Kinds
  <2>2. /\ open \in BOOLEAN /\ online \in BOOLEAN /\ has_stream \in BOOLEAN /\ quit_after_timeout \in BOOLEAN
        /\ last \in BOOLEAN /\ closed \in BOOLEAN /\ lost \in BOOLEAN /\ req \in Requests /\ cur \in Requests
    BY Zenon, <2>1 DEF Init
  <2>3. /\ sent \in Nat /\ parsed \in 0..sent /\ reader \in Awaiting \cup {"take", "add", "end"}
        /\ alive_task \in Int /\ auth_failed \in 0..2 /\ Len(task_queue) <= PipelineSize
        /\ task_queue \in Seq(Requests) /\ stream \in Seq({"reader", "none"})
    BY DEF Init, Awaiting
  <2>4. /\ writer \in {"recv", "run", "untrusted", "del", "end"}
        /\ loop_action \in {"continue", "break"} /\ unread \in {"none"} \cup HasBody
    BY DEF Init, HasBody
  <2> QED BY Zenon, <2>2, <2>3, <2>4 DEF TypeOK, ReaderType, ChannelType, WriterType
<1>2. OneHolder /\ AtBoundary /\ Counted /\ Places /\ Quit
  BY DEF Init, OneHolder, AtBoundary, Counted, Places, Quit, Unheld, Holding, Busy, TakesStream, NoReq
<1>3. Unread
  BY DEF Init, Unread, Quiet, Holding
<1> QED BY Zenon, <1>1, <1>2, <1>3 DEF IInv, Inv

\* The client and the operator
LEMMA OutsideInv == IInv /\ (ClientSends \/ ClientLeaves \/ SetOffline) => IInv'
<1> SUFFICES ASSUME IInv, ClientSends \/ ClientLeaves \/ SetOffline PROVE IInv' OBVIOUS
<1>1. UNCHANGED <<readerVars, task_queue, closed, stream, alive_task, writerVars, unread, lost>>
  BY Zenon DEF ClientSends, ClientLeaves, SetOffline
<1>2. sent' \in Nat /\ sent <= sent' /\ open' \in BOOLEAN /\ online' \in BOOLEAN
  <2>1. sent \in Nat /\ open \in BOOLEAN /\ online \in BOOLEAN
    BY Zenon DEF IInv, Inv, TypeOK, ReaderType
  <2>2. open' \in BOOLEAN /\ online' \in BOOLEAN
    BY Zenon, <2>1 DEF ClientSends, ClientLeaves, SetOffline
  <2>3. sent' \in Nat /\ sent <= sent'
    BY <2>1 DEF ClientSends, ClientLeaves, SetOffline
  <2> QED BY Zenon, <2>2, <2>3
<1>3. TypeOK'
  <2>1. ReaderType'
    BY <1>1, <1>2 DEF IInv, Inv, TypeOK, ReaderType, readerVars
  <2>2. ChannelType'
    BY Zenon, <1>1 DEF IInv, Inv, TypeOK, ChannelType
  <2>3. WriterType'
    BY Zenon, <1>1 DEF IInv, Inv, TypeOK, WriterType, writerVars
  <2> QED BY Zenon, <2>1, <2>2, <2>3 DEF TypeOK
<1>4. (OneHolder /\ Counted /\ Quit)'
  BY ZenonT(30), <1>1 DEF IInv, Inv, OneHolder, Counted, Quit, Holding, Busy, readerVars, writerVars
<1>6. (AtBoundary /\ Unread)'
  BY Zenon, <1>1 DEF IInv, Inv, AtBoundary, Unread, Quiet, LeftUnread, Holding, readerVars, writerVars
<1>5. Places'
  BY <1>1, <1>2 DEF IInv, Inv, TypeOK, ReaderType, Places, Unheld, Holding, readerVars, writerVars
<1> QED BY Zenon, <1>3, <1>4, <1>5, <1>6 DEF IInv, Inv

-----------------------------------------------------------------------------
(* The reader *)

Waits == Closed \/ TakeStream \/ Fill \/ IdleTimeout \/ ParseFails

\* The steps of the reader that move nothing
LEMMA WaitsInv == IInv /\ Waits => IInv'
<1> SUFFICES ASSUME IInv, Waits PROVE IInv' OBVIOUS
<1>1. UNCHANGED <<sent, open, online, parsed, has_stream, last, req, task_queue, closed, stream,
                  alive_task, writerVars, unread, lost>>
  BY Zenon DEF Waits, Closed, TakeStream, Fill, IdleTimeout, ParseFails
<1>2. quit_after_timeout' \in BOOLEAN
  <2>1. alive_task \in Int /\ quit_after_timeout \in BOOLEAN
    BY Zenon DEF IInv, Inv, TypeOK, ReaderType, ChannelType
  <2>2. (alive_task <= 0) \in BOOLEAN
    BY <2>1
  <2> QED BY Zenon, <2>1, <2>2 DEF Waits, Closed, TakeStream, Fill, IdleTimeout, ParseFails
<1>3. /\ reader' \in {"wait", "back", "parse", "end", "take"} /\ reader # "end"
      /\ reader' = "wait" => reader = "take" /\ has_stream /\ quit_after_timeout' = (alive_task <= 0)
      /\ reader' = "back" => ~has_stream
      /\ reader' = "parse" => reader = "wait" /\ parsed < sent
      /\ reader # "add"
  BY DEF Waits, Closed, TakeStream, Fill, IdleTimeout, ParseFails, Awaiting, IInv, Inv, TypeOK, ReaderType
<1>4. TypeOK'
  <2>1. reader' \in Awaiting \cup {"take", "add", "end"}
    BY <1>3 DEF Awaiting
  <2>2. ReaderType'
    BY Zenon, <1>1, <1>2, <2>1 DEF IInv, Inv, TypeOK, ReaderType, readerVars
  <2>3. ChannelType'
    BY Zenon, <1>1 DEF IInv, Inv, TypeOK, ChannelType
  <2>4. WriterType'
    BY Zenon, <1>1 DEF IInv, Inv, TypeOK, WriterType, writerVars
  <2> QED BY Zenon, <2>2, <2>3, <2>4 DEF TypeOK
<1>5. has_stream => unread' = "none" \/ LeftUnread'
  BY Zenon, <1>1, <1>3 DEF IInv, Unread, Quiet, LeftUnread, writerVars
<1>6. OneHolder' /\ Counted' /\ AtBoundary'
  <2>1. OneHolder'
    BY Zenon, <1>1, <1>3 DEF IInv, Inv, OneHolder, Holding, writerVars
  <2>2. Counted'
    BY Zenon, <1>1, <1>3 DEF IInv, Inv, Counted, Busy, writerVars
  <2>3. AtBoundary'
    <3>1. reader' = "parse" => has_stream
      BY <1>3 DEF IInv, Places
    <3>2. AtBoundary' <=> (reader' = "wait" \/ reader' = "parse" => unread' = "none" \/ LeftUnread')
      BY Zenon DEF AtBoundary
    <3> QED BY Zenon, <1>3, <1>5, <3>1, <3>2
  <2> QED BY Zenon, <2>1, <2>2, <2>3
<1>7. Places'
  BY <1>1, <1>3 DEF IInv, Places, Unheld, Holding, writerVars
<1>8. Unread'
  <2>1. reader' # "send"
    BY <1>3
  <2>2. Quiet' <=> Quiet
    BY Zenon, <1>1 DEF Quiet, LeftUnread, writerVars
  <2> QED BY Zenon, <1>1, <1>3, <2>1, <2>2 DEF IInv, Unread, Holding, writerVars
<1>9. Quit'
  BY Zenon, <1>1, <1>3 DEF Quit
<1> QED BY Zenon, <1>4, <1>6, <1>7, <1>8, <1>9 DEF IInv, Inv

\* What a request is
LEMMA RequestFact ==
  ASSUME NEW r \in Requests, NEW on \in BOOLEAN
  PROVE  [r EXCEPT !.keep_alive = @ /\ on] \in Requests /\ [r EXCEPT !.keep_alive = @ /\ on].kind = r.kind
BY Zenon DEF Requests

\* The reader has the read half when it parses, and gives it to a request that needs it.
LEMMA ParseInv == IInv /\ Parse => IInv'
<1> SUFFICES ASSUME IInv, Parse PROVE IInv' OBVIOUS
<1>1. UNCHANGED <<sent, open, online, quit_after_timeout, task_queue, closed, stream, alive_task, writerVars, lost>>
  BY Zenon DEF Parse
<1>2. PICK r \in Requests :
        /\ req' = [r EXCEPT !.keep_alive = @ /\ online]
        /\ reader' = IF r.kind = "bad" THEN "send_err" ELSE "send"
        /\ has_stream' = (r.kind \notin TakesStream)
        /\ unread' = IF r.kind \in HasBody THEN r.kind ELSE "none"
        /\ last' = ~online
  BY Zenon DEF Parse
<1>3. reader = "parse" /\ parsed' = parsed + 1 /\ parsed < sent /\ has_stream /\ Unheld
  BY Zenon DEF Parse, IInv, Places
<1>4. req' \in Requests /\ req'.kind = r.kind
  BY Zenon, <1>2, RequestFact DEF IInv, Inv, TypeOK, ReaderType
<1>5. has_stream' \in BOOLEAN /\ last' \in BOOLEAN
  BY Zenon, <1>2
<1>6. reader' \in {"send", "send_err"} /\ parsed' \in 0..sent /\ unread' \in {"none"} \cup HasBody
  BY <1>2, <1>3 DEF IInv, Inv, TypeOK, ReaderType
<1>7. TypeOK'
  <2>1. reader' \in Awaiting \cup {"take", "add", "end"}
    BY <1>6 DEF Awaiting
  <2>2. ReaderType'
    BY Zenon, <1>1, <1>4, <1>5, <1>6, <2>1 DEF IInv, Inv, TypeOK, ReaderType, readerVars
  <2>3. ChannelType'
    BY Zenon, <1>1 DEF IInv, Inv, TypeOK, ChannelType
  <2>4. WriterType'
    BY Zenon, <1>1, <1>6 DEF IInv, Inv, TypeOK, WriterType, writerVars
  <2> QED BY Zenon, <2>2, <2>3, <2>4 DEF TypeOK
<1>8. Unheld'
  BY Zenon, <1>1, <1>3 DEF Unheld, Holding, writerVars
<1>9. OneHolder' /\ AtBoundary' /\ Quit'
  <2>1. OneHolder'
    BY Zenon, <1>1, <1>8 DEF IInv, Inv, OneHolder, Unheld, Holding, writerVars
  <2>2. AtBoundary' /\ Quit'
    BY <1>6 DEF AtBoundary, Quit
  <2> QED BY Zenon, <2>1, <2>2
<1>10. Counted'
  BY Zenon, <1>1, <1>3, <1>6 DEF IInv, Inv, Counted, Busy, writerVars
<1>11. Places'
  BY Zenon, <1>2, <1>4, <1>6, <1>8 DEF Places, TakesStream
<1>12. Unread'
  <2>1. has_stream' => unread' = "none"
    BY Zenon, <1>2 DEF TakesStream, HasBody
  <2>2. unread' = "none" \/ req'.kind = unread'
    BY Zenon, <1>2, <1>4
  <2>3. writer' = "run" => auth_failed' = 0
    BY Zenon, <1>1 DEF IInv, Unread, writerVars
  <2> QED BY Zenon, <1>8, <2>1, <2>2, <2>3 DEF Unread, Unheld, Quiet
<1> QED BY Zenon, <1>7, <1>9, <1>10, <1>11, <1>12 DEF IInv, Inv

\* The request joins the queue, and is the only one there that may have the read half.
LEMMA SendTaskInv == IInv /\ SendTask => IInv'
<1> SUFFICES ASSUME IInv, SendTask PROVE IInv' OBVIOUS
<1>1. UNCHANGED <<sent, open, online, parsed, has_stream, quit_after_timeout, last, req, closed, stream,
                  alive_task, writerVars, unread, lost>>
  BY Zenon DEF SendTask
<1>2. /\ reader \in {"send", "send_err"} /\ reader' = IF reader = "send" THEN "add" ELSE "end"
      /\ Len(task_queue) < PipelineSize /\ task_queue' = Append(task_queue, req)
  BY Zenon DEF SendTask
<1>3. task_queue \in Seq(Requests) /\ req \in Requests
  BY Zenon DEF IInv, Inv, TypeOK, ReaderType, ChannelType
<1>4. /\ task_queue' \in Seq(Requests) /\ Len(task_queue) \in Nat /\ Len(task_queue') = Len(task_queue) + 1
      /\ DOMAIN task_queue = 1..Len(task_queue) /\ DOMAIN task_queue' = 1..(Len(task_queue) + 1)
      /\ \A i \in 1..Len(task_queue) : task_queue'[i] = task_queue[i]
      /\ task_queue'[Len(task_queue) + 1] = req
  <2>1. Len(task_queue) \in Nat /\ DOMAIN task_queue = 1..Len(task_queue)
    BY Zenon, <1>3, LenFact
  <2> QED BY <1>2, <1>3, <2>1, AppendFact
<1>5. TypeOK'
  <2>1. reader' \in Awaiting \cup {"take", "add", "end"}
    BY <1>2
  <2>2. Len(task_queue') <= PipelineSize
    BY <1>2, <1>4
  <2>3. ReaderType'
    BY Zenon, <1>1, <2>1 DEF IInv, Inv, TypeOK, ReaderType, readerVars
  <2>4. ChannelType'
    BY Zenon, <1>1, <1>4, <2>2 DEF IInv, Inv, TypeOK, ChannelType
  <2>5. WriterType'
    BY Zenon, <1>1 DEF IInv, Inv, TypeOK, WriterType, writerVars
  <2> QED BY Zenon, <2>3, <2>4, <2>5 DEF TypeOK
<1>6. Unheld
  BY <1>2 DEF IInv, Places
<1>7. \A i \in DOMAIN task_queue' : task_queue'[i].kind \in TakesStream => i = Len(task_queue')
  BY <1>4, <1>6 DEF Unheld
<1>8. reader = "send" /\ has_stream => \A i \in DOMAIN task_queue' : task_queue'[i].kind \notin TakesStream
  BY <1>4, <1>6 DEF Unheld, IInv, Places
<1>9. ~Holding' /\ stream' = <<>>
  BY Zenon, <1>1, <1>6 DEF Unheld, Holding, writerVars
<1>10. OneHolder'
  BY <1>1, <1>2, <1>7, <1>8, <1>9 DEF OneHolder
<1>11. Counted' /\ AtBoundary' /\ Quit'
  <2>1. Counted'
    <3>1. Counted /\ alive_task \in Int /\ UNCHANGED <<closed, alive_task, writer>>
      BY Zenon, <1>1 DEF IInv, Inv, TypeOK, ChannelType, writerVars
    <3>2. Busy' <=> Busy
      BY Zenon, <3>1 DEF Busy
    <3>3. CASE reader = "send"
      <4>1. reader' = "add" /\ reader # "end" /\ reader # "add"
        BY <1>2, <3>3
      <4>2. ~closed => alive_task = Len(task_queue) + (IF Busy THEN 1 ELSE 0) - 0
        BY Zenon, <3>1, <4>1 DEF Counted
      <4>3. ~closed => alive_task = Len(task_queue') + (IF Busy THEN 1 ELSE 0) - 1
        BY <1>4, <4>2
      <4> QED BY Zenon, <3>1, <3>2, <4>1, <4>3 DEF Counted
    <3>4. CASE reader # "send"
      <4>1. reader' = "end"
        BY <1>2, <3>4
      <4> QED BY Zenon, <4>1 DEF Counted
    <3> QED BY Zenon, <3>3, <3>4
  <2>2. AtBoundary' /\ Quit'
    BY <1>2 DEF AtBoundary, Quit
  <2> QED BY Zenon, <2>1, <2>2
<1>12. Places'
  BY <1>1, <1>2, <1>8, <1>9 DEF Places, Unheld
<1>13. Unread'
  <2>1. CASE reader' = "end"
    <3>1. writer' = "run" => auth_failed' = 0
      BY Zenon, <1>1 DEF IInv, Unread, writerVars
    <3> QED BY <2>1, <3>1 DEF Unread
  <2>2. CASE reader' # "end"
    <3>1. reader = "send" /\ reader' # "send"
      BY <1>2, <2>2
    <3>2. unread' = unread /\ (unread = "none" \/ req.kind = unread)
      BY Zenon, <1>1, <3>1 DEF IInv, Unread
    <3>3. unread' # "none" =>
            \A i \in DOMAIN task_queue' : task_queue'[i].kind \in TakesStream => task_queue'[i].kind = unread'
      BY <1>4, <1>6, <3>2 DEF Unheld
    <3>4. has_stream' => unread' = "none"
      <4>1. unread \in {"none"} \cup HasBody /\ (has_stream <=> req.kind \notin TakesStream)
        BY Zenon, <3>1 DEF IInv, Inv, TypeOK, WriterType, Places
      <4>2. unread # "none" => unread \in TakesStream
        BY <4>1 DEF HasBody, TakesStream
      <4> QED BY Zenon, <1>1, <3>2, <4>1, <4>2
    <3>5. writer' = "run" => auth_failed' = 0
      BY Zenon, <1>1 DEF IInv, Unread, writerVars
    <3> QED BY Zenon, <1>9, <3>1, <3>3, <3>4, <3>5 DEF Unread, Quiet
  <2> QED BY Zenon, <2>1, <2>2
<1> QED BY Zenon, <1>5, <1>10, <1>11, <1>12, <1>13 DEF IInv, Inv

\* The request is counted.
LEMMA AddTaskInv == IInv /\ add_task => IInv'
<1> SUFFICES ASSUME IInv, add_task PROVE IInv' OBVIOUS
<1>1. UNCHANGED <<sent, open, online, parsed, has_stream, quit_after_timeout, last, req, task_queue, closed,
                  stream, writerVars, unread, lost>>
  BY Zenon DEF add_task
<1>2. reader = "add" /\ reader' \in {"end", "take"} /\ alive_task' = alive_task + 1
  BY DEF add_task
<1>3. TypeOK'
  <2>1. reader' \in Awaiting \cup {"take", "add", "end"}
    BY <1>2
  <2>2. alive_task' \in Int
    BY <1>2 DEF IInv, Inv, TypeOK, ChannelType
  <2>3. ReaderType'
    BY Zenon, <1>1, <2>1 DEF IInv, Inv, TypeOK, ReaderType, readerVars
  <2>4. ChannelType'
    BY Zenon, <1>1, <2>2 DEF IInv, Inv, TypeOK, ChannelType
  <2>5. WriterType'
    BY Zenon, <1>1 DEF IInv, Inv, TypeOK, WriterType, writerVars
  <2> QED BY Zenon, <2>3, <2>4, <2>5 DEF TypeOK
<1>4. OneHolder' /\ AtBoundary' /\ Quit'
  BY <1>1, <1>2 DEF IInv, Inv, OneHolder, AtBoundary, Quit, Holding, writerVars
<1>5. Counted'
  BY <1>1, <1>2 DEF IInv, Inv, TypeOK, ChannelType, Counted, Busy, writerVars
<1>6. Places'
  BY <1>1, <1>2 DEF IInv, Places, Unheld, Holding, writerVars
<1>7. Unread'
  <2>1. reader # "end" /\ reader' # "send"
    BY <1>2
  <2>2. Quiet' <=> Quiet
    BY Zenon, <1>1 DEF Quiet, LeftUnread, writerVars
  <2> QED BY Zenon, <1>1, <2>1, <2>2 DEF IInv, Unread, Holding, writerVars
<1> QED BY Zenon, <1>3, <1>4, <1>5, <1>6, <1>7 DEF IInv, Inv

\* The read half comes back, and is nowhere else.
LEMMA StreamBackInv == IInv /\ StreamBack => IInv'
<1> SUFFICES ASSUME IInv, StreamBack PROVE IInv' OBVIOUS
<1>1. UNCHANGED <<sent, open, online, parsed, quit_after_timeout, last, req, task_queue, closed, alive_task,
                  writerVars, unread, lost>>
  BY Zenon DEF StreamBack
<1>2. /\ reader = "back" /\ stream # <<>> /\ stream' = Tail(stream)
      /\ has_stream' = (Head(stream) = "reader")
      /\ reader' = IF Head(stream) = "reader" THEN "take" ELSE "end"
  BY Zenon DEF StreamBack
<1>3. stream \in Seq({"reader", "none"}) /\ Len(stream) <= 1
  BY Zenon DEF IInv, Inv, TypeOK, ChannelType, OneHolder
<1>4. Len(stream) = 1
  <2>1. Len(stream) \in Nat /\ Len(stream) # 0
    BY Zenon, <1>2, <1>3, LenFact
  <2>2. Len(stream) <= 1
    BY Zenon, <1>3
  <2>3. ASSUME NEW n \in Nat, n # 0, n <= 1 PROVE n = 1
    BY <2>3
  <2> QED BY Zenon, <2>1, <2>2, <2>3
<1>5. stream' = <<>>
  BY Zenon, <1>2, <1>3, <1>4, TailOfOne
<1>6. TypeOK'
  <2>1. reader' \in Awaiting \cup {"take", "add", "end"}
    BY <1>2
  <2>2. has_stream' \in BOOLEAN
    BY Zenon, <1>2
  <2>3. stream' \in Seq({"reader", "none"})
    BY <1>5
  <2>4. ReaderType'
    BY Zenon, <1>1, <2>1, <2>2 DEF IInv, Inv, TypeOK, ReaderType, readerVars
  <2>5. ChannelType'
    BY Zenon, <1>1, <2>3 DEF IInv, Inv, TypeOK, ChannelType
  <2>6. WriterType'
    BY Zenon, <1>1 DEF IInv, Inv, TypeOK, WriterType, writerVars
  <2> QED BY Zenon, <2>4, <2>5, <2>6 DEF TypeOK
<1>7. ~Holding' /\ \A i \in DOMAIN task_queue' : task_queue'[i].kind \notin TakesStream
  <2>1. ~Holding /\ \A i \in DOMAIN task_queue : task_queue[i].kind \notin TakesStream
    BY <1>2 DEF IInv, Inv, OneHolder
  <2> QED BY Zenon, <1>1, <2>1 DEF Holding, writerVars
<1>8. OneHolder'
  BY <1>5, <1>7 DEF OneHolder
<1>9. Counted' /\ AtBoundary' /\ Quit'
  BY <1>1, <1>2 DEF IInv, Inv, Counted, AtBoundary, Quit, Busy, writerVars
<1>10. Places'
  BY <1>2, <1>5, <1>7 DEF Places, Unheld
<1>11. Unread'
  <2>1. reader # "end" /\ reader' # "send" /\ (reader' # "end" => Head(stream) = "reader")
    BY <1>2
  <2>2. Quiet' <=> Quiet
    BY Zenon, <1>1 DEF Quiet, LeftUnread, writerVars
  <2> QED BY Zenon, <1>1, <1>2, <1>5, <1>7, <2>1, <2>2 DEF IInv, Unread, writerVars
<1> QED BY Zenon, <1>6, <1>8, <1>9, <1>10, <1>11 DEF IInv, Inv

-----------------------------------------------------------------------------
(* The writer *)

\* What WriterEnds does to the queue
LEMMA EndFact ==
  ASSUME IInv, WriterEnds
  PROVE  /\ task_queue' \in Seq(Requests) /\ Len(task_queue') <= PipelineSize /\ DOMAIN task_queue' = {}
         /\ task_queue' = <<>> /\ closed' \in BOOLEAN /\ closed'
         /\ writer' = "end" /\ writer' \in {"recv", "run", "untrusted", "del", "end"}
<1>1. task_queue' = <<>> /\ closed' = TRUE /\ writer' = "end"
  BY Zenon DEF WriterEnds
<1>2. task_queue' \in Seq(Requests) /\ Len(task_queue') <= PipelineSize /\ DOMAIN task_queue' = {}
  BY <1>1
<1> QED BY Zenon, <1>1, <1>2

\* A request that the writer takes is counted still.
LEMMA TakenFact ==
  ASSUME Counted, ~Busy, Busy', alive_task \in Int, UNCHANGED <<reader, closed, alive_task>>,
         Len(task_queue) \in Nat, Len(task_queue') = Len(task_queue) - 1
  PROVE  Counted'
<1>1. CASE reader = "end" \/ closed
  BY Zenon, <1>1 DEF Counted
<1>2. CASE reader # "end" /\ ~closed
  <2>1. alive_task = Len(task_queue) + 0 - (IF reader = "add" THEN 1 ELSE 0)
    BY Zenon, <1>2 DEF Counted
  <2>2. alive_task = Len(task_queue') + 1 - (IF reader = "add" THEN 1 ELSE 0)
    BY <2>1
  <2> QED BY Zenon, <2>2 DEF Counted
<1> QED BY Zenon, <1>1, <1>2

\* The writer takes the next request.
LEMMA TakeInv ==
  ASSUME IInv, Recv, task_queue # <<>>, cur' = Head(task_queue), task_queue' = Tail(task_queue),
         writer' \in {"run", "untrusted"}, auth_failed' \in 0..2, UNCHANGED closed,
         writer' = "run" => auth_failed' = 0
  PROVE  IInv'
<1>1. UNCHANGED <<sent, open, online, readerVars, stream, alive_task, loop_action, unread, lost, closed>>
  BY Zenon DEF Recv
<1>2. task_queue \in Seq(Requests) /\ writer = "recv"
  BY Zenon DEF IInv, Inv, TypeOK, ChannelType, Recv
<1>3. /\ Len(task_queue) \in Nat \ {0} /\ cur' = task_queue[1] /\ cur' \in Requests
      /\ task_queue' \in Seq(Requests) /\ Len(task_queue') = Len(task_queue) - 1
      /\ \A i \in 1..(Len(task_queue) - 1) : task_queue'[i] = task_queue[i + 1]
      /\ DOMAIN task_queue = 1..Len(task_queue) /\ DOMAIN task_queue' = 1..(Len(task_queue) - 1)
  <2>1. /\ Len(task_queue) \in Nat \ {0} /\ cur' = task_queue[1] /\ cur' \in Requests
        /\ task_queue' \in Seq(Requests) /\ Len(task_queue') = Len(task_queue) - 1
        /\ \A i \in 1..(Len(task_queue) - 1) : task_queue'[i] = task_queue[i + 1]
    BY Zenon, <1>2, TailFact
  <2>2. DOMAIN task_queue = 1..Len(task_queue) /\ DOMAIN task_queue' = 1..Len(task_queue')
    BY Zenon, <1>2, <2>1, LenFact
  <2> QED BY Zenon, <2>1, <2>2
<1>4. TypeOK'
  <2>1. Len(task_queue') <= PipelineSize
    BY <1>3 DEF IInv, Inv, TypeOK, ChannelType
  <2>2. writer' \in {"recv", "run", "untrusted", "del", "end"}
    OBVIOUS
  <2>3. ReaderType'
    BY Zenon, <1>1 DEF IInv, Inv, TypeOK, ReaderType, readerVars
  <2>4. ChannelType'
    BY Zenon, <1>1, <1>3, <2>1 DEF IInv, Inv, TypeOK, ChannelType
  <2>5. WriterType'
    BY Zenon, <1>1, <1>3, <2>2 DEF IInv, Inv, TypeOK, WriterType, writerVars
  <2> QED BY Zenon, <2>3, <2>4, <2>5 DEF TypeOK
<1>5. \A i \in DOMAIN task_queue' : task_queue'[i] = task_queue[i + 1] /\ i + 1 \in DOMAIN task_queue
  BY <1>3
<1>6. 1 \in DOMAIN task_queue
  BY <1>3
<1>7. OneHolder'
  <2>1. \A i \in DOMAIN task_queue' : task_queue'[i].kind \in TakesStream => i = Len(task_queue')
    BY <1>3, <1>5 DEF IInv, Inv, OneHolder
  <2>2. Holding' => task_queue' = <<>>
    <3>1. SUFFICES ASSUME Holding' PROVE task_queue' = <<>> OBVIOUS
    <3>2. 1 = Len(task_queue)
      BY Zenon, <1>3, <1>6, <3>1 DEF IInv, Inv, OneHolder, Holding
    <3> QED BY Zenon, <1>2, <3>2, TailOfOne
  <2>3. reader' # "end" /\ (has_stream' \/ stream' # <<>>) =>
          ~Holding' /\ \A i \in DOMAIN task_queue' : task_queue'[i].kind \notin TakesStream
    BY Zenon, <1>1, <1>3, <1>5, <1>6 DEF IInv, Inv, OneHolder, Holding, readerVars
  <2>4. Len(stream') <= 1
    BY Zenon, <1>1 DEF IInv, Inv, OneHolder
  <2> QED BY Zenon, <2>1, <2>2, <2>3, <2>4 DEF OneHolder
<1>8. Counted'
  <2>1. ~Busy /\ Busy' /\ alive_task \in Int
    BY <1>2 DEF Busy, IInv, Inv, TypeOK, ChannelType
  <2>2. Len(task_queue) \in Nat /\ Len(task_queue') = Len(task_queue) - 1
    BY <1>3
  <2>3. UNCHANGED <<reader, closed, alive_task>> /\ Counted
    BY Zenon, <1>1 DEF readerVars, IInv, Inv
  <2> QED BY Zenon, <2>1, <2>2, <2>3, TakenFact
<1>0. reader # "end" /\ (has_stream \/ (stream # <<>> /\ Head(stream) = "reader")) => unread' = "none"
  BY Zenon, <1>1 DEF IInv, Unread, Quiet
<1>9. AtBoundary' /\ Quit'
  <2>1. reader \in {"wait", "parse"} => reader # "end" /\ has_stream
    BY DEF IInv, Places
  <2> QED BY Zenon, <1>0, <1>1, <2>1 DEF IInv, AtBoundary, Quit, readerVars
<1>10. Unheld => Unheld'
  BY Zenon, <1>1, <1>3, <1>5, <1>6 DEF Unheld, Holding
<1>11. Places'
  BY Zenon, <1>1, <1>10 DEF IInv, Places, readerVars
<1>12. Unread'
  <2>1. /\ reader' # "end" /\ has_stream' => Quiet'
        /\ reader' # "end" /\ stream' # <<>> /\ Head(stream') = "reader" => Quiet'
    BY Zenon, <1>0, <1>1 DEF Quiet, readerVars
  <2>2. reader' # "end" /\ Holding' => unread' = "none" \/ cur'.kind = unread'
    BY Zenon, <1>1, <1>3, <1>6 DEF IInv, Unread, Holding, readerVars
  <2>3. reader' # "end" /\ unread' # "none" =>
          \A i \in DOMAIN task_queue' : task_queue'[i].kind \in TakesStream => task_queue'[i].kind = unread'
    BY Zenon, <1>1, <1>5 DEF IInv, Unread, readerVars
  <2>4. reader' = "send" => unread' = "none" \/ req'.kind = unread'
    BY Zenon, <1>1 DEF IInv, Unread, readerVars
  <2> QED BY Zenon, <2>1, <2>2, <2>3, <2>4 DEF Unread
<1> QED BY Zenon, <1>4, <1>7, <1>8, <1>9, <1>11, <1>12 DEF IInv, Inv

\* The queue is dropped with its writer.
LEMMA WriterEndsInv ==
  ASSUME IInv, WriterEnds,
         UNCHANGED <<sent, open, online, readerVars, stream, cur, auth_failed, loop_action, unread, lost>>,
         alive_task' \in Int, Quit'
  PROVE  IInv'
<1>1. TypeOK'
  <2>1. ReaderType'
    BY Zenon DEF IInv, Inv, TypeOK, ReaderType, readerVars
  <2>2. ChannelType'
    BY Zenon, EndFact DEF IInv, Inv, TypeOK, ChannelType
  <2>3. WriterType'
    BY Zenon, EndFact DEF IInv, Inv, TypeOK, WriterType, writerVars
  <2> QED BY Zenon, <2>1, <2>2, <2>3 DEF TypeOK
<1>2. ~Holding' /\ \A i \in DOMAIN task_queue' : FALSE
  BY EndFact DEF Holding
<1>3. OneHolder' /\ AtBoundary' /\ Counted'
  BY Zenon, EndFact, QuietFact, <1>2 DEF IInv, Inv, OneHolder, AtBoundary, Counted, readerVars
<1>4. Unheld => Unheld'
  BY Zenon, <1>2 DEF Unheld
<1>5. Places'
  BY Zenon, <1>4 DEF IInv, Places, readerVars
<1>6. Unread'
  <2>1. Quiet => Quiet'
    BY Zenon, EndFact, QuietFact
  <2>2. writer' # "run"
    BY EndFact
  <2> QED BY Zenon, <1>2, <2>1, <2>2 DEF IInv, Unread, readerVars
<1> QED BY Zenon, <1>1, <1>3, <1>5, <1>6 DEF IInv, Inv

\* The writer waits for a request.
LEMMA RecvInv == IInv /\ Recv => IInv'
<1> SUFFICES ASSUME IInv, Recv PROVE IInv' OBVIOUS
<1>1. UNCHANGED <<sent, open, online, readerVars, stream, alive_task, loop_action, unread, lost>>
  BY Zenon DEF Recv
<1>2. CASE WriterEnds /\ UNCHANGED <<cur, auth_failed>>
  <2>1. Quit' /\ alive_task' \in Int
    BY Zenon, <1>1 DEF IInv, Inv, TypeOK, ChannelType, Quit, readerVars
  <2> QED BY Zenon, <1>1, <1>2, <2>1, WriterEndsInv
<1>3. CASE /\ task_queue # <<>> /\ cur' = Head(task_queue) /\ task_queue' = Tail(task_queue)
           /\ \/ writer' = "run" /\ auth_failed' = 0
              \/ writer' = "untrusted" /\ auth_failed' = IF auth_failed < 2 THEN auth_failed + 1 ELSE 2
           /\ UNCHANGED closed
  <2>1. writer' \in {"run", "untrusted"} /\ auth_failed' \in 0..2
    BY <1>3 DEF IInv, Inv, TypeOK, WriterType
  <2>2. writer' = "run" => auth_failed' = 0
    BY <1>3
  <2> QED BY Zenon, <1>3, <2>1, <2>2, TakeInv
<1> QED BY Zenon, <1>2, <1>3 DEF Recv

\* The writer is done with a request.
LEMMA DelTaskInv == IInv /\ del_task => IInv'
<1> SUFFICES ASSUME IInv, del_task PROVE IInv' OBVIOUS
<1>1. UNCHANGED <<sent, open, online, readerVars, stream, cur, auth_failed, loop_action, unread, lost>>
  BY Zenon DEF del_task
<1>2. writer = "del" /\ alive_task' = alive_task - 1 /\ alive_task \in Int
  BY Zenon DEF del_task, IInv, Inv, TypeOK, ChannelType
<1>3. alive_task' \in Int /\ Quit'
  BY <1>1, <1>2 DEF IInv, Quit, readerVars
<1>4. CASE WriterEnds
  BY Zenon, <1>1, <1>3, <1>4, WriterEndsInv
<1>5. CASE writer' = "recv" /\ UNCHANGED <<closed, task_queue>>
  <2>1. writer' \in {"recv", "run", "untrusted", "del", "end"}
    BY <1>5
  <2>2. TypeOK'
    <3>1. ReaderType'
      BY Zenon, <1>1 DEF IInv, Inv, TypeOK, ReaderType, readerVars
    <3>2. ChannelType'
      BY Zenon, <1>1, <1>3, <1>5 DEF IInv, Inv, TypeOK, ChannelType
    <3>3. WriterType'
      BY Zenon, <1>1, <2>1 DEF IInv, Inv, TypeOK, WriterType, writerVars
    <3> QED BY Zenon, <3>1, <3>2, <3>3 DEF TypeOK
  <2>3. ~Holding'
    BY <1>5 DEF Holding
  <2>4. OneHolder' /\ AtBoundary'
    BY Zenon, <1>1, <1>5, <2>3, QuietFact DEF IInv, Inv, OneHolder, AtBoundary, readerVars
  <2>5. Counted'
    <3>1. Busy /\ ~Busy' /\ Counted /\ UNCHANGED <<reader, closed, task_queue>>
      BY <1>1, <1>2, <1>5 DEF Busy, IInv, Inv, readerVars
    <3>2. Len(task_queue) \in Nat
      BY Zenon, LenFact DEF IInv, Inv, TypeOK, ChannelType
    <3> QED BY <1>2, <3>1, <3>2 DEF Counted
  <2>6. Places' /\ Unread'
    <3>1. Quiet => Quiet'
      BY Zenon, <1>1, <1>5, QuietFact
    <3>2. writer' # "run"
      <4>1. writer' = "recv"
        BY Zenon, <1>5
      <4> QED BY <4>1
    <3> QED BY Zenon, <1>1, <1>5, <2>3, <3>1, <3>2 DEF IInv, Places, Unread, Unheld, readerVars
  <2> QED BY Zenon, <1>3, <2>2, <2>4, <2>5, <2>6 DEF IInv, Inv
<1> QED BY Zenon, <1>4, <1>5 DEF del_task

\* How a task leaves the channels and the body of its request
Leaves(should_close) ==
  /\ Settle(should_close)
  /\ \/ Drained(should_close)
     \/ writer = "run" /\ cur.kind \in {"connect_body", "ftp_put"} /\ UNCHANGED unread

\* A task that ends hands the read half back at most once, at the end of its request.
LEMMA LeavesFact ==
  ASSUME IInv, writer \in {"run", "untrusted"}, NEW should_close \in BOOLEAN, Leaves(should_close),
         UNCHANGED <<task_queue, cur, auth_failed>>
  PROVE  /\ closed' \in BOOLEAN /\ (closed => closed') /\ lost' \in BOOLEAN /\ loop_action' \in {"continue", "break"}
         /\ unread' = unread \/ unread' = "none"
         /\ \/ stream' = stream
            \/ /\ Holding /\ reader # "end"
               /\ \E e \in {"reader", "none"} : stream' = Append(stream, e) /\ (e = "reader" => Quiet')
<1>1. closed \in BOOLEAN /\ lost \in BOOLEAN
  BY Zenon DEF IInv, Inv, TypeOK, ChannelType, WriterType
<1>2. unread' = unread \/ unread' = "none"
  BY Zenon DEF Leaves, Drained
<1>3. CASE cur.kind \notin TakesStream
  <2>1. /\ closed' \in BOOLEAN /\ (closed => closed') /\ lost' \in BOOLEAN
        /\ loop_action' = "continue" \/ loop_action' = "break"
        /\ stream' = stream
    BY Zenon, <1>1, <1>3 DEF Leaves, Settle, NotifyClose
  <2> QED BY Zenon, <1>2, <2>1
<1>4. CASE cur.kind \in TakesStream /\ should_close
  <2>1. GiveUp
    BY Zenon, <1>4 DEF Leaves, Settle
  <2>2. Holding
    BY Zenon, <1>4 DEF Holding
  <2>3. /\ closed' = closed /\ lost' = lost /\ loop_action' = "break"
        /\ stream' = stream \/ (reader # "end" /\ stream' = Append(stream, "none"))
    BY Zenon, <2>1 DEF GiveUp
  <2>4. loop_action' \in {"continue", "break"} /\ ("none" = "reader" => FALSE)
    BY <2>3
  <2> QED BY Zenon, <1>1, <1>2, <2>2, <2>3, <2>4
<1>5. CASE cur.kind \in TakesStream /\ ~should_close
  <2>1. GiveBack
    BY Zenon, <1>5 DEF Leaves, Settle
  <2>2. Holding
    BY Zenon, <1>5 DEF Holding
  <2>3. /\ closed' = closed /\ lost' \in BOOLEAN /\ (loop_action' = "continue" \/ loop_action' = "break")
        /\ stream' = stream \/ (reader # "end" /\ stream' = Append(stream, "reader"))
    BY Zenon, <1>1, <2>1 DEF GiveBack
  <2>4. ASSUME reader # "end" PROVE Quiet'
    <3>1. unread = "none" \/ cur.kind = unread
      BY Zenon, <2>2, <2>4 DEF IInv, Unread
    <3>2. task_queue = <<>>
      BY Zenon, <2>2 DEF IInv, Inv, OneHolder
    <3>3. unread \in {"none"} \cup HasBody
      BY Zenon DEF IInv, Inv, TypeOK, WriterType
    <3>4. CASE Drained(should_close)
      <4>1. unread' = "none"
        BY <1>5, <3>1, <3>3, <3>4 DEF Drained
      <4> QED BY Zenon, <4>1 DEF Quiet
    <3>5. CASE writer = "run" /\ cur.kind \in {"connect_body", "ftp_put"} /\ UNCHANGED unread
      <4>1. auth_failed = 0
        BY Zenon, <3>5 DEF IInv, Unread
      <4> QED BY Zenon, <3>1, <3>2, <3>5, <4>1 DEF Quiet, LeftUnread
    <3> QED BY Zenon, <3>4, <3>5 DEF Leaves
  <2> QED BY Zenon, <1>1, <1>2, <2>2, <2>3, <2>4
<1> QED BY Zenon, <1>3, <1>4, <1>5

\* The writer has run the task for a request.
LEMMA HandledInv ==
  ASSUME IInv, writer \in {"run", "untrusted"}, writer' = "del",
         UNCHANGED <<sent, open, online, readerVars, task_queue, alive_task, cur, auth_failed>>,
         closed' \in BOOLEAN, closed => closed', lost' \in BOOLEAN, loop_action' \in {"continue", "break"},
         unread' = unread \/ unread' = "none",
         \/ stream' = stream
         \/ /\ Holding /\ reader # "end"
            /\ \E e \in {"reader", "none"} : stream' = Append(stream, e) /\ (e = "reader" => Quiet')
  PROVE  IInv'
<1>1. ~Holding'
  BY DEF Holding
<1>2. Counted'
  <2>1. Busy /\ Busy'
    BY DEF Busy
  <2> QED BY Zenon, <2>1 DEF IInv, Inv, Counted, readerVars
<1>3. AtBoundary' /\ Quit'
  BY Zenon, QuietFact DEF IInv, Inv, AtBoundary, Quit, readerVars
<1>4. unread' \in {"none"} \cup HasBody /\ writer' \in {"recv", "run", "untrusted", "del", "end"}
  BY DEF IInv, Inv, TypeOK, WriterType
<1>5. ASSUME stream' \in Seq({"reader", "none"}) PROVE TypeOK'
  <2>1. ReaderType'
    BY Zenon DEF IInv, Inv, TypeOK, ReaderType, readerVars
  <2>2. ChannelType'
    BY Zenon, <1>5 DEF IInv, Inv, TypeOK, ChannelType
  <2>3. WriterType'
    BY Zenon, <1>4 DEF IInv, Inv, TypeOK, WriterType, writerVars
  <2> QED BY Zenon, <2>1, <2>2, <2>3 DEF TypeOK
<1>8. (Quiet => Quiet') /\ writer' # "run"
  <2>1. writer' # "run"
    OBVIOUS
  <2> QED BY Zenon, QuietFact, <2>1
<1>6. CASE stream' = stream
  <2>1. TypeOK'
    BY Zenon, <1>5, <1>6 DEF IInv, Inv, TypeOK, ChannelType
  <2>2. OneHolder'
    BY Zenon, <1>1, <1>6 DEF IInv, Inv, OneHolder, readerVars
  <2>3. Places'
    BY Zenon, <1>1, <1>6 DEF IInv, Places, Unheld, readerVars
  <2>4. Unread'
    BY Zenon, <1>1, <1>6, <1>8 DEF IInv, Unread, readerVars
  <2> QED BY Zenon, <1>2, <1>3, <2>1, <2>2, <2>3, <2>4 DEF IInv, Inv
<1>7. CASE /\ Holding /\ reader # "end"
           /\ \E e \in {"reader", "none"} : stream' = Append(stream, e) /\ (e = "reader" => Quiet')
  <2>1. PICK e \in {"reader", "none"} : stream' = Append(stream, e) /\ (e = "reader" => Quiet')
    BY Zenon, <1>7
  <2>2. ~has_stream /\ stream = <<>> /\ reader # "send" /\ task_queue = <<>>
    BY Zenon, <1>7 DEF IInv, Inv, OneHolder, Places, Unheld
  <2>3. stream' = <<e>>
    BY <2>1, <2>2
  <2>4. stream' \in Seq({"reader", "none"}) /\ Len(stream') <= 1 /\ Head(stream') = e
    BY <2>3
  <2>5. \A i \in DOMAIN task_queue' : FALSE
    BY <2>2
  <2>6. OneHolder'
    BY Zenon, <1>1, <2>2, <2>4, <2>5 DEF OneHolder
  <2>7. Places'
    BY <2>2 DEF IInv, Places, readerVars
  <2>8. Unread'
    BY Zenon, <1>1, <1>8, <2>1, <2>2, <2>4, <2>5 DEF IInv, Unread, readerVars
  <2> QED BY Zenon, <1>2, <1>3, <1>5, <2>4, <2>6, <2>7, <2>8 DEF IInv, Inv
<1> QED BY Zenon, <1>6, <1>7

\* notify_reader_to_close leaves the read half where it is.
LEMMA NotifyInv ==
  ASSUME IInv, writer \in {"run", "untrusted"}, writer' = "del",
         UNCHANGED <<sent, open, online, readerVars, task_queue, alive_task, cur, auth_failed>>,
         NotifyClose, UNCHANGED unread
  PROVE  IInv'
<1>1. /\ closed' \in BOOLEAN /\ closed' /\ lost' \in BOOLEAN /\ loop_action' = "break" /\ stream' = stream
  BY Zenon DEF NotifyClose, IInv, Inv, TypeOK, WriterType
<1>2. loop_action' \in {"continue", "break"}
  BY <1>1
<1> QED BY Zenon, <1>1, <1>2, HandledInv

\* The writer runs the task for a request, or the one for a request it does not trust.
LEMMA RunInv == IInv /\ (Run \/ run_untrusted) => IInv'
<1> SUFFICES ASSUME IInv, Run \/ run_untrusted PROVE IInv' OBVIOUS
<1>1. /\ writer = "run" \/ writer = "untrusted"
      /\ writer' = "del"
      /\ UNCHANGED <<sent, open, online, readerVars, task_queue, alive_task, cur, auth_failed>>
  BY Zenon DEF Run, run_untrusted
<1>2. writer \in {"run", "untrusted"}
  BY <1>1
<1>3. CASE NotifyClose /\ UNCHANGED unread
  BY Zenon, <1>1, <1>2, <1>3, NotifyInv
<1>4. CASE \E should_close \in BOOLEAN : Leaves(should_close)
  BY Zenon, <1>1, <1>2, <1>4, LeavesFact, HandledInv
<1>5. TaskEnds /\ writer = "run" => \E should_close \in BOOLEAN : Leaves(should_close)
  BY Zenon DEF TaskEnds, Leaves
<1> QED BY Zenon, <1>3, <1>4, <1>5 DEF Run, run_untrusted, Leaves

-----------------------------------------------------------------------------
(* Theorems *)

\* Every step keeps the invariant.
LEMMA NextInv == IInv /\ [Next]_vars => IInv'
<1> SUFFICES ASSUME IInv, [Next]_vars PROVE IInv' OBVIOUS
<1>1. CASE UNCHANGED vars
  <2>1. UNCHANGED <<sent, open, online, parsed, reader, has_stream, quit_after_timeout, last, req>>
    BY Zenon, <1>1 DEF vars, readerVars
  <2>2. UNCHANGED <<task_queue, closed, stream, alive_task, writer, cur, auth_failed, loop_action, unread, lost>>
    BY Zenon, <1>1 DEF vars, writerVars
  <2>3. TypeOK'
    <3>1. ReaderType'
      BY Zenon, <2>1 DEF IInv, Inv, TypeOK, ReaderType
    <3>2. ChannelType'
      BY Zenon, <2>2 DEF IInv, Inv, TypeOK, ChannelType
    <3>3. WriterType'
      BY Zenon, <2>2 DEF IInv, Inv, TypeOK, WriterType
    <3> QED BY Zenon, <3>1, <3>2, <3>3 DEF TypeOK
  <2>4. (OneHolder /\ AtBoundary /\ Counted)'
    BY Zenon, <2>1, <2>2 DEF IInv, Inv, OneHolder, AtBoundary, LeftUnread, Counted, Holding, Busy
  <2>5. (Places /\ Unread /\ Quit)'
    BY Zenon, <2>1, <2>2 DEF IInv, Places, Unread, Quiet, LeftUnread, Quit, Unheld, Holding
  <2> QED BY Zenon, <2>3, <2>4, <2>5 DEF IInv, Inv
<1>2. CASE ClientSends \/ ClientLeaves \/ SetOffline
  BY Zenon, <1>2, OutsideInv
<1>3. CASE Reader
  BY Zenon, <1>3, WaitsInv, ParseInv, SendTaskInv, AddTaskInv, StreamBackInv DEF Reader, Waits
<1>4. CASE Writer
  BY Zenon, <1>4, RecvInv, RunInv, DelTaskInv DEF Writer
<1>5. CASE Finished
  BY Zenon, <1>1, <1>5 DEF Finished
<1> QED BY Zenon, <1>1, <1>2, <1>3, <1>4, <1>5 DEF Next

\* The inductive invariant holds in every state of the two tasks.
THEOREM Invariance == Spec => []IInv
BY InitInv, NextInv, PTL DEF Spec

\* The reader and the writer pass the read half around without losing it or the count of the
\* requests, whatever pipeline_size is and however many requests there are; and the reader
\* parses at the end of a request, but for the FTP upload and the CONNECT with a body that could
\* not connect, whose tasks hand the read half back in front of the body (AtBoundary).
THEOREM PipelineCorrect == Spec => []Inv
<1>1. IInv => Inv
  BY Zenon DEF IInv
<1> QED BY Invariance, <1>1, PTL

\* A reader that waits with the decision to quit has nobody to wait for.
LEMMA IdleFact ==
  ASSUME IInv, reader = "wait", quit_after_timeout, ~closed
  PROVE  task_queue = <<>> /\ ~Busy
<1>1. alive_task <= 0 /\ alive_task \in Int
  BY Zenon DEF IInv, Inv, TypeOK, ChannelType, Quit
<1>2. Len(task_queue) \in Nat /\ (Len(task_queue) = 0 <=> task_queue = <<>>)
  BY Zenon, LenFact DEF IInv, Inv, TypeOK, ChannelType
<1>3. Counted
  BY Zenon DEF IInv, Inv
<1>4. alive_task = Len(task_queue) + (IF Busy THEN 1 ELSE 0)
  BY <1>2, <1>3 DEF Counted
<1>5. Len(task_queue) = 0 /\ ~Busy
  BY <1>1, <1>2, <1>4
<1> QED BY Zenon, <1>2, <1>5

\* The idle timeout of the reader closes a connection only when no request is queued or being
\* handled, for any pipeline_size.
THEOREM QuitsIdle == Spec => QuitOnlyIdle
<1>1. IInv /\ [Next]_vars =>
        [reader = "wait" /\ reader' = "end" /\ open /\ ~closed => task_queue = <<>> /\ ~Busy]_vars
  <2> SUFFICES ASSUME IInv, Next, reader = "wait", reader' = "end", open, ~closed
               PROVE  task_queue = <<>> /\ ~Busy
    BY Zenon
  <2>1. quit_after_timeout
    <3>1. reader' # reader
      OBVIOUS
    <3>2. Reader
      BY Zenon, <3>1 DEF Next, ClientSends, ClientLeaves, SetOffline, Writer, Recv, Run, run_untrusted,
                         del_task, Finished, vars, readerVars
    <3>3. IdleTimeout
      BY Zenon, <3>2 DEF Reader, Closed, TakeStream, Fill, Parse, ParseFails, SendTask, add_task, StreamBack
    <3> QED BY <3>3 DEF IdleTimeout
  <2> QED BY Zenon, <2>1, IdleFact
<1> QED BY Invariance, <1>1, PTL DEF Spec, QuitOnlyIdle

HIDE PipelineAssumption

-----------------------------------------------------------------------------
(* The pool of ICAP connections *)

USE DEF I!tasks, I!keepers, I!clients, I!channels

Has(s, x) == \E i \in 1..Len(s) : s[i] = x

\* no element of C is twice in s
OnceIn(C, s) == \A i, j \in 1..Len(s) : s[i] = s[j] /\ s[i] \in C => i = j

ClientType ==
  /\ cl \in [Clients -> {"idle", "asked", "queued", "create", "fallback", "use"}]
  /\ gone \subseteq Clients /\ fetches \in [Clients -> Nat]

QueueType ==
  /\ client_cmd \in Seq(Clients \cup {"save"}) /\ conn_req \in Seq(Clients)

PoolType ==
  /\ pool_cmd \in Seq({"save", "options", "create"}) /\ Len(pool_cmd) <= CmdCap
  /\ creating \in Nat /\ probing \in Nat /\ probed \in Nat /\ asking \in Nat
  /\ expired \in BOOLEAN

KeeperType == idle \in Nat /\ ended \in Nat /\ idle_conn_count \in Nat

\* A client is at most once in either queue, and it is there while it is in that state.
\* FetchOnce alone is not inductive: of a client that is twice in client_cmd one
\* command would be left when the pool has taken the other.
Queued ==
  /\ OnceIn(Clients, client_cmd) /\ OnceIn(Clients, conn_req)
  /\ \A c \in Clients : /\ cl[c] = "asked" <=> Has(client_cmd, c)
                        /\ cl[c] = "queued" <=> Has(conn_req, c)

\* A fetch that was dropped is still under way.
Dropped == \A c \in gone : cl[c] \in {"asked", "queued", "create"}

PoolInv == I!TypeOK /\ I!IdleCounted /\ Queued /\ Dropped

\* What PoolAssumption says
LEMMA PoolBounds ==
  /\ MinIdle \in Nat /\ MaxIdle \in Nat /\ CmdCap \in Nat \ {0}
  /\ Fetches \in Nat /\ TaskCap \in Nat /\ ExpireCap \in Nat
  /\ "save" \notin Clients
  BY Zenon, PoolAssumption DEF I!Bounds

-----------------------------------------------------------------------------
(* Queues *)

LEMMA Taken ==
  ASSUME NEW S, NEW s \in Seq(S), s # <<>>
  PROVE  /\ Head(s) \in S /\ Tail(s) \in Seq(S)
         /\ 1 \in 1..Len(s) /\ s[1] = Head(s)
         /\ \A i \in 1..Len(Tail(s)) : i + 1 \in 1..Len(s) /\ Tail(s)[i] = s[i + 1]
         /\ \A i \in 1..Len(s) : i = 1 \/ (i - 1 \in 1..Len(Tail(s)) /\ Tail(s)[i - 1] = s[i])
  OBVIOUS

LEMMA Put ==
  ASSUME NEW S, NEW s \in Seq(S), NEW x \in S
  PROVE  /\ Append(s, x) \in Seq(S)
         /\ Len(s) + 1 \in 1..Len(Append(s, x)) /\ Append(s, x)[Len(s) + 1] = x
         /\ \A i \in 1..Len(s) : i \in 1..Len(Append(s, x)) /\ Append(s, x)[i] = s[i]
         /\ \A i \in 1..Len(Append(s, x)) : Append(s, x)[i] = x \/ (i \in 1..Len(s) /\ Append(s, x)[i] = s[i])
  OBVIOUS

LEMMA HasPut ==
  ASSUME NEW S, NEW s \in Seq(S), NEW x \in S
  PROVE  \A y : Has(Append(s, x), y) <=> Has(s, y) \/ y = x
<1>1. ASSUME NEW y, Has(Append(s, x), y) PROVE Has(s, y) \/ y = x
  BY <1>1, Put DEF Has
<1>2. ASSUME NEW y, Has(s, y) \/ y = x PROVE Has(Append(s, x), y)
  BY <1>2, Put DEF Has
<1> QED BY Zenon, <1>1, <1>2

LEMMA HasTaken ==
  ASSUME NEW S, NEW s \in Seq(S), s # <<>>
  PROVE  /\ Has(s, Head(s))
         /\ \A y : Has(Tail(s), y) => Has(s, y)
         /\ \A y : Has(s, y) => Has(Tail(s), y) \/ y = Head(s)
<1>1. Has(s, Head(s))
  BY Taken DEF Has
<1>2. ASSUME NEW y, Has(Tail(s), y) PROVE Has(s, y)
  BY <1>2, Taken DEF Has
<1>3. ASSUME NEW y, Has(s, y) PROVE Has(Tail(s), y) \/ y = Head(s)
  <2>1. PICK i \in 1..Len(s) : s[i] = y
    BY <1>3 DEF Has
  <2>2. i = 1 \/ (i - 1 \in 1..Len(Tail(s)) /\ Tail(s)[i - 1] = s[i])
    BY Taken
  <2>3. s[1] = Head(s)
    BY Taken
  <2> QED BY Zenon, <2>1, <2>2, <2>3 DEF Has
<1> QED BY Zenon, <1>1, <1>2, <1>3

LEMMA OncePut ==
  ASSUME NEW S, NEW C, NEW s \in Seq(S), NEW x \in S, OnceIn(C, s), x \in C => ~Has(s, x)
  PROVE  OnceIn(C, Append(s, x))
<1> SUFFICES ASSUME NEW i \in 1..Len(Append(s, x)), NEW j \in 1..Len(Append(s, x)),
                    Append(s, x)[i] = Append(s, x)[j], Append(s, x)[i] \in C
             PROVE  i = j
  BY DEF OnceIn
<1>1. Len(Append(s, x)) = Len(s) + 1 /\ Len(s) \in Nat /\ Append(s, x)[Len(s) + 1] = x
  OBVIOUS
<1>2. \A k \in 1..Len(s) : Append(s, x)[k] = s[k]
  OBVIOUS
<1>3. ASSUME NEW k \in 1..Len(s), x \in C PROVE s[k] # x
  BY <1>3 DEF Has
<1> QED BY <1>1, <1>2, <1>3 DEF OnceIn

LEMMA OnceTaken ==
  ASSUME NEW S, NEW C, NEW s \in Seq(S), s # <<>>, OnceIn(C, s)
  PROVE  /\ OnceIn(C, Tail(s))
         /\ Head(s) \in C => ~Has(Tail(s), Head(s))
<1>1. /\ 1 \in 1..Len(s) /\ s[1] = Head(s)
      /\ \A i \in 1..Len(Tail(s)) : i \in Nat \ {0} /\ i + 1 \in 1..Len(s) /\ Tail(s)[i] = s[i + 1]
  BY Taken
<1>2. OnceIn(C, Tail(s))
  <2> SUFFICES ASSUME NEW i \in 1..Len(Tail(s)), NEW j \in 1..Len(Tail(s)),
                      Tail(s)[i] = Tail(s)[j], Tail(s)[i] \in C
               PROVE  i = j
    BY DEF OnceIn
  <2>1. s[i + 1] = s[j + 1] /\ s[i + 1] \in C /\ i + 1 \in 1..Len(s) /\ j + 1 \in 1..Len(s)
    BY Zenon, <1>1
  <2>2. i + 1 = j + 1
    BY Zenon, <2>1 DEF OnceIn
  <2> QED BY <2>2
<1>3. ASSUME Head(s) \in C, NEW i \in 1..Len(Tail(s)), Tail(s)[i] = Head(s) PROVE FALSE
  <2>1. s[i + 1] = s[1] /\ s[i + 1] \in C /\ i + 1 \in 1..Len(s)
    BY Zenon, <1>1, <1>3
  <2>2. i + 1 = 1
    BY Zenon, <1>1, <2>1 DEF OnceIn
  <2> QED BY <1>1, <2>2
<1> QED BY Zenon, <1>2, <1>3 DEF Has

-----------------------------------------------------------------------------
(* The inductive invariant *)

LEMMA Parts == I!TypeOK <=> ClientType /\ QueueType /\ PoolType /\ KeeperType
  BY Zenon DEF I!TypeOK, ClientType, QueueType, PoolType, KeeperType

LEMMA PartsNext == I!TypeOK' <=> ClientType' /\ QueueType' /\ PoolType' /\ KeeperType'
  BY Zenon DEF I!TypeOK, ClientType, QueueType, PoolType, KeeperType

LEMMA PoolInvInit == I!Init => PoolInv
<1> SUFFICES ASSUME I!Init PROVE PoolInv
  OBVIOUS
<1>1. ClientType
  BY Zenon, PoolBounds DEF I!Init, ClientType
<1>2. QueueType /\ Queued /\ Dropped
  BY DEF I!Init, QueueType, Queued, OnceIn, Has, Dropped
<1>3. PoolType
  <2>1. pool_cmd \in Seq({"save", "options", "create"}) /\ Len(pool_cmd) <= CmdCap
    BY PoolBounds DEF I!Init
  <2>2. 0 \in Nat
    OBVIOUS
  <2> QED BY Zenon, <2>1, <2>2 DEF I!Init, PoolType
<1>4. KeeperType
  <2>1. 0 \in Nat
    OBVIOUS
  <2> QED BY Zenon, <2>1 DEF I!Init, KeeperType
<1>5. I!IdleCounted
  BY DEF I!Init, I!IdleCounted
<1> QED BY Zenon, <1>1, <1>2, <1>3, <1>4, <1>5, Parts DEF PoolInv

-----------------------------------------------------------------------------
(* The pool's own commands and I!tasks *)

LEMMA PoolNext == ASSUME PoolInv, [I!Next]_(I!vars) PROVE PoolType'
<1>0. PoolType /\ KeeperType
  BY Zenon, Parts DEF PoolInv
<1> USE PoolBounds DEF PoolType
<1>1. CASE UNCHANGED <<pool_cmd, I!tasks, expired>>
  BY Zenon, <1>0, <1>1
<1>2. CASE I!handle_client_cmd \/ UNCHANGED I!vars
  BY Zenon, <1>1, <1>2 DEF I!handle_client_cmd, I!vars
<1>3. CASE \/ \E c \in Clients : I!Fetch(c) \/ I!DropFetch(c) \/ I!CreateForClient(c) \/ I!Fallback(c) \/ I!Finish(c)
           \/ I!Take \/ I!KeeperEnd
  BY Zenon, <1>1, <1>3 DEF I!Fetch, I!DropFetch, I!CreateForClient, I!Fallback, I!Finish, I!Take, I!KeeperEnd
<1>4. ASSUME NEW cmd \in {"save", "options", "create"}, I!Send(cmd)
      PROVE  pool_cmd' \in Seq({"save", "options", "create"}) /\ Len(pool_cmd') <= CmdCap
  BY <1>0, <1>4 DEF I!Send
<1>5. CASE I!check
  <2>1. probing' \in Nat /\ creating' \in Nat
    BY <1>0, <1>5 DEF I!check, KeeperType
  <2> QED BY Zenon, <1>0, <1>5, <2>1 DEF I!check
<1>6. CASE I!handle_pool_cmd
  <2>1. pool_cmd' \in Seq({"save", "options", "create"}) /\ Len(pool_cmd') <= CmdCap
    BY <1>0, <1>6 DEF I!handle_pool_cmd
  <2>2. creating' \in Nat
    <3>1. creating' = creating + 1 \/ creating' = creating
      BY Zenon, <1>6 DEF I!handle_pool_cmd
    <3> QED BY <1>0, <3>1
  <2>3. expired' \in BOOLEAN /\ UNCHANGED <<probing, probed, asking>>
    BY Zenon, <1>0, <1>6 DEF I!handle_pool_cmd
  <2> QED BY Zenon, <1>0, <2>1, <2>2, <2>3
<1>7. CASE I!OptionsExpire
  BY Zenon, <1>0, <1>7 DEF I!OptionsExpire
<1>8. CASE I!Created \/ I!CreateFailed
  <2>1. creating' \in Nat
    BY <1>0, <1>8 DEF I!Created, I!CreateFailed
  <2>2. UNCHANGED <<probing, probed, asking, expired>> /\ (I!Send("save") \/ UNCHANGED pool_cmd)
    BY Zenon, <1>8 DEF I!Created, I!CreateFailed
  <2> QED BY Zenon, <1>0, <1>4, <2>1, <2>2
<1>9. CASE I!Probe
  <2>1. probing' \in Nat /\ probed' \in Nat
    BY <1>0, <1>9 DEF I!Probe
  <2>2. UNCHANGED <<creating, asking, expired>> /\ (I!Send("save") \/ I!Send("options") \/ UNCHANGED pool_cmd)
    BY Zenon, <1>9 DEF I!Probe
  <2> QED BY Zenon, <1>0, <1>4, <2>1, <2>2
<1>10. CASE I!AskCreate
  <2>1. asking' \in Nat
    BY <1>0, <1>10 DEF I!AskCreate
  <2> QED BY Zenon, <1>0, <1>4, <1>10, <2>1 DEF I!AskCreate
<1>11. CASE I!fetch_sub
  <2>1. asking' \in Nat
    BY <1>0, <1>11 DEF I!fetch_sub
  <2> QED BY Zenon, <1>0, <1>11, <2>1 DEF I!fetch_sub
<1> QED BY Zenon, <1>2, <1>3, <1>5, <1>6, <1>7, <1>8, <1>9, <1>10, <1>11 DEF I!Next, I!into_running

-----------------------------------------------------------------------------
(* The count of the I!keepers *)

\* A keeper starts, or it is over.
LEMMA KeeperStarts ==
  ASSUME KeeperType, I!IdleCounted, I!save_connection
  PROVE  KeeperType' /\ I!IdleCounted'
BY DEF KeeperType, I!IdleCounted, I!save_connection

Over == idle > 0 /\ idle' = idle - 1 /\ ended' = ended + 1 /\ UNCHANGED idle_conn_count

LEMMA KeeperOver ==
  ASSUME KeeperType, I!IdleCounted, Over
  PROVE  KeeperType' /\ I!IdleCounted'
BY DEF KeeperType, I!IdleCounted, Over

LEMMA KeeperNext == ASSUME PoolInv, [I!Next]_(I!vars) PROVE KeeperType' /\ I!IdleCounted'
<1>0. KeeperType /\ I!IdleCounted /\ QueueType
  BY Zenon, Parts DEF PoolInv
<1>1. CASE UNCHANGED I!keepers
  BY Zenon, <1>0, <1>1 DEF KeeperType, I!IdleCounted
<1>2. CASE I!check \/ I!OptionsExpire \/ I!Created \/ I!CreateFailed \/ I!Probe \/ I!AskCreate \/ UNCHANGED I!vars
  BY Zenon, <1>1, <1>2 DEF I!check, I!OptionsExpire, I!Created, I!CreateFailed, I!Probe, I!AskCreate, I!vars
<1>3. CASE \E c \in Clients : I!Fetch(c) \/ I!DropFetch(c) \/ I!CreateForClient(c) \/ I!Fallback(c) \/ I!Finish(c)
  BY Zenon, <1>1, <1>3 DEF I!Fetch, I!DropFetch, I!CreateForClient, I!Fallback, I!Finish
<1>4. CASE I!handle_client_cmd
  <2>1. CASE I!handle_fetch(Head(client_cmd))
    BY Zenon, <1>1, <2>1 DEF I!handle_fetch
  <2>2. CASE I!handle_save
    BY Zenon, <1>0, <1>1, <2>2, KeeperStarts DEF I!handle_save
  <2> QED BY Zenon, <1>4, <2>1, <2>2 DEF I!handle_client_cmd
<1>5. CASE I!handle_pool_cmd
  BY Zenon, <1>0, <1>1, <1>5, KeeperStarts DEF I!handle_pool_cmd
<1>6. CASE I!Take \/ I!KeeperEnd
  BY Zenon, <1>0, <1>6, KeeperOver DEF I!Take, I!KeeperEnd, Over
<1>7. CASE I!fetch_sub
  <2>1. ended > 0 /\ ended' = ended - 1 /\ idle_conn_count' = idle_conn_count - 1 /\ idle' = idle
    BY Zenon, <1>7 DEF I!fetch_sub
  <2> QED BY <1>0, <2>1 DEF KeeperType, I!IdleCounted
<1> QED BY Zenon, <1>2, <1>3, <1>4, <1>5, <1>6, <1>7 DEF I!Next, I!into_running

-----------------------------------------------------------------------------
(* Clients and their queues *)

LEMMA QueuedNext ==
  ASSUME OnceIn(Clients, client_cmd'), OnceIn(Clients, conn_req'),
         \A c \in Clients : /\ cl'[c] = "asked" <=> Has(client_cmd', c)
                            /\ cl'[c] = "queued" <=> Has(conn_req', c)
  PROVE  Queued'
  BY Zenon DEF Queued, OnceIn, Has

\* a step that changes nothing of the clients and their queues
LEMMA QueuesSame ==
  ASSUME PoolInv, UNCHANGED <<cl, gone, fetches, client_cmd, conn_req>>
  PROVE  ClientType' /\ QueueType' /\ Queued' /\ Dropped'
<1>0. ClientType /\ QueueType /\ Queued /\ Dropped
  BY Zenon, Parts DEF PoolInv
<1>1. ClientType' /\ QueueType' /\ Dropped'
  BY Zenon, <1>0 DEF ClientType, QueueType, Dropped
<1>2. Queued'
  BY Zenon, <1>0, QueuedNext DEF Queued
<1> QED BY Zenon, <1>1, <1>2

\* a client moves between two states in which it is in neither queue
LEMMA ClientMoves ==
  ASSUME PoolInv, NEW c \in Clients, NEW from \in {"idle", "create", "fallback", "use"},
         NEW to \in {"idle", "create", "fallback", "use"},
         cl[c] = from, cl' = [cl EXCEPT ![c] = to]
  PROVE  \A d \in Clients : /\ cl'[d] = "asked" <=> cl[d] = "asked"
                            /\ cl'[d] = "queued" <=> cl[d] = "queued"
<1>0. ClientType
  BY Zenon, Parts DEF PoolInv
<1> QED BY <1>0 DEF ClientType

\* A fetch that was dropped stays under way when another client moves.
LEMMA DroppedNext ==
  ASSUME ClientType, Dropped, NEW c \in Clients, NEW to, cl' = [cl EXCEPT ![c] = to],
         gone' = gone \/ gone' = gone \ {c}, c \in gone' => to \in {"asked", "queued", "create"}
  PROVE  Dropped'
<1>1. \A d \in gone' : d \in gone /\ d \in Clients
  BY Zenon DEF ClientType
<1>2. \A d \in Clients : cl'[d] = IF d = c THEN to ELSE cl[d]
  BY Zenon DEF ClientType
<1> QED BY Zenon, <1>1, <1>2 DEF Dropped

LEMMA ClientNext == ASSUME PoolInv, [I!Next]_(I!vars) PROVE ClientType' /\ QueueType' /\ Queued' /\ Dropped'
<1>0. ClientType /\ QueueType /\ Queued /\ Dropped
  BY Zenon, Parts DEF PoolInv
<1>1. client_cmd \in Seq(Clients \cup {"save"}) /\ conn_req \in Seq(Clients)
  BY Zenon, <1>0 DEF QueueType
<1>2. "save" \notin Clients
  BY Zenon, PoolBounds
<1>3. CASE UNCHANGED <<cl, gone, fetches, client_cmd, conn_req>>
  BY Zenon, <1>3, QueuesSame
<1>4. CASE I!check \/ I!OptionsExpire \/ I!Created \/ I!CreateFailed \/ I!Probe \/ I!AskCreate \/ I!fetch_sub \/ I!handle_pool_cmd \/ UNCHANGED I!vars
  BY Zenon, <1>3, <1>4 DEF I!check, I!OptionsExpire, I!Created, I!CreateFailed, I!Probe, I!AskCreate, I!fetch_sub, I!handle_pool_cmd, I!Send, I!vars
<1>5. CASE I!KeeperEnd
  BY Zenon, <1>3, <1>5 DEF I!KeeperEnd
<1>6. ASSUME NEW c \in Clients, I!Fetch(c) PROVE ClientType' /\ QueueType' /\ Queued' /\ Dropped'
  <2>1. /\ cl[c] = "idle" /\ cl' = [cl EXCEPT ![c] = "asked"] /\ client_cmd' = Append(client_cmd, c)
        /\ fetches[c] > 0 /\ fetches' = [fetches EXCEPT ![c] = @ - 1] /\ UNCHANGED <<gone, conn_req>>
    BY Zenon, <1>6 DEF I!Fetch
  <2>2. ClientType'
    <3>1. cl' \in [Clients -> {"idle", "asked", "queued", "create", "fallback", "use"}] /\ gone' \subseteq Clients
      BY Zenon, <1>0, <2>1 DEF ClientType
    <3>2. fetches' \in [Clients -> Nat]
      BY <1>0, <2>1 DEF ClientType
    <3> QED BY Zenon, <3>1, <3>2 DEF ClientType
  <2>3. /\ cl'[c] = "asked" /\ cl[c] # "asked" /\ cl[c] # "queued"
        /\ \A d \in Clients : d # c => cl'[d] = cl[d]
    BY <1>0, <2>1 DEF ClientType
  <2>4. ~Has(client_cmd, c) /\ ~Has(conn_req, c)
    BY Zenon, <1>0, <2>3 DEF Queued
  <2>5. client_cmd' \in Seq(Clients \cup {"save"}) /\ \A d : Has(client_cmd', d) <=> Has(client_cmd, d) \/ d = c
    <3>1. c \in Clients \cup {"save"}
      BY Zenon
    <3>2. client_cmd' \in Seq(Clients \cup {"save"})
      BY Zenon, <1>1, <2>1, <3>1, Put
    <3>3. \A d : Has(client_cmd', d) <=> Has(client_cmd, d) \/ d = c
      BY Zenon, <1>1, <2>1, <3>1, HasPut
    <3> QED BY Zenon, <3>2, <3>3
  <2>6. OnceIn(Clients, client_cmd') /\ OnceIn(Clients, conn_req') /\ conn_req' = conn_req
    BY Zenon, <1>0, <1>1, <2>1, <2>4, OncePut DEF Queued
  <2>7. ASSUME NEW d \in Clients
        PROVE  (cl'[d] = "asked" <=> Has(client_cmd', d)) /\ (cl'[d] = "queued" <=> Has(conn_req', d))
    BY <1>0, <2>3, <2>4, <2>5, <2>6 DEF Queued
  <2>8. Dropped'
    BY Zenon, <1>0, <2>1, DroppedNext
  <2> QED BY Zenon, <1>0, <2>1, <2>2, <2>5, <2>6, <2>7, <2>8, QueuedNext DEF QueueType
<1>11. ASSUME NEW c \in Clients, I!DropFetch(c) PROVE ClientType' /\ QueueType' /\ Queued' /\ Dropped'
  <2>1. /\ cl[c] \in {"asked", "queued", "create"} /\ gone' = gone \cup {c}
        /\ UNCHANGED <<cl, fetches, client_cmd, conn_req>>
    BY Zenon, <1>11 DEF I!DropFetch
  <2>2. ClientType' /\ Dropped'
    BY Zenon, <1>0, <2>1 DEF ClientType, Dropped
  <2>3. QueueType'
    BY Zenon, <1>0, <2>1 DEF QueueType
  <2>4. Queued'
    BY Zenon, <1>0, <2>1, QueuedNext DEF Queued
  <2> QED BY Zenon, <2>2, <2>3, <2>4
<1>7. ASSUME NEW c \in Clients, I!CreateForClient(c) \/ I!Fallback(c) PROVE ClientType' /\ QueueType' /\ Queued' /\ Dropped'
  <2>1. UNCHANGED <<client_cmd, conn_req, fetches>>
    BY Zenon, <1>7 DEF I!CreateForClient, I!Fallback
  <2>2. PICK from \in {"create", "fallback"}, to \in {"use", "fallback", "idle"} :
          /\ cl[c] = from /\ cl' = [cl EXCEPT ![c] = to]
          /\ gone' = gone \ {c} \/ (from = "fallback" /\ gone' = gone)
    BY Zenon, <1>7 DEF I!CreateForClient, I!Fallback, I!Answer
  <2>3. c \notin gone'
    <3>1. from = "fallback" => c \notin gone
      BY <1>0, <2>2 DEF Dropped
    <3> QED BY Zenon, <2>2, <3>1
  <2>4. ClientType' /\ Dropped'
    <3>1. ClientType'
      BY Zenon, <1>0, <2>1, <2>2 DEF ClientType
    <3>2. Dropped'
      BY Zenon, <1>0, <2>2, <2>3, DroppedNext
    <3> QED BY Zenon, <3>1, <3>2
  <2>5. \A d \in Clients : (cl'[d] = "asked" <=> cl[d] = "asked") /\ (cl'[d] = "queued" <=> cl[d] = "queued")
    BY Zenon, <2>2, ClientMoves
  <2>6. QueueType' /\ Queued'
    BY Zenon, <1>0, <2>1, <2>5, QueuedNext DEF QueueType, Queued
  <2> QED BY Zenon, <2>4, <2>6
<1>8. ASSUME NEW c \in Clients, I!Finish(c) PROVE ClientType' /\ QueueType' /\ Queued' /\ Dropped'
  <2>1. /\ cl[c] = "use" /\ cl' = [cl EXCEPT ![c] = "idle"] /\ UNCHANGED <<gone, fetches, conn_req>>
        /\ client_cmd' = Append(client_cmd, "save") \/ client_cmd' = client_cmd
    BY Zenon, <1>8 DEF I!Finish
  <2>2. ClientType'
    BY Zenon, <1>0, <2>1 DEF ClientType
  <2>3. Dropped'
    <3>1. c \notin gone'
      BY <1>0, <2>1 DEF Dropped
    <3> QED BY Zenon, <1>0, <2>1, <3>1, DroppedNext
  <2>5. \A d \in Clients : (cl'[d] = "asked" <=> cl[d] = "asked") /\ (cl'[d] = "queued" <=> cl[d] = "queued")
    BY Zenon, <2>1, ClientMoves
  <2>6. CASE client_cmd' = client_cmd
    BY Zenon, <1>0, <2>1, <2>2, <2>3, <2>5, <2>6, QueuedNext DEF QueueType, Queued
  <2>7. CASE client_cmd' = Append(client_cmd, "save")
    <3>1. "save" \in Clients \cup {"save"}
      BY Zenon
    <3>2. client_cmd' \in Seq(Clients \cup {"save"})
      BY Zenon, <1>1, <2>7, <3>1, Put
    <3>3. \A d : Has(client_cmd', d) <=> Has(client_cmd, d) \/ d = "save"
      <4>1. \A d : Has(Append(client_cmd, "save"), d) <=> Has(client_cmd, d) \/ d = "save"
        BY Zenon, <1>1, <3>1, HasPut
      <4> QED BY Zenon, <2>7, <4>1
    <3>4. OnceIn(Clients, client_cmd') /\ OnceIn(Clients, conn_req') /\ conn_req' = conn_req
      BY Zenon, <1>0, <1>1, <1>2, <2>1, <2>7, <3>1, OncePut DEF Queued
    <3>5. \A d \in Clients : (cl'[d] = "asked" <=> Has(client_cmd', d)) /\ (cl'[d] = "queued" <=> Has(conn_req', d))
      BY Zenon, <1>0, <1>2, <2>5, <3>3, <3>4 DEF Queued
    <3> QED BY Zenon, <1>1, <2>1, <2>2, <2>3, <3>2, <3>4, <3>5, QueuedNext DEF QueueType
  <2> QED BY Zenon, <2>1, <2>6, <2>7
<1>9. CASE I!Take
  <2> DEFINE c == Head(conn_req)
  <2>0. PICK to \in {"idle", "use"} : cl' = [cl EXCEPT ![c] = to]
    BY Zenon, <1>9 DEF I!Take, I!Answer
  <2>1. /\ conn_req # <<>> /\ conn_req' = Tail(conn_req) /\ gone' = gone \ {c}
        /\ UNCHANGED <<fetches, client_cmd>>
    BY Zenon, <1>9 DEF I!Take, I!Answer
  <2>2. c \in Clients /\ conn_req' \in Seq(Clients)
    BY Zenon, <1>1, <2>1, Taken
  <2>3. /\ Has(conn_req, c) /\ ~Has(conn_req', c)
        /\ \A d : d # c => (Has(conn_req', d) <=> Has(conn_req, d))
        /\ OnceIn(Clients, conn_req')
    BY Zenon, <1>0, <1>1, <2>1, <2>2, HasTaken, OnceTaken DEF Queued
  <2> HIDE DEF c
  <2>4. ClientType'
    BY Zenon, <1>0, <2>0, <2>1, <2>2 DEF ClientType
  <2>5. cl[c] = "queued" /\ cl'[c] \in {"idle", "use"} /\ \A d \in Clients : d # c => cl'[d] = cl[d]
    BY Zenon, <1>0, <2>0, <2>1, <2>2, <2>3 DEF ClientType, Queued
  <2>6. ASSUME NEW d \in Clients
        PROVE  (cl'[d] = "asked" <=> Has(client_cmd', d)) /\ (cl'[d] = "queued" <=> Has(conn_req', d))
    BY <1>0, <2>1, <2>3, <2>5 DEF Queued
  <2>7. Dropped' /\ QueueType' /\ OnceIn(Clients, client_cmd')
    <3>1. Dropped'
      BY Zenon, <1>0, <2>0, <2>1, <2>2, DroppedNext
    <3> QED BY Zenon, <1>0, <2>1, <2>2, <3>1 DEF QueueType, Queued
  <2> QED BY Zenon, <2>3, <2>4, <2>6, <2>7, QueuedNext
<1>10. CASE I!handle_client_cmd
  <2> DEFINE x == Head(client_cmd)
  <2>1. client_cmd # <<>> /\ client_cmd' = Tail(client_cmd) /\ UNCHANGED <<gone, fetches>>
    BY Zenon, <1>10 DEF I!handle_client_cmd
  <2>2. x \in Clients \cup {"save"} /\ client_cmd' \in Seq(Clients \cup {"save"})
    BY Zenon, <1>1, <2>1, Taken
  <2>3. /\ Has(client_cmd, x) /\ (x \in Clients => ~Has(client_cmd', x))
        /\ \A d : d # x => (Has(client_cmd', d) <=> Has(client_cmd, d))
        /\ OnceIn(Clients, client_cmd')
    BY Zenon, <1>0, <1>1, <2>1, <2>2, HasTaken, OnceTaken DEF Queued
  <2>5. CASE x \notin Clients /\ I!handle_save
    <3>1. UNCHANGED <<cl, conn_req>>
      BY Zenon, <2>5 DEF I!handle_save
    <3>2. ClientType' /\ QueueType' /\ OnceIn(Clients, conn_req') /\ Dropped'
      BY Zenon, <1>0, <2>1, <2>2, <3>1 DEF ClientType, QueueType, Queued, Dropped
    <3>3. \A d \in Clients : (cl'[d] = "asked" <=> Has(client_cmd', d)) /\ (cl'[d] = "queued" <=> Has(conn_req', d))
      BY Zenon, <1>0, <2>3, <2>5, <3>1 DEF Queued
    <3> QED BY Zenon, <2>3, <3>2, <3>3, QueuedNext
  <2>6. CASE x \in Clients /\ I!handle_fetch(x)
    <3> HIDE DEF x
    <3>1. cl[x] = "asked" /\ ~Has(conn_req, x)
      BY <1>0, <2>3, <2>6 DEF Queued
    <3>2. CASE cl' = [cl EXCEPT ![x] = "queued"] /\ conn_req' = Append(conn_req, x)
      <4>1. cl'[x] = "queued" /\ \A d \in Clients : d # x => cl'[d] = cl[d]
        BY Zenon, <1>0, <2>6, <3>2 DEF ClientType
      <4>2. ClientType'
        BY Zenon, <1>0, <2>1, <2>6, <3>2 DEF ClientType
      <4>7. Dropped'
        BY Zenon, <1>0, <2>1, <2>6, <3>2, DroppedNext
      <4>3. conn_req' \in Seq(Clients)
        BY Zenon, <1>1, <2>6, <3>2, Put
      <4>4. \A d : Has(conn_req', d) <=> Has(conn_req, d) \/ d = x
        BY Zenon, <1>1, <2>6, <3>2, HasPut
      <4>5. OnceIn(Clients, conn_req')
        BY Zenon, <1>0, <1>1, <2>6, <3>1, <3>2, OncePut DEF Queued
      <4>6. ASSUME NEW d \in Clients
            PROVE  (cl'[d] = "asked" <=> Has(client_cmd', d)) /\ (cl'[d] = "queued" <=> Has(conn_req', d))
        BY <1>0, <2>3, <3>1, <4>1, <4>4 DEF Queued
      <4> QED BY Zenon, <2>2, <2>3, <4>2, <4>3, <4>5, <4>6, <4>7, QueuedNext DEF QueueType
    <3>3. CASE cl' = [cl EXCEPT ![x] = "create"] /\ conn_req' = conn_req
      <4>1. cl'[x] = "create" /\ \A d \in Clients : d # x => cl'[d] = cl[d]
        BY Zenon, <1>0, <2>6, <3>3 DEF ClientType
      <4>2. ClientType' /\ OnceIn(Clients, conn_req')
        BY Zenon, <1>0, <2>1, <2>6, <3>3 DEF ClientType, Queued
      <4>4. Dropped'
        BY Zenon, <1>0, <2>1, <2>6, <3>3, DroppedNext
      <4>3. ASSUME NEW d \in Clients
            PROVE  (cl'[d] = "asked" <=> Has(client_cmd', d)) /\ (cl'[d] = "queued" <=> Has(conn_req', d))
        BY <1>0, <2>3, <3>1, <3>3, <4>1 DEF Queued
      <4> QED BY Zenon, <1>1, <2>2, <2>3, <3>3, <4>2, <4>3, <4>4, QueuedNext DEF QueueType
    <3> QED BY Zenon, <2>6, <3>2, <3>3 DEF I!handle_fetch
  <2> QED BY Zenon, <1>10, <2>5, <2>6 DEF I!handle_client_cmd
<1> QED BY Zenon, <1>4, <1>5, <1>6, <1>7, <1>8, <1>9, <1>10, <1>11 DEF I!Next, I!into_running

-----------------------------------------------------------------------------

LEMMA PoolInvNext == PoolInv /\ [I!Next]_(I!vars) => PoolInv'
  BY Zenon, PoolNext, KeeperNext, ClientNext, PartsNext DEF PoolInv

\* For any number of clients and any limits: idle_conn_count is exactly the number of
\* keepers whose task has not yet taken itself off, so fetch_sub never wraps; and a
\* fetch is in one place only, in which it is known once, also when its client is gone.
THEOREM PoolCorrect == I!Spec => []PoolRight
<1>1. ASSUME PoolInv PROVE I!FetchOnce
  <2>1. Queued /\ conn_req \in Seq(Clients)
    BY Zenon, <1>1, Parts DEF PoolInv, QueueType
  <2>2. ASSUME NEW i \in 1..Len(conn_req), NEW j \in 1..Len(conn_req), conn_req[i] = conn_req[j]
        PROVE  i = j
    <3>1. conn_req[i] \in Clients
      BY <2>1
    <3> QED BY Zenon, <2>1, <2>2, <3>1 DEF Queued, OnceIn
  <2>3. \A c \in gone : cl[c] \in {"asked", "queued", "create"}
    BY Zenon, <1>1 DEF PoolInv, Dropped
  <2> QED BY Zenon, <2>1, <2>2, <2>3 DEF Queued, I!FetchOnce, Has
<1>2. PoolInv => PoolRight
  BY Zenon, <1>1 DEF PoolInv, PoolRight, I!Inv
<1> QED BY PoolInvInit, PoolInvNext, <1>2, PTL DEF I!Spec
=============================================================================
