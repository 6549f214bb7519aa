---------------------------- MODULE HttpPipeline ----------------------------
(***************************************************************************)
(* The two tasks that the HTTP proxy server runs for a client connection:  *)
(* the reader parses requests ahead and queues them, the writer handles    *)
(* them in order (HttpProxyPipelineReaderTask, HttpProxyPipelineWriterTask *)
(* and the untrusted, CONNECT and FTP tasks by what they leave behind).    *)
(*                                                                         *)
(* A request that is not safe to pipeline takes the read half of the       *)
(* connection along, and the writer hands it back through a channel of     *)
(* its own.  Of a forward task only its promise is used, that a client     *)
(* connection it keeps is at the end of the request (KeptMeansServed of    *)
(* HttpForward).  What is left of a body that nobody reads is taken for a  *)
(* further request, and counted as one that the client sends.              *)
(***************************************************************************)
EXTENDS Integers, Sequences

CONSTANTS
  PipelineSize,        \* pipeline_size, the capacity of the task queue
  NoEarlyErrorReply,   \* no_early_error_reply
  MaxReq               \* bound: requests of the client

ASSUME PipelineAssumption ==
  PipelineSize \in Nat \ {0} /\ NoEarlyErrorReply \in BOOLEAN /\ MaxReq \in Nat

VARIABLES
  sent, open,     \* the client: requests it has begun to send, whether it is there
  online,         \* server_stats.is_online()
  parsed,         \* requests the reader has taken
  reader,         \* where the reader is
  has_stream,     \* stream_reader is Some
  quit_after_timeout,
  last,           \* the server was not online when the request was parsed
  req,            \* the request that the reader is about to queue
  task_queue, closed,
  stream,         \* the channel on which the read half comes back
  alive_task,
  writer,         \* where the writer is
  cur,            \* the request it handles
  auth_failed,    \* consequent_auth_failed, up to 2
  loop_action,
  unread,         \* the request whose body is still unread at the read half
  lost            \* a read half could not be handed back

readerVars == <<parsed, reader, has_stream, quit_after_timeout, last, req>>
writerVars == <<writer, cur, auth_failed, loop_action>>
vars == <<sent, open, online, readerVars, task_queue, closed, stream, alive_task, writerVars, unread, lost>>

\* Safe: pipeline_safe; bad: the header does not parse, and there is a response to say so.
Kinds == {"safe", "body", "connect", "connect_body", "ftp", "ftp_put", "bad"}
TakesStream == {"body", "connect", "connect_body", "ftp", "ftp_put"}

\* body_type() is Some, which the method has no part in
HasBody == {"body", "connect_body", "ftp_put"}

Requests == [kind : Kinds, keep_alive : BOOLEAN]

NoReq == [kind |-> "safe", keep_alive |-> TRUE]

Init ==
  /\ sent = 0 /\ open = TRUE /\ online = TRUE /\ parsed = 0
  /\ reader = "take" /\ has_stream = TRUE /\ quit_after_timeout = FALSE /\ last = FALSE /\ req = NoReq
  /\ task_queue = <<>> /\ closed = FALSE /\ stream = <<>> /\ alive_task = 0
  /\ writer = "recv" /\ cur = NoReq /\ auth_failed = 0 /\ loop_action = "continue"
  /\ unread = "none" /\ lost = FALSE

-----------------------------------------------------------------------------
(* The client and the operator *)

ClientSends ==
  /\ open /\ sent < MaxReq
  /\ sent' = sent + 1
  /\ UNCHANGED <<open, online, readerVars, task_queue, closed, stream, alive_task, writerVars, unread, lost>>

ClientLeaves ==
  /\ open /\ open' = FALSE
  /\ UNCHANGED <<sent, online, readerVars, task_queue, closed, stream, alive_task, writerVars, unread, lost>>

SetOffline ==
  /\ online /\ online' = FALSE
  /\ UNCHANGED <<sent, open, readerVars, task_queue, closed, stream, alive_task, writerVars, unread, lost>>

-----------------------------------------------------------------------------
(* The reader *)

Awaiting == {"wait", "parse", "send", "send_err", "back"}

\* the select of into_running, which looks at the queue first at every poll
Closed ==
  /\ reader \in Awaiting /\ closed
  /\ reader' = "end"
  /\ UNCHANGED <<sent, open, online, parsed, has_stream, quit_after_timeout, last, req,
                 task_queue, closed, stream, alive_task, writerVars, unread, lost>>

TakeStream ==
  /\ reader = "take"
  /\ IF has_stream
     THEN reader' = "wait" /\ quit_after_timeout' = (alive_task <= 0)
     ELSE reader' = "back" /\ UNCHANGED quit_after_timeout
  /\ UNCHANGED <<sent, open, online, parsed, has_stream, last, req,
                 task_queue, closed, stream, alive_task, writerVars, unread, lost>>

\* fill_wait_data: bytes, or the end
Fill ==
  /\ reader = "wait" /\ ~closed
  /\ \/ sent > parsed /\ reader' = "parse"
     \/ sent = parsed /\ ~open /\ reader' = "end"
  /\ UNCHANGED <<sent, open, online, parsed, has_stream, quit_after_timeout, last, req,
                 task_queue, closed, stream, alive_task, writerVars, unread, lost>>

\* pipeline_read_idle_timeout
IdleTimeout ==
  /\ reader = "wait" /\ ~closed /\ sent = parsed /\ open
  /\ reader' = IF quit_after_timeout THEN "end" ELSE "take"
  /\ UNCHANGED <<sent, open, online, parsed, has_stream, quit_after_timeout, last, req,
                 task_queue, closed, stream, alive_task, writerVars, unread, lost>>

\* HttpProxyRequest::parse, and the state of the server
Parse ==
  /\ reader = "parse" /\ ~closed
  /\ parsed' = parsed + 1
  /\ \E r \in Requests :
       /\ req' = [r EXCEPT !.keep_alive = @ /\ online]
       /\ reader' = IF r.kind = "bad" THEN "send_err" ELSE "send"
       /\ has_stream' = (r.kind \notin TakesStream)
       /\ unread' = IF r.kind \in HasBody THEN r.kind ELSE "none"
       /\ last' = ~online
  /\ UNCHANGED <<sent, open, online, quit_after_timeout, task_queue, closed, stream, alive_task, writerVars, lost>>

\* a header that does not come in time, or an error that has no response
ParseFails ==
  /\ reader = "parse" /\ ~closed
  /\ reader' = "end"
  /\ UNCHANGED <<sent, open, online, parsed, has_stream, quit_after_timeout, last, req,
                 task_queue, closed, stream, alive_task, writerVars, unread, lost>>

SendTask ==
  /\ reader \in {"send", "send_err"} /\ ~closed /\ Len(task_queue) < PipelineSize
  /\ task_queue' = Append(task_queue, req)
  /\ reader' = IF reader = "send" THEN "add" ELSE "end"
  /\ UNCHANGED <<sent, open, online, parsed, has_stream, quit_after_timeout, last, req,
                 closed, stream, alive_task, writerVars, unread, lost>>

\* the request is not counted
add_task_skipped ==
  /\ reader = "add"
  /\ reader' = IF last THEN "end" ELSE "take"
  /\ UNCHANGED <<sent, open, online, parsed, has_stream, quit_after_timeout, last, req,
                 task_queue, closed, stream, alive_task, writerVars, unread, lost>>

\* the writer may have the request by now, or be done with it
add_task ==
  /\ reader = "add"
  /\ alive_task' = alive_task + 1
  /\ reader' = IF last THEN "end" ELSE "take"
  /\ UNCHANGED <<sent, open, online, parsed, has_stream, quit_after_timeout, last, req,
                 task_queue, closed, stream, writerVars, unread, lost>>

\* stream_receiver.recv()
StreamBack ==
  /\ reader = "back" /\ ~closed /\ stream # <<>>
  /\ stream' = Tail(stream)
  /\ has_stream' = (Head(stream) = "reader")
  /\ reader' = IF Head(stream) = "reader" THEN "take" ELSE "end"
  /\ UNCHANGED <<sent, open, online, parsed, quit_after_timeout, last, req,
                 task_queue, closed, alive_task, writerVars, unread, lost>>

Reader ==
  \/ Closed \/ TakeStream \/ Fill \/ IdleTimeout \/ Parse \/ ParseFails \/ SendTask \/ add_task \/ StreamBack

-----------------------------------------------------------------------------
(* The writer *)

\* The writer task is over, and its end of the queue with it.
WriterEnds == writer' = "end" /\ closed' = TRUE /\ task_queue' = <<>>

\* task_queue.recv(), and do_auth; an error response ends the connection.
Recv ==
  /\ writer = "recv"
  /\ \/ /\ task_queue # <<>> /\ Head(task_queue).kind # "bad"
        /\ cur' = Head(task_queue) /\ task_queue' = Tail(task_queue)
        /\ \/ writer' = "run" /\ auth_failed' = 0
           \/ writer' = "untrusted" /\ auth_failed' = IF auth_failed < 2 THEN auth_failed + 1 ELSE 2
        /\ UNCHANGED closed
     \/ /\ task_queue # <<>> /\ Head(task_queue).kind = "bad"
        /\ WriterEnds /\ UNCHANGED <<cur, auth_failed>>
     \/ /\ task_queue = <<>> /\ reader = "end"
        /\ WriterEnds /\ UNCHANGED <<cur, auth_failed>>
  /\ UNCHANGED <<sent, open, online, readerVars, stream, alive_task, loop_action, unread, lost>>

\* notify_reader_to_close: the queue keeps what it holds, but takes nothing more.
NotifyClose == closed' = TRUE /\ loop_action' = "break" /\ UNCHANGED <<stream, lost>>

\* the read half is to be read again
GiveBack ==
  /\ IF reader = "end" THEN lost' = TRUE /\ loop_action' = "break" /\ UNCHANGED stream
                       ELSE stream' = Append(stream, "reader") /\ loop_action' = "continue" /\ UNCHANGED lost
  /\ UNCHANGED closed

\* there is nothing more to read; a reader that is gone does not mind
GiveUp ==
  /\ stream' = IF reader = "end" THEN stream ELSE Append(stream, "none")
  /\ loop_action' = "break"
  /\ UNCHANGED <<closed, lost>>

\* the outcome of a task for a request that has, or has not, the read half
Settle(should_close) ==
  IF cur.kind \in TakesStream THEN (IF should_close THEN GiveUp ELSE GiveBack)
  ELSE IF should_close THEN NotifyClose
  ELSE loop_action' = "continue" /\ UNCHANGED <<closed, stream, lost>>

Drained(should_close) == unread' = IF should_close \/ cur.kind \notin HasBody THEN unread ELSE "none"

\* A task ends and wants the connection closed or not; if not it has read the body, but for
\* setup_ftp_client, which does not ask whether one is pending, and a CONNECT that could not
\* connect, which hands the read half back as it is, whatever the request says of keep-alive.
TaskEnds ==
  \E should_close \in BOOLEAN :
    /\ ~cur.keep_alive /\ cur.kind \notin {"connect", "connect_body"} => should_close
    /\ Settle(should_close)
    /\ \/ cur.kind # "connect_body" /\ Drained(should_close)
       \/ cur.kind \in {"connect_body", "ftp_put"} /\ UNCHANGED unread

\* get_egress_path_selection fails, or the task for the protocol is run.
Run ==
  /\ writer = "run"
  /\ writer' = "del"
  /\ \/ NotifyClose /\ UNCHANGED unread
     \/ TaskEnds
  /\ UNCHANGED <<sent, open, online, readerVars, task_queue, alive_task, cur, auth_failed>>

\* the body of a refused request is left where it is
run_untrusted_no_drain ==
  /\ writer = "untrusted"
  /\ writer' = "del"
  /\ \E should_close \in BOOLEAN : (~cur.keep_alive => should_close) /\ Settle(should_close)
  /\ UNCHANGED <<sent, open, online, readerVars, task_queue, alive_task, cur, auth_failed, unread>>

\* no_early_error_reply, a blocked user, a second failure, or HttpProxyUntrustedTask, which
\* drains the body
run_untrusted ==
  /\ writer = "untrusted"
  /\ writer' = "del"
  /\ \/ NotifyClose /\ UNCHANGED unread
     \/ /\ ~NoEarlyErrorReply /\ auth_failed < 2
        /\ \E should_close \in BOOLEAN :
             /\ ~cur.keep_alive => should_close
             /\ Settle(should_close) /\ Drained(should_close)
  /\ UNCHANGED <<sent, open, online, readerVars, task_queue, alive_task, cur, auth_failed>>

\* a request that took the read half is not taken off
del_task_if_safe ==
  /\ writer = "del"
  /\ alive_task' = IF cur.kind \in TakesStream THEN alive_task ELSE alive_task - 1
  /\ IF loop_action = "continue" THEN writer' = "recv" /\ UNCHANGED <<closed, task_queue>> ELSE WriterEnds
  /\ UNCHANGED <<sent, open, online, readerVars, stream, cur, auth_failed, loop_action, unread, lost>>

del_task ==
  /\ writer = "del"
  /\ alive_task' = alive_task - 1
  /\ IF loop_action = "continue" THEN writer' = "recv" /\ UNCHANGED <<closed, task_queue>> ELSE WriterEnds
  /\ UNCHANGED <<sent, open, online, readerVars, stream, cur, auth_failed, loop_action, unread, lost>>

Writer == Recv \/ Run \/ run_untrusted \/ del_task

Finished == reader = "end" /\ writer = "end" /\ UNCHANGED vars

Next == ClientSends \/ ClientLeaves \/ SetOffline \/ Reader \/ Writer \/ Finished

Spec == Init /\ [][Next]_vars

\* Both tasks are run by the runtime, timeouts fire, and the tasks for requests end
\* (TaskEnds of HttpForward).
FairSpec == Spec /\ WF_vars(Reader) /\ WF_vars(Writer)

-----------------------------------------------------------------------------
(* Properties *)

ReaderType ==
  /\ sent \in Nat /\ open \in BOOLEAN /\ online \in BOOLEAN /\ parsed \in 0..sent
  /\ reader \in Awaiting \cup {"take", "add", "end"} /\ has_stream \in BOOLEAN
  /\ quit_after_timeout \in BOOLEAN /\ last \in BOOLEAN /\ req \in Requests

ChannelType ==
  /\ task_queue \in Seq(Requests) /\ Len(task_queue) <= PipelineSize /\ closed \in BOOLEAN
  /\ stream \in Seq({"reader", "none"}) /\ alive_task \in Int

WriterType ==
  /\ writer \in {"recv", "run", "untrusted", "del", "end"} /\ cur \in Requests /\ lost \in BOOLEAN
  /\ auth_failed \in 0..2 /\ loop_action \in {"continue", "break"} /\ unread \in {"none"} \cup HasBody

\* Types.
TypeOK == ReaderType /\ ChannelType /\ WriterType

Busy == writer \in {"run", "untrusted", "del"}

\* the writer still holds the read half of the request it handles
Holding == writer \in {"run", "untrusted"} /\ cur.kind \in TakesStream

\* The read half is in one place: a request that took it is the last that was parsed, it is
\* not given back twice, and the reader has it only when no request does.
OneHolder ==
  /\ \A i \in DOMAIN task_queue : task_queue[i].kind \in TakesStream => i = Len(task_queue)
  /\ Holding => task_queue = <<>>
  /\ Len(stream) <= 1
  /\ reader # "end" /\ (has_stream \/ stream # <<>>) =>
       ~Holding /\ \A i \in DOMAIN task_queue : task_queue[i].kind \notin TakesStream

\* The body that two tasks leave unread, which are run only after do_auth
LeftUnread == unread \in {"connect_body", "ftp_put"} /\ cur.kind = unread /\ auth_failed = 0

\* The reader looks for a request only at the end of the one before, with two exceptions: the
\* task of an upload to an FTP server that could not be reached, and that of a CONNECT with a
\* body that could not connect, hand the read half back in front of the body.  The body of a
\* request that was refused is always read before the next request.
AtBoundary == reader \in {"wait", "parse"} => unread = "none" \/ LeftUnread

\* alive_task is the number of requests queued or being handled, but for the one that the
\* reader has queued and not counted yet.
Counted ==
  reader # "end" /\ ~closed =>
    alive_task = Len(task_queue) + (IF Busy THEN 1 ELSE 0) - (IF reader = "add" THEN 1 ELSE 0)

\* What the reader and the writer rely on when they pass the read half around.
Inv == TypeOK /\ OneHolder /\ AtBoundary /\ Counted

\* The idle timeout closes a connection only when no request is queued or being handled,
\* although the reader decided so before it began to wait.
QuitOnlyIdle ==
  [][reader = "wait" /\ reader' = "end" /\ open /\ ~closed => task_queue = <<>> /\ ~Busy]_vars

\* Both tasks end, whether the client leaves, falls silent or is refused.
BothEnd == <>(reader = "end" /\ writer = "end")

\* "read end has closed, impossible as reader should be waiting this channel"
\* (pipeline/writer.rs:356).  It does NOT hold of the code: the reader of a server that is
\* not online ends once it has queued a request, and a CONNECT that cannot connect gives the
\* read half back whatever the request says of keep-alive.
ReaderWaits == ~lost
=============================================================================
