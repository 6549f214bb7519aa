----------------------------- MODULE StreamCopy -----------------------------
(***************************************************************************)
(* StreamCopyBuffer::poll_copy of lib/g3-io-ext/src/stream/copy.rs: one    *)
(* buffer between an AsyncRead and an AsyncWrite, driven by a task that is *)
(* polled when one of the two wakes it, and write_flush, which the relay   *)
(* task calls when it gives up the other direction.                        *)
(*                                                                         *)
(* A step is one poll of the reader or the writer with the code around it; *)
(* the peers act between two such steps.  The i-th byte of the stream is   *)
(* the number i, so the buffer holds numbers and misplaced bytes show.     *)
(***************************************************************************)
EXTENDS Integers, Sequences

CONSTANTS
  Size,       \* buf.len()
  MinRead,    \* MINIMAL_READ_BUFFER_SIZE
  YieldSize,  \* yield_size
  WriterCap,  \* bytes the writer may hold before the socket takes them (0: a bare socket)
  SockCap,    \* bytes the send buffer of the socket holds
  Total       \* bound: bytes that the far end of the reader sends

ASSUME CopyAssumption ==
  /\ Size \in Nat \ {0} /\ MinRead \in Nat /\ YieldSize \in Nat
  /\ WriterCap \in Nat /\ SockCap \in Nat \ {0} /\ Total \in Nat

VARIABLES
  sent, eof,            \* the far end of the reader: bytes arrived, closed
  wbuf, sock,           \* bytes held by the writer and by its socket
  out,                  \* bytes the writer has accepted
  buf, r_off, w_off,    \* StreamCopyBuffer
  read_done, need_flush, active,
  preload,              \* bytes given to with_data
  total_read, total_write,
  copied,               \* copy_this_round
  flushed,              \* bytes write_all of write_flush has written
  pc, result,
  woken, wakers         \* the task was woken; who holds its waker

peer == <<sent, eof>>
writer == <<wbuf, sock, out>>
window == <<buf, r_off, w_off>>
flags == <<read_done, need_flush, active>>
totals == <<preload, total_read, total_write, copied, flushed>>
control == <<pc, result>>
wakeup == <<woken, wakers>>
vars == <<peer, writer, window, flags, totals, control, wakeup>>

Garbage == 0
PollPcs == {"idle", "top", "read", "write", "topup", "flush", "eof"}
FlushPcs == {"wfwrite", "wfflush", "over"}
Results == {"none", "ok", "readfail", "writefail"}

Taken == preload + total_read
Left == r_off - w_off
SockRoom == SockCap - sock
WriterRoom == WriterCap - wbuf + SockRoom

-----------------------------------------------------------------------------
(* The peers; each takes the waker of the half that becomes ready *)

Wake(half) ==
  /\ woken' = (woken \/ half \in wakers)
  /\ wakers' = wakers \ {half}

Send ==
  /\ ~eof /\ sent < Total
  /\ sent' = sent + 1
  /\ Wake("r")
  /\ UNCHANGED <<eof, writer, window, flags, totals, control>>

Close ==
  /\ ~eof
  /\ eof' = TRUE
  /\ Wake("r")
  /\ UNCHANGED <<sent, writer, window, flags, totals, control>>

Consume ==
  /\ sock > 0
  /\ sock' = sock - 1
  /\ Wake("w")
  /\ UNCHANGED <<peer, wbuf, out, window, flags, totals, control>>

-----------------------------------------------------------------------------
(* The writer: a socket, or a TLS session that accepts more than its socket *)
(* takes.  It reports Pending with its waker registered.                    *)

\* Accept n bytes of buf from offset from on, and hand on what the socket takes
Accept(from, n) ==
  /\ n <= WriterRoom
  /\ out' = out \o [i \in 1..n |-> buf[from + i - 1]]
  /\ LET pushed == IF wbuf + n <= SockRoom THEN wbuf + n ELSE SockRoom
     IN  /\ sock' = sock + pushed
         /\ wbuf' = wbuf + n - pushed
         /\ wakers' = IF wbuf + n > pushed THEN wakers \cup {"w"} ELSE wakers

\* poll_flush: Ready when the writer holds nothing any more
PollFlush ==
  /\ LET pushed == IF wbuf <= SockRoom THEN wbuf ELSE SockRoom
     IN  /\ sock' = sock + pushed
         /\ wbuf' = wbuf - pushed
         /\ wakers' = IF wbuf > pushed THEN wakers \cup {"w"} ELSE wakers
  /\ out' = out

FlushReady == wbuf <= SockRoom

-----------------------------------------------------------------------------
(* StreamCopyBuffer *)

\* std::ptr::copy_nonoverlapping to the start: undefined where the ranges overlap
CopyNonoverlapping(b, src, n) ==
  [i \in DOMAIN b |-> IF i >= n THEN b[i] ELSE IF src < n THEN Garbage ELSE b[src + i]]

CheckMoveCache ==
  IF Left <= w_off
  THEN /\ buf' = CopyNonoverlapping(buf, w_off, Left)
       /\ w_off' = 0
       /\ r_off' = Left
  ELSE UNCHANGED window

\* poll_fill_buf when the reader has n bytes for it
FillData(n) ==
  /\ n <= Size - r_off /\ Taken + n <= sent
  /\ buf' = [i \in DOMAIN buf |->
               IF r_off <= i /\ i < r_off + n THEN Taken + 1 + (i - r_off) ELSE buf[i]]
  /\ r_off' = r_off + n
  /\ total_read' = total_read + n
  /\ active' = TRUE
  /\ UNCHANGED <<w_off, read_done>>

\* poll_fill_buf at the end of the stream
FillEof ==
  /\ eof /\ Taken = sent
  /\ read_done' = TRUE
  /\ UNCHANGED <<window, active, total_read>>

\* poll_fill_buf returns Pending: nothing there, or a rate limit with its timer
FillPending ==
  /\ \/ /\ ~eof /\ Taken = sent
        /\ wakers' = wakers \cup {"r"}
        /\ woken' = woken
     \/ /\ woken' = TRUE
        /\ wakers' = wakers
  /\ UNCHANGED <<window, read_done, active, total_read>>

-----------------------------------------------------------------------------
(* poll_copy *)

Poll ==
  /\ pc = "idle" /\ woken
  /\ pc' = "top"
  /\ woken' = FALSE
  /\ copied' = 0
  /\ UNCHANGED <<peer, writer, window, flags, preload, total_read, total_write, flushed, result, wakers>>

\* The head of the loop: empty buffers restart, small rests move to the front
Prepare ==
  /\ pc = "top"
  /\ IF read_done
     THEN UNCHANGED window
     ELSE IF w_off = r_off
     THEN /\ w_off' = 0 /\ r_off' = 0
          /\ buf' = buf
     ELSE IF w_off # 0 THEN CheckMoveCache ELSE UNCHANGED window
  /\ pc' = IF ~read_done /\ r_off' < Size THEN "read" ELSE "write"
  /\ UNCHANGED <<peer, writer, flags, totals, result, wakeup>>

\* Read first
ReadReady ==
  /\ pc = "read"
  /\ FillEof \/ \E n \in 1..Size : FillData(n)
  /\ pc' = "write"
  /\ UNCHANGED <<peer, writer, need_flush, preload, total_write, copied, flushed, result, wakeup>>

ReadPending ==
  /\ pc = "read"
  /\ FillPending
  /\ pc' = IF w_off < r_off THEN "write" ELSE IF need_flush THEN "flush" ELSE "idle"
  /\ UNCHANGED <<peer, writer, need_flush, preload, total_write, copied, flushed, result>>

Fail(kind) ==
  /\ pc' = "done"
  /\ result' = kind
  /\ UNCHANGED <<peer, writer, window, flags, totals, wakeup>>

ReadFail == pc \in {"read", "topup"} /\ Fail("readfail")

\* The flush while the reader has nothing: need_flush is cleared first
Flush ==
  /\ pc = "flush"
  /\ need_flush' = FALSE
  /\ PollFlush
  /\ pc' = "idle"
  /\ UNCHANGED <<peer, window, read_done, active, totals, result, woken>>

\* poll_write_buf
WriteReadyTwice ==
  /\ pc = "write" /\ w_off < r_off
  /\ \E n \in 1..Left :
       /\ Accept(w_off, n)
       /\ total_write' = total_write + n
       /\ copied' = copied + n
  /\ need_flush' = TRUE
  /\ active' = TRUE
  /\ UNCHANGED <<peer, buf, w_off, r_off, read_done, preload, total_read, flushed, control, woken>>

WriteReady ==
  /\ pc = "write" /\ w_off < r_off
  /\ \E n \in 1..Left :
       /\ Accept(w_off, n)
       /\ w_off' = w_off + n
       /\ total_write' = total_write + n
       /\ copied' = copied + n
  /\ need_flush' = TRUE
  /\ active' = TRUE
  /\ UNCHANGED <<peer, buf, r_off, read_done, preload, total_read, flushed, control, woken>>

WritePending ==
  /\ pc = "write" /\ w_off < r_off
  /\ \/ /\ WriterRoom = 0
        /\ wakers' = wakers \cup {"w"}
        /\ woken' = woken
     \/ /\ woken' = TRUE
        /\ wakers' = wakers
  /\ IF read_done THEN UNCHANGED window ELSE CheckMoveCache
  /\ pc' = IF ~read_done /\ r_off' + MinRead <= Size THEN "topup" ELSE "idle"
  /\ UNCHANGED <<peer, writer, flags, totals, result>>

WriteFail == pc = "write" /\ w_off < r_off /\ Fail("writefail")

\* The write is blocked, but the buffer has room for more
TopUp ==
  /\ pc = "topup"
  /\ \/ /\ FillEof \/ \E n \in 1..Size : FillData(n)
        /\ UNCHANGED wakeup
     \/ FillPending
  /\ pc' = "idle"
  /\ UNCHANGED <<peer, writer, need_flush, preload, total_write, copied, flushed, result>>

\* Nothing left to write: end, yield or go on
WrittenNoYieldWake ==
  /\ pc = "write" /\ w_off = r_off
  /\ pc' = IF read_done THEN "eof" ELSE IF copied >= YieldSize THEN "idle" ELSE "top"
  /\ UNCHANGED <<peer, writer, window, flags, totals, result, woken, wakers>>

Written ==
  /\ pc = "write" /\ w_off = r_off
  /\ pc' = IF read_done THEN "eof" ELSE IF copied >= YieldSize THEN "idle" ELSE "top"
  /\ woken' = (woken \/ pc' = "idle")
  /\ UNCHANGED <<peer, writer, window, flags, totals, result, wakers>>

\* The end of the stream: flush if the last write was not flushed yet
Finish ==
  /\ pc = "eof"
  /\ IF need_flush
     THEN /\ PollFlush
          /\ IF FlushReady
             THEN pc' = "done" /\ result' = "ok"
             ELSE pc' = "idle" /\ result' = result
     ELSE /\ pc' = "done" /\ result' = "ok"
          /\ UNCHANGED <<writer, wakers>>
  /\ UNCHANGED <<peer, window, flags, totals, woken>>

FlushFail == pc \in {"flush", "eof"} /\ (pc = "eof" => need_flush) /\ Fail("writefail")

Copy ==
  \/ Poll \/ Prepare \/ ReadReady \/ ReadPending \/ Flush \/ WriteReady
  \/ WritePending \/ TopUp \/ Written \/ Finish

-----------------------------------------------------------------------------
(* The task that owns the copy *)

ResetActive ==
  /\ pc = "idle"
  /\ active' = FALSE
  /\ UNCHANGED <<peer, writer, window, read_done, need_flush, totals, control, wakeup>>

\* write_flush: write_all of the rest, then flush; the copy is not polled again
WriteFlush ==
  /\ pc = "idle"
  /\ pc' = IF w_off < r_off THEN "wfwrite" ELSE "over"
  /\ UNCHANGED <<peer, writer, window, flags, totals, result, wakeup>>

WriteAll ==
  /\ pc = "wfwrite"
  /\ IF flushed < Left
     THEN /\ \E n \in 1..(Left - flushed) :
               /\ Accept(w_off + flushed, n)
               /\ flushed' = flushed + n
          /\ UNCHANGED <<w_off, total_write, pc>>
     ELSE /\ total_write' = total_write + Left
          /\ w_off' = r_off
          /\ flushed' = 0
          /\ pc' = "wfflush"
          /\ UNCHANGED <<writer, wakers>>
  /\ UNCHANGED <<peer, buf, r_off, flags, preload, total_read, copied, result, woken>>

WriteAllFlush ==
  /\ pc = "wfflush"
  /\ SockRoom > 0 \/ wbuf = 0
  /\ PollFlush
  /\ pc' = IF FlushReady THEN "over" ELSE pc
  /\ UNCHANGED <<peer, window, flags, totals, result, woken>>

WriteFlushFail ==
  /\ pc \in {"wfwrite", "wfflush"}
  /\ pc' = "over"
  /\ UNCHANGED <<peer, writer, window, flags, totals, result, wakeup>>

-----------------------------------------------------------------------------

\* StreamCopyBuffer::new, and with_data with preload bytes of the stream
Init ==
  /\ preload \in 0..Size /\ preload <= Total
  /\ active \in BOOLEAN
  /\ preload > 0 => active
  /\ buf = [i \in 0..(Size - 1) |-> IF i < preload THEN i + 1 ELSE Garbage]
  /\ r_off = preload /\ w_off = 0
  /\ read_done = FALSE /\ need_flush = FALSE
  /\ total_read = 0 /\ total_write = 0 /\ copied = 0 /\ flushed = 0
  /\ sent = preload /\ eof = FALSE
  /\ wbuf = 0 /\ sock = 0 /\ out = << >>
  /\ pc = "idle" /\ result = "none"
  /\ woken = TRUE /\ wakers = {}

Peers == Send \/ Close \/ Consume
Failure == ReadFail \/ WriteFail \/ FlushFail \/ WriteFlushFail
Owner == ResetActive \/ WriteFlush \/ WriteAll \/ WriteAllFlush

Next == Copy \/ Peers \/ Failure \/ Owner

Spec == Init /\ [][Next]_vars

Ended == pc \in {"done"} \cup FlushPcs

\* The runtime polls a woken task and runs what it polls; a rate limit ends
\* some time; the far end of the writer reads what it is sent.
FairSpec ==
  /\ Spec
  /\ WF_vars(Copy)
  /\ SF_vars(ReadReady) /\ SF_vars(WriteReady) /\ WF_vars(Consume)

-----------------------------------------------------------------------------
(* Properties *)

PeerType == sent \in 0..Total /\ eof \in BOOLEAN
WriterType == wbuf \in 0..WriterCap /\ sock \in 0..SockCap /\ out \in Seq(Nat)
WindowType == buf \in [0..(Size - 1) -> Nat] /\ r_off \in 0..Size /\ w_off \in 0..r_off
TotalType ==
  /\ preload \in Nat /\ total_read \in Nat /\ total_write \in Nat
  /\ flushed \in 0..Left
ControlType ==
  /\ read_done \in BOOLEAN /\ need_flush \in BOOLEAN /\ active \in BOOLEAN
  /\ pc \in PollPcs \cup FlushPcs \cup {"done"} /\ result \in Results
  /\ woken \in BOOLEAN /\ wakers \subseteq {"r", "w"} /\ copied \in Nat
\* The offsets stay inside the buffer, w_off behind r_off, and the writer and
\* its socket inside their capacities (every slice of copy.rs).
TypeOK == PeerType /\ WriterType /\ WindowType /\ TotalType /\ ControlType

\* Between w_off and r_off the buffer holds exactly the bytes that were read
\* and not written, in order, whatever was moved, topped up and written
\* (check_move_cache, poll_fill_buf, poll_write_buf, write_flush).
WindowExact ==
  /\ Left = Taken - total_write
  /\ \A i \in 0..(Size - 1) : w_off <= i /\ i < r_off => buf[i] = total_write + 1 + (i - w_off)
  /\ Len(out) = total_write + flushed

\* poll_copy never returns Pending without somebody to wake it: with bytes to
\* write, or at the end of the stream, the writer holds the waker, and with
\* nothing to write the reader does (every Pending of poll_copy).
NoSleepOnWork ==
  pc = "idle" /\ ~woken =>
    \/ "w" \in wakers /\ (w_off < r_off \/ read_done)
    \/ "r" \in wakers /\ w_off = r_off /\ ~read_done

\* The bytes that have arrived all go to the writer in the end, if the far end
\* of the writer keeps reading (poll_copy as a whole): time and again none is
\* left behind, unless the copy has ended.
Delivered == []<>(Len(out) = sent \/ Ended)

\* "If we've seen EOF and written all the data, flush out the data and finish
\* the transfer". It does NOT hold of the code: need_flush is cleared before a
\* flush that returns Pending, and at the end nothing is flushed.
OkMeansFlushed == result = "ok" => wbuf = 0

\* "trigger flush, no need to flush again on pending": what the writer accepted
\* leaves it in the end. It does NOT hold of the code with a writer that
\* buffers: nothing continues a flush that returned Pending.
FlushTakesEffect == (wbuf > 0) ~> (wbuf = 0 \/ Ended)

PipeState ==
  IF pc = "done" THEN result ELSE IF pc \in FlushPcs THEN "flush" ELSE "run"

Pipe == INSTANCE BytePipe WITH taken <- Taken, state <- PipeState

\* The copy moves every byte once and in order, never holds more than its
\* buffer, and reports success only when all has been handed over.
PipeSpec == Pipe!PSpec
=============================================================================
