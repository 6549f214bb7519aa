----------------------------- MODULE RelayProofs -----------------------------
(***************************************************************************)
(* Proofs about poll_copy and write_flush for buffers, writers and streams *)
(* of any size: the window is exact, the task never sleeps over work, and  *)
(* the copy implements BytePipe.  And about the relay task of two such     *)
(* copies: how it may end.                                                 *)
(***************************************************************************)
EXTENDS MCRelay, TLAPS

USE DEF peer, writer, window, flags, totals, control, wakeup

\* What \o makes of two sequences of numbers
LEMMA Concatenated ==
  ASSUME NEW s \in Seq(Nat), NEW t \in Seq(Nat)
  PROVE  s \o t \in Seq(Nat) /\ Len(s \o t) = Len(s) + Len(t)
<1>1. s \o t \in Seq(Nat)
  BY SMTT(30)
<1>2. Len(s \o t) = Len(s) + Len(t)
  BY SMTT(30)
<1> QED BY <1>1, <1>2

\* Appending n numbers to a sequence of numbers
LEMMA Appended ==
  ASSUME NEW s \in Seq(Nat), NEW n \in Nat, NEW f \in [1..n -> Nat]
  PROVE  /\ s \o f \in Seq(Nat)
         /\ Len(s \o f) = Len(s) + n
         /\ \A i \in 1..Len(s) : (s \o f)[i] = s[i]
         /\ \A i \in 1..n : (s \o f)[Len(s) + i] = f[i]
<1>1. f \in Seq(Nat) /\ Len(f) = n
  OBVIOUS
<1>2. s \o f \in Seq(Nat) /\ Len(s \o f) = Len(s) + n
  <2>1. s \o f \in Seq(Nat) /\ Len(s \o f) = Len(s) + Len(f)
    BY <1>1, Concatenated, Zenon
  <2> QED BY <1>1, <2>1, Zenon
<1>3. \A i \in 1..Len(s) : (s \o f)[i] = s[i]
  BY <1>1, SMTT(60)
<1>4. \A i \in 1..n : (s \o f)[Len(s) + i] = f[i]
  BY <1>1, SMTT(60)
<1> QED BY <1>2, <1>3, <1>4

-----------------------------------------------------------------------------
(* The few things a step may do to the window, the totals and the output *)

Kept == UNCHANGED <<preload, total_read, total_write, flushed, out>>

Still == Kept /\ UNCHANGED <<buf, r_off, w_off>>

Shift ==
  /\ Kept
  /\ buf' \in [0..(Size - 1) -> Nat]
  /\ w_off' = 0 /\ r_off' = Left
  /\ \A i \in 0..(Size - 1) : i < Left => buf'[i] = buf[w_off + i]

Filled ==
  /\ \E n \in 1..Size : FillData(n)
  /\ UNCHANGED <<preload, total_write, flushed, out, sent, eof>>

Wrote ==
  /\ \E n \in 1..Left :
       /\ n <= WriterRoom
       /\ out' = out \o [i \in 1..n |-> buf[w_off + i - 1]]
       /\ w_off' = w_off + n
       /\ total_write' = total_write + n
  /\ flushed = 0
  /\ UNCHANGED <<buf, r_off, preload, total_read, flushed>>

FlushWrote ==
  /\ \E n \in 1..(Left - flushed) :
       /\ out' = out \o [i \in 1..n |-> buf[w_off + flushed + i - 1]]
       /\ flushed' = flushed + n
  /\ UNCHANGED <<buf, r_off, w_off, preload, total_read, total_write>>

FlushWroteAll ==
  /\ flushed = Left
  /\ w_off' = r_off
  /\ total_write' = total_write + Left
  /\ flushed' = 0
  /\ UNCHANGED <<buf, r_off, preload, total_read, out>>

Effect == Still \/ Shift \/ Filled \/ Wrote \/ FlushWrote \/ FlushWroteAll

\* write_all counts only while write_flush runs
FlushedZero == pc \notin {"wfwrite", "over"} => flushed = 0

\* check_move_cache leaves the window alone or moves it to the front
LEMMA MoveEffect ==
  ASSUME TypeOK, CheckMoveCache, Kept
  PROVE  Still \/ Shift
<1>1. CASE Left <= w_off
  <2>1. buf' = CopyNonoverlapping(buf, w_off, Left) /\ w_off' = 0 /\ r_off' = Left
    BY Zenon, <1>1 DEF CheckMoveCache
  <2>2. r_off \in Nat /\ w_off \in Nat /\ Left \in Nat /\ w_off + Left <= Size /\ Size \in Nat
    BY CopyAssumption DEF TypeOK, WindowType, Left
  <2>3. buf \in [0..(Size - 1) -> Nat]
    BY Zenon DEF TypeOK, WindowType
  <2>4. buf' = [i \in 0..(Size - 1) |-> IF i >= Left THEN buf[i] ELSE buf[w_off + i]]
    BY <1>1, <2>1, <2>2, <2>3 DEF CopyNonoverlapping
  <2>5. ASSUME NEW i \in 0..(Size - 1), i < Left PROVE buf'[i] = buf[w_off + i]
    BY <2>4, <2>5, <2>2
  <2>6. buf' \in [0..(Size - 1) -> Nat]
    BY <2>4, <2>2, <2>3
  <2> QED BY Zenon, <2>1, <2>5, <2>6 DEF Shift
<1>2. CASE ~(Left <= w_off)
  BY Zenon, <1>2 DEF CheckMoveCache, Still
<1> QED BY <1>1, <1>2

\* Every step of the specification has one of these effects
LEMMA StepEffect ==
  ASSUME TypeOK, FlushedZero, [Next]_vars
  PROVE  Effect
<1> USE DEF Effect
<1>1. CASE Prepare
  <2>1. Kept
    BY Zenon, <1>1 DEF Prepare, Kept
  <2>2. CASE UNCHANGED window
    BY Zenon, <2>1, <2>2 DEF Still
  <2>3. CASE w_off = r_off /\ w_off' = 0 /\ r_off' = 0 /\ buf' = buf
    <3>1. Left = 0 /\ buf \in [0..(Size - 1) -> Nat]
      BY <2>3 DEF TypeOK, WindowType, Left
    <3>2. \A i \in 0..(Size - 1) : ~(i < Left)
      BY <3>1, CopyAssumption
    <3> QED BY Zenon, <2>1, <2>3, <3>1, <3>2 DEF Shift
  <2>4. CASE CheckMoveCache
    BY Zenon, <2>1, <2>4, MoveEffect
  <2> QED BY Zenon, <1>1, <2>2, <2>3, <2>4 DEF Prepare
<1>2. CASE WritePending
  <2>1. Kept
    BY Zenon, <1>2 DEF WritePending, Kept
  <2>2. CASE UNCHANGED window
    BY Zenon, <2>1, <2>2 DEF Still
  <2>3. CASE CheckMoveCache
    BY Zenon, <2>1, <2>3, MoveEffect
  <2> QED BY Zenon, <1>2, <2>2, <2>3 DEF WritePending
<1>3. CASE ReadReady
  BY Zenon, <1>3 DEF ReadReady, FillEof, Filled, Still, Kept
<1>4. CASE TopUp
  BY Zenon, <1>4 DEF TopUp, FillEof, FillPending, Filled, Still, Kept
<1>5. CASE WriteReady
  <2>1. flushed = 0
    BY Zenon, <1>5 DEF WriteReady, FlushedZero
  <2> QED BY Zenon, <1>5, <2>1 DEF WriteReady, Accept, Wrote
<1>6. CASE WriteAll
  <2>1. CASE flushed < Left
    BY Zenon, <1>6, <2>1 DEF WriteAll, Accept, FlushWrote
  <2>2. CASE ~(flushed < Left)
    <3>1. flushed = Left
      BY <2>2 DEF TypeOK, TotalType, WindowType, Left
    <3> QED BY Zenon, <1>6, <2>2, <3>1 DEF WriteAll, FlushWroteAll
  <2> QED BY <2>1, <2>2
<1>7. CASE Poll \/ ReadPending \/ Flush \/ Written \/ Finish
  BY Zenon, <1>7 DEF Poll, ReadPending, FillPending, Flush, PollFlush, Written, Finish, Still, Kept
<1>8. CASE Peers
  BY Zenon, <1>8 DEF Peers, Send, Close, Consume, Still, Kept
<1>9. CASE Failure
  BY Zenon, <1>9 DEF Failure, ReadFail, WriteFail, FlushFail, Fail, WriteFlushFail, Still, Kept
<1>10. CASE ResetActive \/ WriteFlush \/ WriteAllFlush
  BY Zenon, <1>10 DEF ResetActive, WriteFlush, WriteAllFlush, PollFlush, Still, Kept
<1>11. CASE UNCHANGED vars
  BY Zenon, <1>11 DEF vars, Still, Kept
<1> QED BY Zenon, <1>1, <1>2, <1>3, <1>4, <1>5, <1>6, <1>7, <1>8, <1>9, <1>10, <1>11
        DEF Next, Copy, Owner

-----------------------------------------------------------------------------
(* The window and the output, by effect *)

\* The writer has got the stream from its first byte on
OutExact == \A i \in 1..Len(out) : out[i] = i

\* The bytes the writer accepts from the window are the next of the stream
LEMMA NextBytes ==
  ASSUME TypeOK, WindowExact, NEW n \in Nat, flushed + n <= Left
  PROVE  [i \in 1..n |-> buf[w_off + flushed + i - 1]] = [i \in 1..n |-> Len(out) + i]
<1>1. ASSUME NEW i \in 1..n PROVE buf[w_off + flushed + i - 1] = Len(out) + i
  <2> DEFINE j == w_off + flushed + i - 1
  <2>1. r_off \in Nat /\ w_off \in Nat /\ flushed \in Nat /\ Size \in Nat /\ r_off <= Size
    BY CopyAssumption DEF TypeOK, WindowType, TotalType
  <2>2. j \in 0..(Size - 1) /\ w_off <= j /\ j < r_off /\ j - w_off = flushed + i - 1
    BY <2>1 DEF Left
  <2>3. buf[j] = total_write + 1 + (j - w_off)
    BY <2>2, Zenon DEF WindowExact
  <2>4. Len(out) = total_write + flushed /\ total_write \in Nat
    BY Zenon DEF WindowExact, TypeOK, TotalType
  <2> QED BY <2>1, <2>2, <2>3, <2>4
<1> QED BY Zenon, <1>1

\* What Accept appends, in terms of the stream
LEMMA Accepted ==
  ASSUME TypeOK, WindowExact, OutExact, NEW n \in Nat, flushed + n <= Left,
         out' = out \o [i \in 1..n |-> buf[w_off + flushed + i - 1]]
  PROVE  /\ out' \in Seq(Nat) /\ Len(out') = Len(out) + n
         /\ OutExact'
         /\ out' = out \o [i \in 1..n |-> Len(out) + i]
<1> DEFINE f == [i \in 1..n |-> Len(out) + i]
<1>1. out' = out \o f
  BY Zenon, NextBytes
<1>2. out \in Seq(Nat) /\ Len(out) \in Nat /\ f \in [1..n -> Nat]
  BY DEF TypeOK, WriterType
<1>3. /\ out \o f \in Seq(Nat) /\ Len(out \o f) = Len(out) + n
      /\ \A i \in 1..Len(out) : (out \o f)[i] = out[i]
      /\ \A i \in 1..n : (out \o f)[Len(out) + i] = f[i]
  BY Zenon, <1>2, Appended
<1>4. ASSUME NEW i \in 1..Len(out') PROVE out'[i] = i
  <2>1. CASE i <= Len(out)
    BY <1>1, <1>2, <1>3, <2>1 DEF OutExact
  <2>2. CASE ~(i <= Len(out))
    <3>1. (i - Len(out)) \in 1..n /\ i = Len(out) + (i - Len(out))
      BY <1>1, <1>2, <1>3, <2>2
    <3>2. (out \o f)[Len(out) + (i - Len(out))] = Len(out) + (i - Len(out))
      BY Zenon, <1>3, <3>1
    <3> QED BY Zenon, <1>1, <3>1, <3>2
  <2> QED BY <2>1, <2>2
<1> QED BY Zenon, <1>1, <1>3, <1>4 DEF OutExact

\* The offsets and totals keep their ranges, the window stays exact
LEMMA WindowNext ==
  ASSUME TypeOK, WindowExact, OutExact, Effect
  PROVE  /\ WindowType' /\ TotalType' /\ WindowExact' /\ OutExact'
         /\ out' \in Seq(Nat)
<1>0. /\ Size \in Nat /\ r_off \in 0..Size /\ w_off \in 0..r_off /\ Left \in Nat
      /\ buf \in [0..(Size - 1) -> Nat]
      /\ preload \in Nat /\ total_read \in Nat /\ total_write \in Nat /\ flushed \in 0..Left
      /\ Len(out) = total_write + flushed /\ Left = Taken - total_write /\ Taken \in Nat
      /\ out \in Seq(Nat) /\ Len(out) \in Nat
  BY CopyAssumption DEF TypeOK, WindowType, TotalType, WriterType, WindowExact, Left, Taken
<1>1. CASE Still
  BY Zenon, <1>1 DEF Still, Kept, TypeOK, WindowType, TotalType, WriterType, WindowExact, OutExact,
     Left, Taken
<1>2. CASE Shift
  <2>1. /\ UNCHANGED <<preload, total_read, total_write, flushed, out>>
        /\ w_off' = 0 /\ r_off' = Left /\ buf' \in [0..(Size - 1) -> Nat]
    BY Zenon, <1>2 DEF Shift, Kept
  <2>2. Left' = Left /\ Taken' = Taken
    BY <1>0, <2>1 DEF Left, Taken
  <2>3. WindowType' /\ TotalType'
    BY <1>0, <2>1, <2>2 DEF WindowType, TotalType, Left
  <2>4. ASSUME NEW i \in 0..(Size - 1), w_off' <= i, i < r_off'
        PROVE  buf'[i] = total_write' + 1 + (i - w_off')
    <3>1. buf'[i] = buf[w_off + i]
      BY Zenon, <1>2, <2>1, <2>4 DEF Shift
    <3>2. w_off + i \in 0..(Size - 1) /\ w_off <= w_off + i /\ w_off + i < r_off
      BY <1>0, <2>1, <2>4 DEF Left
    <3>3. buf[w_off + i] = total_write + 1 + ((w_off + i) - w_off)
      BY Zenon, <3>2 DEF WindowExact
    <3> QED BY <1>0, <2>1, <3>1, <3>3
  <2>5. WindowExact' /\ OutExact'
    BY Zenon, <1>0, <2>1, <2>2, <2>4 DEF WindowExact, OutExact
  <2> QED BY Zenon, <1>0, <2>1, <2>3, <2>5
<1>3. CASE Filled
  <2>1. PICK n \in 1..Size : FillData(n)
    BY Zenon, <1>3 DEF Filled
  <2>2. UNCHANGED <<preload, total_write, flushed, out, w_off>>
    BY Zenon, <1>3, <2>1 DEF Filled, FillData
  <2>3. /\ n <= Size - r_off /\ r_off' = r_off + n /\ total_read' = total_read + n
        /\ buf' = [i \in DOMAIN buf |->
               IF r_off <= i /\ i < r_off + n THEN Taken + 1 + (i - r_off) ELSE buf[i]]
    BY Zenon, <2>1 DEF FillData
  <2>4. Left' = Left + n /\ Taken' = Taken + n
    BY <1>0, <2>2, <2>3 DEF Left, Taken
  <2>5. buf' \in [0..(Size - 1) -> Nat]
    BY <1>0, <2>3
  <2>6. WindowType' /\ TotalType'
    BY <1>0, <2>2, <2>3, <2>4, <2>5 DEF WindowType, TotalType
  <2>7. ASSUME NEW i \in 0..(Size - 1), w_off' <= i, i < r_off'
        PROVE  buf'[i] = total_write' + 1 + (i - w_off')
    <3>1. CASE i < r_off
      <4>1. buf'[i] = buf[i]
        BY <1>0, <2>3, <3>1
      <4>2. buf[i] = total_write + 1 + (i - w_off)
        BY Zenon, <2>2, <2>7, <3>1 DEF WindowExact
      <4> QED BY Zenon, <2>2, <4>1, <4>2
    <3>2. CASE ~(i < r_off)
      <4>1. buf'[i] = Taken + 1 + (i - r_off)
        BY <1>0, <2>3, <2>7, <3>2
      <4>2. Taken = total_write + r_off - w_off
        BY <1>0 DEF Left
      <4> QED BY <1>0, <2>2, <4>1, <4>2
    <3> QED BY <3>1, <3>2
  <2>8. Left' = Taken' - total_write'
    BY <1>0, <2>2, <2>4
  <2>9. WindowExact' /\ OutExact'
    BY Zenon, <1>0, <2>2, <2>7, <2>8 DEF WindowExact, OutExact
  <2> QED BY Zenon, <1>0, <2>2, <2>6, <2>9
<1>4. CASE Wrote
  <2>1. PICK n \in 1..Left :
          /\ out' = out \o [i \in 1..n |-> buf[w_off + i - 1]]
          /\ w_off' = w_off + n /\ total_write' = total_write + n
    BY Zenon, <1>4 DEF Wrote
  <2>2. flushed = 0 /\ UNCHANGED <<buf, r_off, preload, total_read, flushed>>
    BY Zenon, <1>4 DEF Wrote
  <2>3. out' = out \o [i \in 1..n |-> buf[w_off + flushed + i - 1]]
    BY <1>0, <2>1, <2>2
  <2>4. n \in Nat /\ flushed + n <= Left
    BY <1>0, <2>2
  <2>5. out' \in Seq(Nat) /\ Len(out') = Len(out) + n /\ OutExact'
    BY Zenon, <2>3, <2>4, Accepted
  <2>6. Left' = Left - n /\ Taken' = Taken
    BY <1>0, <2>1, <2>2 DEF Left, Taken
  <2>7. WindowType' /\ TotalType'
    BY <1>0, <2>1, <2>2, <2>6 DEF WindowType, TotalType, Left
  <2>8. ASSUME NEW i \in 0..(Size - 1), w_off' <= i, i < r_off'
        PROVE  buf'[i] = total_write' + 1 + (i - w_off')
    <3>1. w_off <= i /\ i < r_off /\ buf'[i] = buf[i]
      BY <1>0, <2>1, <2>2, <2>8
    <3>2. buf[i] = total_write + 1 + (i - w_off)
      BY Zenon, <3>1 DEF WindowExact
    <3> QED BY <1>0, <2>1, <3>1, <3>2
  <2>9. Left' = Taken' - total_write' /\ Len(out') = total_write' + flushed'
    BY <1>0, <2>1, <2>2, <2>5, <2>6
  <2>10. WindowExact'
    BY Zenon, <2>8, <2>9 DEF WindowExact
  <2> QED BY Zenon, <2>5, <2>7, <2>10
<1>5. CASE FlushWrote
  <2>1. PICK n \in 1..(Left - flushed) :
          /\ out' = out \o [i \in 1..n |-> buf[w_off + flushed + i - 1]]
          /\ flushed' = flushed + n
    BY Zenon, <1>5 DEF FlushWrote
  <2>2. UNCHANGED <<buf, r_off, w_off, preload, total_read, total_write>>
    BY Zenon, <1>5 DEF FlushWrote
  <2>3. n \in Nat /\ flushed + n <= Left
    BY <1>0
  <2>4. out' \in Seq(Nat) /\ Len(out') = Len(out) + n /\ OutExact'
    BY Zenon, <2>1, <2>3, Accepted
  <2>5. Left' = Left /\ Taken' = Taken
    BY Zenon, <2>2 DEF Left, Taken
  <2>6. WindowType' /\ TotalType'
    BY <1>0, <2>1, <2>2, <2>3, <2>5 DEF WindowType, TotalType
  <2>7. Len(out') = total_write' + flushed'
    BY <1>0, <2>1, <2>2, <2>4
  <2>8. WindowExact'
    BY Zenon, <1>0, <2>2, <2>5, <2>7 DEF WindowExact
  <2> QED BY Zenon, <2>4, <2>6, <2>8
<1>6. CASE FlushWroteAll
  <2>1. /\ flushed = Left /\ w_off' = r_off /\ total_write' = total_write + Left
        /\ flushed' = 0 /\ UNCHANGED <<buf, r_off, preload, total_read, out>>
    BY Zenon, <1>6 DEF FlushWroteAll
  <2>2. Left' = 0 /\ Taken' = Taken
    BY <1>0, <2>1 DEF Left, Taken
  <2>3. WindowType' /\ TotalType'
    BY <1>0, <2>1, <2>2 DEF WindowType, TotalType
  <2>4. Left' = Taken' - total_write' /\ Len(out') = total_write' + flushed'
    BY <1>0, <2>1, <2>2
  <2>5. \A i \in 0..(Size - 1) : ~(w_off' <= i /\ i < r_off')
    BY <1>0, <2>1
  <2>6. WindowExact' /\ OutExact'
    BY Zenon, <2>1, <2>4, <2>5 DEF WindowExact, OutExact
  <2> QED BY Zenon, <1>0, <2>1, <2>3, <2>6
<1> QED BY Zenon, <1>1, <1>2, <1>3, <1>4, <1>5, <1>6 DEF Effect

-----------------------------------------------------------------------------
(* Types and control *)

\* Neither accepting nor flushing overfills the writer or its socket
LEMMA WriterBounds ==
  ASSUME TypeOK, NEW n \in Nat, NEW from \in Nat, Accept(from, n) \/ PollFlush
  PROVE  wbuf' \in 0..WriterCap /\ sock' \in 0..SockCap
<1>1. /\ WriterCap \in Nat /\ SockCap \in Nat /\ wbuf \in 0..WriterCap /\ sock \in 0..SockCap
  BY CopyAssumption DEF TypeOK, WriterType
<1>2. CASE Accept(from, n)
  <2>1. /\ n <= WriterRoom
        /\ sock' = sock + (IF wbuf + n <= SockRoom THEN wbuf + n ELSE SockRoom)
        /\ wbuf' = wbuf + n - (IF wbuf + n <= SockRoom THEN wbuf + n ELSE SockRoom)
    BY Zenon, <1>2 DEF Accept
  <2> QED BY <1>1, <2>1 DEF WriterRoom, SockRoom
<1>3. CASE PollFlush
  <2>1. /\ sock' = sock + (IF wbuf <= SockRoom THEN wbuf ELSE SockRoom)
        /\ wbuf' = wbuf - (IF wbuf <= SockRoom THEN wbuf ELSE SockRoom)
    BY Zenon, <1>3 DEF PollFlush
  <2> QED BY <1>1, <2>1 DEF SockRoom
<1> QED BY <1>2, <1>3

LEMMA WriterNext ==
  ASSUME TypeOK, [Next]_vars, out' \in Seq(Nat)
  PROVE  WriterType'
<1> SUFFICES wbuf' \in 0..WriterCap /\ sock' \in 0..SockCap
  BY Zenon DEF WriterType
<1>0. Left \in Nat /\ w_off \in Nat /\ flushed \in Nat /\ flushed <= Left
  BY CopyAssumption DEF TypeOK, WindowType, TotalType, Left
<1>1. CASE UNCHANGED <<wbuf, sock>>
  BY Zenon, <1>1 DEF TypeOK, WriterType
<1>2. CASE Consume
  <2>1. sock > 0 /\ sock' = sock - 1 /\ wbuf' = wbuf
    BY Zenon, <1>2 DEF Consume
  <2> QED BY <2>1, CopyAssumption DEF TypeOK, WriterType
<1>3. CASE WriteReady
  <2>1. PICK n \in 1..Left : Accept(w_off, n)
    BY Zenon, <1>3 DEF WriteReady
  <2>2. n \in Nat
    BY <1>0
  <2> QED BY Zenon, <1>0, <2>1, <2>2, WriterBounds
<1>4. CASE WriteAll
  <2>1. CASE flushed < Left
    <3>1. PICK n \in 1..(Left - flushed) : Accept(w_off + flushed, n)
      BY Zenon, <1>4, <2>1 DEF WriteAll
    <3>2. n \in Nat /\ w_off + flushed \in Nat
      BY <1>0
    <3> QED BY Zenon, <3>1, <3>2, WriterBounds
  <2>2. CASE ~(flushed < Left)
    BY Zenon, <1>1, <1>4, <2>2 DEF WriteAll
  <2> QED BY <2>1, <2>2
<1>5. CASE PollFlush
  BY Zenon, <1>5, WriterBounds
<1>6. CASE Poll \/ Prepare \/ ReadReady \/ ReadPending \/ WritePending \/ TopUp \/ Written
  BY Zenon, <1>1, <1>6 DEF Poll, Prepare, ReadReady, ReadPending, WritePending, TopUp, Written
<1>7. CASE Flush \/ Finish \/ WriteAllFlush
  BY Zenon, <1>1, <1>5, <1>7 DEF Flush, Finish, WriteAllFlush
<1>8. CASE Send \/ Close \/ Failure
  BY Zenon, <1>1, <1>8 DEF Send, Close, Failure, ReadFail, WriteFail, FlushFail, Fail, WriteFlushFail
<1>9. CASE ResetActive \/ WriteFlush
  BY Zenon, <1>1, <1>9 DEF ResetActive, WriteFlush
<1>10. CASE UNCHANGED vars
  BY Zenon, <1>1, <1>10 DEF vars
<1> QED BY Zenon, <1>2, <1>3, <1>4, <1>6, <1>7, <1>8, <1>9, <1>10 DEF Next, Copy, Owner, Peers

\* What a step does to the control state and the wakers
LEMMA ControlNext ==
  ASSUME TypeOK, [Next]_vars
  PROVE  ControlType' /\ PeerType'
<1> USE DEF TypeOK, ControlType, PeerType, PollPcs, FlushPcs, Results
<1>0. copied' \in Nat
  <2>1. CASE WriteReady
    <3>1. PICK n \in 1..Left : copied' = copied + n
      BY Zenon, <2>1 DEF WriteReady
    <3>2. Left \in Nat
      BY CopyAssumption DEF WindowType, Left
    <3> QED BY <3>1, <3>2
  <2>2. CASE copied' = copied \/ copied' = 0
    BY <2>2
  <2> QED BY Zenon, <2>1, <2>2 DEF Next, Copy, Owner, Peers, Failure, Poll, Prepare, ReadReady,
     ReadPending, Flush, WritePending, TopUp, Written, Finish, Send, Close, Consume, ReadFail,
     WriteFail, FlushFail, Fail, WriteFlushFail, ResetActive, WriteFlush, WriteAll, WriteAllFlush, vars
<1>1. CASE Send
  <2>1. sent' = sent + 1 /\ sent < Total /\ sent' \in 0..Total
    BY <1>1, CopyAssumption DEF Send
  <2> QED BY ZenonT(60), <1>0, <1>1, <2>1 DEF Send, Wake
<1>2. CASE Close \/ Consume
  <2>1. CASE Close
    BY ZenonT(60), <1>0, <2>1 DEF Close, Wake
  <2>2. CASE Consume
    BY ZenonT(60), <1>0, <2>2 DEF Consume, Wake
  <2> QED BY <1>2, <2>1, <2>2, Zenon
<1>3. CASE Poll \/ Prepare \/ ReadReady
  BY ZenonT(60), <1>0, <1>3 DEF Poll, Prepare, ReadReady, FillEof, FillData
<1>4. CASE ReadPending \/ TopUp
  BY ZenonT(60), <1>0, <1>4 DEF ReadPending, TopUp, FillPending, FillEof, FillData
<1>5. CASE Flush \/ Finish \/ WriteAllFlush
  BY ZenonT(60), <1>0, <1>5 DEF Flush, Finish, WriteAllFlush, PollFlush
<1>6. CASE WriteReady \/ WriteAll
  BY ZenonT(60), <1>0, <1>6 DEF WriteReady, WriteAll, Accept
<1>7. CASE WritePending \/ Written
  BY ZenonT(60), <1>0, <1>7 DEF WritePending, Written
<1>8. CASE Failure
  BY ZenonT(60), <1>0, <1>8 DEF Failure, ReadFail, WriteFail, FlushFail, Fail, WriteFlushFail
<1>9. CASE ResetActive \/ WriteFlush
  BY ZenonT(60), <1>0, <1>9 DEF ResetActive, WriteFlush
<1>10. CASE UNCHANGED vars
  BY Zenon, <1>10 DEF vars
<1> QED BY Zenon, <1>1, <1>2, <1>3, <1>4, <1>5, <1>6, <1>7, <1>8, <1>9, <1>10
        DEF Next, Copy, Owner, Peers

-----------------------------------------------------------------------------
(* The end of the stream, and who wakes the task *)

\* The copy never reads ahead of its peer; it has seen the end only when the
\* peer has closed and all is read; it ends only with nothing left to write.
EndExact ==
  /\ Taken <= sent
  /\ read_done => eof /\ Taken = sent
  /\ pc = "eof" => read_done /\ w_off = r_off

\* Which half has been left with the waker, by the point poll_copy has reached
Armed ==
  /\ NoSleepOnWork
  /\ pc = "topup" => ~read_done /\ w_off < r_off /\ (woken \/ "w" \in wakers)
  /\ pc = "flush" => ~read_done /\ w_off = r_off /\ (woken \/ "r" \in wakers)
  /\ pc = "read" => ~read_done

IInv ==
  /\ TypeOK /\ WindowExact /\ OutExact
  /\ FlushedZero /\ EndExact /\ Armed

LEMMA FlushedNext ==
  ASSUME TypeOK, FlushedZero, [Next]_vars
  PROVE  FlushedZero'
<1> USE DEF FlushedZero
<1>1. CASE Poll \/ Prepare \/ ReadReady \/ ReadPending \/ Flush \/ WriteReady \/ WritePending
  BY Zenon, <1>1 DEF Poll, Prepare, ReadReady, ReadPending, Flush, WriteReady, WritePending
<1>2. CASE TopUp \/ Written \/ Finish \/ Peers \/ ResetActive \/ WriteFlush
  BY Zenon, <1>2 DEF TopUp, Written, Finish, Peers, Send, Close, Consume, ResetActive, WriteFlush
<1>3. CASE Failure
  BY Zenon, <1>3 DEF Failure, ReadFail, WriteFail, FlushFail, Fail, WriteFlushFail
<1>4. CASE WriteAll \/ WriteAllFlush
  BY Zenon, <1>4 DEF WriteAll, WriteAllFlush
<1>5. CASE UNCHANGED vars
  BY Zenon, <1>5 DEF vars
<1> QED BY Zenon, <1>1, <1>2, <1>3, <1>4, <1>5 DEF Next, Copy, Owner

LEMMA EndNext ==
  ASSUME TypeOK, EndExact, [Next]_vars
  PROVE  EndExact'
<1>0. sent \in Nat /\ Taken \in Nat /\ preload \in Nat /\ total_read \in Nat
  BY DEF TypeOK, PeerType, TotalType, Taken
<1> USE DEF EndExact
<1>1. CASE Send
  <2>1. sent' = sent + 1 /\ ~eof /\ Taken' = Taken
    BY Zenon, <1>1 DEF Send, Taken
  <2>2. UNCHANGED <<pc, read_done, w_off, r_off, eof>>
    BY Zenon, <1>1 DEF Send
  <2>3. Taken <= sent + 1
    BY <1>0
  <2> QED BY Zenon, <2>1, <2>2, <2>3
<1>2. CASE Close \/ Consume
  BY <1>2 DEF Close, Consume, Taken
<1>3. CASE ReadReady \/ TopUp
  <2>1. CASE \E n \in 1..Size : FillData(n)
    <3>1. PICK n \in 1..Size : FillData(n)
      BY <2>1
    <3>2. Taken + n <= sent /\ total_read' = total_read + n /\ read_done' = read_done
      BY Zenon, <3>1 DEF FillData
    <3>3. preload' = preload /\ sent' = sent /\ eof' = eof /\ pc' # "eof"
      BY Zenon, <1>3 DEF ReadReady, TopUp
    <3>4. n \in Nat /\ n > 0
      BY CopyAssumption
    <3>5. ~read_done
      BY <1>0, <3>2, <3>4
    <3>6. Taken' = Taken + n
      BY <1>0, <3>2, <3>3, <3>4 DEF Taken
    <3> QED BY Zenon, <3>2, <3>3, <3>5, <3>6
  <2>2. CASE FillEof \/ FillPending
    BY SMTT(60), <1>3, <2>2 DEF FillEof, FillPending, ReadReady, TopUp, Taken
  <2> QED BY Zenon, <1>3, <2>1, <2>2 DEF ReadReady, TopUp
<1>4. CASE Poll \/ Prepare \/ ReadPending \/ Flush \/ WriteReady \/ WritePending
  BY <1>4 DEF Poll, Prepare, ReadPending, FillPending, Flush, WriteReady, WritePending, Taken
<1>5. CASE Written \/ Finish
  BY <1>5 DEF Written, Finish, Taken
<1>6. CASE Failure
  BY <1>6 DEF Failure, ReadFail, WriteFail, FlushFail, Fail, WriteFlushFail, Taken
<1>7. CASE Owner
  BY <1>7 DEF Owner, ResetActive, WriteFlush, WriteAll, WriteAllFlush, Taken
<1>8. CASE UNCHANGED vars
  BY Zenon, <1>8 DEF vars, Taken
<1> QED BY Zenon, <1>1, <1>2, <1>3, <1>4, <1>5, <1>6, <1>7, <1>8 DEF Next, Copy, Peers

LEMMA ArmedNext ==
  ASSUME TypeOK, EndExact, Armed, [Next]_vars
  PROVE  Armed'
<1>0. woken \in BOOLEAN /\ read_done \in BOOLEAN
  BY Zenon DEF TypeOK, ControlType
<1> USE DEF Armed, NoSleepOnWork
<1>1. CASE Peers
  <2>1. UNCHANGED <<pc, read_done, w_off, r_off>>
    BY Zenon, <1>1 DEF Peers, Send, Close, Consume
  <2>2. PICK half \in {"r", "w"} : Wake(half)
    BY Zenon, <1>1 DEF Peers, Send, Close, Consume
  <2>3. \A h \in {"r", "w"} : woken \/ h \in wakers => woken' \/ h \in wakers'
    BY Zenon, <1>0, <2>2 DEF Wake
  <2>4. /\ woken \/ "r" \in wakers => woken' \/ "r" \in wakers'
        /\ woken \/ "w" \in wakers => woken' \/ "w" \in wakers'
    BY <2>3
  <2>5. (woken => woken') /\ woken' \in BOOLEAN
    BY <1>0, <2>2 DEF Wake
  <2> QED BY Zenon, <2>1, <2>4, <2>5
<1>2. CASE Poll
  BY Zenon, <1>2 DEF Poll
<1>3. CASE Prepare
  BY Zenon, <1>3 DEF Prepare
<1>4. CASE ReadReady
  BY Zenon, <1>4 DEF ReadReady
<1>5. CASE ReadPending
  <2>1. ~(w_off < r_off) => w_off = r_off
    BY DEF TypeOK, WindowType
  <2> QED BY Zenon, <1>5, <2>1 DEF ReadPending, FillPending
<1>6. CASE Flush
  BY Zenon, <1>6 DEF Flush, PollFlush
<1>7. CASE WriteReady
  BY Zenon, <1>7 DEF WriteReady
<1>8. CASE WritePending
  <2>1. w_off < r_off /\ (woken' \/ "w" \in wakers') /\ read_done' = read_done
    BY Zenon, <1>8 DEF WritePending
  <2>2. w_off' < r_off'
    <3>1. CASE UNCHANGED window
      BY Zenon, <2>1, <3>1
    <3>2. CASE w_off' = 0 /\ r_off' = Left
      BY <2>1, <3>2 DEF TypeOK, WindowType, Left
    <3> QED BY Zenon, <1>8, <3>1, <3>2 DEF WritePending, CheckMoveCache
  <2>3. pc' = "idle" \/ (pc' = "topup" /\ ~read_done)
    BY Zenon, <1>8 DEF WritePending
  <2> QED BY Zenon, <2>1, <2>2, <2>3
<1>9. CASE TopUp
  <2>1. ~read_done /\ w_off < r_off /\ (woken \/ "w" \in wakers) /\ w_off' = w_off /\ pc' = "idle"
    BY Zenon, <1>9 DEF TopUp, FillData, FillEof, FillPending
  <2>2. woken' \/ "w" \in wakers'
    BY Zenon, <1>9, <2>1 DEF TopUp, FillPending
  <2>3. w_off' < r_off'
    <3>1. CASE r_off' = r_off
      BY Zenon, <2>1, <3>1
    <3>2. CASE \E n \in 1..Size : r_off' = r_off + n
      BY <2>1, <3>2, CopyAssumption DEF TypeOK, WindowType
    <3> QED BY Zenon, <1>9, <3>1, <3>2 DEF TopUp, FillData, FillEof, FillPending
  <2> QED BY Zenon, <2>1, <2>2, <2>3
<1>10. CASE Written
  BY Zenon, <1>10 DEF Written
<1>11. CASE Finish
  <2>1. CASE need_flush /\ ~FlushReady
    <3>1. "w" \in wakers'
      <4>1. wbuf > SockRoom
        BY <2>1, CopyAssumption DEF FlushReady, TypeOK, WriterType, SockRoom
      <4>2. wakers' = IF wbuf > (IF wbuf <= SockRoom THEN wbuf ELSE SockRoom)
                      THEN wakers \cup {"w"} ELSE wakers
        BY Zenon, <1>11, <2>1 DEF Finish, PollFlush
      <4>3. ~(wbuf <= SockRoom)
        BY Zenon, <2>1 DEF FlushReady
      <4> QED BY <4>1, <4>2, <4>3
    <3>2. read_done /\ read_done' = read_done
      BY Zenon, <1>11 DEF Finish, EndExact
    <3>3. pc' = "idle"
      BY Zenon, <1>11, <2>1 DEF Finish
    <3> QED BY Zenon, <3>1, <3>2, <3>3
  <2>2. CASE ~(need_flush /\ ~FlushReady)
    BY Zenon, <1>11, <2>2 DEF Finish
  <2> QED BY <2>1, <2>2
<1>12. CASE Failure
  BY Zenon, <1>12 DEF Failure, ReadFail, WriteFail, FlushFail, Fail, WriteFlushFail
<1>13. CASE ResetActive
  BY Zenon, <1>13 DEF ResetActive
<1>14. CASE WriteFlush \/ WriteAll \/ WriteAllFlush
  BY Zenon, <1>14 DEF WriteFlush, WriteAll, WriteAllFlush
<1>15. CASE UNCHANGED vars
  BY Zenon, <1>15 DEF vars
<1> QED BY Zenon, <1>1, <1>2, <1>3, <1>4, <1>5, <1>6, <1>7, <1>8, <1>9, <1>10, <1>11, <1>12, <1>13,
        <1>14, <1>15 DEF Next, Copy, Owner

-----------------------------------------------------------------------------
(* The invariants *)

LEMMA InvInit == Init => IInv
<1> SUFFICES ASSUME Init PROVE IInv
  OBVIOUS
<1>1. TypeOK
  <2>1. PeerType /\ WindowType /\ TotalType
    <3>1. /\ preload \in Nat /\ preload <= Size /\ preload <= Total /\ sent = preload
          /\ r_off = preload /\ w_off = 0 /\ total_read = 0 /\ total_write = 0 /\ flushed = 0
          /\ eof = FALSE /\ Size \in Nat /\ Total \in Nat
          /\ buf = [i \in 0..(Size - 1) |-> IF i < preload THEN i + 1 ELSE 0]
      BY CopyAssumption DEF Init, Garbage
    <3>2. buf \in [0..(Size - 1) -> Nat]
      BY <3>1
    <3>3. sent \in 0..Total /\ r_off \in 0..Size /\ w_off \in 0..r_off /\ flushed \in 0..Left
      BY <3>1 DEF Left
    <3> QED BY Zenon, <3>1, <3>2, <3>3 DEF PeerType, WindowType, TotalType
  <2>2. WriterType
    BY CopyAssumption DEF Init, WriterType
  <2>3. ControlType
    BY Zenon DEF Init, ControlType, PollPcs, Results
  <2> QED BY Zenon, <2>1, <2>2, <2>3 DEF TypeOK
<1>2. WindowExact /\ OutExact
  BY CopyAssumption DEF Init, WindowExact, OutExact, Left, Taken
<1>3. FlushedZero /\ EndExact /\ Armed
  BY CopyAssumption DEF Init, FlushedZero, EndExact, Armed, NoSleepOnWork, Taken
<1> QED BY Zenon, <1>1, <1>2, <1>3 DEF IInv

LEMMA InvNext == IInv /\ [Next]_vars => IInv'
<1> SUFFICES ASSUME IInv, [Next]_vars PROVE IInv'
  OBVIOUS
<1>0. TypeOK /\ WindowExact /\ OutExact /\ FlushedZero /\ EndExact /\ Armed
  BY Zenon DEF IInv
<1>1. Effect
  BY Zenon, <1>0, StepEffect
<1>2. WindowType' /\ TotalType' /\ WindowExact' /\ OutExact' /\ out' \in Seq(Nat)
  BY Zenon, <1>0, <1>1, WindowNext
<1>3. WriterType'
  BY Zenon, <1>0, <1>2, WriterNext
<1>4. ControlType' /\ PeerType'
  BY Zenon, <1>0, ControlNext
<1>5. FlushedZero' /\ EndExact' /\ Armed'
  BY Zenon, <1>0, FlushedNext, EndNext, ArmedNext
<1> QED BY Zenon, <1>2, <1>3, <1>4, <1>5 DEF IInv, TypeOK

\* The offsets of the buffer never leave it, however the reader and the
\* writer split the stream (poll_fill_buf, check_move_cache, poll_write_buf).
THEOREM TypeCorrect == Spec => []TypeOK
<1>1. IInv => TypeOK
  BY Zenon DEF IInv
<1> QED BY <1>1, InvInit, InvNext, PTL DEF Spec

\* The buffer holds exactly the bytes read and not written, for buffers and
\* streams of any size: copy_nonoverlapping never mixes them up.
THEOREM WindowCorrect == Spec => []WindowExact
<1>1. IInv => WindowExact
  BY Zenon DEF IInv
<1> QED BY <1>1, InvInit, InvNext, PTL DEF Spec

\* Whenever poll_copy has returned Pending, the half it waits for will wake it.
THEOREM WakeupCorrect == Spec => []NoSleepOnWork
<1>1. IInv => NoSleepOnWork
  BY Zenon DEF IInv, Armed
<1> QED BY <1>1, InvInit, InvNext, PTL DEF Spec

-----------------------------------------------------------------------------
(* StreamCopy implements BytePipe *)

LEMMA PipeInit == Init => Pipe!PInit
  BY CopyAssumption DEF Init, Pipe!PInit, Taken, PipeState, FlushPcs

LEMMA PipeNext == IInv /\ [Next]_vars => [Pipe!PNext]_(Pipe!pvars)
<1> SUFFICES ASSUME IInv, Next PROVE Pipe!PNext \/ UNCHANGED Pipe!pvars
  <2>1. UNCHANGED vars => UNCHANGED Pipe!pvars
    BY Zenon DEF vars, Pipe!pvars, Taken, PipeState
  <2> QED BY Zenon, <2>1
<1>0. TypeOK /\ WindowExact /\ OutExact /\ FlushedZero /\ EndExact
  BY Zenon DEF IInv
<1>1. /\ Size \in Nat /\ r_off \in 0..Size /\ w_off \in 0..r_off /\ Left \in 0..Size
      /\ preload \in Nat /\ total_read \in Nat /\ total_write \in Nat /\ flushed \in 0..Left
      /\ Len(out) = total_write + flushed /\ Left = Taken - total_write /\ Taken \in Nat
      /\ Len(out) \in Nat /\ sent \in Nat
  BY <1>0, CopyAssumption DEF TypeOK, WindowType, TotalType, PeerType, WriterType, WindowExact, Left, Taken
<1>2. CASE Send
  BY Zenon, <1>2 DEF Send, Pipe!Send, Pipe!PNext, Taken, PipeState
<1>3. CASE Close
  BY Zenon, <1>3 DEF Close, Pipe!Close, Pipe!PNext, Taken, PipeState
<1>4. CASE Consume
  BY Zenon, <1>4 DEF Consume, Pipe!pvars, Taken, PipeState
<1>5. CASE Poll \/ Prepare \/ ReadPending \/ WritePending \/ Written
  <2>1. UNCHANGED <<sent, eof, out, active, preload, total_read>>
    BY Zenon, <1>5 DEF Poll, Prepare, ReadPending, FillPending, WritePending, Written
  <2>2. PipeState = "run" /\ PipeState' = "run"
    BY <1>5 DEF Poll, Prepare, ReadPending, WritePending, Written, PipeState, FlushPcs
  <2> QED BY Zenon, <2>1, <2>2 DEF Pipe!pvars, Taken
<1>6. CASE ReadReady \/ TopUp
  <2>1. UNCHANGED <<sent, eof, out, preload>>
    BY Zenon, <1>6 DEF ReadReady, TopUp
  <2>2. PipeState = "run" /\ PipeState' = "run" /\ flushed = 0
    BY <1>0, <1>6 DEF ReadReady, TopUp, PipeState, FlushPcs, FlushedZero
  <2>3. CASE \E n \in 1..Size : FillData(n)
    <3>1. PICK n \in 1..Size : FillData(n)
      BY <2>3
    <3>2. n <= Size - r_off /\ Taken + n <= sent /\ total_read' = total_read + n /\ active' = TRUE
      BY Zenon, <3>1 DEF FillData
    <3>3. Taken' = Taken + n /\ n > 0 /\ Taken + n - Len(out) <= Size
      BY <1>1, <2>1, <2>2, <3>2 DEF Taken, Left
    <3>4. Pipe!Take(n)
      BY Zenon, <2>1, <2>2, <3>2, <3>3 DEF Pipe!Take
    <3> QED BY Zenon, <3>4 DEF Pipe!PNext
  <2>4. CASE FillEof \/ FillPending
    <3>1. Taken' = Taken /\ active' = active
      BY Zenon, <2>1, <2>4 DEF FillEof, FillPending, Taken
    <3> QED BY Zenon, <2>1, <2>2, <3>1 DEF Pipe!pvars
  <2> QED BY Zenon, <1>6, <2>3, <2>4 DEF ReadReady, TopUp
<1>7. CASE Flush
  BY <1>7 DEF Flush, PollFlush, Pipe!pvars, Taken, PipeState, FlushPcs
<1>8. CASE WriteReady
  <2>1. PICK n \in 1..Left : out' = out \o [i \in 1..n |-> buf[w_off + i - 1]]
    BY Zenon, <1>8 DEF WriteReady, Accept
  <2>2. PipeState = "run" /\ PipeState' = "run" /\ flushed = 0
    BY <1>0, <1>8 DEF WriteReady, PipeState, FlushPcs, FlushedZero
  <2>3. active' = TRUE /\ UNCHANGED <<sent, eof>> /\ Taken' = Taken
    BY Zenon, <1>8 DEF WriteReady, Taken
  <2>4. out' = out \o [i \in 1..n |-> buf[w_off + flushed + i - 1]]
    BY <1>1, <2>1, <2>2
  <2>5. n \in Nat /\ n > 0 /\ flushed + n <= Left /\ Len(out) + n <= Taken /\ n \in 1..Size
    BY <1>1, <2>2
  <2>6. out' = out \o [i \in 1..n |-> Len(out) + i]
    BY Zenon, <1>0, <2>4, <2>5, Accepted
  <2>7. Pipe!Give(n)
    BY Zenon, <2>2, <2>3, <2>5, <2>6 DEF Pipe!Give, Pipe!Advance
  <2> QED BY Zenon, <2>5, <2>7 DEF Pipe!PNext
<1>9. CASE Finish
  <2>1. UNCHANGED <<sent, eof, out, active>> /\ Taken' = Taken
    BY Zenon, <1>9 DEF Finish, PollFlush, Taken
  <2>2. CASE pc' = "idle"
    <3>1. PipeState = "run" /\ PipeState' = "run"
      BY <1>9, <2>2 DEF Finish, PipeState, FlushPcs
    <3> QED BY Zenon, <2>1, <3>1 DEF Pipe!pvars
  <2>3. CASE pc' = "done" /\ result' = "ok"
    <3>1. PipeState = "run" /\ PipeState' = "ok"
      BY <1>9, <2>3 DEF Finish, PipeState, FlushPcs
    <3>2. eof /\ Taken = sent /\ w_off = r_off /\ flushed = 0
      BY <1>0, <1>9 DEF Finish, EndExact, FlushedZero
    <3>3. Len(out) = sent
      BY <1>1, <3>2 DEF Left
    <3>4. Pipe!Finish
      BY Zenon, <2>1, <3>1, <3>2, <3>3 DEF Pipe!Finish
    <3> QED BY Zenon, <3>4 DEF Pipe!PNext
  <2> QED BY Zenon, <1>9, <2>2, <2>3 DEF Finish
<1>10. CASE ReadFail \/ WriteFail \/ FlushFail
  <2>1. UNCHANGED <<sent, eof, out, active>> /\ Taken' = Taken
    BY Zenon, <1>10 DEF ReadFail, WriteFail, FlushFail, Fail, Taken
  <2>2. PipeState = "run" /\ PipeState' \in {"readfail", "writefail"}
    BY <1>10 DEF ReadFail, WriteFail, FlushFail, Fail, PipeState, FlushPcs
  <2> QED BY Zenon, <2>1, <2>2 DEF Pipe!Fail, Pipe!PNext
<1>11. CASE ResetActive
  <2>1. UNCHANGED <<sent, eof, out>> /\ Taken' = Taken /\ active' = FALSE
    BY Zenon, <1>11 DEF ResetActive, Taken
  <2>2. PipeState = "run" /\ PipeState' = "run"
    BY <1>11 DEF ResetActive, PipeState, FlushPcs
  <2> QED BY Zenon, <2>1, <2>2 DEF Pipe!ResetActive, Pipe!PNext
<1>12. CASE WriteFlush
  <2>1. UNCHANGED <<sent, eof, out, active>> /\ Taken' = Taken
    BY Zenon, <1>12 DEF WriteFlush, Taken
  <2>2. PipeState = "run" /\ PipeState' = "flush"
    BY <1>12 DEF WriteFlush, PipeState, FlushPcs
  <2> QED BY Zenon, <2>1, <2>2 DEF Pipe!StartFlush, Pipe!PNext
<1>13. CASE WriteAll
  <2>1. UNCHANGED <<sent, eof, active>> /\ Taken' = Taken
    BY Zenon, <1>13 DEF WriteAll, Taken
  <2>2. PipeState = "flush" /\ PipeState' = "flush"
    BY <1>13 DEF WriteAll, PipeState, FlushPcs
  <2>3. CASE flushed < Left
    <3>1. PICK n \in 1..(Left - flushed) :
            out' = out \o [i \in 1..n |-> buf[w_off + flushed + i - 1]]
      BY Zenon, <1>13, <2>3 DEF WriteAll, Accept
    <3>2. n \in Nat /\ n > 0 /\ flushed + n <= Left /\ Len(out) + n <= Taken /\ n \in 1..Size
      BY <1>1
    <3>3. out' = out \o [i \in 1..n |-> Len(out) + i]
      BY Zenon, <1>0, <3>1, <3>2, Accepted
    <3>4. Pipe!Drain(n)
      BY Zenon, <2>1, <2>2, <3>2, <3>3 DEF Pipe!Drain, Pipe!Advance
    <3> QED BY Zenon, <3>2, <3>4 DEF Pipe!PNext
  <2>4. CASE ~(flushed < Left)
    BY Zenon, <1>13, <2>1, <2>2, <2>4 DEF WriteAll, Pipe!pvars
  <2> QED BY <2>3, <2>4
<1>14. CASE WriteAllFlush \/ WriteFlushFail
  <2>1. UNCHANGED <<sent, eof, out, active>> /\ Taken' = Taken
    BY Zenon, <1>14 DEF WriteAllFlush, PollFlush, WriteFlushFail, Taken
  <2>2. PipeState = "flush" /\ PipeState' = "flush"
    BY <1>14 DEF WriteAllFlush, WriteFlushFail, PipeState, FlushPcs
  <2> QED BY Zenon, <2>1, <2>2 DEF Pipe!pvars
<1> QED BY Zenon, <1>2, <1>3, <1>4, <1>5, <1>6, <1>7, <1>8, <1>9, <1>10, <1>11, <1>12, <1>13, <1>14
        DEF Next, Copy, Peers, Failure, Owner

\* StreamCopy is a BytePipe: every byte once and in order, never more than the
\* buffer in flight, success only after the last byte.
THEOREM ImplementsPipe == Spec => PipeSpec
<1> QED BY InvInit, InvNext, PipeInit, PipeNext, PTL DEF Spec, PipeSpec, Pipe!PSpec

-----------------------------------------------------------------------------
(* The relay task, for buffers and streams of any size and any idle count *)

\* What a copy has handed out it has taken, what it has taken has arrived, and it is
\* over when the reader is at its end and nothing is left.
NorthPipe ==
  /\ nsent \in Nat /\ ntaken \in Nat /\ nout \in Seq(Nat)
  /\ Len(nout) <= ntaken /\ ntaken <= nsent
  /\ neof \in BOOLEAN /\ nactive \in BOOLEAN
  /\ nstate \in {"run", "flush", "ok", "readfail", "writefail"}
  /\ nstate = "ok" => neof /\ Len(nout) = nsent

\* The same of the other direction
SouthPipe ==
  /\ ssent \in Nat /\ staken \in Nat /\ sout \in Seq(Nat)
  /\ Len(sout) <= staken /\ staken <= ssent
  /\ seof \in BOOLEAN /\ sactive \in BOOLEAN
  /\ sstate \in {"run", "flush", "ok", "readfail", "writefail"}
  /\ sstate = "ok" => seof /\ Len(sout) = ssent

\* What each phase knows of the copies and of the result.
TaskInv ==
  /\ phase \in T!Phases /\ outcome \in {"none", "ok"} \cup T!Errors
  /\ phase \in {"both", "north", "south", "shut_north", "shut_south"} => outcome = "none"
  /\ phase \in {"both", "north"} => nstate = "run"
  /\ phase \in {"both", "south"} => sstate = "run"
  /\ phase \in {"south", "shut_north"} => nstate = "ok"
  /\ phase \in {"north", "shut_south"} => sstate = "ok"
  /\ phase = "shut_north" => sstate \in {"run", "ok"}
  /\ phase = "shut_south" => nstate \in {"run", "ok"}
  /\ phase = "flush_south" => outcome = "UpstreamWriteFailed"
  /\ phase = "flush_north" => outcome = "ClientTcpWriteFailed"
  /\ phase = "end" => outcome # "none"
  /\ outcome = "ok" => nstate = "ok" /\ sstate = "ok"

\* A direction that is relayed and has not been active since the last tick was quiet
\* for longer than idle_count: the count that a half-closed task takes over included.
IdleInv ==
  /\ idle_count \in Nat /\ idle_count <= MaxIdle + 1
  /\ quiet["north"] \in Nat /\ quiet["north"] <= MaxIdle + 1
  /\ quiet["south"] \in Nat /\ quiet["south"] <= MaxIdle + 1
  /\ DOMAIN quiet = {"north", "south"} /\ quiet = [d \in {"north", "south"} |-> quiet[d]]
  /\ phase # "end" => idle_count = 0 \/ idle_count < MaxIdle
  /\ phase # "end" /\ nstate = "run" /\ ~nactive => quiet["north"] > idle_count
  /\ phase # "end" /\ sstate = "run" /\ ~sactive => quiet["south"] > idle_count

FlagType == blocked \in BOOLEAN /\ force_quit \in BOOLEAN

TInv == FlagType /\ NorthPipe /\ SouthPipe /\ TaskInv /\ IdleInv /\ T!IdleMeansQuiet /\ T!RestHandedOut

LEMMA NorthAdvance ==
  ASSUME NorthPipe, NEW n \in Nat, T!N!Advance(n)
  PROVE  nout' \in Seq(Nat) /\ Len(nout') = Len(nout) + n /\ Len(nout') <= ntaken
<1>1. Len(nout) \in Nat /\ nout \in Seq(Nat) /\ ntaken \in Nat
  BY DEF NorthPipe
<1>2. [i \in 1..n |-> Len(nout) + i] \in [1..n -> Nat]
  BY <1>1
<1>3. nout' = nout \o [i \in 1..n |-> Len(nout) + i] /\ Len(nout) + n <= ntaken
  BY Zenon DEF T!N!Advance
<1>4. nout' \in Seq(Nat) /\ Len(nout') = Len(nout) + n
  BY Zenon, <1>1, <1>2, <1>3, Appended
<1> QED BY <1>1, <1>3, <1>4

\* Every step that the task makes of a copy keeps what the copy promises.
LEMMA NorthPipeStep ==
  ASSUME NorthPipe,
         \/ T!N!Send \/ T!N!Close \/ T!N!Finish \/ T!N!Fail \/ T!N!StartFlush
         \/ \E n \in 1..RelaySize : T!N!Take(n) \/ T!N!Give(n) \/ T!N!Drain(n)
  PROVE  NorthPipe'
<1> USE DEF NorthPipe
<1>1. CASE T!N!Send
  <2>1. nsent' \in Nat /\ ntaken <= nsent' /\ nstate # "ok"
    BY <1>1 DEF T!N!Send
  <2> QED BY Zenon, <1>1, <2>1 DEF T!N!Send
<1>2. CASE T!N!Close
  BY Zenon, <1>2 DEF T!N!Close
<1>3. CASE T!N!Finish
  BY Zenon, <1>3 DEF T!N!Finish
<1>4. CASE T!N!Fail
  BY <1>4 DEF T!N!Fail
<1>5. CASE T!N!StartFlush
  BY <1>5 DEF T!N!StartFlush
<1>6. ASSUME NEW n \in 1..RelaySize, T!N!Take(n) PROVE NorthPipe'
  <2>1. ntaken' \in Nat /\ Len(nout) <= ntaken' /\ ntaken' <= nsent
    BY <1>6, RelayAssumption DEF T!N!Take
  <2> QED BY Zenon, <1>6, <2>1 DEF T!N!Take
<1>7. ASSUME NEW n \in 1..RelaySize, T!N!Advance(n), UNCHANGED <<nsent, neof, ntaken, nstate>>, nactive' \in BOOLEAN
      PROVE  NorthPipe'
  <2>1. n \in Nat /\ n > 0
    BY RelayAssumption
  <2>2. nout' \in Seq(Nat) /\ Len(nout') = Len(nout) + n /\ Len(nout') <= ntaken
    BY Zenon, <1>7, <2>1, NorthAdvance
  <2>3. nstate # "ok"
    BY <2>1, <2>2
  <2> QED BY Zenon, <1>7, <2>2, <2>3
<1>8. ASSUME NEW n \in 1..RelaySize, T!N!Give(n) \/ T!N!Drain(n) PROVE NorthPipe'
  BY Zenon, <1>7, <1>8 DEF T!N!Give, T!N!Drain
<1> QED BY Zenon, <1>1, <1>2, <1>3, <1>4, <1>5, <1>6, <1>8

LEMMA SouthAdvance ==
  ASSUME SouthPipe, NEW n \in Nat, T!S!Advance(n)
  PROVE  sout' \in Seq(Nat) /\ Len(sout') = Len(sout) + n /\ Len(sout') <= staken
<1>1. Len(sout) \in Nat /\ sout \in Seq(Nat) /\ staken \in Nat
  BY DEF SouthPipe
<1>2. [i \in 1..n |-> Len(sout) + i] \in [1..n -> Nat]
  BY <1>1
<1>3. sout' = sout \o [i \in 1..n |-> Len(sout) + i] /\ Len(sout) + n <= staken
  BY Zenon DEF T!S!Advance
<1>4. sout' \in Seq(Nat) /\ Len(sout') = Len(sout) + n
  BY Zenon, <1>1, <1>2, <1>3, Appended
<1> QED BY <1>1, <1>3, <1>4

\* Every step that the task makes of a copy keeps what the copy promises.
LEMMA SouthPipeStep ==
  ASSUME SouthPipe,
         \/ T!S!Send \/ T!S!Close \/ T!S!Finish \/ T!S!Fail \/ T!S!StartFlush
         \/ \E n \in 1..RelaySize : T!S!Take(n) \/ T!S!Give(n) \/ T!S!Drain(n)
  PROVE  SouthPipe'
<1> USE DEF SouthPipe
<1>1. CASE T!S!Send
  <2>1. ssent' \in Nat /\ staken <= ssent' /\ sstate # "ok"
    BY <1>1 DEF T!S!Send
  <2> QED BY Zenon, <1>1, <2>1 DEF T!S!Send
<1>2. CASE T!S!Close
  BY Zenon, <1>2 DEF T!S!Close
<1>3. CASE T!S!Finish
  BY Zenon, <1>3 DEF T!S!Finish
<1>4. CASE T!S!Fail
  BY <1>4 DEF T!S!Fail
<1>5. CASE T!S!StartFlush
  BY <1>5 DEF T!S!StartFlush
<1>6. ASSUME NEW n \in 1..RelaySize, T!S!Take(n) PROVE SouthPipe'
  <2>1. staken' \in Nat /\ Len(sout) <= staken' /\ staken' <= ssent
    BY <1>6, RelayAssumption DEF T!S!Take
  <2> QED BY Zenon, <1>6, <2>1 DEF T!S!Take
<1>7. ASSUME NEW n \in 1..RelaySize, T!S!Advance(n), UNCHANGED <<ssent, seof, staken, sstate>>, sactive' \in BOOLEAN
      PROVE  SouthPipe'
  <2>1. n \in Nat /\ n > 0
    BY RelayAssumption
  <2>2. sout' \in Seq(Nat) /\ Len(sout') = Len(sout) + n /\ Len(sout') <= staken
    BY Zenon, <1>7, <2>1, SouthAdvance
  <2>3. sstate # "ok"
    BY <2>1, <2>2
  <2> QED BY Zenon, <1>7, <2>2, <2>3
<1>8. ASSUME NEW n \in 1..RelaySize, T!S!Give(n) \/ T!S!Drain(n) PROVE SouthPipe'
  BY Zenon, <1>7, <1>8 DEF T!S!Give, T!S!Drain
<1> QED BY Zenon, <1>1, <1>2, <1>3, <1>4, <1>5, <1>6, <1>8

LEMMA NorthNext == ASSUME TInv, [T!Next]_(T!vars) PROVE NorthPipe'
<1>0. NorthPipe
  BY Zenon DEF TInv
<1>1. CASE UNCHANGED T!nvars
  BY Zenon, <1>0, <1>1 DEF T!nvars, NorthPipe
<1>2. CASE T!Peers
  BY Zenon, <1>0, <1>1, <1>2, NorthPipeStep DEF T!Peers
<1>3. CASE T!RelayNorth \/ T!FinishNorth \/ T!FailNorth
  BY Zenon, <1>0, <1>3, NorthPipeStep DEF T!RelayNorth, T!FinishNorth, T!FailNorth
<1>4. CASE T!FailSouth
  BY Zenon, <1>0, <1>1, <1>4, NorthPipeStep DEF T!FailSouth
<1>5. CASE T!FlushNorth
  BY Zenon, <1>0, <1>1, <1>5, NorthPipeStep DEF T!FlushNorth
<1>6. CASE T!FlushFails
  <2>1. UNCHANGED <<nsent, neof, ntaken, nout, nactive>> /\ (nstate' = "writefail" \/ nstate' = nstate)
    BY Zenon, <1>6 DEF T!FlushFails
  <2> QED BY <1>0, <2>1 DEF NorthPipe
<1>7. CASE T!Tick
  <2>1. UNCHANGED <<nsent, neof, ntaken, nout, nstate>> /\ nactive' \in BOOLEAN
    BY Zenon, <1>0, <1>7 DEF T!Tick, T!ResetActive
  <2> QED BY Zenon, <1>0, <2>1 DEF NorthPipe
<1>8. CASE T!RelaySouth \/ T!FinishSouth \/ T!ShutNorth \/ T!ShutSouth \/ T!FlushSouth
           \/ T!BlockUser \/ T!SetForceQuit \/ UNCHANGED T!vars
  BY Zenon, <1>1, <1>8 DEF T!RelaySouth, T!FinishSouth, T!ShutNorth, T!ShutSouth, T!FlushSouth,
       T!BlockUser, T!SetForceQuit, T!vars
<1> QED BY Zenon, <1>2, <1>3, <1>4, <1>5, <1>6, <1>7, <1>8 DEF T!Next, T!Task

LEMMA SouthNext == ASSUME TInv, [T!Next]_(T!vars) PROVE SouthPipe'
<1>0. SouthPipe
  BY Zenon DEF TInv
<1>1. CASE UNCHANGED T!svars
  BY Zenon, <1>0, <1>1 DEF T!svars, SouthPipe
<1>2. CASE T!Peers
  BY Zenon, <1>0, <1>1, <1>2, SouthPipeStep DEF T!Peers
<1>3. CASE T!RelaySouth \/ T!FinishSouth \/ T!FailSouth
  BY Zenon, <1>0, <1>3, SouthPipeStep DEF T!RelaySouth, T!FinishSouth, T!FailSouth
<1>4. CASE T!FailNorth
  BY Zenon, <1>0, <1>1, <1>4, SouthPipeStep DEF T!FailNorth
<1>5. CASE T!FlushSouth
  BY Zenon, <1>0, <1>1, <1>5, SouthPipeStep DEF T!FlushSouth
<1>6. CASE T!FlushFails
  <2>1. UNCHANGED <<ssent, seof, staken, sout, sactive>> /\ (sstate' = "writefail" \/ sstate' = sstate)
    BY Zenon, <1>6 DEF T!FlushFails
  <2> QED BY <1>0, <2>1 DEF SouthPipe
<1>7. CASE T!Tick
  <2>1. UNCHANGED <<ssent, seof, staken, sout, sstate>> /\ sactive' \in BOOLEAN
    BY Zenon, <1>0, <1>7 DEF T!Tick, T!ResetActive
  <2> QED BY Zenon, <1>0, <2>1 DEF SouthPipe
<1>8. CASE T!RelayNorth \/ T!FinishNorth \/ T!ShutSouth \/ T!ShutNorth \/ T!FlushNorth
           \/ T!BlockUser \/ T!SetForceQuit \/ UNCHANGED T!vars
  BY Zenon, <1>1, <1>8 DEF T!RelayNorth, T!FinishNorth, T!ShutSouth, T!ShutNorth, T!FlushNorth,
       T!BlockUser, T!SetForceQuit, T!vars
<1> QED BY Zenon, <1>2, <1>3, <1>4, <1>5, <1>6, <1>7, <1>8 DEF T!Next, T!Task

LEMMA TaskNext == ASSUME TInv, [T!Next]_(T!vars) PROVE TaskInv' /\ FlagType'
<1>0. TaskInv /\ FlagType
  BY Zenon DEF TInv
<1>00. FlagType'
  <2>1. (blocked' = blocked \/ blocked' = TRUE) /\ (force_quit' = force_quit \/ force_quit' = TRUE)
    BY Zenon DEF T!Next, T!Task, T!Peers, T!BlockUser, T!SetForceQuit, T!RelayNorth, T!RelaySouth,
      T!FinishNorth, T!FinishSouth, T!ShutNorth, T!ShutSouth, T!FailNorth, T!FailSouth, T!FlushSouth,
      T!FlushNorth, T!FlushFails, T!Tick, T!vars
  <2> QED BY Zenon, <1>0, <2>1 DEF FlagType
<1> SUFFICES TaskInv'
  BY Zenon, <1>00
<1> USE DEF T!Relaying, T!Phases, T!Errors, T!Relays, T!End
<1>1. CASE UNCHANGED <<phase, outcome, nstate, sstate>>
  BY Zenon, <1>0, <1>1 DEF TaskInv
<1>2. CASE T!Peers \/ T!BlockUser \/ T!SetForceQuit \/ T!RelayNorth \/ T!RelaySouth \/ UNCHANGED T!vars
  BY Zenon, <1>1, <1>2 DEF T!Peers, T!BlockUser, T!SetForceQuit, T!RelayNorth, T!RelaySouth, T!vars,
    T!nvars, T!svars, T!task, T!N!Send, T!N!Close, T!N!Take, T!N!Give, T!S!Send, T!S!Close, T!S!Take, T!S!Give
<1>3. CASE T!FinishNorth
  BY <1>0, <1>3 DEF TaskInv, T!FinishNorth, T!N!Finish, T!svars
<1>4. CASE T!FinishSouth
  BY <1>0, <1>4 DEF TaskInv, T!FinishSouth, T!S!Finish, T!nvars
<1>5. CASE T!ShutNorth
  BY <1>0, <1>5 DEF TaskInv, T!ShutNorth, T!nvars, T!svars
<1>6. CASE T!ShutSouth
  BY <1>0, <1>6 DEF TaskInv, T!ShutSouth, T!nvars, T!svars
<1>7. CASE T!FailNorth
  BY <1>0, <1>7 DEF TaskInv, T!FailNorth, T!N!Fail, T!S!StartFlush, T!svars
<1>8. CASE T!FailSouth
  BY <1>0, <1>8 DEF TaskInv, T!FailSouth, T!S!Fail, T!N!StartFlush, T!nvars
<1>9. CASE T!FlushSouth
  <2>1. UNCHANGED <<nstate, sstate, outcome>> /\ phase = "flush_south" /\ phase' \in {phase, "end"}
    BY Zenon, <1>9 DEF T!FlushSouth, T!S!Drain, T!nvars, T!svars, T!task
  <2> QED BY <1>0, <2>1 DEF TaskInv
<1>10. CASE T!FlushNorth
  <2>1. UNCHANGED <<nstate, sstate, outcome>> /\ phase = "flush_north" /\ phase' \in {phase, "end"}
    BY Zenon, <1>10 DEF T!FlushNorth, T!N!Drain, T!nvars, T!svars, T!task
  <2> QED BY <1>0, <2>1 DEF TaskInv
<1>11. CASE T!FlushFails
  BY <1>0, <1>11 DEF TaskInv, T!FlushFails
<1>12. CASE T!Tick
  <2>1. /\ phase \in {"both", "north", "south"} /\ UNCHANGED <<nstate, sstate>>
        /\ \/ UNCHANGED <<phase, outcome>>
           \/ phase' = "end" /\ outcome' \in {"Idle", "CanceledAsUserBlocked", "CanceledAsServerQuit"}
    BY Zenon, <1>12 DEF T!Tick, T!Verdict
  <2> QED BY <1>0, <2>1 DEF TaskInv
<1> QED BY Zenon, <1>00, <1>2, <1>3, <1>4, <1>5, <1>6, <1>7, <1>8, <1>9, <1>10, <1>11, <1>12 DEF T!Next, T!Task

\* A step that leaves the idle check alone
LEMMA IdleSame ==
  ASSUME IdleInv, T!IdleMeansQuiet, UNCHANGED <<idle_count, quiet, nactive, sactive>>,
         phase' # "end" => phase # "end",
         nstate' = "run" => nstate = "run", sstate' = "run" => sstate = "run",
         outcome' = "Idle" => outcome = "Idle"
  PROVE  IdleInv' /\ T!IdleMeansQuiet'
<1>1. IdleInv'
  BY Zenon DEF IdleInv
<1>2. T!IdleMeansQuiet'
  BY Zenon DEF T!IdleMeansQuiet
<1> QED BY Zenon, <1>1, <1>2

\* A step that moves a byte
LEMMA IdleMoved ==
  ASSUME IdleInv, UNCHANGED <<idle_count, phase, nstate, sstate>>, outcome' # "Idle",
         \/ nactive' = TRUE /\ sactive' = sactive /\ T!Moved("north")
         \/ sactive' = TRUE /\ nactive' = nactive /\ T!Moved("south")
  PROVE  IdleInv' /\ T!IdleMeansQuiet'
<1>1. /\ DOMAIN quiet' = {"north", "south"} /\ quiet' = [d \in {"north", "south"} |-> quiet'[d]]
      /\ \/ nactive' = TRUE /\ sactive' = sactive /\ quiet'["north"] = 0 /\ quiet'["south"] = quiet["south"]
         \/ sactive' = TRUE /\ nactive' = nactive /\ quiet'["south"] = 0 /\ quiet'["north"] = quiet["north"]
  <2>1. quiet = [d \in {"north", "south"} |-> quiet[d]]
    BY Zenon DEF IdleInv
  <2> QED BY <2>1 DEF T!Moved
<1>2. 0 \in Nat /\ 0 <= MaxIdle + 1
  BY RelayAssumption
<1>3. IdleInv'
  BY Zenon, <1>1, <1>2 DEF IdleInv
<1>4. T!IdleMeansQuiet'
  BY Zenon DEF T!IdleMeansQuiet
<1> QED BY Zenon, <1>3, <1>4

LEMMA IdleTick == ASSUME TInv, T!Tick PROVE IdleInv' /\ T!IdleMeansQuiet'
<1>0. IdleInv /\ TaskInv /\ MaxIdle \in Nat
  BY Zenon, RelayAssumption DEF TInv
<1>1. /\ phase \in {"both", "north", "south"} /\ UNCHANGED <<nstate, sstate>>
      /\ outcome = "none" /\ phase # "end"
      /\ T!Relaying("north") <=> nstate = "run"
      /\ T!Relaying("south") <=> sstate = "run"
  BY <1>0 DEF T!Tick, TaskInv, T!Relays, T!Relaying
<1> DEFINE n == quiet["north"]  s == quiet["south"]  n1 == quiet'["north"]  s1 == quiet'["south"]
<1>2. /\ DOMAIN quiet' = {"north", "south"} /\ quiet' = [d \in {"north", "south"} |-> quiet'[d]]
      /\ n1 = IF n <= MaxIdle THEN n + 1 ELSE n
      /\ s1 = IF s <= MaxIdle THEN s + 1 ELSE s
  BY Zenon DEF T!Tick, T!Directions
<1>3. /\ n \in Nat /\ n <= MaxIdle + 1 /\ s \in Nat /\ s <= MaxIdle + 1
      /\ idle_count \in Nat /\ (idle_count = 0 \/ idle_count < MaxIdle)
  BY Zenon, <1>0, <1>1 DEF IdleInv
<1>4. nstate = "run" /\ T!IsIdle => n > idle_count
  BY Zenon, <1>0, <1>1 DEF IdleInv, T!IsIdle
<1>5. sstate = "run" /\ T!IsIdle => s > idle_count
  BY Zenon, <1>0, <1>1 DEF IdleInv, T!IsIdle
<1>6. /\ T!IsIdle => idle_count' = idle_count + 1
      /\ ~T!IsIdle => idle_count' = 0
      /\ phase' # "end" /\ T!IsIdle => ~(idle_count' >= MaxIdle)
      /\ outcome' = "Idle" => T!IsIdle /\ idle_count' >= MaxIdle
  BY Zenon, <1>1 DEF T!Tick, T!CountIdle, T!Verdict, T!End
<1> HIDE DEF n, s, n1, s1
<1>7. /\ idle_count' \in Nat /\ idle_count' <= MaxIdle + 1
      /\ phase' # "end" => idle_count' = 0 \/ idle_count' < MaxIdle
  BY <1>0, <1>3, <1>6
<1>8. /\ n1 \in Nat /\ n1 <= MaxIdle + 1 /\ s1 \in Nat /\ s1 <= MaxIdle + 1
      /\ nstate = "run" /\ phase' # "end" => n1 > idle_count'
      /\ sstate = "run" /\ phase' # "end" => s1 > idle_count'
      /\ nstate = "run" /\ outcome' = "Idle" => n1 > MaxIdle
      /\ sstate = "run" /\ outcome' = "Idle" => s1 > MaxIdle
  BY <1>0, <1>2, <1>3, <1>4, <1>5, <1>6
<1>9. IdleInv'
  BY Zenon, <1>1, <1>2, <1>7, <1>8 DEF IdleInv, n1, s1
<1>10. T!IdleMeansQuiet'
  BY Zenon, <1>1, <1>8 DEF T!IdleMeansQuiet, n1, s1
<1> QED BY Zenon, <1>9, <1>10

LEMMA IdleNext == ASSUME TInv, [T!Next]_(T!vars) PROVE IdleInv' /\ T!IdleMeansQuiet'
<1>0. IdleInv /\ T!IdleMeansQuiet /\ TaskInv
  BY Zenon DEF TInv
<1>1. CASE T!Peers \/ T!BlockUser \/ T!SetForceQuit \/ UNCHANGED T!vars
  <2>1. UNCHANGED <<idle_count, quiet, nactive, sactive, phase, nstate, sstate, outcome>>
    BY Zenon, <1>1 DEF T!Peers, T!BlockUser, T!SetForceQuit, T!vars, T!nvars, T!svars, T!task,
      T!N!Send, T!N!Close, T!S!Send, T!S!Close
  <2> QED BY Zenon, <1>0, <2>1, IdleSame
<1>2. CASE T!RelayNorth \/ T!RelaySouth
  <2>1. /\ UNCHANGED <<idle_count, phase, nstate, sstate, outcome>> /\ phase \in {"both", "north", "south"}
        /\ \/ nactive' = TRUE /\ sactive' = sactive /\ T!Moved("north")
           \/ sactive' = TRUE /\ nactive' = nactive /\ T!Moved("south")
    BY Zenon, <1>2 DEF T!RelayNorth, T!RelaySouth, T!Relaying, T!nvars, T!svars, T!task,
      T!N!Take, T!N!Give, T!S!Take, T!S!Give
  <2>2. outcome' # "Idle"
    BY <1>0, <2>1 DEF TaskInv
  <2> QED BY Zenon, <1>0, <2>1, <2>2, IdleMoved
<1>3. CASE T!FinishNorth \/ T!FinishSouth \/ T!ShutNorth \/ T!ShutSouth
  <2>1. UNCHANGED <<idle_count, quiet, nactive, sactive>>
    BY Zenon, <1>3 DEF T!FinishNorth, T!FinishSouth, T!ShutNorth, T!ShutSouth, T!nvars, T!svars, T!N!Finish, T!S!Finish
  <2>2. /\ phase # "end" /\ (nstate' = "run" => nstate = "run") /\ (sstate' = "run" => sstate = "run")
        /\ outcome' = "Idle" => outcome = "Idle"
    BY <1>3 DEF T!FinishNorth, T!FinishSouth, T!ShutNorth, T!ShutSouth, T!nvars, T!svars, T!N!Finish, T!S!Finish, T!Relaying, T!End
  <2> QED BY Zenon, <1>0, <2>1, <2>2, IdleSame
<1>4. CASE T!FailNorth \/ T!FailSouth
  <2>1. UNCHANGED <<idle_count, quiet, nactive, sactive>>
    BY Zenon, <1>4 DEF T!FailNorth, T!FailSouth, T!nvars, T!svars, T!N!Fail, T!S!Fail, T!N!StartFlush, T!S!StartFlush
  <2>2. /\ phase # "end" /\ (nstate' = "run" => nstate = "run") /\ (sstate' = "run" => sstate = "run")
        /\ outcome' = "Idle" => outcome = "Idle"
    BY <1>4 DEF T!FailNorth, T!FailSouth, T!nvars, T!svars, T!N!Fail, T!S!Fail, T!N!StartFlush, T!S!StartFlush, T!Relaying
  <2> QED BY Zenon, <1>0, <2>1, <2>2, IdleSame
<1>5. CASE T!FlushNorth \/ T!FlushSouth \/ T!FlushFails
  <2>1. UNCHANGED <<idle_count, quiet, nactive, sactive, outcome>>
    BY Zenon, <1>5 DEF T!FlushNorth, T!FlushSouth, T!FlushFails, T!nvars, T!svars, T!task, T!N!Drain, T!S!Drain
  <2>2. phase # "end" /\ (nstate' = "run" => nstate = "run") /\ (sstate' = "run" => sstate = "run")
    <3>1. phase \in {"flush_north", "flush_south"}
      BY Zenon, <1>5 DEF T!FlushNorth, T!FlushSouth, T!FlushFails
    <3>2. (nstate' = nstate \/ nstate' = "writefail") /\ (sstate' = sstate \/ sstate' = "writefail")
      BY Zenon, <1>5 DEF T!FlushNorth, T!FlushSouth, T!FlushFails, T!nvars, T!svars, T!N!Drain, T!S!Drain
    <3> QED BY <3>1, <3>2
  <2> QED BY Zenon, <1>0, <2>1, <2>2, IdleSame
<1>6. CASE T!Tick
  BY Zenon, <1>6, IdleTick
<1> QED BY Zenon, <1>1, <1>2, <1>3, <1>4, <1>5, <1>6 DEF T!Next, T!Task

LEMMA RestNext == ASSUME TInv, [T!Next]_(T!vars) PROVE T!RestHandedOut'
<1>0. T!RestHandedOut /\ TaskInv /\ NorthPipe /\ SouthPipe
  BY Zenon DEF TInv
<1>1. CASE UNCHANGED <<phase, outcome, nstate, sstate, ntaken, staken, nout, sout>>
  BY Zenon, <1>0, <1>1 DEF T!RestHandedOut
<1>2. CASE phase' # "end" \/ outcome' \notin {"UpstreamWriteFailed", "ClientTcpWriteFailed"}
  BY Zenon, <1>2 DEF T!RestHandedOut
<1>3. CASE T!Peers \/ T!BlockUser \/ T!SetForceQuit \/ UNCHANGED T!vars
  BY Zenon, <1>1, <1>3 DEF T!Peers, T!BlockUser, T!SetForceQuit, T!vars, T!nvars, T!svars, T!task,
    T!N!Send, T!N!Close, T!S!Send, T!S!Close
<1>4. CASE T!RelayNorth \/ T!RelaySouth
  <2>1. phase' # "end"
    BY <1>4 DEF T!RelayNorth, T!RelaySouth, T!Relaying, T!task
  <2> QED BY Zenon, <1>2, <2>1
<1>5. CASE T!FinishNorth \/ T!FinishSouth \/ T!ShutNorth \/ T!ShutSouth
  <2>1. phase' # "end" \/ outcome' \notin {"UpstreamWriteFailed", "ClientTcpWriteFailed"}
    BY <1>5 DEF T!FinishNorth, T!FinishSouth, T!ShutNorth, T!ShutSouth, T!End
  <2> QED BY Zenon, <1>2, <2>1
<1>6. CASE T!FailNorth
  <2>1. CASE phase' # "end" \/ nstate' = "readfail"
    <3>1. phase' # "end" \/ outcome' = "ClientTcpReadFailed"
      BY Zenon, <1>6, <2>1 DEF T!FailNorth
    <3>2. "ClientTcpReadFailed" \notin {"UpstreamWriteFailed", "ClientTcpWriteFailed"}
      OBVIOUS
    <3> QED BY Zenon, <1>2, <3>1, <3>2
  <2>2. CASE phase' = "end" /\ nstate' # "readfail"
    <3>1. phase = "north" /\ outcome' = "UpstreamWriteFailed" /\ UNCHANGED <<sstate, staken, sout>>
      BY <1>6, <2>2 DEF T!FailNorth, T!N!Fail, T!Relaying, T!svars
    <3>2. sstate = "ok"
      BY Zenon, <1>0, <3>1 DEF TaskInv
    <3>3. Len(sout) = staken
      BY <1>0, <3>2 DEF SouthPipe
    <3> QED BY <3>1, <3>3 DEF T!RestHandedOut
  <2> QED BY Zenon, <2>1, <2>2
<1>7. CASE T!FailSouth
  <2>1. CASE phase' # "end" \/ sstate' = "readfail"
    <3>1. phase' # "end" \/ outcome' = "UpstreamReadFailed"
      BY Zenon, <1>7, <2>1 DEF T!FailSouth
    <3>2. "UpstreamReadFailed" \notin {"UpstreamWriteFailed", "ClientTcpWriteFailed"}
      OBVIOUS
    <3> QED BY Zenon, <1>2, <3>1, <3>2
  <2>2. CASE phase' = "end" /\ sstate' # "readfail"
    <3>1. phase = "south" /\ outcome' = "ClientTcpWriteFailed" /\ UNCHANGED <<nstate, ntaken, nout>>
      BY <1>7, <2>2 DEF T!FailSouth, T!S!Fail, T!Relaying, T!nvars
    <3>2. nstate = "ok"
      BY Zenon, <1>0, <3>1 DEF TaskInv
    <3>3. Len(nout) = ntaken
      BY <1>0, <3>2 DEF NorthPipe
    <3> QED BY <3>1, <3>3 DEF T!RestHandedOut
  <2> QED BY Zenon, <2>1, <2>2
<1>8. CASE T!FlushSouth \/ T!FlushNorth
  <2>1. \/ phase' = phase
        \/ /\ UNCHANGED <<outcome, nstate, sstate, ntaken, staken, nout, sout>>
           /\ (phase = "flush_south" /\ Len(sout) = staken) \/ (phase = "flush_north" /\ Len(nout) = ntaken)
    BY Zenon, <1>8 DEF T!FlushSouth, T!FlushNorth, T!nvars, T!svars, T!task
  <2>2. phase \in {"flush_south", "flush_north"}
    BY Zenon, <1>8 DEF T!FlushSouth, T!FlushNorth
  <2>3. CASE phase' = phase
    BY <1>2, <2>2, <2>3
  <2>4. CASE phase' # phase
    BY <1>0, <2>1, <2>4 DEF TaskInv, T!RestHandedOut
  <2> QED BY Zenon, <2>3, <2>4
<1>9. CASE T!FlushFails
  BY <1>0, <1>9 DEF T!FlushFails, TaskInv, T!RestHandedOut
<1>10. CASE T!Tick
  <2>1. phase \in {"both", "north", "south"}
    BY Zenon, <1>10 DEF T!Tick, T!Relays
  <2>2. \/ phase' = phase
        \/ outcome' \in {"Idle", "CanceledAsUserBlocked", "CanceledAsServerQuit"}
    BY Zenon, <1>10 DEF T!Tick, T!Verdict, T!End
  <2>3. phase' # "end" \/ outcome' \notin {"UpstreamWriteFailed", "ClientTcpWriteFailed"}
    BY <2>1, <2>2
  <2> QED BY Zenon, <1>2, <2>3
<1> QED BY Zenon, <1>3, <1>4, <1>5, <1>6, <1>7, <1>8, <1>9, <1>10 DEF T!Next, T!Task

LEMMA TInvInit == T!Init => TInv
<1> SUFFICES ASSUME T!Init PROVE TInv
  OBVIOUS
<1>1. NorthPipe /\ SouthPipe
  <2>1. /\ nsent \in Nat /\ ntaken \in Nat /\ nout \in Seq(Nat) /\ Len(nout) <= ntaken /\ ntaken <= nsent
        /\ nstate = "run"
    BY RelayAssumption DEF T!Init, T!N!PInit
  <2>2. /\ ssent \in Nat /\ staken \in Nat /\ sout \in Seq(Nat) /\ Len(sout) <= staken /\ staken <= ssent
        /\ sstate = "run"
    BY RelayAssumption DEF T!Init, T!S!PInit
  <2>3. neof \in BOOLEAN /\ nactive \in BOOLEAN /\ seof \in BOOLEAN /\ sactive \in BOOLEAN
    BY Zenon DEF T!Init, T!N!PInit, T!S!PInit
  <2> QED BY <2>1, <2>2, <2>3 DEF NorthPipe, SouthPipe
<1>2. FlagType
  BY Zenon DEF T!Init, FlagType
<1>3. TaskInv
  BY DEF T!Init, T!N!PInit, T!S!PInit, TaskInv, T!Phases, T!Errors
<1>4. IdleInv
  <2>1. quiet["north"] = 1 /\ quiet["south"] = 1 /\ DOMAIN quiet = {"north", "south"}
        /\ quiet = [d \in {"north", "south"} |-> quiet[d]]
    BY DEF T!Init, T!Directions
  <2>2. idle_count = 0
    BY DEF T!Init
  <2> QED BY <2>1, <2>2, RelayAssumption DEF IdleInv
<1>5. T!IdleMeansQuiet /\ T!RestHandedOut
  BY DEF T!Init, T!IdleMeansQuiet, T!RestHandedOut
<1> QED BY Zenon, <1>1, <1>2, <1>3, <1>4, <1>5 DEF TInv

\* For buffers and streams of any size and any idle count, the result of a relay task
\* says the truth: "ok" that all that either side sent has been relayed, "Idle" that no
\* direction still relayed moved a byte for MaxIdle whole intervals, a failed writer
\* that what was read for the other side has been handed out to it if it can be.
THEOREM OutcomeCorrect == T!Spec => []Outcome
<1>1. TInv /\ [T!Next]_(T!vars) => TInv'
  BY Zenon, NorthNext, SouthNext, TaskNext, IdleNext, RestNext DEF TInv
<1>2. ASSUME TInv PROVE Outcome
  <2>1. NorthPipe /\ SouthPipe /\ TaskInv /\ IdleInv /\ FlagType
    BY Zenon, <1>2 DEF TInv
  <2>2. idle_count \in 0..(MaxIdle + 1)
    BY <2>1, RelayAssumption DEF IdleInv
  <2>3. quiet \in [T!Directions -> 0..(MaxIdle + 1)]
    <3>1. quiet["north"] \in 0..(MaxIdle + 1) /\ quiet["south"] \in 0..(MaxIdle + 1)
      BY <2>1, RelayAssumption DEF IdleInv
    <3>2. quiet = [d \in T!Directions |-> quiet[d]]
      BY Zenon, <2>1 DEF IdleInv, T!Directions
    <3> QED BY Zenon, <3>1, <3>2 DEF T!Directions
  <2>4. nactive \in BOOLEAN /\ sactive \in BOOLEAN /\ blocked \in BOOLEAN /\ force_quit \in BOOLEAN
    BY Zenon, <2>1 DEF NorthPipe, SouthPipe, FlagType
  <2>5. T!TypeOK
    BY Zenon, <2>1, <2>2, <2>3, <2>4 DEF T!TypeOK, TaskInv, T!Relaying
  <2>6. T!OkMeansAll
    BY Zenon, <2>1 DEF T!OkMeansAll, TaskInv, NorthPipe, SouthPipe
  <2> QED BY Zenon, <1>2, <2>5, <2>6 DEF TInv, T!Outcome, Outcome
<1> QED BY TInvInit, <1>1, <1>2, PTL DEF T!Spec
=============================================================================
