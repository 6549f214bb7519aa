------------------------------ MODULE BytePipe ------------------------------
(***************************************************************************)
(* What one direction of a relay promises: the bytes of a reader come out  *)
(* of a writer once, in order, through a buffer of bounded size, and the   *)
(* copy only reports success when the reader is at its end and nothing is  *)
(* left behind.  The i-th byte of the stream is the number i.              *)
(*                                                                         *)
(* StreamCopy implements this specification; the relay task of Transit is  *)
(* built from two instances of it.                                         *)
(***************************************************************************)
EXTENDS Naturals, Sequences

CONSTANTS
  Size,    \* bytes that fit into the buffer
  Total    \* bound: bytes that the far end of the reader sends

VARIABLES
  sent,    \* bytes that have arrived at the reader
  eof,     \* the far end has closed
  taken,   \* bytes the copy has read
  out,     \* bytes the writer has accepted
  active,  \* a byte has moved since the flag was reset
  state    \* "run", "flush" (write_flush), or the result of the copy

pvars == <<sent, eof, taken, out, active, state>>

Results == {"ok", "readfail", "writefail"}

PInit ==
  /\ sent \in 0..Size /\ sent <= Total
  /\ taken = sent
  /\ eof = FALSE
  /\ out = << >>
  /\ active \in BOOLEAN
  /\ sent > 0 => active
  /\ state = "run"

\* The far end of the reader
Send ==
  /\ ~eof /\ sent < Total
  /\ sent' = sent + 1
  /\ UNCHANGED <<eof, taken, out, active, state>>

Close ==
  /\ ~eof
  /\ eof' = TRUE
  /\ UNCHANGED <<sent, taken, out, active, state>>

Take(n) ==
  /\ state = "run"
  /\ n > 0 /\ taken + n <= sent
  /\ taken + n - Len(out) <= Size
  /\ taken' = taken + n
  /\ active' = TRUE
  /\ UNCHANGED <<sent, eof, out, state>>

\* The next n bytes of the stream go to the writer
Advance(n) ==
  /\ n > 0 /\ Len(out) + n <= taken
  /\ out' = out \o [i \in 1..n |-> Len(out) + i]

Give(n) ==
  /\ state = "run"
  /\ Advance(n)
  /\ active' = TRUE
  /\ UNCHANGED <<sent, eof, taken, state>>

\* The idle check of the task that owns the copy
ResetActive ==
  /\ state = "run"
  /\ active' = FALSE
  /\ UNCHANGED <<sent, eof, taken, out, state>>

Finish ==
  /\ state = "run"
  /\ eof /\ Len(out) = sent
  /\ state' = "ok"
  /\ UNCHANGED <<sent, eof, taken, out, active>>

Fail ==
  /\ state = "run"
  /\ state' \in {"readfail", "writefail"}
  /\ UNCHANGED <<sent, eof, taken, out, active>>

\* write_flush: the task gives up reading and only hands out what it holds
StartFlush ==
  /\ state = "run"
  /\ state' = "flush"
  /\ UNCHANGED <<sent, eof, taken, out, active>>

Drain(n) ==
  /\ state = "flush"
  /\ Advance(n)
  /\ UNCHANGED <<sent, eof, taken, active, state>>

PNext ==
  \/ Send \/ Close
  \/ \E n \in 1..Size : Take(n) \/ Give(n) \/ Drain(n)
  \/ ResetActive \/ Finish \/ Fail \/ StartFlush

PSpec == PInit /\ [][PNext]_pvars
=============================================================================
