------------------------- MODULE StreamLimitProofs -------------------------
(***************************************************************************)
(* Proofs about StreamLimit for any number of streams, buckets and         *)
(* configurations and for any sizes: the bursts and the local windows      *)
(* hold, and a poll holds tokens exactly where its loops expect them.      *)
(***************************************************************************)
EXTENDS StreamLimit, TLAPS

\* The assumption most steps need
LEMMA Bounds == N \in Nat
BY Zenon, StreamLimitAssumption

\* Buffer sizes are natural numbers
LEMMA SizeFact == ASSUME NEW n \in Sizes PROVE n \in Nat
BY Zenon, StreamLimitAssumption

\* A window has a size that is a natural number, or none
LEMMA WindowFact == ASSUME NEW s \in Streams, NEW m \in Windows(s) PROVE m \in Nat \cup {None}
<1>1. WindowSizes[s] \subseteq Nat
  BY Zenon, StreamLimitAssumption
<1> QED BY Zenon, <1>1 DEF Windows

\* The parameters of a configuration are natural numbers
LEMMA ConfigFact ==
  ASSUME NEW c \in Configs
  PROVE  /\ MaxBurst[c] \in Nat /\ Replenish[c] \in Nat
         /\ Replenish[c] <= MaxBurst[c]
BY Zenon, StreamLimitAssumption

USE Bounds DEF Buckets, None, bucketVars, localVars

Loops == {"check", "shrink", "release", "advance"}

\* A stream in a loop is at one of the buckets
InRange(s) == /\ idx[s] \in 1..(N + 1)
              /\ N > 0 /\ pc[s] \in Loops => idx[s] \in Buckets
              /\ N = 0 => pc[s] \notin {"check", "shrink", "advance"}

\* The window still has room for what the poll was allowed
Room(s) == max_bytes[s] # None => /\ cur_bytes[s] <= max_bytes[s]
                                  /\ pc[s] \in {"check", "shrink", "inner"}
                                       => cur_bytes[s] + size[s] <= max_bytes[s]

\* What the buckets before idx granted in check(), after the shrinking, and
\* when the inner stream took a part of it
Chain(s) ==
  /\ pc[s] = "check" =>
       /\ size[s] <= target[s]
       /\ \A b \in Buckets : b < idx[s] =>
            size[s] <= checked[s][b] /\ checked[s][b] <= target[s]
  /\ pc[s] = "shrink" => \A b \in Buckets :
       /\ size[s] <= checked[s][b]
       /\ b < idx[s] => checked[s][b] = size[s]
  /\ pc[s] = "inner" => \A b \in Buckets : checked[s][b] = size[s]
  /\ pc[s] = "advance" => \A b \in Buckets : b >= idx[s] => size[s] <= checked[s][b]

\* HeldIsRange for one stream
HeldOf(s) ==
  \A b \in Buckets :
    /\ pc[s] \in {"idle", "wait"} => checked[s][b] = None
    /\ pc[s] = "check" => ((checked[s][b] # None) <=> (b < idx[s]))
    /\ pc[s] \in {"shrink", "inner"} => checked[s][b] # None
    /\ pc[s] = "advance" => ((checked[s][b] # None) <=> (b >= idx[s]))
    /\ pc[s] = "release" => (b < idx[s] => checked[s][b] = None)

\* In release_global nothing is held behind the first bucket that holds nothing
Prefix(s) ==
  pc[s] = "release" =>
    \A b, d \in Buckets :
      idx[s] <= b /\ b <= d /\ checked[s][b] = None => checked[s][d] = None

StreamInv(s) == InRange(s) /\ Room(s) /\ Chain(s) /\ HeldOf(s) /\ Prefix(s)

IInv == TypeOK /\ BurstKept /\ \A s \in Streams : StreamInv(s)

\* What add_bytes returns
LEMMA AddBytesFact ==
  ASSUME NEW t \in Nat, NEW n \in Nat, NEW m \in Nat
  PROVE  /\ AddBytes(t, n, m) \in Nat
         /\ AddBytes(t, n, m) <= t \/ AddBytes(t, n, m) <= m
         /\ AddBytes(t, n, m) <= t + n
BY DEF AddBytes

\* What try_consume returns
LEMMA TryConsumeFact ==
  ASSUME NEW t \in Nat, NEW n \in Nat
  PROVE  /\ TryConsume(t, n) \in Nat
         /\ TryConsume(t, n) <= n /\ TryConsume(t, n) <= t
BY DEF TryConsume

\* Giving back to a bucket keeps the tokens typed and within the bursts
LEMMA ReleaseFact ==
  ASSUME TypeOK, BurstKept, NEW b \in Buckets, NEW n \in Nat, Release(b, n)
  PROVE  /\ tokens' \in [Buckets -> Nat]
         /\ \A d \in Buckets : \E c \in Configs : tokens'[d] <= MaxBurst[c]
<1>1. config[b] \in Configs /\ MaxBurst[config[b]] \in Nat /\ tokens[b] \in Nat
  BY Zenon, ConfigFact DEF TypeOK, BucketTypes
<1>2. /\ AddBytes(tokens[b], n, MaxBurst[config[b]]) \in Nat
      /\ \/ AddBytes(tokens[b], n, MaxBurst[config[b]]) <= tokens[b]
         \/ AddBytes(tokens[b], n, MaxBurst[config[b]]) <= MaxBurst[config[b]]
  BY Zenon, <1>1, AddBytesFact
<1>3. tokens' = [tokens EXCEPT ![b] = AddBytes(tokens[b], n, MaxBurst[config[b]])]
  BY Zenon DEF Release
<1>4. tokens' \in [Buckets -> Nat]
  BY Zenon, <1>2, <1>3 DEF TypeOK, BucketTypes
<1>5. ASSUME NEW d \in Buckets PROVE \E c \in Configs : tokens'[d] <= MaxBurst[c]
  <2>1. PICK e \in Configs : tokens[d] <= MaxBurst[e]
    BY Zenon DEF BurstKept
  <2>2. CASE d = b
    <3>1. tokens'[d] <= tokens[d] \/ tokens'[d] <= MaxBurst[config[b]]
      BY Zenon, <1>2, <1>3, <2>2 DEF TypeOK, BucketTypes
    <3>2. tokens[d] \in Nat /\ tokens'[d] \in Nat /\ MaxBurst[e] \in Nat
      BY Zenon, <1>4, ConfigFact DEF TypeOK, BucketTypes
    <3>3. CASE tokens'[d] <= tokens[d]
      BY <3>2, <3>3, <2>1
    <3>4. CASE tokens'[d] <= MaxBurst[config[b]]
      BY Zenon, <3>4, <1>1
    <3> QED BY Zenon, <3>1, <3>3, <3>4
  <2>3. CASE d # b
    <3>1. tokens'[d] = tokens[d]
      BY Zenon, <1>3, <2>3 DEF TypeOK, BucketTypes
    <3> QED BY Zenon, <3>1, <2>1
  <2> QED BY Zenon, <2>2, <2>3
<1> QED BY Zenon, <1>4, <1>5

-----------------------------------------------------------------------------
(* The streams that do not step *)

Frame(r) ==
  /\ pc'[r] = pc[r] /\ idx'[r] = idx[r] /\ target'[r] = target[r]
  /\ size'[r] = size[r] /\ checked'[r] = checked[r]
  /\ max_bytes'[r] = max_bytes[r] /\ cur_bytes'[r] = cur_bytes[r]

\* What is unchanged for a stream keeps its invariant
LEMMA FrameKeeps ==
  ASSUME NEW r \in Streams, StreamInv(r), Frame(r)
  PROVE  StreamInv(r)'
BY Zenon DEF StreamInv, InRange, Room, Chain, HeldOf, Prefix, Frame

\* A step of one stream leaves the others alone
LEMMA StepFrame ==
  ASSUME TypeOK, NEW s \in Streams, NEW r \in Streams, r # s, StreamStep(s)
  PROVE  Frame(r)
<1> USE DEF TypeOK, PollTypes, AmountTypes, LocalTypes, Frame
<1>1. CASE \E n \in Sizes : Poll(s, n)
  BY <1>1 DEF Poll, Goto
<1>2. CASE Check(s)
  <2>1. CASE tokens[idx[s]] = 0
    BY Zenon, <1>2, <2>1 DEF Check, Goto
  <2>2. CASE tokens[idx[s]] # 0
    <3>1. /\ \E n : checked' = [checked EXCEPT ![s][idx[s]] = n]
          /\ \E n : size' = [size EXCEPT ![s] = n]
          /\ target' = target /\ localVars' = localVars
      BY Zenon, <1>2, <2>2 DEF Check
    <3>2. \E l : Walk(s, "check", idx[s], l)
      BY Zenon, <1>2, <2>2 DEF Check
    <3> QED BY Zenon, <3>1, <3>2 DEF Walk
  <2> QED BY Zenon, <2>1, <2>2
<1>3. CASE Shrink(s)
  BY Zenon, <1>3 DEF Shrink, Walk
<1>4. CASE \E n \in 0..size[s] : InnerReady(s, n)
  BY Zenon, <1>4 DEF InnerReady, Goto
<1>5. CASE InnerFails(s)
  BY Zenon, <1>5 DEF InnerFails, Goto
<1>6. CASE InnerPending(s)
  BY Zenon, <1>6 DEF InnerPending, Goto
<1>7. CASE ReleaseGlobal(s)
  BY <1>7 DEF ReleaseGlobal, Goto, Walk, DropLocals
<1>8. CASE SetAdvance(s)
  BY <1>8 DEF SetAdvance, Goto, Walk, DropLocals
<1>9. CASE Wake(s)
  BY Zenon, <1>9 DEF Wake, Goto
<1>10. CASE NextSlice(s)
  BY Zenon, <1>10 DEF NextSlice
<1>11. CASE \E m \in Windows(s) : ResetLocal(s, m)
  BY Zenon, <1>11 DEF ResetLocal
<1> QED BY Zenon, <1>1, <1>2, <1>3, <1>4, <1>5, <1>6, <1>7, <1>8, <1>9, <1>10, <1>11 DEF StreamStep

-----------------------------------------------------------------------------
(* Types and bursts *)

\* The end of a poll, or a step in the middle of it, keeps the amounts typed
LEMMA DropTypes ==
  ASSUME TypeOK, NEW s \in Streams, DropLocals(s)
  PROVE  /\ target' \in [Streams -> Nat] /\ size' \in [Streams -> Nat]
         /\ after' \in [Streams -> {"idle", "wait"}]
<1>1. CASE pc'[s] \in {"idle", "wait"}
  <2>1. /\ target' = [target EXCEPT ![s] = 0]
        /\ size' = [size EXCEPT ![s] = 0]
        /\ after' = [after EXCEPT ![s] = "idle"]
    BY Zenon, <1>1 DEF DropLocals
  <2> QED BY Zenon, <2>1 DEF TypeOK, PollTypes, AmountTypes
<1>2. CASE pc'[s] \notin {"idle", "wait"}
  BY Zenon, <1>2 DEF DropLocals, TypeOK, PollTypes, AmountTypes
<1> QED BY Zenon, <1>1, <1>2

\* Emptying checked_bytes of a bucket keeps it typed
LEMMA TakeTypes ==
  ASSUME TypeOK, NEW s \in Streams, NEW b \in Buckets,
         checked' = [checked EXCEPT ![s][b] = None]
  PROVE  checked' \in [Streams -> [Buckets -> Nat \cup {None}]]
BY Zenon DEF TypeOK, AmountTypes

\* A step of a stream keeps the types and the bursts
LEMMA StreamTypes ==
  ASSUME IInv, NEW s \in Streams, StreamStep(s)
  PROVE  TypeOK' /\ BurstKept'
<1> USE DEF IInv
<1>0. /\ InRange(s) /\ size[s] \in Nat /\ target[s] \in Nat
      /\ \A b \in Buckets : checked[s][b] \in Nat \cup {None} /\ tokens[b] \in Nat
  BY Zenon DEF StreamInv, TypeOK, BucketTypes, PollTypes, AmountTypes
<1>00. ASSUME tokens' = tokens PROVE BurstKept'
  BY Zenon, <1>00 DEF BurstKept
<1>1. ASSUME NEW n \in Sizes, Poll(s, n) PROVE TypeOK' /\ BurstKept'
  <2>1. n \in Nat
    BY Zenon, SizeFact
  <2>2. WindowBytes(s) \in Nat /\ (max_bytes[s] # None => WindowBytes(s) <= max_bytes[s])
    BY DEF WindowBytes, TypeOK, LocalTypes, StreamInv, Room
  <2>3. LocalCheck(s, n) \in Nat
    <3>1. max_bytes[s] \in Nat \cup {None}
      BY Zenon DEF TypeOK, LocalTypes
    <3> HIDE DEF WindowBytes
    <3> QED BY <2>1, <2>2, <3>1 DEF LocalCheck
  <2>4. tokens' = tokens
    BY Zenon, <1>1 DEF Poll
  <2>5. TypeOK'
    <3>1. BucketTypes'
      BY Zenon, <1>1, <2>1, <2>2, <2>3 DEF Poll, Goto, TypeOK, BucketTypes
    <3>2. PollTypes'
      BY <1>1, <2>1, <2>2, <2>3 DEF Poll, Goto, TypeOK, PollTypes
    <3>3. AmountTypes'
      BY Zenon, <1>1, <2>1, <2>2, <2>3 DEF Poll, Goto, TypeOK, AmountTypes
    <3>4. LocalTypes'
      BY Zenon, <1>1, <2>1, <2>2, <2>3 DEF Poll, Goto, TypeOK, LocalTypes
    <3> QED BY Zenon, <3>1, <3>2, <3>3, <3>4 DEF TypeOK
  <2> QED BY Zenon, <2>4, <2>5, <1>00
<1>2. CASE Check(s)
  <2>1. pc[s] = "check"
    BY Zenon, <1>2 DEF Check
  <2>2. idx[s] \in Buckets
    BY <2>1, <1>0 DEF InRange, Loops
  <2>3. CASE tokens[idx[s]] = 0
    <3>1. tokens' = tokens
      BY Zenon, <1>2, <2>3 DEF Check
    <3>2. TypeOK'
      <4>1. BucketTypes'
        BY Zenon, <1>2, <2>3 DEF Check, Goto, TypeOK, BucketTypes
      <4>2. PollTypes'
        BY <1>2, <2>3 DEF Check, Goto, TypeOK, PollTypes
      <4>3. AmountTypes'
        BY Zenon, <1>2, <2>3 DEF Check, Goto, TypeOK, AmountTypes
      <4>4. LocalTypes'
        BY Zenon, <1>2, <2>3 DEF Check, Goto, TypeOK, LocalTypes
      <4> QED BY Zenon, <4>1, <4>2, <4>3, <4>4 DEF TypeOK
    <3> QED BY Zenon, <3>1, <3>2, <1>00
  <2>4. CASE tokens[idx[s]] # 0
    <3> DEFINE n == TryConsume(tokens[idx[s]], size[s])
    <3>0. tokens[idx[s]] \in Nat /\ size[s] \in Nat
      BY Zenon, <1>0, <2>2
    <3>00. n \in Nat /\ n <= tokens[idx[s]]
      BY Zenon, <3>0, TryConsumeFact
    <3>1. n \in Nat /\ n <= tokens[idx[s]] /\ tokens[idx[s]] - n \in Nat
      <4> HIDE DEF n
      <4> QED BY <3>0, <3>00
    <3> HIDE DEF n
    <3>2. /\ tokens' = [tokens EXCEPT ![idx[s]] = tokens[idx[s]] - n]
          /\ checked' = [checked EXCEPT ![s][idx[s]] = n]
          /\ size' = [size EXCEPT ![s] = n]
          /\ idx' = [idx EXCEPT ![s] = IF idx[s] < N THEN idx[s] + 1 ELSE 1]
          /\ pc' = [pc EXCEPT ![s] = IF idx[s] < N THEN "check"
                                     ELSE IF target[s] > n THEN "shrink" ELSE "inner"]
          /\ UNCHANGED <<config, loaded, updates, target, after, max_bytes, cur_bytes,
                         new_slice>>
      BY Zenon, <1>2, <2>4 DEF Check, Walk, n
    <3>3. TypeOK'
      <4>1. BucketTypes'
        BY Zenon, <3>0, <3>1, <3>2, <2>2 DEF TypeOK, BucketTypes
      <4>2. PollTypes'
        BY <3>0, <3>1, <3>2, <2>2 DEF TypeOK, PollTypes
      <4>3. AmountTypes'
        BY Zenon, <3>0, <3>1, <3>2, <2>2 DEF TypeOK, AmountTypes
      <4>4. LocalTypes'
        BY Zenon, <3>0, <3>1, <3>2, <2>2 DEF TypeOK, LocalTypes
      <4> QED BY Zenon, <4>1, <4>2, <4>3, <4>4 DEF TypeOK
    <3>4. ASSUME NEW d \in Buckets PROVE tokens'[d] <= tokens[d]
      <4>1. tokens[d] \in Nat
        BY Zenon, <1>0
      <4>2. tokens'[d] = IF d = idx[s] THEN tokens[idx[s]] - n ELSE tokens[d]
        BY Zenon, <3>2 DEF TypeOK, BucketTypes
      <4> QED BY <4>1, <4>2, <3>0, <3>1
    <3>5. BurstKept'
      <4> SUFFICES ASSUME NEW d \in Buckets
                   PROVE  \E c \in Configs : tokens'[d] <= MaxBurst[c]
        BY Zenon DEF BurstKept
      <4>1. PICK c \in Configs : tokens[d] <= MaxBurst[c]
        BY Zenon DEF BurstKept
      <4>2. tokens'[d] \in Nat /\ tokens[d] \in Nat /\ MaxBurst[c] \in Nat
        BY Zenon, <3>3, ConfigFact DEF TypeOK, BucketTypes
      <4> QED BY <4>1, <4>2, <3>4
    <3> QED BY Zenon, <3>3, <3>5
  <2> QED BY Zenon, <2>3, <2>4
<1>3. ASSUME NEW b \in Buckets, NEW n \in Nat,
             tokens' = tokens \/ Release(b, n)
      PROVE  tokens' \in [Buckets -> Nat] /\ BurstKept'
  <2>1. CASE tokens' = tokens
    BY Zenon, <2>1, <1>00 DEF TypeOK, BucketTypes
  <2>2. CASE Release(b, n)
    BY Zenon, <2>2, ReleaseFact DEF BurstKept
  <2> QED BY Zenon, <1>3, <2>1, <2>2
<1>4. CASE Shrink(s)
  <2>1. pc[s] = "shrink" /\ idx[s] \in Buckets
    BY <1>4, <1>0 DEF Shrink, InRange, Loops
  <2>2. checked[s][idx[s]] \in Nat
    BY Zenon, <2>1, <1>0 DEF StreamInv, HeldOf
  <2>3. tokens' = tokens \/ (checked[s][idx[s]] > size[s] /\ Release(idx[s], checked[s][idx[s]] - size[s]))
    BY Zenon, <1>4 DEF Shrink
  <2>4. tokens' \in [Buckets -> Nat] /\ BurstKept'
    <3>1. CASE checked[s][idx[s]] > size[s]
      <4>1. checked[s][idx[s]] - size[s] \in Nat
        BY <2>2, <1>0, <3>1
      <4> QED BY Zenon, <4>1, <2>1, <2>3, <1>3
    <3>2. CASE ~(checked[s][idx[s]] > size[s])
      BY Zenon, <3>2, <2>1, <2>3, <1>3
    <3> QED BY Zenon, <3>1, <3>2
  <2>5. TypeOK'
    <3>1. BucketTypes'
      BY Zenon, <1>4, <2>1, <2>4, <1>0 DEF Shrink, Walk, TypeOK, BucketTypes
    <3>2. PollTypes'
      BY <1>4, <2>1, <2>4, <1>0 DEF Shrink, Walk, TypeOK, PollTypes
    <3>3. AmountTypes'
      BY Zenon, <1>4, <2>1, <2>4, <1>0 DEF Shrink, Walk, TypeOK, AmountTypes
    <3>4. LocalTypes'
      BY Zenon, <1>4, <2>1, <2>4, <1>0 DEF Shrink, Walk, TypeOK, LocalTypes
    <3> QED BY Zenon, <3>1, <3>2, <3>3, <3>4 DEF TypeOK
  <2> QED BY Zenon, <2>4, <2>5
<1>5. ASSUME NEW n \in 0..size[s], InnerReady(s, n) PROVE TypeOK' /\ BurstKept'
  <2>1. tokens' = tokens
    BY Zenon, <1>5 DEF InnerReady
  <2>2. TypeOK'
    <3>1. BucketTypes'
      BY Zenon, <1>5, <1>0 DEF InnerReady, Goto, TypeOK, BucketTypes
    <3>2. PollTypes'
      BY <1>5, <1>0 DEF InnerReady, Goto, TypeOK, PollTypes
    <3>3. AmountTypes'
      BY <1>5, <1>0 DEF InnerReady, Goto, TypeOK, AmountTypes
    <3>4. LocalTypes'
      BY <1>5, <1>0 DEF InnerReady, Goto, TypeOK, LocalTypes
    <3> QED BY Zenon, <3>1, <3>2, <3>3, <3>4 DEF TypeOK
  <2> QED BY Zenon, <2>1, <2>2, <1>00
<1>6. CASE InnerFails(s) \/ InnerPending(s)
  <2>1. tokens' = tokens
    BY Zenon, <1>6 DEF InnerFails, InnerPending
  <2>2. TypeOK'
    <3>1. BucketTypes'
      BY Zenon, <1>6 DEF InnerFails, InnerPending, Goto, TypeOK, BucketTypes
    <3>2. PollTypes'
      BY <1>6 DEF InnerFails, InnerPending, Goto, TypeOK, PollTypes
    <3>3. AmountTypes'
      BY Zenon, <1>6 DEF InnerFails, InnerPending, Goto, TypeOK, AmountTypes
    <3>4. LocalTypes'
      BY Zenon, <1>6 DEF InnerFails, InnerPending, Goto, TypeOK, LocalTypes
    <3> QED BY Zenon, <3>1, <3>2, <3>3, <3>4 DEF TypeOK
  <2> QED BY Zenon, <2>1, <2>2, <1>00
<1>7. CASE ReleaseGlobal(s)
  <2>1. CASE N = 0 \/ checked[s][idx[s]] = None
    <3>1. tokens' = tokens
      BY Zenon, <1>7, <2>1 DEF ReleaseGlobal
    <3>2. TypeOK'
      <4>1. BucketTypes'
        BY Zenon, <1>7, <2>1 DEF ReleaseGlobal, Goto, DropLocals, TypeOK, BucketTypes
      <4>2. PollTypes'
        BY <1>7, <2>1 DEF ReleaseGlobal, Goto, DropLocals, TypeOK, PollTypes
      <4>3. AmountTypes'
        BY Zenon, <1>7, <2>1, DropTypes DEF ReleaseGlobal, TypeOK, AmountTypes
      <4>4. LocalTypes'
        BY Zenon, <1>7, <2>1 DEF ReleaseGlobal, Goto, DropLocals, TypeOK, LocalTypes
      <4> QED BY Zenon, <4>1, <4>2, <4>3, <4>4 DEF TypeOK
    <3> QED BY Zenon, <3>1, <3>2, <1>00
  <2>2. CASE ~(N = 0 \/ checked[s][idx[s]] = None)
    <3>1. idx[s] \in Buckets /\ checked[s][idx[s]] \in Nat
      BY <1>7, <2>2, <1>0 DEF ReleaseGlobal, InRange, Loops
    <3>2. Release(idx[s], checked[s][idx[s]])
      BY Zenon, <1>7, <2>2 DEF ReleaseGlobal
    <3>3. tokens' \in [Buckets -> Nat] /\ BurstKept'
      BY Zenon, <3>1, <3>2, <1>3
    <3>4. TypeOK'
      <4>1. BucketTypes'
        BY Zenon, <1>7, <2>2, <3>1, <3>3 DEF ReleaseGlobal, Walk, DropLocals, TypeOK, BucketTypes
      <4>2. PollTypes'
        <5>1. idx' \in [Streams -> 1..(N + 1)] /\ after' \in [Streams -> {"idle", "wait"}]
          BY <1>7, <2>2, <3>1, DropTypes DEF ReleaseGlobal, Walk, TypeOK, PollTypes
        <5>2. after[s] \in {"idle", "wait"}
          BY Zenon DEF TypeOK, PollTypes
        <5>3. pc' = [pc EXCEPT ![s] = IF idx[s] < N THEN "release" ELSE after[s]]
          BY Zenon, <1>7, <2>2 DEF ReleaseGlobal, Walk
        <5> QED BY Zenon, <5>1, <5>2, <5>3 DEF TypeOK, PollTypes
      <4>3. AmountTypes'
        BY Zenon, <1>7, <2>2, <3>1, DropTypes, TakeTypes DEF ReleaseGlobal, TypeOK, AmountTypes
      <4>4. LocalTypes'
        BY Zenon, <1>7, <2>2, <3>1, <3>3 DEF ReleaseGlobal, Walk, DropLocals, TypeOK, LocalTypes
      <4> QED BY Zenon, <4>1, <4>2, <4>3, <4>4 DEF TypeOK
    <3> QED BY Zenon, <3>3, <3>4
  <2> QED BY Zenon, <2>1, <2>2
<1>8. CASE SetAdvance(s)
  <2>0. pc[s] = "advance" /\ idx[s] \in Buckets
    BY <1>8, <1>0 DEF SetAdvance, InRange, Loops
  <2>1. checked[s][idx[s]] \in Nat
    BY <2>0, <1>0 DEF StreamInv, HeldOf
  <2>2. /\ IF checked[s][idx[s]] > size[s]
              THEN Release(idx[s], checked[s][idx[s]] - size[s])
              ELSE UNCHANGED tokens
        /\ checked' = [checked EXCEPT ![s][idx[s]] = None]
        /\ Walk(s, "advance", idx[s], "idle")
    BY <1>8, <2>1 DEF SetAdvance
  <2>3. tokens' \in [Buckets -> Nat] /\ BurstKept'
    <3>1. CASE checked[s][idx[s]] > size[s]
      <4>1. checked[s][idx[s]] - size[s] \in Nat
        BY <2>1, <1>0, <3>1
      <4> QED BY Zenon, <4>1, <2>0, <2>2, <1>3, <3>1
    <3>2. CASE ~(checked[s][idx[s]] > size[s])
      BY Zenon, <3>2, <2>0, <2>2, <1>3
    <3> QED BY Zenon, <3>1, <3>2
  <2>4. TypeOK'
    <3>1. BucketTypes'
      BY Zenon, <1>8, <2>0, <2>2, <2>3 DEF SetAdvance, Walk, DropLocals, TypeOK, BucketTypes
    <3>2. PollTypes'
      <4>1. after' \in [Streams -> {"idle", "wait"}]
        BY <1>8, DropTypes DEF SetAdvance
      <4> QED BY <4>1, <2>0, <2>2 DEF Walk, TypeOK, PollTypes
    <3>3. AmountTypes'
      BY Zenon, <1>8, <2>0, <2>2, DropTypes, TakeTypes DEF SetAdvance, TypeOK, AmountTypes
    <3>4. LocalTypes'
      BY Zenon, <1>8, <2>0, <2>2, <2>3 DEF SetAdvance, Walk, DropLocals, TypeOK, LocalTypes
    <3> QED BY Zenon, <3>1, <3>2, <3>3, <3>4 DEF TypeOK
  <2> QED BY Zenon, <2>3, <2>4
<1>9. CASE Wake(s)
  <2>1. tokens' = tokens
    BY Zenon, <1>9 DEF Wake
  <2>2. TypeOK'
    <3>1. BucketTypes'
      BY Zenon, <1>9 DEF Wake, Goto, TypeOK, BucketTypes
    <3>2. PollTypes'
      BY <1>9 DEF Wake, Goto, TypeOK, PollTypes
    <3>3. AmountTypes'
      BY Zenon, <1>9 DEF Wake, Goto, TypeOK, AmountTypes
    <3>4. LocalTypes'
      BY Zenon, <1>9 DEF Wake, Goto, TypeOK, LocalTypes
    <3> QED BY Zenon, <3>1, <3>2, <3>3, <3>4 DEF TypeOK
  <2> QED BY Zenon, <2>1, <2>2, <1>00
<1>10. CASE NextSlice(s)
  <2>1. tokens' = tokens
    BY Zenon, <1>10 DEF NextSlice
  <2>2. BucketTypes' /\ PollTypes' /\ AmountTypes'
    BY Zenon, <1>10 DEF NextSlice, TypeOK, BucketTypes, PollTypes, AmountTypes
  <2>3. LocalTypes'
    BY Zenon, <1>10 DEF NextSlice, TypeOK, LocalTypes
  <2> QED BY Zenon, <2>1, <2>2, <2>3, <1>00 DEF TypeOK
<1>11. ASSUME NEW m \in Windows(s), ResetLocal(s, m) PROVE TypeOK' /\ BurstKept'
  <2>1. tokens' = tokens
    BY Zenon, <1>11 DEF ResetLocal
  <2>2. BucketTypes' /\ PollTypes' /\ AmountTypes'
    BY Zenon, <1>11 DEF ResetLocal, TypeOK, BucketTypes, PollTypes, AmountTypes
  <2>3. LocalTypes'
    <3>1. m \in Nat \cup {None}
      BY Zenon, WindowFact
    <3> QED BY Zenon, <1>11, <3>1 DEF ResetLocal, TypeOK, LocalTypes
  <2> QED BY Zenon, <2>1, <2>2, <2>3, <1>00 DEF TypeOK
<1> QED BY Zenon, <1>1, <1>2, <1>4, <1>5, <1>6, <1>7, <1>8, <1>9, <1>10, <1>11 DEF StreamStep

-----------------------------------------------------------------------------
(* The stream that steps *)

\* What a poll asks of the buckets fits the window
LEMMA LocalFact ==
  ASSUME IInv, NEW s \in Streams, NEW n \in Sizes
  PROVE  /\ WindowBytes(s) \in Nat /\ LocalCheck(s, n) \in Nat
         /\ LocalCheck(s, n) <= n
         /\ max_bytes[s] # None => WindowBytes(s) + LocalCheck(s, n) <= max_bytes[s]
<1>1. WindowBytes(s) \in Nat /\ (max_bytes[s] # None => WindowBytes(s) <= max_bytes[s])
  BY DEF WindowBytes, IInv, TypeOK, LocalTypes, StreamInv, Room
<1>2. n \in Nat
  BY Zenon, SizeFact
<1>3. max_bytes[s] \in Nat \cup {None}
  BY Zenon DEF IInv, TypeOK, LocalTypes
<1> HIDE DEF WindowBytes
<1> QED BY <1>1, <1>2, <1>3 DEF LocalCheck

\* A step of a stream keeps its invariant
LEMMA StreamKeeps ==
  ASSUME IInv, NEW s \in Streams, StreamStep(s)
  PROVE  StreamInv(s)'
<1>rng. InRange(s) /\ idx[s] \in Nat
  BY DEF IInv, StreamInv, TypeOK, PollTypes
<1>room. Room(s) /\ cur_bytes[s] \in Nat /\ size[s] \in Nat /\ max_bytes[s] \in Nat \cup {None}
  BY Zenon DEF IInv, StreamInv, TypeOK, AmountTypes, LocalTypes
<1>chn. Chain(s) /\ target[s] \in Nat /\ size[s] \in Nat
  BY Zenon DEF IInv, StreamInv, TypeOK, AmountTypes
<1>held. HeldOf(s)
  BY Zenon DEF IInv, StreamInv
<1>pre. Prefix(s)
  BY Zenon DEF IInv, StreamInv
<1>chk. \A b \in Buckets : checked[s][b] \in Nat \cup {None}
  BY Zenon DEF IInv, TypeOK, AmountTypes
<1>dp. DOMAIN pc = Streams /\ DOMAIN idx = Streams
  BY Zenon DEF IInv, TypeOK, PollTypes
<1>da. DOMAIN size = Streams /\ DOMAIN target = Streams /\ DOMAIN checked = Streams
  BY Zenon DEF IInv, TypeOK, AmountTypes
<1>db. DOMAIN checked[s] = Buckets
  BY Zenon DEF IInv, TypeOK, AmountTypes
<1>dl. DOMAIN max_bytes = Streams /\ DOMAIN cur_bytes = Streams
  BY Zenon DEF IInv, TypeOK, LocalTypes
<1>1. ASSUME NEW n \in Sizes, Poll(s, n) PROVE StreamInv(s)'
  <2>1. /\ WindowBytes(s) \in Nat /\ LocalCheck(s, n) \in Nat
        /\ LocalCheck(s, n) <= n /\ n \in Nat
        /\ max_bytes[s] # None => WindowBytes(s) + LocalCheck(s, n) <= max_bytes[s]
    BY Zenon, LocalFact, SizeFact
  <2>2. /\ pc[s] = "idle" /\ idx'[s] = 1 /\ checked'[s] = checked[s] /\ max_bytes'[s] = max_bytes[s]
        /\ cur_bytes'[s] = IF max_bytes[s] # None THEN WindowBytes(s) ELSE cur_bytes[s]
    BY Zenon, <1>1, <1>dp, <1>da, <1>dl DEF Poll, Goto
  <2>3. \/ pc'[s] = "wait"
        \/ /\ pc'[s] = IF N = 0 THEN "inner" ELSE "check"
           /\ size'[s] = LocalCheck(s, n) /\ target'[s] = n
    BY Zenon, <1>1, <1>dp, <1>da, <1>dl DEF Poll, Goto
  <2>4. \A b \in Buckets : checked[s][b] = None
    BY Zenon, <1>held, <2>2 DEF HeldOf
  <2>5a. InRange(s)'
    BY <2>1, <2>2, <2>3, <1>rng DEF InRange, Loops
  <2>5b. Room(s)'
    BY <2>1, <2>2, <2>3, <1>room DEF Room
  <2>6a. Chain(s)'
    BY <2>1, <2>2, <2>3, <2>4 DEF Chain
  <2>6b. Prefix(s)'
    BY Zenon, <2>1, <2>2, <2>3, <2>4 DEF Prefix
  <2>7. HeldOf(s)'
    BY <2>2, <2>3, <2>4 DEF HeldOf
  <2> QED BY Zenon, <2>5a, <2>5b, <2>6a, <2>6b, <2>7 DEF StreamInv
<1>2. CASE Check(s)
  <2>1. pc[s] = "check" /\ idx[s] \in Buckets /\ N > 0
    BY <1>2, <1>rng DEF Check, InRange, Loops
  <2>2. CASE tokens[idx[s]] = 0
    <3>1. /\ pc'[s] = "release" /\ idx'[s] = 1 /\ checked'[s] = checked[s]
          /\ max_bytes'[s] = max_bytes[s] /\ cur_bytes'[s] = cur_bytes[s]
      BY Zenon, <1>2, <2>2, <1>dp, <1>da, <1>dl DEF Check, Goto
    <3>2a. InRange(s)'
      BY <3>1, <2>1, <1>rng DEF InRange, Loops
    <3>2b. Room(s)'
      BY Zenon, <3>1, <2>1, <1>room DEF Room
    <3>2c. Chain(s)'
      BY Zenon, <3>1, <2>1, <1>chn DEF Chain
    <3>3. HeldOf(s)'
      BY <3>1 DEF HeldOf
    <3>4. Prefix(s)'
      BY <3>1, <2>1, <1>pre, <1>held DEF Prefix, HeldOf
    <3> QED BY Zenon, <3>2a, <3>2b, <3>2c, <3>3, <3>4 DEF StreamInv
  <2>3. CASE tokens[idx[s]] # 0
    <3> DEFINE n == TryConsume(tokens[idx[s]], size[s])
    <3>0. tokens[idx[s]] \in Nat
      BY Zenon, <2>1 DEF IInv, TypeOK, BucketTypes
    <3>1. n \in Nat /\ n <= size[s]
      BY Zenon, <3>0, <1>room, TryConsumeFact
    <3>2. /\ checked'[s] = [checked[s] EXCEPT ![idx[s]] = n]
          /\ size'[s] = n /\ target'[s] = target[s]
          /\ max_bytes'[s] = max_bytes[s] /\ cur_bytes'[s] = cur_bytes[s]
          /\ idx'[s] = IF idx[s] < N THEN idx[s] + 1 ELSE 1
          /\ pc'[s] = IF idx[s] < N THEN "check"
                      ELSE IF target[s] > n THEN "shrink" ELSE "inner"
      BY Zenon, <1>2, <2>3, <1>dp, <1>da, <1>dl DEF Check, Walk, n
    <3> HIDE DEF n
    <3>3. ASSUME NEW b \in Buckets
          PROVE  checked'[s][b] = IF b = idx[s] THEN n ELSE checked[s][b]
      BY Zenon, <3>2, <1>db, <2>1
    <3>4a. InRange(s)'
      BY <3>1, <3>2, <2>1, <1>rng DEF InRange, Loops
    <3>4b. Room(s)'
      BY <3>1, <3>2, <2>1, <1>room DEF Room
    <3>5. Prefix(s)'
      BY Zenon, <3>2 DEF Prefix
    <3>6. HeldOf(s)'
      BY <3>1, <3>2, <3>3, <2>1, <1>held, <1>rng DEF HeldOf
    <3>7. Chain(s)'
      <4>1. /\ size[s] <= target[s]
            /\ \A b \in Buckets : b < idx[s] =>
                 size[s] <= checked[s][b] /\ checked[s][b] <= target[s]
        BY Zenon, <2>1, <1>chn DEF Chain
      <4>2. ASSUME NEW b \in Buckets, b <= idx[s]
            PROVE  n <= checked'[s][b] /\ checked'[s][b] <= target[s] /\ checked'[s][b] \in Nat
        <5>1. CASE b = idx[s]
          BY <5>1, <3>1, <3>3, <4>1, <1>chn
        <5>2. CASE b # idx[s]
          <6>1. b < idx[s] /\ checked[s][b] \in Nat \cup {None}
            BY <5>2, <4>2, <1>chk, <1>rng, <2>1
          <6> QED BY <6>1, <5>2, <3>1, <3>3, <4>1, <1>chn
        <5> QED BY Zenon, <5>1, <5>2
      <4>3. CASE idx[s] < N
        BY <4>1, <4>2, <4>3, <3>1, <3>2, <2>1, <1>rng, <1>chn DEF Chain
      <4>4. CASE ~(idx[s] < N)
        <5>1. \A b \in Buckets : b <= idx[s]
          BY <4>4, <2>1
        <5>2. pc'[s] = "inner" => n = target[s]
          BY <4>1, <4>4, <3>1, <3>2, <1>chn
        <5>3. pc'[s] = "inner" => \A b \in Buckets : checked'[s][b] = n
          BY <5>1, <5>2, <4>2, <3>1
        <5>4. \A b \in Buckets : n <= checked'[s][b] /\ ~(b < 1)
          BY <5>1, <4>2
        <5>5. size'[s] = n /\ idx'[s] = 1 /\ pc'[s] \in {"shrink", "inner"}
          BY <4>4, <3>2
        <5> QED BY <5>3, <5>4, <5>5 DEF Chain
      <4> QED BY Zenon, <4>3, <4>4
    <3> QED BY Zenon, <3>4a, <3>4b, <3>5, <3>6, <3>7 DEF StreamInv
  <2> QED BY Zenon, <2>2, <2>3
<1>3. CASE Shrink(s)
  <2>1. pc[s] = "shrink" /\ idx[s] \in Buckets /\ N > 0
    BY <1>3, <1>rng DEF Shrink, InRange, Loops
  <2>2. /\ checked'[s] = [checked[s] EXCEPT ![idx[s]] = size[s]]
        /\ size'[s] = size[s] /\ target'[s] = target[s]
        /\ max_bytes'[s] = max_bytes[s] /\ cur_bytes'[s] = cur_bytes[s]
        /\ idx'[s] = IF idx[s] < N THEN idx[s] + 1 ELSE 1
        /\ pc'[s] = IF idx[s] < N THEN "shrink" ELSE "inner"
    BY Zenon, <1>3, <1>dp, <1>da, <1>dl DEF Shrink, Walk
  <2>3. ASSUME NEW b \in Buckets
        PROVE  checked'[s][b] = IF b = idx[s] THEN size[s] ELSE checked[s][b]
    BY Zenon, <2>2, <1>db, <2>1
  <2>4a. InRange(s)'
    BY <2>2, <2>1, <1>rng DEF InRange, Loops
  <2>4b. Room(s)'
    BY Zenon, <2>2, <2>1, <1>room DEF Room
  <2>5. Prefix(s)'
    BY Zenon, <2>2 DEF Prefix
  <2>6. HeldOf(s)'
    <3>1. pc'[s] \in {"shrink", "inner"}
      BY <2>2
    <3>2. \A b \in Buckets : checked[s][b] # None /\ size[s] # None
      BY <2>1, <1>held, <1>room DEF HeldOf
    <3>3. \A b \in Buckets : checked'[s][b] # None
      BY <2>3, <3>2
    <3> QED BY <3>1, <3>3 DEF HeldOf
  <2>7. Chain(s)'
    <3>1. ASSUME NEW b \in Buckets, b <= idx[s] PROVE checked'[s][b] = size[s]
      <4>1. CASE b = idx[s]
        BY Zenon, <4>1, <2>3
      <4>2. CASE b # idx[s]
        BY <4>2, <3>1, <2>1, <2>3, <1>chn, <1>rng DEF Chain
      <4> QED BY Zenon, <4>1, <4>2
    <3>2. CASE idx[s] < N
      <4>1. pc'[s] = "shrink" /\ idx'[s] = idx[s] + 1 /\ size'[s] = size[s]
        BY <2>2, <3>2
      <4>2. \A b \in Buckets : b < idx'[s] => b <= idx[s]
        BY <4>1, <1>rng
      <4>3. \A b \in Buckets : b < idx'[s] => checked'[s][b] = size'[s]
        BY Zenon, <4>1, <4>2, <3>1
      <4>4. ASSUME NEW b \in Buckets PROVE size'[s] <= checked'[s][b]
        <5>1. size[s] <= checked[s][b] /\ size[s] \in Nat
          BY Zenon, <2>1, <1>chn DEF Chain
        <5> QED BY <5>1, <4>1, <2>3
      <4> QED BY <4>1, <4>3, <4>4 DEF Chain
    <3>3. CASE ~(idx[s] < N)
      <4>1. \A b \in Buckets : b <= idx[s]
        BY <3>3, <2>1
      <4> QED BY Zenon, <4>1, <3>1, <3>3, <2>2 DEF Chain
    <3> QED BY Zenon, <3>2, <3>3
  <2> QED BY Zenon, <2>4a, <2>4b, <2>5, <2>6, <2>7 DEF StreamInv
<1>4. ASSUME NEW n \in 0..size[s], InnerReady(s, n) PROVE StreamInv(s)'
  <2>1. /\ pc[s] = "inner" /\ idx'[s] = 1 /\ checked'[s] = checked[s]
        /\ max_bytes'[s] = max_bytes[s] /\ size'[s] = n
        /\ cur_bytes'[s] = IF max_bytes[s] # None THEN cur_bytes[s] + n ELSE cur_bytes[s]
        /\ pc'[s] = IF N = 0 THEN "idle" ELSE "advance"
    BY Zenon, <1>4, <1>dp, <1>da, <1>dl DEF InnerReady, Goto
  <2>2. n \in Nat /\ n <= size[s]
    BY <1>chn
  <2>3a. InRange(s)'
    BY <2>1, <2>2, <1>rng DEF InRange, Loops
  <2>3b. Room(s)'
    BY <2>1, <2>2, <1>room DEF Room
  <2>4a. Chain(s)'
    <3>1. \A b \in Buckets : checked'[s][b] = size[s]
      BY Zenon, <2>1, <1>chn DEF Chain
    <3> QED BY <3>1, <2>1, <2>2 DEF Chain
  <2>4b. Prefix(s)'
    BY Zenon, <2>1 DEF Prefix
  <2>5. HeldOf(s)'
    BY <2>1, <1>held, <1>rng DEF HeldOf
  <2> QED BY Zenon, <2>3a, <2>3b, <2>4a, <2>4b, <2>5 DEF StreamInv
<1>5. CASE InnerFails(s) \/ InnerPending(s)
  <2>1. /\ pc[s] = "inner" /\ idx'[s] = 1 /\ checked'[s] = checked[s]
        /\ max_bytes'[s] = max_bytes[s] /\ cur_bytes'[s] = cur_bytes[s] /\ pc'[s] = "release"
    BY Zenon, <1>5, <1>dp, <1>da, <1>dl DEF InnerFails, InnerPending, Goto
  <2>2a. InRange(s)'
    BY <2>1, <1>rng DEF InRange, Loops
  <2>2b. Room(s)'
    BY Zenon, <2>1, <1>room DEF Room
  <2>2c. Chain(s)'
    BY Zenon, <2>1, <1>chn DEF Chain
  <2>3. HeldOf(s)'
    BY <2>1 DEF HeldOf
  <2>4. Prefix(s)'
    BY Zenon, <2>1, <1>pre, <1>held DEF Prefix, HeldOf
  <2> QED BY Zenon, <2>2a, <2>2b, <2>2c, <2>3, <2>4 DEF StreamInv
<1>6. CASE ReleaseGlobal(s)
  <2>0. after[s] \in {"idle", "wait"}
    BY Zenon DEF IInv, TypeOK, PollTypes
  <2>1. pc[s] = "release" /\ max_bytes'[s] = max_bytes[s] /\ cur_bytes'[s] = cur_bytes[s]
    BY Zenon, <1>6 DEF ReleaseGlobal
  <2>2. CASE N = 0 \/ checked[s][idx[s]] = None
    <3>1. pc'[s] = after[s] /\ idx'[s] = 1 /\ checked'[s] = checked[s]
      BY Zenon, <1>6, <2>2, <1>dp, <1>da, <1>dl DEF ReleaseGlobal, Goto
    <3>2. \A b \in Buckets : checked[s][b] = None
      <4> SUFFICES ASSUME NEW b \in Buckets PROVE checked[s][b] = None
        OBVIOUS
      <4>1. idx[s] \in Buckets /\ checked[s][idx[s]] = None
        BY <2>1, <2>2, <1>rng DEF InRange, Loops
      <4>2. CASE b < idx[s]
        BY Zenon, <4>2, <2>1, <1>held DEF HeldOf
      <4>3. CASE ~(b < idx[s])
        BY <4>1, <4>3, <2>1, <1>pre, <1>rng DEF Prefix
      <4> QED BY Zenon, <4>2, <4>3
    <3>3a. InRange(s)'
      BY <3>1, <2>0, <2>1, <1>rng DEF InRange, Loops
    <3>3b. Room(s)'
      BY Zenon, <3>1, <2>0, <2>1, <1>room DEF Room
    <3>3c. Chain(s)'
      BY Zenon, <3>1, <2>0, <2>1, <1>chn DEF Chain
    <3>3d. Prefix(s)'
      BY Zenon, <3>1, <2>0, <2>1, <1>pre DEF Prefix
    <3>4. HeldOf(s)'
      BY Zenon, <3>1, <3>2, <2>0 DEF HeldOf
    <3> QED BY Zenon, <3>3a, <3>3b, <3>3c, <3>3d, <3>4 DEF StreamInv
  <2>3. CASE ~(N = 0 \/ checked[s][idx[s]] = None)
    <3>1. idx[s] \in Buckets /\ N > 0
      BY <2>1, <2>3, <1>rng DEF InRange, Loops
    <3>2. /\ checked'[s] = [checked[s] EXCEPT ![idx[s]] = None]
          /\ idx'[s] = IF idx[s] < N THEN idx[s] + 1 ELSE 1
          /\ pc'[s] = IF idx[s] < N THEN "release" ELSE after[s]
      BY Zenon, <1>6, <2>3, <1>dp, <1>da, <1>dl DEF ReleaseGlobal, Walk
    <3>3. ASSUME NEW b \in Buckets
          PROVE  checked'[s][b] = IF b = idx[s] THEN None ELSE checked[s][b]
      BY Zenon, <3>2, <1>db, <3>1
    <3>4a. InRange(s)'
      BY <3>1, <3>2, <2>0, <2>1, <1>rng DEF InRange, Loops
    <3>4b. Room(s)'
      BY Zenon, <3>1, <3>2, <2>0, <2>1, <1>room DEF Room
    <3>4c. Chain(s)'
      BY Zenon, <3>1, <3>2, <2>0, <2>1, <1>chn DEF Chain
    <3>5. HeldOf(s)'
      <4> SUFFICES ASSUME NEW b \in Buckets
                   PROVE  /\ pc'[s] \in {"idle", "wait"} => checked'[s][b] = None
                          /\ pc'[s] = "release" => (b < idx'[s] => checked'[s][b] = None)
        BY Zenon, <3>2, <2>0 DEF HeldOf
      <4>1. b <= idx[s] => checked'[s][b] = None
        BY <3>1, <3>3, <2>1, <1>held, <1>rng DEF HeldOf
      <4> QED BY <4>1, <3>1, <3>2, <2>0
    <3>6. Prefix(s)'
      <4> SUFFICES ASSUME pc'[s] = "release", NEW b \in Buckets, NEW d \in Buckets,
                          idx'[s] <= b, b <= d, checked'[s][b] = None
                   PROVE  checked'[s][d] = None
        BY Zenon DEF Prefix
      <4>1. idx[s] < N /\ idx[s] < b /\ idx[s] < d
        BY <3>1, <3>2, <2>0
      <4>2. checked'[s][b] = checked[s][b] /\ checked'[s][d] = checked[s][d]
        BY <4>1, <3>3
      <4> QED BY <4>1, <4>2, <3>1, <2>1, <1>pre, <1>rng DEF Prefix
    <3> QED BY Zenon, <3>4a, <3>4b, <3>4c, <3>5, <3>6 DEF StreamInv
  <2> QED BY Zenon, <2>2, <2>3
<1>7. CASE SetAdvance(s)
  <2>1. pc[s] = "advance" /\ idx[s] \in Buckets /\ N > 0
    BY <1>7, <1>rng DEF SetAdvance, InRange, Loops
  <2>2. checked[s][idx[s]] # None
    BY <2>1, <1>held, <1>rng DEF HeldOf
  <2>3. /\ checked'[s] = [checked[s] EXCEPT ![idx[s]] = None]
        /\ idx'[s] = IF idx[s] < N THEN idx[s] + 1 ELSE 1
        /\ pc'[s] = IF idx[s] < N THEN "advance" ELSE "idle"
        /\ max_bytes'[s] = max_bytes[s] /\ cur_bytes'[s] = cur_bytes[s]
    BY Zenon, <1>7, <2>2, <1>dp, <1>da, <1>dl DEF SetAdvance, Walk
  <2>4. ASSUME NEW b \in Buckets
        PROVE  checked'[s][b] = IF b = idx[s] THEN None ELSE checked[s][b]
    BY Zenon, <2>3, <1>db, <2>1
  <2>5a. InRange(s)'
    BY <2>1, <2>3, <1>rng DEF InRange, Loops
  <2>5b. Room(s)'
    BY Zenon, <2>1, <2>3, <1>room DEF Room
  <2>5c. Chain(s)'
    <3>1. idx[s] < N => size'[s] = size[s]
      BY <1>7, <2>3 DEF SetAdvance, DropLocals
    <3>2. \A b \in Buckets : b >= idx[s] => size[s] <= checked[s][b]
      BY Zenon, <2>1, <1>chn DEF Chain
    <3> QED BY <3>1, <3>2, <2>1, <2>3, <2>4 DEF Chain
  <2>5d. Prefix(s)'
    BY Zenon, <2>1, <2>3, <1>pre DEF Prefix
  <2>6. HeldOf(s)'
    BY <2>1, <2>3, <2>4, <1>held, <1>rng DEF HeldOf
  <2> QED BY Zenon, <2>5a, <2>5b, <2>5c, <2>5d, <2>6 DEF StreamInv
<1>8. CASE Wake(s)
  <2>1. /\ pc[s] = "wait" /\ pc'[s] = "idle" /\ idx'[s] = 1 /\ checked'[s] = checked[s]
        /\ max_bytes'[s] = max_bytes[s] /\ cur_bytes'[s] = cur_bytes[s]
    BY Zenon, <1>8, <1>dp, <1>da, <1>dl DEF Wake, Goto
  <2>2a. InRange(s)'
    BY <2>1, <1>rng DEF InRange, Loops
  <2>2b. Room(s)'
    BY Zenon, <2>1, <1>room DEF Room
  <2>2c. Chain(s)'
    BY Zenon, <2>1, <1>chn DEF Chain
  <2>2d. Prefix(s)'
    BY Zenon, <2>1, <1>pre DEF Prefix
  <2>3. HeldOf(s)'
    BY Zenon, <2>1, <1>held, <1>rng DEF HeldOf
  <2> QED BY Zenon, <2>2a, <2>2b, <2>2c, <2>2d, <2>3 DEF StreamInv
<1>9. CASE NextSlice(s)
  <2>1. Frame(s)
    BY Zenon, <1>9 DEF NextSlice, Frame
  <2> QED BY Zenon, <2>1, FrameKeeps DEF IInv
<1>10. ASSUME NEW m \in Windows(s), ResetLocal(s, m) PROVE StreamInv(s)'
  <2>1. /\ pc[s] \in {"idle", "wait"} /\ pc'[s] = pc[s] /\ idx'[s] = idx[s]
        /\ checked'[s] = checked[s] /\ cur_bytes'[s] = 0 /\ max_bytes'[s] = m
    BY Zenon, <1>10, <1>dp, <1>da, <1>dl DEF ResetLocal
  <2>2. m \in Nat \cup {None}
    BY Zenon, WindowFact
  <2>2a. InRange(s)'
    BY Zenon, <2>1, <1>rng DEF InRange, Loops
  <2>2b. Room(s)'
    BY <2>1, <2>2 DEF Room
  <2>2c. Chain(s)'
    BY Zenon, <2>1, <1>chn DEF Chain
  <2>2d. Prefix(s)'
    BY Zenon, <2>1, <1>pre DEF Prefix
  <2>3. HeldOf(s)'
    BY Zenon, <2>1, <1>held, <1>rng DEF HeldOf
  <2> QED BY Zenon, <2>2a, <2>2b, <2>2c, <2>2d, <2>3 DEF StreamInv
<1> QED BY Zenon, <1>1, <1>2, <1>3, <1>4, <1>5, <1>6, <1>7, <1>8, <1>9, <1>10 DEF StreamStep

-----------------------------------------------------------------------------
(* The invariant *)

\* The buckets and the streams start within the invariant
LEMMA InitIInv == Init => IInv
<1> SUFFICES ASSUME Init PROVE IInv
  OBVIOUS
<1>1. BucketTypes
  BY Zenon, StreamLimitAssumption DEF Init, BucketTypes
<1>2. PollTypes
  BY DEF Init, PollTypes
<1>3. AmountTypes
  BY Zenon DEF Init, AmountTypes
<1>4. LocalTypes
  <2>1. \A s \in Streams : max_bytes[s] \in Nat \cup {None}
    BY Zenon, WindowFact DEF Init
  <2>2. max_bytes \in [Streams -> Nat \cup {None}]
    BY Zenon, <2>1 DEF Init
  <2> QED BY Zenon, <2>2 DEF Init, LocalTypes
<1>5. BurstKept
  BY Zenon, StreamLimitAssumption DEF Init, BurstKept
<1>6. ASSUME NEW s \in Streams PROVE StreamInv(s)
  <2>1. pc[s] = "idle" /\ idx[s] = 1 /\ cur_bytes[s] = 0
    BY Zenon DEF Init
  <2>2. \A b \in Buckets : checked[s][b] = None
    BY Zenon DEF Init
  <2>3. max_bytes[s] \in Nat \cup {None}
    BY Zenon, <1>4 DEF LocalTypes
  <2>4. Room(s)
    BY <2>1, <2>3 DEF Room
  <2>5. InRange(s) /\ Chain(s) /\ HeldOf(s) /\ Prefix(s)
    BY <2>1, <2>2 DEF InRange, Chain, HeldOf, Prefix, Loops
  <2> QED BY Zenon, <2>4, <2>5 DEF StreamInv
<1> QED BY Zenon, <1>1, <1>2, <1>3, <1>4, <1>5, <1>6 DEF IInv, TypeOK

\* Replenishing adds with the loaded configuration, within its burst
LEMMA ReplenishKeeps ==
  ASSUME IInv, NEW b \in Buckets, ReplenishBytes(b)
  PROVE  IInv'
<1> DEFINE c == loaded[b]
<1>1. c \in Configs /\ MaxBurst[c] \in Nat /\ Replenish[c] \in Nat /\ tokens[b] \in Nat
  BY Zenon, ConfigFact DEF IInv, TypeOK, BucketTypes
<1> DEFINE n == AddBytes(tokens[b], Replenish[c], MaxBurst[c])
<1>2. n \in Nat /\ (n <= tokens[b] \/ n <= MaxBurst[c])
  BY Zenon, <1>1, AddBytesFact
<1>3. tokens' = [tokens EXCEPT ![b] = n]
  BY Zenon DEF ReplenishBytes
<1>4. BucketTypes'
  <2>1. tokens' \in [Buckets -> Nat]
    BY Zenon, <1>2, <1>3 DEF IInv, TypeOK, BucketTypes
  <2>2. loaded' \in [Buckets -> Configs]
    BY Zenon DEF ReplenishBytes, IInv, TypeOK, BucketTypes
  <2>3. config' = config /\ updates' = updates
    BY Zenon DEF ReplenishBytes
  <2> QED BY Zenon, <2>1, <2>2, <2>3 DEF IInv, TypeOK, BucketTypes
<1>5. PollTypes' /\ AmountTypes' /\ LocalTypes'
  BY Zenon DEF ReplenishBytes, IInv, TypeOK, PollTypes, AmountTypes, LocalTypes, localVars
<1> HIDE DEF c, n
<1>6. BurstKept'
  <2> SUFFICES ASSUME NEW d \in Buckets
               PROVE  \E e \in Configs : tokens'[d] <= MaxBurst[e]
    BY Zenon DEF BurstKept
  <2>1. PICK e \in Configs : tokens[d] <= MaxBurst[e]
    BY Zenon DEF IInv, BurstKept
  <2>2. tokens[d] \in Nat /\ MaxBurst[e] \in Nat
    BY Zenon, ConfigFact DEF IInv, TypeOK, BucketTypes
  <2>3. tokens'[d] = IF d = b THEN n ELSE tokens[d]
    BY Zenon, <1>3 DEF IInv, TypeOK, BucketTypes
  <2> QED BY <1>1, <1>2, <2>1, <2>2, <2>3
<1>7. ASSUME NEW r \in Streams PROVE StreamInv(r)'
  <2>1. Frame(r)
    BY Zenon DEF ReplenishBytes, Frame
  <2> QED BY Zenon, <2>1, FrameKeeps DEF IInv
<1> QED BY Zenon, <1>4, <1>5, <1>6, <1>7 DEF IInv, TypeOK

\* An update of a bucket leaves its tokens alone
LEMMA UpdateKeeps ==
  ASSUME IInv, NEW b \in Buckets, NEW c \in Configs, Update(b, c)
  PROVE  IInv'
<1>1. BucketTypes'
  BY DEF Update, IInv, TypeOK, BucketTypes
<1>2. PollTypes' /\ AmountTypes' /\ LocalTypes'
  BY Zenon DEF Update, IInv, TypeOK, PollTypes, AmountTypes, LocalTypes, localVars
<1>3. BurstKept'
  BY Zenon DEF Update, IInv, BurstKept
<1>4. ASSUME NEW r \in Streams PROVE StreamInv(r)'
  <2>1. Frame(r)
    BY Zenon DEF Update, Frame
  <2> QED BY Zenon, <2>1, FrameKeeps DEF IInv
<1> QED BY Zenon, <1>1, <1>2, <1>3, <1>4 DEF IInv, TypeOK

\* A step that changes nothing
LEMMA StutterKeeps ==
  ASSUME IInv, UNCHANGED vars
  PROVE  IInv'
<1>1. BucketTypes' /\ PollTypes' /\ AmountTypes' /\ LocalTypes' /\ BurstKept'
  BY Zenon DEF vars, IInv, TypeOK, BucketTypes, PollTypes, AmountTypes, LocalTypes, BurstKept
<1>2. ASSUME NEW r \in Streams PROVE StreamInv(r)'
  <2>1. Frame(r)
    BY Zenon DEF vars, Frame
  <2> QED BY Zenon, <2>1, FrameKeeps DEF IInv
<1> QED BY Zenon, <1>1, <1>2 DEF IInv, TypeOK

\* Every step keeps the invariant
LEMMA NextIInv == IInv /\ [Next]_vars => IInv'
<1> SUFFICES ASSUME IInv, [Next]_vars PROVE IInv'
  OBVIOUS
<1>1. ASSUME NEW s \in Streams, StreamStep(s) PROVE IInv'
  <2>1. TypeOK' /\ BurstKept'
    BY Zenon, <1>1, StreamTypes
  <2>2. ASSUME NEW r \in Streams PROVE StreamInv(r)'
    <3>1. CASE r = s
      BY Zenon, <1>1, <3>1, StreamKeeps
    <3>2. CASE r # s
      <4>1. Frame(r)
        BY Zenon, <1>1, <3>2, StepFrame DEF IInv
      <4> QED BY Zenon, <4>1, FrameKeeps DEF IInv
    <3> QED BY Zenon, <3>1, <3>2
  <2> QED BY Zenon, <2>1, <2>2 DEF IInv
<1>2. ASSUME NEW b \in Buckets, ReplenishBytes(b) PROVE IInv'
  BY Zenon, <1>2, ReplenishKeeps
<1>3. ASSUME NEW b \in Buckets, NEW c \in Configs, Update(b, c) PROVE IInv'
  BY Zenon, <1>3, UpdateKeeps
<1>4. CASE UNCHANGED vars
  BY Zenon, <1>4, StutterKeeps
<1> QED BY Zenon, <1>1, <1>2, <1>3, <1>4 DEF Next

\* The invariant holds in every behaviour
LEMMA Invariant == Spec => []IInv
BY InitIInv, NextIInv, PTL DEF Spec

\* No subtraction of try_consume, check() or set_advance() goes below zero,
\* whatever the streams, buckets and sizes.
THEOREM TypeCorrect == Spec => []TypeOK
<1>1. IInv => TypeOK
  BY Zenon DEF IInv
<1> QED BY <1>1, Invariant, PTL

\* A bucket never holds more than the largest burst it was configured with,
\* although its replenish task may add with a configuration that was replaced.
THEOREM BurstCorrect == Spec => []BurstKept
<1>1. IInv => BurstKept
  BY Zenon DEF IInv
<1> QED BY <1>1, Invariant, PTL

\* The loops over the buckets may stop at the first that holds nothing, the
\* unwrap of "shrink in time" cannot fail, and between polls nothing is held.
THEOREM HeldCorrect == Spec => []HeldIsRange
<1>1. IInv => HeldIsRange
  BY Zenon DEF IInv, StreamInv, HeldOf, HeldIsRange
<1> QED BY <1>1, Invariant, PTL

\* Every bucket is charged with the size the inner stream is polled with.
THEOREM ChargedCorrect == Spec => []ChargedAlike
<1>1. IInv => ChargedAlike
  BY Zenon DEF IInv, StreamInv, Chain, ChargedAlike
<1> QED BY <1>1, Invariant, PTL

-----------------------------------------------------------------------------
(* The rate *)

\* What a stream that does not step holds stays as it is
LEMMA FrameHeld ==
  ASSUME NEW r \in Streams, NEW b \in Buckets, Frame(r)
  PROVE  Held(r, b)' = Held(r, b)
BY Zenon DEF Held, Frame

\* Giving back n adds at most n to one bucket and nothing to the others
LEMMA ReleaseAdds ==
  ASSUME TypeOK, NEW b \in Buckets, NEW n \in Nat, Release(b, n), NEW d \in Buckets
  PROVE  /\ tokens'[d] \in Nat /\ tokens[d] \in Nat
         /\ d = b => tokens'[d] <= tokens[d] + n
         /\ d # b => tokens'[d] = tokens[d]
<1>1. tokens[b] \in Nat /\ tokens[d] \in Nat /\ MaxBurst[config[b]] \in Nat
  BY Zenon, ConfigFact DEF TypeOK, BucketTypes
<1> DEFINE m == AddBytes(tokens[b], n, MaxBurst[config[b]])
<1>2. m \in Nat /\ m <= tokens[b] + n
  BY Zenon, <1>1, AddBytesFact
<1>3. tokens'[d] = IF d = b THEN m ELSE tokens[d]
  BY Zenon DEF Release, TypeOK, BucketTypes
<1> HIDE DEF m
<1> QED BY <1>1, <1>2, <1>3

\* A step of a stream never adds to the tokens of a bucket and what it holds
LEMMA RateStep ==
  ASSUME IInv, NEW s \in Streams, StreamStep(s), NEW d \in Buckets
  PROVE  tokens'[d] + Held(s, d)' <= tokens[d] + Held(s, d)
<1>ty. /\ tokens[d] \in Nat /\ size[s] \in Nat
       /\ \A b \in Buckets : checked[s][b] \in Nat \cup {None}
  BY Zenon DEF IInv, TypeOK, BucketTypes, AmountTypes
<1>pos. N > 0 /\ N \in Nat /\ d \in 1..N
  OBVIOUS
<1>rng. pc[s] \in Loops => idx[s] \in Buckets
  BY <1>pos DEF IInv, StreamInv, InRange
<1>dom. /\ checked[s] = [b \in Buckets |-> checked[s][b]]
        /\ DOMAIN checked = Streams /\ DOMAIN size = Streams
        /\ DOMAIN tokens = Buckets /\ DOMAIN pc = Streams
  BY DEF IInv, TypeOK, BucketTypes, PollTypes, AmountTypes
<1>h. Held(s, d) \in Int
  BY <1>ty DEF Held
<1>same. ASSUME tokens'[d] = tokens[d], Held(s, d)' = Held(s, d)
         PROVE  tokens'[d] + Held(s, d)' <= tokens[d] + Held(s, d)
  BY <1>same, <1>ty, <1>h
<1>1. ASSUME NEW n \in Sizes, Poll(s, n) PROVE tokens' = tokens /\ Held(s, d)' = Held(s, d)
  <2>1. tokens' = tokens /\ checked' = checked /\ pc[s] = "idle"
    BY Zenon, <1>1 DEF Poll
  <2>2. checked[s][d] = None
    BY Zenon, <2>1 DEF IInv, StreamInv, HeldOf
  <2> QED BY Zenon, <2>1, <2>2 DEF Held
<1>2. CASE Check(s)
  <2>1. pc[s] = "check" /\ idx[s] \in Buckets
    BY <1>2, <1>rng DEF Check, Loops
  <2>2. CASE tokens[idx[s]] = 0
    <3>1. tokens' = tokens /\ checked' = checked /\ pc'[s] = "release"
      BY Zenon, <1>2, <2>2, <1>dom DEF Check, Goto
    <3>2. Held(s, d)' = Held(s, d)
      BY <3>1, <2>1 DEF Held
    <3> QED BY Zenon, <3>1, <3>2, <1>same
  <2>3. CASE tokens[idx[s]] # 0
    <3> DEFINE n == TryConsume(tokens[idx[s]], size[s])
    <3>0. tokens[idx[s]] \in Nat
      BY Zenon, <2>1 DEF IInv, TypeOK, BucketTypes
    <3>1. n \in Nat
      BY Zenon, <3>0, <1>ty, TryConsumeFact
    <3>2. /\ tokens' = [tokens EXCEPT ![idx[s]] = tokens[idx[s]] - n]
          /\ checked' = [checked EXCEPT ![s][idx[s]] = n]
          /\ pc'[s] \in {"check", "shrink", "inner"}
      BY Zenon, <1>2, <2>3, <1>dom DEF Check, Walk, n
    <3> HIDE DEF n
    <3>3. checked[s][idx[s]] = None
      BY <2>1 DEF IInv, StreamInv, HeldOf
    <3>4. checked'[s][d] = IF d = idx[s] THEN n ELSE checked[s][d]
      BY Zenon, <3>2, <1>dom
    <3>5. tokens'[d] = IF d = idx[s] THEN tokens[idx[s]] - n ELSE tokens[d]
      BY Zenon, <3>2, <1>dom
    <3>6. CASE d = idx[s]
      <4>1. Held(s, d) = 0 /\ Held(s, d)' = n
        BY <3>1, <3>2, <3>3, <3>4, <3>6 DEF Held
      <4> QED BY <4>1, <3>5, <3>6, <3>0, <3>1
    <3>7. CASE d # idx[s]
      <4>1. Held(s, d)' = Held(s, d)
        BY <3>2, <3>4, <3>7, <2>1 DEF Held
      <4> QED BY Zenon, <4>1, <3>5, <3>7, <1>same
    <3> QED BY Zenon, <3>6, <3>7
  <2> QED BY Zenon, <2>2, <2>3
<1>3. CASE Shrink(s)
  <2>1. pc[s] = "shrink" /\ idx[s] \in Buckets
    BY <1>3, <1>rng DEF Shrink, Loops
  <2>2. checked' = [checked EXCEPT ![s][idx[s]] = size[s]] /\ pc'[s] \in {"shrink", "inner"}
    BY Zenon, <1>3, <1>dom DEF Shrink, Walk
  <2>3. checked'[s][d] = IF d = idx[s] THEN size[s] ELSE checked[s][d]
    BY Zenon, <2>2, <1>dom
  <2>4. \A b \in Buckets : checked[s][b] # None /\ size[s] <= checked[s][b]
    BY Zenon, <2>1 DEF IInv, StreamInv, HeldOf, Chain
  <2>5. \A b \in Buckets : checked[s][b] \in Nat
    BY Zenon, <2>4, <1>ty
  <2>6. Held(s, d) = checked[s][d]
    BY <2>1, <2>4 DEF Held
  <2>7. Held(s, d)' = checked'[s][d]
    BY <2>2, <2>3, <2>4, <1>ty DEF Held
  <2>8. CASE checked[s][idx[s]] > size[s]
    <3>1. checked[s][idx[s]] - size[s] \in Nat
      BY <2>1, <2>5, <2>8, <1>ty
    <3>2. Release(idx[s], checked[s][idx[s]] - size[s])
      BY Zenon, <1>3, <2>8 DEF Shrink
    <3>3. /\ tokens'[d] \in Nat
          /\ d = idx[s] => tokens'[d] <= tokens[d] + (checked[s][idx[s]] - size[s])
          /\ d # idx[s] => tokens'[d] = tokens[d]
      BY Zenon, <3>1, <3>2, <2>1, ReleaseAdds DEF IInv
    <3> QED BY <3>3, <2>3, <2>5, <2>6, <2>7, <1>ty
  <2>9. CASE ~(checked[s][idx[s]] > size[s])
    <3>1. tokens' = tokens
      BY Zenon, <1>3, <2>9 DEF Shrink
    <3> QED BY <3>1, <2>1, <2>3, <2>4, <2>5, <2>6, <2>7, <1>ty
  <2> QED BY Zenon, <2>8, <2>9
<1>4. ASSUME NEW n \in 0..size[s], InnerReady(s, n)
      PROVE  tokens'[d] + Held(s, d)' <= tokens[d] + Held(s, d)
  <2>1. tokens' = tokens /\ checked' = checked /\ pc[s] = "inner"
        /\ size'[s] = n /\ pc'[s] = "advance"
    BY <1>4, <1>dom, <1>pos DEF InnerReady, Goto, bucketVars
  <2>2. checked[s][d] = size[s]
    BY Zenon, <2>1 DEF IInv, StreamInv, Chain
  <2>3. Held(s, d) = size[s]
    BY <2>1, <2>2, <1>ty DEF Held
  <2>4. Held(s, d)' = size[s] - n
    BY <2>1, <2>2, <1>ty DEF Held
  <2>5. n \in Nat
    BY <1>ty
  <2> QED BY <2>1, <2>3, <2>4, <2>5, <1>ty
<1>5. CASE InnerFails(s) \/ InnerPending(s)
  <2>1. tokens' = tokens /\ checked' = checked /\ pc[s] = "inner" /\ pc'[s] = "release"
    BY Zenon, <1>5, <1>dom DEF InnerFails, InnerPending, Goto, bucketVars
  <2>2. Held(s, d)' = Held(s, d)
    BY <2>1 DEF Held
  <2> QED BY Zenon, <2>1, <2>2, <1>same
<1>6. CASE ReleaseGlobal(s)
  <2>1. pc[s] = "release" /\ idx[s] \in Buckets /\ N # 0
    BY <1>6, <1>rng, <1>pos DEF ReleaseGlobal, Loops
  <2>2. pc'[s] \in {"release", "idle", "wait"}
    <3>1. after[s] \in {"idle", "wait"}
      BY Zenon DEF IInv, TypeOK, PollTypes
    <3> QED BY Zenon, <1>6, <3>1, <1>dom DEF ReleaseGlobal, Goto, Walk
  <2>3. CASE checked[s][idx[s]] = None
    <3>1. tokens' = tokens /\ checked' = checked
      BY Zenon, <1>6, <2>3 DEF ReleaseGlobal
    <3>2. Held(s, d)' = Held(s, d)
      BY <3>1, <2>1, <2>2 DEF Held
    <3> QED BY Zenon, <3>1, <3>2, <1>same
  <2>4. CASE checked[s][idx[s]] # None
    <3>1. checked[s][idx[s]] \in Nat
      BY Zenon, <2>1, <2>4, <1>ty
    <3>2. Release(idx[s], checked[s][idx[s]]) /\ checked' = [checked EXCEPT ![s][idx[s]] = None]
      BY Zenon, <1>6, <2>1, <2>4 DEF ReleaseGlobal
    <3>3. /\ tokens'[d] \in Nat
          /\ d = idx[s] => tokens'[d] <= tokens[d] + checked[s][idx[s]]
          /\ d # idx[s] => tokens'[d] = tokens[d]
      BY Zenon, <3>1, <3>2, <2>1, ReleaseAdds DEF IInv
    <3>4. checked'[s][d] = IF d = idx[s] THEN None ELSE checked[s][d]
      BY Zenon, <3>2, <1>dom
    <3>5. CASE d = idx[s]
      <4>1. Held(s, d) = checked[s][d] /\ Held(s, d)' = 0
        BY <3>4, <3>5, <2>1, <2>4 DEF Held
      <4> QED BY <4>1, <3>1, <3>3, <3>5, <1>ty
    <3>6. CASE d # idx[s]
      <4>1. Held(s, d)' = Held(s, d)
        BY <3>4, <3>6, <2>1, <2>2 DEF Held
      <4> QED BY Zenon, <4>1, <3>3, <3>6, <1>same
    <3> QED BY Zenon, <3>5, <3>6
  <2> QED BY Zenon, <2>3, <2>4
<1>7. CASE SetAdvance(s)
  <2>1. pc[s] = "advance" /\ idx[s] \in Buckets
    BY <1>7, <1>rng DEF SetAdvance, Loops
  <2>2. \A b \in Buckets : (checked[s][b] # None) <=> (b >= idx[s])
    BY Zenon, <2>1 DEF IInv, StreamInv, HeldOf
  <2>3. checked[s][idx[s]] # None
    BY <2>1, <2>2
  <2>4. /\ checked' = [checked EXCEPT ![s][idx[s]] = None]
        /\ pc'[s] = IF idx[s] < N THEN "advance" ELSE "idle"
    BY Zenon, <1>7, <2>3, <1>dom DEF SetAdvance, Walk
  <2>5. checked'[s][d] = IF d = idx[s] THEN None ELSE checked[s][d]
    BY Zenon, <2>4, <1>dom
  <2>6. idx[s] < N => size' = size
    BY <1>7, <2>4 DEF SetAdvance, DropLocals
  <2>7. CASE d # idx[s]
    <3>1. Held(s, d)' = Held(s, d)
      <4>1. CASE idx[s] < N
        BY <4>1, <2>1, <2>4, <2>5, <2>6, <2>7 DEF Held
      <4>2. CASE ~(idx[s] < N)
        <5>1. checked[s][d] = None
          BY <4>2, <2>1, <2>2, <2>7
        <5> QED BY Zenon, <5>1, <2>5, <2>7 DEF Held
      <4> QED BY Zenon, <4>1, <4>2
    <3>2. tokens'[d] = tokens[d]
      <4>1. CASE checked[s][idx[s]] > size[s]
        <5>1. checked[s][idx[s]] - size[s] \in Nat
          BY <4>1, <2>1, <2>3, <1>ty
        <5>2. Release(idx[s], checked[s][idx[s]] - size[s])
          BY Zenon, <1>7, <2>3, <4>1 DEF SetAdvance
        <5> QED BY Zenon, <5>1, <5>2, <2>1, <2>7, ReleaseAdds DEF IInv
      <4>2. CASE ~(checked[s][idx[s]] > size[s])
        BY Zenon, <1>7, <2>3, <4>2 DEF SetAdvance
      <4> QED BY Zenon, <4>1, <4>2
    <3> QED BY Zenon, <3>1, <3>2, <1>same
  <2>8. CASE d = idx[s]
    <3>1. checked[s][d] \in Nat /\ size[s] <= checked[s][d]
      <4>1. checked[s][d] \in Nat
        BY Zenon, <2>3, <2>8, <1>ty
      <4>2. \A b \in Buckets : b >= idx[s] => size[s] <= checked[s][b]
        BY Zenon, <2>1 DEF IInv, StreamInv, Chain
      <4> QED BY <4>1, <4>2, <2>1, <2>8
    <3>2. Held(s, d) = checked[s][d] - size[s] /\ Held(s, d)' = 0
      BY <2>1, <2>3, <2>5, <2>8 DEF Held
    <3>3. tokens'[d] \in Nat /\ tokens'[d] <= tokens[d] + (checked[s][d] - size[s])
      <4>1. CASE checked[s][idx[s]] > size[s]
        <5>1. checked[s][idx[s]] - size[s] \in Nat
          BY <3>1, <2>8, <1>ty
        <5>2. Release(idx[s], checked[s][idx[s]] - size[s])
          BY Zenon, <1>7, <2>3, <4>1 DEF SetAdvance
        <5> QED BY Zenon, <5>1, <5>2, <2>1, <2>8, ReleaseAdds DEF IInv
      <4>2. CASE ~(checked[s][idx[s]] > size[s])
        <5>1. tokens' = tokens
          BY Zenon, <1>7, <2>3, <4>2 DEF SetAdvance
        <5> QED BY <5>1, <3>1, <1>ty
      <4> QED BY Zenon, <4>1, <4>2
    <3> QED BY <3>1, <3>2, <3>3, <1>ty
  <2> QED BY Zenon, <2>7, <2>8
<1>8. CASE Wake(s)
  <2>1. tokens' = tokens /\ checked' = checked /\ pc[s] = "wait"
    BY Zenon, <1>8 DEF Wake
  <2>2. checked[s][d] = None
    BY Zenon, <2>1 DEF IInv, StreamInv, HeldOf
  <2>3. Held(s, d)' = Held(s, d)
    BY Zenon, <2>1, <2>2 DEF Held
  <2> QED BY Zenon, <2>1, <2>3, <1>same
<1>9. CASE NextSlice(s) \/ \E m \in Windows(s) : ResetLocal(s, m)
  <2>1. tokens' = tokens /\ checked' = checked /\ pc' = pc /\ size' = size
    BY Zenon, <1>9 DEF NextSlice, ResetLocal
  <2>2. Held(s, d)' = Held(s, d)
    BY Zenon, <2>1 DEF Held
  <2> QED BY Zenon, <2>1, <2>2, <1>same
<1> QED BY Zenon, <1>1, <1>2, <1>3, <1>4, <1>5, <1>6, <1>7, <1>8, <1>9, <1>same DEF StreamStep

\* No bucket lets more through than it was given: a step of a stream never adds
\* to the tokens of a bucket and what the stream holds of them (check,
\* set_advance, release_global), and never touches what another stream holds.
THEOREM RateCorrect == Spec => RateKept
<1>1. ASSUME IInv, NEW s \in Streams, NEW b \in Buckets, StreamStep(s)
      PROVE  /\ tokens'[b] + Held(s, b)' <= tokens[b] + Held(s, b)
             /\ \A o \in Streams \ {s} : Held(o, b)' = Held(o, b)
  <2>1. ASSUME NEW o \in Streams, o # s PROVE Held(o, b)' = Held(o, b)
    BY Zenon, <1>1, <2>1, StepFrame, FrameHeld DEF IInv
  <2> QED BY Zenon, <1>1, <2>1, RateStep
<1>2. IInv => [\A s \in Streams, b \in Buckets :
                 StreamStep(s) =>
                   /\ tokens'[b] + Held(s, b)' <= tokens[b] + Held(s, b)
                   /\ \A o \in Streams \ {s} : Held(o, b)' = Held(o, b)]_vars
  BY Zenon, <1>1
<1> QED BY <1>2, Invariant, PTL DEF RateKept

\* The window of a stream never counts more than max_bytes.
THEOREM WindowCorrect == Spec => []WindowKept
<1>1. IInv => WindowKept
  BY Zenon DEF IInv, StreamInv, Room, WindowKept
<1> QED BY <1>1, Invariant, PTL

============================================================================
