---------------------------- MODULE StreamLimit ----------------------------
(***************************************************************************)
(* The speed limit of byte streams (lib/g3-io-ext/src/limit): token        *)
(* buckets shared by many streams (GlobalStreamLimiter), the window of one *)
(* stream (LocalStreamLimiter), the StreamLimiter that puts them in front  *)
(* of one another, and the LimitedWriter or LimitedReader that asks it     *)
(* before every poll of the inner stream.                                  *)
(*                                                                         *)
(* Streams are polled on different threads, and each access to a bucket is *)
(* one compare-exchange loop, so one step here is one such access:         *)
(* check() walks the buckets in order, and release_global(), set_advance() *)
(* and the "shrink in time" loop walk them again.                          *)
(***************************************************************************)
EXTENDS Integers

CONSTANTS Streams,      \* limited streams
          N,            \* number of shared buckets, in the order of the Vec
          Configs,      \* configurations a bucket may be given
          FirstConfig,  \* the one it is created with
          Replenish,    \* replenish_bytes of each configuration
          MaxBurst,     \* max_burst_bytes of each configuration
          WindowSizes,  \* max_bytes the local window of each stream may be given
          Sizes,        \* sizes of the buffers the streams are polled with
          UpdateCap     \* bound on updates of a bucket's configuration

Buckets == 1..N
None == -1

ASSUME StreamLimitAssumption ==
  /\ N \in Nat
  /\ FirstConfig \in Configs
  /\ Replenish \in [Configs -> Nat \ {0}]
  /\ MaxBurst \in [Configs -> Nat]
  /\ \A c \in Configs : MaxBurst[c] >= Replenish[c]
  /\ WindowSizes \in [Streams -> SUBSET Nat]
  /\ Sizes \subseteq Nat
  /\ UpdateCap \in Nat

VARIABLES
  tokens,     \* byte_tokens of each bucket
  config,     \* configuration of each bucket
  loaded,     \* the one its replenish task loaded before it went to sleep
  updates,    \* updates made to each bucket
  pc,         \* where each stream is
  idx,        \* the bucket its loop is at
  target,     \* size asked of check()
  size,       \* to_advance in check(), then the size given to set_advance()
  checked,    \* checked_bytes of each stream in each bucket
  after,      \* where the stream goes once its buckets are released
  max_bytes,  \* of the local window, None when local_is_set is false
  cur_bytes,  \* bytes counted in the local window
  new_slice   \* whether the clock left the time slice of cur_bytes

bucketVars == <<tokens, config, loaded, updates>>
localVars == <<max_bytes, cur_bytes, new_slice>>
vars == <<tokens, config, loaded, updates, pc, idx, target, size, checked,
          after, max_bytes, cur_bytes, new_slice>>

----------------------------------------------------------------------------
(* GlobalStreamLimiter *)

\* add_bytes: tokens above the burst are not added
AddBytes(t, n, burst) ==
  IF t >= burst THEN t ELSE IF t + n <= burst THEN t + n ELSE burst

\* try_consume: what a bucket that is not empty gives to a request of n
TryConsume(t, n) == IF t >= n THEN n ELSE t

Release(b, n) ==
  tokens' = [tokens EXCEPT ![b] = AddBytes(@, n, MaxBurst[config[b]])]

\* One round of the replenish task: the sleep that began with the loaded
\* configuration ends, and the next round loads the current one.
ReplenishBytes(b) ==
  LET c == loaded[b] IN
  /\ tokens' = [tokens EXCEPT ![b] = AddBytes(@, Replenish[c], MaxBurst[c])]
  /\ loaded' = [loaded EXCEPT ![b] = config[b]]
  /\ UNCHANGED <<config, updates, pc, idx, target, size, checked, after,
                 localVars>>

Update(b, c) ==
  /\ updates[b] < UpdateCap
  /\ c # config[b]
  /\ config' = [config EXCEPT ![b] = c]
  /\ updates' = [updates EXCEPT ![b] = @ + 1]
  /\ UNCHANGED <<tokens, loaded, pc, idx, target, size, checked, after,
                 localVars>>

----------------------------------------------------------------------------
(* LocalStreamLimiter *)

\* The bytes of the window once check() saw that the slice is another one.
WindowBytes(s) == IF new_slice[s] THEN 0 ELSE cur_bytes[s]

LocalCheck(s, n) ==
  IF max_bytes[s] = None THEN n
  ELSE LET left == max_bytes[s] - WindowBytes(s) IN IF n <= left THEN n ELSE left

LocalDelays(s) == max_bytes[s] # None /\ max_bytes[s] - WindowBytes(s) = 0

\* The clock leaves the slice in which bytes were counted.
NextSlice(s) ==
  /\ max_bytes[s] # None /\ cur_bytes[s] > 0
  /\ ~new_slice[s]
  /\ new_slice' = [new_slice EXCEPT ![s] = TRUE]
  /\ UNCHANGED <<bucketVars, pc, idx, target, size, checked, after,
                 max_bytes, cur_bytes>>

\* What the configuration makes of the window of a stream: it may be left out
Windows(s) == WindowSizes[s] \cup {None}

\* reset_local, called by the owner of the stream between two polls
ResetLocal(s, m) ==
  /\ pc[s] \in {"idle", "wait"}
  /\ max_bytes' = [max_bytes EXCEPT ![s] = m]
  /\ cur_bytes' = [cur_bytes EXCEPT ![s] = 0]
  /\ new_slice' = [new_slice EXCEPT ![s] = FALSE]
  /\ UNCHANGED <<bucketVars, pc, idx, target, size, checked, after>>

----------------------------------------------------------------------------
(* StreamLimiter::check *)

\* Where a loop over the buckets goes from bucket i.
Walk(s, here, i, done) ==
  /\ idx' = [idx EXCEPT ![s] = IF i < N THEN i + 1 ELSE 1]
  /\ pc' = [pc EXCEPT ![s] = IF i < N THEN here ELSE done]

Goto(s, label) ==
  /\ pc' = [pc EXCEPT ![s] = label]
  /\ idx' = [idx EXCEPT ![s] = 1]

\* The locals of check() and poll_write() end with the poll.
DropLocals(s) ==
  IF pc'[s] \in {"idle", "wait"}
    THEN /\ target' = [target EXCEPT ![s] = 0]
         /\ size' = [size EXCEPT ![s] = 0]
         /\ after' = [after EXCEPT ![s] = "idle"]
    ELSE UNCHANGED <<target, size, after>>

\* poll_write or poll_read with a buffer of n bytes, and check() up to the
\* local limiter
Poll(s, n) ==
  /\ pc[s] = "idle"
  /\ cur_bytes' = [cur_bytes EXCEPT ![s] = IF max_bytes[s] # None THEN WindowBytes(s) ELSE @]
  /\ new_slice' = [new_slice EXCEPT ![s] = IF max_bytes[s] # None THEN FALSE ELSE @]
  /\ IF LocalDelays(s)
       THEN /\ Goto(s, "wait")
            /\ UNCHANGED <<target, size>>
       ELSE /\ Goto(s, IF N = 0 THEN "inner" ELSE "check")
            /\ target' = [target EXCEPT ![s] = n]
            /\ size' = [size EXCEPT ![s] = LocalCheck(s, n)]
  /\ UNCHANGED <<bucketVars, checked, after, max_bytes>>

\* a bucket that has less than was asked for gives nothing
CheckAllOrNothing(s) ==
  LET b == idx[s]
      n == size[s] IN
  /\ pc[s] = "check"
  /\ IF tokens[b] < n
       THEN /\ Goto(s, "release")
            /\ after' = [after EXCEPT ![s] = "wait"]
            /\ UNCHANGED <<tokens, size, checked>>
       ELSE /\ tokens' = [tokens EXCEPT ![b] = @ - n]
            /\ checked' = [checked EXCEPT ![s][b] = n]
            /\ Walk(s, "check", b, IF target[s] > n THEN "shrink" ELSE "inner")
            /\ UNCHANGED <<size, after>>
  /\ UNCHANGED <<config, loaded, updates, target, localVars>>

Check(s) ==
  LET b == idx[s]
      n == TryConsume(tokens[b], size[s]) IN
  /\ pc[s] = "check"
  /\ IF tokens[b] = 0
       THEN /\ Goto(s, "release")
            /\ after' = [after EXCEPT ![s] = "wait"]
            /\ UNCHANGED <<tokens, size, checked>>
       ELSE /\ tokens' = [tokens EXCEPT ![b] = @ - n]
            /\ checked' = [checked EXCEPT ![s][b] = n]
            /\ size' = [size EXCEPT ![s] = n]
            /\ Walk(s, "check", b, IF target[s] > n THEN "shrink" ELSE "inner")
            /\ UNCHANGED after
  /\ UNCHANGED <<config, loaded, updates, target, localVars>>

ShrinkSkip(s) ==
  LET b == idx[s] IN
  /\ pc[s] = "shrink"
  /\ tokens' = tokens
  /\ checked' = checked
  /\ Walk(s, "shrink", b, "inner")
  /\ UNCHANGED <<config, loaded, updates, target, size, after, localVars>>

\* "shrink in time"
Shrink(s) ==
  LET b == idx[s] IN
  /\ pc[s] = "shrink"
  /\ IF checked[s][b] > size[s] THEN Release(b, checked[s][b] - size[s])
                                ELSE UNCHANGED tokens
  /\ checked' = [checked EXCEPT ![s][b] = size[s]]
  /\ Walk(s, "shrink", b, "inner")
  /\ UNCHANGED <<config, loaded, updates, target, size, after, localVars>>

----------------------------------------------------------------------------
(* LimitedWriter::poll_write, LimitedReader::poll_read *)

\* The inner stream took or gave n bytes: set_advance(n), the local part of it
InnerReady(s, n) ==
  /\ pc[s] = "inner"
  /\ n <= size[s]
  /\ size' = [size EXCEPT ![s] = n]
  /\ cur_bytes' = [cur_bytes EXCEPT ![s] = IF max_bytes[s] # None THEN @ + n ELSE @]
  /\ Goto(s, IF N = 0 THEN "idle" ELSE "advance")
  /\ UNCHANGED <<bucketVars, target, checked, after, max_bytes, new_slice>>

InnerFailsSilently(s) ==
  /\ pc[s] = "inner"
  /\ Goto(s, "idle")
  /\ UNCHANGED <<bucketVars, target, size, checked, after, localVars>>

\* The inner stream failed, or is not ready
InnerFails(s) ==
  /\ pc[s] = "inner"
  /\ Goto(s, "release")
  /\ after' = [after EXCEPT ![s] = "idle"]
  /\ UNCHANGED <<bucketVars, target, size, checked, localVars>>

InnerPending(s) ==
  /\ pc[s] = "inner"
  /\ Goto(s, "release")
  /\ after' = [after EXCEPT ![s] = "wait"]
  /\ UNCHANGED <<bucketVars, target, size, checked, localVars>>

ReleaseGlobalTwice(s) ==
  LET b == idx[s] IN
  /\ pc[s] = "release"
  /\ IF N = 0 \/ checked[s][b] = None
       THEN Goto(s, after[s]) /\ UNCHANGED tokens
       ELSE /\ Release(b, checked[s][b])
            /\ Walk(s, "release", b, after[s])
  /\ DropLocals(s)
  /\ UNCHANGED <<checked, config, loaded, updates, localVars>>

\* One bucket of release_global: the loop ends at the first that holds nothing
ReleaseGlobal(s) ==
  LET b == idx[s] IN
  /\ pc[s] = "release"
  /\ IF N = 0 \/ checked[s][b] = None
       THEN Goto(s, after[s]) /\ UNCHANGED <<tokens, checked>>
       ELSE /\ Release(b, checked[s][b])
            /\ checked' = [checked EXCEPT ![s][b] = None]
            /\ Walk(s, "release", b, after[s])
  /\ DropLocals(s)
  /\ UNCHANGED <<config, loaded, updates, localVars>>

\* One bucket of set_advance
SetAdvance(s) ==
  LET b == idx[s] IN
  /\ pc[s] = "advance"
  /\ IF checked[s][b] = None
       THEN Goto(s, "idle") /\ UNCHANGED <<tokens, checked>>
       ELSE /\ IF checked[s][b] > size[s]
                 THEN Release(b, checked[s][b] - size[s])
                 ELSE UNCHANGED tokens
            /\ checked' = [checked EXCEPT ![s][b] = None]
            /\ Walk(s, "advance", b, "idle")
  /\ DropLocals(s)
  /\ UNCHANGED <<config, loaded, updates, localVars>>

\* The timer fires, or the inner stream wakes the task, which polls again. A
\* timer may fire before the replenish task ran, or for a window that was reset.
Wake(s) ==
  /\ pc[s] = "wait"
  /\ Goto(s, "idle")
  /\ UNCHANGED <<bucketVars, target, size, checked, after, localVars>>

----------------------------------------------------------------------------

Init ==
  /\ tokens = [b \in Buckets |-> Replenish[FirstConfig]]
  /\ config = [b \in Buckets |-> FirstConfig]
  /\ loaded = [b \in Buckets |-> FirstConfig]
  /\ updates = [b \in Buckets |-> 0]
  /\ pc = [s \in Streams |-> "idle"]
  /\ idx = [s \in Streams |-> 1]
  /\ target = [s \in Streams |-> 0]
  /\ size = [s \in Streams |-> 0]
  /\ checked = [s \in Streams |-> [b \in Buckets |-> None]]
  /\ after = [s \in Streams |-> "idle"]
  /\ max_bytes \in [Streams -> UNION {Windows(s) : s \in Streams}]
  /\ \A s \in Streams : max_bytes[s] \in Windows(s)
  /\ cur_bytes = [s \in Streams |-> 0]
  /\ new_slice = [s \in Streams |-> FALSE]

StreamStep(s) ==
  \/ \E n \in Sizes : Poll(s, n)
  \/ Check(s)
  \/ Shrink(s)
  \/ \E n \in 0..size[s] : InnerReady(s, n)
  \/ InnerFails(s)
  \/ InnerPending(s)
  \/ ReleaseGlobal(s)
  \/ SetAdvance(s)
  \/ Wake(s)
  \/ NextSlice(s)
  \/ \E m \in Windows(s) : ResetLocal(s, m)

Next ==
  \/ \E s \in Streams : StreamStep(s)
  \/ \E b \in Buckets : ReplenishBytes(b)
  \/ \E b \in Buckets, c \in Configs : Update(b, c)

Spec == Init /\ [][Next]_vars

\* The replenish tasks and the clock go on, a task that was woken polls again,
\* a poll runs to its end, and the inner stream is ready again and again.
FairSpec ==
  /\ Spec
  /\ \A b \in Buckets : WF_vars(ReplenishBytes(b))
  /\ \A s \in Streams :
       /\ WF_vars(NextSlice(s))
       /\ WF_vars(\E n \in Sizes : Poll(s, n))
       /\ WF_vars(Check(s) \/ Shrink(s) \/ ReleaseGlobal(s) \/ SetAdvance(s) \/ Wake(s))
       /\ SF_vars(\E n \in 1..size[s] : InnerReady(s, n))

----------------------------------------------------------------------------
(* Properties *)

BucketTypes ==
  /\ tokens \in [Buckets -> Nat]
  /\ config \in [Buckets -> Configs]
  /\ loaded \in [Buckets -> Configs]
  /\ updates \in [Buckets -> Nat]

PollTypes ==
  /\ pc \in [Streams -> {"idle", "check", "shrink", "inner", "release",
                         "advance", "wait"}]
  /\ idx \in [Streams -> 1..(N + 1)]
  /\ after \in [Streams -> {"idle", "wait"}]

AmountTypes ==
  /\ target \in [Streams -> Nat]
  /\ size \in [Streams -> Nat]
  /\ checked \in [Streams -> [Buckets -> Nat \cup {None}]]

LocalTypes ==
  /\ max_bytes \in [Streams -> Nat \cup {None}]
  /\ cur_bytes \in [Streams -> Nat]
  /\ new_slice \in [Streams -> BOOLEAN]

\* The types of the variables: no subtraction of try_consume, check() or
\* set_advance() goes below zero.
TypeOK == BucketTypes /\ PollTypes /\ AmountTypes /\ LocalTypes

\* What a stream took from a bucket and neither moved nor gave back: in
\* set_advance() the bytes it moved are no longer held.
Held(s, b) ==
  CASE checked[s][b] = None -> 0
    [] checked[s][b] # None /\ pc[s] = "advance" -> checked[s][b] - size[s]
    [] OTHER -> checked[s][b]

\* No bucket lets more through than its replenish task gave it: a step of a
\* stream never adds to the tokens of a bucket together with what the stream
\* holds of it, and moving n bytes takes n from them (try_consume,
\* release_global, set_advance). What the others hold stays as it is.
RateKept ==
  [][\A s \in Streams, b \in Buckets :
       StreamStep(s) =>
         /\ tokens'[b] + Held(s, b)' <= tokens[b] + Held(s, b)
         /\ \A o \in Streams \ {s} : Held(o, b)' = Held(o, b)]_vars

\* A bucket never holds more than the largest max_burst_bytes it was given, with
\* replenish tasks that use a configuration loaded before an update (add_bytes).
BurstKept ==
  \A b \in Buckets : \E c \in Configs : tokens[b] <= MaxBurst[c]

\* The loops of check(), release_global() and set_advance() may stop at the first
\* bucket that holds nothing, and the unwrap in check() cannot fail: outside of
\* the loops nothing is held, in them exactly the buckets on one side of idx.
HeldIsRange ==
  \A s \in Streams, b \in Buckets :
    /\ pc[s] \in {"idle", "wait"} => checked[s][b] = None
    /\ pc[s] = "check" => ((checked[s][b] # None) <=> (b < idx[s]))
    /\ pc[s] \in {"shrink", "inner"} => checked[s][b] # None
    /\ pc[s] = "advance" => ((checked[s][b] # None) <=> (b >= idx[s]))
    /\ pc[s] = "release" => (b < idx[s] => checked[s][b] = None)

\* When the inner stream is polled every bucket was charged with exactly the size
\* it is polled with, whatever the later buckets granted ("shrink in time").
ChargedAlike ==
  \A s \in Streams, b \in Buckets : pc[s] = "inner" => checked[s][b] = size[s]

\* The local window never counts more than max_bytes, so the subtraction in
\* LocalStreamLimiter::check cannot wrap.
WindowKept ==
  \A s \in Streams : max_bytes[s] # None => cur_bytes[s] <= max_bytes[s]

\* Streams that want to move bytes do not stop one another for ever: however the
\* polls of all of them interleave, some stream moves bytes again and again.
SomeoneMoves ==
  []<>(\E s \in Streams : pc[s] = "advance" /\ size[s] > 0)

============================================================================
