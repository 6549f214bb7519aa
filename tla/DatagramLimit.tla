--------------------------- MODULE DatagramLimit ---------------------------
(***************************************************************************)
(* The speed limit of datagram sockets (lib/g3-io-ext/src/limit): buckets  *)
(* of packets and bytes shared by many sockets (GlobalDatagramLimiter),    *)
(* the window of one socket (LocalDatagramLimiter), the DatagramLimiter    *)
(* that asks both, and the LimitedUdpSend in front of the socket.          *)
(*                                                                         *)
(* A poll sends one packet (check_packet) or a batch (check_packets). A    *)
(* batch is given by total_size_v: entry i is the size of the first i      *)
(* packets. One step is one access to one counter of one bucket.           *)
(***************************************************************************)
EXTENDS Integers, Sequences, FiniteSetsExt

CONSTANTS Socks,        \* limited sockets
          LocalSocks,   \* those with a local window: local_is_set
          N,            \* number of shared buckets, in the order of the Vec
          RBytes,       \* replenish_bytes of a bucket, 0 if not limited
          RPackets,     \* replenish_packets of a bucket, 0 if not limited
          MaxBurstBytes, MaxBurstPackets,
          MaxPackets,   \* max_packets of the local window, 0 if not limited
          MaxBytes,     \* max_bytes of the local window, 0 if not limited
          Singles,      \* sizes of packets sent one by one
          Batches       \* total_size_v of the batches

Buckets == 1..N
None == -1
Local(s) == s \in LocalSocks

\* The total_size_v of one packet or more, some of which may be empty
Sized(t) ==
  /\ t \in Seq(Nat) /\ t # <<>>
  /\ \A i, j \in 1..Len(t) : i <= j => t[i] <= t[j]

Bounds ==
  /\ Socks # {} /\ LocalSocks \subseteq Socks /\ N \in Nat
  /\ RBytes \in Nat /\ RPackets \in Nat /\ RBytes + RPackets > 0
  /\ MaxBurstBytes \in Nat /\ MaxBurstBytes >= RBytes
  /\ MaxBurstPackets \in Nat /\ MaxBurstPackets >= RPackets
  /\ MaxPackets \in Nat /\ MaxBytes \in Nat
  /\ \A n \in Singles : Sized(<<n>>)
  /\ \A t \in Batches : Sized(t)

ASSUME DatagramLimitAssumption == Bounds

VARIABLES
  bytes, packets,   \* byte_tokens and packet_tokens of each bucket
  pc,               \* where each socket is
  idx,              \* the bucket its loop is at
  total,            \* total_size_v
  batch,            \* check_packets and not check_packet
  adv,              \* to_advance, then the packets given to set_advance()
  taken,            \* byte tokens taken from bucket idx
  checked_packets, checked_bytes,
  cur_packets, cur_bytes,  \* counted in the local window
  new_slice         \* whether the clock left the slice they are counted in

bucketVars == <<bytes, packets>>
pollVars == <<pc, idx, total, batch, adv, taken>>
checkedVars == <<checked_packets, checked_bytes>>
localVars == <<cur_packets, cur_bytes, new_slice>>
vars == <<bucketVars, pollVars, checkedVars, localVars>>

----------------------------------------------------------------------------
(* GlobalDatagramLimiter *)

\* add_bytes and add_packets
Add(t, n, burst) ==
  IF t >= burst THEN t ELSE IF t + n <= burst THEN t + n ELSE burst

AddBytes(b, n) == bytes' = [bytes EXCEPT ![b] = Add(@, n, MaxBurstBytes)]
AddPackets(b, n) == packets' = [packets EXCEPT ![b] = Add(@, n, MaxBurstPackets)]

ReplenishWrongCounter(b) ==
  /\ RBytes > 0
  /\ AddPackets(b, RBytes)
  /\ UNCHANGED <<bytes, pollVars, checkedVars, localVars>>

\* A round of the replenish task adds to one counter, then to the other, and
\* the sockets may run between the two. Which comes first is left open.
ReplenishBytes(b) ==
  /\ RBytes > 0
  /\ AddBytes(b, RBytes)
  /\ UNCHANGED <<packets, pollVars, checkedVars, localVars>>

ReplenishPackets(b) ==
  /\ RPackets > 0
  /\ AddPackets(b, RPackets)
  /\ UNCHANGED <<bytes, pollVars, checkedVars, localVars>>

Replenish(b) == ReplenishBytes(b) \/ ReplenishPackets(b)

\* The whole packets, of the first p of t, that n bytes pay for: the insertion
\* point of binary_search, or up to the entry it finds, be it any of several
WholePackets(t, p, n) ==
  {k \in 0..p : \/ k > 0 /\ t[k] = n
                \/ \A i \in 1..p : IF i <= k THEN t[i] < n ELSE t[i] > n}

----------------------------------------------------------------------------
(* LocalDatagramLimiter *)

WinPackets(s) == IF new_slice[s] THEN 0 ELSE cur_packets[s]
WinBytes(s) == IF new_slice[s] THEN 0 ELSE cur_bytes[s]

LocalDelaysNoOne(s, size) == FALSE

\* check_packet: packets are compared with > and the first packet always passes
LocalDelaysOne(s, size) ==
  \/ MaxPackets > 0 /\ WinPackets(s) > MaxPackets
  \/ MaxBytes > 0 /\ WinBytes(s) > 0 /\ WinBytes(s) + size >= MaxBytes

\* check_packets
LocalDelaysBatch(s, t) ==
  \/ MaxPackets > 0 /\ WinPackets(s) >= MaxPackets
  \/ MaxBytes > 0 /\ WinBytes(s) >= MaxBytes
  \/ MaxBytes > 0 /\ WinBytes(s) > 0 /\ t[1] > MaxBytes - WinBytes(s)

LocalGrants(s, t) ==
  LET p == IF MaxPackets > 0 THEN Min({Len(t), MaxPackets - WinPackets(s)}) ELSE Len(t)
  IN  IF MaxBytes = 0 THEN {p}
      ELSE {Max({n, 1}) : n \in WholePackets(t, p, MaxBytes - WinBytes(s))}

\* The clock leaves the slice in which packets were counted.
NextSlice(s) ==
  /\ Local(s) /\ cur_packets[s] > 0 /\ ~new_slice[s]
  /\ new_slice' = [new_slice EXCEPT ![s] = TRUE]
  /\ UNCHANGED <<bucketVars, pollVars, checkedVars, cur_packets, cur_bytes>>

----------------------------------------------------------------------------
(* DatagramLimiter *)

Goto(s, label) ==
  /\ pc' = [pc EXCEPT ![s] = label]
  /\ idx' = [idx EXCEPT ![s] = 1]

Walk(s, here, done) ==
  /\ idx' = [idx EXCEPT ![s] = IF idx[s] < N THEN idx[s] + 1 ELSE 1]
  /\ pc' = [pc EXCEPT ![s] = IF idx[s] < N THEN here ELSE done]

Stay(s, label) == pc' = [pc EXCEPT ![s] = label] /\ UNCHANGED idx

\* What check_packet and check_packets do up to the local limiter
Begin(s, t, many, delays, grants) ==
  /\ pc[s] = "idle"
  /\ cur_packets' = [cur_packets EXCEPT ![s] = IF Local(s) THEN WinPackets(s) ELSE @]
  /\ cur_bytes' = [cur_bytes EXCEPT ![s] = IF Local(s) THEN WinBytes(s) ELSE @]
  /\ new_slice' = [new_slice EXCEPT ![s] = IF Local(s) THEN FALSE ELSE @]
  /\ IF Local(s) /\ delays
       THEN UNCHANGED <<pc, idx, total, batch, adv>>
       ELSE /\ Goto(s, IF N = 0 THEN "inner" ELSE "packets")
            /\ total' = [total EXCEPT ![s] = t]
            /\ batch' = [batch EXCEPT ![s] = many]
            /\ \E n \in IF Local(s) THEN grants ELSE {Len(t)} : adv' = [adv EXCEPT ![s] = n]
  /\ UNCHANGED <<bucketVars, taken, checkedVars>>

PollOne(s, size) == Begin(s, <<size>>, FALSE, LocalDelaysOne(s, size), {1})

PollBatch(s, t) == Begin(s, t, TRUE, LocalDelaysBatch(s, t), LocalGrants(s, t))

\* The packet tokens of one bucket
TakePackets(s) ==
  LET b == idx[s] n == Min({adv[s], packets[b]}) IN
  /\ pc[s] = "packets"
  /\ IF RPackets = 0 THEN Stay(s, "bytes") /\ UNCHANGED <<packets, adv>>
     ELSE IF packets[b] = 0 THEN Goto(s, "release") /\ UNCHANGED <<packets, adv>>
     ELSE /\ packets' = [packets EXCEPT ![b] = @ - n]
          /\ adv' = [adv EXCEPT ![s] = n]
          /\ Stay(s, "bytes")
  /\ UNCHANGED <<bytes, total, batch, taken, checkedVars, localVars>>

\* The bucket grants n packets; checked_bytes is set here only for one packet.
Granted(s, n) ==
  /\ adv' = [adv EXCEPT ![s] = n]
  /\ checked_packets' = [checked_packets EXCEPT ![s][idx[s]] = n]
  /\ checked_bytes' = IF batch[s] THEN checked_bytes
                      ELSE [checked_bytes EXCEPT ![s][idx[s]] = total[s][1]]
  /\ Walk(s, "packets",
          IF batch[s] /\ Len(total[s]) > n THEN "shrink" ELSE "inner")

\* The byte tokens of one bucket: one packet needs all of them, a batch takes
\* what there is.
TakeBytes(s) ==
  LET b == idx[s]
      need == total[s][adv[s]]
      n == Min({need, bytes[b]}) IN
  /\ pc[s] = "bytes"
  /\ IF RBytes = 0 THEN Granted(s, adv[s]) /\ UNCHANGED <<bytes, taken>>
     ELSE IF n = need /\ (batch[s] => bytes[b] > 0)
       THEN /\ bytes' = [bytes EXCEPT ![b] = @ - n]
            /\ Granted(s, adv[s])
            /\ UNCHANGED taken
     ELSE IF ~batch[s] \/ bytes[b] = 0
       THEN Stay(s, "refuse") /\ UNCHANGED <<bytes, adv, taken, checkedVars>>
     ELSE /\ bytes' = [bytes EXCEPT ![b] = 0]
          /\ taken' = [taken EXCEPT ![s] = n]
          /\ Stay(s, "unpack")
          /\ UNCHANGED <<adv, checkedVars>>
  /\ UNCHANGED <<packets, total, batch, localVars>>

\* The packet tokens go back when the bytes refuse, and the caller releases
\* the buckets before.
Refuse(s) ==
  /\ pc[s] = "refuse"
  /\ IF RPackets > 0 THEN AddPackets(idx[s], adv[s]) ELSE UNCHANGED packets
  /\ Goto(s, "release")
  /\ UNCHANGED <<bytes, total, batch, adv, taken, checkedVars,
                 localVars>>

\* "release unneeded packets"
ReleaseUnneededPackets(s) ==
  /\ pc[s] = "unpack"
  /\ \E n \in WholePackets(total[s], Len(total[s]), taken[s]) :
       /\ IF RPackets > 0 THEN AddPackets(idx[s], adv[s] - n) ELSE UNCHANGED packets
       /\ adv' = [adv EXCEPT ![s] = n]
  /\ Stay(s, "unbyte")
  /\ UNCHANGED <<bytes, total, batch, taken, checkedVars, localVars>>

\* "release unneeded bytes": total_size_v[to_advance - 1] panics when the bytes
\* do not pay for the first packet.
ReleaseUnneededBytes(s) ==
  /\ pc[s] = "unbyte"
  /\ taken' = [taken EXCEPT ![s] = 0]
  /\ IF adv[s] = 0
       THEN Goto(s, "panic") /\ UNCHANGED <<bytes, adv, checkedVars>>
       ELSE /\ AddBytes(idx[s], taken[s] - total[s][adv[s]])
            /\ Granted(s, adv[s])
  /\ UNCHANGED <<packets, total, batch, localVars>>

\* The end of check_packets: buckets before the last granted more. The two
\* counters of a bucket are written in one step here.
Shrink(s) ==
  LET b == idx[s] c == checked_packets[s][b] IN
  /\ pc[s] = "shrink"
  /\ IF c > adv[s]
       THEN /\ IF MaxBurstPackets > 0 THEN AddPackets(b, c - adv[s]) ELSE UNCHANGED packets
            /\ IF MaxBurstBytes > 0 THEN AddBytes(b, total[s][c] - total[s][adv[s]])
                                    ELSE UNCHANGED bytes
       ELSE UNCHANGED <<packets, bytes>>
  /\ checked_packets' = [checked_packets EXCEPT ![s][b] = adv[s]]
  /\ checked_bytes' = [checked_bytes EXCEPT ![s][b] = total[s][adv[s]]]
  /\ Walk(s, "shrink", "inner")
  /\ UNCHANGED <<total, batch, adv, taken, localVars>>

----------------------------------------------------------------------------
(* LimitedUdpSend *)

DropLocals(s) ==
  IF pc'[s] = "idle"
    THEN /\ total' = [total EXCEPT ![s] = <<>>]
         /\ batch' = [batch EXCEPT ![s] = FALSE]
         /\ adv' = [adv EXCEPT ![s] = 0]
    ELSE UNCHANGED <<total, batch, adv>>

\* The socket took n packets: set_advance, the local part of it
InnerReady(s, n) ==
  LET len == total[s][n] IN
  /\ pc[s] = "inner"
  /\ adv' = [adv EXCEPT ![s] = n]
  /\ cur_packets' = [cur_packets EXCEPT ![s] = IF Local(s) THEN @ + n ELSE @]
  /\ cur_bytes' = [cur_bytes EXCEPT ![s] = IF Local(s) THEN @ + len ELSE @]
  /\ Goto(s, IF N = 0 THEN "idle" ELSE "advance")
  /\ UNCHANGED <<bucketVars, total, batch, taken, checkedVars, new_slice>>

\* The socket failed or is not ready
InnerFails(s) ==
  /\ pc[s] = "inner"
  /\ Goto(s, IF N = 0 THEN "idle" ELSE "release")
  /\ UNCHANGED <<bucketVars, total, batch, adv, taken, checkedVars, localVars>>

\* One bucket of a loop that takes what was checked, or its end at the first
\* bucket that holds nothing; keep packets and len bytes stay charged.
GiveBack(s, here, keep, len) ==
  LET b == idx[s] p == checked_packets[s][b] n == checked_bytes[s][b] IN
  /\ pc[s] = here
  /\ IF p = None
       THEN Goto(s, "idle") /\ UNCHANGED <<packets, bytes, checkedVars>>
       ELSE /\ IF p > keep /\ MaxBurstPackets > 0 THEN AddPackets(b, p - keep)
                                                  ELSE UNCHANGED packets
            /\ IF n > len /\ MaxBurstBytes > 0 THEN AddBytes(b, n - len)
                                               ELSE UNCHANGED bytes
            /\ checked_packets' = [checked_packets EXCEPT ![s][b] = None]
            /\ checked_bytes' = [checked_bytes EXCEPT ![s][b] = None]
            /\ Walk(s, here, "idle")
  /\ DropLocals(s)
  /\ UNCHANGED <<taken, localVars>>

ReleaseGlobalMore(s) == GiveBack(s, "release", -1, -1)

ReleaseGlobal(s) == GiveBack(s, "release", 0, 0)

SetAdvance(s) ==
  GiveBack(s, "advance", adv[s], total[s][adv[s]])

----------------------------------------------------------------------------

Init ==
  /\ bytes = [b \in Buckets |-> RBytes]
  /\ packets = [b \in Buckets |-> RPackets]
  /\ pc = [s \in Socks |-> "idle"]
  /\ idx = [s \in Socks |-> 1]
  /\ total = [s \in Socks |-> <<>>]
  /\ batch = [s \in Socks |-> FALSE]
  /\ adv = [s \in Socks |-> 0]
  /\ taken = [s \in Socks |-> 0]
  /\ checked_packets = [s \in Socks |-> [b \in Buckets |-> None]]
  /\ checked_bytes = [s \in Socks |-> [b \in Buckets |-> None]]
  /\ cur_packets = [s \in Socks |-> 0]
  /\ cur_bytes = [s \in Socks |-> 0]
  /\ new_slice = [s \in Socks |-> FALSE]

Poll(s) ==
  \/ \E n \in Singles : PollOne(s, n)
  \/ \E t \in Batches : PollBatch(s, t)

Run(s) ==
  \/ TakePackets(s)
  \/ TakeBytes(s)
  \/ Refuse(s)
  \/ ReleaseUnneededPackets(s)
  \/ ReleaseUnneededBytes(s)
  \/ Shrink(s)
  \/ ReleaseGlobal(s)
  \/ SetAdvance(s)

Sent(s) == \E n \in 1..adv[s] : InnerReady(s, n)

SockStep(s) ==
  \/ Poll(s)
  \/ Run(s)
  \/ Sent(s)
  \/ InnerFails(s)
  \/ NextSlice(s)

Next ==
  \/ \E s \in Socks : SockStep(s)
  \/ \E b \in Buckets : Replenish(b)

Spec == Init /\ [][Next]_vars

\* The replenish tasks and the clock go on, the sockets are polled again and
\* again and are ready again and again.
FairSpec ==
  /\ Spec
  /\ \A b \in Buckets : WF_vars(ReplenishBytes(b)) /\ WF_vars(ReplenishPackets(b))
  /\ \A s \in LocalSocks : WF_vars(NextSlice(s))
  /\ \A s \in Socks : WF_vars(Poll(s) \/ Run(s)) /\ SF_vars(Sent(s))

----------------------------------------------------------------------------
(* Properties *)

Places == {"idle", "packets", "bytes", "refuse", "unpack", "unbyte", "shrink",
           "inner", "release", "advance", "panic"}

\* The types of the variables: no count of tokens, packets or bytes goes below
\* zero, in the buckets or in what a poll holds.
TypeOK ==
  /\ bytes \in [Buckets -> Nat] /\ packets \in [Buckets -> Nat]
  /\ pc \in [Socks -> Places]
  /\ idx \in [Socks -> Nat]
  /\ adv \in [Socks -> Nat] /\ taken \in [Socks -> Nat]
  /\ checked_packets \in [Socks -> [Buckets -> Nat \cup {None}]]
  /\ checked_bytes \in [Socks -> [Buckets -> Nat \cup {None}]]
  /\ cur_packets \in [Socks -> Nat] /\ cur_bytes \in [Socks -> Nat]

\* What a socket took of the tokens of bucket b and neither spent nor gave back
HeldPackets(s, b) ==
  LET p == checked_packets[s][b] IN
  (IF p = None THEN 0 ELSE IF pc[s] = "advance" THEN p - adv[s] ELSE p)
  + (IF idx[s] = b /\ pc[s] \in {"bytes", "refuse", "unpack", "unbyte"} THEN adv[s] ELSE 0)

HeldBytes(s, b) ==
  LET p == checked_packets[s][b] IN
  (IF p = None THEN 0
   ELSE IF pc[s] = "advance" THEN total[s][p] - total[s][adv[s]] ELSE total[s][p])
  + (IF idx[s] = b /\ pc[s] \in {"unpack", "unbyte"} THEN taken[s] ELSE 0)

Packets(s, b) == packets[b] + HeldPackets(s, b)
Bytes(s, b) == bytes[b] + HeldBytes(s, b)

\* No bucket lets more packets or bytes through than its replenish task gave it:
\* a step of any other kind leaves what all sockets but one hold of a bucket as
\* it is, and adds nothing to its tokens together with what that one holds,
\* whatever is taken, shrunk, refused and given back.
RateKept ==
  [][\A b \in Buckets :
       \/ Replenish(b)
       \/ \E s \in Socks :
            /\ RPackets > 0 => Packets(s, b)' <= Packets(s, b)
            /\ RBytes > 0 => Bytes(s, b)' <= Bytes(s, b)
            /\ \A o \in Socks \ {s} : /\ HeldPackets(o, b)' = HeldPackets(o, b)
                                     /\ HeldBytes(o, b)' = HeldBytes(o, b)]_vars

\* When the socket is called every bucket has granted exactly the packets it is
\* called with, and a batch that was cut has its bytes recorded.
ChargedAlike ==
  \A s \in Socks, b \in Buckets :
    pc[s] = "inner" =>
      /\ checked_packets[s][b] = adv[s]
      /\ adv[s] < Len(total[s]) => checked_bytes[s][b] = total[s][adv[s]]

\* Between polls no bucket holds anything for the socket, so the next poll does
\* not release packets or bytes a second time.
NothingHeld ==
  \A s \in Socks, b \in Buckets :
    pc[s] = "idle" => checked_packets[s][b] = None /\ checked_bytes[s][b] = None

\* No poll begins with an empty packet.
NoneEmpty == (\A n \in Singles : n > 0) /\ \A t \in Batches : t[1] > 0

\* check_packet and check_packets of the window together let at most one packet
\* more than max_packets through in a slice, and more than max_bytes only with
\* the first packet of it (if no empty packet went before).
WindowKept ==
  \A s \in Socks : Local(s) =>
    /\ MaxPackets > 0 => cur_packets[s] <= MaxPackets + 1
    /\ MaxBytes > 0 /\ NoneEmpty => cur_bytes[s] <= MaxBytes \/ cur_packets[s] = 1

\* Types, what every bucket granted at the call of the socket, what is left of it
\* between polls, and the local window.
Inv == TypeOK /\ ChargedAlike /\ NothingHeld /\ WindowKept

\* "max upload packets in the time slice": the window counts no more packets
\* than max_packets.  It does NOT hold of the code: check_packet compares with >.
PacketsKept ==
  \A s \in Socks : Local(s) /\ MaxPackets > 0 => cur_packets[s] <= MaxPackets

\* "release unneeded bytes": a batch that gets fewer bytes than it needs gives
\* the rest back and goes on with the packets they pay for.  It does NOT hold of
\* the code: when they pay for none, the index of total_size_v underflows.
UnneededReleased == \A s \in Socks : pc[s] # "panic"

\* Packets that fit the burst are sent again and again, whatever the sockets
\* take and give back meanwhile, unless a task ended in the panic above.
SomeoneSends == []<>(\E s \in Socks : pc[s] \in {"advance", "panic"})

============================================================================
