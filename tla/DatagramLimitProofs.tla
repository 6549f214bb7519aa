-------------------------- MODULE DatagramLimitProofs --------------------------
(***************************************************************************)
(* Proofs about DatagramLimit for any number of sockets and buckets, any   *)
(* bursts and windows, and packets and batches of any size, empty packets  *)
(* and limiters without a bucket included.                                 *)
(*                                                                         *)
(* The invariant says of every socket what its poll knows at the place it  *)
(* is at: of its request, of every bucket on either side of the one its    *)
(* loop is at, and of the room its local window has left. It speaks of     *)
(* places, sizes and buckets as values (Req, ChkAt), so that a lemma about *)
(* one bucket serves every step that treats a bucket alike.                *)
(***************************************************************************)
EXTENDS DatagramLimit, TLAPS

\* The places in the loop of check_packets
Loop == {"packets", "bytes", "refuse", "unpack", "unbyte"}

\* What a poll at place l knows of its request: the sizes t, whether it is a batch, the a packets
\* it may still send, the k byte tokens it took
Req(l, t, m, a, k) ==
  /\ l # "idle" => Sized(t) /\ a \in 0..Len(t) /\ (~m => Len(t) = 1) /\ (NoneEmpty => t[1] > 0)
  /\ l \notin {"idle", "unbyte", "panic"} => a >= 1
  /\ l = "unpack" => k < t[a]
  /\ l = "unbyte" /\ a > 0 => t[a] <= k

\* What it knows of bucket b, when its loop is at bucket i: p packets and q bytes are checked there
ChkAt(l, i, t, a, b, p, q) ==
  /\ p = None => q = None
  /\ p # None => p \in 1..Len(t) /\ q \in {None, t[p]}
  /\ l \in Loop => IF b < i THEN p >= a ELSE p = None
  /\ l = "shrink" => IF b < i THEN p = a /\ q = t[a] ELSE p >= a
  /\ l = "inner" => p = a /\ (a < Len(t) => q = t[a])
  /\ l = "advance" => IF b < i THEN p = None ELSE p >= a
  /\ l = "release" => (b < i => p = None)
  /\ l = "idle" => p = None

\* The loops are at a bucket.
Placed(l, i) == l \notin {"idle", "inner"} => i \in Buckets

\* From bucket i on nothing is checked behind the first bucket where nothing is
Closed(i, P) == \A b, c \in Buckets : i <= b /\ b <= c /\ P[b] = None => P[c] = None

\* The window has counted cp packets and cb bytes, and it has room for the first a packets of t
Counted(cp, cb) ==
  /\ MaxPackets > 0 => cp <= MaxPackets + 1
  /\ MaxBytes > 0 /\ NoneEmpty => cb <= MaxBytes \/ cp = 1
  /\ NoneEmpty /\ cb = 0 => cp = 0

Room(t, a, cp, cb) ==
  /\ MaxPackets > 0 => cp + a <= MaxPackets + 1
  /\ MaxBytes > 0 /\ NoneEmpty => a = 0 \/ cb + t[a] <= MaxBytes \/ (cp = 0 /\ a = 1)

Asking == Loop \cup {"shrink", "inner"}

WinOK(s, l, t, a, cp, cb) ==
  Local(s) => Counted(cp, cb) /\ (l \in Asking => Room(t, a, cp, cb))

SockInv(s) ==
  /\ Req(pc[s], total[s], batch[s], adv[s], taken[s])
  /\ Placed(pc[s], idx[s])
  /\ \A b \in Buckets :
       ChkAt(pc[s], idx[s], total[s], adv[s], b, checked_packets[s][b], checked_bytes[s][b])
  /\ pc[s] = "release" => Closed(idx[s], checked_packets[s])
  /\ WinOK(s, pc[s], total[s], adv[s], cur_packets[s], cur_bytes[s])

Checks == [Buckets -> Nat \cup {None}]

SockTypes ==
  /\ pc \in [Socks -> Places] /\ idx \in [Socks -> Nat]
  /\ total \in [Socks -> Seq(Nat)] /\ batch \in [Socks -> BOOLEAN]
  /\ adv \in [Socks -> Nat] /\ taken \in [Socks -> Nat]
  /\ checked_packets \in [Socks -> Checks] /\ checked_bytes \in [Socks -> Checks]
  /\ cur_packets \in [Socks -> Nat] /\ cur_bytes \in [Socks -> Nat] /\ new_slice \in [Socks -> BOOLEAN]

Tokens == bytes \in [Buckets -> Nat] /\ packets \in [Buckets -> Nat]

IInv == Tokens /\ SockTypes /\ \A s \in Socks : SockInv(s)

\* HeldPackets and HeldBytes as functions of what they depend on
HP(l, i, a, p, b) ==
  (IF p = None THEN 0 ELSE IF l = "advance" THEN p - a ELSE p)
  + (IF i = b /\ l \in {"bytes", "refuse", "unpack", "unbyte"} THEN a ELSE 0)

HB(l, i, t, a, k, p, b) ==
  (IF p = None THEN 0 ELSE IF l = "advance" THEN t[p] - t[a] ELSE t[p])
  + (IF i = b /\ l \in {"unpack", "unbyte"} THEN k ELSE 0)

\* The n tokens a step moves at bucket i, seen from bucket b
Share(b, i, n) == IF b = i THEN n ELSE 0
Back(l, a) == IF l = "refuse" THEN a ELSE 0
Rest(l, k) == IF l = "unbyte" THEN k ELSE 0

-----------------------------------------------------------------------------
(* Numbers *)

\* The buckets are numbered from one.
LEMMA BucketFact == N \in Nat /\ \A b : b \in Buckets <=> b \in Nat /\ 1 <= b /\ b <= N
  BY DatagramLimitAssumption DEF Bounds, Buckets

\* With a bucket there is a limiter.
LEMMA SomeBucket == ASSUME NEW b \in Buckets PROVE N # 0
  BY BucketFact

\* The sizes given to check_packets are running totals, so they never decrease.
LEMMA SizedFact ==
  ASSUME NEW t, Sized(t)
  PROVE  /\ t \in Seq(Nat) /\ Len(t) \in Nat \ {0}
         /\ \A i \in 1..Len(t) : t[i] \in Nat
         /\ \A i, j \in 1..Len(t) : i <= j => t[i] <= t[j]
<1>1. t \in Seq(Nat) /\ Len(t) \in Nat \ {0}
  BY DEF Sized
<1>2. ASSUME NEW i \in 1..Len(t) PROVE t[i] \in Nat
  BY <1>1
<1> QED BY Zenon, <1>1, <1>2 DEF Sized

\* Each of the packets given to check_packets has a size, and can be the last one to send.
LEMMA SizedAt ==
  ASSUME NEW t, Sized(t), NEW c \in 1..Len(t)
  PROVE  c \in Nat /\ c >= 1 /\ t[c] \in Nat /\ c \in 0..Len(t) /\ t \in Seq(Nat)
  BY SizedFact

\* There is a last packet.
LEMMA SizedLast == ASSUME NEW t, Sized(t) PROVE Len(t) \in 1..Len(t)
  BY SizedFact

\* A number is at most itself.
LEMMA LeqSelf == ASSUME NEW x \in Nat PROVE x <= x
  OBVIOUS

\* The smaller of two numbers.
LEMMA MinIs ==
  ASSUME NEW x \in Int, NEW y \in Int
  PROVE  Min({x, y}) = IF x <= y THEN x ELSE y
<1> DEFINE m == IF x <= y THEN x ELSE y
<1>1. m \in {x, y} /\ \A z \in {x, y} : m <= z
  OBVIOUS
<1>2. \A w \in {x, y} : (\A z \in {x, y} : w <= z) => w = m
  OBVIOUS
<1> HIDE DEF m
<1>3. Min({x, y}) = m
  BY Zenon, <1>1, <1>2 DEF Min
<1> QED BY Zenon, <1>3 DEF m

\* The larger of two numbers.
LEMMA MaxIs ==
  ASSUME NEW x \in Int, NEW y \in Int
  PROVE  Max({x, y}) = IF x >= y THEN x ELSE y
<1> DEFINE m == IF x >= y THEN x ELSE y
<1>1. m \in {x, y} /\ \A z \in {x, y} : m >= z
  OBVIOUS
<1>2. \A w \in {x, y} : (\A z \in {x, y} : w >= z) => w = m
  OBVIOUS
<1> HIDE DEF m
<1>3. Max({x, y}) = m
  BY Zenon, <1>1, <1>2 DEF Max
<1> QED BY Zenon, <1>3 DEF m

\* add_bytes and add_packets add at most what they are given.
LEMMA AddIs ==
  ASSUME NEW x \in Nat, NEW n \in Nat, NEW burst \in Nat
  PROVE  Add(x, n, burst) \in Nat /\ Add(x, n, burst) <= x + n
  BY DEF Add

\* What binary_search finds is paid for, and what is not paid for comes after it.
LEMMA WholeIs ==
  ASSUME NEW t, Sized(t), NEW p \in 0..Len(t), NEW n \in Int, NEW k \in WholePackets(t, p, n)
  PROVE  /\ k \in 0..p
         /\ k > 0 => t[k] \in Nat /\ t[k] <= n
         /\ k = 0 /\ p > 0 => t[1] > n
         /\ \A a \in 1..Len(t) : t[a] > n => k < a
<1>1. Len(t) \in Nat /\ p \in Nat /\ k \in 0..p /\ k \in Nat
  BY SizedFact DEF WholePackets
<1>2. k > 0 => k \in 1..p /\ k \in 1..Len(t)
  BY <1>1
<1>3. (k > 0 /\ t[k] = n) \/ \A i \in 1..p : IF i <= k THEN t[i] < n ELSE t[i] > n
  BY Zenon DEF WholePackets
<1>4. k > 0 => t[k] \in Nat /\ t[k] <= n
  <2> SUFFICES ASSUME k > 0 PROVE t[k] \in Nat /\ t[k] <= n
    OBVIOUS
  <2>1. t[k] \in Nat /\ k <= k
    BY <1>1, <1>2, SizedFact
  <2>2. t[k] = n \/ t[k] < n
    BY Zenon, <1>2, <1>3, <2>1
  <2> QED BY <2>1, <2>2
<1>5. k = 0 /\ p > 0 => t[1] > n
  <2> SUFFICES ASSUME k = 0, p > 0 PROVE t[1] > n
    OBVIOUS
  <2>1. 1 \in 1..p /\ ~(1 <= k) /\ ~(k > 0)
    BY <1>1
  <2> QED BY Zenon, <1>3, <2>1
<1>6. ASSUME NEW a \in 1..Len(t), t[a] > n PROVE k < a
  <2> SUFFICES ASSUME a <= k PROVE FALSE
    BY <1>1
  <2>1. k > 0 /\ t[a] \in Nat
    BY <1>1, SizedFact
  <2>2. t[a] <= t[k]
    BY Zenon, <1>2, <2>1, SizedFact
  <2> QED BY <1>4, <1>6, <2>1, <2>2
<1> QED BY Zenon, <1>1, <1>4, <1>5, <1>6

-----------------------------------------------------------------------------
(* What a step makes of one bucket: it stays as it should be, and what the poll holds of it changes *)
(* by what the step takes or gives back. *)

\* x is y and d more; x is y
Gains(x, y, d) == x = y + d
Same(x, y) == x = y

\* n tokens left a bucket of x and y remain, or at most n came to it; y is no more than x; and the x tokens of a
\* bucket with the h that are held cover y tokens with g held
Takes(x, y, n) == y + n <= x
Gives(x, y, n) == y <= x + n
Under(x, y) == y <= x
Covers(x, h, y, g) == y + g <= x + h

\* A bucket left as it is covers as much when as much is held.
LEMMA CoversSame ==
  ASSUME NEW x \in Nat, NEW h \in Int, NEW y, NEW g, Same(y, x), Same(g, h)
  PROVE  Covers(x, h, y, g)
  BY DEF Covers, Same

\* It does when less is held.
LEMMA CoversUnder ==
  ASSUME NEW x \in Nat, NEW h \in Int, NEW y, NEW g \in Int, Same(y, x), Under(h, g)
  PROVE  Covers(x, h, y, g)
  BY DEF Covers, Same, Under

\* What leaves the bucket and is held from then on is covered.
LEMMA CoversTaken ==
  ASSUME NEW x \in Nat, NEW y \in Nat, NEW h \in Int, NEW n \in Int, NEW g, Takes(x, y, n), Gains(g, h, n)
  PROVE  Covers(x, h, y, g)
  BY DEF Covers, Takes, Gains

\* What was held and comes back to the bucket is covered.
LEMMA CoversGiven ==
  ASSUME NEW x \in Nat, NEW y \in Nat, NEW g \in Int, NEW n \in Int, NEW h, Gives(x, y, n), Gains(h, g, n)
  PROVE  Covers(x, h, y, g)
  BY DEF Covers, Gives, Gains

\* x is v at bucket i and y at the others
Put(x, b, i, v, y) == x = IF b = i THEN v ELSE y

\* Bucket b as a poll at place l sees it
Seen(l, i, t, a, k, b, p, q) ==
  /\ i \in Nat /\ a \in Nat /\ k \in Nat /\ b \in Buckets /\ p \in Nat \cup {None}
  /\ ChkAt(l, i, t, a, b, p, q)

\* The bucket gave n packets: they are held there beside what is checked.
LEMMA TookPacketsAt ==
  ASSUME NEW i, NEW t, NEW a, NEW k, NEW b, NEW p, NEW q, Seen("packets", i, t, a, k, b, p, q),
         NEW n \in Nat, n <= a
  PROVE  /\ ChkAt("bytes", i, t, n, b, p, q)
         /\ Gains(HP("bytes", i, n, p, b), HP("packets", i, a, p, b), Share(b, i, n))
         /\ Same(HB("bytes", i, t, n, k, p, b), HB("packets", i, t, a, k, p, b))
<1>0. /\ i \in Nat /\ b \in Nat /\ a \in Nat /\ k \in Nat /\ p \in Nat \cup {None}
      /\ ChkAt("packets", i, t, a, b, p, q)
  BY BucketFact DEF Seen
<1>1. ChkAt("bytes", i, t, n, b, p, q)
  BY <1>0 DEF ChkAt, Loop, None
<1>2. Gains(HP("bytes", i, n, p, b), HP("packets", i, a, p, b), Share(b, i, n))
  BY <1>0 DEF HP, None, Share, Gains
<1>3. Same(HB("bytes", i, t, n, k, p, b), HB("packets", i, t, a, k, p, b))
  BY DEF HB, Same
<1> QED BY Zenon, <1>1, <1>2, <1>3

\* A poll that gives up goes to release_global, after it gave back the packets of a bucket
\* that had no bytes.
LEMMA ReleasedAt ==
  ASSUME NEW l \in {"packets", "refuse", "inner"},
         NEW i, NEW t, NEW a, NEW k, NEW b, NEW p, NEW q, Seen(l, i, t, a, k, b, p, q)
  PROVE  /\ ChkAt("release", 1, t, a, b, p, q)
         /\ Gains(HP(l, i, a, p, b), HP("release", 1, a, p, b), Share(b, i, Back(l, a)))
         /\ Same(HB("release", 1, t, a, k, p, b), HB(l, i, t, a, k, p, b))
<1>0. /\ i \in Nat /\ b \in Nat /\ 1 <= b /\ a \in Nat /\ k \in Nat /\ p \in Nat \cup {None}
      /\ ChkAt(l, i, t, a, b, p, q)
  BY BucketFact DEF Seen
<1>1. ChkAt("release", 1, t, a, b, p, q)
  BY <1>0 DEF ChkAt, Loop, None
<1>2. Gains(HP(l, i, a, p, b), HP("release", 1, a, p, b), Share(b, i, Back(l, a)))
  BY <1>0 DEF HP, None, Share, Back, Gains
<1>3. Same(HB("release", 1, t, a, k, p, b), HB(l, i, t, a, k, p, b))
  BY DEF HB, Same
<1> QED BY Zenon, <1>1, <1>2, <1>3

\* When release_global begins, the buckets that are checked come first.
LEMMA ReleasedClosed ==
  ASSUME NEW l \in {"packets", "refuse", "inner"}, NEW i \in Nat, NEW t, NEW a \in Nat,
         NEW P \in Checks, NEW Q, \A b \in Buckets : ChkAt(l, i, t, a, b, P[b], Q[b])
  PROVE  Closed(1, P)
<1> SUFFICES ASSUME NEW b \in Buckets, NEW c \in Buckets, b <= c, P[b] = None PROVE P[c] = None
  BY Zenon DEF Closed
<1>0. b \in Nat /\ c \in Nat
  BY BucketFact
<1>1. ChkAt(l, i, t, a, b, P[b], Q[b]) /\ ChkAt(l, i, t, a, c, P[c], Q[c])
  BY Zenon
<1> QED BY <1>0, <1>1 DEF ChkAt, Loop, None

\* The next place and bucket of Walk
Onto(i, here, done) == IF i < N THEN here ELSE done
Up(i) == IF i < N THEN i + 1 ELSE 1

\* A loop goes to the next bucket, or is done at the last one.
LEMMA OntoFact ==
  ASSUME NEW i \in Buckets, NEW here, NEW done
  PROVE  /\ i < N => Onto(i, here, done) = here /\ Up(i) = i + 1 /\ i + 1 \in Buckets
         /\ ~(i < N) => Onto(i, here, done) = done /\ Up(i) = 1 /\ i = N
         /\ Up(i) \in Buckets
  BY BucketFact DEF Onto, Up

\* A request for the first a packets of t; the bytes a bucket records that grants it
Valid(t, m, a) == Sized(t) /\ a \in 1..Len(t) /\ (~m => Len(t) = 1)
Recorded(m, t, q) == IF m THEN q ELSE t[1]

\* The place after the last bucket granted a packets
Over(m, t, a) == IF m /\ Len(t) > a THEN "shrink" ELSE "inner"

\* A single packet, or a batch of which nothing was cut, is asked for as a whole.
LEMMA AllOf ==
  ASSUME NEW n \in Nat, NEW a \in Nat, NEW p \in Nat, 1 <= a, a <= n, p >= a, p <= n, n = 1 \/ ~(n > a)
  PROVE  a = n /\ p = a
  OBVIOUS

\* The bucket grants packets and bytes: what was held beside what is checked is now checked.
LEMMA GrantedAt ==
  ASSUME NEW l \in {"bytes", "unbyte"},
         NEW i, NEW t, NEW a, NEW k, NEW b, NEW p, NEW q, Seen(l, i, t, a, k, b, p, q),
         i \in Buckets, NEW m \in BOOLEAN, Valid(t, m, a), NEW j \in Nat,
         NEW p2, Put(p2, b, i, a, p), NEW q2, Put(q2, b, i, Recorded(m, t, q), q)
  PROVE  /\ ChkAt(Onto(i, "packets", Over(m, t, a)), Up(i), t, a, b, p2, q2)
         /\ Same(HP(Onto(i, "packets", Over(m, t, a)), Up(i), a, p2, b), HP(l, i, a, p, b))
         /\ Gains(HB(Onto(i, "packets", Over(m, t, a)), Up(i), t, a, j, p2, b), HB(l, i, t, a, k, p, b),
                  Share(b, i, t[a] - Rest(l, k)))
<1> DEFINE l2 == Onto(i, "packets", Over(m, t, a))
<1>0. /\ i \in Nat /\ b \in Nat /\ 1 <= b /\ b <= N /\ N \in Nat /\ 1 <= i /\ i <= N
      /\ k \in Nat /\ p \in Nat \cup {None} /\ ChkAt(l, i, t, a, b, p, q)
  BY BucketFact DEF Seen
<1>a. Sized(t) /\ a \in 1..Len(t) /\ (~m => Len(t) = 1)
  BY Zenon DEF Valid
<1>b. p2 = (IF b = i THEN a ELSE p) /\ q2 = IF b = i /\ ~m THEN t[1] ELSE q
  BY Zenon DEF Put, Recorded
<1>1. Len(t) \in Nat /\ t[a] \in Nat /\ a \in Nat /\ 1 <= a /\ a <= Len(t)
  BY <1>a, SizedFact
<1>2. p # None => p \in Nat /\ p \in 1..Len(t) /\ t[p] \in Nat
  <2>1. p # None => p \in 1..Len(t)
    BY Zenon, <1>0 DEF ChkAt
  <2> QED BY <1>a, <2>1, SizedFact
<1>3. ~m => t[1] = t[a]
  <2>1. Len(t) = 1 => a = 1
    BY <1>1
  <2> QED BY Zenon, <1>a, <2>1
<1>4. IF b < i THEN p >= a ELSE p = None
  BY Zenon, <1>0 DEF ChkAt, Loop
<1>6. b = i => p = None /\ q = None
  BY <1>0, <1>4 DEF ChkAt
<1>7. (p2 = None => q2 = None) /\ (p2 # None => p2 \in 1..Len(t) /\ q2 \in {None, t[p2]})
  <2>1. CASE b = i
    BY <1>1, <1>3, <1>6, <1>b, <2>1 DEF None
  <2>2. CASE b # i
    BY <1>0, <1>b, <2>2 DEF ChkAt
  <2> QED BY Zenon, <2>1, <2>2
<1>8. CASE i < N
  <2>1. l2 = "packets" /\ Up(i) = i + 1
    BY <1>8 DEF Onto, Up
  <2> HIDE DEF l2
  <2>2. ChkAt(l2, Up(i), t, a, b, p2, q2)
    BY <1>0, <1>1, <1>4, <1>7, <1>b, <2>1 DEF ChkAt, Loop, None
  <2>3. Same(HP(l2, Up(i), a, p2, b), HP(l, i, a, p, b))
    BY <1>0, <1>1, <1>2, <1>6, <1>b, <2>1 DEF HP, None, Same
  <2>4. Gains(HB(l2, Up(i), t, a, j, p2, b), HB(l, i, t, a, k, p, b), Share(b, i, t[a] - Rest(l, k)))
    BY SMTT(60), <1>0, <1>1, <1>2, <1>6, <1>b, <2>1 DEF HB, None, Share, Rest, Gains
  <2> QED BY Zenon, <2>2, <2>3, <2>4 DEF l2
<1>9. CASE ~(i < N)
  <2>1. l2 = Over(m, t, a) /\ Up(i) = 1 /\ i = N
    BY <1>0, <1>9 DEF Onto, Up
  <2> HIDE DEF l2
  <2>2. p2 # None /\ p2 >= a /\ p2 \in Nat /\ 1 <= p2 /\ p2 <= Len(t)
    BY <1>0, <1>1, <1>2, <1>4, <1>b, <2>1 DEF None
  <2>3. ChkAt(l2, Up(i), t, a, b, p2, q2)
    <3>1. CASE m /\ Len(t) > a
      <4>1. l2 = "shrink"
        BY Zenon, <2>1, <3>1 DEF Over
      <4> QED BY <1>0, <1>7, <2>1, <2>2, <4>1 DEF ChkAt, Loop
    <3>2. CASE ~(m /\ Len(t) > a)
      <4>0. (Len(t) = 1 \/ ~(Len(t) > a)) /\ l2 = "inner"
        BY Zenon, <1>a, <2>1, <3>2 DEF Over
      <4>1. a = Len(t) /\ p2 = a
        BY Zenon, <1>1, <2>2, <4>0, AllOf
      <4> QED BY <1>1, <1>7, <2>1, <2>2, <4>0, <4>1 DEF ChkAt, Loop
    <3> QED BY Zenon, <3>1, <3>2
  <2>4. l2 \in {"shrink", "inner"}
    BY <2>1 DEF Over
  <2>5. Same(HP(l2, Up(i), a, p2, b), HP(l, i, a, p, b))
    BY SMTT(60), <1>0, <1>1, <1>2, <1>6, <1>b, <2>2, <2>4 DEF HP, None, Same
  <2>6. Gains(HB(l2, Up(i), t, a, j, p2, b), HB(l, i, t, a, k, p, b), Share(b, i, t[a] - Rest(l, k)))
    BY SMTT(60), <1>0, <1>1, <1>2, <1>6, <1>b, <2>2, <2>4 DEF HB, None, Share, Rest, Gains
  <2> QED BY Zenon, <2>3, <2>5, <2>6 DEF l2
<1> QED BY Zenon, <1>8, <1>9

\* The bucket has packets but no bytes.
LEMMA RefusedAt ==
  ASSUME NEW i, NEW t, NEW a, NEW k, NEW b, NEW p, NEW q, Seen("bytes", i, t, a, k, b, p, q)
  PROVE  /\ ChkAt("refuse", i, t, a, b, p, q)
         /\ Same(HP("refuse", i, a, p, b), HP("bytes", i, a, p, b))
         /\ Same(HB("refuse", i, t, a, k, p, b), HB("bytes", i, t, a, k, p, b))
  BY DEF Seen, ChkAt, Loop, HP, HB, Same

\* The bucket has fewer bytes than asked for: the n it gave are held.
LEMMA TookBytesAt ==
  ASSUME NEW i, NEW t, NEW a, NEW k, NEW b, NEW p, NEW q, Seen("bytes", i, t, a, k, b, p, q),
         Sized(t), NEW n \in Nat
  PROVE  /\ ChkAt("unpack", i, t, a, b, p, q)
         /\ Same(HP("unpack", i, a, p, b), HP("bytes", i, a, p, b))
         /\ Gains(HB("unpack", i, t, a, n, p, b), HB("bytes", i, t, a, k, p, b), Share(b, i, n))
<1>0. i \in Nat /\ b \in Nat /\ k \in Nat /\ ChkAt("bytes", i, t, a, b, p, q)
  BY BucketFact DEF Seen
<1>1. p # None => t[p] \in Nat
  BY <1>0, SizedFact DEF ChkAt
<1>2. ChkAt("unpack", i, t, a, b, p, q) /\ Same(HP("unpack", i, a, p, b), HP("bytes", i, a, p, b))
  BY <1>0 DEF ChkAt, Loop, HP, Same
<1>3. Gains(HB("unpack", i, t, a, n, p, b), HB("bytes", i, t, a, k, p, b), Share(b, i, n))
  BY <1>0, <1>1 DEF HB, Share, Gains
<1> QED BY Zenon, <1>2, <1>3

\* The packets that the bytes do not reach for are given back.
LEMMA UnpackedAt ==
  ASSUME NEW i, NEW t, NEW a, NEW k, NEW b, NEW p, NEW q, Seen("unpack", i, t, a, k, b, p, q),
         NEW n \in Nat, n <= a
  PROVE  /\ ChkAt("unbyte", i, t, n, b, p, q)
         /\ Gains(HP("unpack", i, a, p, b), HP("unbyte", i, n, p, b), Share(b, i, a - n))
         /\ Same(HB("unbyte", i, t, n, k, p, b), HB("unpack", i, t, a, k, p, b))
<1>0. /\ i \in Nat /\ b \in Nat /\ a \in Nat /\ k \in Nat /\ p \in Nat \cup {None}
      /\ ChkAt("unpack", i, t, a, b, p, q)
  BY BucketFact DEF Seen
<1>1. ChkAt("unbyte", i, t, n, b, p, q)
  BY <1>0 DEF ChkAt, Loop, None
<1>2. Gains(HP("unpack", i, a, p, b), HP("unbyte", i, n, p, b), Share(b, i, a - n))
  BY <1>0 DEF HP, None, Share, Gains
<1>3. Same(HB("unbyte", i, t, n, k, p, b), HB("unpack", i, t, a, k, p, b))
  BY DEF HB, Same
<1> QED BY Zenon, <1>1, <1>2, <1>3

\* The bytes do not reach for a single packet, and total_size_v[usize::MAX] is out of bounds.
LEMMA PanicAt ==
  ASSUME NEW i, NEW t, NEW a, NEW k, NEW b, NEW p, NEW q, Seen("unbyte", i, t, a, k, b, p, q), Sized(t), a = 0
  PROVE  /\ ChkAt("panic", 1, t, a, b, p, q)
         /\ Same(HP("panic", 1, a, p, b), HP("unbyte", i, a, p, b))
         /\ HB("panic", 1, t, a, 0, p, b) <= HB("unbyte", i, t, a, k, p, b)
<1>0. k \in Nat /\ p \in Nat \cup {None} /\ ChkAt("unbyte", i, t, a, b, p, q)
  BY DEF Seen
<1>1. p # None => t[p] \in Nat
  BY <1>0, SizedFact DEF ChkAt
<1>2. ChkAt("panic", 1, t, a, b, p, q)
  BY <1>0 DEF ChkAt, Loop
<1>3. Same(HP("panic", 1, a, p, b), HP("unbyte", i, a, p, b))
  BY <1>0 DEF HP, None, Same
<1>4. HB("panic", 1, t, a, 0, p, b) <= HB("unbyte", i, t, a, k, p, b)
  BY <1>0, <1>1 DEF HB, None
<1> QED BY Zenon, <1>2, <1>3, <1>4

\* "shrink in time": the bucket gives back what later buckets did not grant.
LEMMA ShrunkAt ==
  ASSUME NEW i, NEW t, NEW a, NEW k, NEW b, NEW p, NEW q, Seen("shrink", i, t, a, k, b, p, q),
         i \in Buckets, Sized(t), a \in 1..Len(t),
         NEW p2, Put(p2, b, i, a, p), NEW q2, Put(q2, b, i, t[a], q)
  PROVE  /\ ChkAt(Onto(i, "shrink", "inner"), Up(i), t, a, b, p2, q2)
         /\ Gains(HP("shrink", i, a, p, b), HP(Onto(i, "shrink", "inner"), Up(i), a, p2, b), Share(b, i, p - a))
         /\ Gains(HB("shrink", i, t, a, k, p, b), HB(Onto(i, "shrink", "inner"), Up(i), t, a, k, p2, b),
                  Share(b, i, t[p] - t[a]))
<1> DEFINE l2 == Onto(i, "shrink", "inner")
<1>0. /\ i \in Nat /\ b \in Nat /\ 1 <= b /\ b <= N /\ N \in Nat /\ 1 <= i /\ i <= N
      /\ k \in Nat /\ p \in Nat \cup {None} /\ ChkAt("shrink", i, t, a, b, p, q)
  BY BucketFact DEF Seen
<1>1. Len(t) \in Nat /\ t[a] \in Nat /\ a \in Nat /\ 1 <= a /\ a <= Len(t)
  BY SizedFact
<1>2. IF b < i THEN p = a /\ q = t[a] ELSE p >= a
  BY <1>0 DEF ChkAt
<1>3. p # None /\ p >= a
  BY <1>1, <1>2 DEF None
<1>4. p \in 1..Len(t) /\ q \in {None, t[p]}
  BY Zenon, <1>0, <1>3 DEF ChkAt
<1>5. t[p] \in Nat /\ t[a] <= t[p] /\ p \in Nat
  <2>1. t[p] \in Nat /\ p \in Nat
    BY <1>4, SizedFact
  <2>2. a <= p
    BY <1>1, <1>3, <2>1
  <2>3. t[a] <= t[p]
    BY Zenon, <1>4, <2>2, SizedFact
  <2> QED BY Zenon, <2>1, <2>3
<1>b. p2 = (IF b = i THEN a ELSE p) /\ q2 = IF b = i THEN t[a] ELSE q
  BY Zenon DEF Put
<1>6. p2 # None /\ p2 \in 1..Len(t) /\ q2 \in {None, t[p2]} /\ t[p2] \in Nat
  BY SMTT(60), <1>1, <1>3, <1>4, <1>5, <1>b DEF None
<1>7. l2 \in {"shrink", "inner"} /\ (l2 = "shrink" => Up(i) = i + 1) /\ (l2 = "inner" => i = N)
  <2>1. (i < N => l2 = "shrink" /\ Up(i) = i + 1) /\ (~(i < N) => l2 = "inner" /\ i = N)
    BY Zenon, OntoFact
  <2> HIDE DEF l2
  <2> QED BY <2>1
<1> HIDE DEF l2
<1>8. ChkAt(l2, Up(i), t, a, b, p2, q2)
  BY <1>0, <1>1, <1>2, <1>3, <1>6, <1>7, <1>b DEF ChkAt, Loop
<1>9. Gains(HP("shrink", i, a, p, b), HP(l2, Up(i), a, p2, b), Share(b, i, p - a))
  BY SMTT(60), <1>1, <1>3, <1>5, <1>6, <1>7, <1>b DEF HP, Share, Gains
<1>10. Gains(HB("shrink", i, t, a, k, p, b), HB(l2, Up(i), t, a, k, p2, b), Share(b, i, t[p] - t[a]))
  BY <1>1, <1>3, <1>5, <1>6, <1>7, <1>b DEF HB, Share, Gains
<1> QED BY Zenon, <1>8, <1>9, <1>10 DEF l2

\* The inner socket sent n of the packets: set_advance will keep these.
LEMMA SentAt ==
  ASSUME NEW i, NEW t, NEW a, NEW k, NEW b, NEW p, NEW q, Seen("inner", i, t, a, k, b, p, q),
         Sized(t), a \in 1..Len(t), NEW n \in 1..a
  PROVE  /\ ChkAt("advance", 1, t, n, b, p, q)
         /\ HP("advance", 1, n, p, b) <= HP("inner", i, a, p, b)
         /\ HB("advance", 1, t, n, k, p, b) <= HB("inner", i, t, a, k, p, b)
<1>0. b \in Nat /\ 1 <= b /\ ChkAt("inner", i, t, a, b, p, q)
  BY BucketFact DEF Seen
<1>1. Len(t) \in Nat /\ t[a] \in Nat /\ a \in Nat /\ n \in Nat /\ n \in 1..Len(t)
  BY SizedFact
<1>2. t[n] \in Nat
  BY Zenon, <1>1, SizedFact
<1>3. p = a /\ p # None
  BY <1>0, <1>1 DEF ChkAt, None
<1>4. ChkAt("advance", 1, t, n, b, p, q)
  BY <1>0, <1>1, <1>3 DEF ChkAt, Loop
<1>5. HP("advance", 1, n, p, b) <= HP("inner", i, a, p, b)
  BY <1>1, <1>3 DEF HP
<1>6. HB("advance", 1, t, n, k, p, b) <= HB("inner", i, t, a, k, p, b)
  BY <1>1, <1>2, <1>3 DEF HB
<1> QED BY Zenon, <1>4, <1>5, <1>6

\* A bucket of a loop that gives back: these packets of it and their bytes stay charged
Keep(l, a) == IF l = "advance" THEN a ELSE 0
KeepBytes(l, t, a) == IF l = "advance" THEN t[a] ELSE 0

\* release_global and set_advance give the rest of the bucket back.
LEMMA GivenAt ==
  ASSUME NEW l \in {"release", "advance"},
         NEW i, NEW t, NEW a, NEW k, NEW b, NEW p, NEW q, Seen(l, i, t, a, k, b, p, q),
         i \in Buckets, Sized(t), a \in 1..Len(t), b = i => p # None,
         NEW u, NEW c, i < N => Same(u, t) /\ Same(c, a),
         NEW p2, Put(p2, b, i, None, p), NEW q2, Put(q2, b, i, None, q)
  PROVE  /\ ChkAt(Onto(i, l, "idle"), Up(i), u, c, b, p2, q2)
         /\ Gains(HP(l, i, a, p, b), HP(Onto(i, l, "idle"), Up(i), c, p2, b), Share(b, i, p - Keep(l, a)))
         /\ Gains(HB(l, i, t, a, k, p, b), HB(Onto(i, l, "idle"), Up(i), u, c, k, p2, b),
                  Share(b, i, t[p] - KeepBytes(l, t, a)))
<1> DEFINE l2 == Onto(i, l, "idle")
<1>0. /\ i \in Nat /\ b \in Nat /\ 1 <= b /\ b <= N /\ N \in Nat /\ 1 <= i /\ i <= N
      /\ k \in Nat /\ p \in Nat \cup {None} /\ ChkAt(l, i, t, a, b, p, q)
  BY BucketFact DEF Seen
<1>1. Len(t) \in Nat /\ t[a] \in Nat /\ a \in Nat
  BY SizedFact
<1>2. p # None => p \in 1..Len(t) /\ t[p] \in Nat /\ p \in Nat
  BY <1>0, SizedFact DEF ChkAt
<1>3. b < i => p = None
  BY <1>0 DEF ChkAt, None
<1>b. p2 = (IF b = i THEN None ELSE p) /\ q2 = IF b = i THEN None ELSE q
  BY Zenon DEF Put
<1>4. CASE i < N
  <2>1. l2 = l /\ Up(i) = i + 1 /\ u = t /\ c = a
    BY SMTT(60), <1>4 DEF Onto, Up, Same
  <2> HIDE DEF l2
  <2>2. ChkAt(l2, Up(i), u, c, b, p2, q2)
    BY SMTT(60), <1>0, <1>1, <1>3, <1>b, <2>1 DEF ChkAt, Loop, None
  <2>3. Gains(HP(l, i, a, p, b), HP(l2, Up(i), c, p2, b), Share(b, i, p - Keep(l, a)))
    BY SMTT(60), <1>1, <1>2, <1>b, <2>1 DEF HP, Keep, Share, Gains
  <2>4. Gains(HB(l, i, t, a, k, p, b), HB(l2, Up(i), u, c, k, p2, b), Share(b, i, t[p] - KeepBytes(l, t, a)))
    BY SMTT(60), <1>1, <1>2, <1>b, <2>1 DEF HB, KeepBytes, Share, Gains
  <2> QED BY Zenon, <2>2, <2>3, <2>4 DEF l2
<1>5. CASE ~(i < N)
  <2>1. l2 = "idle" /\ i = N
    BY <1>0, <1>5 DEF Onto, Up
  <2> HIDE DEF l2
  <2>2. p2 = None /\ (b # i => p = None)
    BY SMTT(60), <1>0, <1>3, <1>b, <2>1
  <2>3. q2 = None
    BY SMTT(60), <1>0, <1>3, <1>b, <2>1 DEF ChkAt
  <2>5. ChkAt(l2, Up(i), u, c, b, p2, q2)
    BY SMTT(60), <2>1, <2>2, <2>3 DEF ChkAt, Loop
  <2>6. Gains(HP(l, i, a, p, b), HP(l2, Up(i), c, p2, b), Share(b, i, p - Keep(l, a)))
    BY SMTT(60), <1>1, <1>2, <1>b, <2>1, <2>2 DEF HP, Keep, Share, Gains
  <2>7. Gains(HB(l, i, t, a, k, p, b), HB(l2, Up(i), u, c, k, p2, b), Share(b, i, t[p] - KeepBytes(l, t, a)))
    BY <1>1, <1>2, <1>b, <2>1, <2>2 DEF HB, KeepBytes, Share, Gains
  <2> QED BY Zenon, <2>5, <2>6, <2>7 DEF l2
<1> QED BY Zenon, <1>4, <1>5

\* release_global leaves the buckets that are checked first.
LEMMA GivenClosed ==
  ASSUME NEW i \in Buckets, i < N, NEW P \in Checks, Closed(i, P)
  PROVE  Closed(i + 1, [P EXCEPT ![i] = None])
<1> DEFINE R == [P EXCEPT ![i] = None]
<1> SUFFICES ASSUME NEW b \in Buckets, NEW c \in Buckets, i + 1 <= b, b <= c, R[b] = None PROVE R[c] = None
  BY Zenon DEF Closed
<1>0. i \in Nat /\ b \in Nat /\ c \in Nat
  BY BucketFact
<1>1. b # i /\ c # i /\ i <= b
  BY <1>0
<1>2. R[b] = P[b] /\ R[c] = P[c]
  BY Zenon, <1>1 DEF Checks
<1> HIDE DEF R
<1> QED BY Zenon, <1>1, <1>2 DEF Closed

\* At the first bucket that holds nothing for it a poll that releases holds nothing.
LEMMA ReleasedAll ==
  ASSUME NEW i, NEW t, NEW a, NEW k, NEW b, NEW P \in Checks, NEW q, Seen("release", i, t, a, k, b, P[b], q),
         i \in Buckets, Closed(i, P), P[i] = None, NEW u
  PROVE  /\ ChkAt("idle", 1, u, 0, b, P[b], q)
         /\ Same(HP("idle", 1, 0, P[b], b), HP("release", i, a, P[b], b))
         /\ Same(HB("idle", 1, u, 0, k, P[b], b), HB("release", i, t, a, k, P[b], b))
<1>0. i \in Nat /\ b \in Nat /\ b \in Buckets /\ ChkAt("release", i, t, a, b, P[b], q)
  BY BucketFact DEF Seen
<1>1. b < i => P[b] = None
  BY <1>0 DEF ChkAt
<1>2. i <= b => P[b] = None
  <2>1. i <= i
    BY <1>0
  <2> QED BY Zenon, <1>0, <2>1 DEF Closed
<1>3. P[b] = None /\ q = None
  BY SMTT(60), <1>0, <1>1, <1>2 DEF ChkAt
<1> QED BY <1>3 DEF ChkAt, Loop, HP, HB, Same

\* A poll that begins has nothing checked and holds nothing.
LEMMA BegunAt ==
  ASSUME NEW i, NEW t, NEW a, NEW k, NEW b \in Buckets, NEW p, NEW q, ChkAt("idle", i, t, a, b, p, q), NEW u, NEW n
  PROVE  /\ ChkAt("packets", 1, u, n, b, p, q)
         /\ HP("idle", i, a, p, b) \in Int /\ HB("idle", i, t, a, k, p, b) \in Int
         /\ Same(HP("packets", 1, n, p, b), HP("idle", i, a, p, b))
         /\ Same(HB("packets", 1, u, n, k, p, b), HB("idle", i, t, a, k, p, b))
<1>1. p = None /\ q = None
  BY DEF ChkAt
<1>2. b \in Nat /\ ~(b < 1)
  BY BucketFact
<1>3. HP("idle", i, a, p, b) = 0 /\ HB("idle", i, t, a, k, p, b) = 0
  BY <1>1 DEF HP, HB
<1>4. HP("packets", 1, n, p, b) = 0 /\ HB("packets", 1, u, n, k, p, b) = 0
  BY <1>1 DEF HP, HB
<1> QED BY <1>1, <1>2, <1>3, <1>4 DEF ChkAt, Loop, Same

-----------------------------------------------------------------------------
(* What a step of socket s makes of the variables *)

\* g is f with v at s
Upd(f, g, S, s, v) == g \in [Socks -> S] /\ g[s] = v /\ \A o \in Socks \ {s} : g[o] = f[o]

Moves(s, l, i) == Upd(pc, pc', Places, s, l) /\ Upd(idx, idx', Nat, s, i)
Counters(s, a, k) == Upd(adv, adv', Nat, s, a) /\ Upd(taken, taken', Nat, s, k)
Asks(s, t, m) == Upd(total, total', Seq(Nat), s, t) /\ Upd(batch, batch', BOOLEAN, s, m)
Checked(s, P, Q) ==
  /\ Upd(checked_packets, checked_packets', Checks, s, P)
  /\ Upd(checked_bytes, checked_bytes', Checks, s, Q)
Counts(s, cp, cb) ==
  /\ Upd(cur_packets, cur_packets', Nat, s, cp) /\ Upd(cur_bytes, cur_bytes', Nat, s, cb)
  /\ new_slice' \in [Socks -> BOOLEAN]

\* A field of one socket is set.
LEMMA UpdIs ==
  ASSUME NEW S, NEW f \in [Socks -> S], NEW s \in Socks, NEW v \in S, NEW g, g = [f EXCEPT ![s] = v]
  PROVE  Upd(f, g, S, s, v)
  BY DEF Upd

\* A field that does not change is set to what it was.
LEMMA UpdSame ==
  ASSUME NEW S, NEW f \in [Socks -> S], NEW s \in Socks, NEW g, g = f
  PROVE  Upd(f, g, S, s, f[s])
  BY Zenon DEF Upd

\* A field of one socket is set at one bucket.
LEMMA UpdAt ==
  ASSUME NEW f \in [Socks -> Checks], NEW s \in Socks, NEW b \in Buckets, NEW v \in Nat \cup {None},
         NEW g, g = [f EXCEPT ![s][b] = v]
  PROVE  Upd(f, g, Checks, s, [f[s] EXCEPT ![b] = v])
<1>1. f[s] \in Checks
  OBVIOUS
<1>2. [f[s] EXCEPT ![b] = v] \in Checks
  BY <1>1 DEF Checks
<1>3. g = [f EXCEPT ![s] = [f[s] EXCEPT ![b] = v]]
  OBVIOUS
<1> QED BY Zenon, <1>2, <1>3, UpdIs

\* What the inductive invariant says of one socket.
LEMMA Here ==
  ASSUME IInv, NEW s \in Socks
  PROVE  /\ pc[s] \in Places /\ idx[s] \in Nat /\ total[s] \in Seq(Nat) /\ batch[s] \in BOOLEAN
         /\ adv[s] \in Nat /\ taken[s] \in Nat /\ checked_packets[s] \in Checks /\ checked_bytes[s] \in Checks
         /\ cur_packets[s] \in Nat /\ cur_bytes[s] \in Nat
         /\ SockInv(s)
  BY Zenon DEF IInv, SockTypes

\* The poll goes to place l and stays at its bucket.
LEMMA StayIs ==
  ASSUME IInv, NEW s \in Socks, NEW l \in Places, Stay(s, l)
  PROVE  Moves(s, l, idx[s])
  BY Zenon, UpdIs, UpdSame DEF IInv, SockTypes, Stay, Moves

\* The poll goes to place l and to the first bucket.
LEMMA GotoIs ==
  ASSUME IInv, NEW s \in Socks, NEW l \in Places, Goto(s, l)
  PROVE  Moves(s, l, 1)
<1>1. 1 \in Nat
  OBVIOUS
<1> QED BY Zenon, <1>1, UpdIs DEF IInv, SockTypes, Goto, Moves

\* The loop goes to the next bucket, or the poll goes on after the last.
LEMMA WalkIs ==
  ASSUME IInv, NEW s \in Socks, NEW here \in Places, NEW done \in Places, Walk(s, here, done), idx[s] \in Buckets
  PROVE  Moves(s, Onto(idx[s], here, done), Up(idx[s]))
<1>1. Up(idx[s]) \in Nat /\ Onto(idx[s], here, done) \in Places
  BY Zenon, OntoFact, BucketFact
<1>2. /\ idx' = [idx EXCEPT ![s] = Up(idx[s])]
      /\ pc' = [pc EXCEPT ![s] = Onto(idx[s], here, done)]
  BY Zenon DEF Walk, Up, Onto
<1> QED BY Zenon, <1>1, <1>2, UpdIs DEF IInv, SockTypes, Moves

\* The request stays the same.
LEMMA SameAsks ==
  ASSUME IInv, NEW s \in Socks, UNCHANGED <<total, batch>>
  PROVE  Asks(s, total[s], batch[s])
  BY Zenon, UpdSame DEF IInv, SockTypes, Asks

\* What is checked stays the same.
LEMMA SameChecked ==
  ASSUME IInv, NEW s \in Socks, UNCHANGED checkedVars
  PROVE  Checked(s, checked_packets[s], checked_bytes[s])
  BY Zenon, UpdSame DEF IInv, SockTypes, checkedVars, Checked

\* The window stays the same.
LEMMA SameCounts ==
  ASSUME IInv, NEW s \in Socks, UNCHANGED localVars
  PROVE  Counts(s, cur_packets[s], cur_bytes[s])
  BY Zenon, UpdSame DEF IInv, SockTypes, localVars, Counts

\* The poll is cut to a packets.
LEMMA AdvIs ==
  ASSUME IInv, NEW s \in Socks, NEW a \in Nat, adv' = [adv EXCEPT ![s] = a], UNCHANGED taken
  PROVE  Counters(s, a, taken[s])
  BY Zenon, UpdIs, UpdSame DEF IInv, SockTypes, Counters

\* Neither the packets nor the bytes of the poll change.
LEMMA SameCounters ==
  ASSUME IInv, NEW s \in Socks, UNCHANGED <<adv, taken>>
  PROVE  Counters(s, adv[s], taken[s])
  BY Zenon, UpdSame DEF IInv, SockTypes, Counters

\* What is left of x when y, at most x, goes
LEMMA LeftIs == ASSUME NEW x \in Nat, NEW y \in Nat, Under(x, y) PROVE x - y \in Nat /\ x >= y
  BY DEF Under

\* The tokens of one bucket are a number.
LEMMA ShareInt == ASSUME NEW b, NEW i, NEW n \in Int PROVE Share(b, i, n) \in Int
  BY DEF Share

\* No bucket gets more when all of them stay as they are.
LEMMA KeptIs ==
  ASSUME NEW f \in [Buckets -> Nat], NEW i, NEW n \in Nat
  PROVE  \A c \in Buckets : f[c] <= f[c] + Share(c, i, n)
  BY DEF Share

\* What comes back of the k tokens taken for m leaves the bucket short of m - k, which is none or less.
LEMMA ReturnedIs ==
  ASSUME NEW x \in Nat, NEW y \in Nat, NEW k \in Nat, NEW m \in Nat, NEW b, NEW i, Gives(x, y, Share(b, i, k - m))
  PROVE  Takes(x, y, Share(b, i, m - k))
  BY DEF Gives, Takes, Share

\* set_advance keeps what is sent and release_global nothing: the rest of what a bucket has checked
LEMMA KeepInt ==
  ASSUME NEW l, NEW t, NEW a \in Nat, NEW c \in Nat, t[a] \in Nat, t[c] \in Nat
  PROVE  c - Keep(l, a) \in Int /\ t[c] - KeepBytes(l, t, a) \in Int
  BY DEF Keep, KeepBytes

\* is not negative,
LEMMA KeepIs ==
  ASSUME NEW l, NEW t, NEW a \in Nat, NEW c \in Nat, t[a] \in Nat, t[c] \in Nat,
         l = "advance" => c >= a, l = "advance" => t[c] >= t[a]
  PROVE  /\ c - Keep(l, a) \in Nat /\ t[c] - KeepBytes(l, t, a) \in Nat
         /\ KeepBytes(l, t, a) \in Nat /\ Keep(l, a) \in Nat
  BY DEF Keep, KeepBytes

\* and the bytes checked are those of the packets checked.
LEMMA KeepBytesIs ==
  ASSUME NEW z \in Nat, NEW k \in Nat, NEW q \in {None, z}
  PROVE  q > k => q - k = z - k
  BY DEF None

\* A poll that advances has packets checked at its bucket.
LEMMA AdvanceHas ==
  ASSUME NEW i \in Nat, NEW t, NEW a \in Nat, a >= 1, NEW q, ChkAt("advance", i, t, a, i, None, q)
  PROVE  FALSE
  BY DEF ChkAt, None

\* The places where a poll begins
LEMMA BeginsAt ==
  ASSUME NEW l \in {"inner", "packets"}
  PROVE  /\ l # "unpack" /\ l # "unbyte" /\ l # "release"
         /\ (N = 0 => l = "inner") => Placed(l, 1)
  BY BucketFact DEF Placed

\* Tokens added to bucket b, and tokens taken from it
LEMMA AddedIs ==
  ASSUME NEW f \in [Buckets -> Nat], NEW b \in Buckets, NEW n \in Nat, NEW burst \in Nat,
         NEW g, g = [f EXCEPT ![b] = Add(@, n, burst)]
  PROVE  g \in [Buckets -> Nat] /\ \A c \in Buckets : g[c] <= f[c] + Share(c, b, n)
<1>1. f[b] \in Nat /\ Add(f[b], n, burst) \in Nat /\ Add(f[b], n, burst) <= f[b] + n
  BY Zenon, AddIs
<1>2. ASSUME NEW c \in Buckets PROVE g[c] <= f[c] + Share(c, b, n)
  BY <1>1 DEF Share
<1>3. g \in [Buckets -> Nat]
  BY <1>1
<1> QED BY Zenon, <1>2, <1>3

\* try_consume takes n from one bucket and leaves the others.
LEMMA TakenIs ==
  ASSUME NEW f \in [Buckets -> Nat], NEW b \in Buckets, NEW n \in Nat, n <= f[b],
         NEW g, g = [f EXCEPT ![b] = @ - n]
  PROVE  g \in [Buckets -> Nat] /\ \A c \in Buckets : g[c] + Share(c, b, n) <= f[c]
<1>1. f[b] \in Nat /\ f[b] - n \in Nat
  OBVIOUS
<1>2. ASSUME NEW c \in Buckets PROVE g[c] + Share(c, b, n) <= f[c]
  BY <1>1 DEF Share
<1>3. g \in [Buckets -> Nat]
  BY <1>1
<1> QED BY Zenon, <1>2, <1>3

\* What is held is a number.
LEMMA HeldInt ==
  ASSUME NEW l, NEW i, NEW t, NEW m, NEW a, NEW k \in Nat, NEW b, NEW p \in Nat \cup {None}, NEW q,
         Req(l, t, m, a, k), ChkAt(l, i, t, a, b, p, q)
  PROVE  HP(l, i, a, p, b) \in Int /\ HB(l, i, t, a, k, p, b) \in Int
<1>1. CASE l = "idle"
  BY <1>1 DEF ChkAt, HP, HB
<1>2. CASE l # "idle"
  <2>1. Sized(t) /\ a \in 0..Len(t) /\ (l = "advance" => a >= 1)
    BY Zenon, <1>2 DEF Req
  <2>2. Len(t) \in Nat /\ (p # None => t[p] \in Nat) /\ (l = "advance" => t[a] \in Nat)
    BY <2>1, SizedFact DEF ChkAt
  <2> QED BY <2>1, <2>2 DEF HP, HB
<1> QED BY Zenon, <1>1, <1>2

\* A bucket has no more tokens, with what the step lets s hold of it, than before with what s held.
Fair(s, b, l, i, t, a, k, p) ==
  /\ RPackets > 0 =>
       Covers(packets[b], HP(pc[s], idx[s], adv[s], checked_packets[s][b], b), packets'[b], HP(l, i, a, p, b))
  /\ RBytes > 0 =>
       Covers(bytes[b], HB(pc[s], idx[s], total[s], adv[s], taken[s], checked_packets[s][b], b),
              bytes'[b], HB(l, i, t, a, k, p, b))

\* What RateKept says of a step of a socket
Charged ==
  \A b \in Buckets :
    \E s \in Socks :
      /\ RPackets > 0 => Packets(s, b)' <= Packets(s, b)
      /\ RBytes > 0 => Bytes(s, b)' <= Bytes(s, b)
      /\ \A o \in Socks \ {s} : /\ HeldPackets(o, b)' = HeldPackets(o, b)
                               /\ HeldBytes(o, b)' = HeldBytes(o, b)

\* What a socket holds depends on its own poll alone.
LEMMA HeldIs ==
  ASSUME NEW s, NEW b
  PROVE  /\ HeldPackets(s, b) = HP(pc[s], idx[s], adv[s], checked_packets[s][b], b)
         /\ HeldBytes(s, b) = HB(pc[s], idx[s], total[s], adv[s], taken[s], checked_packets[s][b], b)
  BY Zenon DEF HeldPackets, HeldBytes, HP, HB

\* The same after the step.
LEMMA HeldIsNext ==
  ASSUME NEW s, NEW b
  PROVE  /\ HeldPackets(s, b)' = HP(pc'[s], idx'[s], adv'[s], checked_packets'[s][b], b)
         /\ HeldBytes(s, b)' = HB(pc'[s], idx'[s], total'[s], adv'[s], taken'[s], checked_packets'[s][b], b)
  BY Zenon DEF HeldPackets, HeldBytes, HP, HB

\* A step of one socket that leaves its own poll, its buckets and its window right is one of the invariant.
LEMMA Step ==
  ASSUME IInv, NEW s \in Socks, NEW l, NEW i, NEW t, NEW m, NEW a, NEW k, NEW P, NEW Q, NEW cp, NEW cb,
         Moves(s, l, i), Counters(s, a, k), Asks(s, t, m), Checked(s, P, Q), Counts(s, cp, cb), Tokens',
         Req(l, t, m, a, k), Placed(l, i),
         \A b \in Buckets : ChkAt(l, i, t, a, b, P[b], Q[b]) /\ Fair(s, b, l, i, t, a, k, P[b]),
         l = "release" => Closed(i, P),
         WinOK(s, l, t, a, cp, cb)
  PROVE  IInv' /\ Charged
<1>1. SockTypes'
  BY Zenon DEF SockTypes, Moves, Counters, Asks, Checked, Counts, Upd
<1>2. /\ pc'[s] = l /\ idx'[s] = i /\ adv'[s] = a /\ taken'[s] = k /\ total'[s] = t /\ batch'[s] = m
      /\ checked_packets'[s] = P /\ checked_bytes'[s] = Q /\ cur_packets'[s] = cp /\ cur_bytes'[s] = cb
  BY Zenon DEF Moves, Counters, Asks, Checked, Counts, Upd
<1>3. ASSUME NEW o \in Socks \ {s}
      PROVE  /\ pc'[o] = pc[o] /\ idx'[o] = idx[o] /\ adv'[o] = adv[o] /\ taken'[o] = taken[o]
             /\ total'[o] = total[o] /\ batch'[o] = batch[o]
             /\ checked_packets'[o] = checked_packets[o] /\ checked_bytes'[o] = checked_bytes[o]
             /\ cur_packets'[o] = cur_packets[o] /\ cur_bytes'[o] = cur_bytes[o]
  BY Zenon DEF Moves, Counters, Asks, Checked, Counts, Upd
<1>4. SockInv(s)'
  BY Zenon, <1>2 DEF SockInv
<1>5. ASSUME NEW o \in Socks \ {s} PROVE SockInv(o)'
  <2>1. SockInv(o)
    BY Zenon DEF IInv
  <2> QED BY Zenon, <1>3, <2>1 DEF SockInv
<1>6. IInv'
  BY Zenon, <1>1, <1>4, <1>5 DEF IInv
<1>7. ASSUME NEW b \in Buckets
      PROVE  /\ RPackets > 0 => Packets(s, b)' <= Packets(s, b)
             /\ RBytes > 0 => Bytes(s, b)' <= Bytes(s, b)
             /\ \A o \in Socks \ {s} : /\ HeldPackets(o, b)' = HeldPackets(o, b)
                                      /\ HeldBytes(o, b)' = HeldBytes(o, b)
  <2>1. Fair(s, b, l, i, t, a, k, P[b])
    BY Zenon
  <2>2. Packets(s, b)' = packets'[b] + HeldPackets(s, b)' /\ Bytes(s, b)' = bytes'[b] + HeldBytes(s, b)'
    BY Zenon DEF Packets, Bytes
  <2>3. /\ RPackets > 0 => Packets(s, b)' <= Packets(s, b)
        /\ RBytes > 0 => Bytes(s, b)' <= Bytes(s, b)
    BY Zenon, <1>2, <2>1, <2>2, HeldIs, HeldIsNext DEF Fair, Covers, Packets, Bytes
  <2>4. ASSUME NEW o \in Socks \ {s}
        PROVE  HeldPackets(o, b)' = HeldPackets(o, b) /\ HeldBytes(o, b)' = HeldBytes(o, b)
    <3>1. HeldPackets(o, b)' = HP(pc[o], idx[o], adv[o], checked_packets[o][b], b)
      BY Zenon, <1>3, <2>4, HeldIsNext
    <3>2. HeldBytes(o, b)' = HB(pc[o], idx[o], total[o], adv[o], taken[o], checked_packets[o][b], b)
      BY Zenon, <1>3, <2>4, HeldIsNext
    <3> QED BY Zenon, <3>1, <3>2, HeldIs
  <2> QED BY Zenon, <2>3, <2>4
<1> QED BY Zenon, <1>6, <1>7 DEF Charged

\* The window, when the step leaves it and asks for no more than before
LEMMA WinKept ==
  ASSUME IInv, NEW s \in Socks, NEW l, NEW t, NEW a \in Nat,
         l \in Asking => pc[s] \in Asking /\ t = total[s] /\ a <= adv[s]
  PROVE  WinOK(s, l, t, a, cur_packets[s], cur_bytes[s])
<1> SUFFICES ASSUME Local(s) PROVE Counted(cur_packets[s], cur_bytes[s])
                                   /\ (l \in Asking => Room(t, a, cur_packets[s], cur_bytes[s]))
  BY Zenon DEF WinOK
<1>1. Counted(cur_packets[s], cur_bytes[s]) /\ (pc[s] \in Asking => Room(total[s], adv[s], cur_packets[s], cur_bytes[s]))
  BY Zenon, Here DEF SockInv, WinOK
<1>2. ASSUME l \in Asking PROVE Room(t, a, cur_packets[s], cur_bytes[s])
  <2> DEFINE u == total[s]
             c == adv[s]
             x == cur_packets[s]
             y == cur_bytes[s]
  <2>1. pc[s] # "idle"
    BY <1>2 DEF Asking, Loop
  <2>2. Sized(u) /\ c \in 0..Len(u) /\ t = u /\ a <= c /\ Room(u, c, x, y)
    BY Zenon, <1>1, <1>2, <2>1, Here DEF SockInv, Req
  <2>3. c \in Nat /\ x \in Nat /\ y \in Nat
    BY Zenon, Here
  <2> HIDE DEF u, c, x, y
  <2>4. a > 0 => u[a] \in Nat /\ u[c] \in Nat /\ u[a] <= u[c]
    <3> SUFFICES ASSUME a > 0 PROVE u[a] \in Nat /\ u[c] \in Nat /\ u[a] <= u[c]
      BY SMTT(60)
    <3>1. a \in 1..Len(u) /\ c \in 1..Len(u)
      BY <2>2, <2>3, SizedFact
    <3> QED BY Zenon, <2>2, <3>1, SizedFact
  <2>5. MaxPackets \in Nat /\ MaxBytes \in Nat
    BY Zenon, DatagramLimitAssumption DEF Bounds
  <2>6. Room(u, a, x, y)
    BY SMTT(60), <2>2, <2>3, <2>4, <2>5 DEF Room
  <2> QED BY Zenon, <2>2, <2>6 DEF u, x, y
<1> QED BY Zenon, <1>1, <1>2

\* What a poll that has begun knows
LEMMA Begun ==
  ASSUME IInv, NEW s \in Socks, pc[s] \notin {"idle", "unbyte", "panic"}
  PROVE  /\ Sized(total[s]) /\ adv[s] \in 1..Len(total[s]) /\ (~batch[s] => Len(total[s]) = 1)
         /\ NoneEmpty => total[s][1] > 0
         /\ adv[s] \in Nat /\ adv[s] >= 1 /\ total[s][adv[s]] \in Nat /\ taken[s] \in Nat
         /\ pc[s] # "inner" => idx[s] \in Buckets
<1>1. /\ Sized(total[s]) /\ adv[s] \in 0..Len(total[s]) /\ (~batch[s] => Len(total[s]) = 1) /\ adv[s] >= 1
      /\ NoneEmpty => total[s][1] > 0
      /\ adv[s] \in Nat /\ taken[s] \in Nat
  BY SMTT(60), Here DEF SockInv, Req
<1>2. adv[s] \in 1..Len(total[s])
  BY <1>1, SizedFact
<1>3. pc[s] # "inner" => idx[s] \in Buckets
  BY Zenon, Here DEF SockInv, Placed
<1> QED BY Zenon, <1>1, <1>2, <1>3, SizedFact

\* What it knows of a bucket
LEMMA Old ==
  ASSUME IInv, NEW s \in Socks, NEW b \in Buckets
  PROVE  /\ Seen(pc[s], idx[s], total[s], adv[s], taken[s], b, checked_packets[s][b], checked_bytes[s][b])
         /\ packets[b] \in Nat /\ bytes[b] \in Nat
         /\ HP(pc[s], idx[s], adv[s], checked_packets[s][b], b) \in Int
         /\ HB(pc[s], idx[s], total[s], adv[s], taken[s], checked_packets[s][b], b) \in Int
<1>1. packets[b] \in Nat /\ bytes[b] \in Nat
  BY Zenon DEF IInv, Tokens
<1>2. checked_packets[s][b] \in Nat \cup {None} /\ idx[s] \in Nat /\ adv[s] \in Nat /\ taken[s] \in Nat
  BY Zenon, Here DEF Checks
<1>3. ChkAt(pc[s], idx[s], total[s], adv[s], b, checked_packets[s][b], checked_bytes[s][b])
  BY Zenon, Here DEF SockInv
<1>4. Req(pc[s], total[s], batch[s], adv[s], taken[s])
  BY Zenon, Here DEF SockInv
<1>5. Seen(pc[s], idx[s], total[s], adv[s], taken[s], b, checked_packets[s][b], checked_bytes[s][b])
  BY Zenon, <1>2, <1>3 DEF Seen
<1> QED BY Zenon, <1>1, <1>2, <1>3, <1>4, <1>5, HeldInt

-----------------------------------------------------------------------------
(* The steps of a poll *)

\* The packets of a bucket are taken, or not limited
LEMMA TakePacketsGoes ==
  ASSUME IInv, NEW s \in Socks, pc[s] = "packets", NEW n \in Nat, 1 <= n, n <= adv[s],
         Moves(s, "bytes", idx[s]), Counters(s, n, taken[s]), UNCHANGED <<total, batch, checkedVars, localVars, bytes>>,
         packets' \in [Buckets -> Nat],
         \A b \in Buckets : RPackets > 0 => packets'[b] + Share(b, idx[s], n) <= packets[b]
  PROVE  IInv' /\ Charged
<1>1. /\ Sized(total[s]) /\ adv[s] \in 1..Len(total[s]) /\ (~batch[s] => Len(total[s]) = 1)
      /\ NoneEmpty => total[s][1] > 0
      /\ adv[s] \in Nat /\ taken[s] \in Nat /\ idx[s] \in Buckets
  BY Zenon, Begun, Here
<1>2. n \in 0..Len(total[s])
  BY SMTT(60), <1>1, SizedFact
<1>3. Req("bytes", total[s], batch[s], n, taken[s]) /\ Placed("bytes", idx[s])
  BY <1>1, <1>2 DEF Req, Placed
<1>4. ASSUME NEW b \in Buckets
      PROVE  /\ ChkAt("bytes", idx[s], total[s], n, b, checked_packets[s][b], checked_bytes[s][b])
             /\ Fair(s, b, "bytes", idx[s], total[s], n, taken[s], checked_packets[s][b])
  <2> DEFINE p == checked_packets[s][b]
             q == checked_bytes[s][b]
  <2>1. /\ Seen("packets", idx[s], total[s], adv[s], taken[s], b, p, q)
        /\ packets[b] \in Nat /\ bytes[b] \in Nat
        /\ HP("packets", idx[s], adv[s], p, b) \in Int
        /\ HB("packets", idx[s], total[s], adv[s], taken[s], p, b) \in Int
    BY Zenon, Old
  <2> HIDE DEF p, q
  <2>2. /\ ChkAt("bytes", idx[s], total[s], n, b, p, q)
        /\ Gains(HP("bytes", idx[s], n, p, b), HP("packets", idx[s], adv[s], p, b), Share(b, idx[s], n))
        /\ Same(HB("bytes", idx[s], total[s], n, taken[s], p, b), HB("packets", idx[s], total[s], adv[s], taken[s], p, b))
    BY Zenon, <1>1, <2>1, TookPacketsAt
  <2>3. packets'[b] \in Nat /\ bytes'[b] = bytes[b]
        /\ (RPackets > 0 => packets'[b] + Share(b, idx[s], n) <= packets[b])
    BY Zenon
  <2>4. Fair(s, b, "bytes", idx[s], total[s], n, taken[s], p)
    <3>1. RPackets > 0 => Covers(packets[b], HP("packets", idx[s], adv[s], p, b), packets'[b], HP("bytes", idx[s], n, p, b))
      <4>1. RPackets > 0 => Takes(packets[b], packets'[b], Share(b, idx[s], n))
        BY Zenon, <2>3 DEF Takes
      <4>2. Share(b, idx[s], n) \in Int
        BY DEF Share
      <4> QED BY Zenon, <2>1, <2>2, <2>3, <4>1, <4>2, CoversTaken
    <3>2. Covers(bytes[b], HB("packets", idx[s], total[s], adv[s], taken[s], p, b),
                 bytes'[b], HB("bytes", idx[s], total[s], n, taken[s], p, b))
      <4>1. Same(bytes'[b], bytes[b])
        BY Zenon, <2>3 DEF Same
      <4> QED BY Zenon, <2>3, <2>1, <2>2, <4>1, CoversSame
    <3> QED BY Zenon, <3>1, <3>2 DEF Fair, p
  <2> QED BY Zenon, <2>2, <2>4 DEF p, q
<1>5. WinOK(s, "bytes", total[s], n, cur_packets[s], cur_bytes[s])
  <2>1. pc[s] \in Asking
    BY DEF Asking, Loop
  <2> QED BY Zenon, <2>1, WinKept
<1>6. Tokens'
  BY Zenon DEF IInv, Tokens
<1>7. /\ Asks(s, total[s], batch[s]) /\ Checked(s, checked_packets[s], checked_bytes[s])
      /\ Counts(s, cur_packets[s], cur_bytes[s])
  BY Zenon, SameAsks, SameChecked, SameCounts
<1> QED BY Zenon, <1>3, <1>4, <1>5, <1>6, <1>7, Step

\* The poll is to release its buckets: what bucket idx gave and is not checked goes back
LEMMA ReleaseGoes ==
  ASSUME IInv, NEW s \in Socks, pc[s] \in {"packets", "refuse", "inner"}, Goto(s, "release"), N # 0,
         UNCHANGED <<total, batch, adv, taken, checkedVars, localVars, bytes>>,
         packets' \in [Buckets -> Nat],
         \A b \in Buckets :
           RPackets > 0 => packets'[b] <= packets[b] + Share(b, idx[s], Back(pc[s], adv[s]))
  PROVE  IInv' /\ Charged
<1>1. /\ Sized(total[s]) /\ adv[s] \in 1..Len(total[s]) /\ (~batch[s] => Len(total[s]) = 1)
      /\ NoneEmpty => total[s][1] > 0
      /\ adv[s] \in Nat /\ taken[s] \in Nat /\ idx[s] \in Nat
  BY Zenon, Begun, Here
<1>3. Req("release", total[s], batch[s], adv[s], taken[s])
  BY SMTT(60), <1>1, SizedFact DEF Req
<1>2. Placed("release", 1)
  BY BucketFact DEF Placed
<1>4. ASSUME NEW b \in Buckets
      PROVE  /\ ChkAt("release", 1, total[s], adv[s], b, checked_packets[s][b], checked_bytes[s][b])
             /\ Fair(s, b, "release", 1, total[s], adv[s], taken[s], checked_packets[s][b])
  <2> DEFINE p == checked_packets[s][b]
             q == checked_bytes[s][b]
             l == pc[s]
  <2>1. /\ Seen(l, idx[s], total[s], adv[s], taken[s], b, p, q)
        /\ packets[b] \in Nat /\ bytes[b] \in Nat
        /\ HP(l, idx[s], adv[s], p, b) \in Int
        /\ HB(l, idx[s], total[s], adv[s], taken[s], p, b) \in Int
    BY Zenon, Old
  <2>2. /\ packets'[b] \in Nat /\ bytes'[b] = bytes[b]
        /\ (RPackets > 0 => packets'[b] <= packets[b] + Share(b, idx[s], Back(l, adv[s])))
        /\ l \in {"packets", "refuse", "inner"}
    BY Zenon
  <2> HIDE DEF p, q, l
  <2>3. /\ ChkAt("release", 1, total[s], adv[s], b, p, q)
        /\ Gains(HP(l, idx[s], adv[s], p, b), HP("release", 1, adv[s], p, b), Share(b, idx[s], Back(l, adv[s])))
        /\ Same(HB("release", 1, total[s], adv[s], taken[s], p, b), HB(l, idx[s], total[s], adv[s], taken[s], p, b))
    BY Zenon, <1>1, <2>1, <2>2, ReleasedAt
  <2>4. HP("release", 1, adv[s], p, b) \in Int
    BY Zenon, <1>1, <1>3, <2>1, <2>3, HeldInt DEF Seen
  <2>5. Fair(s, b, "release", 1, total[s], adv[s], taken[s], p)
    <3>1. RPackets > 0 => Covers(packets[b], HP(l, idx[s], adv[s], p, b), packets'[b], HP("release", 1, adv[s], p, b))
      <4>1. RPackets > 0 => Gives(packets[b], packets'[b], Share(b, idx[s], Back(l, adv[s])))
        BY Zenon, <2>2 DEF Gives
      <4>2. Share(b, idx[s], Back(l, adv[s])) \in Int
        BY <1>1 DEF Share, Back
      <4> QED BY Zenon, <2>1, <2>2, <2>3, <2>4, <4>1, <4>2, CoversGiven
    <3>2. Covers(bytes[b], HB(l, idx[s], total[s], adv[s], taken[s], p, b),
                 bytes'[b], HB("release", 1, total[s], adv[s], taken[s], p, b))
      <4>1. Same(bytes'[b], bytes[b])
        BY Zenon, <2>2 DEF Same
      <4> QED BY Zenon, <2>2, <2>1, <2>3, <4>1, CoversSame
    <3> QED BY Zenon, <3>1, <3>2 DEF Fair, p, l
  <2> QED BY Zenon, <2>3, <2>5 DEF p, q
<1>5. Closed(1, checked_packets[s])
  <2>1. /\ checked_packets[s] \in Checks
        /\ \A b \in Buckets :
             ChkAt(pc[s], idx[s], total[s], adv[s], b, checked_packets[s][b], checked_bytes[s][b])
    BY Zenon, Here DEF SockInv
  <2> QED BY Zenon, <1>1, <2>1, ReleasedClosed
<1>6. WinOK(s, "release", total[s], adv[s], cur_packets[s], cur_bytes[s])
  <2>1. "release" \notin Asking
    BY DEF Asking, Loop
  <2> QED BY Zenon, <1>1, <2>1, WinKept
<1>7. Tokens'
  BY Zenon DEF IInv, Tokens
<1>8. /\ Asks(s, total[s], batch[s]) /\ Checked(s, checked_packets[s], checked_bytes[s])
      /\ Counts(s, cur_packets[s], cur_bytes[s]) /\ Counters(s, adv[s], taken[s])
  BY Zenon, SameAsks, SameChecked, SameCounts, SameCounters
<1>9. Moves(s, "release", 1)
  <2>1. "release" \in Places
    BY DEF Places
  <2> QED BY Zenon, <2>1, GotoIs
<1> QED BY Zenon, <1>2, <1>3, <1>4, <1>5, <1>6, <1>7, <1>8, <1>9, Step

\* check_packets of GlobalDatagramLimiter asks a bucket for packets.
LEMMA TakePacketsStep == ASSUME IInv, NEW s \in Socks, TakePackets(s) PROVE IInv' /\ Charged
<1> DEFINE n == Min({adv[s], packets[idx[s]]})
<1>0. /\ pc[s] = "packets" /\ UNCHANGED <<bytes, total, batch, taken, checkedVars, localVars>>
      /\ \/ RPackets = 0 /\ Stay(s, "bytes") /\ UNCHANGED <<packets, adv>>
         \/ RPackets # 0 /\ packets[idx[s]] = 0 /\ Goto(s, "release") /\ UNCHANGED <<packets, adv>>
         \/ /\ RPackets # 0 /\ packets[idx[s]] # 0
            /\ packets' = [packets EXCEPT ![idx[s]] = @ - n]
            /\ adv' = [adv EXCEPT ![s] = n] /\ Stay(s, "bytes")
  BY Zenon DEF TakePackets
<1>1. idx[s] \in Buckets /\ adv[s] \in Nat /\ packets \in [Buckets -> Nat] /\ RPackets \in Nat
  <2>1. pc[s] \notin {"idle", "unbyte", "panic"} /\ pc[s] # "inner"
    BY SMTT(60), <1>0
  <2> QED BY Zenon, <2>1, Begun, DatagramLimitAssumption DEF IInv, Tokens, Bounds
<1>2. packets[idx[s]] \in Nat /\ adv[s] >= 1 /\ N # 0
  BY SMTT(60), <1>0, <1>1, Begun, BucketFact
<1>3. "bytes" \in Places
  BY DEF Places
<1>4. CASE RPackets = 0 /\ Stay(s, "bytes") /\ UNCHANGED <<packets, adv>>
  <2>1. Moves(s, "bytes", idx[s]) /\ Counters(s, adv[s], taken[s])
    BY Zenon, <1>0, <1>3, <1>4, StayIs, SameCounters
  <2>2. 1 <= adv[s] /\ adv[s] <= adv[s] /\ ~(RPackets > 0)
    BY SMTT(60), <1>1, <1>2, <1>4
  <2> QED BY Zenon, <1>0, <1>1, <1>4, <2>1, <2>2, TakePacketsGoes
<1>5. CASE RPackets # 0 /\ packets[idx[s]] = 0 /\ Goto(s, "release") /\ UNCHANGED <<packets, adv>>
  <2>1. \A b \in Buckets : packets'[b] <= packets[b] + Share(b, idx[s], Back(pc[s], adv[s]))
    BY SMTT(60), <1>0, <1>1, <1>5 DEF Share, Back
  <2> QED BY Zenon, <1>0, <1>1, <1>2, <1>5, <2>1, ReleaseGoes
<1>6. CASE /\ RPackets # 0 /\ packets[idx[s]] # 0
           /\ packets' = [packets EXCEPT ![idx[s]] = @ - n]
           /\ adv' = [adv EXCEPT ![s] = n] /\ Stay(s, "bytes")
  <2>1. n \in Nat /\ 1 <= n /\ n <= adv[s] /\ n <= packets[idx[s]]
    BY SMTT(60), <1>1, <1>2, <1>6, MinIs
  <2> HIDE DEF n
  <2>2. Moves(s, "bytes", idx[s]) /\ Counters(s, n, taken[s])
    BY Zenon, <1>0, <1>3, <1>6, <2>1, StayIs, AdvIs
  <2>3. packets' \in [Buckets -> Nat] /\ \A b \in Buckets : packets'[b] + Share(b, idx[s], n) <= packets[b]
    BY Zenon, <1>1, <1>6, <2>1, TakenIs
  <2> QED BY Zenon, <1>0, <2>1, <2>2, <2>3, TakePacketsGoes
<1> HIDE DEF n
<1> QED BY Zenon, <1>0, <1>4, <1>5, <1>6

\* What a poll knows of its request
LEMMA Asked ==
  ASSUME IInv, NEW s \in Socks, pc[s] # "idle"
  PROVE  /\ Sized(total[s]) /\ adv[s] \in 0..Len(total[s]) /\ (~batch[s] => Len(total[s]) = 1)
         /\ NoneEmpty => total[s][1] > 0
         /\ adv[s] \in Nat /\ taken[s] \in Nat /\ batch[s] \in BOOLEAN /\ idx[s] \in Nat
         /\ pc[s] # "inner" => idx[s] \in Buckets
<1>1. Req(pc[s], total[s], batch[s], adv[s], taken[s]) /\ Placed(pc[s], idx[s])
  BY Zenon, Here DEF SockInv
<1> QED BY Zenon, <1>1, Here DEF Req, Placed

\* The bucket grants the packets: the tokens for their bytes are taken
LEMMA GrantedGoes ==
  ASSUME IInv, NEW s \in Socks, pc[s] \in {"bytes", "unbyte"}, adv[s] # 0, Granted(s, adv[s]),
         UNCHANGED <<packets, total, batch, localVars>>, NEW j \in Nat, Upd(taken, taken', Nat, s, j),
         bytes' \in [Buckets -> Nat],
         \A b \in Buckets :
           RBytes > 0 => bytes'[b] + Share(b, idx[s], total[s][adv[s]] - Rest(pc[s], taken[s])) <= bytes[b]
  PROVE  IInv' /\ Charged
<1> DEFINE l == pc[s]
           i == idx[s]
           t == total[s]
           m == batch[s]
           a == adv[s]
           k == taken[s]
           l2 == Onto(i, "packets", Over(m, t, a))
           P2 == [checked_packets[s] EXCEPT ![i] = a]
           Q2 == IF m THEN checked_bytes[s] ELSE [checked_bytes[s] EXCEPT ![i] = t[1]]
<1>1. /\ Sized(t) /\ a \in 0..Len(t) /\ (~m => Len(t) = 1) /\ (NoneEmpty => t[1] > 0)
      /\ a \in Nat /\ k \in Nat /\ m \in BOOLEAN /\ i \in Buckets
  <2>1. pc[s] # "idle" /\ pc[s] # "inner"
    BY SMTT(60)
  <2> QED BY Zenon, <2>1, Asked
<1>2. /\ a \in 1..Len(t) /\ t[a] \in Nat /\ t[1] \in Nat /\ a >= 1
  BY SMTT(60), <1>1, SizedFact
<1>v. Valid(t, m, a)
  BY Zenon, <1>1, <1>2 DEF Valid
<1>i. i \in Buckets /\ m \in BOOLEAN
  BY Zenon, <1>1
<1>3. Over(m, t, a) \in {"shrink", "inner"} /\ Over(m, t, a) \in Places /\ "packets" \in Places
  BY DEF Over, Places
<1>4. Moves(s, l2, Up(i))
  <2>1. Walk(s, "packets", Over(m, t, a))
    BY Zenon DEF Granted, Over
  <2> QED BY Zenon, <1>1, <1>3, <2>1, WalkIs
<1>5. Checked(s, P2, Q2)
  <2>1. Upd(checked_packets, checked_packets', Checks, s, P2)
    <3>1. checked_packets \in [Socks -> Checks] /\ a \in Nat \cup {None}
      BY Zenon, <1>1 DEF IInv, SockTypes
    <3> QED BY Zenon, <1>1, <3>1, UpdAt DEF Granted
  <2>2. Upd(checked_bytes, checked_bytes', Checks, s, Q2)
    <3>1. checked_bytes \in [Socks -> Checks] /\ t[1] \in Nat \cup {None}
      BY Zenon, <1>2 DEF IInv, SockTypes
    <3>2. CASE m
      <4>1. checked_bytes' = checked_bytes /\ Q2 = checked_bytes[s]
        BY Zenon, <3>2 DEF Granted
      <4> HIDE DEF Q2
      <4> QED BY Zenon, <3>1, <4>1, UpdSame
    <3>3. CASE ~m
      <4>1. checked_bytes' = [checked_bytes EXCEPT ![s][i] = t[1]] /\ Q2 = [checked_bytes[s] EXCEPT ![i] = t[1]]
        BY Zenon, <3>3 DEF Granted
      <4> HIDE DEF Q2
      <4>2. Upd(checked_bytes, checked_bytes', Checks, s, [checked_bytes[s] EXCEPT ![i] = t[1]])
        BY Zenon, <1>i, <3>1, <4>1, UpdAt
      <4> QED BY Zenon, <4>1, <4>2
    <3> QED BY Zenon, <3>2, <3>3
  <2> QED BY Zenon, <2>1, <2>2 DEF Checked
<1>6. Counters(s, a, j) /\ Asks(s, t, m) /\ Counts(s, cur_packets[s], cur_bytes[s])
  <2>1. adv' = [adv EXCEPT ![s] = a] /\ adv \in [Socks -> Nat]
    BY Zenon DEF Granted, IInv, SockTypes
  <2> QED BY Zenon, <1>1, <2>1, UpdIs, SameAsks, SameCounts DEF Counters
<1>7. Tokens'
  BY Zenon DEF IInv, Tokens
<1>8. l2 \in {"packets", "shrink", "inner"}
  BY <1>3 DEF Onto
<1>9. Req(l2, t, m, a, j) /\ Placed(l2, Up(i))
  <2>1. Up(i) \in Buckets
    BY Zenon, <1>1, OntoFact
  <2> HIDE DEF t, m, a, l2
  <2>2. l2 \notin {"idle", "unbyte", "panic", "unpack"}
    BY <1>8
  <2> QED BY Zenon, <1>1, <1>2, <2>1, <2>2 DEF Req, Placed
<1>10. ASSUME NEW b \in Buckets
       PROVE  ChkAt(l2, Up(i), t, a, b, P2[b], Q2[b]) /\ Fair(s, b, l2, Up(i), t, a, j, P2[b])
  <2> DEFINE p == checked_packets[s][b]
             q == checked_bytes[s][b]
             p2 == P2[b]
             q2 == Q2[b]
  <2>1. Seen(l, i, t, a, k, b, p, q)
    BY Zenon, Old
  <2>2. packets[b] \in Nat /\ bytes[b] \in Nat /\ HP(l, i, a, p, b) \in Int /\ HB(l, i, t, a, k, p, b) \in Int
    BY Zenon, Old
  <2>3. packets'[b] = packets[b] /\ bytes'[b] \in Nat
        /\ (RBytes > 0 => bytes'[b] + Share(b, i, t[a] - Rest(l, k)) <= bytes[b])
    BY Zenon
  <2>4. checked_packets[s] \in Checks /\ checked_bytes[s] \in Checks
    BY Zenon, Here
  <2>5. Put(p2, b, i, a, p) /\ Put(q2, b, i, Recorded(m, t, q), q)
    BY Zenon, <2>4 DEF Checks, Put, Recorded
  <2>6. l \in {"bytes", "unbyte"}
    OBVIOUS
  <2> HIDE DEF l, i, t, m, a, k, p, q, p2, q2, P2, Q2, l2
  <2>7. /\ ChkAt(l2, Up(i), t, a, b, p2, q2)
        /\ Same(HP(l2, Up(i), a, p2, b), HP(l, i, a, p, b))
        /\ Gains(HB(l2, Up(i), t, a, j, p2, b), HB(l, i, t, a, k, p, b), Share(b, i, t[a] - Rest(l, k)))
    BY Zenon, <1>v, <1>i, <2>1, <2>5, <2>6, GrantedAt DEF l2
  <2>8. Share(b, i, t[a] - Rest(l, k)) \in Int
    BY <1>1, <1>2 DEF Share, Rest
  <2>9. Covers(packets[b], HP(l, i, a, p, b), packets'[b], HP(l2, Up(i), a, p2, b))
    <3>1. Same(packets'[b], packets[b])
      BY Zenon, <2>3 DEF Same
    <3> QED BY Zenon, <2>3, <2>2, <2>7, <3>1, CoversSame
  <2>10. RBytes > 0 => Covers(bytes[b], HB(l, i, t, a, k, p, b), bytes'[b], HB(l2, Up(i), t, a, j, p2, b))
    <3>1. RBytes > 0 => Takes(bytes[b], bytes'[b], Share(b, i, t[a] - Rest(l, k)))
      BY Zenon, <2>3 DEF Takes
    <3> QED BY Zenon, <2>2, <2>3, <2>7, <2>8, <3>1, CoversTaken
  <2>11. Fair(s, b, l2, Up(i), t, a, j, p2)
    BY Zenon, <2>9, <2>10 DEF Fair, l, i, t, a, k, p
  <2> QED BY Zenon, <2>7, <2>11 DEF p2, q2
<1>11. WinOK(s, l2, t, a, cur_packets[s], cur_bytes[s])
  <2>1. a <= a
    BY Zenon, <1>1, LeqSelf
  <2>2. pc[s] \in Asking
    BY Zenon, <1>1 DEF Asking, Loop
  <2> QED BY Zenon, <1>1, <2>1, <2>2, WinKept
<1>12. l2 # "release"
  BY <1>8
<1> HIDE DEF l, i, t, m, a, k, l2, P2, Q2
<1> QED BY Zenon, <1>4, <1>5, <1>6, <1>7, <1>9, <1>10, <1>11, <1>12, Step

\* The bytes of a bucket refuse a packet
LEMMA RefuseGoes ==
  ASSUME IInv, NEW s \in Socks, pc[s] = "bytes", Stay(s, "refuse"),
         UNCHANGED <<bytes, packets, adv, taken, checkedVars, total, batch, localVars>>
  PROVE  IInv' /\ Charged
<1>1. pc[s] \notin {"idle", "unbyte", "panic"} /\ pc[s] # "inner" /\ pc[s] \in Asking
      /\ "refuse" \in Places
  BY DEF Asking, Loop, Places
<1>2. /\ Sized(total[s]) /\ adv[s] \in 0..Len(total[s]) /\ (~batch[s] => Len(total[s]) = 1)
      /\ (NoneEmpty => total[s][1] > 0) /\ adv[s] >= 1 /\ idx[s] \in Buckets /\ adv[s] \in Nat
  BY Zenon, <1>1, Asked, Begun
<1>3. Req("refuse", total[s], batch[s], adv[s], taken[s]) /\ Placed("refuse", idx[s])
  BY <1>2 DEF Req, Placed
<1>4. ASSUME NEW b \in Buckets
      PROVE  /\ ChkAt("refuse", idx[s], total[s], adv[s], b, checked_packets[s][b], checked_bytes[s][b])
             /\ Fair(s, b, "refuse", idx[s], total[s], adv[s], taken[s], checked_packets[s][b])
  <2> DEFINE p == checked_packets[s][b]
             q == checked_bytes[s][b]
  <2>1. Seen("bytes", idx[s], total[s], adv[s], taken[s], b, p, q)
    BY Zenon, Old
  <2>2. /\ packets[b] \in Nat /\ bytes[b] \in Nat /\ packets'[b] = packets[b] /\ bytes'[b] = bytes[b]
        /\ HP("bytes", idx[s], adv[s], p, b) \in Int /\ HB("bytes", idx[s], total[s], adv[s], taken[s], p, b) \in Int
    BY Zenon, Old
  <2> HIDE DEF p, q
  <2>3. /\ ChkAt("refuse", idx[s], total[s], adv[s], b, p, q)
        /\ Same(HP("refuse", idx[s], adv[s], p, b), HP("bytes", idx[s], adv[s], p, b))
        /\ Same(HB("refuse", idx[s], total[s], adv[s], taken[s], p, b),
                HB("bytes", idx[s], total[s], adv[s], taken[s], p, b))
    BY Zenon, <2>1, RefusedAt
  <2>4. /\ Covers(packets[b], HP("bytes", idx[s], adv[s], p, b), packets'[b], HP("refuse", idx[s], adv[s], p, b))
        /\ Covers(bytes[b], HB("bytes", idx[s], total[s], adv[s], taken[s], p, b),
                  bytes'[b], HB("refuse", idx[s], total[s], adv[s], taken[s], p, b))
    <3>1. Same(packets'[b], packets[b]) /\ Same(bytes'[b], bytes[b])
      BY Zenon, <2>2 DEF Same
    <3> QED BY Zenon, <2>2, <2>3, <3>1, CoversSame
  <2>5. Fair(s, b, "refuse", idx[s], total[s], adv[s], taken[s], p)
    BY Zenon, <2>4 DEF Fair, p
  <2> QED BY Zenon, <2>3, <2>5 DEF p, q
<1>5. WinOK(s, "refuse", total[s], adv[s], cur_packets[s], cur_bytes[s])
  <2>1. adv[s] <= adv[s]
    BY Zenon, <1>2, LeqSelf
  <2> QED BY Zenon, <1>1, <1>2, <2>1, WinKept
<1>6. Tokens'
  BY Zenon DEF IInv, Tokens
<1>7. /\ Asks(s, total[s], batch[s]) /\ Checked(s, checked_packets[s], checked_bytes[s])
      /\ Counts(s, cur_packets[s], cur_bytes[s]) /\ Counters(s, adv[s], taken[s]) /\ Moves(s, "refuse", idx[s])
  BY Zenon, <1>1, SameAsks, SameChecked, SameCounts, SameCounters, StayIs
<1> QED BY Zenon, <1>3, <1>4, <1>5, <1>6, <1>7, Step

\* A batch takes n byte tokens, all there are and fewer than it needs
LEMMA UnpackGoes ==
  ASSUME IInv, NEW s \in Socks, pc[s] = "bytes", Stay(s, "unpack"), NEW n \in Nat, n < total[s][adv[s]],
         UNCHANGED <<packets, adv, checkedVars, total, batch, localVars>>, taken' = [taken EXCEPT ![s] = n],
         bytes' \in [Buckets -> Nat], \A b \in Buckets : bytes'[b] + Share(b, idx[s], n) <= bytes[b]
  PROVE  IInv' /\ Charged
<1>1. pc[s] \notin {"idle", "unbyte", "panic"} /\ pc[s] # "inner" /\ pc[s] \in Asking
      /\ "unpack" \in Places
  BY DEF Asking, Loop, Places
<1>2. /\ Sized(total[s]) /\ adv[s] \in 0..Len(total[s]) /\ (~batch[s] => Len(total[s]) = 1)
      /\ (NoneEmpty => total[s][1] > 0) /\ adv[s] >= 1 /\ idx[s] \in Buckets /\ adv[s] \in Nat
  BY Zenon, <1>1, Asked, Begun
<1>3. Req("unpack", total[s], batch[s], adv[s], n) /\ Placed("unpack", idx[s])
  BY <1>2 DEF Req, Placed
<1>4. ASSUME NEW b \in Buckets
      PROVE  /\ ChkAt("unpack", idx[s], total[s], adv[s], b, checked_packets[s][b], checked_bytes[s][b])
             /\ Fair(s, b, "unpack", idx[s], total[s], adv[s], n, checked_packets[s][b])
  <2> DEFINE p == checked_packets[s][b]
             q == checked_bytes[s][b]
  <2>1. Seen("bytes", idx[s], total[s], adv[s], taken[s], b, p, q)
    BY Zenon, Old
  <2>2. /\ packets[b] \in Nat /\ bytes[b] \in Nat /\ packets'[b] = packets[b] /\ bytes'[b] \in Nat
        /\ bytes'[b] + Share(b, idx[s], n) <= bytes[b]
        /\ HP("bytes", idx[s], adv[s], p, b) \in Int /\ HB("bytes", idx[s], total[s], adv[s], taken[s], p, b) \in Int
    BY Zenon, Old
  <2>s. Sized(total[s])
    BY Zenon, <1>2
  <2> HIDE DEF p, q
  <2>3. /\ ChkAt("unpack", idx[s], total[s], adv[s], b, p, q)
        /\ Same(HP("unpack", idx[s], adv[s], p, b), HP("bytes", idx[s], adv[s], p, b))
        /\ Gains(HB("unpack", idx[s], total[s], adv[s], n, p, b),
                 HB("bytes", idx[s], total[s], adv[s], taken[s], p, b), Share(b, idx[s], n))
    BY Zenon, <2>1, <2>s, TookBytesAt
  <2>4. Covers(packets[b], HP("bytes", idx[s], adv[s], p, b), packets'[b], HP("unpack", idx[s], adv[s], p, b))
    <3>1. Same(packets'[b], packets[b])
      BY Zenon, <2>2 DEF Same
    <3> QED BY Zenon, <2>2, <2>3, <3>1, CoversSame
  <2>6. Covers(bytes[b], HB("bytes", idx[s], total[s], adv[s], taken[s], p, b),
               bytes'[b], HB("unpack", idx[s], total[s], adv[s], n, p, b))
    <3>1. Takes(bytes[b], bytes'[b], Share(b, idx[s], n))
      BY Zenon, <2>2 DEF Takes
    <3>2. Share(b, idx[s], n) \in Int
      BY DEF Share
    <3> QED BY Zenon, <2>2, <2>3, <3>1, <3>2, CoversTaken
  <2>5. Fair(s, b, "unpack", idx[s], total[s], adv[s], n, p)
    BY Zenon, <2>4, <2>6 DEF Fair, p
  <2> QED BY Zenon, <2>3, <2>5 DEF p, q
<1>5. WinOK(s, "unpack", total[s], adv[s], cur_packets[s], cur_bytes[s])
  <2>1. adv[s] <= adv[s]
    BY Zenon, <1>2, LeqSelf
  <2> QED BY Zenon, <1>1, <1>2, <2>1, WinKept
<1>6. Tokens'
  BY Zenon DEF IInv, Tokens
<1>7. /\ Asks(s, total[s], batch[s]) /\ Checked(s, checked_packets[s], checked_bytes[s])
      /\ Counts(s, cur_packets[s], cur_bytes[s]) /\ Moves(s, "unpack", idx[s])
  BY Zenon, <1>1, SameAsks, SameChecked, SameCounts, StayIs
<1>8. Counters(s, adv[s], n)
  BY Zenon, UpdIs, UpdSame DEF IInv, SockTypes, Counters
<1> QED BY Zenon, <1>3, <1>4, <1>5, <1>6, <1>7, <1>8, Step

\* Then it asks for their bytes.
LEMMA TakeBytesStep == ASSUME IInv, NEW s \in Socks, TakeBytes(s) PROVE IInv' /\ Charged
<1> DEFINE i == idx[s]
           need == total[s][adv[s]]
           n == Min({need, bytes[i]})
<1>0. /\ pc[s] = "bytes" /\ UNCHANGED <<packets, total, batch, localVars>>
      /\ \/ RBytes = 0 /\ Granted(s, adv[s]) /\ UNCHANGED <<bytes, taken>>
         \/ /\ n = need /\ bytes' = [bytes EXCEPT ![i] = @ - n] /\ Granted(s, adv[s]) /\ UNCHANGED taken
         \/ Stay(s, "refuse") /\ UNCHANGED <<bytes, adv, taken, checkedVars>>
         \/ /\ ~(n = need /\ (batch[s] => bytes[i] > 0)) /\ bytes[i] # 0
            /\ bytes' = [bytes EXCEPT ![i] = 0] /\ taken' = [taken EXCEPT ![s] = n]
            /\ Stay(s, "unpack") /\ UNCHANGED <<adv, checkedVars>>
  BY Zenon DEF TakeBytes
<1>p. pc[s] = "bytes"
  BY Zenon, <1>0
<1>1. pc[s] \notin {"idle", "unbyte", "panic"} /\ pc[s] # "inner" /\ pc[s] \in {"bytes", "unbyte"}
  BY <1>p
<1>2. /\ adv[s] \in Nat /\ adv[s] >= 1 /\ taken[s] \in Nat /\ i \in Buckets /\ need \in Nat
      /\ bytes \in [Buckets -> Nat] /\ taken \in [Socks -> Nat]
  BY Zenon, <1>1, Begun DEF IInv, Tokens, SockTypes
<1>3. bytes[i] \in Nat /\ adv[s] # 0
  BY SMTT(60), <1>2
<1>4. /\ n \in Nat /\ n <= bytes[i] /\ n <= need /\ (n # need => n = bytes[i])
  BY SMTT(60), <1>2, <1>3, MinIs
<1>5. Rest(pc[s], taken[s]) = 0
  BY SMTT(60), <1>0 DEF Rest
<1>6. need - Rest(pc[s], taken[s]) = need
  BY <1>2, <1>5
<1> HIDE DEF n
<1>7. CASE RBytes = 0 /\ Granted(s, adv[s]) /\ UNCHANGED <<bytes, taken>>
  <2>1. Upd(taken, taken', Nat, s, taken[s]) /\ bytes' \in [Buckets -> Nat]
    BY Zenon, <1>2, <1>7, UpdSame
  <2>2. ~(RBytes > 0)
    BY <1>7
  <2> QED BY Zenon, <1>0, <1>1, <1>2, <1>3, <1>7, <2>1, <2>2, GrantedGoes
<1>8. CASE n = need /\ bytes' = [bytes EXCEPT ![i] = @ - n] /\ Granted(s, adv[s]) /\ UNCHANGED taken
  <2>1. Upd(taken, taken', Nat, s, taken[s])
    BY Zenon, <1>2, <1>8, UpdSame
  <2>2. bytes' \in [Buckets -> Nat] /\ \A b \in Buckets : bytes'[b] + Share(b, i, n) <= bytes[b]
    BY Zenon, <1>2, <1>4, <1>8, TakenIs
  <2>3. \A b \in Buckets :
          RBytes > 0 => bytes'[b] + Share(b, idx[s], total[s][adv[s]] - Rest(pc[s], taken[s])) <= bytes[b]
    BY Zenon, <1>6, <1>8, <2>2
  <2> QED BY Zenon, <1>0, <1>1, <1>2, <1>3, <1>8, <2>1, <2>2, <2>3, GrantedGoes
<1>9. CASE Stay(s, "refuse") /\ UNCHANGED <<bytes, adv, taken, checkedVars>>
  BY Zenon, <1>0, <1>9, RefuseGoes
<1>10. CASE /\ ~(n = need /\ (batch[s] => bytes[i] > 0)) /\ bytes[i] # 0
            /\ bytes' = [bytes EXCEPT ![i] = 0] /\ taken' = [taken EXCEPT ![s] = n]
            /\ Stay(s, "unpack") /\ UNCHANGED <<adv, checkedVars>>
  <2>0. bytes[i] # 0 => bytes[i] > 0
    BY <1>3
  <2>n. n # need
    BY Zenon, <1>10, <2>0
  <2>1. n = bytes[i] /\ n < need /\ bytes[i] - n = 0
    BY SMTT(60), <1>2, <1>3, <1>4, <2>n
  <2>2. bytes' = [bytes EXCEPT ![i] = @ - n]
    BY Zenon, <1>10, <2>1
  <2>3. bytes' \in [Buckets -> Nat] /\ \A b \in Buckets : bytes'[b] + Share(b, i, n) <= bytes[b]
    BY Zenon, <1>2, <1>4, <2>2, TakenIs
  <2> QED BY Zenon, <1>0, <1>4, <1>10, <2>1, <2>3, UnpackGoes
<1> QED BY Zenon, <1>0, <1>7, <1>8, <1>9, <1>10

\* Without bytes it gives the packets back.
LEMMA RefuseStep == ASSUME IInv, NEW s \in Socks, Refuse(s) PROVE IInv' /\ Charged
<1>0. /\ pc[s] = "refuse" /\ Goto(s, "release")
      /\ UNCHANGED <<total, batch, adv, taken, checkedVars, localVars, bytes>>
      /\ \/ RPackets > 0 /\ packets' = [packets EXCEPT ![idx[s]] = Add(@, adv[s], MaxBurstPackets)]
         \/ ~(RPackets > 0) /\ UNCHANGED packets
  BY Zenon DEF Refuse, AddPackets
<1>1. pc[s] \notin {"idle", "unbyte", "panic"} /\ pc[s] # "inner" /\ pc[s] \in {"packets", "refuse", "inner"}
  BY <1>0
<1>2. /\ adv[s] \in Nat /\ idx[s] \in Buckets /\ packets \in [Buckets -> Nat] /\ MaxBurstPackets \in Nat
  BY Zenon, <1>1, Begun, DatagramLimitAssumption DEF IInv, Tokens, Bounds
<1>3. N # 0 /\ Back(pc[s], adv[s]) = adv[s]
  BY SMTT(60), <1>0, <1>2, BucketFact DEF Back
<1>4. CASE RPackets > 0 /\ packets' = [packets EXCEPT ![idx[s]] = Add(@, adv[s], MaxBurstPackets)]
  <2>1. packets' \in [Buckets -> Nat] /\ \A b \in Buckets : packets'[b] <= packets[b] + Share(b, idx[s], adv[s])
    BY Zenon, <1>2, <1>4, AddedIs
  <2> QED BY Zenon, <1>0, <1>1, <1>3, <2>1, ReleaseGoes
<1>5. CASE ~(RPackets > 0) /\ UNCHANGED packets
  BY Zenon, <1>0, <1>1, <1>2, <1>3, <1>5, ReleaseGoes
<1> QED BY Zenon, <1>0, <1>4, <1>5

\* With some bytes it gives back the packets they do not reach for.
LEMMA UnpackStep == ASSUME IInv, NEW s \in Socks, ReleaseUnneededPackets(s) PROVE IInv' /\ Charged
<1> DEFINE i == idx[s]
           t == total[s]
           a == adv[s]
           k == taken[s]
<1>0. /\ pc[s] = "unpack" /\ Stay(s, "unbyte")
      /\ UNCHANGED <<bytes, total, batch, taken, checkedVars, localVars>>
  BY Zenon DEF ReleaseUnneededPackets
<1>p. PICK n \in WholePackets(t, Len(t), k) :
        /\ \/ RPackets > 0 /\ packets' = [packets EXCEPT ![i] = Add(@, a - n, MaxBurstPackets)]
           \/ ~(RPackets > 0) /\ UNCHANGED packets
        /\ adv' = [adv EXCEPT ![s] = n]
  BY Zenon DEF ReleaseUnneededPackets, AddPackets
<1>1. pc[s] \notin {"idle", "unbyte", "panic"} /\ pc[s] # "inner" /\ pc[s] # "idle" /\ pc[s] \in Asking
      /\ "unbyte" \in Places
  BY <1>0 DEF Asking, Loop, Places
<1>2. /\ Sized(t) /\ a \in 1..Len(t) /\ (~batch[s] => Len(t) = 1) /\ (NoneEmpty => t[1] > 0)
      /\ a \in Nat /\ k \in Nat /\ i \in Buckets /\ t[a] \in Nat
      /\ packets \in [Buckets -> Nat] /\ MaxBurstPackets \in Nat
  BY Zenon, <1>1, Begun, DatagramLimitAssumption DEF IInv, Tokens, Bounds
<1>3. k < t[a]
  BY Zenon, <1>0, Here DEF SockInv, Req
<1>4. n \in 0..Len(t) /\ (n > 0 => t[n] \in Nat /\ t[n] <= k) /\ n < a /\ n \in Nat
  <2>1. Len(t) \in 0..Len(t) /\ k \in Int /\ t[a] > k
    BY SMTT(60), <1>2, <1>3, SizedFact
  <2>2. n \in 0..Len(t) /\ (n > 0 => t[n] \in Nat /\ t[n] <= k) /\ n < a
    BY Zenon, <1>2, <2>1, WholeIs
  <2> QED BY SMTT(60), <2>2
<1>5. a - n \in Nat /\ n <= a
  BY <1>2, <1>4
<1>6. packets' \in [Buckets -> Nat] /\ \A b \in Buckets : RPackets > 0 => packets'[b] <= packets[b] + Share(b, i, a - n)
  <2>1. CASE RPackets > 0 /\ packets' = [packets EXCEPT ![i] = Add(@, a - n, MaxBurstPackets)]
    BY Zenon, <1>2, <1>5, <2>1, AddedIs
  <2>2. CASE ~(RPackets > 0) /\ UNCHANGED packets
    BY Zenon, <1>2, <2>2
  <2> QED BY Zenon, <1>p, <2>1, <2>2
<1>7. Req("unbyte", t, batch[s], n, k) /\ Placed("unbyte", i)
  BY <1>2, <1>4 DEF Req, Placed
<1>8. ASSUME NEW b \in Buckets
      PROVE  /\ ChkAt("unbyte", i, t, n, b, checked_packets[s][b], checked_bytes[s][b])
             /\ Fair(s, b, "unbyte", i, t, n, k, checked_packets[s][b])
  <2> DEFINE p == checked_packets[s][b]
             q == checked_bytes[s][b]
  <2>1. Seen("unpack", i, t, a, k, b, p, q)
    BY Zenon, <1>0, Old
  <2>2. /\ packets[b] \in Nat /\ bytes[b] \in Nat /\ bytes'[b] = bytes[b] /\ packets'[b] \in Nat
        /\ RPackets > 0 => packets'[b] <= packets[b] + Share(b, i, a - n)
        /\ HP("unpack", i, a, p, b) \in Int /\ HB("unpack", i, t, a, k, p, b) \in Int
    BY Zenon, <1>0, <1>6, <1>8, Old
  <2> HIDE DEF i, t, a, k, p, q
  <2>3. /\ ChkAt("unbyte", i, t, n, b, p, q)
        /\ Gains(HP("unpack", i, a, p, b), HP("unbyte", i, n, p, b), Share(b, i, a - n))
        /\ Same(HB("unbyte", i, t, n, k, p, b), HB("unpack", i, t, a, k, p, b))
    BY Zenon, <1>4, <1>5, <2>1, UnpackedAt
  <2>4. HP("unbyte", i, n, p, b) \in Int /\ Share(b, i, a - n) \in Int
    <3>1. p \in Nat \cup {None} /\ k \in Nat
      BY Zenon, <2>1 DEF Seen
    <3>2. HP("unbyte", i, n, p, b) \in Int
      BY Zenon, <1>7, <2>3, <3>1, HeldInt
    <3>3. Share(b, i, a - n) \in Int
      BY <1>5 DEF Share
    <3> QED BY Zenon, <3>2, <3>3
  <2>5. RPackets > 0 => Covers(packets[b], HP("unpack", i, a, p, b), packets'[b], HP("unbyte", i, n, p, b))
    <3>1. RPackets > 0 => Gives(packets[b], packets'[b], Share(b, i, a - n))
      BY Zenon, <2>2 DEF Gives
    <3> QED BY Zenon, <2>2, <2>3, <2>4, <3>1, CoversGiven
  <2>6. Covers(bytes[b], HB("unpack", i, t, a, k, p, b), bytes'[b], HB("unbyte", i, t, n, k, p, b))
    <3>1. Same(bytes'[b], bytes[b])
      BY Zenon, <2>2 DEF Same
    <3> QED BY Zenon, <2>2, <2>3, <3>1, CoversSame
  <2>7. Fair(s, b, "unbyte", i, t, n, k, p)
    BY Zenon, <1>0, <2>5, <2>6 DEF Fair, p, i, t, a, k
  <2> QED BY Zenon, <2>3, <2>7 DEF p, q
<1>9. WinOK(s, "unbyte", t, n, cur_packets[s], cur_bytes[s])
  BY Zenon, <1>1, <1>4, <1>5, WinKept
<1>10. Tokens'
  BY Zenon, <1>0, <1>6 DEF IInv, Tokens
<1>11. /\ Asks(s, t, batch[s]) /\ Checked(s, checked_packets[s], checked_bytes[s])
       /\ Counts(s, cur_packets[s], cur_bytes[s]) /\ Counters(s, n, k) /\ Moves(s, "unbyte", i)
  BY Zenon, <1>0, <1>1, <1>4, <1>p, SameAsks, SameChecked, SameCounts, AdvIs, StayIs
<1>12. "unbyte" # "release"
  OBVIOUS
<1> HIDE DEF i, t, a, k
<1> QED BY Zenon, <1>7, <1>8, <1>9, <1>10, <1>11, <1>12, Step

\* When they reach for none, the poll panics with what it held.
LEMMA PanicGoes ==
  ASSUME IInv, NEW s \in Socks, pc[s] = "unbyte", adv[s] = 0, Goto(s, "panic"), taken' = [taken EXCEPT ![s] = 0],
         UNCHANGED <<bytes, adv, checkedVars, packets, total, batch, localVars>>
  PROVE  IInv' /\ Charged
<1>1. pc[s] # "idle" /\ pc[s] # "inner" /\ "panic" \notin Asking /\ "panic" \in Places /\ 0 \in Nat
  BY DEF Asking, Loop, Places
<1>2. /\ Sized(total[s]) /\ adv[s] \in 0..Len(total[s]) /\ (~batch[s] => Len(total[s]) = 1)
      /\ (NoneEmpty => total[s][1] > 0) /\ idx[s] \in Buckets /\ adv[s] \in Nat
  BY Zenon, <1>1, Asked
<1>3. Req("panic", total[s], batch[s], adv[s], 0) /\ Placed("panic", 1)
  BY <1>2, BucketFact DEF Req, Placed
<1>4. ASSUME NEW b \in Buckets
      PROVE  /\ ChkAt("panic", 1, total[s], adv[s], b, checked_packets[s][b], checked_bytes[s][b])
             /\ Fair(s, b, "panic", 1, total[s], adv[s], 0, checked_packets[s][b])
  <2> DEFINE p == checked_packets[s][b]
             q == checked_bytes[s][b]
  <2>1. Seen("unbyte", idx[s], total[s], adv[s], taken[s], b, p, q)
    BY Zenon, Old
  <2>2. /\ packets[b] \in Nat /\ bytes[b] \in Nat /\ packets'[b] = packets[b] /\ bytes'[b] = bytes[b]
        /\ HP("unbyte", idx[s], adv[s], p, b) \in Int /\ HB("unbyte", idx[s], total[s], adv[s], taken[s], p, b) \in Int
    BY Zenon, Old
  <2>s. Sized(total[s])
    BY Zenon, <1>2
  <2> HIDE DEF p, q
  <2>3. /\ ChkAt("panic", 1, total[s], adv[s], b, p, q)
        /\ Same(HP("panic", 1, adv[s], p, b), HP("unbyte", idx[s], adv[s], p, b))
        /\ HB("panic", 1, total[s], adv[s], 0, p, b) <= HB("unbyte", idx[s], total[s], adv[s], taken[s], p, b)
    BY Zenon, <2>1, <2>s, PanicAt
  <2>4. Covers(packets[b], HP("unbyte", idx[s], adv[s], p, b), packets'[b], HP("panic", 1, adv[s], p, b))
    <3>1. Same(packets'[b], packets[b])
      BY Zenon, <2>2 DEF Same
    <3> QED BY Zenon, <2>2, <2>3, <3>1, CoversSame
  <2>5. HB("panic", 1, total[s], adv[s], 0, p, b) \in Int
    <3>1. p \in Nat \cup {None}
      BY Zenon, <2>1 DEF Seen
    <3> QED BY Zenon, <1>1, <1>3, <2>3, <3>1, HeldInt
  <2>6. Covers(bytes[b], HB("unbyte", idx[s], total[s], adv[s], taken[s], p, b),
               bytes'[b], HB("panic", 1, total[s], adv[s], 0, p, b))
    <3>1. Same(bytes'[b], bytes[b])
      BY Zenon, <2>2 DEF Same
    <3>2. Under(HB("unbyte", idx[s], total[s], adv[s], taken[s], p, b), HB("panic", 1, total[s], adv[s], 0, p, b))
      BY Zenon, <2>3 DEF Under
    <3> QED BY Zenon, <2>2, <2>5, <3>1, <3>2, CoversUnder
  <2>7. Fair(s, b, "panic", 1, total[s], adv[s], 0, p)
    BY Zenon, <2>4, <2>6 DEF Fair, p
  <2> QED BY Zenon, <2>3, <2>7 DEF p, q
<1>5. WinOK(s, "panic", total[s], adv[s], cur_packets[s], cur_bytes[s])
  BY Zenon, <1>1, <1>2, WinKept
<1>6. Tokens'
  BY Zenon DEF IInv, Tokens
<1>7. /\ Asks(s, total[s], batch[s]) /\ Checked(s, checked_packets[s], checked_bytes[s])
      /\ Counts(s, cur_packets[s], cur_bytes[s]) /\ Moves(s, "panic", 1)
  BY Zenon, <1>1, SameAsks, SameChecked, SameCounts, GotoIs
<1>8. Counters(s, adv[s], 0)
  BY Zenon, <1>1, UpdIs, UpdSame DEF IInv, SockTypes, Counters
<1> QED BY Zenon, <1>3, <1>4, <1>5, <1>6, <1>7, <1>8, Step

\* Then it gives back the bytes of no whole packet.
LEMMA UnbyteStep == ASSUME IInv, NEW s \in Socks, ReleaseUnneededBytes(s) PROVE IInv' /\ Charged
<1> DEFINE i == idx[s]
           n == taken[s] - total[s][adv[s]]
<1>0. /\ pc[s] = "unbyte" /\ taken' = [taken EXCEPT ![s] = 0] /\ UNCHANGED <<packets, total, batch, localVars>>
      /\ \/ adv[s] = 0 /\ Goto(s, "panic") /\ UNCHANGED <<bytes, adv, checkedVars>>
         \/ adv[s] # 0 /\ bytes' = [bytes EXCEPT ![i] = Add(@, n, MaxBurstBytes)] /\ Granted(s, adv[s])
  BY Zenon DEF ReleaseUnneededBytes, AddBytes
<1>1. CASE adv[s] = 0 /\ Goto(s, "panic") /\ UNCHANGED <<bytes, adv, checkedVars>>
  BY Zenon, <1>0, <1>1, PanicGoes
<1>2. CASE adv[s] # 0 /\ bytes' = [bytes EXCEPT ![i] = Add(@, n, MaxBurstBytes)] /\ Granted(s, adv[s])
  <2>1. pc[s] # "idle" /\ pc[s] # "inner" /\ pc[s] \in {"bytes", "unbyte"} /\ 0 \in Nat
    BY <1>0
  <2>2. /\ Sized(total[s]) /\ adv[s] \in 0..Len(total[s]) /\ i \in Buckets /\ adv[s] \in Nat /\ taken[s] \in Nat
        /\ bytes \in [Buckets -> Nat] /\ MaxBurstBytes \in Nat /\ taken \in [Socks -> Nat]
    BY Zenon, <2>1, Asked, DatagramLimitAssumption DEF IInv, Tokens, SockTypes, Bounds
  <2>3. total[s][adv[s]] \in Nat /\ total[s][adv[s]] <= taken[s]
    <3>1. adv[s] \in 1..Len(total[s]) /\ adv[s] > 0
      BY SMTT(60), <1>2, <2>2, SizedFact
    <3>2. total[s][adv[s]] \in Nat
      BY Zenon, <2>2, <3>1, SizedFact
    <3>3. total[s][adv[s]] <= taken[s]
      BY Zenon, <1>0, <3>1, Here DEF SockInv, Req
    <3> QED BY Zenon, <3>2, <3>3
  <2>4. n \in Nat
    BY <2>2, <2>3
  <2> HIDE DEF n
  <2>5. bytes' \in [Buckets -> Nat] /\ \A b \in Buckets : bytes'[b] <= bytes[b] + Share(b, i, n)
    BY Zenon, <1>2, <2>2, <2>4, AddedIs
  <2>6. ASSUME NEW b \in Buckets
        PROVE  bytes'[b] + Share(b, idx[s], total[s][adv[s]] - Rest(pc[s], taken[s])) <= bytes[b]
    <3>1. bytes'[b] \in Nat /\ bytes[b] \in Nat /\ bytes'[b] <= bytes[b] + Share(b, i, n)
      BY Zenon, <2>2, <2>5, <2>6
    <3>2. Rest(pc[s], taken[s]) = taken[s]
      BY <1>0 DEF Rest
    <3>3. Gives(bytes[b], bytes'[b], Share(b, idx[s], taken[s] - total[s][adv[s]]))
      BY Zenon, <3>1 DEF Gives, n
    <3>4. Takes(bytes[b], bytes'[b], Share(b, idx[s], total[s][adv[s]] - taken[s]))
      BY Zenon, <2>2, <2>3, <3>1, <3>3, ReturnedIs
    <3> QED BY Zenon, <3>2, <3>4 DEF Takes
  <2>7. Upd(taken, taken', Nat, s, 0)
    BY Zenon, <1>0, <2>1, <2>2, UpdIs
  <2> QED BY Zenon, <1>0, <1>2, <2>1, <2>5, <2>6, <2>7, GrantedGoes
<1> QED BY Zenon, <1>0, <1>1, <1>2

\* The "shrink in time" loop of DatagramLimiter::check_packets.
LEMMA ShrinkStep == ASSUME IInv, NEW s \in Socks, Shrink(s) PROVE IInv' /\ Charged
<1> DEFINE i == idx[s]
           t == total[s]
           a == adv[s]
           k == taken[s]
           c == checked_packets[s][i]
           l2 == Onto(i, "shrink", "inner")
           P2 == [checked_packets[s] EXCEPT ![i] = a]
           Q2 == [checked_bytes[s] EXCEPT ![i] = t[a]]
<1>0. /\ pc[s] = "shrink" /\ Walk(s, "shrink", "inner") /\ UNCHANGED <<total, batch, adv, taken, localVars>>
      /\ checked_packets' = [checked_packets EXCEPT ![s][i] = a]
      /\ checked_bytes' = [checked_bytes EXCEPT ![s][i] = t[a]]
      /\ \/ c > a /\ packets' = [packets EXCEPT ![i] = Add(@, c - a, MaxBurstPackets)]
         \/ UNCHANGED packets
      /\ \/ c > a /\ bytes' = [bytes EXCEPT ![i] = Add(@, t[c] - t[a], MaxBurstBytes)]
         \/ UNCHANGED bytes
  BY Zenon DEF Shrink, AddPackets, AddBytes
<1>1. pc[s] \notin {"idle", "unbyte", "panic"} /\ pc[s] # "inner" /\ pc[s] \in Asking
      /\ "shrink" \in Places /\ "inner" \in Places
  BY <1>0 DEF Asking, Loop, Places
<1>2. /\ Sized(t) /\ a \in 1..Len(t) /\ (~batch[s] => Len(t) = 1) /\ (NoneEmpty => t[1] > 0) /\ a >= 1
      /\ a \in Nat /\ k \in Nat /\ i \in Buckets /\ t[a] \in Nat
      /\ packets \in [Buckets -> Nat] /\ bytes \in [Buckets -> Nat] /\ MaxBurstPackets \in Nat /\ MaxBurstBytes \in Nat
      /\ checked_packets \in [Socks -> Checks] /\ checked_bytes \in [Socks -> Checks]
  BY Zenon, <1>1, Begun, DatagramLimitAssumption DEF IInv, Tokens, SockTypes, Bounds
<1>3. c \in Nat /\ c >= a /\ c \in 1..Len(t)
  <2>1. Seen("shrink", i, t, a, k, i, c, checked_bytes[s][i])
    BY Zenon, <1>0, <1>2, Old
  <2> HIDE DEF i, t, a, k, c
  <2>2. i \in Nat /\ ChkAt("shrink", i, t, a, i, c, checked_bytes[s][i])
    BY Zenon, <2>1 DEF Seen
  <2>3. c >= a /\ c \in Nat \cup {None}
    BY SMTT(60), <2>1, <2>2 DEF ChkAt, Seen
  <2>4. c # None
    BY <1>2, <2>3 DEF None
  <2>5. c \in 1..Len(t)
    BY Zenon, <2>2, <2>4 DEF ChkAt
  <2> QED BY SMTT(60), <2>3, <2>5
<1>4. t[c] \in Nat /\ t[c] >= t[a]
  <2>1. a <= c
    BY <1>2, <1>3
  <2>2. t[c] \in Nat /\ t[a] <= t[c]
    BY Zenon, <1>2, <1>3, <2>1, SizedFact
  <2>3. Under(t[c], t[a])
    BY Zenon, <2>2 DEF Under
  <2> QED BY Zenon, <1>2, <2>2, <2>3, LeftIs
<1>5. c - a \in Nat /\ t[c] - t[a] \in Nat
  <2>1. a <= c
    BY <1>2, <1>3
  <2>2. t[a] <= t[c]
    BY Zenon, <1>2, <1>3, <2>1, SizedFact
  <2>3. Under(c, a) /\ Under(t[c], t[a])
    BY Zenon, <2>1, <2>2 DEF Under
  <2> QED BY Zenon, <1>2, <1>3, <1>4, <2>3, LeftIs
<1>n. c - a \in Int /\ t[c] - t[a] \in Int
  BY <1>5
<1>6. packets' \in [Buckets -> Nat] /\ \A b \in Buckets : packets'[b] <= packets[b] + Share(b, i, c - a)
  <2>1. CASE packets' = [packets EXCEPT ![i] = Add(@, c - a, MaxBurstPackets)]
    BY Zenon, <1>2, <1>5, <2>1, AddedIs
  <2>2. CASE UNCHANGED packets
    BY Zenon, <1>2, <1>5, <2>2, KeptIs
  <2> QED BY Zenon, <1>0, <2>1, <2>2
<1>7. bytes' \in [Buckets -> Nat] /\ \A b \in Buckets : bytes'[b] <= bytes[b] + Share(b, i, t[c] - t[a])
  <2>1. CASE bytes' = [bytes EXCEPT ![i] = Add(@, t[c] - t[a], MaxBurstBytes)]
    BY Zenon, <1>2, <1>5, <2>1, AddedIs
  <2>2. CASE UNCHANGED bytes
    BY Zenon, <1>2, <1>5, <2>2, KeptIs
  <2> QED BY Zenon, <1>0, <2>1, <2>2
<1>8. Checked(s, P2, Q2)
  <2>1. a \in Nat \cup {None} /\ t[a] \in Nat \cup {None}
    BY Zenon, <1>2
  <2> HIDE DEF a, t, i
  <2> QED BY Zenon, <1>0, <1>2, <2>1, UpdAt DEF Checked
<1>9. Asks(s, t, batch[s]) /\ Counts(s, cur_packets[s], cur_bytes[s]) /\ Counters(s, a, k) /\ Moves(s, l2, Up(i))
  BY Zenon, <1>0, <1>1, <1>2, SameAsks, SameCounts, SameCounters, WalkIs
<1>10. Tokens'
  BY Zenon, <1>6, <1>7 DEF Tokens
<1>11. l2 \in {"shrink", "inner"} /\ Up(i) \in Buckets
  BY Zenon, <1>2, OntoFact DEF Onto
<1>12. Req(l2, t, batch[s], a, k) /\ Placed(l2, Up(i)) /\ l2 # "release"
  <2> HIDE DEF t, a, i, l2
  <2>1. l2 \notin {"idle", "unbyte", "panic", "unpack"} /\ l2 # "release" /\ a \in 0..Len(t)
    BY SMTT(60), <1>2, <1>11
  <2> QED BY Zenon, <1>2, <1>11, <2>1 DEF Req, Placed
<1>13. ASSUME NEW b \in Buckets
       PROVE  ChkAt(l2, Up(i), t, a, b, P2[b], Q2[b]) /\ Fair(s, b, l2, Up(i), t, a, k, P2[b])
  <2> DEFINE p == checked_packets[s][b]
             q == checked_bytes[s][b]
             p2 == P2[b]
             q2 == Q2[b]
  <2>1. Seen("shrink", i, t, a, k, b, p, q)
    BY Zenon, <1>0, Old
  <2>2. /\ packets[b] \in Nat /\ bytes[b] \in Nat /\ packets'[b] \in Nat /\ bytes'[b] \in Nat
        /\ packets'[b] <= packets[b] + Share(b, i, c - a) /\ bytes'[b] <= bytes[b] + Share(b, i, t[c] - t[a])
        /\ HP("shrink", i, a, p, b) \in Int /\ HB("shrink", i, t, a, k, p, b) \in Int
    BY Zenon, <1>0, <1>6, <1>7, <1>13, Old
  <2>3. Put(p2, b, i, a, p) /\ Put(q2, b, i, t[a], q) /\ (b = i => p = c)
    BY Zenon, <1>2, Here DEF Checks, Put
  <2>4. i \in Buckets /\ Sized(t) /\ a \in 1..Len(t)
    BY Zenon, <1>2
  <2> HIDE DEF i, t, a, k, p, q, p2, q2, P2, Q2, l2, c
  <2>5. /\ ChkAt(l2, Up(i), t, a, b, p2, q2)
        /\ Gains(HP("shrink", i, a, p, b), HP(l2, Up(i), a, p2, b), Share(b, i, p - a))
        /\ Gains(HB("shrink", i, t, a, k, p, b), HB(l2, Up(i), t, a, k, p2, b), Share(b, i, t[p] - t[a]))
    BY Zenon, <2>1, <2>3, <2>4, ShrunkAt DEF l2
  <2>6. Share(b, i, p - a) = Share(b, i, c - a) /\ Share(b, i, t[p] - t[a]) = Share(b, i, t[c] - t[a])
    BY Zenon, <2>3 DEF Share
  <2>7. Share(b, i, c - a) \in Int /\ Share(b, i, t[c] - t[a]) \in Int
    BY Zenon, <1>n, ShareInt
  <2>8. HP(l2, Up(i), a, p2, b) \in Int /\ HB(l2, Up(i), t, a, k, p2, b) \in Int
    <3>1. p2 \in Nat \cup {None} /\ k \in Nat
      BY Zenon, <1>2, <2>1, <2>3 DEF Seen, Put
    <3> QED BY Zenon, <1>12, <2>5, <3>1, HeldInt
  <2>9. Covers(packets[b], HP("shrink", i, a, p, b), packets'[b], HP(l2, Up(i), a, p2, b))
    <3>1. Gives(packets[b], packets'[b], Share(b, i, c - a))
      BY Zenon, <2>2 DEF Gives
    <3>2. Gains(HP("shrink", i, a, p, b), HP(l2, Up(i), a, p2, b), Share(b, i, c - a))
      BY Zenon, <2>5, <2>6
    <3> QED BY Zenon, <2>2, <2>7, <2>8, <3>1, <3>2, CoversGiven
  <2>10. Covers(bytes[b], HB("shrink", i, t, a, k, p, b), bytes'[b], HB(l2, Up(i), t, a, k, p2, b))
    <3>1. Gives(bytes[b], bytes'[b], Share(b, i, t[c] - t[a]))
      BY Zenon, <2>2 DEF Gives
    <3>2. Gains(HB("shrink", i, t, a, k, p, b), HB(l2, Up(i), t, a, k, p2, b), Share(b, i, t[c] - t[a]))
      BY Zenon, <2>5, <2>6
    <3> QED BY Zenon, <2>2, <2>7, <2>8, <3>1, <3>2, CoversGiven
  <2>11. Fair(s, b, l2, Up(i), t, a, k, p2)
    BY Zenon, <1>0, <2>9, <2>10 DEF Fair, i, t, a, k, p
  <2> QED BY Zenon, <2>5, <2>11 DEF p2, q2
<1>14. WinOK(s, l2, t, a, cur_packets[s], cur_bytes[s])
  <2>1. a <= a
    BY <1>2
  <2> QED BY Zenon, <1>1, <1>2, <2>1, WinKept
<1> HIDE DEF i, t, a, k, c, l2, P2, Q2
<1> QED BY Zenon, <1>8, <1>9, <1>10, <1>12, <1>13, <1>14, Step

\* The window counts the packets that were sent
LEMMA WinSent ==
  ASSUME NEW t, Sized(t), NEW a \in 1..Len(t), NEW n \in 1..a, NoneEmpty => t[1] > 0,
         NEW cp \in Nat, NEW cb \in Nat, Counted(cp, cb), Room(t, a, cp, cb)
  PROVE  Counted(cp + n, cb + t[n])
<1>1. Len(t) \in Nat /\ a \in Nat /\ n \in Nat /\ n \in 1..Len(t) /\ n <= a /\ 1 <= n /\ 1 \in 1..Len(t)
  BY SizedFact
<1>2. t[n] \in Nat /\ t[a] \in Nat /\ t[n] <= t[a] /\ t[1] \in Nat /\ t[1] <= t[n]
  BY Zenon, <1>1, SizedFact
<1>3. MaxPackets \in Nat /\ MaxBytes \in Nat
  BY Zenon, DatagramLimitAssumption DEF Bounds
<1>4. MaxPackets > 0 => cp + n <= MaxPackets + 1
  BY SMTT(60), <1>1, <1>3 DEF Room
<1>5. MaxBytes > 0 /\ NoneEmpty => cb + t[n] <= MaxBytes \/ cp + n = 1
  BY SMTT(60), <1>1, <1>2, <1>3 DEF Room
<1>6. NoneEmpty /\ cb + t[n] = 0 => cp + n = 0
  BY SMTT(60), <1>1, <1>2
<1> QED BY Zenon, <1>4, <1>5, <1>6 DEF Counted

\* The inner socket sends n packets; the local window counts them.
LEMMA InnerReadyStep ==
  ASSUME IInv, NEW s \in Socks, NEW n \in 1..adv[s], InnerReady(s, n)
  PROVE  IInv' /\ Charged
<1> DEFINE t == total[s]
           a == adv[s]
           k == taken[s]
           l2 == IF N = 0 THEN "idle" ELSE "advance"
           cp == IF Local(s) THEN cur_packets[s] + n ELSE cur_packets[s]
           cb == IF Local(s) THEN cur_bytes[s] + t[n] ELSE cur_bytes[s]
<1>0. /\ pc[s] = "inner" /\ adv' = [adv EXCEPT ![s] = n] /\ Goto(s, l2)
      /\ cur_packets' = [cur_packets EXCEPT ![s] = cp] /\ cur_bytes' = [cur_bytes EXCEPT ![s] = cb]
      /\ UNCHANGED <<bytes, packets, total, batch, taken, checkedVars, new_slice>>
  BY Zenon DEF InnerReady, bucketVars
<1>1. pc[s] \notin {"idle", "unbyte", "panic"} /\ pc[s] \in Asking /\ l2 \in Places /\ l2 \notin Asking
      /\ l2 \in {"idle", "advance"}
  BY <1>0 DEF Asking, Loop, Places
<1>2. /\ Sized(t) /\ a \in 1..Len(t) /\ (~batch[s] => Len(t) = 1) /\ (NoneEmpty => t[1] > 0)
      /\ a \in Nat /\ k \in Nat
  BY Zenon, <1>1, Begun
<1>3. n \in Nat /\ 1 <= n /\ n <= a /\ n \in 0..Len(t) /\ n \in 1..Len(t)
  BY SMTT(60), <1>2, SizedFact
<1>4. cur_packets[s] \in Nat /\ cur_bytes[s] \in Nat /\ t[n] \in Nat /\ cp \in Nat /\ cb \in Nat
  <2>1. cur_packets[s] \in Nat /\ cur_bytes[s] \in Nat
    BY Zenon, Here
  <2>2. t[n] \in Nat
    BY Zenon, <1>2, <1>3, SizedFact
  <2> QED BY SMTT(60), <2>1, <2>2
<1>5. WinOK(s, l2, t, n, cp, cb)
  <2> SUFFICES ASSUME Local(s) PROVE Counted(cp, cb)
    BY Zenon, <1>1 DEF WinOK
  <2>1. Counted(cur_packets[s], cur_bytes[s]) /\ Room(t, a, cur_packets[s], cur_bytes[s])
    BY Zenon, <1>1, Here DEF SockInv, WinOK
  <2>2. cp = cur_packets[s] + n /\ cb = cur_bytes[s] + t[n]
    OBVIOUS
  <2>3. Counted(cur_packets[s] + n, cur_bytes[s] + t[n])
    BY Zenon, <1>2, <1>4, <2>1, WinSent
  <2> QED BY Zenon, <2>2, <2>3
<1>6. Counts(s, cp, cb)
  BY Zenon, <1>0, <1>4, UpdIs DEF IInv, SockTypes, Counts
<1>7. /\ Asks(s, t, batch[s]) /\ Checked(s, checked_packets[s], checked_bytes[s])
      /\ Counters(s, n, k) /\ Moves(s, l2, 1)
  BY Zenon, <1>0, <1>1, <1>3, SameAsks, SameChecked, AdvIs, GotoIs
<1>8. Tokens'
  BY Zenon, <1>0 DEF IInv, Tokens
<1>9. Req(l2, t, batch[s], n, k) /\ l2 # "release"
  <2> HIDE DEF t, l2
  <2>1. l2 # "unpack" /\ l2 # "unbyte" /\ n >= 1 /\ l2 # "release"
    BY SMTT(60), <1>1, <1>3
  <2> QED BY Zenon, <1>2, <1>3, <2>1 DEF Req
<1>10. Placed(l2, 1)
  BY BucketFact DEF Placed
<1>11. ASSUME NEW b \in Buckets
       PROVE  /\ ChkAt(l2, 1, t, n, b, checked_packets[s][b], checked_bytes[s][b])
              /\ Fair(s, b, l2, 1, t, n, k, checked_packets[s][b])
  <2> DEFINE i == idx[s]
             p == checked_packets[s][b]
             q == checked_bytes[s][b]
  <2>0. l2 = "advance"
    BY Zenon, <1>11, SomeBucket
  <2>1. Seen("inner", i, t, a, k, b, p, q)
    BY Zenon, <1>0, Old
  <2>2. /\ packets[b] \in Nat /\ bytes[b] \in Nat /\ packets'[b] = packets[b] /\ bytes'[b] = bytes[b]
        /\ HP("inner", i, a, p, b) \in Int /\ HB("inner", i, t, a, k, p, b) \in Int
    BY Zenon, <1>0, <1>11, Old
  <2>4. Sized(t) /\ a \in 1..Len(t) /\ n \in 1..a
    BY Zenon, <1>2
  <2> HIDE DEF i, t, a, k, p, q, l2
  <2>5. /\ ChkAt("advance", 1, t, n, b, p, q)
        /\ HP("advance", 1, n, p, b) <= HP("inner", i, a, p, b)
        /\ HB("advance", 1, t, n, k, p, b) <= HB("inner", i, t, a, k, p, b)
    BY Zenon, <2>1, <2>4, SentAt
  <2>8. HP("advance", 1, n, p, b) \in Int /\ HB("advance", 1, t, n, k, p, b) \in Int
    <3>1. p \in Nat \cup {None} /\ k \in Nat
      BY Zenon, <2>1 DEF Seen
    <3> QED BY Zenon, <1>9, <2>0, <2>5, <3>1, HeldInt
  <2>9. /\ Covers(packets[b], HP("inner", i, a, p, b), packets'[b], HP("advance", 1, n, p, b))
        /\ Covers(bytes[b], HB("inner", i, t, a, k, p, b), bytes'[b], HB("advance", 1, t, n, k, p, b))
    <3>1. Same(packets'[b], packets[b]) /\ Same(bytes'[b], bytes[b])
      BY Zenon, <2>2 DEF Same
    <3>2. /\ Under(HP("inner", i, a, p, b), HP("advance", 1, n, p, b))
          /\ Under(HB("inner", i, t, a, k, p, b), HB("advance", 1, t, n, k, p, b))
      BY Zenon, <2>5 DEF Under
    <3> QED BY Zenon, <2>2, <2>8, <3>1, <3>2, CoversUnder
  <2>11. Fair(s, b, l2, 1, t, n, k, p)
    BY Zenon, <1>0, <2>0, <2>9 DEF Fair, i, t, a, k, p
  <2> QED BY Zenon, <2>0, <2>5, <2>11 DEF p, q
<1> HIDE DEF t, a, k, l2, cp, cb
<1> QED BY Zenon, <1>5, <1>6, <1>7, <1>8, <1>9, <1>10, <1>11, Step

\* The inner socket is not ready or fails.
LEMMA InnerFailsStep == ASSUME IInv, NEW s \in Socks, InnerFails(s) PROVE IInv' /\ Charged
<1>0. /\ pc[s] = "inner" /\ Goto(s, IF N = 0 THEN "idle" ELSE "release")
      /\ UNCHANGED <<bytes, packets, total, batch, adv, taken, checkedVars, localVars>>
  BY Zenon DEF InnerFails, bucketVars
<1>1. CASE N = 0
  <2>1. Moves(s, "idle", 1) /\ Counters(s, adv[s], taken[s]) /\ Asks(s, total[s], batch[s])
        /\ Checked(s, checked_packets[s], checked_bytes[s]) /\ Counts(s, cur_packets[s], cur_bytes[s])
    <3>1. "idle" \in Places
      BY DEF Places
    <3> QED BY Zenon, <1>0, <1>1, <3>1, GotoIs, SameAsks, SameChecked, SameCounts, SameCounters
  <2>2. Tokens'
    BY Zenon, <1>0 DEF IInv, Tokens
  <2>3. Req("idle", total[s], batch[s], adv[s], taken[s]) /\ Placed("idle", 1)
    BY DEF Req, Placed
  <2>4. \A b \in Buckets : FALSE
    BY <1>1, BucketFact
  <2>5. WinOK(s, "idle", total[s], adv[s], cur_packets[s], cur_bytes[s])
    <3>1. "idle" \notin Asking /\ adv[s] \in Nat
      BY Here DEF Asking, Loop
    <3> QED BY Zenon, <3>1, WinKept
  <2> QED BY Zenon, <2>1, <2>2, <2>3, <2>4, <2>5, Step
<1>2. CASE N # 0
  <2>1. packets \in [Buckets -> Nat] /\ packets' = packets
    BY Zenon, <1>0 DEF IInv, Tokens
  <2>2. \A b \in Buckets : packets'[b] <= packets[b] + Share(b, idx[s], Back(pc[s], adv[s]))
    BY SMTT(60), <1>0, <2>1 DEF Share, Back
  <2>3. pc[s] \in {"packets", "refuse", "inner"}
    BY <1>0
  <2> QED BY Zenon, <1>0, <1>2, <2>1, <2>2, <2>3, ReleaseGoes
<1> QED BY Zenon, <1>1, <1>2

\* What the socket is left with when its poll ends
LEMMA DroppedIs ==
  ASSUME IInv, NEW s \in Socks, DropLocals(s), UNCHANGED taken
  PROVE  /\ pc'[s] = "idle" => Asks(s, <<>>, FALSE) /\ Counters(s, 0, taken[s])
         /\ pc'[s] # "idle" => Asks(s, total[s], batch[s]) /\ Counters(s, adv[s], taken[s])
<1>1. ASSUME pc'[s] = "idle" PROVE Asks(s, <<>>, FALSE) /\ Counters(s, 0, taken[s])
  <2>1. <<>> \in Seq(Nat) /\ FALSE \in BOOLEAN /\ 0 \in Nat
    OBVIOUS
  <2> QED BY Zenon, <1>1, <2>1, UpdIs, AdvIs DEF DropLocals, IInv, SockTypes, Asks
<1>2. ASSUME pc'[s] # "idle" PROVE Asks(s, total[s], batch[s]) /\ Counters(s, adv[s], taken[s])
  BY Zenon, <1>2, SameAsks, SameCounters DEF DropLocals
<1> QED BY Zenon, <1>1, <1>2

\* The loop ends at a bucket that holds nothing
LEMMA EndGoes ==
  ASSUME IInv, NEW s \in Socks, pc[s] = "release", checked_packets[s][idx[s]] = None, Goto(s, "idle"),
         UNCHANGED <<packets, bytes, checkedVars, taken, localVars>>, DropLocals(s)
  PROVE  IInv' /\ Charged
<1>1. "idle" \in Places /\ "idle" \notin Asking /\ pc[s] # "idle" /\ pc[s] # "inner" /\ 0 \in Nat
  BY DEF Places, Asking, Loop
<1>2. Moves(s, "idle", 1) /\ Checked(s, checked_packets[s], checked_bytes[s]) /\ Counts(s, cur_packets[s], cur_bytes[s])
  BY Zenon, <1>1, GotoIs, SameChecked, SameCounts
<1>3. Asks(s, <<>>, FALSE) /\ Counters(s, 0, taken[s])
  BY Zenon, <1>2, DroppedIs DEF Moves, Upd
<1>4. Tokens'
  BY Zenon DEF IInv, Tokens
<1>5. Req("idle", <<>>, FALSE, 0, taken[s]) /\ Placed("idle", 1)
  BY DEF Req, Placed
<1>6. WinOK(s, "idle", <<>>, 0, cur_packets[s], cur_bytes[s])
  BY Zenon, <1>1, WinKept
<1>7. idx[s] \in Buckets /\ Closed(idx[s], checked_packets[s]) /\ checked_packets[s] \in Checks
  BY Zenon, <1>1, Asked, Here DEF SockInv
<1>8. ASSUME NEW b \in Buckets
      PROVE  /\ ChkAt("idle", 1, <<>>, 0, b, checked_packets[s][b], checked_bytes[s][b])
             /\ Fair(s, b, "idle", 1, <<>>, 0, taken[s], checked_packets[s][b])
  <2> DEFINE P == checked_packets[s]
             q == checked_bytes[s][b]
             i == idx[s]
             t == total[s]
             a == adv[s]
             k == taken[s]
  <2>1. Seen("release", i, t, a, k, b, P[b], q)
    BY Zenon, Old
  <2>2. /\ packets[b] \in Nat /\ bytes[b] \in Nat /\ packets'[b] = packets[b] /\ bytes'[b] = bytes[b]
        /\ HP("release", i, a, P[b], b) \in Int /\ HB("release", i, t, a, k, P[b], b) \in Int
    BY Zenon, Old
  <2>3. i \in Buckets /\ Closed(i, P) /\ P \in Checks /\ P[i] = None
    BY Zenon, <1>7
  <2> HIDE DEF P, q, i, t, a, k
  <2>4. /\ ChkAt("idle", 1, <<>>, 0, b, P[b], q)
        /\ Same(HP("idle", 1, 0, P[b], b), HP("release", i, a, P[b], b))
        /\ Same(HB("idle", 1, <<>>, 0, k, P[b], b), HB("release", i, t, a, k, P[b], b))
    BY Zenon, <2>1, <2>3, ReleasedAll
  <2>5. /\ Covers(packets[b], HP("release", i, a, P[b], b), packets'[b], HP("idle", 1, 0, P[b], b))
        /\ Covers(bytes[b], HB("release", i, t, a, k, P[b], b), bytes'[b], HB("idle", 1, <<>>, 0, k, P[b], b))
    <3>1. Same(packets'[b], packets[b]) /\ Same(bytes'[b], bytes[b])
      BY Zenon, <2>2 DEF Same
    <3> QED BY Zenon, <2>2, <2>4, <3>1, CoversSame
  <2>6. Fair(s, b, "idle", 1, <<>>, 0, k, P[b])
    BY Zenon, <2>5 DEF Fair, P, i, t, a, k
  <2> QED BY Zenon, <2>4, <2>6 DEF P, q, k
<1> QED BY Zenon, <1>2, <1>3, <1>4, <1>5, <1>6, <1>8, Step

\* The loop gives back what a bucket holds
LEMMA GivenGoes ==
  ASSUME IInv, NEW s \in Socks, NEW l \in {"release", "advance"}, pc[s] = l, checked_packets[s][idx[s]] # None,
         Walk(s, l, "idle"), DropLocals(s), UNCHANGED <<taken, localVars>>,
         checked_packets' = [checked_packets EXCEPT ![s][idx[s]] = None],
         checked_bytes' = [checked_bytes EXCEPT ![s][idx[s]] = None],
         packets' \in [Buckets -> Nat], bytes' \in [Buckets -> Nat],
         \A b \in Buckets :
           /\ packets'[b] <= packets[b] + Share(b, idx[s], checked_packets[s][idx[s]] - Keep(l, adv[s]))
           /\ bytes'[b] <= bytes[b] + Share(b, idx[s], total[s][checked_packets[s][idx[s]]]
                                                         - KeepBytes(l, total[s], adv[s]))
  PROVE  IInv' /\ Charged
<1> DEFINE i == idx[s]
           t == total[s]
           a == adv[s]
           k == taken[s]
           c == checked_packets[s][i]
           l2 == Onto(i, l, "idle")
           u == IF i < N THEN t ELSE <<>>
           d == IF i < N THEN a ELSE 0
           m == IF i < N THEN batch[s] ELSE FALSE
           P2 == [checked_packets[s] EXCEPT ![i] = None]
           Q2 == [checked_bytes[s] EXCEPT ![i] = None]
<1>1. /\ pc[s] \notin {"idle", "unbyte", "panic"} /\ pc[s] # "inner" /\ l \in Places /\ "idle" \in Places
      /\ l # "idle"
  BY DEF Places
<1>2. /\ Sized(t) /\ a \in 1..Len(t) /\ (~batch[s] => Len(t) = 1) /\ (NoneEmpty => t[1] > 0) /\ a >= 1
      /\ a \in Nat /\ k \in Nat /\ i \in Buckets /\ t[a] \in Nat
      /\ checked_packets \in [Socks -> Checks] /\ checked_bytes \in [Socks -> Checks]
  BY Zenon, <1>1, Begun DEF IInv, SockTypes
<1>3. Moves(s, l2, Up(i))
  BY Zenon, <1>1, <1>2, WalkIs
<1>4. (i < N => l2 = l /\ u = t /\ d = a /\ m = batch[s]) /\ (~(i < N) => l2 = "idle" /\ u = <<>> /\ d = 0 /\ m = FALSE)
  BY Zenon DEF Onto
<1>5. Asks(s, u, m) /\ Counters(s, d, k)
  <2>1. pc'[s] = l2
    BY Zenon, <1>3 DEF Moves, Upd
  <2> HIDE DEF l2, u, d, m, k, i, t, a
  <2>2. CASE i < N
    <3>1. pc'[s] # "idle"
      BY Zenon, <1>1, <1>4, <2>1, <2>2
    <3> QED BY Zenon, <1>4, <2>2, <3>1, DroppedIs DEF k, t, a
  <2>3. CASE ~(i < N)
    BY Zenon, <1>4, <2>1, <2>3, DroppedIs DEF k
  <2> QED BY Zenon, <2>2, <2>3
<1>6. Checked(s, P2, Q2) /\ Counts(s, cur_packets[s], cur_bytes[s]) /\ Tokens'
  <2>1. None \in Nat \cup {None}
    OBVIOUS
  <2> QED BY Zenon, <1>2, <2>1, UpdAt, SameCounts DEF Checked, Tokens
<1>7. Up(i) \in Buckets
  BY Zenon, <1>2, OntoFact
<1>8. d \in Nat
  BY SMTT(60), <1>2
<1>9. l2 \in {"release", "advance", "idle"}
  BY DEF Onto
<1>10. Req(l2, u, m, d, k) /\ Placed(l2, Up(i))
  <2> HIDE DEF l2, u, d, m, k, i, t, a
  <2>1. CASE i < N
    <3>1. l2 # "unpack" /\ l2 # "unbyte"
      BY <1>9
    <3>2. a \in 0..Len(t)
      BY Zenon, <1>2, SizedAt
    <3> QED BY Zenon, <1>2, <1>4, <1>7, <2>1, <3>1, <3>2 DEF Req, Placed
  <2>2. CASE ~(i < N)
    <3>1. l2 = "idle"
      BY Zenon, <1>4, <2>2
    <3> QED BY <3>1 DEF Req, Placed
  <2> QED BY Zenon, <2>1, <2>2
<1>11. WinOK(s, l2, u, d, cur_packets[s], cur_bytes[s])
  <2>1. l2 \notin Asking
    BY <1>9 DEF Asking, Loop
  <2> HIDE DEF l2, u, d
  <2> QED BY Zenon, <1>8, <2>1, WinKept
<1>12. l2 = "release" => Closed(Up(i), P2)
  <2> SUFFICES ASSUME l2 = "release" PROVE Closed(Up(i), P2)
    BY SMTT(60)
  <2>1. i < N
    BY <1>4
  <2>2. l = "release" /\ Up(i) = i + 1
    BY Zenon, <1>4, <2>1 DEF Up
  <2>3. Closed(i, checked_packets[s]) /\ checked_packets[s] \in Checks
    BY Zenon, <2>2, Here DEF SockInv
  <2>4. Closed(i + 1, P2)
    BY Zenon, <1>2, <2>1, <2>3, GivenClosed
  <2> HIDE DEF P2
  <2> QED BY Zenon, <2>2, <2>4
<1>13. ASSUME NEW b \in Buckets
       PROVE  ChkAt(l2, Up(i), u, d, b, P2[b], Q2[b]) /\ Fair(s, b, l2, Up(i), u, d, k, P2[b])
  <2> DEFINE p == checked_packets[s][b]
             q == checked_bytes[s][b]
             p2 == P2[b]
             q2 == Q2[b]
             x == c - Keep(l, a)
             y == t[c] - KeepBytes(l, t, a)
  <2>1. Seen(l, i, t, a, k, b, p, q)
    BY Zenon, Old
  <2>2. /\ packets[b] \in Nat /\ bytes[b] \in Nat /\ packets'[b] \in Nat /\ bytes'[b] \in Nat
        /\ packets'[b] <= packets[b] + Share(b, i, x) /\ bytes'[b] <= bytes[b] + Share(b, i, y)
        /\ HP(l, i, a, p, b) \in Int /\ HB(l, i, t, a, k, p, b) \in Int
    BY Zenon, <1>13, Old
  <2>3. Put(p2, b, i, None, p) /\ Put(q2, b, i, None, q) /\ (b = i => p = c /\ p # None)
    BY Zenon, <1>2, Here DEF Checks, Put
  <2>4. i \in Buckets /\ Sized(t) /\ a \in 1..Len(t) /\ (i < N => Same(u, t) /\ Same(d, a))
    BY Zenon, <1>2 DEF Same
  <2>5. b = i => p # None
    BY Zenon, <2>3
  <2>c. c \in Nat /\ t[c] \in Nat
    <3>1. Seen(l, i, t, a, k, i, c, checked_bytes[s][i])
      BY Zenon, <1>2, Old
    <3>2. c # None
      OBVIOUS
    <3> HIDE DEF i, t, a, k, c
    <3>3. c \in 1..Len(t)
      BY Zenon, <3>1, <3>2 DEF Seen, ChkAt
    <3> QED BY Zenon, <1>2, <3>3, SizedAt
  <2> HIDE DEF i, t, a, k, p, q, p2, q2, P2, Q2, l2, c, u, d, m
  <2>6. /\ ChkAt(l2, Up(i), u, d, b, p2, q2)
        /\ Gains(HP(l, i, a, p, b), HP(l2, Up(i), d, p2, b), Share(b, i, p - Keep(l, a)))
        /\ Gains(HB(l, i, t, a, k, p, b), HB(l2, Up(i), u, d, k, p2, b), Share(b, i, t[p] - KeepBytes(l, t, a)))
    BY Zenon, <2>1, <2>3, <2>4, <2>5, GivenAt DEF l2
  <2>7. Share(b, i, p - Keep(l, a)) = Share(b, i, x) /\ Share(b, i, t[p] - KeepBytes(l, t, a)) = Share(b, i, y)
    BY Zenon, <2>3 DEF Share
  <2>8. Share(b, i, x) \in Int /\ Share(b, i, y) \in Int
    <3>1. x \in Int /\ y \in Int
      BY Zenon, <1>2, <2>c, KeepInt
    <3> QED BY Zenon, <3>1, ShareInt
  <2>9. HP(l2, Up(i), d, p2, b) \in Int /\ HB(l2, Up(i), u, d, k, p2, b) \in Int
    <3>1. p2 \in Nat \cup {None} /\ k \in Nat
      BY Zenon, <2>1, <2>3 DEF Seen, Put
    <3> QED BY Zenon, <1>10, <2>6, <3>1, HeldInt
  <2> HIDE DEF x, y
  <2>10. Covers(packets[b], HP(l, i, a, p, b), packets'[b], HP(l2, Up(i), d, p2, b))
    <3>1. Gives(packets[b], packets'[b], Share(b, i, x))
      BY Zenon, <2>2 DEF Gives
    <3>2. Gains(HP(l, i, a, p, b), HP(l2, Up(i), d, p2, b), Share(b, i, x))
      BY Zenon, <2>6, <2>7
    <3> QED BY Zenon, <2>2, <2>8, <2>9, <3>1, <3>2, CoversGiven
  <2>11. Covers(bytes[b], HB(l, i, t, a, k, p, b), bytes'[b], HB(l2, Up(i), u, d, k, p2, b))
    <3>1. Gives(bytes[b], bytes'[b], Share(b, i, y))
      BY Zenon, <2>2 DEF Gives
    <3>2. Gains(HB(l, i, t, a, k, p, b), HB(l2, Up(i), u, d, k, p2, b), Share(b, i, y))
      BY Zenon, <2>6, <2>7
    <3> QED BY Zenon, <2>2, <2>8, <2>9, <3>1, <3>2, CoversGiven
  <2>12. Fair(s, b, l2, Up(i), u, d, k, p2)
    BY Zenon, <2>10, <2>11 DEF Fair, i, t, a, k, p
  <2> QED BY Zenon, <2>6, <2>12 DEF p2, q2
<1> HIDE DEF i, t, a, k, c, l2, u, d, m, P2, Q2
<1> QED BY Zenon, <1>3, <1>5, <1>6, <1>10, <1>11, <1>12, <1>13, Step

\* The loops of release_global and of set_advance, one bucket at a time.
LEMMA GiveBackStep ==
  ASSUME IInv, NEW s \in Socks, NEW l \in {"release", "advance"},
         GiveBack(s, l, Keep(l, adv[s]), KeepBytes(l, total[s], adv[s]))
  PROVE  IInv' /\ Charged
<1> DEFINE i == idx[s]
           t == total[s]
           a == adv[s]
           c == checked_packets[s][i]
           q == checked_bytes[s][i]
           x == c - Keep(l, a)
           y == t[c] - KeepBytes(l, t, a)
<1>0. /\ pc[s] = l /\ DropLocals(s) /\ UNCHANGED <<taken, localVars>>
      /\ \/ c = None /\ Goto(s, "idle") /\ UNCHANGED <<packets, bytes, checkedVars>>
         \/ /\ c # None /\ Walk(s, l, "idle")
            /\ checked_packets' = [checked_packets EXCEPT ![s][i] = None]
            /\ checked_bytes' = [checked_bytes EXCEPT ![s][i] = None]
            /\ \/ c > Keep(l, a) /\ packets' = [packets EXCEPT ![i] = Add(@, x, MaxBurstPackets)]
               \/ UNCHANGED packets
            /\ \/ /\ q > KeepBytes(l, t, a)
                  /\ bytes' = [bytes EXCEPT ![i] = Add(@, q - KeepBytes(l, t, a), MaxBurstBytes)]
               \/ UNCHANGED bytes
  BY Zenon DEF GiveBack, AddPackets, AddBytes
<1>1. /\ pc[s] \notin {"idle", "unbyte", "panic"} /\ pc[s] # "inner"
  BY <1>0
<1>2. /\ Sized(t) /\ a \in 1..Len(t) /\ a >= 1 /\ a \in Nat /\ i \in Buckets /\ t[a] \in Nat
      /\ packets \in [Buckets -> Nat] /\ bytes \in [Buckets -> Nat] /\ MaxBurstPackets \in Nat /\ MaxBurstBytes \in Nat
  BY Zenon, <1>1, Begun, DatagramLimitAssumption DEF IInv, Tokens, Bounds
<1>3. i \in Nat /\ c \in Nat \cup {None} /\ ChkAt(l, i, t, a, i, c, q)
  <2>1. Seen(l, i, t, a, taken[s], i, c, q)
    BY Zenon, <1>0, <1>2, Old
  <2> QED BY Zenon, <2>1 DEF Seen
<1>4. CASE c = None /\ Goto(s, "idle") /\ UNCHANGED <<packets, bytes, checkedVars>>
  <2>1. l # "advance"
    <3> HIDE DEF i, t, a, c, q
    <3> QED BY Zenon, <1>2, <1>3, <1>4, AdvanceHas
  <2>2. pc[s] = "release"
    BY <1>0, <2>1
  <2> QED BY Zenon, <1>0, <1>4, <2>2, EndGoes
<1>5. CASE /\ c # None /\ Walk(s, l, "idle")
           /\ checked_packets' = [checked_packets EXCEPT ![s][i] = None]
           /\ checked_bytes' = [checked_bytes EXCEPT ![s][i] = None]
           /\ \/ c > Keep(l, a) /\ packets' = [packets EXCEPT ![i] = Add(@, x, MaxBurstPackets)]
              \/ UNCHANGED packets
           /\ \/ /\ q > KeepBytes(l, t, a)
                 /\ bytes' = [bytes EXCEPT ![i] = Add(@, q - KeepBytes(l, t, a), MaxBurstBytes)]
              \/ UNCHANGED bytes
  <2>1. c \in Nat /\ c \in 1..Len(t) /\ q \in {None, t[c]} /\ (l = "advance" => c >= a)
    <3> HIDE DEF i, t, a, c, q
    <3>1. c \in 1..Len(t) /\ q \in {None, t[c]}
      BY Zenon, <1>3, <1>5 DEF ChkAt
    <3>2. l = "advance" => c >= a
      BY <1>3 DEF ChkAt
    <3> QED BY <3>1, <3>2
  <2>2. t[c] \in Nat /\ (l = "advance" => t[c] >= t[a])
    <3>1. t[c] \in Nat
      BY Zenon, <1>2, <2>1, SizedFact
    <3>2. ASSUME l = "advance" PROVE t[c] >= t[a]
      <4>1. a <= c
        BY SMTT(60), <1>2, <2>1, <3>2
      <4>2. t[a] <= t[c]
        BY Zenon, <1>2, <2>1, <4>1, SizedFact
      <4>3. Under(t[c], t[a])
        BY Zenon, <4>2 DEF Under
      <4> QED BY Zenon, <1>2, <3>1, <4>3, LeftIs
    <3> QED BY Zenon, <3>1, <3>2
  <2> HIDE DEF i, t, a, c, q
  <2>3. x \in Nat /\ y \in Nat /\ KeepBytes(l, t, a) \in Nat /\ Keep(l, a) \in Nat
    BY Zenon, <1>2, <2>1, <2>2, KeepIs
  <2>4. q > KeepBytes(l, t, a) => q - KeepBytes(l, t, a) = y
    BY Zenon, <2>1, <2>2, <2>3, KeepBytesIs
  <2> HIDE DEF x, y
  <2>5. packets' \in [Buckets -> Nat] /\ \A b \in Buckets : packets'[b] <= packets[b] + Share(b, i, x)
    <3>1. CASE packets' = [packets EXCEPT ![i] = Add(@, x, MaxBurstPackets)]
      BY Zenon, <1>2, <2>3, <3>1, AddedIs
    <3>2. CASE UNCHANGED packets
      BY Zenon, <1>2, <2>3, <3>2, KeptIs
    <3> QED BY Zenon, <1>5, <3>1, <3>2
  <2>6. bytes' \in [Buckets -> Nat] /\ \A b \in Buckets : bytes'[b] <= bytes[b] + Share(b, i, y)
    <3>1. CASE bytes' = [bytes EXCEPT ![i] = Add(@, y, MaxBurstBytes)]
      BY Zenon, <1>2, <2>3, <3>1, AddedIs
    <3>2. CASE UNCHANGED bytes
      BY Zenon, <1>2, <2>3, <3>2, KeptIs
    <3> QED BY Zenon, <1>5, <2>4, <3>1, <3>2
  <2>7. \A b \in Buckets :
           /\ packets'[b] <= packets[b] + Share(b, idx[s], checked_packets[s][idx[s]] - Keep(l, adv[s]))
           /\ bytes'[b] <= bytes[b] + Share(b, idx[s], total[s][checked_packets[s][idx[s]]]
                                                         - KeepBytes(l, total[s], adv[s]))
    BY Zenon, <2>5, <2>6 DEF x, y, c, a, t, i
  <2> QED BY Zenon, <1>0, <1>5, <2>5, <2>6, <2>7, GivenGoes DEF c, i
<1> QED BY Zenon, <1>0, <1>4, <1>5

\* release_global gives everything back.
LEMMA ReleaseGlobalStep == ASSUME IInv, NEW s \in Socks, ReleaseGlobal(s) PROVE IInv' /\ Charged
<1>1. Keep("release", adv[s]) = 0 /\ KeepBytes("release", total[s], adv[s]) = 0 /\ "release" \in {"release", "advance"}
  BY DEF Keep, KeepBytes
<1> QED BY Zenon, <1>1, GiveBackStep DEF ReleaseGlobal

\* set_advance gives back what was not sent.
LEMMA SetAdvanceStep == ASSUME IInv, NEW s \in Socks, SetAdvance(s) PROVE IInv' /\ Charged
<1>1. /\ Keep("advance", adv[s]) = adv[s] /\ KeepBytes("advance", total[s], adv[s]) = total[s][adv[s]]
      /\ "advance" \in {"release", "advance"}
  BY DEF Keep, KeepBytes
<1> QED BY Zenon, <1>1, GiveBackStep DEF SetAdvance

-----------------------------------------------------------------------------
(* The beginning of a poll, the clock and the replenish task *)

\* Only the window of the socket changes
LEMMA CountGoes ==
  ASSUME IInv, NEW s \in Socks, UNCHANGED <<bucketVars, pollVars, checkedVars>>, NEW cp, NEW cb, Counts(s, cp, cb),
         WinOK(s, pc[s], total[s], adv[s], cp, cb)
  PROVE  IInv' /\ Charged
<1>1. UNCHANGED <<bytes, packets, pc, idx, total, batch, adv, taken>>
  BY Zenon DEF bucketVars, pollVars
<1>2. /\ Moves(s, pc[s], idx[s]) /\ Counters(s, adv[s], taken[s]) /\ Asks(s, total[s], batch[s])
      /\ Checked(s, checked_packets[s], checked_bytes[s])
  BY Zenon, <1>1, UpdSame, SameCounters, SameAsks, SameChecked DEF Moves, IInv, SockTypes
<1>3. Tokens'
  BY Zenon, <1>1 DEF IInv, Tokens
<1>4. Req(pc[s], total[s], batch[s], adv[s], taken[s]) /\ Placed(pc[s], idx[s])
      /\ (pc[s] = "release" => Closed(idx[s], checked_packets[s]))
  BY Zenon, Here DEF SockInv
<1>5. ASSUME NEW b \in Buckets
      PROVE  /\ ChkAt(pc[s], idx[s], total[s], adv[s], b, checked_packets[s][b], checked_bytes[s][b])
             /\ Fair(s, b, pc[s], idx[s], total[s], adv[s], taken[s], checked_packets[s][b])
  <2>1. ChkAt(pc[s], idx[s], total[s], adv[s], b, checked_packets[s][b], checked_bytes[s][b])
    BY Zenon, <1>5, Here DEF SockInv
  <2>2. /\ packets[b] \in Nat /\ bytes[b] \in Nat /\ packets'[b] = packets[b] /\ bytes'[b] = bytes[b]
        /\ HP(pc[s], idx[s], adv[s], checked_packets[s][b], b) \in Int
        /\ HB(pc[s], idx[s], total[s], adv[s], taken[s], checked_packets[s][b], b) \in Int
    BY Zenon, <1>1, <1>5, Old
  <2>3. /\ Covers(packets[b], HP(pc[s], idx[s], adv[s], checked_packets[s][b], b),
                  packets'[b], HP(pc[s], idx[s], adv[s], checked_packets[s][b], b))
        /\ Covers(bytes[b], HB(pc[s], idx[s], total[s], adv[s], taken[s], checked_packets[s][b], b),
                  bytes'[b], HB(pc[s], idx[s], total[s], adv[s], taken[s], checked_packets[s][b], b))
    <3>1. Same(packets'[b], packets[b]) /\ Same(bytes'[b], bytes[b])
          /\ Same(HP(pc[s], idx[s], adv[s], checked_packets[s][b], b), HP(pc[s], idx[s], adv[s], checked_packets[s][b], b))
          /\ Same(HB(pc[s], idx[s], total[s], adv[s], taken[s], checked_packets[s][b], b),
                  HB(pc[s], idx[s], total[s], adv[s], taken[s], checked_packets[s][b], b))
      BY Zenon, <2>2 DEF Same
    <3> QED BY Zenon, <2>2, <3>1, CoversSame
  <2> QED BY Zenon, <2>1, <2>3 DEF Fair
<1> QED BY Zenon, <1>2, <1>3, <1>4, <1>5, Step

\* The clock enters another time slice.
LEMMA NextSliceStep == ASSUME IInv, NEW s \in Socks, NextSlice(s) PROVE IInv' /\ Charged
<1>1. UNCHANGED <<bucketVars, pollVars, checkedVars>> /\ UNCHANGED <<cur_packets, cur_bytes>>
      /\ new_slice' = [new_slice EXCEPT ![s] = TRUE]
  BY Zenon DEF NextSlice
<1>2. new_slice' \in [Socks -> BOOLEAN]
  <2>1. new_slice \in [Socks -> BOOLEAN]
    BY Zenon DEF IInv, SockTypes
  <2> QED BY SMTT(60), <1>1, <2>1
<1>3. Counts(s, cur_packets[s], cur_bytes[s])
  BY Zenon, <1>1, <1>2, UpdSame DEF IInv, SockTypes, Counts
<1>4. WinOK(s, pc[s], total[s], adv[s], cur_packets[s], cur_bytes[s])
  BY Zenon, Here DEF SockInv
<1> QED BY Zenon, <1>1, <1>3, <1>4, CountGoes

\* The window at a poll: what it has counted, or nothing in a new slice
LEMMA WindowIs ==
  ASSUME IInv, NEW s \in Socks
  PROVE  WinPackets(s) \in Nat /\ WinBytes(s) \in Nat /\ (Local(s) => Counted(WinPackets(s), WinBytes(s)))
<1>1. cur_packets[s] \in Nat /\ cur_bytes[s] \in Nat /\ 0 \in Nat
  BY Here
<1>2. Local(s) => Counted(cur_packets[s], cur_bytes[s])
  BY Zenon, Here DEF SockInv, WinOK
<1>3. Counted(0, 0)
  BY DatagramLimitAssumption DEF Counted, Bounds
<1> QED BY Zenon, <1>1, <1>2, <1>3 DEF WinPackets, WinBytes

\* A request the window lets through has room in it
Granting(s, t, grants) ==
  \A n \in grants : n \in 1..Len(t) /\ Room(t, n, WinPackets(s), WinBytes(s))

\* A poll begins: the local window delays it, or the packets it grants are asked of the buckets.
LEMMA BeginStep ==
  ASSUME IInv, NEW s \in Socks, NEW t, NEW m \in BOOLEAN, NEW delays, NEW grants, Begin(s, t, m, delays, grants),
         Sized(t), ~m => Len(t) = 1, NoneEmpty => t[1] > 0,
         Local(s) /\ ~delays => Granting(s, t, grants)
  PROVE  IInv' /\ Charged
<1> DEFINE cp == IF Local(s) THEN WinPackets(s) ELSE cur_packets[s]
           cb == IF Local(s) THEN WinBytes(s) ELSE cur_bytes[s]
           l2 == IF N = 0 THEN "inner" ELSE "packets"
           k == taken[s]
<1>0. /\ pc[s] = "idle"
      /\ cur_packets' = [cur_packets EXCEPT ![s] = cp] /\ cur_bytes' = [cur_bytes EXCEPT ![s] = cb]
      /\ new_slice' = [new_slice EXCEPT ![s] = IF Local(s) THEN FALSE ELSE @]
      /\ UNCHANGED <<bytes, packets, taken, checkedVars>>
  BY Zenon DEF Begin, bucketVars
<1>1. cp \in Nat /\ cb \in Nat /\ (Local(s) => Counted(cp, cb))
  BY Zenon, WindowIs, Here
<1>2. new_slice' \in [Socks -> BOOLEAN]
  <2>1. new_slice \in [Socks -> BOOLEAN]
    BY Zenon DEF IInv, SockTypes
  <2>2. (IF Local(s) THEN FALSE ELSE new_slice[s]) \in BOOLEAN
    BY Zenon, <2>1
  <2> QED BY Zenon, <1>0, <2>1, <2>2
<1>3. Counts(s, cp, cb)
  <2> HIDE DEF cp, cb
  <2> QED BY Zenon, <1>0, <1>1, <1>2, UpdIs DEF IInv, SockTypes, Counts
<1>4. CASE Local(s) /\ delays
  <2>1. UNCHANGED <<pc, idx, total, batch, adv>>
    BY Zenon, <1>4 DEF Begin
  <2>2. UNCHANGED <<bucketVars, pollVars, checkedVars>>
    BY Zenon, <1>0, <2>1 DEF bucketVars, pollVars
  <2>3. WinOK(s, pc[s], total[s], adv[s], cp, cb)
    <3>1. pc[s] \notin Asking
      BY <1>0 DEF Asking, Loop
    <3> QED BY Zenon, <1>1, <3>1 DEF WinOK
  <2> HIDE DEF cp, cb
  <2> QED BY Zenon, <1>3, <2>2, <2>3, CountGoes
<1>5. CASE ~(Local(s) /\ delays)
  <2>1. /\ Goto(s, l2) /\ total' = [total EXCEPT ![s] = t] /\ batch' = [batch EXCEPT ![s] = m]
        /\ \E n \in IF Local(s) THEN grants ELSE {Len(t)} : adv' = [adv EXCEPT ![s] = n]
    BY Zenon, <1>5 DEF Begin
  <2>2. PICK n \in IF Local(s) THEN grants ELSE {Len(t)} : adv' = [adv EXCEPT ![s] = n]
    BY Zenon, <2>1
  <2>3. n \in 1..Len(t) /\ (Local(s) => Room(t, n, cp, cb))
    <3>1. CASE Local(s)
      <4>1. n \in 1..Len(t) /\ Room(t, n, WinPackets(s), WinBytes(s))
        BY Zenon, <1>5, <2>2, <3>1 DEF Granting
      <4> QED BY Zenon, <3>1, <4>1
    <3>2. CASE ~Local(s)
      <4>1. n = Len(t)
        BY Zenon, <2>2, <3>2
      <4>2. Len(t) \in 1..Len(t)
        BY Zenon, SizedLast
      <4> QED BY Zenon, <3>2, <4>1, <4>2
    <3> QED BY Zenon, <3>1, <3>2
  <2>4. n \in Nat /\ n >= 1 /\ n \in 0..Len(t) /\ t \in Seq(Nat)
    BY Zenon, <2>3, SizedAt
  <2>5. l2 \in {"inner", "packets"} /\ l2 \in Places
    BY Zenon DEF Places
  <2>6. /\ Moves(s, l2, 1) /\ Counters(s, n, k) /\ Asks(s, t, m) /\ Checked(s, checked_packets[s], checked_bytes[s])
    <3> HIDE DEF l2
    <3>1. Moves(s, l2, 1)
      BY Zenon, <2>1, <2>5, GotoIs
    <3>2. Counters(s, n, k)
      BY Zenon, <1>0, <2>2, <2>4, AdvIs
    <3>3. Asks(s, t, m)
      <4>1. total \in [Socks -> Seq(Nat)] /\ batch \in [Socks -> BOOLEAN]
        BY Zenon DEF IInv, SockTypes
      <4>2. Upd(total, total', Seq(Nat), s, t)
        BY Zenon, <2>1, <2>4, <4>1, UpdIs
      <4>3. Upd(batch, batch', BOOLEAN, s, m)
        BY Zenon, <2>1, <4>1, UpdIs
      <4> QED BY Zenon, <4>2, <4>3 DEF Asks
    <3>4. Checked(s, checked_packets[s], checked_bytes[s])
      BY Zenon, <1>0, SameChecked
    <3> QED BY Zenon, <3>1, <3>2, <3>3, <3>4
  <2>7. Tokens'
    BY Zenon, <1>0 DEF IInv, Tokens
  <2>8. Req(l2, t, m, n, k) /\ l2 # "release"
    <3> HIDE DEF l2
    <3>1. l2 # "unpack" /\ l2 # "unbyte" /\ l2 # "release"
      BY Zenon, <2>5, BeginsAt
    <3> QED BY Zenon, <2>4, <3>1 DEF Req
  <2>9. Placed(l2, 1)
    <3>1. N = 0 => l2 = "inner"
      BY Zenon
    <3> HIDE DEF l2
    <3> QED BY Zenon, <2>5, <3>1, BeginsAt
  <2>10. WinOK(s, l2, t, n, cp, cb)
    BY Zenon, <1>1, <2>3 DEF WinOK
  <2>11. ASSUME NEW b \in Buckets
         PROVE  /\ ChkAt(l2, 1, t, n, b, checked_packets[s][b], checked_bytes[s][b])
                /\ Fair(s, b, l2, 1, t, n, k, checked_packets[s][b])
    <3> DEFINE p == checked_packets[s][b]
               q == checked_bytes[s][b]
    <3>1. ChkAt("idle", idx[s], total[s], adv[s], b, p, q)
      BY Zenon, <1>0, <2>11, Here DEF SockInv
    <3>2. packets[b] \in Nat /\ bytes[b] \in Nat /\ packets'[b] = packets[b] /\ bytes'[b] = bytes[b]
      BY Zenon, <1>0, <2>11, Old
    <3>3. l2 = "packets"
      BY Zenon, <2>11, SomeBucket
    <3> HIDE DEF p, q, l2
    <3>4. /\ ChkAt("packets", 1, t, n, b, p, q)
          /\ HP("idle", idx[s], adv[s], p, b) \in Int /\ HB("idle", idx[s], total[s], adv[s], k, p, b) \in Int
          /\ Same(HP("packets", 1, n, p, b), HP("idle", idx[s], adv[s], p, b))
          /\ Same(HB("packets", 1, t, n, k, p, b), HB("idle", idx[s], total[s], adv[s], k, p, b))
      BY Zenon, <2>11, <3>1, BegunAt
    <3>5. ChkAt(l2, 1, t, n, b, p, q)
      BY Zenon, <3>3, <3>4
    <3>6. Same(packets'[b], packets[b]) /\ Same(bytes'[b], bytes[b])
      BY Zenon, <3>2 DEF Same
    <3>7. /\ Covers(packets[b], HP("idle", idx[s], adv[s], p, b), packets'[b], HP(l2, 1, n, p, b))
          /\ Covers(bytes[b], HB("idle", idx[s], total[s], adv[s], k, p, b), bytes'[b], HB(l2, 1, t, n, k, p, b))
      BY Zenon, <3>2, <3>3, <3>4, <3>6, CoversSame
    <3>8. Fair(s, b, l2, 1, t, n, k, p)
      BY Zenon, <1>0, <3>7 DEF Fair, p
    <3> QED BY Zenon, <3>5, <3>8 DEF p, q
  <2> HIDE DEF cp, cb, l2, k
  <2> QED BY Zenon, <1>3, <2>6, <2>7, <2>8, <2>9, <2>10, <2>11, Step
<1> QED BY Zenon, <1>4, <1>5

\* poll_send of one packet.
LEMMA PollOneStep ==
  ASSUME IInv, NEW s \in Socks, NEW v \in Singles, PollOne(s, v)
  PROVE  IInv' /\ Charged
<1> DEFINE t == <<v>>
<1>1. Sized(t) /\ (NoneEmpty => v > 0) /\ MaxPackets \in Nat /\ MaxBytes \in Nat
  BY Zenon, DatagramLimitAssumption DEF Bounds, NoneEmpty
<1>2. t[1] = v /\ Len(t) = 1 /\ v \in Nat /\ FALSE \in BOOLEAN
  <2>1. t[1] = v /\ Len(t) = 1
    OBVIOUS
  <2>2. 1 \in 1..Len(t)
    BY <2>1
  <2>3. t[1] \in Nat
    BY Zenon, <1>1, <2>2, SizedFact
  <2> QED BY <2>1, <2>3
<1> HIDE DEF t
<1>3. ASSUME Local(s), ~LocalDelaysOne(s, v) PROVE Granting(s, t, {1})
  <2>1. WinPackets(s) \in Nat /\ WinBytes(s) \in Nat /\ Counted(WinPackets(s), WinBytes(s))
    BY Zenon, <1>3, WindowIs
  <2>2. Room(t, 1, WinPackets(s), WinBytes(s))
    BY SMTT(60), <1>1, <1>2, <1>3, <2>1 DEF LocalDelaysOne, Room, Counted
  <2>3. 1 \in 1..Len(t)
    BY <1>2
  <2> QED BY <2>2, <2>3 DEF Granting
<1>4. Begin(s, t, FALSE, LocalDelaysOne(s, v), {1})
  BY Zenon DEF PollOne, t
<1>5. NoneEmpty => t[1] > 0
  BY Zenon, <1>1, <1>2
<1> QED BY Zenon, <1>1, <1>2, <1>3, <1>4, <1>5, BeginStep

\* poll_batch_send of several.
LEMMA PollBatchStep ==
  ASSUME IInv, NEW s \in Socks, NEW t \in Batches, PollBatch(s, t)
  PROVE  IInv' /\ Charged
<1>1. Sized(t) /\ (NoneEmpty => t[1] > 0) /\ MaxPackets \in Nat /\ MaxBytes \in Nat /\ TRUE \in BOOLEAN
  BY Zenon, DatagramLimitAssumption DEF Bounds, NoneEmpty
<1>3. ASSUME Local(s), ~LocalDelaysBatch(s, t) PROVE Granting(s, t, LocalGrants(s, t))
  <2> DEFINE cp == WinPackets(s)
             cb == WinBytes(s)
             p == IF MaxPackets > 0 THEN Min({Len(t), MaxPackets - cp}) ELSE Len(t)
             z == MaxBytes - cb
  <2>1. cp \in Nat /\ cb \in Nat /\ Counted(cp, cb)
    BY Zenon, <1>3, WindowIs
  <2>2. /\ MaxPackets > 0 => cp < MaxPackets
        /\ MaxBytes > 0 => cb < MaxBytes
        /\ MaxBytes > 0 /\ cb > 0 => ~(t[1] > z)
    BY SMTT(60), <1>1, <1>3, <2>1 DEF LocalDelaysBatch
  <2>3. Len(t) \in Nat /\ 1 <= Len(t) /\ 1 \in 1..Len(t) /\ t[1] \in Nat
    BY SMTT(60), <1>1, SizedFact
  <2>4. p \in Nat /\ 1 <= p /\ p <= Len(t) /\ (MaxPackets > 0 => cp + p <= MaxPackets)
    BY SMTT(60), <1>1, <2>1, <2>2, <2>3, MinIs
  <2>5. LocalGrants(s, t) = IF MaxBytes = 0 THEN {p} ELSE {Max({n, 1}) : n \in WholePackets(t, p, z)}
    BY Zenon DEF LocalGrants
  <2>6. z \in Int
    BY <1>1, <2>1
  <2> HIDE DEF cp, cb, p
  <2>7. SUFFICES ASSUME NEW a \in LocalGrants(s, t) PROVE a \in 1..Len(t) /\ Room(t, a, cp, cb)
    BY Zenon DEF Granting, cp, cb
  <2>8. CASE MaxBytes = 0
    <3>1. a = p
      BY Zenon, <2>5, <2>7, <2>8
    <3> QED BY SMTT(60), <1>1, <2>1, <2>3, <2>4, <2>8, <3>1 DEF Room
  <2>9. CASE MaxBytes # 0
    <3>1. PICK n \in WholePackets(t, p, z) : a = Max({n, 1})
      BY Zenon, <2>5, <2>7, <2>9
    <3>2. p \in 0..Len(t)
      BY <2>3, <2>4
    <3> HIDE DEF z
    <3>3. n \in 0..p /\ (n > 0 => t[n] \in Nat /\ t[n] <= z) /\ (n = 0 /\ p > 0 => t[1] > z)
      BY Zenon, <1>1, <2>6, <3>1, <3>2, WholeIs
    <3>4. n \in Nat /\ n <= p /\ a = IF n >= 1 THEN n ELSE 1
      BY SMTT(60), <2>4, <3>1, <3>3, MaxIs
    <3>5. CASE n >= 1
      <4>1. a = n /\ t[a] \in Nat /\ t[a] <= z /\ a \in 1..Len(t)
        BY SMTT(60), <2>3, <2>4, <3>3, <3>4, <3>5
      <4>2. cb + t[a] <= MaxBytes
        BY SMTT(60), <1>1, <2>1, <4>1 DEF z
      <4>3. MaxPackets > 0 => cp + a <= MaxPackets + 1
        BY SMTT(60), <1>1, <2>1, <2>4, <3>4, <4>1
      <4> QED BY Zenon, <4>1, <4>2, <4>3 DEF Room
    <3>6. CASE ~(n >= 1)
      <4>1. a = 1 /\ t[1] > z /\ MaxBytes > 0
        BY SMTT(60), <1>1, <2>4, <2>9, <3>3, <3>4, <3>6
      <4>2. cb = 0
        BY SMTT(60), <2>1, <2>2, <4>1
      <4>3. NoneEmpty => cp = 0
        BY Zenon, <2>1, <4>2 DEF Counted
      <4>4. MaxPackets > 0 => cp + a <= MaxPackets + 1
        BY SMTT(60), <1>1, <2>1, <2>4, <4>1
      <4>5. a \in 1..Len(t)
        BY Zenon, <2>3, <4>1
      <4> QED BY Zenon, <4>1, <4>3, <4>4, <4>5 DEF Room
    <3> QED BY Zenon, <3>5, <3>6
  <2> QED BY Zenon, <2>8, <2>9
<1>4. Begin(s, t, TRUE, LocalDelaysBatch(s, t), LocalGrants(s, t))
  BY Zenon DEF PollBatch
<1> QED BY Zenon, <1>1, <1>3, <1>4, BeginStep

\* The replenish task gives to its bucket and leaves the others.
LEMMA ReplenishStep ==
  ASSUME IInv, NEW b \in Buckets, Replenish(b)
  PROVE  /\ IInv'
         /\ \A c \in Buckets : \/ Replenish(c)
                               \/ \E s \in Socks :
                                    /\ RPackets > 0 => Packets(s, c)' <= Packets(s, c)
                                    /\ RBytes > 0 => Bytes(s, c)' <= Bytes(s, c)
                                    /\ \A o \in Socks \ {s} : /\ HeldPackets(o, c)' = HeldPackets(o, c)
                                                             /\ HeldBytes(o, c)' = HeldBytes(o, c)
<1>1. /\ UNCHANGED <<pc, idx, total, batch, adv, taken, checked_packets, checked_bytes, cur_packets, cur_bytes, new_slice>>
      /\ \/ bytes' = [bytes EXCEPT ![b] = Add(@, RBytes, MaxBurstBytes)] /\ packets' = packets
         \/ bytes' = bytes /\ packets' = [packets EXCEPT ![b] = Add(@, RPackets, MaxBurstPackets)]
  BY Zenon DEF Replenish, ReplenishBytes, ReplenishPackets, AddBytes, AddPackets, pollVars, checkedVars, localVars
<1>2. /\ bytes \in [Buckets -> Nat] /\ packets \in [Buckets -> Nat] /\ RBytes \in Nat /\ RPackets \in Nat
      /\ MaxBurstBytes \in Nat /\ MaxBurstPackets \in Nat
  BY Zenon, DatagramLimitAssumption DEF IInv, Tokens, Bounds
<1>3. Tokens'
  BY Zenon, <1>1, <1>2, AddedIs DEF Tokens
<1>4. IInv'
  <2>1. SockTypes'
    BY Zenon, <1>1 DEF IInv, SockTypes
  <2>2. ASSUME NEW s \in Socks PROVE SockInv(s)'
    <3>1. SockInv(s)
      BY Zenon, <2>2 DEF IInv
    <3> QED BY Zenon, <1>1, <3>1 DEF SockInv
  <2> QED BY Zenon, <1>3, <2>1, <2>2 DEF IInv
<1>5. ASSUME NEW c \in Buckets, c # b
      PROVE  \E s \in Socks :
               /\ RPackets > 0 => Packets(s, c)' <= Packets(s, c)
               /\ RBytes > 0 => Bytes(s, c)' <= Bytes(s, c)
               /\ \A o \in Socks \ {s} : /\ HeldPackets(o, c)' = HeldPackets(o, c)
                                        /\ HeldBytes(o, c)' = HeldBytes(o, c)
  <2>1. \E s \in Socks : TRUE
    BY Zenon, DatagramLimitAssumption DEF Bounds
  <2>2. PICK s \in Socks : TRUE
    BY Zenon, <2>1
  <2>3. \A o \in Socks : HeldPackets(o, c)' = HeldPackets(o, c) /\ HeldBytes(o, c)' = HeldBytes(o, c)
    BY Zenon, <1>1 DEF HeldPackets, HeldBytes
  <2>4. /\ packets'[c] = packets[c] /\ bytes'[c] = bytes[c] /\ packets[c] \in Nat /\ bytes[c] \in Nat
    BY Zenon, <1>1, <1>2, <1>5
  <2>5. HeldPackets(s, c) \in Int /\ HeldBytes(s, c) \in Int
    BY Zenon, <1>5, Old, HeldIs
  <2>6. Packets(s, c)' = packets[c] + HeldPackets(s, c) /\ Bytes(s, c)' = bytes[c] + HeldBytes(s, c)
    BY Zenon, <2>3, <2>4 DEF Packets, Bytes
  <2>7. Packets(s, c)' <= Packets(s, c) /\ Bytes(s, c)' <= Bytes(s, c)
    BY SMTT(60), <2>4, <2>5, <2>6 DEF Packets, Bytes
  <2> QED BY Zenon, <2>3, <2>7
<1> QED BY Zenon, <1>4, <1>5

\* What RateKept says of any step
Rated ==
  \A b \in Buckets :
    \/ Replenish(b)
    \/ \E s \in Socks :
         /\ RPackets > 0 => Packets(s, b)' <= Packets(s, b)
         /\ RBytes > 0 => Bytes(s, b)' <= Bytes(s, b)
         /\ \A o \in Socks \ {s} : /\ HeldPackets(o, b)' = HeldPackets(o, b)
                                  /\ HeldBytes(o, b)' = HeldBytes(o, b)

\* Every step keeps the inductive invariant and is paid for.
LEMMA NextKeeps == ASSUME IInv, Next PROVE IInv' /\ Rated
<1>1. ASSUME NEW s \in Socks, SockStep(s) PROVE IInv' /\ Charged
  <2>1. CASE Poll(s)
    BY Zenon, <1>1, <2>1, PollOneStep, PollBatchStep DEF Poll
  <2>2. CASE Run(s)
    BY Zenon, <1>1, <2>2, TakePacketsStep, TakeBytesStep, RefuseStep, UnpackStep, UnbyteStep, ShrinkStep,
       ReleaseGlobalStep, SetAdvanceStep DEF Run
  <2>3. CASE Sent(s)
    BY Zenon, <1>1, <2>3, InnerReadyStep DEF Sent
  <2>4. CASE InnerFails(s)
    BY Zenon, <1>1, <2>4, InnerFailsStep
  <2>5. CASE NextSlice(s)
    BY Zenon, <1>1, <2>5, NextSliceStep
  <2> QED BY Zenon, <1>1, <2>1, <2>2, <2>3, <2>4, <2>5 DEF SockStep
<1>2. Charged => Rated
  BY Zenon DEF Charged, Rated
<1>3. ASSUME NEW b \in Buckets, Replenish(b) PROVE IInv' /\ Rated
  BY Zenon, <1>3, ReplenishStep DEF Rated
<1> QED BY Zenon, <1>1, <1>2, <1>3 DEF Next

\* The inductive invariant holds at first: no poll is under way.
LEMMA InitHolds == Init => IInv
<1> SUFFICES ASSUME Init PROVE IInv
  OBVIOUS
<1>0. RBytes \in Nat /\ RPackets \in Nat
  BY Zenon, DatagramLimitAssumption DEF Bounds
<1>1. Tokens
  BY SMTT(60), <1>0 DEF Init, Tokens
<1>2. SockTypes
  BY DEF Init, SockTypes, Checks, Places, None
<1>3. ASSUME NEW s \in Socks PROVE SockInv(s)
  <2>1. /\ pc[s] = "idle" /\ cur_packets[s] = 0 /\ cur_bytes[s] = 0
        /\ \A b \in Buckets : checked_packets[s][b] = None /\ checked_bytes[s][b] = None
    BY Zenon DEF Init
  <2>2. Req(pc[s], total[s], batch[s], adv[s], taken[s]) /\ Placed(pc[s], idx[s]) /\ pc[s] # "release"
    BY SMTT(60), <2>1 DEF Req, Placed
  <2>3. ASSUME NEW b \in Buckets
        PROVE  ChkAt(pc[s], idx[s], total[s], adv[s], b, checked_packets[s][b], checked_bytes[s][b])
    <3>1. checked_packets[s][b] = None /\ checked_bytes[s][b] = None
      BY Zenon, <2>1, <2>3
    <3> QED BY SMTT(60), <2>1, <3>1 DEF ChkAt, Loop
  <2>4. WinOK(s, pc[s], total[s], adv[s], cur_packets[s], cur_bytes[s])
    <3>1. pc[s] \notin Asking
      BY SMTT(60), <2>1 DEF Asking, Loop
    <3>2. Counted(0, 0)
      BY DatagramLimitAssumption DEF Counted, Bounds
    <3> QED BY Zenon, <2>1, <3>1, <3>2 DEF WinOK
  <2> QED BY Zenon, <2>2, <2>3, <2>4 DEF SockInv
<1> QED BY Zenon, <1>1, <1>2, <1>3 DEF IInv

\* What the inductive invariant is for.
LEMMA InvHolds == IInv => Inv
<1> SUFFICES ASSUME IInv PROVE Inv
  OBVIOUS
<1>1. TypeOK
  BY Zenon DEF IInv, Tokens, SockTypes, TypeOK, Checks
<1>2. ASSUME NEW s \in Socks, NEW b \in Buckets
      PROVE  ChkAt(pc[s], idx[s], total[s], adv[s], b, checked_packets[s][b], checked_bytes[s][b])
  BY Zenon, <1>2, Here DEF SockInv
<1>3. ChargedAlike
  BY Zenon, <1>2 DEF ChargedAlike, ChkAt
<1>4. NothingHeld
  BY Zenon, <1>2 DEF NothingHeld, ChkAt
<1>5. WindowKept
  BY Zenon, Here DEF WindowKept, SockInv, WinOK, Counted
<1> QED BY Zenon, <1>1, <1>3, <1>4, <1>5 DEF Inv

\* It is about these variables alone.
LEMMA StutterKeeps == ASSUME IInv, UNCHANGED vars PROVE IInv'
<1>1. UNCHANGED <<bytes, packets, pc, idx, total, batch, adv, taken, checked_packets, checked_bytes,
                  cur_packets, cur_bytes, new_slice>>
  BY Zenon DEF vars, bucketVars, pollVars, checkedVars, localVars
<1>2. Tokens' /\ SockTypes'
  BY Zenon, <1>1 DEF IInv, Tokens, SockTypes
<1>3. ASSUME NEW s \in Socks PROVE SockInv(s)'
  <2>1. SockInv(s)
    BY Zenon, <1>3 DEF IInv
  <2> QED BY Zenon, <1>1, <2>1 DEF SockInv
<1> QED BY Zenon, <1>2, <1>3 DEF IInv

\* So it always holds.
LEMMA IInvKept == Spec => []IInv
<1>1. IInv /\ [Next]_vars => IInv'
  BY Zenon, NextKeeps, StutterKeeps
<1> QED BY <1>1, InitHolds, PTL DEF Spec

\* For any sockets, buckets, bursts and sizes: the inner socket is called with exactly the packets
\* every bucket was charged with, between polls nothing is held, no counter goes below zero, and
\* a local window lets one packet more than max_packets through at most, and more than max_bytes
\* only with its first packet (check_packet, check_packets, set_advance, release_global).
THEOREM DatagramCorrect == Spec => []Inv
  BY IInvKept, InvHolds, PTL

\* For any sockets, buckets, bursts and sizes: no step but one of the replenish task adds to the
\* packets or bytes of a bucket together with what the polls hold of it, so nothing is sent that
\* was not paid for and nothing is given back twice (try_consume, release_global, set_advance).
THEOREM DatagramRateCorrect == Spec => RateKept
<1>1. IInv /\ [Next]_vars => [Rated]_vars
  BY Zenon, NextKeeps
<1>2. [][Rated]_vars => RateKept
  BY PTL DEF RateKept, Rated
<1> QED BY <1>1, <1>2, IInvKept, PTL DEF Spec
=============================================================================
