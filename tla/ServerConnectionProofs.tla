----------------------- MODULE ServerConnectionProofs -----------------------
(***************************************************************************)
(* Theorems on ServerConnection, for every size of the responses, of the   *)
(* vector that sendmsg() takes, of the blocks read and of the kernel's     *)
(* buffer, and any input.                                                  *)
(*                                                                         *)
(* The argument.  The queue is a run of response numbers that ends with    *)
(* the last answered (QueueNumbers), so the bytes that the kernel has and  *)
(* the bytes of the queue make up all responses (DeliveredSoFar), as long  *)
(* as first_write_buf_pos_ is right.  Facts on what a recursive function   *)
(* or a cardinality computes rest on LeastNatural: a least counterexample. *)
(***************************************************************************)
EXTENDS ServerConnection, FiniteSetTheorems, WellFoundedInduction, TLAPS

\* The queue is a run of response numbers that ends with the last answered.
QueueNumbers ==
  /\ Len(write_bufs_) <= answered
  /\ \A i \in 1 .. Len(write_bufs_) :
       write_bufs_[i] = answered - Len(write_bufs_) + i

\* What the kernel has is what lies before the first byte of the queue.
DeliveredSoFar ==
  ~cut_twice =>
    /\ in_order
    /\ delivered = (answered - Len(write_bufs_)) * ResponseSize + first_write_buf_pos_

QueueInv == MessageConsistent /\ QueueNumbers /\ DeliveredSoFar

\* No line stays behind read_processed_buf_pos_ unanswered.
ReadInv == LineAnswered /\ Newlines(read_buf_, read_processed_buf_pos_) = {}

BothClosed == flags.read_closed /\ flags.write_closed

\* While something is queued the write flag is set, or the handler is about to
\* be removed; the write side is closed by an error or with nothing queued.
FlowInv ==
  /\ pc \in {"armed", "write"} /\ write_bufs_ # <<>> => flags.handle_write \/ BothClosed
  /\ pc = "removed" => BothClosed
  /\ flags.write_closed =>
       /\ flags.read_closed
       /\ pc \in {"write", "removed", "killed"}
       /\ sock_error # "none" \/ write_bufs_ = <<>>

IndInv == TypeOK /\ QueueInv /\ ReadInv /\ FlowInv

-----------------------------------------------------------------------------
(* The operators.                                                          *)

\* Every set of natural numbers that is not empty has a least element.
LEMMA LeastNatural ==
  ASSUME NEW T \in SUBSET Nat, T # {}
  PROVE  \E m \in T : \A n \in T : m <= n
<1> DEFINE R == OpToRel(<, Nat)
<1>1. IsWellFoundedOn(R, Nat)
  BY NatLessThanWellFounded
<1>2. \A m, n \in Nat : <<n, m>> \in R <=> n < m
  BY DEF OpToRel
<1>3. \E Q : IsWellFoundedOn(Q, Nat) /\ \A m, n \in Nat : <<n, m>> \in Q <=> n < m
  <2> HIDE DEF R
  <2> QED
    BY <1>1, <1>2
<1>4. PICK Q : IsWellFoundedOn(Q, Nat) /\ \A m, n \in Nat : <<n, m>> \in Q <=> n < m
  BY <1>3
<1>5. PICK m \in T : \A n \in T : <<n, m>> \notin Q
  BY <1>4, WFMin
<1>6. ASSUME NEW n \in T PROVE m <= n
  <2>1. n \in Nat /\ m \in Nat
    OBVIOUS
  <2>2. ~(n < m)
    BY <1>4, <1>5, <2>1
  <2> QED
    BY <2>1, <2>2
<1> QED
  BY <1>6

\* A bounded set of natural numbers that is not empty has a maximum.
LEMMA MaxIsGreatest ==
  ASSUME NEW S \in SUBSET Nat, S # {}, NEW b \in Nat, \A x \in S : x <= b
  PROVE  Max(S) \in S /\ \A x \in S : x <= Max(S)
<1> DEFINE T == {u \in Nat : \A x \in S : x <= u}
<1>1. T \in SUBSET Nat /\ b \in T
  OBVIOUS
<1>2. PICK m \in T : \A n \in T : m <= n
  BY <1>1, LeastNatural
<1>3. m \in S
  <2> SUFFICES ASSUME m \notin S PROVE FALSE
    OBVIOUS
  <2>1. \A x \in S : x \in Nat /\ x <= m /\ x # m
    OBVIOUS
  <2>2. m \in Nat /\ m # 0
    <3>1. PICK x : x \in S
      OBVIOUS
    <3> QED
      BY <2>1, <3>1
  <2>3. m - 1 \in T
    BY <2>1, <2>2
  <2> QED
    BY <1>2, <2>2, <2>3
<1>4. \E x \in S : \A y \in S : x >= y
  BY <1>3
<1>5. Max(S) \in S /\ \A y \in S : Max(S) >= y
  BY <1>4 DEF Max
<1> QED
  BY <1>5

LEMMA MinOfTwo ==
  ASSUME NEW a \in Nat, NEW b \in Nat
  PROVE  Min({a, b}) = IF a <= b THEN a ELSE b
<1>1. \E x \in {a, b} : \A y \in {a, b} : x =< y
  OBVIOUS
<1>2. Min({a, b}) \in {a, b} /\ \A y \in {a, b} : Min({a, b}) =< y
  BY <1>1 DEF Min
<1> QED
  BY <1>2

LEMMA TimesMonotonic ==
  ASSUME NEW a \in Nat, NEW b \in Nat, NEW c \in Nat, a <= b
  PROVE  a * c \in Nat /\ b * c \in Nat /\ a * c <= b * c
<1>1. (b - a) * c >= 0
  OBVIOUS
<1> QED
  BY <1>1

LEMMA TimesNext ==
  ASSUME NEW a \in Nat, NEW c \in Nat
  PROVE  a * c \in Nat /\ (a + 1) * c \in Nat /\ (a + 1) * c = a * c + c
OBVIOUS

\* The run of n numbers that follow a.
Run(n, a) == [o \in 1 .. n |-> a + o]

LEMMA RunsJoined ==
  ASSUME NEW k \in Nat, NEW c \in Nat, NEW e \in Nat
  PROVE  Run(k, e) \o Run(c, e + k) = Run(k + c, e)
<1>1. Run(k, e) \in Seq(Nat) /\ Len(Run(k, e)) = k
  BY DEF Run
<1>2. Run(c, e + k) \in Seq(Nat) /\ Len(Run(c, e + k)) = c
  BY DEF Run
<1> QED
  BY <1>1, <1>2 DEF Run

\* Segments of c numbers, the first of which lacks its first p, that follow
\* each other: FlattenSeq makes one run of them.
Segments(s, m, c, p, d) ==
  /\ DOMAIN s = 1 .. m /\ s = [i \in 1 .. m |-> s[i]]
  /\ s[1] = Run(c - p, d * c + p)
  /\ \A i \in 2 .. m : s[i] = Run(c, (d + i - 1) * c)

Whole(m, c, p, d) == Run(m * c - p, d * c + p)

LEMMA FlattenRun ==
  ASSUME NEW m \in Nat \ {0}, NEW c \in Nat \ {0}, NEW p \in 0 .. c - 1, NEW d \in Nat,
         NEW s, Segments(s, m, c, p, d)
  PROVE  FlattenSeq(s) = Whole(m, c, p, d)
<1>0. /\ DOMAIN s = 1 .. m /\ s = [i \in 1 .. m |-> s[i]]
      /\ s[1] = Run(c - p, d * c + p)
      /\ \A i \in 2 .. m : s[i] = Run(c, (d + i - 1) * c)
  BY DEF Segments
<1> DEFINE F(i) == Run(i * c - p, d * c + p)
           Step(f, i) == IF i = 1 THEN s[i] ELSE f[i - 1] \o s[i]
           Solves(f) == f = [i \in 1 .. m |-> IF i = 1 THEN s[i] ELSE f[i - 1] \o s[i]]
           G == [i \in 1 .. m |-> F(i)]
<1>1. Len(s) = m
  BY <1>0
<1>2. FlattenSeq(s) = (CHOOSE f : Solves(f))[m]
  BY <1>1 DEF FlattenSeq
<1>3. s[1] = F(1)
  <2>1. 1 * c - p = c - p
    OBVIOUS
  <2> QED
    BY <1>0, <2>1
<1>4. ASSUME NEW i \in 2 .. m PROVE F(i - 1) \o s[i] = F(i)
  <2> DEFINE k == (i - 1) * c - p
             e == d * c + p
  <2>1. k \in Nat /\ i * c - p = k + c /\ e \in Nat
    <3>1. i - 1 \in Nat /\ 1 <= i - 1
      OBVIOUS
    <3>2. 1 * c <= (i - 1) * c /\ (i - 1) * c \in Nat
      BY <3>1, TimesMonotonic
    <3>3. i * c = (i - 1) * c + c
      OBVIOUS
    <3>4. e \in Nat
      <4> DEFINE y == d * c
      <4>1. y \in Nat /\ e = y + p /\ p \in Nat
        OBVIOUS
      <4> HIDE DEF y, e
      <4> QED
        BY <4>1
    <3> DEFINE x == (i - 1) * c
    <3>5. x \in Nat /\ c <= x /\ i * c = x + c /\ k = x - p
      BY <3>2, <3>3
    <3> HIDE DEF x, k
    <3>6. k \in Nat /\ i * c - p = k + c
      BY <3>5
    <3> QED
      BY <3>4, <3>6
  <2>2. (d + i - 1) * c = e + k
    OBVIOUS
  <2>3. s[i] = Run(c, e + k)
    BY <1>0, <2>2
  <2>4. F(i - 1) = Run(k, e) /\ F(i) = Run(k + c, e)
    BY <2>1
  <2> HIDE DEF k, e, F
  <2>5. Run(k, e) \o Run(c, e + k) = Run(k + c, e)
    BY <2>1, RunsJoined
  <2> QED
    BY <2>3, <2>4, <2>5
<1> HIDE DEF F
<1>5. Solves(G)
  <2>1. \A i \in 1 .. m : G[i] = IF i = 1 THEN s[i] ELSE G[i - 1] \o s[i]
    <3> SUFFICES ASSUME NEW i \in 1 .. m
                 PROVE  G[i] = IF i = 1 THEN s[i] ELSE G[i - 1] \o s[i]
      OBVIOUS
    <3>1. CASE i = 1
      BY <1>3, <3>1
    <3>2. CASE i # 1
      <4>1. i \in 2 .. m /\ i - 1 \in 1 .. m
        BY <3>2
      <4>2. G[i - 1] = F(i - 1) /\ G[i] = F(i)
        BY <4>1
      <4> QED
        BY <1>4, <3>2, <4>1, <4>2
    <3> QED
      BY <3>1, <3>2
  <2> QED
    BY <2>1
<1>6. ASSUME NEW g, Solves(g) PROVE g[m] = F(m)
  <2> DEFINE T == {i \in 1 .. m : g[i] # F(i)}
  <2>0. \A i \in 1 .. m : g[i] = IF i = 1 THEN s[i] ELSE g[i - 1] \o s[i]
    BY <1>6
  <2> SUFFICES ASSUME T # {} PROVE FALSE
    OBVIOUS
  <2>a. T \in SUBSET Nat
    OBVIOUS
  <2>b. \E i \in T : \A n \in T : i <= n
    <3> HIDE DEF T
    <3> QED
      BY <2>a, LeastNatural
  <2>1. PICK i \in T : \A n \in T : i <= n
    BY <2>b
  <2>2. i # 1
    BY <1>3, <2>0
  <2>3. i \in 2 .. m /\ i - 1 \in 1 .. m /\ i - 1 \notin T
    BY <2>1, <2>2
  <2>4. g[i - 1] = F(i - 1)
    BY <2>3
  <2>5. g[i] = g[i - 1] \o s[i]
    BY <2>0, <2>2
  <2>6. g[i] = F(i)
    BY <1>4, <2>3, <2>4, <2>5
  <2> QED
    BY <2>6
<1>7. Solves(CHOOSE f : Solves(f))
  <2> HIDE DEF Solves, G
  <2> QED
    BY <1>5
<1>8. FlattenSeq(s) = F(m)
  <2> DEFINE g == CHOOSE f : Solves(f)
  <2>1. Solves(g)
    BY <1>7
  <2> HIDE DEF g, Solves
  <2>2. g[m] = F(m)
    BY <1>6, <2>1
  <2> QED
    BY <1>2, <2>2 DEF g
<1> QED
  BY <1>8 DEF F, Whole

LEMMA Sizes ==
  /\ ResponseSize \in Nat \ {0} /\ MSG_MAXIOVLEN \in Nat \ {0}
  /\ READ_BLOCK_SIZE_ \in Nat \ {0} /\ SendSpace \in Nat \ {0}
  /\ SHRINK_READ_SIZE_ \in Nat /\ MaxInput \in Nat
BY ConnectionAssumption

LEMMA SeqOfMore ==
  ASSUME NEW S, NEW T, S \subseteq T, NEW s \in Seq(S)
  PROVE  s \in Seq(T)
<1>1. Len(s) \in Nat /\ \A i \in 1 .. Len(s) : s[i] \in S
  OBVIOUS
<1>2. s = [i \in 1 .. Len(s) |-> s[i]]
  OBVIOUS
<1>3. \A i \in 1 .. Len(s) : s[i] \in T
  BY <1>1
<1>4. [i \in 1 .. Len(s) |-> s[i]] \in Seq(T)
  BY <1>1, <1>3
<1> QED
  BY <1>2, <1>4

LEMMA Joined ==
  ASSUME NEW S, NEW a \in Seq(S), NEW b \in Seq(S)
  PROVE  /\ a \o b \in Seq(S) /\ Len(a \o b) = Len(a) + Len(b)
         /\ \A i \in 1 .. Len(a) : (a \o b)[i] = a[i]
         /\ \A i \in Len(a) + 1 .. Len(a) + Len(b) : (a \o b)[i] = b[i - Len(a)]
OBVIOUS

Chars == {"byte", "newline"}

\* A block adds as many lines to answer as it has newlines.
LEMMA NewLines ==
  ASSUME NEW r \in Seq(Chars), NEW q \in Seq(Chars), NEW p \in 0 .. Len(r),
         Newlines(r, p) = {}
  PROVE  /\ Cardinality(Newlines(q, 0)) \in Nat
         /\ Cardinality(Newlines(r \o q, p)) = Cardinality(Newlines(q, 0))
<1> DEFINE S == Newlines(q, 0)
           T == Newlines(r \o q, p)
           k == Len(r)
           f == [j \in S |-> k + j]
<1>1. k \in Nat /\ Len(q) \in Nat /\ r \o q \in Seq(Chars) /\ Len(r \o q) = k + Len(q)
  OBVIOUS
<1>2. \A i \in 1 .. k : (r \o q)[i] = r[i]
  OBVIOUS
<1>3. \A j \in 1 .. Len(q) : (r \o q)[k + j] = q[j]
  OBVIOUS
<1>4. \A j : j \in S <=> j \in 1 .. Len(q) /\ q[j] = "newline"
  BY DEF Newlines
<1>5. \A i : i \in T <=> i \in p + 1 .. k + Len(q) /\ (r \o q)[i] = "newline"
  BY <1>1 DEF Newlines
<1>6. \A i \in p + 1 .. k : r[i] # "newline"
  BY DEF Newlines
<1> HIDE DEF S, T, k
<1>7. \A j \in S : k + j \in T
  BY <1>1, <1>3, <1>4, <1>5
<1>8. \A i \in T : i > k /\ i - k \in S
  <2> SUFFICES ASSUME NEW i \in T PROVE i > k /\ i - k \in S
    OBVIOUS
  <2>1. i \in p + 1 .. k + Len(q) /\ (r \o q)[i] = "newline" /\ i \in Nat
    BY <1>1, <1>5
  <2>2. i > k
    BY <1>1, <1>2, <1>6, <2>1
  <2>3. i - k \in 1 .. Len(q) /\ i = k + (i - k)
    BY <1>1, <2>1, <2>2
  <2>4. q[i - k] = "newline"
    BY <1>3, <2>1, <2>3
  <2> QED
    BY <1>4, <2>2, <2>3, <2>4
<1>9. S \in SUBSET Nat /\ T \in SUBSET Nat
  BY <1>1, <1>4, <1>5
<1>10. f \in [S -> T] /\ \A a, b \in S : f[a] = f[b] => a = b
  BY <1>1, <1>7, <1>9
<1>11. \A t \in T : \E j \in S : f[j] = t
  <2> SUFFICES ASSUME NEW t \in T PROVE f[t - k] = t /\ t - k \in S
    OBVIOUS
  <2>1. t - k \in S /\ t \in Nat
    BY <1>8, <1>9
  <2> QED
    BY <1>1, <2>1
<1>12. IsFiniteSet(S)
  <2>1. IsFiniteSet(1 .. Len(q)) /\ S \in SUBSET (1 .. Len(q))
    BY <1>1, <1>4, FS_Interval
  <2> QED
    BY <2>1, FS_Subset
<1> HIDE DEF f
<1>13. f \in Bijection(S, T)
  BY <1>10, <1>11 DEF Bijection, Injection, Surjection, IsInjective
<1>14. ExistsBijection(S, T)
  BY <1>13 DEF ExistsBijection
<1>15. Cardinality(S) \in Nat /\ Cardinality(T) = Cardinality(S)
  BY <1>12, <1>14, FS_Bijection, FS_CardinalityType
<1> QED
  BY <1>15 DEF S, T

\* The buffers that a send of size bytes completes are the first of the queue,
\* as many as fit into size.
LEMMA SentRun ==
  ASSUME TypeOK, NEW size \in Nat
  PROVE  LET k == SentBufs(size) IN
         /\ k \in 0 .. Len(write_bufs_)
         /\ k > 0 => k * ResponseSize - first_write_buf_pos_ <= size
         /\ k < Len(write_bufs_) =>
              (k + 1) * ResponseSize - first_write_buf_pos_ > size
<1> DEFINE L == Len(write_bufs_)
           R == ResponseSize
           p == first_write_buf_pos_
           X == {n \in 1 .. L : CurSize(n) <= size}
           T == {n \in Nat : n + 1 > L \/ (n + 1) * R - p > size}
<1>1. L \in Nat /\ R \in Nat \ {0} /\ p \in 0 .. R - 1 /\ p \in Nat
  BY Sizes DEF TypeOK
<1>2. \A n \in 1 .. L : CurSize(n) = n * R - p
  BY <1>1 DEF CurSize
<1>3. T \in SUBSET Nat /\ L \in T
  BY <1>1
<1>4. \E k \in T : \A n \in T : k <= n
  <2> HIDE DEF T, L
  <2> QED
    BY <1>3, LeastNatural
<1>5. PICK k \in T : \A n \in T : k <= n
  BY <1>4
<1>6. k \in 0 .. L
  BY <1>1, <1>3, <1>5
<1>7. \A n \in 1 .. k : n * R - p <= size /\ n <= L
  <2> SUFFICES ASSUME NEW n \in 1 .. k PROVE n * R - p <= size /\ n <= L
    OBVIOUS
  <2>1. n - 1 \in Nat /\ n - 1 \notin T
    BY <1>5
  <2>2. ~(n * R - p > size) /\ n <= L
    <3>1. (n - 1) + 1 = n
      OBVIOUS
    <3> QED
      BY <2>1, <3>1
  <2>3. n * R - p \in Int
    <3>1. n * R \in Nat
      BY <1>1
    <3> QED
      BY <1>1, <3>1
  <2> QED
    BY <2>2, <2>3
<1>8. k < L => (k + 1) * R - p > size
  BY <1>1, <1>5
<1>9. \A n \in k + 1 .. L : ~(n * R - p <= size)
  <2> SUFFICES ASSUME NEW n \in k + 1 .. L PROVE ~(n * R - p <= size)
    OBVIOUS
  <2>1. n \in Nat /\ k + 1 \in Nat /\ k + 1 <= n /\ k < L
    BY <1>1, <1>6
  <2>2. (k + 1) * R \in Nat /\ n * R \in Nat /\ (k + 1) * R <= n * R
    BY <1>1, <2>1, TimesMonotonic
  <2>3. (k + 1) * R - p > size
    BY <1>8, <2>1
  <2> DEFINE a == (k + 1) * R
             b == n * R
  <2>4. a \in Nat /\ b \in Nat /\ a <= b /\ a - p > size
    BY <2>2, <2>3
  <2> HIDE DEF a, b
  <2>5. ~(b - p <= size)
    BY <1>1, <2>4
  <2> QED
    BY <2>5 DEF b
<1>10. X = 1 .. k
  <2>1. \A n \in 1 .. k : n \in X
    BY <1>1, <1>2, <1>6, <1>7
  <2>2. \A n \in X : n \in 1 .. k
    BY <1>1, <1>2, <1>6, <1>9
  <2> HIDE DEF X
  <2>3. \A n : n \in X <=> n \in 1 .. k
    BY <2>1, <2>2
  <2> QED
    BY <2>3
<1>11. Cardinality(1 .. k) = k
  <2>1. 1 \in Int /\ k \in Int /\ (IF 1 > k THEN 0 ELSE k - 1 + 1) = k
    BY <1>6, <1>1
  <2> QED
    BY <2>1, FS_Interval
<1>12. SentBufs(size) = k
  BY <1>10, <1>11 DEF SentBufs
<1>13. k > 0 => k * R - p <= size
  BY <1>1, <1>6, <1>7
<1> QED
  BY <1>6, <1>8, <1>12, <1>13

-----------------------------------------------------------------------------
FlagSet == [handle_read : BOOLEAN, handle_write : BOOLEAN,
            read_closed : BOOLEAN, write_closed : BOOLEAN]

LEMMA InitInd == Init => IndInv
<1> SUFFICES ASSUME Init PROVE IndInv
  OBVIOUS
<1> USE DEF Init
<1>1. TypeOK
  <2>1. /\ input \in Seq({"byte", "newline"}) /\ read_buf_ \in Seq({"byte", "newline"})
        /\ write_bufs_ \in Seq(1 .. answered)
        /\ write_iovec_buf_ \in Seq([buf : 1 .. answered, base : 0 .. ResponseSize - 1])
    OBVIOUS
  <2>2. read_processed_buf_pos_ \in 0 .. Len(read_buf_)
    OBVIOUS
  <2>3. /\ sent_input \in 0 .. MaxInput /\ space \in 0 .. SendSpace
        /\ first_write_buf_pos_ \in 0 .. ResponseSize - 1
    BY Sizes
  <2>4. flags \in FlagSet
    BY DEF FlagSet
  <2> QED
    BY <2>1, <2>2, <2>3, <2>4 DEF TypeOK, FlagSet
<1>2. QueueInv
  BY Sizes DEF QueueInv, MessageConsistent, QueueNumbers, DeliveredSoFar
<1>3. ReadInv
  BY DEF ReadInv, LineAnswered, Newlines
<1>4. FlowInv
  BY DEF FlowInv
<1> QED
  BY <1>1, <1>2, <1>3, <1>4 DEF IndInv

LEMMA ApplyType ==
  ASSUME NEW f \in FlagSet, NEW res
  PROVE  ApplyStateModify(f, res) \in FlagSet
BY DEF ApplyStateModify, FlagSet

\* What a step that leaves the buffers, the queue and the histories alone has
\* still to keep.
LEMMA BuffersStay ==
  ASSUME IndInv, UNCHANGED <<readVars, writeVars, historyVars>>
  PROVE  QueueInv' /\ ReadInv'
BY DEF IndInv, QueueInv, MessageConsistent, QueueNumbers, DeliveredSoFar, ReadInv,
       LineAnswered, Newlines, readVars, writeVars, historyVars

LEMMA PeerStep == ASSUME IndInv, Peer PROVE IndInv'
<1> USE DEF IndInv, TypeOK
<1>1. UNCHANGED <<readVars, writeVars, historyVars>> /\ UNCHANGED <<flags, pc>>
  BY DEF Peer, PeerSend, PeerClose, PeerReset, PeerReceive
<1>2. QueueInv' /\ ReadInv'
  BY <1>1, BuffersStay
<1>3. FlowInv'
  <2>1. sock_error # "none" => sock_error' # "none"
    BY DEF Peer, PeerSend, PeerClose, PeerReset, PeerReceive
  <2> QED
    BY <1>1, <2>1 DEF FlowInv, BothClosed, writeVars
<1>4. /\ input' \in Seq({"byte", "newline"}) /\ sent_input' \in 0 .. MaxInput
      /\ peer' \in {"open", "closed", "reset"}
      /\ sock_error' \in {"none", "pending", "taken"}
      /\ space' \in 0 .. SendSpace
  <2>1. CASE PeerSend
    BY <2>1, Sizes DEF PeerSend
  <2>2. CASE PeerClose
    BY <2>2 DEF PeerClose
  <2>3. CASE PeerReset
    BY <2>3 DEF PeerReset
  <2>4. CASE \E room \in 1 .. SendSpace : PeerReceive(room)
    BY <2>4, Sizes DEF PeerReceive
  <2> QED
    BY <2>1, <2>2, <2>3, <2>4 DEF Peer
<1>5. TypeOK'
  BY <1>1, <1>4 DEF readVars, writeVars, historyVars
<1> QED
  BY <1>2, <1>3, <1>5

\* The steps that decide on the flags.
FlagStep == \/ Deliver \/ ReadAgain \/ ReadEof \/ ReadError \/ WriteSkipped
            \/ WriteDone \/ WriteAgain \/ WriteError \/ WriteKilled

LEMMA FlagsStep == ASSUME IndInv, FlagStep PROVE IndInv'
<1> USE DEF IndInv, TypeOK
<1>1. /\ UNCHANGED <<readVars, writeVars, historyVars>>
      /\ UNCHANGED <<input, sent_input, peer, space>>
  BY DEF FlagStep, Deliver, ReadAgain, ReadEof, ReadError, WriteSkipped, WriteDone,
         WriteAgain, WriteError, WriteKilled, socketVars
<1>2. QueueInv' /\ ReadInv'
  BY <1>1, BuffersStay
<1>3. /\ sock_error' \in {"none", "pending", "taken"}
      /\ sock_error # "none" => sock_error' # "none"
  BY DEF FlagStep, Deliver, ReadAgain, ReadEof, ReadError, WriteSkipped, WriteDone,
         WriteAgain, WriteError, WriteKilled, socketVars
<1>4. flags \in FlagSet
  BY DEF FlagSet
<1>5. \A res : ApplyStateModify(flags, res) \in FlagSet
  BY <1>4, ApplyType
<1>6. flags' = flags \/ \E res : flags' = ApplyStateModify(flags, res)
  BY DEF FlagStep, Deliver, ReadAgain, ReadEof, ReadError, WriteSkipped, WriteDone,
         WriteAgain, WriteError, WriteKilled, ReadReturns, WriteReturns
<1>7. flags' \in FlagSet
  BY <1>4, <1>5, <1>6
<1>8. pc' \in {"armed", "read", "write", "removed", "killed"}
  BY DEF FlagStep, Deliver, ReadAgain, ReadEof, ReadError, WriteSkipped, WriteDone,
         WriteAgain, WriteError, WriteKilled, ReadReturns, WriteReturns, PassEnds
<1>9. TypeOK'
  BY <1>1, <1>3, <1>7, <1>8 DEF FlagSet, readVars, writeVars, historyVars
<1>10. FlowInv'
  <2> USE <1>1 DEF FlowInv, BothClosed, writeVars
  <2>1. CASE Deliver
    BY <2>1 DEF Deliver, socketVars
  <2>2. CASE ReadAgain
    BY <2>2 DEF ReadAgain, ReadReturns, AgainResult, ApplyStateModify, socketVars
  <2>3. CASE ReadEof
    BY <2>3 DEF ReadEof, ReadReturns, EofResult, ApplyStateModify, socketVars
  <2>4. CASE ReadError
    BY <2>4 DEF ReadError, ReadReturns, error_, ApplyStateModify
  <2>5. CASE WriteSkipped
    BY <2>5 DEF WriteSkipped, PassEnds, socketVars
  <2>6. CASE WriteDone
    BY <2>6 DEF WriteDone, InWrite, WriteReturns, PassEnds, ApplyStateModify, socketVars
  <2>7. CASE WriteAgain
    BY <2>7 DEF WriteAgain, InWrite, WriteReturns, PassEnds, ApplyStateModify, socketVars
  <2>8. CASE WriteError
    BY <2>8 DEF WriteError, InWrite, WriteReturns, PassEnds, error_, ApplyStateModify
  <2>9. CASE WriteKilled
    BY <2>9 DEF WriteKilled, socketVars
  <2> QED
    BY <2>1, <2>2, <2>3, <2>4, <2>5, <2>6, <2>7, <2>8, <2>9 DEF FlagStep
<1> QED
  BY <1>2, <1>9, <1>10

-----------------------------------------------------------------------------
\* A block is read and its lines are answered, at the end of the queue.
LEMMA ReadBlockStep == ASSUME IndInv, ReadBlock PROVE IndInv'
<1> USE DEF Chars
<1>0. TypeOK /\ QueueInv /\ ReadInv /\ FlowInv
  BY DEF IndInv
<1> DEFINE n    == Min({Len(input), READ_BLOCK_SIZE_})
           blk  == SubSeq(input, 1, n)
           buf  == read_buf_ \o blk
           p    == read_processed_buf_pos_
           ends == Newlines(buf, p)
           pos  == Max(ends \cup {p})
           k    == Cardinality(ends)
           L    == Len(write_bufs_)
           new  == [i \in 1 .. k |-> answered + i]
<1>1. n \in 0 .. Len(input) /\ Len(input) \in Nat
  <2>1. Len(input) \in Nat
    BY <1>0 DEF TypeOK
  <2>2. n = IF Len(input) <= READ_BLOCK_SIZE_ THEN Len(input) ELSE READ_BLOCK_SIZE_
    BY <2>1, Sizes, MinOfTwo
  <2> HIDE DEF n
  <2> QED
    BY <2>1, <2>2, Sizes
<1>2. blk \in Seq(Chars) /\ SubSeq(input, n + 1, Len(input)) \in Seq(Chars)
  <2> HIDE DEF n
  <2> QED
    BY <1>0, <1>1 DEF TypeOK
<1>3. /\ buf \in Seq(Chars) /\ p \in 0 .. Len(read_buf_) /\ read_buf_ \in Seq(Chars)
      /\ Len(buf) = Len(read_buf_) + Len(blk) /\ Len(blk) \in Nat /\ Len(read_buf_) \in Nat
      /\ p \in 0 .. Len(buf)
  <2>1. p \in 0 .. Len(read_buf_) /\ read_buf_ \in Seq(Chars)
    BY <1>0 DEF TypeOK
  <2> HIDE DEF blk
  <2>2. buf \in Seq(Chars) /\ Len(buf) = Len(read_buf_) + Len(blk)
    BY <1>2, <2>1
  <2>3. Len(blk) \in Nat /\ Len(read_buf_) \in Nat
    BY <1>2, <2>1
  <2> HIDE DEF buf
  <2> QED
    BY <2>1, <2>2, <2>3
<1>4. k \in Nat /\ Cardinality(Newlines(blk, 0)) = k
  <2>1. Newlines(read_buf_, p) = {}
    BY <1>0 DEF ReadInv
  <2> HIDE DEF blk, p
  <2> QED
    BY <1>2, <1>3, <2>1, NewLines
<1>5. answered' = answered + k /\ lines' = lines + k
  BY <1>4 DEF ReadBlock
<1>6. answered \in Nat /\ L \in Nat /\ L <= answered /\ lines = answered
  BY <1>0 DEF TypeOK, QueueInv, QueueNumbers, ReadInv, LineAnswered
<1>7. /\ write_bufs_' = write_bufs_ \o new
      /\ write_iovec_buf_' = write_iovec_buf_ \o [i \in 1 .. k |-> [buf |-> answered + i, base |-> 0]]
      /\ first_write_buf_pos_' = first_write_buf_pos_
  <2> DEFINE raw == [i \in 1 .. answered' - (answered + 1) + 1 |-> answered + 1 + i - 1]
  <2>1. raw = new
    <3>1. answered' - (answered + 1) + 1 = k
      BY <1>4, <1>5, <1>6
    <3>2. \A i \in 1 .. k : answered + 1 + i - 1 = answered + i
      BY <1>4, <1>6
    <3> HIDE DEF k
    <3> QED
      BY <3>1, <3>2
  <2>2. /\ write_bufs_' = write_bufs_ \o raw
        /\ write_iovec_buf_' = write_iovec_buf_ \o [i \in DOMAIN raw |-> [buf |-> raw[i], base |-> 0]]
        /\ UNCHANGED first_write_buf_pos_
    BY DEF ReadBlock, QueueResponses
  <2> HIDE DEF raw
  <2>3. /\ write_bufs_' = write_bufs_ \o new
        /\ write_iovec_buf_' = write_iovec_buf_ \o [i \in DOMAIN new |-> [buf |-> new[i], base |-> 0]]
    BY <2>1, <2>2
  <2>4. [i \in DOMAIN new |-> [buf |-> new[i], base |-> 0]] = [i \in 1 .. k |-> [buf |-> answered + i, base |-> 0]]
    OBVIOUS
  <2> QED
    BY <2>2, <2>3, <2>4
<1>8. /\ input' = SubSeq(input, n + 1, Len(input))
      /\ UNCHANGED <<sent_input, peer, sock_error, space, flags, pc, delivered,
                     in_order, cut_twice>>
      /\ pc = "read"
  BY DEF ReadBlock
<1>9. IF pos > SHRINK_READ_SIZE_
      THEN /\ read_buf_' = SubSeq(buf, pos + 1, Len(buf))
           /\ read_processed_buf_pos_' = 0
      ELSE read_buf_' = buf /\ read_processed_buf_pos_' = pos
  BY DEF ReadBlock, ShrunkPos
<1>10. \A i : i \in ends <=> i \in p + 1 .. Len(buf) /\ buf[i] = "newline"
  BY DEF Newlines
<1> HIDE DEF n, blk, buf, p, ends, pos, k, L, new
<1>11. pos \in p .. Len(buf) /\ \A i \in pos + 1 .. Len(buf) : buf[i] # "newline"
  <2> DEFINE S == ends \cup {p}
  <2>1. S \in SUBSET Nat /\ S # {} /\ Len(buf) \in Nat /\ \A x \in S : x <= Len(buf)
    BY <1>3, <1>10
  <2>2. pos = Max(S)
    BY DEF pos
  <2> HIDE DEF S
  <2>3. Max(S) \in S /\ \A x \in S : x <= Max(S)
    BY <2>1, MaxIsGreatest
  <2>4. pos \in S /\ pos \in Nat /\ p <= pos /\ pos <= Len(buf)
    BY <2>1, <2>2, <2>3 DEF S
  <2>5. \A i \in ends : i <= pos
    BY <2>2, <2>3 DEF S
  <2>6. ASSUME NEW i \in pos + 1 .. Len(buf) PROVE buf[i] # "newline"
    <3>1. i \in p + 1 .. Len(buf) /\ i > pos
      BY <1>3, <2>4
    <3> QED
      BY <1>10, <2>4, <2>5, <3>1
  <2> QED
    BY <1>3, <2>4, <2>6
<1>12. Newlines(read_buf_, read_processed_buf_pos_)' = {}
       /\ read_buf_' \in Seq(Chars) /\ read_processed_buf_pos_' \in 0 .. Len(read_buf_')
  <2>1. CASE pos > SHRINK_READ_SIZE_
    <3> DEFINE rest == SubSeq(buf, pos + 1, Len(buf))
    <3>1. read_buf_' = rest /\ read_processed_buf_pos_' = 0
      BY <1>9, <2>1
    <3>2. pos \in 0 .. Len(buf) /\ Len(buf) \in Nat /\ pos \in Nat
      BY <1>3, <1>11
    <3>3. rest \in Seq(Chars) /\ Len(rest) = Len(buf) - pos
      BY <1>3, <3>2
    <3>4. \A i \in 1 .. Len(buf) - pos : rest[i] = buf[pos + i] /\ pos + i \in pos + 1 .. Len(buf)
      BY <1>3, <3>2
    <3> HIDE DEF rest
    <3>5. \A i \in 0 + 1 .. Len(rest) : rest[i] # "newline"
      BY <1>11, <3>2, <3>3, <3>4
    <3> QED
      BY <3>1, <3>2, <3>3, <3>5 DEF Newlines
  <2>2. CASE ~(pos > SHRINK_READ_SIZE_)
    <3>1. read_buf_' = buf /\ read_processed_buf_pos_' = pos
      BY <1>9, <2>2
    <3> QED
      BY <1>3, <1>11, <3>1 DEF Newlines
  <2> QED
    BY <2>1, <2>2
<1>13. ReadInv'
  BY <1>5, <1>6, <1>12 DEF ReadInv, LineAnswered
<1>14. /\ Len(write_bufs_') = L + k
       /\ \A i \in 1 .. L : write_bufs_'[i] = write_bufs_[i]
       /\ \A i \in L + 1 .. L + k : write_bufs_'[i] = answered + (i - L)
       /\ write_bufs_' \in Seq(1 .. answered')
  <2>1. write_bufs_ \in Seq(1 .. answered') /\ Len(write_bufs_) = L
    <3>1. write_bufs_ \in Seq(1 .. answered)
      BY <1>0 DEF TypeOK
    <3>2. 1 .. answered \subseteq 1 .. answered'
      BY <1>4, <1>5, <1>6
    <3> QED
      BY <3>1, <3>2, SeqOfMore DEF L
  <2>2. new \in Seq(1 .. answered') /\ Len(new) = k /\ \A i \in 1 .. k : new[i] = answered + i
    BY <1>4, <1>5, <1>6 DEF new
  <2>3. /\ write_bufs_' \in Seq(1 .. answered') /\ Len(write_bufs_') = L + k
        /\ \A i \in 1 .. L : write_bufs_'[i] = write_bufs_[i]
        /\ \A i \in L + 1 .. L + k : write_bufs_'[i] = new[i - L]
    <3> DEFINE T == 1 .. answered'
    <3>1. write_bufs_ \in Seq(T) /\ new \in Seq(T)
      BY <2>1, <2>2
    <3> HIDE DEF T
    <3>2. /\ write_bufs_ \o new \in Seq(T)
          /\ Len(write_bufs_ \o new) = Len(write_bufs_) + Len(new)
          /\ \A i \in 1 .. Len(write_bufs_) : (write_bufs_ \o new)[i] = write_bufs_[i]
          /\ \A i \in Len(write_bufs_) + 1 .. Len(write_bufs_) + Len(new) :
               (write_bufs_ \o new)[i] = new[i - Len(write_bufs_)]
      BY <3>1, Joined
    <3>3. Len(write_bufs_) = L /\ Len(new) = k /\ write_bufs_' = write_bufs_ \o new
      BY <1>7, <2>1, <2>2
    <3> QED
      BY <3>2, <3>3 DEF T
  <2>4. \A i \in L + 1 .. L + k : new[i - L] = answered + (i - L)
    BY <1>4, <1>6, <2>2
  <2> QED
    BY <2>3, <2>4
<1>15. /\ Len(write_iovec_buf_') = L + k
       /\ \A i \in 1 .. L : write_iovec_buf_'[i] = write_iovec_buf_[i]
       /\ \A i \in L + 1 .. L + k : write_iovec_buf_'[i] = [buf |-> answered + (i - L), base |-> 0]
       /\ write_iovec_buf_' \in Seq([buf : 1 .. answered', base : 0 .. ResponseSize - 1])
  <2> DEFINE E == [buf : 1 .. answered', base : 0 .. ResponseSize - 1]
             v == [i \in 1 .. k |-> [buf |-> answered + i, base |-> 0]]
  <2>1. write_iovec_buf_ \in Seq(E) /\ Len(write_iovec_buf_) = L
    <3>1. write_iovec_buf_ \in Seq([buf : 1 .. answered, base : 0 .. ResponseSize - 1])
      BY <1>0 DEF TypeOK
    <3>2. [buf : 1 .. answered, base : 0 .. ResponseSize - 1] \subseteq E
      BY <1>4, <1>5, <1>6
    <3>3. Len(write_iovec_buf_) = L
      BY <1>0 DEF QueueInv, MessageConsistent, L
    <3> HIDE DEF E
    <3> QED
      BY <3>1, <3>2, <3>3, SeqOfMore
  <2>2. v \in Seq(E) /\ Len(v) = k /\ \A i \in 1 .. k : v[i] = [buf |-> answered + i, base |-> 0]
    <3>1. \A i \in 1 .. k : [buf |-> answered + i, base |-> 0] \in E
      BY <1>4, <1>5, <1>6, Sizes
    <3> HIDE DEF E
    <3> QED
      BY <1>4, <3>1
  <2>3. write_iovec_buf_' = write_iovec_buf_ \o v
    BY <1>7
  <2> HIDE DEF E, v
  <2>4. /\ write_iovec_buf_' \in Seq(E) /\ Len(write_iovec_buf_') = L + k
        /\ \A i \in 1 .. L : write_iovec_buf_'[i] = write_iovec_buf_[i]
        /\ \A i \in L + 1 .. L + k : write_iovec_buf_'[i] = v[i - L]
    <3>1. v \in Seq(E)
      BY <2>2
    <3>2. /\ write_iovec_buf_ \o v \in Seq(E)
          /\ Len(write_iovec_buf_ \o v) = Len(write_iovec_buf_) + Len(v)
          /\ \A i \in 1 .. Len(write_iovec_buf_) : (write_iovec_buf_ \o v)[i] = write_iovec_buf_[i]
          /\ \A i \in Len(write_iovec_buf_) + 1 .. Len(write_iovec_buf_) + Len(v) :
               (write_iovec_buf_ \o v)[i] = v[i - Len(write_iovec_buf_)]
      BY <2>1, <3>1, Joined
    <3>3. Len(write_iovec_buf_) = L /\ Len(v) = k
      BY <2>1, <2>2
    <3> QED
      BY <2>3, <3>2, <3>3
  <2>5. \A i \in L + 1 .. L + k : v[i - L] = [buf |-> answered + (i - L), base |-> 0]
    BY <1>4, <1>6, <2>2
  <2> QED
    BY <2>4, <2>5 DEF E
<1>16. MessageConsistent'
  <2>1. ASSUME NEW i \in 1 .. L + k
        PROVE  write_iovec_buf_'[i] = [buf  |-> write_bufs_'[i],
                                       base |-> IF i = 1 THEN first_write_buf_pos_' ELSE 0]
    <3>1. CASE i \in 1 .. L
      <4>0. i \in DOMAIN write_bufs_
        BY <1>0, <3>1 DEF L, TypeOK
      <4>1. write_iovec_buf_[i] = [buf  |-> write_bufs_[i],
                                   base |-> IF i = 1 THEN first_write_buf_pos_ ELSE 0]
        BY <1>0, <4>0 DEF QueueInv, MessageConsistent
      <4> QED
        BY <1>7, <1>14, <1>15, <3>1, <4>1
    <3>2. CASE i \notin 1 .. L
      <4>1. i \in L + 1 .. L + k
        BY <1>4, <1>6, <3>2
      <4>2. i = 1 => first_write_buf_pos_' = 0
        <5>1. i = 1 => L = 0
          BY <1>6, <4>1
        <5>2. L = 0 => first_write_buf_pos_ = 0
          BY <1>0 DEF QueueInv, MessageConsistent, L, TypeOK
        <5> QED
          BY <1>7, <5>1, <5>2
      <4> QED
        BY <1>14, <1>15, <4>1, <4>2
    <3> QED
      BY <3>1, <3>2
  <2>2. write_bufs_' = <<>> => first_write_buf_pos_' = 0
    <3>1. write_bufs_' = <<>> => L = 0
      BY <1>4, <1>6, <1>14
    <3>2. L = 0 => first_write_buf_pos_ = 0
      BY <1>0 DEF QueueInv, MessageConsistent, L, TypeOK
    <3> QED
      BY <1>7, <3>1, <3>2
  <2>3. DOMAIN write_bufs_' = 1 .. L + k
    BY <1>14
  <2> QED
    BY <1>14, <1>15, <2>1, <2>2, <2>3 DEF MessageConsistent
<1>17. QueueNumbers'
  <2>1. ASSUME NEW i \in 1 .. L + k
        PROVE  write_bufs_'[i] = (answered + k) - (L + k) + i
    <3>1. CASE i \in 1 .. L
      <4>1. write_bufs_[i] = answered - L + i
        BY <1>0, <3>1 DEF QueueInv, QueueNumbers, L
      <4> QED
        BY <1>4, <1>6, <1>14, <3>1, <4>1
    <3>2. CASE i \notin 1 .. L
      <4>1. i \in L + 1 .. L + k
        BY <1>4, <1>6, <3>2
      <4> QED
        BY <1>4, <1>6, <1>14, <4>1
    <3> QED
      BY <3>1, <3>2
  <2> QED
    BY <1>4, <1>5, <1>6, <1>14, <2>1 DEF QueueNumbers
<1>18. DeliveredSoFar'
  <2>1. answered' - Len(write_bufs_') = answered - L
    BY <1>4, <1>5, <1>6, <1>14
  <2> QED
    BY <1>0, <1>7, <1>8, <2>1 DEF QueueInv, DeliveredSoFar, L
<1>19. TypeOK'
  <2>1. input' \in Seq(Chars)
    BY <1>2, <1>8
  <2>2. lines' \in Nat /\ answered' \in Nat
    BY <1>4, <1>5, <1>6
  <2> QED
    BY <1>0, <1>7, <1>8, <1>12, <1>14, <1>15, <2>1, <2>2 DEF TypeOK
<1>20. FlowInv'
  BY <1>0, <1>8 DEF FlowInv, BothClosed
<1> QED
  BY <1>13, <1>16, <1>17, <1>18, <1>19, <1>20 DEF IndInv, QueueInv

-----------------------------------------------------------------------------
LEMMA Rest ==
  ASSUME NEW S, NEW s \in Seq(S), NEW k \in 0 .. Len(s)
  PROVE  /\ SubSeq(s, k + 1, Len(s)) \in Seq(S)
         /\ Len(SubSeq(s, k + 1, Len(s))) = Len(s) - k
         /\ \A i \in 1 .. Len(s) - k : SubSeq(s, k + 1, Len(s))[i] = s[k + i]
OBVIOUS

\* What sendmsg() is given is a run of bytes: those that the kernel lacks.
LEMMA BytesOfQueue ==
  ASSUME TypeOK, QueueInv, write_bufs_ # <<>>
  PROVE  /\ msg_iovlen \in 1 .. Len(write_bufs_)
         /\ MessageBytes =
              [o \in 1 .. msg_iovlen * ResponseSize - first_write_buf_pos_ |->
                 (answered - Len(write_bufs_)) * ResponseSize + first_write_buf_pos_ + o]
<1> DEFINE L == Len(write_bufs_)
           m == msg_iovlen
           c == ResponseSize
           p == first_write_buf_pos_
           d == answered - L
           s == [i \in 1 .. m |-> IovBytes(write_iovec_buf_[i])]
<1>1. L \in Nat \ {0} /\ Len(write_iovec_buf_) = L /\ c \in Nat \ {0} /\ p \in 0 .. c - 1 /\ p \in Nat
  BY Sizes DEF TypeOK, QueueInv, MessageConsistent
<1>2. d \in Nat
  BY <1>1 DEF TypeOK, QueueInv, QueueNumbers
<1>3. m \in 1 .. L /\ m \in Nat \ {0}
  <2>1. m = IF L <= MSG_MAXIOVLEN THEN L ELSE MSG_MAXIOVLEN
    BY <1>1, Sizes, MinOfTwo DEF msg_iovlen
  <2> HIDE DEF m, L
  <2> QED
    BY <1>1, <2>1, Sizes
<1>4. ASSUME NEW i \in 1 .. m
      PROVE  IovBytes(write_iovec_buf_[i]) =
               IF i = 1 THEN Run(c - p, d * c + p) ELSE Run(c, (d + i - 1) * c)
  <2> USE DEF Run
  <2>0. DOMAIN write_bufs_ = 1 .. L
    BY DEF TypeOK
  <2>1. i \in 1 .. L /\ i \in DOMAIN write_bufs_
    <3> HIDE DEF m, L
    <3> QED
      BY <1>1, <1>3, <2>0
  <2>2. write_bufs_[i] = d + i
    BY <2>1 DEF QueueInv, QueueNumbers
  <2>3. write_iovec_buf_[i] = [buf |-> d + i, base |-> IF i = 1 THEN p ELSE 0]
    BY <2>1, <2>2 DEF QueueInv, MessageConsistent
  <2> HIDE DEF d, L, m, p, c
  <2>4. CASE i = 1
    <3>1. IovBytes(write_iovec_buf_[i]) = [o \in 1 .. c - p |-> ((d + i) - 1) * c + p + o]
      BY <2>3, <2>4 DEF IovBytes, c
    <3>2. (d + i) - 1 = d
      BY <1>2, <2>4
    <3> QED
      BY <2>4, <3>1, <3>2
  <2>5. CASE i # 1
    <3>1. IovBytes(write_iovec_buf_[i]) = [o \in 1 .. c - 0 |-> ((d + i) - 1) * c + 0 + o]
      BY <2>3, <2>5 DEF IovBytes, c
    <3>2. c - 0 = c /\ \A o \in 1 .. c : ((d + i) - 1) * c + 0 + o = (d + i - 1) * c + o
      BY <1>1, <1>2, <1>3
    <3> QED
      BY <2>5, <3>1, <3>2
  <2> QED
    BY <2>4, <2>5
<1>5. /\ s[1] = Run(c - p, d * c + p)
      /\ \A i \in 2 .. m : s[i] = Run(c, (d + i - 1) * c)
      /\ DOMAIN s = 1 .. m /\ s = [i \in 1 .. m |-> s[i]]
  <2>0. DOMAIN s = 1 .. m /\ s = [i \in 1 .. m |-> s[i]]
    OBVIOUS
  <2>1. \A i \in 1 .. m : s[i] = IovBytes(write_iovec_buf_[i])
    OBVIOUS
  <2>2. \A i \in 1 .. m : s[i] = IF i = 1 THEN Run(c - p, d * c + p) ELSE Run(c, (d + i - 1) * c)
    BY <1>4, <2>1
  <2> HIDE DEF s
  <2>3. s[1] = Run(c - p, d * c + p)
    BY <1>3, <2>2
  <2>4. \A i \in 2 .. m : s[i] = Run(c, (d + i - 1) * c)
    BY <1>3, <2>2
  <2> QED
    BY <2>0, <2>3, <2>4
<1>6. FlattenSeq(s) = Whole(m, c, p, d)
  <2>1. Segments(s, m, c, p, d)
    BY <1>5 DEF Segments
  <2> HIDE DEF s, d, L, m, p, c
  <2> QED
    BY <1>1, <1>2, <1>3, <2>1, FlattenRun
<1>7. MessageBytes = FlattenSeq(s)
  BY DEF MessageBytes
<1> QED
  BY <1>3, <1>6, <1>7 DEF Run, Whole

\* Where reconfigure_write_bufs_ leaves off: in the first buffer that size does
\* not complete, or at the end of the queue.
LEMMA NextPositionRight ==
  ASSUME TypeOK, write_bufs_ # <<>>,
         NEW size \in Nat \ {0},
         size <= Len(write_bufs_) * ResponseSize - first_write_buf_pos_
  PROVE  LET k == SentBufs(size)
             q == NextPosition(size, k)
         IN  /\ k \in 0 .. Len(write_bufs_)
             /\ q \in 0 .. ResponseSize - 1
             /\ k = Len(write_bufs_) => q = 0
             /\ k = 0 => q > 0 /\ q = size /\ size < CurSize(1)
             /\ k > 0 => size = k * ResponseSize - first_write_buf_pos_ + q
<1> DEFINE L == Len(write_bufs_)
           c == ResponseSize
           p == first_write_buf_pos_
           k == SentBufs(size)
           q == NextPosition(size, k)
<1>1. L \in Nat \ {0} /\ c \in Nat \ {0} /\ p \in 0 .. c - 1 /\ p \in Nat
  BY Sizes DEF TypeOK
<1>2. /\ k \in 0 .. L
      /\ k > 0 => k * c - p <= size
      /\ k < L => (k + 1) * c - p > size
  BY SentRun
<1>3. q = IF k < L /\ CurSize(k) < size THEN size - CurSize(k) ELSE 0
  BY DEF NextPosition
<1>4. CurSize(k) = IF k = 0 THEN 0 ELSE k * c - p
  BY DEF CurSize
<1>5. CurSize(1) = c - p
  BY <1>1 DEF CurSize
<1> DEFINE x == k * c
           y == L * c
<1>6. x \in Nat /\ y \in Nat /\ (k + 1) * c = x + c /\ (k = L => x = y) /\ (k = 0 => x = 0)
  <2> HIDE DEF k, L, c
  <2>1. k \in Nat /\ c \in Nat /\ L \in Nat
    BY <1>1, <1>2
  <2>2. x \in Nat /\ (k + 1) * c = x + c
    BY <2>1, TimesNext
  <2>3. y \in Nat
    BY <2>1
  <2>4. k = L => x = y
    OBVIOUS
  <2>5. k = 0 => x = 0
    BY <2>1
  <2> QED
    BY <2>2, <2>3, <2>4, <2>5
<1>7. size <= y - p
  OBVIOUS
<1>8. /\ k > 0 => x - p <= size
      /\ k < L => x + c - p > size
      /\ CurSize(k) = IF k = 0 THEN 0 ELSE x - p
  <2>1. k < L => x + c - p > size
    <3> DEFINE z == (k + 1) * c
    <3>1. z = x + c /\ z \in Nat /\ x \in Nat
      BY <1>1, <1>2, TimesNext
    <3>2. k < L => z - p > size
      BY <1>2
    <3> HIDE DEF x, z, k, p, c, L
    <3> QED
      BY <1>1, <3>1, <3>2
  <2>2. k > 0 => x - p <= size
    BY <1>2
  <2> QED
    BY <2>1, <2>2, <1>4
<1> HIDE DEF k, q, L, c, p, x, y
<1>9. CASE k = 0
  BY <1>1, <1>3, <1>5, <1>6, <1>8, <1>9 DEF k, q, L, c
<1>10. CASE k > 0 /\ k = L
  <2>1. x - p = size /\ q = 0
    BY <1>1, <1>3, <1>6, <1>7, <1>8, <1>10
  <2> QED
    BY <1>1, <1>2, <1>10, <2>1 DEF k, q, L, c, p, x
<1>11. CASE k > 0 /\ k < L
  <2>1. q = size - (x - p) /\ q \in 0 .. c - 1
    BY <1>1, <1>2, <1>3, <1>6, <1>8, <1>11
  <2>2. size = x - p + q
    BY <1>1, <1>6, <2>1
  <2> QED
    BY <1>1, <1>2, <1>11, <2>1, <2>2 DEF k, q, L, c, p, x
<1> QED
  BY <1>1, <1>2, <1>9, <1>10, <1>11

\* A send: the kernel takes the next bytes, and reconfigure_write_bufs_ leaves
\* the queue as it has to be.
LEMMA SendStep == ASSUME IndInv, Send PROVE IndInv'
<1> DEFINE L == Len(write_bufs_)
           c == ResponseSize
           p == first_write_buf_pos_
           d == answered - L
           bytes == MessageBytes
           size == Min({space, Len(bytes)})
           k == SentBufs(size)
           q == NextPosition(size, k)
           B == msg_iovlen * c - p
           D == d * c
<1>0. TypeOK /\ QueueInv /\ ReadInv /\ FlowInv
  BY DEF IndInv
<1>1. /\ write_bufs_ # <<>> /\ space > 0 /\ InWrite
      /\ UNCHANGED <<input, sent_input, peer, sock_error, readVars, flags, pc,
                     lines, answered>>
  BY DEF Send
<1>2. /\ space' = space - size
      /\ write_bufs_' = SubSeq(write_bufs_, k + 1, L)
      /\ first_write_buf_pos_' = q
      /\ write_iovec_buf_' =
           Rebased(SubSeq(write_iovec_buf_, k + 1, Len(write_iovec_buf_)), q)
      /\ in_order' = (in_order /\ \A i \in 1 .. size : bytes[i] = delivered + i)
      /\ delivered' = IF in_order' THEN delivered + size ELSE delivered
      /\ cut_twice' = (cut_twice \/ (p > 0 /\ size < CurSize(1)))
  BY DEF Send, Reconfigure
<1>3. /\ L \in Nat \ {0} /\ c \in Nat \ {0} /\ p \in 0 .. c - 1 /\ p \in Nat
      /\ answered \in Nat /\ space \in Nat /\ space <= SendSpace /\ SendSpace \in Nat
      /\ delivered \in Nat
  BY <1>0, <1>1, Sizes DEF TypeOK
<1>4. d \in Nat /\ answered = d + L
  BY <1>0, <1>3 DEF QueueInv, QueueNumbers
<1>5. D \in Nat
  BY <1>3, <1>4
<1>6. /\ msg_iovlen \in 1 .. L
      /\ bytes = [o \in 1 .. B |-> D + p + o]
  BY <1>0, <1>1, BytesOfQueue
<1>7. B \in Nat \ {0} /\ B <= L * c - p /\ L * c \in Nat
  <2> DEFINE x == msg_iovlen * c
             y == L * c
  <2>1. x \in Nat /\ y \in Nat /\ x <= y
    BY <1>3, <1>6, TimesMonotonic
  <2>2. 1 * c <= x
    BY <1>3, <1>6, TimesMonotonic
  <2>3. c <= x /\ B = x - p
    BY <1>3, <2>2
  <2> HIDE DEF x, y, B
  <2>4. B \in Nat \ {0} /\ B <= y - p
    BY <1>3, <2>1, <2>3
  <2> QED
    BY <2>1, <2>4 DEF y
<1>8. Len(bytes) = B
  <2> HIDE DEF B, D, bytes, p
  <2> QED
    BY <1>6, <1>7
<1>9. size = (IF space <= B THEN space ELSE B) /\ size \in Nat \ {0} /\ size <= space /\ size <= B
  <2>1. size = Min({space, B})
    BY <1>8
  <2> HIDE DEF size, B
  <2>2. Min({space, B}) = IF space <= B THEN space ELSE B
    BY <1>3, <1>7, MinOfTwo
  <2> QED
    BY <1>1, <1>3, <1>7, <2>1, <2>2
<1>10. size <= L * c - p
  <2> DEFINE y == L * c
  <2> HIDE DEF size, B, y
  <2>1. size <= B /\ B <= y - p /\ y \in Nat /\ B \in Nat /\ size \in Nat
    BY <1>7, <1>9 DEF y
  <2>2. size <= y - p
    BY <1>3, <2>1
  <2> QED
    BY <2>2 DEF y
<1>11. /\ k \in 0 .. L /\ q \in 0 .. c - 1
       /\ k = L => q = 0
       /\ k = 0 => q > 0 /\ q = size /\ size < CurSize(1)
       /\ k > 0 => size = k * c - p + q
  <2> HIDE DEF size
  <2> QED
    BY <1>0, <1>1, <1>9, <1>10, NextPositionRight
<1> DEFINE E == [buf : 1 .. answered, base : 0 .. c - 1]
           iov == SubSeq(write_iovec_buf_, k + 1, Len(write_iovec_buf_))
<1>12. /\ write_bufs_ \in Seq(1 .. answered)
       /\ write_iovec_buf_ \in Seq(E) /\ Len(write_iovec_buf_) = L
  BY <1>0 DEF TypeOK, QueueInv, MessageConsistent
<1>13. /\ \A i \in 1 .. L : write_bufs_[i] = d + i
       /\ \A i \in 1 .. L : write_iovec_buf_[i] =
            [buf |-> d + i, base |-> IF i = 1 THEN p ELSE 0]
  <2>1. \A i \in 1 .. L : write_bufs_[i] = d + i
    BY <1>0 DEF QueueInv, QueueNumbers
  <2>2. \A i \in 1 .. L : write_iovec_buf_[i] =
          [buf |-> write_bufs_[i], base |-> IF i = 1 THEN p ELSE 0]
    BY <1>0, <1>12 DEF QueueInv, MessageConsistent
  <2> HIDE DEF d, L, p
  <2> QED
    BY <2>1, <2>2
<1>14. delivered' \in Nat /\ in_order' \in BOOLEAN /\ cut_twice' \in BOOLEAN
  <2> HIDE DEF size
  <2>1. in_order \in BOOLEAN /\ cut_twice \in BOOLEAN
    BY <1>0 DEF TypeOK
  <2>2. in_order' \in BOOLEAN
    <3>1. in_order' = (in_order /\ \A i \in 1 .. size : bytes[i] = delivered + i)
      BY <1>2
    <3> HIDE DEF bytes
    <3> QED
      BY <3>1
  <2>3. cut_twice' \in BOOLEAN
    <3>1. cut_twice' = (cut_twice \/ (p > 0 /\ size < CurSize(1)))
      BY <1>2
    <3> QED
      BY <3>1
  <2>4. delivered' \in Nat
    <3>1. delivered' = IF in_order' THEN delivered + size ELSE delivered
      BY <1>2
    <3> QED
      BY <1>3, <1>9, <3>1
  <2> QED
    BY <2>2, <2>3, <2>4
<1> HIDE DEF k, q, size, bytes, B, D, L, d, p, c, iov, E
<1>15. /\ write_bufs_' \in Seq(1 .. answered) /\ Len(write_bufs_') = L - k
       /\ \A i \in 1 .. L - k : write_bufs_'[i] = d + (k + i)
  <2>1. Len(write_bufs_) = L /\ k \in 0 .. Len(write_bufs_)
    BY <1>11 DEF L
  <2>2. /\ write_bufs_' \in Seq(1 .. answered) /\ Len(write_bufs_') = L - k
        /\ \A i \in 1 .. L - k : write_bufs_'[i] = write_bufs_[k + i]
    <3> DEFINE T == 1 .. answered
    <3>1. write_bufs_ \in Seq(T)
      BY <1>12
    <3> HIDE DEF T
    <3>2. LET s == SubSeq(write_bufs_, k + 1, Len(write_bufs_))
          IN  /\ s \in Seq(T) /\ Len(s) = Len(write_bufs_) - k
              /\ \A i \in 1 .. Len(write_bufs_) - k : s[i] = write_bufs_[k + i]
      BY <2>1, <3>1, Rest
    <3> QED
      BY <1>2, <2>1, <3>2 DEF T
  <2>3. \A i \in 1 .. L - k : k + i \in 1 .. L
    BY <1>3, <1>11
  <2> QED
    BY <1>13, <2>2, <2>3
<1>16. /\ iov \in Seq(E) /\ Len(iov) = L - k
       /\ \A i \in 1 .. L - k : iov[i] =
            [buf |-> d + (k + i), base |-> IF k + i = 1 THEN p ELSE 0]
  <2>1. k \in 0 .. Len(write_iovec_buf_) /\ Len(write_iovec_buf_) = L
    BY <1>11, <1>12
  <2>2. /\ iov \in Seq(E) /\ Len(iov) = L - k
        /\ \A i \in 1 .. L - k : iov[i] = write_iovec_buf_[k + i]
    BY <1>12, <2>1, Rest DEF iov
  <2>3. \A i \in 1 .. L - k : k + i \in 1 .. L
    BY <1>3, <1>11
  <2> QED
    BY <1>13, <2>2, <2>3
<1>17. /\ write_iovec_buf_' \in Seq(E) /\ Len(write_iovec_buf_') = L - k
       /\ \A i \in 1 .. L - k : write_iovec_buf_'[i] =
            [buf |-> d + (k + i), base |-> IF i = 1 THEN q ELSE 0]
  <2>0. write_iovec_buf_' = Rebased(iov, q)
    BY <1>2 DEF iov
  <2>1. CASE q > 0
    <3>1. write_iovec_buf_' = [iov EXCEPT ![1].base = q]
      BY <2>0, <2>1 DEF Rebased
    <3>2. k < L /\ 1 \in 1 .. L - k /\ L - k \in Nat
      BY <1>3, <1>11, <2>1
    <3>3. iov[1] = [buf |-> d + (k + 1), base |-> IF k + 1 = 1 THEN p ELSE 0]
      BY <1>16, <3>2
    <3> DEFINE h == [iov[1] EXCEPT !.base = q]
    <3>4. h = [buf |-> d + (k + 1), base |-> q]
      BY <3>3
    <3>5. d + (k + 1) \in 1 .. answered /\ q \in 0 .. c - 1
      BY <1>3, <1>4, <1>11, <3>2
    <3>6. h \in E
      BY <3>4, <3>5 DEF E
    <3>7. write_iovec_buf_' = [iov EXCEPT ![1] = h]
      BY <3>1
    <3> HIDE DEF h
    <3>8. /\ write_iovec_buf_' \in Seq(E) /\ Len(write_iovec_buf_') = L - k
          /\ \A i \in 1 .. L - k : write_iovec_buf_'[i] = IF i = 1 THEN h ELSE iov[i]
      BY <1>16, <3>2, <3>6, <3>7
    <3>9. \A i \in 2 .. L - k : iov[i] = [buf |-> d + (k + i), base |-> 0]
      <4>1. \A i \in 2 .. L - k : k + i # 1 /\ i \in 1 .. L - k
        BY <1>3, <1>11
      <4> QED
        BY <1>16, <4>1
    <3>10. ASSUME NEW i \in 1 .. L - k
           PROVE  write_iovec_buf_'[i] = [buf |-> d + (k + i), base |-> IF i = 1 THEN q ELSE 0]
      <4>1. CASE i = 1
        BY <3>4, <3>8, <4>1
      <4>2. CASE i # 1
        <5>1. i \in 2 .. L - k
          BY <4>2
        <5> QED
          BY <3>8, <3>9, <4>2, <5>1
      <4> QED
        BY <4>1, <4>2
    <3> QED
      BY <3>8, <3>10
  <2>2. CASE ~(q > 0)
    <3>1. q = 0 /\ k > 0
      BY <1>3, <1>11, <2>2
    <3>2. write_iovec_buf_' = iov
      BY <2>0, <2>2 DEF Rebased
    <3>3. \A i \in 1 .. L - k : k + i # 1
      BY <1>3, <1>11, <3>1
    <3> QED
      BY <1>16, <3>1, <3>2, <3>3
  <2> QED
    BY <2>1, <2>2
<1>18. MessageConsistent'
  <2>1. DOMAIN write_bufs_' = 1 .. L - k
    BY <1>15
  <2>2. \A i \in 1 .. L - k : write_iovec_buf_'[i] =
          [buf |-> write_bufs_'[i], base |-> IF i = 1 THEN first_write_buf_pos_' ELSE 0]
    BY <1>2, <1>15, <1>17
  <2>3. write_bufs_' = <<>> => first_write_buf_pos_' = 0
    <3>1. write_bufs_' = <<>> => k = L
      BY <1>3, <1>11, <1>15
    <3> QED
      BY <1>2, <1>11, <3>1
  <2> QED
    BY <1>15, <1>17, <2>1, <2>2, <2>3 DEF MessageConsistent
<1>19. QueueNumbers'
  <2>1. answered' = answered /\ Len(write_bufs_') = L - k /\ L - k \in Nat
    BY <1>1, <1>3, <1>11, <1>15
  <2>2. answered - (L - k) = d + k /\ L - k <= answered
    BY <1>3, <1>4, <1>11
  <2>3. \A i \in 1 .. L - k : write_bufs_'[i] = d + k + i
    BY <1>3, <1>4, <1>11, <1>15
  <2> QED
    BY <2>1, <2>2, <2>3 DEF QueueNumbers
<1>20. DeliveredSoFar'
  <2> SUFFICES ASSUME ~cut_twice'
               PROVE  /\ in_order'
                      /\ delivered' = (answered - (L - k)) * c + q
    BY <1>1, <1>2, <1>15 DEF DeliveredSoFar, c
  <2>1. ~cut_twice /\ ~(p > 0 /\ size < CurSize(1))
    BY <1>2
  <2>2. in_order /\ delivered = D + p
    BY <1>0, <2>1 DEF QueueInv, DeliveredSoFar, D, d, L, c, p
  <2>3. \A i \in 1 .. size : bytes[i] = delivered + i
    <3>1. \A i \in 1 .. size : i \in 1 .. B
      BY <1>7, <1>9
    <3> QED
      BY <1>6, <2>2, <3>1
  <2>4. in_order' /\ delivered' = D + p + size
    BY <1>2, <2>2, <2>3
  <2> DEFINE x == k * c
  <2>5. x \in Nat /\ (k = 0 => x = 0)
    BY <1>3, <1>11
  <2>6. size = x - p + q
    <3>1. k > 0 => size = x - p + q
      BY <1>11
    <3>2. k = 0 => p = 0 /\ size = q
      BY <1>3, <1>11, <2>1
    <3>3. k = 0 \/ k > 0
      BY <1>3, <1>11
    <3> HIDE DEF x
    <3> QED
      BY <1>3, <1>11, <2>5, <3>1, <3>2, <3>3
  <2>7. (answered - (L - k)) * c = D + x
    <3>1. answered - (L - k) = d + k
      BY <1>3, <1>4, <1>11
    <3>2. (d + k) * c = d * c + k * c
      BY <1>3, <1>4, <1>11
    <3> QED
      BY <3>1, <3>2 DEF D
  <2> HIDE DEF x
  <2>8. D + p + size = D + x + q
    BY <1>3, <1>5, <1>11, <2>5, <2>6
  <2> QED
    BY <2>4, <2>7, <2>8
<1>21. TypeOK'
  <2>1. space' \in 0 .. SendSpace
    BY <1>2, <1>3, <1>9
  <2>2. first_write_buf_pos_' \in 0 .. ResponseSize - 1
    BY <1>2, <1>11 DEF c
  <2>3. write_iovec_buf_' \in Seq([buf : 1 .. answered, base : 0 .. ResponseSize - 1])
    BY <1>17 DEF E, c
  <2> QED
    BY <1>0, <1>1, <1>14, <1>15, <2>1, <2>2, <2>3 DEF TypeOK, readVars
<1>22. ReadInv'
  BY <1>0, <1>1 DEF ReadInv, LineAnswered, readVars, Newlines
<1>23. FlowInv'
  <2>1. pc = "write" /\ flags.handle_write /\ pc' = pc /\ flags' = flags /\ sock_error' = sock_error
    BY <1>1 DEF InWrite
  <2>2. flags.write_closed => flags.read_closed /\ sock_error # "none"
    BY <1>0, <1>1 DEF FlowInv
  <2> QED
    BY <2>1, <2>2 DEF FlowInv, BothClosed
<1> QED
  BY <1>18, <1>19, <1>20, <1>21, <1>22, <1>23 DEF IndInv, QueueInv

LEMMA StepInd == ASSUME IndInv, [Next]_vars PROVE IndInv'
<1>1. CASE Peer
  BY <1>1, PeerStep
<1>2. CASE FlagStep
  BY <1>2, FlagsStep
<1>3. CASE ReadBlock
  BY <1>3, ReadBlockStep
<1>4. CASE Send
  BY <1>4, SendStep
<1>5. CASE UNCHANGED vars
  <2>1. /\ UNCHANGED <<readVars, writeVars, historyVars>>
        /\ UNCHANGED socketVars /\ flags' = flags /\ pc' = pc
    BY <1>5 DEF vars
  <2>2. QueueInv' /\ ReadInv'
    BY <2>1, BuffersStay
  <2> QED
    BY <2>1, <2>2 DEF IndInv, TypeOK, FlowInv, BothClosed, socketVars, readVars,
                      writeVars, historyVars
<1> QED
  BY <1>1, <1>2, <1>3, <1>4, <1>5 DEF Next, ReadStep, WriteStep, FlagStep

LEMMA Invariance == Spec => []IndInv
<1>1. Init => IndInv
  BY InitInd
<1>2. IndInv /\ [Next]_vars => IndInv'
  BY StepInd
<1> QED
  BY <1>1, <1>2, PTL DEF Spec

-----------------------------------------------------------------------------
(* The theorems.                                                           *)

\* add_write_buf_ and reconfigure_write_bufs_ leave "all next fields consistent
\* and ready for sendmsg": the vector describes the queued buffers, in their
\* order, the first of them from first_write_buf_pos_ on.
THEOREM MessageStaysReady == Spec => []QueueConsistent
<1>1. IndInv => QueueConsistent
  BY DEF IndInv, QueueInv, QueueConsistent
<1> QED
  BY <1>1, Invariance, PTL

\* read() answers each line once, wherever the blocks cut it and whenever the
\* processed part of read_buf_ is dropped.
THEOREM EachLineAnswered == Spec => []LineAnswered
<1>1. IndInv => LineAnswered
  BY DEF IndInv, ReadInv
<1> QED
  BY <1>1, Invariance, PTL

\* sendmsg() and reconfigure_write_bufs_ give the kernel the responses' bytes in
\* their order, with none left out or repeated, as long as no response is cut
\* by two sends (after that the position is that of the last send alone).
THEOREM SentInOrder == Spec => []InOrderUnlessCutTwice
<1>1. IndInv => InOrderUnlessCutTwice
  BY DEF IndInv, QueueInv, DeliveredSoFar, InOrderUnlessCutTwice
<1> QED
  BY <1>1, Invariance, PTL

\* A handler that waits in epoll with responses to send is armed for output.
THEOREM ArmedWithOutput == Spec => []OutputArmed
<1>1. IndInv => OutputArmed
  BY DEF IndInv, FlowInv, BothClosed, OutputArmed
<1> QED
  BY <1>1, Invariance, PTL

\* Unless the socket failed, a handler is removed only with its queue empty:
\* a peer that closes its side is still sent what it is owed.
THEOREM QueueSentBeforeRemoval == Spec => []RemovedWhenSent
<1>1. IndInv => RemovedWhenSent
  BY DEF IndInv, FlowInv, BothClosed, RemovedWhenSent
<1> QED
  BY <1>1, Invariance, PTL
=============================================================================
