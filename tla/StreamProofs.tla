---------------------------- MODULE StreamProofs ----------------------------
(***************************************************************************)
(* Facts about the disks of an archive and the stream they make up.        *)
(***************************************************************************)
EXTENDS ZipPosition, SequenceTheorems, WellFoundedInduction, TLAPS

(***************************************************************************)
(* A stretch of the stream is a sequence, and two stretches that meet make *)
(* one: what the unpacker delivers, or the provider answers, next.         *)
(***************************************************************************)
LEMMA BytesSeq ==
  ASSUME NEW g \in Nat, NEW n \in Nat
  PROVE  Bytes(g, n) \in Seq(Nat) /\ Len(Bytes(g, n)) = n
  BY DEF Bytes

LEMMA BytesConcat ==
  ASSUME NEW g \in Nat, NEW n \in Nat, NEW m \in Nat
  PROVE  Bytes(g, n) \o Bytes(g + n, m) = Bytes(g, n + m)
<1> DEFINE s == Bytes(g, n)
           t == Bytes(g + n, m)
           u == Bytes(g, n + m)
<1>1. s \in Seq(Nat) /\ Len(s) = n
  BY BytesSeq
<1>2. t \in Seq(Nat) /\ Len(t) = m
  <2>1. g + n \in Nat
    OBVIOUS
  <2> QED
    BY <2>1, BytesSeq
<1>3. u \in Seq(Nat) /\ Len(u) = n + m
  <2>1. n + m \in Nat
    OBVIOUS
  <2> QED
    BY <2>1, BytesSeq
<1>4. s \o t \in Seq(Nat) /\ Len(s \o t) = n + m
  BY <1>1, <1>2
<1>5. ASSUME NEW k \in 1 .. n + m
      PROVE  (s \o t)[k] = u[k]
  BY <1>1, <1>2 DEF Bytes
<1> QED
  BY <1>3, <1>4, <1>5, SeqEqual

(***************************************************************************)
(* The next disk begins where a disk ends, and the stream ends with the    *)
(* last one.                                                               *)
(***************************************************************************)
LEMMA DiskFacts ==
  ASSUME NEW a, IsDisks(a), NEW d \in 0 .. a.disks - 1
  PROVE  /\ a.size[d] \in Nat /\ a.base[d] \in Nat /\ StreamSize(a) \in Nat
         /\ a.base[d + 1] = a.base[d] + a.size[d]
         /\ d + 1 = a.disks => StreamSize(a) = a.base[d] + a.size[d]
<1>1. a.disks \in Nat \ {0} /\ d \in 0 .. a.disks /\ a.disks \in 0 .. a.disks
  BY DEF IsDisks
<1> QED
  BY <1>1 DEF IsDisks, StreamSize

(***************************************************************************)
(* A set of numbers has a least one: what would be proved by induction is  *)
(* proved of the least counterexample.                                     *)
(***************************************************************************)
LEMMA LeastNatural ==
  ASSUME NEW T, T \subseteq Nat, T # {}
  PROVE  \E x \in T : \A y \in T : x <= y
<1> DEFINE R == OpToRel(<, Nat)
<1>1. IsWellFoundedOn(R, Nat)
  BY NatLessThanWellFounded
<1>2. \A x, y \in Nat : x < y => << x, y >> \in R
  BY DEF OpToRel
<1> HIDE DEF R
<1>3. PICK x \in T : \A y \in T : ~ (<< y, x >> \in R)
  BY <1>1, WFMin
<1>4. ASSUME NEW y \in T PROVE x <= y
  <2>1. x \in Nat /\ y \in Nat
    OBVIOUS
  <2>2. ~ (y < x)
    BY <1>2, <1>3, <2>1
  <2> QED
    BY <2>1, <2>2
<1> QED
  BY <1>4

(***************************************************************************)
(* A later disk does not start before an earlier one.                      *)
(***************************************************************************)
LEMMA BaseGrows ==
  ASSUME NEW a, IsDisks(a), NEW d \in 0 .. a.disks, NEW e \in d .. a.disks
  PROVE  a.base[d] <= a.base[e]
<1>1. /\ a.disks \in Nat
      /\ \A f \in 0 .. a.disks : a.base[f] \in Nat
  BY DEF IsDisks
<1> DEFINE T == {f \in d .. a.disks : a.base[f] < a.base[d]}
<1> SUFFICES ASSUME T # {} PROVE FALSE
  BY <1>1
<1>2. PICK f \in T : \A g \in T : f <= g
  <2>1. T \subseteq Nat
    BY <1>1
  <2> QED
    BY <2>1, LeastNatural
<1>3. f # d /\ f - 1 \in d .. a.disks /\ f - 1 \in 0 .. a.disks - 1
  BY <1>1, <1>2
<1>4. f - 1 \notin T
  BY <1>1, <1>2
<1>5. a.base[f - 1] >= a.base[d]
  BY <1>1, <1>3, <1>4
<1>6. a.base[f] = a.base[f - 1] + a.size[f - 1] /\ a.size[f - 1] \in Nat
  BY <1>3, DiskFacts
<1> QED
  BY <1>1, <1>2, <1>3, <1>5, <1>6

(***************************************************************************)
(* Positions on their disks are in the order of the stream.                *)
(***************************************************************************)
LEMMA OrderOfStream ==
  ASSUME NEW a, IsDisks(a),
         NEW p \in [disk : 0 .. a.disks - 1, offset : Nat],
         NEW q \in [disk : 0 .. a.disks - 1, offset : Nat],
         p.offset < a.size[p.disk], Before(p, q)
  PROVE  Global(a, p) < Global(a, q)
<1>1. /\ a.base[p.disk] \in Nat /\ a.base[q.disk] \in Nat /\ a.size[p.disk] \in Nat
      /\ a.base[p.disk + 1] = a.base[p.disk] + a.size[p.disk]
  BY DiskFacts
<1>2. CASE p.disk = q.disk
  BY <1>1, <1>2 DEF Before, Global
<1>3. CASE p.disk < q.disk
  <2>1. p.disk + 1 \in 0 .. a.disks /\ q.disk \in p.disk + 1 .. a.disks
    BY <1>3 DEF IsDisks
  <2>2. a.base[p.disk + 1] <= a.base[q.disk]
    BY <2>1, BaseGrows
  <2> QED
    BY <1>1, <2>2 DEF Global
<1> QED
  BY <1>2, <1>3 DEF Before

(***************************************************************************)
(* A byte of the stream that lies beyond a disk is on a later one.         *)
(***************************************************************************)
LEMMA HeldByLater ==
  ASSUME NEW a, IsDisks(a), NEW d \in 0 .. a.disks - 1, NEW g \in Nat,
         a.base[d] + a.size[d] <= g, g < StreamSize(a)
  PROVE  \E e \in d + 1 .. a.disks - 1 : Holds(a, e, g)
<1>1. /\ a.disks \in Nat \ {0}
      /\ \A f \in 0 .. a.disks : a.base[f] \in Nat
  BY DEF IsDisks
<1> DEFINE T == {f \in 0 .. a.disks : g < a.base[f]}
<1>2. PICK f \in T : \A h \in T : f <= h
  <2>1. a.disks \in T /\ T \subseteq Nat
    BY <1>1 DEF StreamSize
  <2> QED
    BY <2>1, LeastNatural
<1>3. ~ (f <= d + 1)
  <2> SUFFICES ASSUME f <= d + 1 PROVE FALSE
    OBVIOUS
  <2>1. f \in 0 .. a.disks /\ d + 1 \in f .. a.disks /\ d + 1 \in 0 .. a.disks
    BY <1>1, <1>2
  <2>2. a.base[f] <= a.base[d + 1]
    BY <2>1, BaseGrows
  <2>3. a.base[d + 1] <= g
    BY DiskFacts
  <2> QED
    BY <1>1, <1>2, <2>1, <2>2, <2>3
<1>4. f - 1 \in d + 1 .. a.disks - 1 /\ f - 1 \in 0 .. a.disks - 1
  BY <1>1, <1>2, <1>3
<1>5. f - 1 \notin T
  BY <1>2
<1>6. a.base[f - 1] <= g
  BY <1>1, <1>4, <1>5
<1>7. a.base[f] = a.base[f - 1] + a.size[f - 1]
  BY <1>4, DiskFacts
<1>8. Holds(a, f - 1, g)
  BY <1>2, <1>6, <1>7 DEF Holds
<1> QED
  BY <1>4, <1>8

-----------------------------------------------------------------------------
(***************************************************************************)
(* What it takes for a tuple of two, of three or of four to be lower.      *)
(***************************************************************************)
LEMMA LowerPair ==
  ASSUME NEW a, NEW b, NEW c, NEW d,
         \/ c < a
         \/ c = a /\ d < b
  PROVE  Lower(<< c, d >>, << a, b >>)
<1> DEFINE m == << c, d >>
           n == << a, b >>
<1>1. /\ DOMAIN n = 1 .. 2
      /\ m[1] = c /\ m[2] = d /\ n[1] = a /\ n[2] = b
  OBVIOUS
<1>2. 1 .. 1 - 1 = {} /\ 1 .. 2 - 1 = {1}
  OBVIOUS
<1> QED
  BY <1>1, <1>2 DEF Lower

LEMMA LowerTriple ==
  ASSUME NEW a, NEW b, NEW c, NEW x, NEW y, NEW z,
         \/ x < a
         \/ x = a /\ y < b
         \/ x = a /\ y = b /\ z < c
  PROVE  Lower(<< x, y, z >>, << a, b, c >>)
<1> DEFINE m == << x, y, z >>
           n == << a, b, c >>
<1>1. /\ DOMAIN n = 1 .. 3
      /\ m[1] = x /\ m[2] = y /\ m[3] = z /\ n[1] = a /\ n[2] = b /\ n[3] = c
  OBVIOUS
<1>2. 1 .. 1 - 1 = {} /\ 1 .. 2 - 1 = {1} /\ 1 .. 3 - 1 = {1, 2}
  OBVIOUS
<1> QED
  BY <1>1, <1>2 DEF Lower

LEMMA LowerFour ==
  ASSUME NEW a, NEW b, NEW c, NEW d, NEW w, NEW x, NEW y, NEW z,
         \/ w < a
         \/ w = a /\ x < b
         \/ w = a /\ x = b /\ y < c
         \/ w = a /\ x = b /\ y = c /\ z < d
  PROVE  Lower(<< w, x, y, z >>, << a, b, c, d >>)
<1> DEFINE m == << w, x, y, z >>
           n == << a, b, c, d >>
<1>1. /\ DOMAIN n = 1 .. 4
      /\ m[1] = w /\ m[2] = x /\ m[3] = y /\ m[4] = z
      /\ n[1] = a /\ n[2] = b /\ n[3] = c /\ n[4] = d
  OBVIOUS
<1>2. /\ 1 .. 1 - 1 = {} /\ 1 .. 2 - 1 = {1} /\ 1 .. 3 - 1 = {1, 2} /\ 1 .. 4 - 1 = {1, 2, 3}
  OBVIOUS
<1>3. 1 \in DOMAIN n /\ 2 \in DOMAIN n /\ 3 \in DOMAIN n /\ 4 \in DOMAIN n
  BY <1>1
<1> HIDE DEF m, n
<1>4. CASE w < a
  <2>1. m[1] < n[1] /\ \A j \in 1 .. 1 - 1 : m[j] = n[j]
    BY <1>1, <1>2, <1>4
  <2> QED
    BY <1>3, <2>1 DEF Lower, m, n
<1>5. CASE w = a /\ x < b
  <2>1. m[2] < n[2] /\ \A j \in 1 .. 2 - 1 : m[j] = n[j]
    BY <1>1, <1>2, <1>5
  <2> QED
    BY <1>3, <2>1 DEF Lower, m, n
<1>6. CASE w = a /\ x = b /\ y < c
  <2>1. m[3] < n[3] /\ \A j \in 1 .. 3 - 1 : m[j] = n[j]
    BY <1>1, <1>2, <1>6
  <2> QED
    BY <1>3, <2>1 DEF Lower, m, n
<1>7. CASE w = a /\ x = b /\ y = c /\ z < d
  <2>1. m[4] < n[4] /\ \A j \in 1 .. 4 - 1 : m[j] = n[j]
    BY <1>1, <1>2, <1>7
  <2> QED
    BY <1>3, <2>1 DEF Lower, m, n
<1> QED
  BY <1>4, <1>5, <1>6, <1>7
=============================================================================
