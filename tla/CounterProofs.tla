---------------------------- MODULE CounterProofs ----------------------------
(***************************************************************************)
(* Proofs about the counter of the AE-x decryptor: arithmetic with limbs.  *)
(***************************************************************************)
EXTENDS Pipeline, StreamProofs

(***************************************************************************)
(* Division with a remainder.                                              *)
(***************************************************************************)
LEMMA DivFacts ==
  ASSUME NEW n \in Nat, NEW p \in Nat \ {0}
  PROVE /\ n \div p \in Nat /\ n % p \in 0 .. p - 1 /\ n = p * (n \div p) + (n % p)
  OBVIOUS

LEMMA DivUnique ==
  ASSUME NEW n \in Nat, NEW p \in Nat \ {0}, NEW q \in Nat, NEW r \in 0 .. p - 1, n = p * q + r
  PROVE  n \div p = q /\ n % p = r
  OBVIOUS

LEMMA NextLimb ==
  ASSUME NEW n \in Nat, NEW p \in Nat \ {0}
  PROVE  (n + 1) \div p = IF n % p = p - 1 THEN n \div p + 1 ELSE n \div p
  OBVIOUS

LEMMA Wraps ==
  ASSUME NEW n \in Nat, NEW m \in Nat \ {0}
  PROVE  (n + 1) % m = ((n % m) + 1) % m
<1> DEFINE q == n \div m
<1>1. n % m \in 0 .. m - 1 /\ q \in Nat /\ n = m * q + (n % m)
  BY DivFacts
<1> HIDE DEF q
<1>2. CASE n % m = m - 1
  <2>1. n + 1 = m * (q + 1) + 0 /\ n + 1 \in Nat /\ q + 1 \in Nat /\ 0 \in 0 .. m - 1
    BY <1>1, <1>2
  <2>2. (n + 1) % m = 0
    BY <2>1, DivUnique
  <2>3. ((n % m) + 1) % m = 0
    BY <1>2
  <2> QED
    BY <2>2, <2>3
<1>3. CASE n % m # m - 1
  <2>1. (n % m) + 1 \in 0 .. m - 1
    BY <1>1, <1>3
  <2>2. n + 1 = m * q + ((n % m) + 1) /\ n + 1 \in Nat
    BY <1>1
  <2>3. (n + 1) % m = (n % m) + 1
    BY <1>1, <2>1, <2>2, DivUnique
  <2>4. ((n % m) + 1) % m = (n % m) + 1
    BY <2>1
  <2> QED
    BY <2>3, <2>4
<1> QED
  BY <1>2, <1>3

LEMMA LimbStep ==
  ASSUME NEW n \in Nat, NEW p \in Nat \ {0}, NEW m \in Nat \ {0, 1}
  PROVE  n % (m * p) = m * p - 1 <=> n % p = p - 1 /\ (n \div p) % m = m - 1
<1> DEFINE q == n \div p
           r == n % p
           s == q \div m
           t == q % m
<1>1. q \in Nat /\ r \in 0 .. p - 1 /\ n = p * q + r
  BY DivFacts
<1>2. s \in Nat /\ t \in 0 .. m - 1 /\ q = m * s + t
  <2> HIDE DEF q
  <2> QED
    BY <1>1, DivFacts
<1> HIDE DEF q, r, s, t
<1>3. n = (m * p) * s + (p * t + r)
  BY <1>1, <1>2
<1>4. p * t + r \in 0 .. m * p - 1 /\ m * p \in Nat \ {0}
  <2>1. p * t <= p * (m - 1) /\ p * t \in Nat /\ m * p \in Nat \ {0}
    BY <1>2
  <2> QED
    BY <1>1, <2>1
<1>5. n % (m * p) = p * t + r
  <2> DEFINE x == m * p
             y == p * t + r
  <2>1. x \in Nat \ {0} /\ y \in 0 .. x - 1 /\ n = x * s + y
    BY <1>3, <1>4
  <2> HIDE DEF x, y
  <2>2. n % x = y
    BY <1>2, <2>1
  <2> QED
    BY <2>2 DEF x, y
<1>6. p * t + r = m * p - 1 <=> r = p - 1 /\ t = m - 1
  BY <1>1, <1>2
<1> QED
  BY <1>5, <1>6 DEF q, r, t

-----------------------------------------------------------------------------
(***************************************************************************)
(* All limbs below one are full when the number is about to carry into it. *)
(***************************************************************************)
LEMMA Carries ==
  ASSUME NEW n \in Nat, NEW i \in 0 .. LIMBS - 1
  PROVE  (\A j \in 0 .. i - 1 : Limbs(n)[j] = LIMB_MOD - 1) <=> n % PLACES[i] = PLACES[i] - 1
<1> DEFINE Full(k) == \A j \in 0 .. k - 1 : Limbs(n)[j] = LIMB_MOD - 1
           Good(k) == Full(k) <=> n % PLACES[k] = PLACES[k] - 1
           T == {k \in 0 .. LIMBS - 1 : ~ Good(k)}
<1>1. SUFFICES ASSUME T # {} PROVE FALSE
  OBVIOUS
<1>2. T \subseteq Nat
  OBVIOUS
<1>3. PICK k \in T : \A y \in T : k <= y
  <2> HIDE DEF T
  <2> QED
    BY <1>1, <1>2, LeastNatural
<1>4. k \in 0 .. LIMBS - 1 /\ ~ Good(k) /\ LIMBS \in Nat
  BY SizesAssumption
<1>5. CASE k = 0
  <2>1. Full(0)
    OBVIOUS
  <2>2. n % PLACES[0] = PLACES[0] - 1
    BY PlacesAssumption
  <2> QED
    BY <1>4, <1>5, <2>1, <2>2
<1>6. CASE k # 0
  <2> DEFINE h == k - 1
  <2>1. h \in 0 .. LIMBS - 1 /\ h \in Nat /\ k = h + 1
    BY <1>4, <1>6
  <2>2. Good(h)
    BY <1>3, <2>1
  <2>3. Full(k) <=> Full(h) /\ Limbs(n)[h] = LIMB_MOD - 1
    <3>1. 0 .. k - 1 = (0 .. h - 1) \cup {h}
      BY <2>1
    <3> QED
      BY <3>1
  <2>4. Limbs(n)[h] = (n \div PLACES[h]) % LIMB_MOD
    BY <2>1 DEF Limbs
  <2> DEFINE p == PLACES[h]
  <2>5. PLACES[k] = LIMB_MOD * p /\ p \in Nat \ {0}
    <3>1. PLACES[h + 1] = LIMB_MOD * PLACES[h] /\ h \in 0 .. LIMBS
      BY <2>1, SizesAssumption, PlacesAssumption
    <3> HIDE DEF h
    <3> QED
      BY <2>1, <3>1, PlacesAssumption
  <2> HIDE DEF h, p
  <2>6. n % PLACES[k] = PLACES[k] - 1
          <=> n % p = p - 1 /\ (n \div p) % LIMB_MOD = LIMB_MOD - 1
    <3>1. LIMB_MOD \in Nat \ {0, 1}
      BY SizesAssumption
    <3>2. n % (LIMB_MOD * p) = LIMB_MOD * p - 1
            <=> n % p = p - 1 /\ (n \div p) % LIMB_MOD = LIMB_MOD - 1
      BY <2>5, <3>1, LimbStep
    <3> QED
      BY <2>5, <3>2
  <2> QED
    BY <1>4, <2>2, <2>3, <2>4, <2>6 DEF p
<1> QED
  BY <1>5, <1>6

LEMMA ZeroLimbs == Limbs(0) = [i \in 0 .. LIMBS - 1 |-> 0]
<1>1. ASSUME NEW i \in 0 .. LIMBS - 1 PROVE (0 \div PLACES[i]) % LIMB_MOD = 0
  <2> DEFINE p == PLACES[i]
  <2>1. p \in Nat \ {0} /\ LIMB_MOD \in Nat \ {0}
    BY SizesAssumption, PlacesAssumption
  <2> HIDE DEF p
  <2>2. 0 \div p = 0 /\ 0 % LIMB_MOD = 0
    BY <2>1
  <2> QED
    BY <2>2 DEF p
<1> QED
  BY <1>1 DEF Limbs

(***************************************************************************)
(* The increment of the AE-x decryptor, which carries from limb to limb,   *)
(* counts, also when the highest limb wraps around.                        *)
(***************************************************************************)
THEOREM CounterCounts == \A n \in Nat : Increment(Limbs(n)) = Limbs(n + 1)
<1> SUFFICES ASSUME NEW n \in Nat PROVE Increment(Limbs(n)) = Limbs(n + 1)
  OBVIOUS
<1>1. ASSUME NEW i \in 0 .. LIMBS - 1 PROVE Increment(Limbs(n))[i] = Limbs(n + 1)[i]
  <2> DEFINE p == PLACES[i]
             q == n \div p
  <2>1. p \in Nat \ {0} /\ q \in Nat
    <3>1. p \in Nat \ {0}
      BY SizesAssumption, PlacesAssumption
    <3> HIDE DEF p
    <3> QED
      BY <3>1, DivFacts
  <2>2. /\ Limbs(n)[i] = q % LIMB_MOD
        /\ Limbs(n + 1)[i] = ((n + 1) \div p) % LIMB_MOD
    BY DEF Limbs
  <2>3. (n + 1) \div p = IF n % p = p - 1 THEN q + 1 ELSE q
    <3> HIDE DEF p
    <3> QED
      BY <2>1, NextLimb DEF q
  <2>4. Increment(Limbs(n))[i] = IF n % p = p - 1 THEN ((q % LIMB_MOD) + 1) % LIMB_MOD ELSE q % LIMB_MOD
    BY <2>2, Carries DEF Increment
  <2> HIDE DEF p, q
  <2>5. (q + 1) % LIMB_MOD = ((q % LIMB_MOD) + 1) % LIMB_MOD
    BY <2>1, Wraps, SizesAssumption
  <2> QED
    BY <2>2, <2>3, <2>4, <2>5
<1> QED
  BY <1>1 DEF Increment, Limbs
==============================================================================
