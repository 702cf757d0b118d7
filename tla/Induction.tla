------------------------------ MODULE Induction ------------------------------
(***************************************************************************)
(* What the other proofs need about natural numbers, finite sets and       *)
(* recursive functions.  An induction is stated over a set of numbers: the *)
(* numbers for which a claim holds are such a set.                         *)
(***************************************************************************)
EXTENDS Order, FiniteSetTheorems, WellFoundedInduction, TLAPS

(* Some number of a set of natural numbers is the least. *)
LEMMA LeastNumber ==
  ASSUME NEW T, T \subseteq Nat, T # {}
  PROVE  \E x \in T : \A y \in T : x <= y
<1> DEFINE R == OpToRel(<, Nat)
<1>1. IsWellFoundedOn(R, Nat)
  BY NatLessThanWellFounded
<1>2. \A x \in Nat, y \in Nat : y < x => <<y, x>> \in R
  BY DEF OpToRel
<1> HIDE DEF R
<1>3. PICK x \in T : \A y \in T : <<y, x>> \notin R
  BY <1>1, WFMin
<1>4. ASSUME NEW y \in T PROVE x <= y
  <2>1. x \in Nat /\ y \in Nat /\ ~ (y < x)
    BY <1>2, <1>3
  <2> QED
    BY <2>1
<1> QED
  BY <1>4

(* Induction from 0 up to n. *)
LEMMA InductionTo ==
  ASSUME NEW n \in Nat, NEW T, 0 \in T,
         \A k \in 0 .. n - 1 : k \in T => k + 1 \in T
  PROVE  \A k \in 0 .. n : k \in T
<1> SUFFICES ASSUME (0 .. n) \ T # {} PROVE FALSE
  OBVIOUS
<1>1. PICK x \in (0 .. n) \ T : \A y \in (0 .. n) \ T : x <= y
  <2>1. (0 .. n) \ T \subseteq Nat
    OBVIOUS
  <2> QED
    BY <2>1, LeastNumber
<1>2. x \in 1 .. n
  BY <1>1
<1>3. x - 1 \in T
  BY <1>1, <1>2
<1> QED
  BY <1>1, <1>2, <1>3

(* Induction over the natural numbers. *)
LEMMA InductionNat ==
  ASSUME NEW T, 0 \in T, \A k \in Nat : k \in T => k + 1 \in T
  PROVE  \A k \in Nat : k \in T
<1> TAKE k \in Nat
<1>1. \A i \in 0 .. k : i \in T
  BY InductionTo
<1> QED
  BY <1>1

(* Induction from n down to 1. *)
LEMMA InductionDown ==
  ASSUME NEW n \in Nat, NEW T, n + 1 \in T,
         \A k \in 1 .. n : k + 1 \in T => k \in T
  PROVE  \A k \in 1 .. n + 1 : k \in T
<1> DEFINE U == {k \in 0 .. n : n + 1 - k \in T}
<1>1. 0 \in U
  OBVIOUS
<1>2. ASSUME NEW k \in 0 .. n - 1, k \in U PROVE k + 1 \in U
  <2>1. n - k \in 1 .. n /\ (n - k) + 1 \in T
    BY <1>2
  <2> QED
    BY <2>1
<1>3. \A k \in 0 .. n : k \in U
  <2> HIDE DEF U
  <2> QED
    BY <1>1, <1>2, InductionTo
<1>4. ASSUME NEW k \in 1 .. n + 1 PROVE k \in T
  <2>1. n + 1 - k \in 0 .. n
    OBVIOUS
  <2> QED
    BY <1>3, <2>1
<1> QED
  BY <1>4

(* Some number of a set is the greatest, if a number bounds the set. *)
LEMMA GreatestNumber ==
  ASSUME NEW S, S # {}, S \subseteq Nat, NEW n \in Nat, \A s \in S : s <= n
  PROVE  \E x \in S : \A y \in S : x >= y
<1> DEFINE T == {n - s : s \in S}
<1>1. T \subseteq Nat /\ T # {}
  <2>1. \A s \in S : n - s \in Nat
    OBVIOUS
  <2> QED
    BY <2>1
<1>2. PICK t \in T : \A u \in T : t <= u
  BY <1>1, LeastNumber
<1>3. PICK x \in S : t = n - x
  OBVIOUS
<1>4. \A y \in S : n - y \in T
  OBVIOUS
<1>5. \A y \in S : t <= n - y
  BY <1>2, <1>4
<1> QED
  BY <1>3, <1>5

-----------------------------------------------------------------------------
(* g begins with c, and goes from each value to the next by step. *)
Follows(g, c, n, step) ==
  /\ g[0] = c
  /\ \A k \in 1 .. n : g[k] = step[<<k, g[k - 1]>>]

(* There is such a function over 0..n, whatever the step. *)
LEMMA Recursion ==
  ASSUME NEW S, NEW c \in S, NEW n \in Nat, NEW step \in [Nat \X S -> S]
  PROVE  \E g \in [0 .. n -> S] : Follows(g, c, n, step)
<1> DEFINE T == {m \in Nat : \E g \in [0 .. m -> S] : Follows(g, c, m, step)}
<1>1. 0 \in T
  <2>1. [k \in 0 .. 0 |-> c] \in [0 .. 0 -> S] /\ Follows([k \in 0 .. 0 |-> c], c, 0, step)
    BY DEF Follows
  <2> QED
    BY <2>1
<1>2. ASSUME NEW m \in Nat, m \in T PROVE m + 1 \in T
  <2>1. PICK g \in [0 .. m -> S] : Follows(g, c, m, step)
    BY <1>2
  <2> DEFINE h == [k \in 0 .. m + 1 |-> IF k = m + 1 THEN step[<<m + 1, g[m]>>] ELSE g[k]]
  <2>2. h \in [0 .. m + 1 -> S]
    <3>1. g[m] \in S
      OBVIOUS
    <3> QED
      BY <3>1
  <2>3. ASSUME NEW k \in 1 .. m + 1 PROVE h[k] = step[<<k, h[k - 1]>>]
    <3>1. CASE k = m + 1
      <4>1. k - 1 = m /\ h[m + 1] = step[<<m + 1, g[m]>>] /\ h[m] = g[m]
        BY <3>1
      <4> HIDE DEF h
      <4> QED
        BY <3>1, <4>1
    <3>2. CASE k \in 1 .. m
      <4>1. h[k] = g[k] /\ h[k - 1] = g[k - 1]
        BY <3>2
      <4> HIDE DEF h
      <4> QED
        BY <2>1, <3>2, <4>1 DEF Follows
    <3> QED
      BY <3>1, <3>2
  <2>4. h[0] = c
    BY <2>1 DEF Follows
  <2>5. \E f \in [0 .. m + 1 -> S] : Follows(f, c, m + 1, step)
    <3> HIDE DEF h
    <3> QED
      BY <2>2, <2>3, <2>4 DEF Follows
  <2> QED
    BY <2>5
<1>3. n \in T
  <2> HIDE DEF T
  <2> QED
    BY <1>1, <1>2, InductionNat
<1> QED
  BY <1>3

-----------------------------------------------------------------------------
(* The order of a finite set of numbers. *)

Ordered(s) == \A i, j \in DOMAIN s : i < j => s[i] < s[j]

(* A finite set of numbers can be listed in their order. *)
LEMMA OrderExists ==
  ASSUME NEW S, S \subseteq Nat, IsFiniteSet(S)
  PROVE  \E s \in [1..Cardinality(S) -> S] : Ordered(s)
<1> DEFINE T == {n \in Nat : \A U \in SUBSET Nat :
                    IsFiniteSet(U) /\ Cardinality(U) = n => \E s \in [1..n -> U] : Ordered(s)}
<1>1. 0 \in T
  <2> SUFFICES ASSUME NEW U \in SUBSET Nat
               PROVE  \E s \in [1..0 -> U] : Ordered(s)
    OBVIOUS
  <2>1. [i \in 1..0 |-> i] \in [1..0 -> U]
    OBVIOUS
  <2> QED
    BY <2>1 DEF Ordered
<1>2. ASSUME NEW n \in Nat, n \in T PROVE n + 1 \in T
  <2> SUFFICES ASSUME NEW U \in SUBSET Nat, IsFiniteSet(U), Cardinality(U) = n + 1
               PROVE  \E s \in [1..n + 1 -> U] : Ordered(s)
    OBVIOUS
  <2>1. U # {}
    BY FS_EmptySet
  <2>2. PICK x \in U : \A y \in U : x <= y
    BY <2>1, LeastNumber
  <2>3. IsFiniteSet(U \ {x}) /\ Cardinality(U \ {x}) = n
    <3>1. IsFiniteSet(U \ {x}) /\ Cardinality(U \ {x}) = Cardinality(U) - 1
      BY FS_RemoveElement
    <3> QED
      BY <3>1
  <2>4. PICK r \in [1..n -> U \ {x}] : Ordered(r)
    BY <1>2, <2>3
  <2> DEFINE s == [i \in 1..n + 1 |-> IF i = 1 THEN x ELSE r[i - 1]]
  <2>5. \A i \in 2..n + 1 : s[i] = r[i - 1] /\ i - 1 \in 1..n /\ r[i - 1] \in U \ {x}
    OBVIOUS
  <2>6. s[1] = x /\ DOMAIN s = 1..n + 1
    OBVIOUS
  <2>7. s \in [1..n + 1 -> U]
    OBVIOUS
  <2>8. \A i \in 2..n + 1 : x < s[i]
    <3> SUFFICES ASSUME NEW i \in 2..n + 1 PROVE x < s[i]
      OBVIOUS
    <3>1. s[i] \in U /\ s[i] # x
      BY <2>5
    <3> HIDE DEF s
    <3>2. x <= s[i] /\ x \in Nat /\ s[i] \in Nat
      BY <2>2, <3>1
    <3> QED
      BY <3>1, <3>2
  <2>9. \A i, j \in 2..n + 1 : i < j => s[i] < s[j]
    BY <2>4, <2>5 DEF Ordered
  <2>10. Ordered(s)
    <3> HIDE DEF s
    <3> QED
      BY <2>6, <2>8, <2>9 DEF Ordered
  <2> QED
    BY <2>7, <2>10
<1>3. Cardinality(S) \in T
  <2> HIDE DEF T
  <2> QED
    BY <1>1, <1>2, FS_CardinalityType, InductionNat
<1> QED
  BY <1>3

(* InOrder lists each element of a finite set of numbers, in their order. *)
LEMMA InOrderLists ==
  ASSUME NEW S, S \subseteq Nat, IsFiniteSet(S)
  PROVE  /\ InOrder(S) \in [1..Cardinality(S) -> S] /\ Cardinality(S) \in Nat
         /\ \A i, j \in 1..Cardinality(S) : i < j => InOrder(S)[i] < InOrder(S)[j]
         /\ \A x \in S : \E i \in 1..Cardinality(S) : InOrder(S)[i] = x
<1> DEFINE n == Cardinality(S)
           s == InOrder(S)
<1>1. n \in Nat
  BY FS_CardinalityType
<1>2. s \in [1..n -> S] /\ Ordered(s)
  BY OrderExists DEF InOrder, Ordered
<1>3. \A i, j \in 1..n : i < j => s[i] < s[j]
  BY <1>2 DEF Ordered
<1>4. \A x \in S : \E i \in 1..n : s[i] = x
  <2> HIDE DEF n, s
  <2>1. \A i, j \in 1..n : s[i] = s[j] => i = j
    <3> SUFFICES ASSUME NEW i \in 1..n, NEW j \in 1..n, s[i] = s[j], i # j PROVE FALSE
      OBVIOUS
    <3>1. s[i] \in Nat /\ s[j] \in Nat
      BY <1>2
    <3>2. i < j \/ j < i
      BY <1>1
    <3> QED
      BY <1>3, <3>1, <3>2
  <2>2. s \in Injection(1..n, S)
    BY <1>2, <2>1 DEF Injection, IsInjective
  <2>3. Cardinality(1..n) = n
    BY <1>1, FS_Interval
  <2>4. s \in Surjection(1..n, S)
    BY <2>2, <2>3, FS_Injection DEF n
  <2> QED
    BY <2>4 DEF Surjection
<1> QED
  BY <1>1, <1>2, <1>3, <1>4
=============================================================================
