------------------------------ MODULE YdcProofs ------------------------------
(***************************************************************************)
(* The calculator is right for every base, literals and bounds.            *)
(*                                                                         *)
(* The algorithms on digits come first.  What a vector of digits stands    *)
(* for is given by Horner's rule from the highest place down; carries,     *)
(* borrows, rows and halves are followed place by place with it.  On these *)
(* rest the loops of udivide and pow, which end within the turns they are  *)
(* given, and the operators of bigint.  The steps of the calculator then   *)
(* keep the types, do what Division does, and find numbers without zeros   *)
(* in front wherever the comparisons need them.                            *)
(***************************************************************************)
EXTENDS YdcProperties, Induction, TLAPS

-----------------------------------------------------------------------------
(* Arithmetic in Base *)

(* The base is a natural number above 2. *)
LEMMA BaseFacts == Base \in Nat /\ Base > 2
BY BaseAssumption

(* Quotient and remainder by Base. *)
LEMMA DivMod ==
  ASSUME NEW x \in Int
  PROVE  /\ x \div Base \in Int /\ x % Base \in 0 .. Base - 1
         /\ x = Base * (x \div Base) + (x % Base)
BY BaseAssumption, Z3

(* Multiples of Base. *)
LEMMA Multiples ==
  /\ \A x \in Nat : Base * x \in Nat
  /\ \A x \in Int : Base * x \in Int
  /\ \A x, y \in Int : Base * (x + y) = Base * x + Base * y
  /\ \A x, y \in Int : Base * (x - y) = Base * x - Base * y
  /\ \A x, y \in Int : x < y => Base * x + Base <= Base * y
  /\ \A x \in Int : x < 0 => Base * x + Base <= 0
BY BaseAssumption

(* A quotient by Base of a natural number is one. *)
LEMMA DivNat ==
  ASSUME NEW x \in Nat
  PROVE  x \div Base \in Nat
BY BaseAssumption, Z3

(* The digit at a place of a number is a digit, and 0 beyond its end. *)
LEMMA DigitFacts ==
  ASSUME NEW a \in Seq(Digit), NEW k \in Int
  PROVE  /\ DigitAt(a, k) \in Digit /\ DigitAt(a, k) \in Nat /\ DigitAt(a, k) < Base
         /\ k \in 1 .. Len(a) => DigitAt(a, k) = a[k]
         /\ k \notin 1 .. Len(a) => DigitAt(a, k) = 0
BY BaseFacts DEF DigitAt, Digit

(* f gives the values of the digits of a from each place up to place m. *)
Horner(a, m, f) ==
  /\ f \in [1 .. m + 1 -> Int] /\ f[m + 1] = 0
  /\ \A k \in 1 .. m : f[k] = DigitAt(a, k) + Base * f[k + 1]

(* The values from each place up exist. *)
LEMMA HornerExists ==
  ASSUME NEW a \in Seq(Digit), NEW m \in Nat
  PROVE  \E f \in [1 .. m + 1 -> Nat] : Horner(a, m, f)
<1> DEFINE step == [p \in Nat \X Nat |-> DigitAt(a, m + 1 - p[1]) + Base * p[2]]
<1>1. step \in [Nat \X Nat -> Nat]
  <2>1. ASSUME NEW j \in Nat, NEW x \in Nat
        PROVE  DigitAt(a, m + 1 - j) + Base * x \in Nat
    <3>1. m + 1 - j \in Int
      OBVIOUS
    <3>2. DigitAt(a, m + 1 - j) \in Nat
      BY <3>1, DigitFacts
    <3> QED
      BY <3>2, Multiples, BaseFacts
  <2> QED
    BY <2>1
<1>2. \A j \in Nat, x \in Nat : step[<<j, x>>] = DigitAt(a, m + 1 - j) + Base * x
  OBVIOUS
<1> HIDE DEF step
<1>3. PICK g \in [0 .. m -> Nat] : Follows(g, 0, m, step)
  <2>1. 0 \in Nat
    OBVIOUS
  <2> QED
    BY <1>1, <2>1, Recursion
<1> DEFINE f == [k \in 1 .. m + 1 |-> g[m + 1 - k]]
<1>4. f \in [1 .. m + 1 -> Nat] /\ f[m + 1] = 0
  BY <1>3 DEF Follows
<1>5. ASSUME NEW k \in 1 .. m PROVE f[k] = DigitAt(a, k) + Base * f[k + 1]
  <2>1. /\ m + 1 - k \in 1 .. m /\ m + 1 - (m + 1 - k) = k
        /\ f[k] = g[m + 1 - k] /\ f[k + 1] = g[(m + 1 - k) - 1]
        /\ g[(m + 1 - k) - 1] \in Nat
    OBVIOUS
  <2>2. g[m + 1 - k] = step[<<m + 1 - k, g[(m + 1 - k) - 1]>>]
    BY <1>3, <2>1 DEF Follows
  <2> HIDE DEF f
  <2> QED
    BY <1>2, <2>1, <2>2
<1> HIDE DEF f
<1>6. f \in [1 .. m + 1 -> Int]
  BY <1>4
<1>7. Horner(a, m, f)
  BY <1>4, <1>5, <1>6 DEF Horner
<1> QED
  BY <1>4, <1>7

(* The value of a is the first of these values, however far above its last *)
(* digit they begin.                                                       *)
LEMMA HornerValue ==
  ASSUME NEW a \in Seq(Digit), NEW m \in Nat, m >= Len(a), NEW f, Horner(a, m, f)
  PROVE  Value(a) = f[1]
<1> DEFINE n == Len(a)
           F(g) == g = [k \in 1 .. n + 1 |-> IF k > n THEN 0 ELSE a[k] + Base * g[k + 1]]
<1>1. n \in Nat
  OBVIOUS
<1>2. \E g : F(g)
  <2>1. PICK g \in [1 .. n + 1 -> Nat] : Horner(a, n, g)
    BY <1>1, HornerExists
  <2>2. ASSUME NEW k \in 1 .. n + 1
        PROVE  g[k] = IF k > n THEN 0 ELSE a[k] + Base * g[k + 1]
    <3>1. CASE k > n
      <4>1. k = n + 1
        BY <1>1, <3>1
      <4> QED
        BY <2>1, <3>1, <4>1 DEF Horner
    <3>2. CASE k \in 1 .. n
      <4>1. DigitAt(a, k) = a[k] /\ ~ (k > n)
        BY <1>1, <3>2, DigitFacts
      <4> QED
        BY <2>1, <3>2, <4>1 DEF Horner
    <3> QED
      BY <1>1, <3>1, <3>2
  <2>3. F(g)
    BY <2>2
  <2> QED
    BY <2>3
<1>3. PICK g : F(g) /\ Value(a) = g[1]
  BY <1>2 DEF Value
<1>4. \A k \in 1 .. n + 1 : g[k] = IF k > n THEN 0 ELSE a[k] + Base * g[k + 1]
  BY <1>3
<1> HIDE DEF n
<1> DEFINE T == {k \in 1 .. m + 1 : f[k] = IF k > n THEN 0 ELSE g[k]}
<1>5. m + 1 \in T
  BY <1>1, <1>4 DEF Horner, n
<1>6. ASSUME NEW k \in 1 .. m, k + 1 \in T PROVE k \in T
  <2>1. f[k] = DigitAt(a, k) + Base * f[k + 1]
    BY DEF Horner
  <2>2. f[k + 1] = IF k + 1 > n THEN 0 ELSE g[k + 1]
    BY <1>6
  <2>3. CASE k > n
    <3>1. DigitAt(a, k) = 0 /\ f[k + 1] = 0
      BY <1>1, <2>2, <2>3, DigitFacts DEF n
    <3> QED
      BY <2>1, <2>3, <3>1, BaseFacts
  <2>4. CASE k = n
    <3>1. DigitAt(a, k) = a[k]
      BY <1>1, <2>4, DigitFacts DEF n
    <3>2. k + 1 > n /\ k + 1 \in 1 .. n + 1
      BY <1>1, <2>4
    <3>3. f[k + 1] = 0 /\ g[k + 1] = 0
      BY <1>4, <2>2, <3>2
    <3> QED
      BY <1>1, <1>4, <2>1, <2>4, <3>1, <3>3
  <2>5. CASE k < n
    <3>1. DigitAt(a, k) = a[k] /\ f[k + 1] = g[k + 1]
      BY <1>1, <2>2, <2>5, DigitFacts DEF n
    <3> QED
      BY <1>1, <1>4, <2>1, <2>5, <3>1
  <2> QED
    BY <1>1, <2>3, <2>4, <2>5
<1>7. 1 \in T
  <2> HIDE DEF T
  <2>1. \A k \in 1 .. m + 1 : k \in T
    BY <1>5, <1>6, InductionDown
  <2> QED
    BY <2>1
<1>8. CASE n > 0
  BY <1>1, <1>3, <1>7, <1>8
<1>9. CASE n = 0
  BY <1>1, <1>3, <1>4, <1>7, <1>9
<1> QED
  BY <1>1, <1>8, <1>9

(* A vector of digits stands for a natural number. *)
LEMMA ValueType ==
  ASSUME NEW a \in Seq(Digit)
  PROVE  Value(a) \in Nat
<1>1. Len(a) \in Nat
  OBVIOUS
<1>2. PICK f \in [1 .. Len(a) + 1 -> Nat] : Horner(a, Len(a), f)
  BY <1>1, HornerExists
<1> QED
  BY <1>1, <1>2, HornerValue

(* Two vectors with the same digits, but for zeros in front, are one value. *)
LEMMA SameDigits ==
  ASSUME NEW a \in Seq(Digit), NEW b \in Seq(Digit), NEW m \in Nat,
         m >= Len(a), m >= Len(b),
         \A k \in 1 .. m : DigitAt(a, k) = DigitAt(b, k)
  PROVE  Value(a) = Value(b)
<1>1. PICK f \in [1 .. m + 1 -> Nat] : Horner(a, m, f)
  BY HornerExists
<1>2. Horner(b, m, f)
  BY <1>1 DEF Horner
<1> QED
  BY <1>1, <1>2, HornerValue

(* A function over 1..n is a vector of n digits. *)
LEMMA Vector ==
  ASSUME NEW n \in Nat, NEW s \in [1 .. n -> Digit]
  PROVE  s \in Seq(Digit) /\ Len(s) = n /\ DOMAIN s = 1 .. n
OBVIOUS

-----------------------------------------------------------------------------
(* Carries *)

(* c is what is carried when the amounts x, the lowest first, become digits. *)
Carries(x, n, c) ==
  c = [k \in 0 .. n |-> IF k = 0 THEN 0 ELSE (x[k] + c[k - 1]) \div Base]

(* The carries are at most M. *)
AtMost(x, n, M) == \A k \in 1 .. n : x[k] + M < Base * M + Base

Bounded(x, n) == \E M \in 0 .. Base - 1 : AtMost(x, n, M)

(* What is left of the amounts are digits. *)
Remain(x, n, c) == [k \in 1 .. n |-> (x[k] + c[k - 1]) % Base]

(* With the last carry in front, if there is one. *)
Carried(x, n, c) == WithCarry(Remain(x, n, c), c[n])

(* f gives the value of the amounts from each place up. *)
Sums(x, n, f) == f[n + 1] = 0 /\ \A k \in 1 .. n : f[k] = x[k] + Base * f[k + 1]

(* What is carried stays within a bound. *)
LEMMA DivBound ==
  ASSUME NEW x \in Nat, NEW M \in Nat, x < Base * M + Base
  PROVE  x \div Base \in 0 .. M
<1>1. x \div Base \in Nat /\ x % Base \in Nat /\ x = Base * (x \div Base) + (x % Base)
  <2>1. x \in Int
    OBVIOUS
  <2>2. x % Base \in 0 .. Base - 1 /\ x = Base * (x \div Base) + (x % Base)
    BY <2>1, DivMod
  <2> QED
    BY <2>2, DivNat, BaseFacts
<1>2. CASE M < x \div Base
  <2>1. Base * M + Base <= Base * (x \div Base)
    BY <1>1, <1>2, Multiples
  <2>2. Base * M \in Int /\ Base * (x \div Base) \in Int
    BY <1>1, Multiples
  <2> QED
    BY <1>1, <2>1, <2>2, BaseFacts
<1> QED
  BY <1>1, <1>2

(* The carries of any amounts exist. *)
LEMMA CarryExists ==
  ASSUME NEW n \in Nat, NEW x \in [1 .. n -> Nat]
  PROVE  \E c : Carries(x, n, c)
<1> DEFINE step == [p \in Nat \X Nat |->
                      IF p[1] \in 1 .. n THEN (x[p[1]] + p[2]) \div Base ELSE 0]
<1>1. step \in [Nat \X Nat -> Nat]
  <2>1. ASSUME NEW k \in 1 .. n, NEW i \in Nat PROVE (x[k] + i) \div Base \in Nat
    <3>1. x[k] + i \in Nat
      OBVIOUS
    <3> QED
      BY <3>1, DivNat
  <2> QED
    BY <2>1
<1>2. \A k \in 1 .. n, i \in Nat : step[<<k, i>>] = (x[k] + i) \div Base
  OBVIOUS
<1> HIDE DEF step
<1>3. PICK c \in [0 .. n -> Nat] : Follows(c, 0, n, step)
  <2>1. 0 \in Nat
    OBVIOUS
  <2> QED
    BY <1>1, <2>1, Recursion
<1>4. ASSUME NEW k \in 0 .. n
      PROVE  c[k] = IF k = 0 THEN 0 ELSE (x[k] + c[k - 1]) \div Base
  <2>1. CASE k = 0
    BY <1>3, <2>1 DEF Follows
  <2>2. CASE k \in 1 .. n
    <3>1. c[k] = step[<<k, c[k - 1]>>] /\ c[k - 1] \in Nat
      BY <1>3, <2>2 DEF Follows
    <3> QED
      BY <1>2, <2>2, <3>1
  <2> QED
    BY <2>1, <2>2
<1> QED
  BY <1>3, <1>4 DEF Carries

(* Carries are what the recursion says, and within the bound. *)
LEMMA CarryBound ==
  ASSUME NEW n \in Nat, NEW x \in [1 .. n -> Nat], NEW M \in Nat, AtMost(x, n, M),
         NEW c, Carries(x, n, c)
  PROVE  /\ c \in [0 .. n -> 0 .. M] /\ c[0] = 0
         /\ \A k \in 1 .. n : c[k] = (x[k] + c[k - 1]) \div Base
<1>1. \A k \in 0 .. n : c[k] = IF k = 0 THEN 0 ELSE (x[k] + c[k - 1]) \div Base
  BY DEF Carries
<1> DEFINE T == {k \in 0 .. n : c[k] \in 0 .. M}
<1>2. 0 \in T
  BY <1>1
<1>3. ASSUME NEW k \in 0 .. n - 1, k \in T PROVE k + 1 \in T
  <2>1. c[k + 1] = (x[k + 1] + c[k]) \div Base
    BY <1>1
  <2>2. x[k + 1] \in Nat /\ c[k] \in 0 .. M /\ Base * M \in Int
    <3>1. k + 1 \in 1 .. n /\ M \in Int
      OBVIOUS
    <3> QED
      BY <1>3, <3>1, Multiples
  <2>3. x[k + 1] + c[k] \in Nat /\ x[k + 1] + c[k] < Base * M + Base
    <3>1. x[k + 1] + M < Base * M + Base
      BY DEF AtMost
    <3> QED
      BY <2>2, <3>1, BaseFacts
  <2> QED
    BY <2>1, <2>3, DivBound
<1>4. \A k \in 0 .. n : k \in T
  <2> HIDE DEF T
  <2> QED
    BY <1>2, <1>3, InductionTo
<1>5. \A k \in 0 .. n : c[k] \in 0 .. M
  BY <1>4
<1>6. c = [k \in 0 .. n |-> c[k]]
  BY DEF Carries
<1>7. c \in [0 .. n -> 0 .. M]
  BY <1>5, <1>6
<1>8. c[0] = 0
  BY <1>1
<1>9. ASSUME NEW k \in 1 .. n PROVE c[k] = (x[k] + c[k - 1]) \div Base
  BY <1>1
<1> QED
  BY <1>7, <1>8, <1>9

(* The digits of the amounts, with the last carry, have their value. *)
LEMMA CarriedDigits ==
  ASSUME NEW n \in Nat, NEW x \in [1 .. n -> Nat],
         Bounded(x, n),
         NEW c, Carries(x, n, c),
         NEW f \in [1 .. n + 1 -> Nat], Sums(x, n, f)
  PROVE  /\ Carried(x, n, c) \in Seq(Digit)
         /\ Len(Carried(x, n, c)) >= n /\ Len(Carried(x, n, c)) <= n + 1
         /\ Value(Carried(x, n, c)) = f[1]
         /\ (n > 0 /\ x[n] > 0) \/ Len(Carried(x, n, c)) > n =>
              Carried(x, n, c)[Len(Carried(x, n, c))] # 0
<1> DEFINE r == Remain(x, n, c)
           s == Carried(x, n, c)
<1>a. PICK M \in 0 .. Base - 1 : AtMost(x, n, M)
  BY DEF Bounded
<1>b. M \in Nat /\ M < Base
  BY BaseFacts
<1>c. /\ c \in [0 .. n -> 0 .. M] /\ c[0] = 0
      /\ \A k \in 1 .. n : c[k] = (x[k] + c[k - 1]) \div Base
  BY <1>a, <1>b, CarryBound, ZenonT(60)
<1>0. ASSUME NEW k \in 0 .. n PROVE c[k] \in Nat /\ c[k] < Base
  <2>1. c[k] \in 0 .. M
    BY <1>c
  <2> QED
    BY <1>b, <2>1, BaseFacts
<1>1. ASSUME NEW k \in 1 .. n
      PROVE  r[k] \in Digit /\ x[k] + c[k - 1] = Base * c[k] + r[k]
  <2>1. x[k] \in Nat /\ c[k - 1] \in Nat
    BY <1>0
  <2>2. x[k] + c[k - 1] \in Int
    BY <2>1
  <2>3. r[k] = (x[k] + c[k - 1]) % Base
    BY DEF Remain
  <2>4. c[k] = (x[k] + c[k - 1]) \div Base
    BY <1>c
  <2> QED
    BY <2>2, <2>3, <2>4, DivMod DEF Digit
<1>2. r \in [1 .. n -> Digit]
  BY <1>1 DEF Remain
<1>3. r \in Seq(Digit) /\ Len(r) = n
  BY <1>2, Vector
<1>4. c[n] \in Digit /\ c[n] \in Nat /\ c[0] = 0
  <2>1. c[n] \in Nat /\ c[n] < Base
    BY <1>0
  <2>2. c[0] = 0
    BY <1>c
  <2> QED
    BY <2>1, <2>2, BaseFacts DEF Digit
<1>5. /\ s \in Seq(Digit) /\ Len(s) = IF c[n] > 0 THEN n + 1 ELSE n
      /\ \A k \in 1 .. n : s[k] = r[k]
      /\ c[n] > 0 => s[n + 1] = c[n]
  BY <1>3, <1>4 DEF WithCarry, Carried
<1> HIDE DEF r
<1> DEFINE g == [k \in 1 .. (n + 1) + 1 |-> IF k = (n + 1) + 1 THEN 0 ELSE f[k] + c[k - 1]]
<1>6. Horner(s, n + 1, g)
  <2>1. g \in [1 .. (n + 1) + 1 -> Int] /\ g[(n + 1) + 1] = 0
    <3>1. ASSUME NEW k \in 1 .. n + 1 PROVE f[k] + c[k - 1] \in Int
      <4>1. f[k] \in Nat /\ c[k - 1] \in Nat
        BY <1>0
      <4> QED
        BY <4>1
    <3> QED
      BY <3>1
  <2>2. ASSUME NEW k \in 1 .. n + 1
        PROVE  g[k] = DigitAt(s, k) + Base * g[k + 1]
    <3>1. CASE k = n + 1
      <4>1. DigitAt(s, k) = c[n]
        <5>1. CASE c[n] > 0
          <6>1. k \in Int /\ k \in 1 .. Len(s)
            BY <1>5, <3>1, <5>1
          <6> QED
            BY <1>5, <3>1, <5>1, <6>1, DigitFacts
        <5>2. CASE c[n] = 0
          <6>1. k \in Int /\ k \notin 1 .. Len(s)
            BY <1>5, <3>1, <5>2
          <6> QED
            BY <1>5, <5>2, <6>1, DigitFacts
        <5> QED
          BY <1>4, <5>1, <5>2
      <4>2. g[k] = c[n] /\ g[k + 1] = 0
        BY <1>4, <3>1 DEF Sums
      <4> QED
        BY <1>4, <4>1, <4>2, BaseFacts
    <3>2. CASE k \in 1 .. n
      <4>1. DigitAt(s, k) = r[k]
        <5>1. k \in Int /\ k \in 1 .. Len(s)
          BY <1>4, <1>5, <3>2
        <5> QED
          BY <1>5, <3>2, <5>1, DigitFacts
      <4>2. g[k] = f[k] + c[k - 1] /\ g[k + 1] = f[k + 1] + c[k]
        BY <3>2
      <4>3. x[k] + c[k - 1] = Base * c[k] + r[k]
        BY <1>1, <3>2
      <4>4. f[k] = x[k] + Base * f[k + 1]
        BY <3>2 DEF Sums
      <4>5. f[k + 1] \in Int /\ c[k] \in Int /\ c[k - 1] \in Int /\ x[k] \in Int /\ r[k] \in Int
        BY <1>0, <1>2, <3>2 DEF Digit
      <4>a. /\ Base * (f[k + 1] + c[k]) = Base * f[k + 1] + Base * c[k]
            /\ Base * f[k + 1] \in Int /\ Base * c[k] \in Int
        BY <4>5, Multiples
      <4> HIDE DEF g
      <4>6. Base * g[k + 1] = Base * f[k + 1] + Base * c[k]
        BY <4>2, <4>a
      <4>7. g[k] = x[k] + Base * f[k + 1] + c[k - 1]
        BY <4>2, <4>4
      <4> DEFINE p == Base * f[k + 1]
                 q == Base * c[k]
      <4>8. p \in Int /\ q \in Int /\ x[k] + c[k - 1] = q + r[k]
        BY <4>3, <4>a
      <4>b. Base * g[k + 1] = p + q /\ g[k] = x[k] + p + c[k - 1]
        BY <4>6, <4>7
      <4> HIDE DEF p, q
      <4>9. x[k] + p + c[k - 1] = r[k] + (p + q)
        <5> DEFINE u == x[k]
                   v == c[k - 1]
                   w == r[k]
        <5>1. u \in Int /\ v \in Int /\ w \in Int /\ u + v = q + w
          BY <4>5, <4>8
        <5> HIDE DEF u, v, w
        <5>2. u + p + v = w + (p + q)
          BY <4>8, <5>1
        <5> QED
          BY <5>2 DEF u, v, w
      <4> QED
        BY <4>1, <4>b, <4>9
    <3> QED
      BY <3>1, <3>2
  <2> HIDE DEF g
  <2> QED
    BY <2>1, <2>2 DEF Horner
<1>7. Value(s) = g[1]
  <2>1. n + 1 \in Nat /\ n + 1 >= Len(s)
    BY <1>5
  <2> HIDE DEF g
  <2> QED
    BY <1>5, <1>6, <2>1, HornerValue
<1>8. g[1] = f[1]
  BY <1>4
<1>9. ASSUME n > 0, x[n] > 0 PROVE s[Len(s)] # 0
  <2>1. CASE c[n] > 0
    BY <1>5, <2>1
  <2>2. CASE c[n] = 0
    <3>1. x[n] + c[n - 1] = Base * 0 + r[n] /\ c[n - 1] \in Nat /\ x[n] \in Nat
      BY <1>0, <1>1, <1>9, <2>2
    <3>2. r[n] # 0 /\ Len(s) = n /\ s[n] = r[n]
      BY <1>5, <1>9, <2>2, <3>1, BaseFacts
    <3> QED
      BY <3>2
  <2> QED
    BY <1>4, <2>1, <2>2
<1>10. ASSUME Len(s) > n PROVE s[Len(s)] # 0
  BY <1>4, <1>5, <1>10
<1> QED
  BY <1>4, <1>5, <1>7, <1>8, <1>9, <1>10 DEF s

-----------------------------------------------------------------------------
(* operator+ *)

Amounts(a, b) == [k \in 1 .. Longer(a, b) |-> DigitAt(a, k) + DigitAt(b, k)]

(* Longer is the greater of two lengths, and one of them. *)
LEMMA LongerFacts ==
  ASSUME NEW a \in Seq(Digit), NEW b \in Seq(Digit)
  PROVE  /\ Longer(a, b) \in Nat /\ Longer(a, b) >= Len(a) /\ Longer(a, b) >= Len(b)
         /\ Longer(a, b) \in {Len(a), Len(b)}
BY DEF Longer

(* The sums of two digits are natural numbers whose carries are bounded. *)
LEMMA AmountsFacts ==
  ASSUME NEW a \in Seq(Digit), NEW b \in Seq(Digit)
  PROVE  /\ Amounts(a, b) \in [1 .. Longer(a, b) -> Nat]
         /\ Bounded(Amounts(a, b), Longer(a, b))
<1> DEFINE n == Longer(a, b)
<1>1. n \in Nat
  BY LongerFacts
<1> HIDE DEF n
<1>2. ASSUME NEW k \in 1 .. n
      PROVE  /\ DigitAt(a, k) + DigitAt(b, k) \in Nat
             /\ DigitAt(a, k) + DigitAt(b, k) + 1 < Base * 1 + Base
  <2>1. k \in Int
    BY <1>1
  <2>2. /\ DigitAt(a, k) \in Nat /\ DigitAt(a, k) < Base
        /\ DigitAt(b, k) \in Nat /\ DigitAt(b, k) < Base
    BY <2>1, DigitFacts
  <2> QED
    BY <2>2, BaseFacts
<1>3. /\ Amounts(a, b) \in [1 .. n -> Nat]
      /\ \A k \in 1 .. n : Amounts(a, b)[k] = DigitAt(a, k) + DigitAt(b, k)
  BY <1>2 DEF Amounts, n
<1>4. AtMost(Amounts(a, b), n, 1)
  BY <1>2, <1>3 DEF AtMost
<1>5. 1 \in 0 .. Base - 1
  BY BaseFacts
<1> QED
  BY <1>3, <1>4, <1>5 DEF Bounded, n

(* The loop of operator+ carries the sums of the digits. *)
LEMMA PlusIs ==
  ASSUME NEW a \in Seq(Digit), NEW b \in Seq(Digit)
  PROVE  \E c : /\ Carries(Amounts(a, b), Longer(a, b), c)
                /\ Plus(a, b) = Carried(Amounts(a, b), Longer(a, b), c)
<1> DEFINE n == Longer(a, b)
           x == Amounts(a, b)
           F(g) == g = [k \in 0 .. n |-> IF k = 0 THEN 0
                          ELSE (DigitAt(a, k) + DigitAt(b, k) + g[k - 1]) \div Base]
<1>1. n \in Nat /\ x \in [1 .. n -> Nat]
  BY LongerFacts, AmountsFacts
<1>2. \A k \in 1 .. n : x[k] = DigitAt(a, k) + DigitAt(b, k)
  BY DEF Amounts
<1>3. \A g : F(g) <=> Carries(x, n, g)
  BY <1>2 DEF Carries
<1>4. \E g : F(g)
  BY <1>1, <1>3, CarryExists
<1>5. PICK g : /\ F(g)
               /\ Plus(a, b) = WithCarry([k \in 1 .. n |->
                    (DigitAt(a, k) + DigitAt(b, k) + g[k - 1]) % Base], g[n])
  BY <1>4 DEF Plus
<1>6. [k \in 1 .. n |-> (DigitAt(a, k) + DigitAt(b, k) + g[k - 1]) % Base] = Remain(x, n, g)
  BY <1>2 DEF Remain
<1> QED
  BY <1>3, <1>5, <1>6 DEF Carried

(* The sum is right, whatever digits the operands have. *)
LEMMA PlusRight ==
  ASSUME NEW a \in Seq(Digit), NEW b \in Seq(Digit)
  PROVE  /\ Plus(a, b) \in Seq(Digit)
         /\ Value(Plus(a, b)) = Value(a) + Value(b)
         /\ Len(Plus(a, b)) >= Longer(a, b)
         /\ \/ Longer(a, b) > 0 /\ Amounts(a, b)[Longer(a, b)] > 0
            \/ Len(Plus(a, b)) > Longer(a, b)
            => Plus(a, b)[Len(Plus(a, b))] # 0
<1> DEFINE n == Longer(a, b)
           x == Amounts(a, b)
<1>1. n \in Nat /\ n >= Len(a) /\ n >= Len(b) /\ x \in [1 .. n -> Nat] /\ Bounded(x, n)
  BY LongerFacts, AmountsFacts
<1>2. PICK c : Carries(x, n, c) /\ Plus(a, b) = Carried(x, n, c)
  BY PlusIs
<1>3. PICK fa \in [1 .. n + 1 -> Nat] : Horner(a, n, fa)
  BY <1>1, HornerExists
<1>4. PICK fb \in [1 .. n + 1 -> Nat] : Horner(b, n, fb)
  BY <1>1, HornerExists
<1>5. Value(a) = fa[1] /\ Value(b) = fb[1]
  BY <1>1, <1>3, <1>4, HornerValue
<1>6. \A k \in 1 .. n : x[k] = DigitAt(a, k) + DigitAt(b, k)
  BY DEF Amounts
<1> HIDE DEF n, x
<1> DEFINE f == [k \in 1 .. n + 1 |-> fa[k] + fb[k]]
<1>7. f \in [1 .. n + 1 -> Nat]
  OBVIOUS
<1>8. Sums(x, n, f)
  <2>1. f[n + 1] = 0
    BY <1>1, <1>3, <1>4 DEF Horner
  <2>2. ASSUME NEW k \in 1 .. n PROVE f[k] = x[k] + Base * f[k + 1]
    <3>1. f[k] = fa[k] + fb[k] /\ f[k + 1] = fa[k + 1] + fb[k + 1]
      BY <1>1
    <3>2. /\ fa[k] = DigitAt(a, k) + Base * fa[k + 1]
          /\ fb[k] = DigitAt(b, k) + Base * fb[k + 1]
      BY <1>3, <1>4 DEF Horner
    <3> DEFINE u == fa[k + 1]
               v == fb[k + 1]
               p == DigitAt(a, k)
               q == DigitAt(b, k)
    <3>3. u \in Int /\ v \in Int /\ p \in Int /\ q \in Int
      <4>1. k \in Int /\ u \in Nat /\ v \in Nat
        BY <1>1
      <4>2. p \in Nat /\ q \in Nat
        BY <4>1, DigitFacts
      <4> HIDE DEF u, v, p, q
      <4> QED
        BY <4>1, <4>2
    <3>4. f[k] = (p + Base * u) + (q + Base * v) /\ f[k + 1] = u + v /\ x[k] = p + q
      BY <1>6, <3>1, <3>2
    <3> HIDE DEF u, v, p, q, f
    <3>5. /\ Base * (u + v) = Base * u + Base * v
          /\ Base * u \in Int /\ Base * v \in Int
      BY <3>3, Multiples
    <3> DEFINE pu == Base * u
               pv == Base * v
    <3>6. f[k] = (p + pu) + (q + pv) /\ Base * f[k + 1] = pu + pv /\ pu \in Int /\ pv \in Int
      BY <3>4, <3>5
    <3> HIDE DEF pu, pv
    <3>7. (p + pu) + (q + pv) = (p + q) + (pu + pv)
      BY <3>3, <3>6
    <3> QED
      BY <3>4, <3>6, <3>7
  <2> HIDE DEF f
  <2> QED
    BY <2>1, <2>2 DEF Sums
<1>9. f[1] = Value(a) + Value(b)
  BY <1>1, <1>5
<1> HIDE DEF f
<1>11. /\ Plus(a, b) \in Seq(Digit) /\ Len(Plus(a, b)) >= n
       /\ Value(Plus(a, b)) = f[1]
       /\ (n > 0 /\ x[n] > 0) \/ Len(Plus(a, b)) > n => Plus(a, b)[Len(Plus(a, b))] # 0
  BY <1>1, <1>2, <1>7, <1>8, CarriedDigits
<1> QED
  BY <1>1, <1>9, <1>11 DEF n, x

-----------------------------------------------------------------------------
(* Zeros in front *)

(* Trim keeps the digits up to the last that is not 0, or one. *)
LEMMA TrimIs ==
  ASSUME NEW a \in Seq(Digit), a # << >>
  PROVE  \E t \in 1 .. Len(a) :
           /\ Trim(a) = SubSeq(a, 1, t)
           /\ t = 1 \/ a[t] # 0
           /\ \A k \in t + 1 .. Len(a) : a[k] = 0
<1> DEFINE S == {k \in DOMAIN a : a[k] # 0}
<1>1. Len(a) \in Nat /\ Len(a) >= 1 /\ DOMAIN a = 1 .. Len(a)
  OBVIOUS
<1>2. CASE S = {}
  <2>1. Trim(a) = SubSeq(a, 1, 1)
    BY <1>2 DEF Trim
  <2> QED
    BY <1>1, <1>2, <2>1
<1>3. CASE S # {}
  <2>1. S \subseteq Nat /\ \A s \in S : s <= Len(a)
    BY <1>1
  <2>2. \E x \in S : \A y \in S : x >= y
    <3> HIDE DEF S
    <3> QED
      BY <1>1, <1>3, <2>1, GreatestNumber
  <2>3. Max(S) \in S /\ \A y \in S : Max(S) >= y
    BY <2>2 DEF Max
  <2>4. Trim(a) = SubSeq(a, 1, Max(S))
    BY <1>3 DEF Trim
  <2>5. /\ Max(S) \in 1 .. Len(a) /\ a[Max(S)] # 0
        /\ \A k \in Max(S) + 1 .. Len(a) : a[k] = 0
    <3>1. Max(S) \in 1 .. Len(a) /\ a[Max(S)] # 0
      BY <1>1, <2>3
    <3>2. ASSUME NEW k \in Max(S) + 1 .. Len(a), a[k] # 0 PROVE FALSE
      <4>1. k \in S
        BY <1>1, <3>1, <3>2
      <4>2. Max(S) >= k
        BY <2>3, <4>1
      <4> QED
        BY <3>1, <4>2
    <3> QED
      BY <3>1, <3>2
  <2> QED
    BY <2>4, <2>5
<1> QED
  BY <1>2, <1>3

(* The first digits of a vector. *)
LEMMA StartIs ==
  ASSUME NEW a \in Seq(Digit), NEW t \in 1 .. Len(a)
  PROVE  /\ SubSeq(a, 1, t) \in Seq(Digit) /\ Len(SubSeq(a, 1, t)) = t
         /\ \A k \in 1 .. t : SubSeq(a, 1, t)[k] = a[k]
OBVIOUS

(* A vector has no zeros in front if it has one digit, or the last is none. *)
LEMMA TrimmedIs ==
  ASSUME NEW a \in Seq(Digit), a # << >>
  PROVE  Trimmed(a) <=> Len(a) = 1 \/ a[Len(a)] # 0
<1>1. PICK t \in 1 .. Len(a) :
        /\ Trim(a) = SubSeq(a, 1, t)
        /\ t = 1 \/ a[t] # 0
        /\ \A k \in t + 1 .. Len(a) : a[k] = 0
  BY TrimIs
<1>2. Len(a) \in Nat /\ Len(a) >= 1 /\ Len(Trim(a)) = t
  BY <1>1, StartIs
<1>3. ASSUME Trim(a) = a PROVE Len(a) = 1 \/ a[Len(a)] # 0
  BY <1>1, <1>2, <1>3
<1>4. ASSUME Len(a) = 1 \/ a[Len(a)] # 0 PROVE Trim(a) = a
  <2>1. t = Len(a)
    BY <1>1, <1>2, <1>4
  <2> QED
    BY <1>1, <2>1
<1> QED
  BY <1>3, <1>4 DEF Trimmed

(* Trim keeps the value and leaves no zeros in front. *)
LEMMA TrimRight ==
  ASSUME NEW a \in Seq(Digit), a # << >>
  PROVE  /\ Trim(a) \in Seq(Digit) /\ Trim(a) # << >>
         /\ Value(Trim(a)) = Value(a) /\ Trimmed(Trim(a))
<1>1. PICK t \in 1 .. Len(a) :
        /\ Trim(a) = SubSeq(a, 1, t)
        /\ t = 1 \/ a[t] # 0
        /\ \A k \in t + 1 .. Len(a) : a[k] = 0
  BY TrimIs
<1> DEFINE s == Trim(a)
<1>2. s \in Seq(Digit) /\ Len(s) = t /\ \A k \in 1 .. t : s[k] = a[k]
  <2>1. s = SubSeq(a, 1, t)
    BY <1>1
  <2> QED
    BY <2>1, StartIs
<1>3. Len(a) \in Nat /\ t \in Nat /\ t >= 1 /\ t <= Len(a)
  OBVIOUS
<1> HIDE DEF s
<1>4. s # << >>
  BY <1>2, <1>3
<1>5. ASSUME NEW k \in 1 .. Len(a) PROVE DigitAt(s, k) = DigitAt(a, k)
  <2>1. k \in Int /\ DigitAt(a, k) = a[k]
    BY DigitFacts
  <2>2. CASE k \in 1 .. t
    BY <1>2, <2>1, <2>2, DigitFacts
  <2>3. CASE k \in t + 1 .. Len(a)
    <3>1. k \notin 1 .. Len(s)
      BY <1>2, <1>3, <2>3
    <3> QED
      BY <1>1, <1>2, <2>1, <2>3, <3>1, DigitFacts
  <2> QED
    BY <1>3, <2>2, <2>3
<1>6. Value(s) = Value(a)
  BY <1>2, <1>3, <1>5, SameDigits
<1>7. Trimmed(s)
  <2>1. Len(s) = 1 \/ s[Len(s)] # 0
    BY <1>1, <1>2, <1>3
  <2> QED
    BY <1>2, <1>4, <2>1, TrimmedIs
<1> QED
  BY <1>2, <1>4, <1>6, <1>7 DEF s

-----------------------------------------------------------------------------
(* operator< *)

(* A vector whose value is greater from some place up is greater: the digits
   below cannot make up for it. *)
LEMMA HigherWins ==
  ASSUME NEW a \in Seq(Digit), NEW b \in Seq(Digit), NEW m \in Nat,
         NEW fa \in [1 .. m + 1 -> Nat], Horner(a, m, fa),
         NEW fb \in [1 .. m + 1 -> Nat], Horner(b, m, fb),
         NEW j \in 1 .. m + 1, fa[j] < fb[j]
  PROVE  fa[1] < fb[1]
<1> DEFINE T == {k \in 1 .. j : fa[k] < fb[k]}
<1>1. j - 1 \in Nat /\ (j - 1) + 1 = j
  OBVIOUS
<1>2. (j - 1) + 1 \in T
  BY <1>1
<1>3. ASSUME NEW k \in 1 .. j - 1, k + 1 \in T PROVE k \in T
  <2>1. k \in 1 .. m /\ k \in Int
    OBVIOUS
  <2>2. /\ fa[k] = DigitAt(a, k) + Base * fa[k + 1]
        /\ fb[k] = DigitAt(b, k) + Base * fb[k + 1]
    BY <2>1 DEF Horner
  <2>3. fa[k + 1] < fb[k + 1] /\ fa[k + 1] \in Nat /\ fb[k + 1] \in Nat
    BY <1>3, <2>1
  <2>4. DigitAt(a, k) \in Nat /\ DigitAt(a, k) < Base /\ DigitAt(b, k) \in Nat
    BY <2>1, DigitFacts
  <2> DEFINE u == Base * fa[k + 1]
             v == Base * fb[k + 1]
             p == DigitAt(a, k)
             q == DigitAt(b, k)
  <2>5. u \in Int /\ v \in Int /\ u + Base <= v
    <3>1. fa[k + 1] \in Int /\ fb[k + 1] \in Int
      BY <2>3
    <3> QED
      BY <2>3, <3>1, Multiples
  <2>6. fa[k] = p + u /\ fb[k] = q + v /\ p \in Nat /\ p < Base /\ q \in Nat
    BY <2>2, <2>4
  <2> HIDE DEF u, v, p, q
  <2>7. p + u < q + v
    BY <2>5, <2>6, BaseFacts
  <2>8. fa[k] < fb[k] /\ k \in 1 .. j
    BY <2>6, <2>7
  <2> QED
    BY <2>8
<1>4. \A k \in 1 .. (j - 1) + 1 : k \in T
  <2> HIDE DEF T
  <2> QED
    BY <1>1, <1>2, <1>3, InductionDown
<1> QED
  BY <1>1, <1>4

(* Vectors that agree from a place up have the same value from there. *)
LEMMA SameEnd ==
  ASSUME NEW a \in Seq(Digit), NEW b \in Seq(Digit), NEW m \in Nat,
         NEW fa \in [1 .. m + 1 -> Nat], Horner(a, m, fa),
         NEW fb \in [1 .. m + 1 -> Nat], Horner(b, m, fb),
         NEW j \in 1 .. m + 1, \A k \in j .. m : DigitAt(a, k) = DigitAt(b, k)
  PROVE  fa[j] = fb[j]
<1> DEFINE T == {k \in 1 .. m + 1 : k >= j => fa[k] = fb[k]}
<1>1. m + 1 \in T
  BY DEF Horner
<1>2. ASSUME NEW k \in 1 .. m, k + 1 \in T PROVE k \in T
  BY <1>2 DEF Horner
<1>3. \A k \in 1 .. m + 1 : k \in T
  <2> HIDE DEF T
  <2> QED
    BY <1>1, <1>2, InductionDown
<1> QED
  BY <1>3

(* Of two vectors that differ one is less. *)
LEMMA LessTotal ==
  ASSUME NEW a \in Seq(Digit), NEW b \in Seq(Digit)
  PROVE  Less(a, b) \/ a = b \/ Less(b, a)
<1>1. Len(a) \in Nat /\ Len(b) \in Nat /\ DOMAIN a = 1 .. Len(a) /\ DOMAIN b = 1 .. Len(b)
  OBVIOUS
<1>2. CASE Len(a) # Len(b)
  <2> DEFINE i == Len(a)
             j == Len(b)
  <2>1. i \in Nat /\ j \in Nat /\ i # j
    BY <1>1, <1>2
  <2> HIDE DEF i, j
  <2>2. i < j \/ j < i
    BY <2>1
  <2> USE DEF i, j
  <2> QED
    BY <2>2 DEF Less
<1>3. CASE Len(a) = Len(b)
  <2> DEFINE S == {k \in 1 .. Len(a) : a[k] # b[k]}
  <2>1. CASE S = {}
    BY <1>1, <1>3, <2>1
  <2>2. CASE S # {}
    <3>1. PICK x \in S : \A y \in S : x >= y
      <4>1. S \subseteq Nat /\ \A s \in S : s <= Len(a)
        OBVIOUS
      <4> HIDE DEF S
      <4> QED
        BY <1>1, <2>2, <4>1, GreatestNumber
    <3>2. x \in 1 .. Len(a) /\ a[x] # b[x] /\ \A j \in x + 1 .. Len(a) : a[j] = b[j]
      BY <1>1, <3>1
    <3>3. a[x] \in Nat /\ b[x] \in Nat
      BY <1>1, <1>3, <3>2, BaseFacts DEF Digit
    <3>4. CASE a[x] < b[x]
      BY <1>1, <1>3, <3>2, <3>4 DEF Less
    <3>5. CASE b[x] < a[x]
      BY <1>1, <1>3, <3>2, <3>5 DEF Less
    <3> QED
      BY <3>2, <3>3, <3>4, <3>5
  <2> QED
    BY <2>1, <2>2
<1> QED
  BY <1>2, <1>3

(* What operator< finds less is less, if the other has no zeros in front. *)
LEMMA LessIsLess ==
  ASSUME NEW a \in Seq(Digit), NEW b \in Seq(Digit), a # << >>, b # << >>,
         Trimmed(b), Less(a, b)
  PROVE  Value(a) < Value(b)
<1> DEFINE m == Len(b)
<1>1. /\ m \in Nat /\ m >= 1 /\ Len(a) \in Nat /\ Len(a) >= 1
      /\ m >= Len(a) /\ m >= Len(b)
  BY DEF Less
<1> HIDE DEF m
<1>2. PICK fa \in [1 .. m + 1 -> Nat] : Horner(a, m, fa)
  BY <1>1, HornerExists
<1>3. PICK fb \in [1 .. m + 1 -> Nat] : Horner(b, m, fb)
  BY <1>1, HornerExists
<1>4. Value(a) = fa[1] /\ Value(b) = fb[1]
  BY <1>1, <1>2, <1>3, HornerValue
<1>5. ASSUME NEW j \in 1 .. m + 1, fa[j] < fb[j] PROVE Value(a) < Value(b)
  BY <1>1, <1>2, <1>3, <1>4, <1>5, HigherWins
<1>8. ASSUME NEW j \in 1 .. m + 1, \A k \in j .. m : DigitAt(a, k) = DigitAt(b, k)
      PROVE  fa[j] = fb[j]
  <2>1. m \in Nat
    BY <1>1
  <2> QED
    BY <1>2, <1>3, <1>8, <2>1, SameEnd, ZenonT(60)
<1>6. CASE Len(a) < m
  <2>1. m \in Int /\ m \in 1 .. Len(b) /\ m \notin 1 .. Len(a) /\ m \in 1 .. m
    BY <1>1, <1>6 DEF m
  <2>2. DigitAt(a, m) = 0 /\ DigitAt(b, m) = b[m] /\ DigitAt(b, m) \in Nat
    BY <2>1, DigitFacts
  <2>3. b[m] # 0
    BY <1>1, <1>6, TrimmedIs DEF m
  <2>4. fa[m] = DigitAt(a, m) + Base * 0 /\ fb[m] = DigitAt(b, m) + Base * 0
    BY <1>2, <1>3, <2>1 DEF Horner
  <2>5. fa[m] < fb[m] /\ m \in 1 .. m + 1
    BY <1>1, <2>2, <2>3, <2>4, BaseFacts
  <2> QED
    BY <1>5, <2>5
<1>7. CASE Len(a) = m
  <2>1. PICK k \in 1 .. m : a[k] < b[k] /\ \A j \in k + 1 .. m : a[j] = b[j]
    BY <1>1, <1>7 DEF Less, m
  <2>2. \A j \in 1 .. m : DigitAt(a, j) = a[j] /\ DigitAt(b, j) = b[j] /\ a[j] \in Nat /\ b[j] \in Nat
    <3> TAKE j \in 1 .. m
    <3>1. j \in Int /\ j \in 1 .. Len(a) /\ j \in 1 .. Len(b)
      BY <1>1, <1>7 DEF m
    <3> QED
      BY <3>1, DigitFacts
  <2>3. fa[k + 1] = fb[k + 1]
    <3>1. k + 1 \in 1 .. m + 1
      BY <1>1
    <3>2. \A j \in k + 1 .. m : DigitAt(a, j) = DigitAt(b, j)
      <4> TAKE j \in k + 1 .. m
      <4>1. j \in 1 .. m
        BY <1>1
      <4> QED
        BY <2>1, <2>2, <4>1
    <3> QED
      BY <1>8, <3>1, <3>2
  <2>4. /\ fa[k] = a[k] + Base * fa[k + 1]
        /\ fb[k] = b[k] + Base * fa[k + 1]
    BY <1>2, <1>3, <2>2, <2>3 DEF Horner
  <2> DEFINE u == Base * fa[k + 1]
             p == a[k]
             q == b[k]
  <2>5. u \in Int /\ p \in Nat /\ q \in Nat /\ p < q
    <3>1. fa[k + 1] \in Int
      BY <1>1, <1>2
    <3> QED
      BY <2>1, <2>2, <3>1, Multiples
  <2>6. fa[k] = p + u /\ fb[k] = q + u
    BY <2>4
  <2> HIDE DEF u, p, q
  <2>7. p + u < q + u
    BY <2>5
  <2>8. fa[k] < fb[k] /\ k \in 1 .. m + 1
    BY <1>1, <2>6, <2>7
  <2> QED
    BY <1>5, <2>8
<1> QED
  BY <1>1, <1>6, <1>7

(* Without zeros in front the order of the vectors is that of the values. *)
LEMMA LessRight ==
  ASSUME NEW a \in Seq(Digit), NEW b \in Seq(Digit), a # << >>, b # << >>,
         Trimmed(a), Trimmed(b)
  PROVE  Less(a, b) <=> Value(a) < Value(b)
<1>1. Value(a) \in Nat /\ Value(b) \in Nat
  BY ValueType
<1>2. Less(a, b) => Value(a) < Value(b)
  BY LessIsLess
<1>3. Less(b, a) => Value(b) < Value(a)
  BY LessIsLess
<1> QED
  BY <1>1, <1>2, <1>3, LessTotal

-----------------------------------------------------------------------------
(* Small numbers *)

(* The constants 0, 1 and 2. *)
LEMMA SmallValues ==
  /\ Zero \in Seq(Digit) /\ One \in Seq(Digit) /\ Two \in Seq(Digit)
  /\ Trimmed(Zero) /\ Trimmed(One) /\ Trimmed(Two)
  /\ Value(Zero) = 0 /\ Value(One) = 1 /\ Value(Two) = 2
<1>1. ASSUME NEW d \in Digit
      PROVE  << d >> \in Seq(Digit) /\ Trimmed(<< d >>) /\ Value(<< d >>) = d
  <2>1. << d >> \in Seq(Digit) /\ << d >> # << >> /\ Len(<< d >>) = 1 /\ << d >>[1] = d
    OBVIOUS
  <2>2. Trimmed(<< d >>)
    BY <2>1, TrimmedIs
  <2> DEFINE a == << d >>
  <2>3. PICK f \in [1 .. 1 + 1 -> Nat] : Horner(a, 1, f)
    BY <2>1, HornerExists
  <2>4. Value(a) = f[1]
    BY <2>1, <2>3, HornerValue
  <2>5. f[1] = DigitAt(a, 1) + Base * 0
    BY <2>3 DEF Horner
  <2>6. DigitAt(a, 1) = d
    <3>1. a \in Seq(Digit) /\ 1 \in Int /\ 1 \in 1 .. Len(a) /\ a[1] = d
      BY <2>1
    <3> HIDE DEF a
    <3> QED
      BY <3>1, DigitFacts
  <2> QED
    BY <2>1, <2>2, <2>4, <2>5, <2>6, BaseFacts DEF Digit
<1>2. 0 \in Digit /\ 1 \in Digit /\ 2 \in Digit
  BY BaseFacts DEF Digit
<1> QED
  BY <1>1, <1>2 DEF Zero, One, Two

(* No digits stand for 0. *)
LEMMA EmptyValue == << >> \in Seq(Digit) /\ Value(<< >>) = 0
<1> DEFINE a == << >>
<1>1. a \in Seq(Digit) /\ Len(a) = 0 /\ 0 \in Nat /\ 0 >= Len(a)
  OBVIOUS
<1> HIDE DEF a
<1>2. PICK f \in [1 .. 0 + 1 -> Nat] : Horner(a, 0, f)
  BY <1>1, HornerExists
<1>3. f[1] = 0
  BY <1>2 DEF Horner
<1>4. Value(a) = f[1]
  BY <1>1, <1>2, HornerValue
<1> QED
  BY <1>1, <1>3, <1>4 DEF a

(* Zeros stand for 0: the divisor of an endless loop. *)
LEMMA AllZero ==
  ASSUME NEW a \in Seq(Digit), \A k \in DOMAIN a : a[k] = 0
  PROVE  Value(a) = 0
<1>1. DOMAIN a = 1 .. Len(a) /\ Len(a) \in Nat
  OBVIOUS
<1>2. \A k \in 1 .. Len(a) : DigitAt(a, k) = DigitAt(<< >>, k)
  <2> TAKE k \in 1 .. Len(a)
  <2>1. k \in Int /\ k \notin 1 .. Len(<< >>)
    BY <1>1
  <2>2. DigitAt(<< >>, k) = 0
    BY <2>1, EmptyValue, DigitFacts
  <2>3. DigitAt(a, k) = 0
    BY <1>1, <2>1, DigitFacts
  <2> QED
    BY <2>2, <2>3
<1> DEFINE b == << >>
<1>3. b \in Seq(Digit) /\ Len(a) >= Len(b) /\ Len(a) >= Len(a) /\ Value(b) = 0
  BY <1>1, EmptyValue
<1>4. \A k \in 1 .. Len(a) : DigitAt(a, k) = DigitAt(b, k)
  BY <1>2
<1> HIDE DEF b
<1> QED
  BY <1>1, <1>3, <1>4, SameDigits

(* Without zeros in front only Zero is 0. *)
LEMMA OnlyZero ==
  ASSUME NEW a \in Seq(Digit), a # << >>, Trimmed(a)
  PROVE  /\ Value(a) = 0 <=> a = Zero
         /\ Less(Zero, a) <=> Value(a) > 0
<1>1. Zero \in Seq(Digit) /\ Zero # << >> /\ Trimmed(Zero) /\ Value(Zero) = 0
  BY SmallValues DEF Zero
<1>2. Value(a) \in Nat
  BY ValueType
<1>3. /\ Less(Zero, a) <=> 0 < Value(a)
      /\ Less(a, Zero) <=> Value(a) < 0
  BY <1>1, LessRight
<1>4. Less(Zero, a) \/ a = Zero \/ Less(a, Zero)
  BY <1>1, LessTotal
<1> QED
  BY <1>1, <1>2, <1>3, <1>4

(* A sum of numbers without zeros in front has none. *)
LEMMA PlusTrimmed ==
  ASSUME NEW a \in Seq(Digit), NEW b \in Seq(Digit)
  PROVE  /\ a # << >> \/ b # << >> => Plus(a, b) # << >>
         /\ a # << >> /\ b # << >> /\ Trimmed(a) /\ Trimmed(b) => Trimmed(Plus(a, b))
<1> DEFINE n == Longer(a, b)
           s == Plus(a, b)
<1>1. /\ n \in Nat /\ n >= Len(a) /\ n >= Len(b) /\ n \in {Len(a), Len(b)}
      /\ Len(a) \in Nat /\ Len(b) \in Nat
  BY LongerFacts
<1>2. /\ s \in Seq(Digit) /\ Len(s) >= n
      /\ (n > 0 /\ Amounts(a, b)[n] > 0) \/ Len(s) > n => s[Len(s)] # 0
  BY PlusRight
<1>l. Len(s) \in Nat
  BY <1>2
<1>3. \A k \in 1 .. n : Amounts(a, b)[k] = DigitAt(a, k) + DigitAt(b, k)
  BY DEF Amounts
<1>4. ASSUME a # << >> \/ b # << >> PROVE s # << >>
  <2>1. Len(a) > 0 \/ Len(b) > 0
    BY <1>4
  <2> HIDE DEF n, s
  <2> QED
    BY <1>1, <1>2, <2>1
<1>5. ASSUME a # << >>, b # << >>, Trimmed(a), Trimmed(b) PROVE Trimmed(s)
  <2>1. Len(a) >= 1 /\ Len(b) >= 1
    BY <1>5
  <2>2. /\ Len(a) = 1 \/ a[Len(a)] # 0
        /\ Len(b) = 1 \/ b[Len(b)] # 0
    BY <1>5, TrimmedIs
  <2>3. /\ n \in Int
        /\ DigitAt(a, n) \in Nat /\ DigitAt(b, n) \in Nat
        /\ Len(a) = n => DigitAt(a, n) = a[n]
        /\ Len(b) = n => DigitAt(b, n) = b[n]
    <3> HIDE DEF n
    <3>1. n \in Int /\ n \in 1 .. n
      BY <1>1, <2>1
    <3> QED
      BY <3>1, DigitFacts
  <2>4. s # << >>
    BY <1>4, <1>5
  <2>5. CASE n > 1
    <3>1. Amounts(a, b)[n] = DigitAt(a, n) + DigitAt(b, n)
      BY <1>1, <1>3, <2>5
    <3>2. Amounts(a, b)[n] > 0
      <4> HIDE DEF n
      <4>1. DigitAt(a, n) # 0 \/ DigitAt(b, n) # 0
        BY <1>1, <2>2, <2>3, <2>5
      <4> QED
        BY <2>3, <3>1, <4>1
    <3>3. s[Len(s)] # 0
      <4> HIDE DEF n, s
      <4>1. n > 0
        BY <1>1, <2>5
      <4> QED
        BY <1>2, <3>2, <4>1
    <3> HIDE DEF s
    <3> QED
      BY <1>2, <2>4, <3>3, TrimmedIs
  <2>6. CASE n = 1
    <3>1. Len(s) = 1 \/ s[Len(s)] # 0
      <4> HIDE DEF n, s
      <4> DEFINE i == Len(s)
      <4>1. i \in Nat /\ i >= 1 /\ n = 1
        BY <1>2, <1>l, <2>6
      <4> HIDE DEF i
      <4>2. i = 1 \/ i > 1
        BY <4>1
      <4>3. Len(s) = 1 \/ Len(s) > n
        BY <4>1, <4>2 DEF i
      <4> QED
        BY <1>2, <4>3
    <3> HIDE DEF s
    <3> QED
      BY <1>2, <2>4, <3>1, TrimmedIs
  <2> QED
    BY <1>1, <2>1, <2>5, <2>6
<1> QED
  BY <1>4, <1>5

-----------------------------------------------------------------------------
(* operator- *)

(* Quotient and remainder are the only ones. *)
LEMMA ModIs ==
  ASSUME NEW x \in Int, NEW q \in Int, NEW r \in 0 .. Base - 1, x = Base * q + r
  PROVE  x % Base = r /\ x \div Base = q
<1> DEFINE d == x \div Base
           e == x % Base
           u == Base * q
           v == Base * d
<1>1. d \in Int /\ e \in 0 .. Base - 1 /\ x = v + e
  BY DivMod
<1> HIDE DEF d, e
<1>2. u \in Int /\ v \in Int /\ x = u + r
  BY <1>1, Multiples
<1>3. q < d => u + Base <= v
  BY <1>1, Multiples
<1>4. d < q => v + Base <= u
  BY <1>1, Multiples
<1>5. d = q => u = v
  OBVIOUS
<1> HIDE DEF u, v
<1>6. d = q
  BY <1>1, <1>2, <1>3, <1>4, BaseFacts
<1>7. e = r
  BY <1>1, <1>2, <1>5, <1>6, BaseFacts
<1> QED
  BY <1>6, <1>7 DEF d, e

(* c is what is borrowed when b is taken from a digit by digit. *)
Borrows(a, b, c) ==
  c = [k \in 0 .. Len(a) |->
         IF k > 0 /\ a[k] - DigitAt(b, k) - c[k - 1] < 0 THEN 1 ELSE 0]
Left_over(a, b, c) == [k \in DOMAIN a |-> (a[k] - DigitAt(b, k) - c[k - 1]) % Base]

(* The borrows of operator- exist. *)
LEMMA BorrowExists ==
  ASSUME NEW a \in Seq(Digit), NEW b \in Seq(Digit)
  PROVE  \E c : Borrows(a, b, c)
<1> DEFINE n == Len(a)
           step == [p \in Nat \X Nat |->
                      IF p[1] \in 1 .. n /\ a[p[1]] - DigitAt(b, p[1]) - p[2] < 0
                        THEN 1 ELSE 0]
<1>1. n \in Nat /\ step \in [Nat \X Nat -> Nat]
  OBVIOUS
<1>2. \A k \in 1 .. n, i \in Nat :
        step[<<k, i>>] = IF a[k] - DigitAt(b, k) - i < 0 THEN 1 ELSE 0
  BY <1>1
<1> HIDE DEF step, n
<1>3. PICK c \in [0 .. n -> Nat] : Follows(c, 0, n, step)
  <2>1. 0 \in Nat
    OBVIOUS
  <2> QED
    BY <1>1, <2>1, Recursion
<1>4. ASSUME NEW k \in 0 .. n
      PROVE  c[k] = IF k > 0 /\ a[k] - DigitAt(b, k) - c[k - 1] < 0 THEN 1 ELSE 0
  <2>1. CASE k = 0
    BY <1>3, <2>1 DEF Follows
  <2>2. CASE k \in 1 .. n
    <3>1. k \in Nat /\ k > 0 /\ k - 1 \in 0 .. n
      BY <1>1, <2>2
    <3>2. c[k] = step[<<k, c[k - 1]>>] /\ c[k - 1] \in Nat
      BY <1>3, <2>2, <3>1 DEF Follows
    <3> QED
      BY <1>2, <2>2, <3>1, <3>2
  <2> QED
    BY <1>1, <2>1, <2>2
<1> QED
  BY <1>3, <1>4 DEF Borrows, n

(* A borrow is 0 or 1, and each digit of the difference makes up for it. *)
LEMMA BorrowFacts ==
  ASSUME NEW a \in Seq(Digit), NEW b \in Seq(Digit), NEW c, Borrows(a, b, c)
  PROVE  /\ c[0] = 0 /\ \A k \in 0 .. Len(a) : c[k] \in {0, 1}
         /\ Left_over(a, b, c) \in [1 .. Len(a) -> Digit]
         /\ \A k \in 1 .. Len(a) :
              a[k] - DigitAt(b, k) - c[k - 1] = Left_over(a, b, c)[k] - Base * c[k]
<1>1. Len(a) \in Nat /\ DOMAIN a = 1 .. Len(a)
  OBVIOUS
<1>2. \A k \in 0 .. Len(a) :
        c[k] = IF k > 0 /\ a[k] - DigitAt(b, k) - c[k - 1] < 0 THEN 1 ELSE 0
  BY DEF Borrows
<1>3. c[0] = 0
  BY <1>1, <1>2
<1>4. \A k \in 0 .. Len(a) : c[k] \in {0, 1}
  BY <1>2
<1>5. ASSUME NEW k \in 1 .. Len(a)
      PROVE  /\ Left_over(a, b, c)[k] \in Digit
             /\ a[k] - DigitAt(b, k) - c[k - 1] = Left_over(a, b, c)[k] - Base * c[k]
  <2> DEFINE p == a[k]
             q == DigitAt(b, k)
             d == c[k - 1]
             x == p - q - d
             r == Left_over(a, b, c)[k]
  <2>1. p \in Nat /\ p < Base /\ q \in Nat /\ q < Base /\ d \in {0, 1}
    <3>1. k \in Int /\ k - 1 \in 0 .. Len(a)
      BY <1>1
    <3>2. DigitAt(a, k) = a[k]
      BY <3>1, DigitFacts
    <3> QED
      BY <1>4, <3>1, <3>2, DigitFacts
  <2>2. r = x % Base
    BY <1>1 DEF Left_over
  <2>3. c[k] = IF x < 0 THEN 1 ELSE 0
    BY <1>1, <1>2
  <2> HIDE DEF p, q, d, r
  <2>4. x \in Int /\ x < Base /\ x >= - Base
    BY <2>1, BaseFacts
  <2> HIDE DEF x
  <2>5. CASE x < 0
    <3>1. x + Base \in 0 .. Base - 1 /\ x = Base * (-1) + (x + Base) /\ -1 \in Int
      BY <2>4, <2>5, BaseFacts
    <3>2. r = x + Base
      BY <2>2, <2>4, <3>1, ModIs
    <3>3. c[k] = 1 /\ x = r - Base * 1 /\ r \in Digit
      BY <2>3, <2>4, <2>5, <3>1, <3>2, BaseFacts DEF Digit
    <3> QED
      BY <3>3 DEF x, p, q, d, r
  <2>6. CASE x >= 0
    <3>1. x \in 0 .. Base - 1 /\ x = Base * 0 + x /\ 0 \in Int
      BY <2>4, <2>6, BaseFacts
    <3>2. r = x
      BY <2>2, <2>4, <3>1, ModIs
    <3>3. c[k] = 0 /\ x = r - Base * 0 /\ r \in Digit
      BY <2>3, <2>4, <2>6, <3>1, <3>2, BaseFacts DEF Digit
    <3> QED
      BY <3>3 DEF x, p, q, d, r
  <2> QED
    BY <2>4, <2>5, <2>6
<1>6. Left_over(a, b, c) \in [1 .. Len(a) -> Digit]
  BY <1>1, <1>5 DEF Left_over
<1> QED
  BY <1>3, <1>4, <1>5, <1>6

(* The loop of operator- borrows. *)
LEMMA MinusIs ==
  ASSUME NEW a \in Seq(Digit), NEW b \in Seq(Digit)
  PROVE  \E c : /\ Borrows(a, b, c)
                /\ Minus(a, b) = IF a = b THEN Zero ELSE Trim(Left_over(a, b, c))
<1> DEFINE F(g) == g = [k \in 0 .. Len(a) |->
              IF k > 0 /\ a[k] - DigitAt(b, k) - g[k - 1] < 0 THEN 1 ELSE 0]
<1>1. \E g : F(g)
  BY BorrowExists DEF Borrows
<1>2. PICK g :
        /\ F(g)
        /\ Minus(a, b) = IF a = b THEN Zero ELSE
             Trim([k \in DOMAIN a |-> (a[k] - DigitAt(b, k) - g[k - 1]) % Base])
  BY <1>1 DEF Minus
<1> QED
  BY <1>2 DEF Borrows, Left_over

(* A difference is a number without zeros in front, whatever the operands. *)
LEMMA MinusType ==
  ASSUME NEW a \in Seq(Digit), NEW b \in Seq(Digit), a # << >>
  PROVE  Minus(a, b) \in Seq(Digit) /\ Minus(a, b) # << >> /\ Trimmed(Minus(a, b))
<1>1. PICK c : /\ Borrows(a, b, c)
               /\ Minus(a, b) = IF a = b THEN Zero ELSE Trim(Left_over(a, b, c))
  BY MinusIs
<1> DEFINE s == Left_over(a, b, c)
<1>2. s \in [1 .. Len(a) -> Digit] /\ Len(a) \in Nat /\ Len(a) # 0
  BY <1>1, BorrowFacts
<1>3. s \in Seq(Digit) /\ Len(s) # 0
  BY <1>2, Vector
<1> HIDE DEF s
<1>4. s # << >>
  BY <1>3
<1>5. Trim(s) \in Seq(Digit) /\ Trim(s) # << >> /\ Trimmed(Trim(s))
  BY <1>3, <1>4, TrimRight
<1>6. Zero \in Seq(Digit) /\ Zero # << >> /\ Trimmed(Zero)
  BY SmallValues DEF Zero
<1> QED
  BY <1>1, <1>5, <1>6 DEF s

(* The difference is right, if it is not negative. *)
LEMMA MinusRight ==
  ASSUME NEW a \in Seq(Digit), NEW b \in Seq(Digit), a # << >>,
         Len(b) <= Len(a), Value(b) <= Value(a)
  PROVE  Value(Minus(a, b)) = Value(a) - Value(b)
<1>1. PICK c : /\ Borrows(a, b, c)
               /\ Minus(a, b) = IF a = b THEN Zero ELSE Trim(Left_over(a, b, c))
  BY MinusIs
<1> DEFINE n == Len(a)
           s == Left_over(a, b, c)
<1>2. n \in Nat /\ n # 0 /\ Len(b) <= n
  OBVIOUS
<1>3. s \in [1 .. n -> Digit] /\ c[0] = 0 /\ \A k \in 0 .. n : c[k] \in {0, 1}
  BY <1>1, BorrowFacts
<1>4. \A k \in 1 .. n : a[k] - DigitAt(b, k) - c[k - 1] = s[k] - Base * c[k]
  BY <1>1, BorrowFacts
<1>5. s \in Seq(Digit) /\ Len(s) = n /\ s # << >>
  <2> HIDE DEF s
  <2>1. s \in Seq(Digit) /\ Len(s) = n
    BY <1>2, <1>3, Vector
  <2> QED
    BY <1>2, <2>1
<1>6. n >= Len(a) /\ n >= Len(b) /\ n >= Len(s)
  <2> HIDE DEF s
  <2> QED
    BY <1>2, <1>5
<1> HIDE DEF s
<1>7. \A k \in 1 .. n : /\ DigitAt(a, k) = a[k] /\ DigitAt(s, k) = s[k]
                        /\ a[k] \in Nat /\ s[k] \in Nat /\ s[k] < Base /\ DigitAt(b, k) \in Nat
  <2> TAKE k \in 1 .. n
  <2>1. k \in Int /\ k \in 1 .. Len(a) /\ k \in 1 .. Len(s)
    BY <1>2, <1>5
  <2> QED
    BY <1>5, <2>1, DigitFacts
<1> HIDE DEF n
<1>8. PICK fa \in [1 .. n + 1 -> Nat] : Horner(a, n, fa)
  BY <1>2, HornerExists
<1>9. PICK fb \in [1 .. n + 1 -> Nat] : Horner(b, n, fb)
  BY <1>2, HornerExists
<1>10. Value(a) = fa[1] /\ Value(b) = fb[1]
  BY <1>2, <1>6, <1>8, <1>9, HornerValue
<1> DEFINE g == [k \in 1 .. n + 1 |-> fa[k] - fb[k] - c[k - 1]]
<1>11. ASSUME NEW k \in 1 .. n + 1
       PROVE  /\ g[k] = fa[k] - fb[k] - c[k - 1] /\ g[k] \in Int
              /\ fa[k] \in Nat /\ fb[k] \in Nat /\ c[k - 1] \in {0, 1}
  <2>1. k - 1 \in 0 .. n
    BY <1>2
  <2>2. fa[k] \in Nat /\ fb[k] \in Nat /\ c[k - 1] \in {0, 1}
    BY <1>3, <2>1
  <2> QED
    BY <2>2
<1>12. g \in [1 .. n + 1 -> Int]
  BY <1>11
<1>13. ASSUME NEW k \in 1 .. n PROVE g[k] = s[k] + Base * g[k + 1]
  <2>1. k \in 1 .. n + 1 /\ k + 1 \in 1 .. n + 1 /\ (k + 1) - 1 = k
    BY <1>2
  <2> DEFINE u == Base * fa[k + 1]
             v == Base * fb[k + 1]
             w == Base * c[k]
             p == a[k]
             q == DigitAt(b, k)
             d == c[k - 1]
             r == s[k]
  <2>2. fa[k + 1] \in Int /\ fb[k + 1] \in Int /\ c[k] \in Int /\ fa[k + 1] - fb[k + 1] \in Int
    BY <1>11, <2>1
  <2>3. g[k + 1] = fa[k + 1] - fb[k + 1] - c[k]
    BY <1>11, <2>1
  <2>4. /\ u \in Int /\ v \in Int /\ w \in Int
        /\ Base * ((fa[k + 1] - fb[k + 1]) - c[k]) = (u - v) - w
    <3>1. Base * ((fa[k + 1] - fb[k + 1]) - c[k]) = Base * (fa[k + 1] - fb[k + 1]) - w
      BY <2>2, Multiples
    <3>2. Base * (fa[k + 1] - fb[k + 1]) = u - v
      BY <2>2, Multiples
    <3> QED
      BY <2>2, <3>1, <3>2, Multiples
  <2>5. Base * g[k + 1] = (u - v) - w
    <3> HIDE DEF g
    <3> QED
      BY <2>3, <2>4
  <2>6. fa[k] = p + u /\ fb[k] = q + v
    BY <1>7, <1>8, <1>9 DEF Horner
  <2>7. g[k] = (p + u) - (q + v) - d
    <3> HIDE DEF g
    <3> QED
      BY <1>11, <2>1, <2>6
  <2>8. p - q - d = r - w /\ p \in Nat /\ q \in Nat /\ d \in {0, 1} /\ r \in Nat
    BY <1>4, <1>7, <1>11, <2>1
  <2> HIDE DEF u, v, w, p, q, d, r, g
  <2>9. (p + u) - (q + v) - d = r + ((u - v) - w)
    BY <2>4, <2>8
  <2> QED
    BY <2>5, <2>7, <2>9 DEF r
<1> HIDE DEF g
<1>14. g[n + 1] = 0 - c[n]
  <2>1. n + 1 \in 1 .. n + 1 /\ (n + 1) - 1 = n
    BY <1>2
  <2>2. fa[n + 1] = 0 /\ fb[n + 1] = 0
    BY <1>8, <1>9 DEF Horner
  <2>3. c[n] \in Int
    BY <1>2, <1>3
  <2> QED
    BY <1>11, <2>1, <2>2, <2>3
<1>15. g[1] = Value(a) - Value(b)
  <2>1. 1 \in 1 .. n + 1 /\ 1 - 1 = 0
    BY <1>2
  <2> QED
    BY <1>3, <1>10, <1>11, <2>1
<1>16. c[n] = 0
  <2> SUFFICES ASSUME c[n] # 0 PROVE FALSE
    OBVIOUS
  <2> DEFINE T == {k \in 1 .. n + 1 : g[k] < 0}
  <2>1. n + 1 \in T
    <3>1. c[n] = 1 /\ n + 1 \in 1 .. n + 1
      BY <1>2, <1>3
    <3> QED
      BY <1>14, <3>1
  <2>2. ASSUME NEW k \in 1 .. n, k + 1 \in T PROVE k \in T
    <3>1. k \in 1 .. n + 1 /\ k + 1 \in 1 .. n + 1
      BY <1>2
    <3> DEFINE u == Base * g[k + 1]
               r == s[k]
    <3>2. g[k + 1] < 0 /\ g[k + 1] \in Int /\ g[k] \in Int
      BY <1>11, <2>2, <3>1
    <3>3. u \in Int /\ u + Base <= 0
      <4> DEFINE i == g[k + 1]
      <4>1. i < 0 /\ i \in Int
        BY <3>2
      <4> HIDE DEF i
      <4>2. Base * i + Base <= 0 /\ Base * i \in Int
        BY <4>1, Multiples
      <4> QED
        BY <4>2 DEF i
    <3>4. r \in Nat /\ r < Base /\ g[k] = r + u
      BY <1>7, <1>13
    <3> HIDE DEF u, r
    <3>5. g[k] < 0
      BY <3>2, <3>3, <3>4, BaseFacts
    <3> QED
      BY <3>1, <3>5
  <2>3. \A k \in 1 .. n + 1 : k \in T
    <3> HIDE DEF T
    <3> QED
      BY <1>2, <2>1, <2>2, InductionDown
  <2>4. g[1] < 0
    <3>1. 1 \in 1 .. n + 1
      BY <1>2
    <3> QED
      BY <2>3, <3>1
  <2>5. Value(a) \in Nat /\ Value(b) \in Nat
    BY ValueType
  <2> QED
    BY <1>15, <2>4, <2>5
<1>17. Horner(s, n, g)
  <2>1. g[n + 1] = 0
    BY <1>14, <1>16
  <2>2. ASSUME NEW k \in 1 .. n PROVE g[k] = DigitAt(s, k) + Base * g[k + 1]
    BY <1>7, <1>13
  <2> QED
    BY <1>12, <2>1, <2>2 DEF Horner
<1>18. Value(s) = Value(a) - Value(b)
  BY <1>2, <1>5, <1>6, <1>15, <1>17, HornerValue
<1>19. Value(Trim(s)) = Value(a) - Value(b)
  BY <1>5, <1>18, TrimRight
<1>20. a = b => Value(Zero) = Value(a) - Value(b)
  <2>1. Value(a) \in Nat /\ Value(Zero) = 0
    BY ValueType, SmallValues
  <2> QED
    BY <2>1
<1> QED
  BY <1>1, <1>19, <1>20 DEF s

-----------------------------------------------------------------------------
(* divide_by_2 *)

(* Base is twice its half. *)
LEMMA EvenBase == \E h \in Nat : h > 1 /\ Base = 2 * h /\ Base \div 2 = h
<1>1. Base = 2 * (Base \div 2) + (Base % 2) /\ Base \div 2 \in Nat
  BY BaseAssumption
<1>2. Base \div 2 > 1
  BY BaseAssumption
<1> QED
  BY <1>1, <1>2, BaseAssumption

(* Halving p + Base * u, where Base is 2 * h: the odd u is passed down. *)
LEMMA HalfStep ==
  ASSUME NEW h \in Nat, NEW p \in Nat, NEW u \in Nat
  PROVE  (p + (2 * h) * u) \div 2 = (p \div 2 + (u % 2) * h) + (2 * h) * (u \div 2)
<1> DEFINE v == u \div 2
           w == h * v
<1>1. v \in Nat /\ (u = 2 * v \/ u = 2 * v + 1) /\ u % 2 = u - 2 * v
  OBVIOUS
<1> HIDE DEF v
<1>2. w \in Nat /\ (2 * h) * v = 2 * w
  BY <1>1
<1>3. CASE u = 2 * v
  <2>1. (2 * h) * u = 4 * w /\ (u % 2) * h = 0
    BY <1>1, <1>3
  <2> HIDE DEF w
  <2>2. (p + 4 * w) \div 2 = p \div 2 + 2 * w
    BY <1>2
  <2> QED
    BY <1>2, <2>1, <2>2 DEF v
<1>4. CASE u = 2 * v + 1
  <2>1. (2 * h) * u = 4 * w + 2 * h /\ (u % 2) * h = h
    BY <1>1, <1>4
  <2> HIDE DEF w
  <2>2. (p + (4 * w + 2 * h)) \div 2 = (p \div 2 + h) + 2 * w
    BY <1>2
  <2> QED
    BY <1>2, <2>1, <2>2 DEF v
<1> QED
  BY <1>1, <1>3, <1>4

(* divide_by_2 halves the value, rounded down, and trims. *)
LEMMA HalfRight ==
  ASSUME NEW a \in Seq(Digit), a # << >>
  PROVE  /\ divide_by_2(a) \in Seq(Digit) /\ divide_by_2(a) # << >>
         /\ Trimmed(divide_by_2(a)) /\ Value(divide_by_2(a)) = Value(a) \div 2
<1> DEFINE n == Len(a)
           s == [k \in DOMAIN a |-> a[k] \div 2 + (DigitAt(a, k + 1) % 2) * (Base \div 2)]
<1>1. n \in Nat /\ n # 0 /\ DOMAIN a = 1 .. n
  OBVIOUS
<1>2. PICK h \in Nat : h > 1 /\ Base = 2 * h /\ Base \div 2 = h
  BY EvenBase
<1>3. ASSUME NEW k \in 1 .. n
      PROVE  /\ DigitAt(a, k) = a[k] /\ a[k] \in Nat /\ a[k] < Base
             /\ DigitAt(a, k + 1) \in Nat
             /\ s[k] = a[k] \div 2 + (DigitAt(a, k + 1) % 2) * h
  <2>1. k \in Int /\ k + 1 \in Int /\ k \in 1 .. Len(a)
    OBVIOUS
  <2> QED
    BY <1>1, <1>2, <2>1, DigitFacts
<1>4. s \in [1 .. n -> Digit]
  <2>1. ASSUME NEW k \in 1 .. n PROVE s[k] \in Digit
    <3> DEFINE p == a[k]
               q == DigitAt(a, k + 1)
    <3>1. p \in Nat /\ p < 2 * h /\ q \in Nat /\ s[k] = p \div 2 + (q % 2) * h
      BY <1>2, <1>3
    <3> HIDE DEF p, q, s
    <3>2. p \div 2 \in Nat /\ p \div 2 < h /\ q % 2 \in {0, 1}
      BY <3>1
    <3>3. (q % 2) * h \in {0, h}
      BY <3>2
    <3> QED
      BY <1>2, <3>1, <3>2, <3>3 DEF Digit
  <2>2. s = [k \in 1 .. n |-> s[k]]
    BY <1>1
  <2> HIDE DEF s
  <2> QED
    BY <2>1, <2>2
<1> HIDE DEF s
<1>5. s \in Seq(Digit) /\ Len(s) = n /\ s # << >>
  <2>1. s \in Seq(Digit) /\ Len(s) = n
    BY <1>1, <1>4, Vector
  <2> QED
    BY <1>1, <2>1
<1>6. PICK f \in [1 .. n + 1 -> Nat] : Horner(a, n, f)
  BY <1>1, HornerExists
<1>7. n >= Len(a) /\ n >= Len(s)
  BY <1>1, <1>5
<1>8. Value(a) = f[1]
  BY <1>1, <1>6, <1>7, HornerValue
<1>9. \A k \in 1 .. n : DigitAt(s, k) = s[k]
  <2> TAKE k \in 1 .. n
  <2>1. k \in Int /\ k \in 1 .. Len(s)
    BY <1>5
  <2> QED
    BY <1>5, <2>1, DigitFacts
<1>10. \A k \in 1 .. n : f[k] = DigitAt(a, k) + Base * f[k + 1]
  BY <1>6 DEF Horner
<1> HIDE DEF n
<1> DEFINE g == [k \in 1 .. n + 1 |-> f[k] \div 2]
<1>11. ASSUME NEW k \in 1 .. n PROVE f[k + 1] % 2 = DigitAt(a, k + 1) % 2
  <2> DEFINE u == f[k + 1]
             q == DigitAt(a, k + 1)
  <2>1. u \in Nat /\ q \in Nat
    <3>1. k + 1 \in 1 .. n + 1
      BY <1>1
    <3> QED
      BY <1>3, <3>1
  <2>2. CASE k = n
    <3>1. k + 1 \in Int /\ k + 1 \notin 1 .. Len(a)
      BY <1>1, <2>2 DEF n
    <3>2. q = 0
      BY <3>1, DigitFacts
    <3>3. u = 0
      BY <1>6, <2>2 DEF Horner
    <3> QED
      BY <3>2, <3>3
  <2>3. CASE k # n
    <3>1. k + 1 \in 1 .. n /\ k + 2 \in 1 .. n + 1 /\ (k + 1) + 1 = k + 2
      BY <1>1, <2>3
    <3> DEFINE w == h * f[k + 2]
    <3>2. u = q + Base * f[k + 2]
      BY <1>10, <3>1
    <3>3. f[k + 2] \in Nat
      BY <3>1
    <3>4. u = q + 2 * w /\ w \in Int
      BY <1>2, <3>2, <3>3
    <3> HIDE DEF w, u, q
    <3>5. u % 2 = q % 2
      BY <2>1, <3>4
    <3> QED
      BY <3>5 DEF u, q
  <2> QED
    BY <2>2, <2>3
<1>12. Horner(s, n, g)
  <2>1. g \in [1 .. n + 1 -> Int] /\ g[n + 1] = 0
    <3>1. ASSUME NEW k \in 1 .. n + 1 PROVE f[k] \div 2 \in Int
      <4>1. f[k] \in Nat
        OBVIOUS
      <4> QED
        BY <4>1
    <3>2. f[n + 1] = 0 /\ n + 1 \in 1 .. n + 1
      BY <1>1, <1>6 DEF Horner
    <3> QED
      BY <3>1, <3>2
  <2>2. ASSUME NEW k \in 1 .. n PROVE g[k] = DigitAt(s, k) + Base * g[k + 1]
    <3> DEFINE p == a[k]
               u == f[k + 1]
    <3>1. g[k] = f[k] \div 2 /\ g[k + 1] = u \div 2 /\ u \in Nat /\ p \in Nat
      <4>1. k \in 1 .. n + 1 /\ k + 1 \in 1 .. n + 1
        BY <1>1
      <4> QED
        BY <1>3, <4>1
    <3>2. f[k] = p + (2 * h) * u
      BY <1>2, <1>3, <1>10
    <3>3. s[k] = p \div 2 + (u % 2) * h
      BY <1>3, <1>11
    <3> HIDE DEF p, u, g
    <3>4. (p + (2 * h) * u) \div 2 = (p \div 2 + (u % 2) * h) + (2 * h) * (u \div 2)
      BY <3>1, HalfStep
    <3>5. g[k] = s[k] + (2 * h) * g[k + 1]
      BY <3>1, <3>2, <3>3, <3>4
    <3> QED
      BY <1>2, <1>9, <3>5
  <2> HIDE DEF g
  <2> QED
    BY <2>1, <2>2 DEF Horner
<1>13. g[1] = Value(a) \div 2
  BY <1>1, <1>8
<1> HIDE DEF g
<1>14. Value(s) = Value(a) \div 2
  BY <1>1, <1>5, <1>7, <1>12, <1>13, HornerValue
<1>15. divide_by_2(a) = Trim(s)
  BY DEF divide_by_2, s
<1> QED
  BY <1>5, <1>14, <1>15, TrimRight

-----------------------------------------------------------------------------
(* operator* *)

(* The last digit is not 0. *)
Top(s) == s # << >> /\ s[Len(s)] # 0

(* A last digit that is not 0 means no zeros in front, and the other way
   round for a number that is not 0. *)
LEMMA TopIs ==
  ASSUME NEW s \in Seq(Digit), s # << >>
  PROVE  /\ Top(s) => Trimmed(s)
         /\ Trimmed(s) /\ Value(s) # 0 => Top(s)
<1>1. Trimmed(s) <=> Len(s) = 1 \/ s[Len(s)] # 0
  BY TrimmedIs
<1>2. ASSUME Len(s) = 1, s[Len(s)] = 0 PROVE Value(s) = 0
  <2>1. \A k \in DOMAIN s : s[k] = 0
    BY <1>2
  <2> QED
    BY <2>1, AllZero
<1> QED
  BY <1>1, <1>2 DEF Top

(* When the last digit of a sum is not 0. *)
LEMMA PlusTop ==
  ASSUME NEW a \in Seq(Digit), NEW b \in Seq(Digit)
  PROVE  /\ Len(Plus(a, b)) >= Longer(a, b)
         /\ Len(Plus(a, b)) > Longer(a, b) => Top(Plus(a, b))
         /\ Len(a) >= Len(b) /\ Top(a) => Top(Plus(a, b))
         /\ Len(b) >= Len(a) /\ Top(b) => Top(Plus(a, b))
<1> DEFINE n == Longer(a, b)
           s == Plus(a, b)
<1>1. /\ n \in Nat /\ n >= Len(a) /\ n >= Len(b) /\ n \in {Len(a), Len(b)}
      /\ Len(a) \in Nat /\ Len(b) \in Nat
  BY LongerFacts
<1>2. /\ s \in Seq(Digit) /\ Len(s) >= n
      /\ (n > 0 /\ Amounts(a, b)[n] > 0) \/ Len(s) > n => s[Len(s)] # 0
  BY PlusRight
<1>3. Len(s) > n => s # << >>
  <2> HIDE DEF n
  <2>1. s # << >> \/ Len(s) = 0
    BY <1>2
  <2> QED
    BY <1>1, <2>1
<1>4. n # 0 => s # << >>
  <2> HIDE DEF n
  <2>1. s # << >> \/ Len(s) = 0
    BY <1>2
  <2> QED
    BY <1>1, <1>2, <2>1
<1>5. ASSUME NEW t \in Seq(Digit), Top(t), Len(t) = n,
             t = a \/ t = b
      PROVE  Top(s)
  <2>1. n # 0 /\ t[n] # 0 /\ n > 0 /\ n \in 1 .. n /\ n \in Int /\ n \in 1 .. Len(t)
    BY <1>1, <1>5 DEF Top
  <2>2. Amounts(a, b)[n] = DigitAt(a, n) + DigitAt(b, n)
    BY <2>1 DEF Amounts
  <2> HIDE DEF n, s
  <2>3. DigitAt(a, n) \in Nat /\ DigitAt(b, n) \in Nat /\ DigitAt(t, n) = t[n]
    BY <2>1, DigitFacts
  <2>4. Amounts(a, b)[n] > 0
    BY <1>5, <2>1, <2>2, <2>3
  <2> QED
    BY <1>2, <1>4, <2>1, <2>4 DEF Top
<1>6. Len(a) >= Len(b) => Len(a) = n
  BY <1>1 DEF Longer
<1>7. Len(b) >= Len(a) => Len(b) = n
  BY <1>1 DEF Longer
<1> HIDE DEF n, s
<1> QED
  BY <1>2, <1>3, <1>5, <1>6, <1>7 DEF n, s, Top

Rows(a, d) == [k \in 1 .. Len(a) |-> a[k] * d]

(* The inner loop of operator* carries the products of the digits. *)
LEMMA RowIs ==
  ASSUME NEW a \in Seq(Digit), NEW d \in Digit
  PROVE  \E c : Carries(Rows(a, d), Len(a), c) /\ Row(a, d) = Carried(Rows(a, d), Len(a), c)
<1> DEFINE n == Len(a)
           x == Rows(a, d)
           F(g) == g = [k \in 0 .. n |-> IF k = 0 THEN 0
                          ELSE (a[k] * d + g[k - 1]) \div Base]
<1>1. n \in Nat /\ DOMAIN a = 1 .. n
  OBVIOUS
<1>2. \A k \in 1 .. n : x[k] = a[k] * d
  BY DEF Rows
<1>3. \A k \in 1 .. n : x[k] \in Nat
  <2> TAKE k \in 1 .. n
  <2>1. a[k] \in Nat /\ d \in Nat
    BY <1>1, BaseFacts DEF Digit
  <2> QED
    BY <1>2, <2>1
<1>4. x \in [1 .. n -> Nat]
  BY <1>3 DEF Rows
<1>5. \A g : F(g) <=> Carries(x, n, g)
  BY <1>2 DEF Carries
<1>6. \E g : F(g)
  BY <1>1, <1>4, <1>5, CarryExists
<1>7. PICK g : /\ F(g)
               /\ Row(a, d) = WithCarry([k \in DOMAIN a |-> (a[k] * d + g[k - 1]) % Base], g[n])
  BY <1>6 DEF Row
<1>8. [k \in DOMAIN a |-> (a[k] * d + g[k - 1]) % Base] = Remain(x, n, g)
  BY <1>1, <1>2 DEF Remain
<1> QED
  BY <1>5, <1>7, <1>8 DEF Carried

(* Products by a digit, and of one with a value. *)
LEMMA DigitProducts ==
  /\ \A p, d \in Digit : p * d \in Nat /\ p * d + (Base - 1) < Base * (Base - 1) + Base
  /\ \A p, u, d \in Nat : (p + Base * u) * d = p * d + Base * (u * d)
<1>1. ASSUME NEW p \in Digit, NEW d \in Digit
      PROVE  p * d \in Nat /\ p * d + (Base - 1) < Base * (Base - 1) + Base
  <2>1. p \in Nat /\ d \in Nat /\ p <= Base - 1 /\ d <= Base - 1 /\ Base \in Nat /\ Base > 2
    BY BaseFacts DEF Digit
  <2>2. p * d <= (Base - 1) * (Base - 1)
    BY <2>1
  <2>3. (Base - 1) * (Base - 1) + (Base - 1) < Base * (Base - 1) + Base
    BY <2>1
  <2> QED
    BY <2>1, <2>2, <2>3
<1>2. \A p, u, d \in Nat : (p + Base * u) * d = p * d + Base * (u * d)
  BY BaseFacts
<1> QED
  BY <1>1, <1>2

(* A row is the number times the digit. *)
LEMMA RowRight ==
  ASSUME NEW a \in Seq(Digit), NEW d \in Digit
  PROVE  /\ Row(a, d) \in Seq(Digit) /\ Value(Row(a, d)) = Value(a) * d
         /\ Len(Row(a, d)) >= Len(a)
         /\ Len(Row(a, d)) > Len(a) => Top(Row(a, d))
         /\ Top(a) /\ d # 0 => Top(Row(a, d))
<1> DEFINE n == Len(a)
           x == Rows(a, d)
           s == Row(a, d)
<1>1. n \in Nat /\ n >= Len(a) /\ DOMAIN a = 1 .. n
  OBVIOUS
<1>2. PICK c : Carries(x, n, c) /\ s = Carried(x, n, c)
  BY RowIs
<1>3. \A k \in 1 .. n : x[k] = a[k] * d /\ a[k] \in Digit
  BY <1>1 DEF Rows
<1>4. \A k \in 1 .. n : x[k] \in Nat /\ x[k] + (Base - 1) < Base * (Base - 1) + Base
  BY <1>3, DigitProducts
<1>5. x \in [1 .. n -> Nat]
  BY <1>4 DEF Rows
<1> HIDE DEF x
<1>6. Bounded(x, n)
  <2>1. Base - 1 \in 0 .. Base - 1
    BY BaseFacts
  <2> HIDE DEF n
  <2>2. AtMost(x, n, Base - 1)
    BY <1>4 DEF AtMost
  <2> QED
    BY <2>1, <2>2 DEF Bounded
<1>7. PICK fa \in [1 .. n + 1 -> Nat] : Horner(a, n, fa)
  BY <1>1, HornerExists
<1>8. Value(a) = fa[1]
  BY <1>1, <1>7, HornerValue
<1>9. \A k \in 1 .. n : DigitAt(a, k) = a[k]
  <2> TAKE k \in 1 .. n
  <2>1. k \in Int /\ k \in 1 .. Len(a)
    OBVIOUS
  <2> QED
    BY <2>1, DigitFacts
<1>10. d \in Nat
  BY BaseFacts DEF Digit
<1> HIDE DEF n, s
<1> DEFINE f == [k \in 1 .. n + 1 |-> fa[k] * d]
<1>11. f \in [1 .. n + 1 -> Nat]
  <2>1. ASSUME NEW k \in 1 .. n + 1 PROVE fa[k] * d \in Nat
    <3>1. fa[k] \in Nat
      OBVIOUS
    <3> QED
      BY <1>10, <3>1
  <2> QED
    BY <2>1
<1>12. Sums(x, n, f)
  <2>1. f[n + 1] = 0
    <3>1. fa[n + 1] = 0 /\ n + 1 \in 1 .. n + 1
      BY <1>1, <1>7 DEF Horner
    <3> QED
      BY <1>10, <3>1
  <2>2. ASSUME NEW k \in 1 .. n PROVE f[k] = x[k] + Base * f[k + 1]
    <3>1. k \in 1 .. n + 1 /\ k + 1 \in 1 .. n + 1
      BY <1>1
    <3> DEFINE p == a[k]
               u == fa[k + 1]
    <3>2. f[k] = fa[k] * d /\ f[k + 1] = u * d /\ u \in Nat
      BY <3>1
    <3>3. fa[k] = p + Base * u /\ x[k] = p * d /\ p \in Nat
      BY <1>3, <1>7, <1>9, BaseFacts DEF Horner, Digit
    <3> HIDE DEF p, u, f
    <3>4. (p + Base * u) * d = p * d + Base * (u * d)
      BY <1>10, <3>2, <3>3, DigitProducts
    <3> QED
      BY <3>2, <3>3, <3>4
  <2> HIDE DEF f
  <2> QED
    BY <2>1, <2>2 DEF Sums
<1>13. f[1] = Value(a) * d
  BY <1>1, <1>8
<1> HIDE DEF f
<1>14. /\ s \in Seq(Digit) /\ Len(s) >= n
       /\ Value(s) = f[1]
       /\ (n > 0 /\ x[n] > 0) \/ Len(s) > n => s[Len(s)] # 0
  BY <1>1, <1>2, <1>5, <1>6, <1>11, <1>12, CarriedDigits
<1>15. ASSUME Len(s) > n PROVE Top(s)
  <2>1. s # << >> \/ Len(s) = 0
    BY <1>14
  <2> QED
    BY <1>1, <1>14, <1>15, <2>1 DEF Top
<1>16. ASSUME Top(a), d # 0 PROVE Top(s)
  <2>1. n # 0 /\ n > 0 /\ n \in 1 .. n /\ a[n] # 0 /\ a[n] \in Nat
    BY <1>1, <1>16, BaseFacts DEF Top, n, Digit
  <2>2. x[n] > 0
    <3>1. x[n] = a[n] * d
      BY <1>3, <2>1
    <3> QED
      BY <1>10, <1>16, <2>1, <3>1
  <2>3. s # << >> \/ Len(s) = 0
    BY <1>14
  <2> QED
    BY <1>14, <2>1, <2>2, <2>3 DEF Top
<1> QED
  BY <1>13, <1>14, <1>15, <1>16 DEF n, s

(* p gives the powers of Base up to the n-th. *)
BasePowers(p, n) ==
  /\ p \in [0 .. n -> Nat] /\ p[0] = 1
  /\ \A k \in 1 .. n : p[k] = Base * p[k - 1]

(* There is such a p. *)
LEMMA PowersExist ==
  ASSUME NEW n \in Nat
  PROVE  \E p : BasePowers(p, n)
<1> DEFINE step == [q \in Nat \X Nat |-> Base * q[2]]
<1>1. step \in [Nat \X Nat -> Nat]
  <2>1. ASSUME NEW q \in Nat \X Nat PROVE Base * q[2] \in Nat
    <3>1. q[2] \in Nat
      OBVIOUS
    <3> QED
      BY <3>1, Multiples
  <2> QED
    BY <2>1
<1>2. \A k, i \in Nat : step[<< k, i >>] = Base * i
  OBVIOUS
<1> HIDE DEF step
<1>3. PICK p \in [0 .. n -> Nat] : Follows(p, 1, n, step)
  <2>1. 1 \in Nat
    OBVIOUS
  <2> QED
    BY <1>1, <2>1, Recursion
<1>4. \A k \in 1 .. n : p[k] = Base * p[k - 1]
  <2> TAKE k \in 1 .. n
  <2>1. k \in Nat /\ k - 1 \in 0 .. n
    OBVIOUS
  <2>2. p[k - 1] \in Nat
    BY <2>1
  <2> QED
    BY <1>2, <1>3, <2>1, <2>2 DEF Follows
<1> QED
  BY <1>3, <1>4 DEF Follows, BasePowers

Shift(j, r) == [k \in 1 .. j |-> 0] \o r

(* Each zero below a number takes it times Base. *)
LEMMA ShiftRight ==
  ASSUME NEW n \in Nat, NEW j \in 0 .. n, NEW r \in Seq(Digit), NEW p, BasePowers(p, n)
  PROVE  /\ Shift(j, r) \in Seq(Digit) /\ Len(Shift(j, r)) = j + Len(r)
         /\ Value(Shift(j, r)) = p[j] * Value(r)
         /\ Top(r) => Top(Shift(j, r))
<1> DEFINE z == [k \in 1 .. j |-> 0]
           s == Shift(j, r)
           l == Len(r)
           m == j + l
<1>1. 0 \in Digit /\ j \in Nat
  BY BaseFacts DEF Digit
<1>2. z \in Seq(Digit) /\ Len(z) = j
  <2>1. z \in [1 .. j -> Digit]
    BY <1>1
  <2> QED
    BY <1>1, <2>1, Vector
<1>3. \A k \in 1 .. j : z[k] = 0
  OBVIOUS
<1>4. s = z \o r
  BY DEF Shift
<1> HIDE DEF z, s
<1>5. s \in Seq(Digit) /\ Len(s) = m /\ m \in Nat /\ l \in Nat
  <2>1. l \in Nat /\ z \o r \in Seq(Digit) /\ Len(z \o r) = Len(z) + Len(r)
    BY <1>2
  <2> QED
    BY <1>1, <1>2, <1>4, <2>1
<1>6. \A k \in 1 .. j : s[k] = 0
  BY <1>1, <1>2, <1>3, <1>4
<1>7. \A k \in j + 1 .. m : s[k] = r[k - j] /\ k - j \in 1 .. l
  BY <1>1, <1>2, <1>4
<1>8. PICK f \in [1 .. l + 1 -> Nat] : Horner(r, l, f)
  BY <1>5, HornerExists
<1>9. Value(r) = f[1] /\ f[1] \in Nat
  <2>1. l >= Len(r) /\ 1 \in 1 .. l + 1
    BY <1>5
  <2> QED
    BY <1>5, <1>8, <2>1, HornerValue
<1>10. \A k \in 1 .. m : DigitAt(s, k) = s[k]
  <2> TAKE k \in 1 .. m
  <2>1. k \in Int /\ k \in 1 .. Len(s)
    BY <1>5
  <2> QED
    BY <1>5, <2>1, DigitFacts
<1>11. \A k \in 1 .. l : DigitAt(r, k) = r[k]
  <2> TAKE k \in 1 .. l
  <2>1. k \in Int /\ k \in 1 .. Len(r)
    BY <1>5
  <2> QED
    BY <2>1, DigitFacts
<1>12. p \in [0 .. n -> Nat] /\ p[0] = 1 /\ \A k \in 1 .. n : p[k] = Base * p[k - 1]
  BY DEF BasePowers
<1> HIDE DEF l
<1> DEFINE g == [k \in 1 .. m + 1 |-> IF k > j THEN f[k - j] ELSE p[j + 1 - k] * f[1]]
<1>13. Horner(s, m, g)
  <2>1. ASSUME NEW k \in 1 .. m + 1 PROVE g[k] \in Int
    <3>1. CASE k > j
      <4>1. k - j \in 1 .. l + 1
        BY <1>1, <1>5, <3>1
      <4> QED
        BY <3>1, <4>1
    <3>2. CASE k <= j
      <4>1. p[j + 1 - k] \in Nat
        BY <1>1, <1>12, <3>2
      <4>2. g[k] = p[j + 1 - k] * f[1]
        BY <1>1, <1>5, <3>2
      <4> HIDE DEF g
      <4> QED
        BY <1>9, <4>1, <4>2
    <3> QED
      BY <1>1, <1>5, <3>1, <3>2
  <2>2. g[m + 1] = 0
    <3>1. m + 1 \in 1 .. m + 1 /\ m + 1 > j /\ (m + 1) - j = l + 1
      BY <1>1, <1>5
    <3>2. f[l + 1] = 0
      BY <1>8 DEF Horner
    <3>3. g[m + 1] = f[(m + 1) - j]
      BY <3>1
    <3> QED
      BY <3>1, <3>2, <3>3
  <2>3. ASSUME NEW k \in 1 .. m PROVE g[k] = DigitAt(s, k) + Base * g[k + 1]
    <3>1. k \in 1 .. m + 1 /\ k + 1 \in 1 .. m + 1 /\ k \in Int
      BY <1>5
    <3>2. CASE k > j
      <4>1. k - j \in 1 .. l /\ (k + 1) - j = (k - j) + 1
        BY <1>1, <1>5, <3>1, <3>2
      <4>2. f[k - j] = DigitAt(r, k - j) + Base * f[(k - j) + 1]
        BY <1>8, <4>1 DEF Horner
      <4>3. g[k] = f[k - j] /\ g[k + 1] = f[(k - j) + 1]
        BY <1>1, <3>1, <3>2, <4>1
      <4>4. DigitAt(s, k) = DigitAt(r, k - j)
        BY <1>1, <1>5, <1>7, <1>10, <1>11, <3>2, <4>1
      <4> QED
        BY <4>2, <4>3, <4>4
    <3>3. CASE k = j
      <4>1. g[k] = p[1] * f[1]
        BY <1>1, <3>1, <3>3
      <4>2. g[k + 1] = f[1]
        BY <1>1, <3>1, <3>3
      <4>3. 1 \in 1 .. n
        BY <3>1, <3>3
      <4>4. p[1] = Base
        BY <1>12, <4>3, BaseFacts
      <4>5. DigitAt(s, k) = 0
        BY <1>1, <1>6, <1>10, <3>3
      <4> HIDE DEF g
      <4> QED
        BY <1>9, <4>1, <4>2, <4>4, <4>5, BaseFacts
    <3>4. CASE k < j
      <4> DEFINE i == j - k
      <4>1. /\ i \in Nat /\ i + 1 \in 1 .. n /\ j + 1 - k = i + 1 /\ j + 1 - (k + 1) = i
            /\ (i + 1) - 1 = i /\ ~ k > j /\ ~ k + 1 > j
        BY <1>1, <3>1, <3>4
      <4>2. p[i + 1] = Base * p[i] /\ p[i] \in Nat
        BY <1>12, <4>1
      <4>3. g[k] = p[i + 1] * f[1]
        BY <3>1, <4>1
      <4>4. g[k + 1] = p[i] * f[1]
        BY <3>1, <4>1
      <4>5. DigitAt(s, k) = 0
        BY <1>1, <1>6, <1>10, <3>4
      <4> HIDE DEF g, i
      <4> DEFINE q == p[i]
      <4>6. q \in Nat
        BY <4>2
      <4> HIDE DEF q
      <4>7. (Base * q) * f[1] = 0 + Base * (q * f[1])
        BY <1>9, <4>6, BaseFacts
      <4> QED
        BY <4>2, <4>3, <4>4, <4>5, <4>7 DEF q
    <3> QED
      BY <1>1, <3>1, <3>2, <3>3, <3>4
  <2> HIDE DEF m
  <2>4. g \in [1 .. m + 1 -> Int]
    BY <2>1
  <2> HIDE DEF g
  <2> QED
    BY <2>2, <2>3, <2>4 DEF Horner
<1>14. g[1] = p[j] * f[1]
  <2>1. 1 \in 1 .. m + 1
    BY <1>5
  <2>2. CASE j = 0
    <3>1. g[1] = f[1]
      BY <2>1, <2>2
    <3> HIDE DEF g
    <3> QED
      BY <1>9, <1>12, <2>2, <3>1
  <2>3. CASE j # 0
    <3>1. ~ 1 > j /\ j + 1 - 1 = j
      BY <1>1, <2>3
    <3> QED
      BY <2>1, <3>1
  <2> QED
    BY <2>2, <2>3
<1>15. Value(s) = p[j] * Value(r)
  <2>1. m >= Len(s)
    BY <1>5
  <2> HIDE DEF g
  <2> QED
    BY <1>5, <1>9, <1>13, <1>14, <2>1, HornerValue
<1>16. ASSUME Top(r) PROVE Top(s)
  <2>1. l # 0 /\ r[l] # 0
    BY <1>16 DEF Top, l
  <2>2. m \in j + 1 .. m /\ m - j = l /\ m # 0
    BY <1>1, <1>5, <2>1
  <2>3. s[m] = r[l]
    BY <1>7, <2>2
  <2>4. s # << >>
    BY <1>5, <2>2
  <2> QED
    BY <1>5, <2>1, <2>3, <2>4 DEF Top
<1> QED
  BY <1>5, <1>15, <1>16 DEF s, l

-----------------------------------------------------------------------------
(* The sum grows by a row as the value of what is left to multiply by shrinks. *)
LEMMA RowStep ==
  ASSUME NEW q \in Nat, NEW v \in Nat, NEW d \in Nat, NEW u \in Nat
  PROVE  q * (v * d) + (Base * q) * (u * v) = q * ((d + Base * u) * v)
<1>1. (d + Base * u) * v = v * d + Base * (u * v)
  BY BaseFacts
<1> DEFINE x == v * d
           y == u * v
<1>2. x \in Nat /\ y \in Nat
  OBVIOUS
<1> HIDE DEF x, y
<1>3. q * (x + Base * y) = q * x + (Base * q) * y
  BY <1>2, BaseFacts
<1> QED
  BY <1>1, <1>3 DEF x, y

(* Sums of shifted rows: s[j] is what the first j digits of b make of a. *)
RowSums(a, b, s) ==
  s = [j \in 0 .. Len(b) |->
         IF j = 0 THEN << >> ELSE Plus(s[j - 1], Shift(j - 1, Row(a, b[j])))]

(* The sums of rows exist. *)
LEMMA RowSumsExist ==
  ASSUME NEW a \in Seq(Digit), NEW b \in Seq(Digit)
  PROVE  \E s : RowSums(a, b, s)
<1> DEFINE n == Len(b)
           step == [q \in Nat \X Seq(Digit) |->
                      IF q[1] \in 1 .. n THEN Plus(q[2], Shift(q[1] - 1, Row(a, b[q[1]])))
                      ELSE << >>]
<1>1. n \in Nat /\ DOMAIN b = 1 .. n
  OBVIOUS
<1>2. PICK p : BasePowers(p, n)
  BY <1>1, PowersExist
<1>3. ASSUME NEW j \in 1 .. n, NEW x \in Seq(Digit)
      PROVE  Plus(x, Shift(j - 1, Row(a, b[j]))) \in Seq(Digit)
  <2>1. b[j] \in Digit /\ j - 1 \in 0 .. n
    BY <1>1
  <2>2. Row(a, b[j]) \in Seq(Digit)
    BY <2>1, RowRight
  <2>3. Shift(j - 1, Row(a, b[j])) \in Seq(Digit)
    BY <1>1, <1>2, <2>1, <2>2, ShiftRight
  <2> QED
    BY <2>3, PlusRight
<1>4. step \in [Nat \X Seq(Digit) -> Seq(Digit)]
  BY <1>3, EmptyValue
<1>5. \A k \in 1 .. n, x \in Seq(Digit) :
        step[<< k, x >>] = Plus(x, Shift(k - 1, Row(a, b[k])))
  BY <1>1
<1> HIDE DEF step
<1>6. PICK s \in [0 .. n -> Seq(Digit)] : Follows(s, << >>, n, step)
  BY <1>1, <1>4, EmptyValue, Recursion
<1>7. \A k \in 1 .. n : s[k] = Plus(s[k - 1], Shift(k - 1, Row(a, b[k])))
  <2> TAKE k \in 1 .. n
  <2>1. k \in Nat /\ k - 1 \in 0 .. n
    BY <1>1
  <2>2. s[k - 1] \in Seq(Digit)
    BY <2>1
  <2> QED
    BY <1>5, <1>6, <2>2 DEF Follows
<1>8. \A k \in 0 .. n : s[k] = IF k = 0 THEN << >> ELSE Plus(s[k - 1], Shift(k - 1, Row(a, b[k])))
  BY <1>1, <1>6, <1>7 DEF Follows
<1>9. s = [k \in 0 .. n |-> s[k]]
  OBVIOUS
<1> QED
  BY <1>8, <1>9 DEF RowSums

(* A row is shifted by more than what is summed up has digits, or the highest
   digit of the sum is not 0. *)
LEMMA TimesRight ==
  ASSUME NEW a \in Seq(Digit), NEW b \in Seq(Digit)
  PROVE  /\ Times(a, b) \in Seq(Digit)
         /\ Value(Times(a, b)) = Value(a) * Value(b)
         /\ a # << >> /\ b # << >> => Times(a, b) # << >>
         /\ Top(a) /\ Top(b) => Top(Times(a, b))
         /\ a # << >> => Top(Times(a, b)) \/ Len(Times(a, b)) <= Len(a) + Len(b) - 1
<1> DEFINE n == Len(b)
           l == Len(a)
           va == Value(a)
           F(g) == g = [j \in 0 .. n |->
             IF j = 0 THEN << >> ELSE Plus(g[j - 1], [k \in 1 .. j - 1 |-> 0] \o Row(a, b[j]))]
<1>1. n \in Nat /\ DOMAIN b = 1 .. n /\ l \in Nat
  OBVIOUS
<1>2. \A g : F(g) <=> RowSums(a, b, g)
  BY DEF RowSums, Shift
<1>3. \E g : F(g)
  BY <1>2, RowSumsExist
<1>4. PICK s : F(s) /\ Times(a, b) = s[n]
  BY <1>3 DEF Times
<1>5. RowSums(a, b, s)
  BY <1>2, <1>4
<1>6. s[0] = << >> /\ \A j \in 1 .. n : s[j] = Plus(s[j - 1], Shift(j - 1, Row(a, b[j])))
  BY <1>1, <1>5 DEF RowSums
<1>7. PICK p : BasePowers(p, n)
  BY <1>1, PowersExist
<1>8. p \in [0 .. n -> Nat] /\ p[0] = 1 /\ \A k \in 1 .. n : p[k] = Base * p[k - 1]
  BY <1>7 DEF BasePowers
<1>9. PICK f \in [1 .. n + 1 -> Nat] : Horner(b, n, f)
  BY <1>1, HornerExists
<1>10. Value(b) = f[1]
  <2>1. n >= Len(b)
    BY <1>1
  <2> QED
    BY <1>1, <1>9, <2>1, HornerValue
<1>11. va \in Nat
  BY ValueType
<1>12. ASSUME NEW j \in 1 .. n
       PROVE  /\ b[j] \in Digit /\ b[j] \in Nat /\ j \in Nat /\ j - 1 \in 0 .. n
              /\ f[j] = b[j] + Base * f[j + 1] /\ f[j + 1] \in Nat /\ f[j] \in Nat
  <2>1. b[j] \in Digit /\ j \in Int /\ j \in 1 .. Len(b)
    BY <1>1
  <2>2. DigitAt(b, j) = b[j] /\ b[j] \in Nat
    BY <2>1, DigitFacts
  <2>3. j + 1 \in 1 .. n + 1 /\ j \in 1 .. n + 1 /\ j \in Nat /\ j - 1 \in 0 .. n
    BY <1>1
  <2> QED
    BY <1>9, <2>1, <2>2, <2>3 DEF Horner
<1> DEFINE row(j) == Shift(j - 1, Row(a, b[j]))
<1>13. ASSUME NEW j \in 1 .. n
       PROVE  /\ row(j) \in Seq(Digit)
              /\ Value(row(j)) = p[j - 1] * (va * b[j])
              /\ Len(row(j)) >= l + j - 1
              /\ Len(row(j)) > l + j - 1 => Top(row(j))
              /\ Top(a) /\ b[j] # 0 => Top(row(j))
  <2> DEFINE r == Row(a, b[j])
  <2>1. b[j] \in Digit /\ j \in Nat /\ j - 1 \in 0 .. n
    BY <1>12
  <2>2. /\ r \in Seq(Digit) /\ Value(r) = va * b[j]
        /\ Len(r) >= l
        /\ Len(r) > l => Top(r)
        /\ Top(a) /\ b[j] # 0 => Top(r)
    BY <2>1, RowRight
  <2> HIDE DEF r
  <2>3. /\ Shift(j - 1, r) \in Seq(Digit) /\ Len(Shift(j - 1, r)) = (j - 1) + Len(r)
        /\ Value(Shift(j - 1, r)) = p[j - 1] * Value(r)
        /\ Top(r) => Top(Shift(j - 1, r))
    BY <1>1, <1>7, <2>1, <2>2, ShiftRight
  <2>4. Len(r) \in Nat
    BY <2>2
  <2> HIDE DEF l, va
  <2> QED
    BY <1>1, <2>1, <2>2, <2>3, <2>4 DEF r
<1> HIDE DEF row
<1>14. \A j \in 1 .. n : s[j] = Plus(s[j - 1], row(j))
  BY <1>6 DEF row
<1> DEFINE Stage(j) ==
             /\ s[j] \in Seq(Digit)
             /\ j < n + 1 => Value(s[j]) + p[j] * (f[j + 1] * va) = f[1] * va
             /\ Top(s[j]) \/ Len(s[j]) <= l + j - 1 \/ l = 0
             /\ j > 0 /\ l > 0 => s[j] # << >>
<1>15. Stage(0)
  <2>1. s[0] = << >> /\ p[0] = 1 /\ s[0] \in Seq(Digit) /\ Value(s[0]) = 0 /\ Len(s[0]) = 0
    BY <1>6, <1>8, EmptyValue
  <2>2. f[1] \in Nat /\ 0 + 1 = 1
    BY <1>1
  <2> DEFINE x == f[1] * va
  <2>3. x \in Nat
    BY <1>11, <2>2
  <2> HIDE DEF x
  <2>4. 0 + 1 * x = x
    BY <2>3
  <2>5. Value(s[0]) + p[0] * (f[0 + 1] * va) = f[1] * va
    BY <2>1, <2>2, <2>4 DEF x
  <2>6. Len(s[0]) <= l + 0 - 1 \/ l = 0
    BY <1>1, <2>1
  <2> HIDE DEF l, n
  <2> QED
    BY <1>1, <2>1, <2>5, <2>6
<1>16. ASSUME NEW j \in 1 .. n, Stage(j - 1) PROVE Stage(j)
  <2>1. /\ b[j] \in Digit /\ b[j] \in Nat /\ j \in Nat /\ j - 1 \in 0 .. n /\ (j - 1) + 1 = j
        /\ f[j] = b[j] + Base * f[j + 1] /\ f[j + 1] \in Nat /\ f[j] \in Nat
        /\ j - 1 < n + 1
    BY <1>1, <1>12
  <2>2. s[j - 1] \in Seq(Digit) /\ s[j] = Plus(s[j - 1], row(j)) /\ row(j) \in Seq(Digit)
    BY <1>13, <1>14, <1>16
  <2>3. s[j] \in Seq(Digit) /\ Value(s[j]) = Value(s[j - 1]) + Value(row(j))
    BY <2>2, PlusRight
  <2>4. Value(s[j]) + p[j] * (f[j + 1] * va) = f[1] * va
    <3> DEFINE q == p[j - 1]
               d == b[j]
               u == f[j + 1]
               w == Value(s[j - 1])
    <3>1. w + q * ((d + Base * u) * va) = f[1] * va
      BY <1>16, <2>1
    <3>2. q \in Nat /\ d \in Nat /\ u \in Nat /\ w \in Nat /\ p[j] = Base * q
      BY <1>8, <2>1, <2>2, ValueType
    <3>3. Value(s[j]) = w + q * (va * d)
      BY <1>13, <2>3
    <3> HIDE DEF q, d, u, w, va
    <3>4. q * (va * d) + (Base * q) * (u * va) = q * ((d + Base * u) * va)
      BY <1>11, <3>2, RowStep
    <3> DEFINE x == q * (va * d)
               y == (Base * q) * (u * va)
    <3>5. x \in Int /\ y \in Int
      BY <1>11, <3>2, BaseFacts
    <3>6. Value(s[j]) = w + x /\ x + y = q * ((d + Base * u) * va)
      BY <3>3, <3>4
    <3> HIDE DEF x, y
    <3>7. (w + x) + y = w + (x + y)
      BY <3>2, <3>5
    <3>8. p[j] * (u * va) = y
      BY <3>2 DEF y
    <3> QED
      BY <3>1, <3>6, <3>7, <3>8 DEF u
  <2>5. /\ Len(s[j]) >= Longer(s[j - 1], row(j))
        /\ Len(s[j]) > Longer(s[j - 1], row(j)) => Top(s[j])
        /\ Len(s[j - 1]) >= Len(row(j)) /\ Top(s[j - 1]) => Top(s[j])
        /\ Len(row(j)) >= Len(s[j - 1]) /\ Top(row(j)) => Top(s[j])
    BY <2>2, PlusTop
  <2>6. /\ Longer(s[j - 1], row(j)) \in Nat
        /\ Longer(s[j - 1], row(j)) >= Len(s[j - 1]) /\ Longer(s[j - 1], row(j)) >= Len(row(j))
        /\ Longer(s[j - 1], row(j)) \in {Len(s[j - 1]), Len(row(j))}
    BY <2>2, LongerFacts
  <2>7. Len(s[j]) \in Nat /\ Len(s[j - 1]) \in Nat /\ Len(row(j)) \in Nat
    BY <2>2, <2>3
  <2>8. /\ Len(row(j)) >= l + j - 1
        /\ Len(row(j)) > l + j - 1 => Top(row(j))
    BY <1>13
  <2>9. Top(s[j - 1]) \/ Len(s[j - 1]) <= l + (j - 1) - 1 \/ l = 0
    BY <1>16
  <2> DEFINE u == Len(s[j])
             v == Len(s[j - 1])
             w == Len(row(j))
             m == Longer(s[j - 1], row(j))
  <2>10. Top(s[j]) \/ u <= l + j - 1 \/ l = 0
    <3>1. /\ u \in Nat /\ v \in Nat /\ w \in Nat /\ m \in Nat /\ l \in Nat /\ j \in Nat
          /\ u >= m /\ m \in {v, w} /\ w >= l + j - 1
          /\ u > m => Top(s[j])
          /\ v >= w /\ Top(s[j - 1]) => Top(s[j])
          /\ w >= v /\ Top(row(j)) => Top(s[j])
          /\ m >= v /\ m >= w
          /\ w > l + j - 1 => Top(row(j))
          /\ Top(s[j - 1]) \/ v <= l + (j - 1) - 1 \/ l = 0
      BY <1>1, <2>1, <2>5, <2>6, <2>7, <2>8, <2>9
    <3> HIDE DEF u, v, w, m, l
    <3> QED
      BY <3>1
  <2>11. l > 0 => s[j] # << >>
    <3>1. s[j] # << >> \/ Len(s[j]) = 0
      BY <2>3
    <3>2. l > 0 => Len(s[j]) > 0
      <4> HIDE DEF l
      <4> QED
        BY <1>1, <2>1, <2>5, <2>6, <2>7, <2>8
    <3> QED
      BY <3>1, <3>2
  <2> HIDE DEF l, n, va
  <2> QED
    BY <2>3, <2>4, <2>10, <2>11
<1>17. \A j \in 0 .. n : Stage(j)
  <2> DEFINE T == {j \in 0 .. n : Stage(j)}
  <2>1. 0 \in T
    BY <1>1, <1>15
  <2>2. ASSUME NEW k \in 0 .. n - 1, k \in T PROVE k + 1 \in T
    <3>1. k + 1 \in 1 .. n /\ (k + 1) - 1 = k /\ k + 1 \in 0 .. n
      BY <1>1
    <3>2. Stage(k)
      BY <2>2
    <3> HIDE DEF Stage
    <3>3. Stage((k + 1) - 1)
      BY <3>1, <3>2
    <3>4. Stage(k + 1)
      BY <1>16, <3>1, <3>3
    <3> QED
      BY <3>1, <3>4
  <2> HIDE DEF T
  <2>3. \A k \in 0 .. n : k \in T
    BY <1>1, <2>1, <2>2, InductionTo
  <2> QED
    BY <2>3 DEF T
<1>18. Value(s[n]) = va * Value(b)
  <2>1. Value(s[n]) + p[n] * (f[n + 1] * va) = f[1] * va
    <3>1. n \in 0 .. n /\ n < n + 1
      BY <1>1
    <3> QED
      BY <1>17, <3>1
  <2>2. f[n + 1] = 0 /\ n \in 0 .. n /\ 1 \in 1 .. n + 1
    BY <1>1, <1>9 DEF Horner
  <2>3. p[n] \in Nat /\ f[1] \in Nat /\ Value(s[n]) \in Nat
    BY <1>8, <1>17, <2>2, ValueType
  <2> DEFINE q == p[n]
  <2> HIDE DEF q, va
  <2>4. q * (0 * va) = 0
    <3>1. 0 * va = 0
      BY <1>11
    <3>2. q * 0 = 0
      BY <2>3 DEF q
    <3> QED
      BY <3>1, <3>2
  <2>5. Value(s[n]) = f[1] * va
    BY <2>1, <2>2, <2>3, <2>4 DEF q
  <2>6. f[1] * va = va * f[1]
    BY <1>11, <2>3
  <2> QED
    BY <1>10, <2>5, <2>6
<1>19. ASSUME a # << >>, b # << >> PROVE s[n] # << >>
  <2>1. n # 0 /\ l # 0 /\ n \in 0 .. n
    BY <1>1, <1>19
  <2>2. Stage(n)
    BY <1>17, <2>1
  <2> HIDE DEF n, l
  <2> QED
    BY <1>1, <2>1, <2>2
<1>20. ASSUME Top(a), Top(b) PROVE Top(s[n])
  <2>1. a # << >> /\ b # << >> /\ b[n] # 0
    BY <1>20 DEF Top
  <2>2. n # 0 /\ l # 0
    BY <2>1
  <2>3. n \in 1 .. n /\ n - 1 \in 0 .. n
    BY <1>1, <2>2
  <2>4. Stage(n - 1)
    BY <1>17, <2>3
  <2>5. /\ row(n) \in Seq(Digit) /\ Top(row(n)) /\ Len(row(n)) >= l + n - 1
    BY <1>13, <1>20, <2>1, <2>3
  <2>6. s[n - 1] \in Seq(Digit) /\ s[n] = Plus(s[n - 1], row(n))
    BY <1>14, <2>3, <2>4
  <2>7. /\ Len(s[n - 1]) >= Len(row(n)) /\ Top(s[n - 1]) => Top(s[n])
        /\ Len(row(n)) >= Len(s[n - 1]) /\ Top(row(n)) => Top(s[n])
    BY <2>5, <2>6, PlusTop
  <2>8. Top(s[n - 1]) \/ Len(s[n - 1]) <= l + (n - 1) - 1 \/ l = 0
    BY <2>4
  <2> DEFINE v == Len(s[n - 1])
             w == Len(row(n))
  <2>9. v \in Nat /\ w \in Nat
    BY <2>5, <2>6
  <2> HIDE DEF v, w, l, n
  <2>10. v >= w \/ w >= v
    BY <2>9
  <2>11. Top(s[n - 1]) \/ v <= l + (n - 1) - 1
    BY <2>2, <2>8 DEF v
  <2>12. w >= l + n - 1
    BY <2>5 DEF w
  <2>13. v <= l + (n - 1) - 1 => w >= v
    BY <1>1, <2>9, <2>12
  <2> QED
    BY <2>5, <2>7, <2>10, <2>11, <2>13 DEF v, w
<1>21. n \in 0 .. n
  BY <1>1
<1>22. s[n] \in Seq(Digit) /\ (Top(s[n]) \/ Len(s[n]) <= l + n - 1 \/ l = 0)
  BY <1>17, <1>21
<1>23. a # << >> => l # 0
  OBVIOUS
<1>24. a # << >> => Top(s[n]) \/ Len(s[n]) <= Len(a) + Len(b) - 1
  BY <1>22, <1>23
<1> HIDE DEF n, va
<1> QED
  BY <1>4, <1>18, <1>19, <1>20, <1>22, <1>24 DEF va

-----------------------------------------------------------------------------
(* The types of numbers and of the loops of a division *)

Digits == Seq(Digit) \ {<< >>}
Numeral == [is_negative : BOOLEAN, uvalue : Digits]
LoopState == [dividend : Digits, divisor_ : Digits, divisor : Digits,
              power_of_2 : Digits, quotient : Digits, remainder : Digits]

(* g goes on from c by step, within S. *)
Goes(g, c, n, step, S) ==
  g \in [0 .. n -> S] /\ g[0] = c /\ \A k \in 1 .. n : g[k] = step[g[k - 1]]

(* g does so as long as it is in S. *)
Starts(g, c, n, step, S) ==
  /\ g = [k \in 0 .. n |-> g[k]] /\ g[0] = c
  /\ \A k \in 1 .. n : g[k - 1] \in S => g[k] = step[g[k - 1]]

(* There is such a function, and what goes on as long as it is in S goes on. *)
LEMMA Iteration ==
  ASSUME NEW S, NEW c \in S, NEW n \in Nat, NEW step \in [S -> S]
  PROVE  /\ \E g : Goes(g, c, n, step, S)
         /\ \A g : Starts(g, c, n, step, S) => Goes(g, c, n, step, S)
<1> DEFINE st == [q \in Nat \X S |-> step[q[2]]]
<1>1. st \in [Nat \X S -> S]
  OBVIOUS
<1>2. \A k \in Nat, x \in S : st[<< k, x >>] = step[x]
  OBVIOUS
<1> HIDE DEF st
<1>3. PICK g \in [0 .. n -> S] : Follows(g, c, n, st)
  BY <1>1, Recursion
<1>4. \A k \in 1 .. n : g[k] = step[g[k - 1]]
  <2> TAKE k \in 1 .. n
  <2>1. k \in Nat /\ k - 1 \in 0 .. n
    OBVIOUS
  <2>2. g[k - 1] \in S
    BY <2>1
  <2> QED
    BY <1>2, <1>3, <2>1, <2>2 DEF Follows
<1>7. Goes(g, c, n, step, S)
  BY <1>3, <1>4 DEF Goes, Follows
<1>8. ASSUME NEW h, Starts(h, c, n, step, S) PROVE Goes(h, c, n, step, S)
  <2>1. h[0] = c /\ \A k \in 1 .. n : h[k - 1] \in S => h[k] = step[h[k - 1]]
    BY <1>8 DEF Starts
  <2> DEFINE T == {k \in 0 .. n : h[k] \in S}
  <2>2. 0 \in T
    BY <2>1
  <2>3. ASSUME NEW k \in 0 .. n - 1, k \in T PROVE k + 1 \in T
    <3>1. k + 1 \in 1 .. n /\ (k + 1) - 1 = k
      OBVIOUS
    <3>2. h[k + 1] = step[h[k]]
      BY <2>1, <2>3, <3>1
    <3> QED
      BY <2>3, <3>1, <3>2
  <2> HIDE DEF T
  <2>4. \A k \in 0 .. n : k \in T
    BY <2>2, <2>3, InductionTo
  <2>5. \A k \in 0 .. n : h[k] \in S
    BY <2>4 DEF T
  <2>6. h = [k \in 0 .. n |-> h[k]]
    BY <1>8 DEF Starts
  <2>7. \A k \in 1 .. n : k - 1 \in 0 .. n
    OBVIOUS
  <2>8. h \in [0 .. n -> S]
    BY <2>5, <2>6
  <2> QED
    BY <2>1, <2>5, <2>7, <2>8 DEF Goes
<1> QED
  BY <1>7, <1>8

(* The constants are vectors of digits. *)
LEMMA SmallDigits == Zero \in Digits /\ One \in Digits /\ Two \in Digits
BY SmallValues DEF Digits, Zero, One, Two

(* The operators of ubigint give vectors of at least one digit. *)
LEMMA DigitsOps ==
  ASSUME NEW a \in Digits, NEW b \in Digits
  PROVE  /\ Plus(a, b) \in Digits /\ Minus(a, b) \in Digits /\ Times(a, b) \in Digits
         /\ multiply_by_2(a) \in Digits /\ divide_by_2(a) \in Digits /\ Trim(a) \in Digits
<1>1. a \in Seq(Digit) /\ b \in Seq(Digit) /\ a # << >> /\ b # << >>
  BY DEF Digits
<1>2. Plus(a, b) \in Digits /\ Plus(a, a) \in Digits
  BY <1>1, PlusRight, PlusTrimmed DEF Digits
<1>3. Minus(a, b) \in Digits
  BY <1>1, MinusType DEF Digits
<1>4. Times(a, b) \in Digits
  BY <1>1, TimesRight DEF Digits
<1>5. divide_by_2(a) \in Digits
  BY <1>1, HalfRight DEF Digits
<1>6. Trim(a) \in Digits
  BY <1>1, TrimRight DEF Digits
<1> QED
  BY <1>2, <1>3, <1>4, <1>5, <1>6 DEF multiply_by_2

(* udivide starts in a state of its type. *)
LEMMA StartType ==
  ASSUME NEW a \in Digits, NEW b \in Digits
  PROVE  udivide_start(a, b) \in LoopState
BY SmallDigits DEF udivide_start, LoopState

(* One turn up. *)
LEMMA DoubleType ==
  ASSUME NEW s \in LoopState
  PROVE  /\ double(s) \in LoopState
         /\ double(s).dividend = s.dividend /\ double(s).divisor_ = s.divisor_
         /\ double(s).divisor = Plus(s.divisor, s.divisor)
         /\ double(s).power_of_2 = Plus(s.power_of_2, s.power_of_2)
         /\ double(s).quotient = s.quotient /\ double(s).remainder = s.remainder
<1>1. multiply_by_2(s.divisor) \in Digits /\ multiply_by_2(s.power_of_2) \in Digits
  <2>1. s.divisor \in Digits /\ s.power_of_2 \in Digits
    BY DEF LoopState
  <2> QED
    BY <2>1, DigitsOps
<1> QED
  BY <1>1 DEF double, LoopState, multiply_by_2

(* One turn down. *)
LEMMA HalveType ==
  ASSUME NEW s \in LoopState
  PROVE  /\ halve(s) \in LoopState
         /\ halve(s).dividend = s.dividend /\ halve(s).divisor_ = s.divisor_
         /\ halve(s).divisor = divide_by_2(s.divisor)
         /\ halve(s).power_of_2 = divide_by_2(s.power_of_2)
         /\ ~ Less(s.remainder, s.divisor) =>
              /\ halve(s).remainder = Minus(s.remainder, s.divisor)
              /\ halve(s).quotient = Plus(s.quotient, s.power_of_2)
         /\ Less(s.remainder, s.divisor) =>
              halve(s).quotient = s.quotient /\ halve(s).remainder = s.remainder
<1>1. s.divisor \in Digits /\ s.power_of_2 \in Digits /\ s.remainder \in Digits /\ s.quotient \in Digits
  BY DEF LoopState
<1>2. /\ divide_by_2(s.divisor) \in Digits /\ divide_by_2(s.power_of_2) \in Digits
      /\ Minus(s.remainder, s.divisor) \in Digits /\ Plus(s.quotient, s.power_of_2) \in Digits
  BY <1>1, DigitsOps
<1>3. CASE Less(s.remainder, s.divisor)
  <2>1. halve(s) = [s EXCEPT !.divisor = divide_by_2(@), !.power_of_2 = divide_by_2(@)]
    BY <1>3 DEF halve
  <2> QED
    BY <1>2, <1>3, <2>1 DEF LoopState
<1>4. CASE ~ Less(s.remainder, s.divisor)
  <2> DEFINE taken == [s EXCEPT !.remainder = Minus(@, s.divisor),
                                !.quotient = Plus(@, s.power_of_2)]
  <2>1. halve(s) = [taken EXCEPT !.divisor = divide_by_2(@), !.power_of_2 = divide_by_2(@)]
    BY <1>4 DEF halve
  <2>2. /\ taken \in LoopState
        /\ taken.dividend = s.dividend /\ taken.divisor_ = s.divisor_
        /\ taken.divisor = s.divisor /\ taken.power_of_2 = s.power_of_2
        /\ taken.remainder = Minus(s.remainder, s.divisor)
        /\ taken.quotient = Plus(s.quotient, s.power_of_2)
    BY <1>2 DEF LoopState
  <2> HIDE DEF taken
  <2> QED
    BY <1>2, <1>4, <2>1, <2>2 DEF LoopState
<1> QED
  BY <1>3, <1>4

Rise(s) == IF doubling(s) THEN double(s) ELSE s
Fall(s) == IF halving(s) THEN halve(s) ELSE s
Turns(a) == Base * (Len(a) + 1)

(* g goes from s on, a turn at a time. *)
Ups(g, s, n) ==
  g \in [0 .. n -> LoopState] /\ g[0] = s /\ \A k \in 1 .. n : g[k] = Rise(g[k - 1])
Downs(g, s, n) ==
  g \in [0 .. n -> LoopState] /\ g[0] = s /\ \A k \in 1 .. n : g[k] = Fall(g[k - 1])

(* The turns that udivide is given are a natural number. *)
LEMMA TurnsType ==
  ASSUME NEW a \in Seq(Digit)
  PROVE  Turns(a) \in Nat
<1>1. Len(a) + 1 \in Nat
  OBVIOUS
<1> QED
  BY <1>1, Multiples DEF Turns

(* What udivide gives is where the loops end. *)
LEMMA UdivideIs ==
  ASSUME NEW a \in Digits, NEW b \in Digits
  PROVE  \E up, down : /\ Ups(up, udivide_start(a, b), Turns(a))
                       /\ Downs(down, up[Turns(a)], Turns(a))
                       /\ udivide(a, b) = down[Turns(a)]
<1> DEFINE n == Turns(a)
           start == udivide_start(a, b)
           rise(s) == IF doubling(s) THEN double(s) ELSE s
           fall(s) == IF halving(s) THEN halve(s) ELSE s
           F(g) == g = [k \in 0 .. n |-> IF k = 0 THEN start ELSE rise(g[k - 1])]
           G(g, e) == g = [k \in 0 .. n |-> IF k = 0 THEN e ELSE fall(g[k - 1])]
<1>1. n \in Nat
  BY TurnsType DEF Digits
<1>2. start \in LoopState
  BY StartType
<1> HIDE DEF n, start
<1> DEFINE up_step == [s \in LoopState |-> rise(s)]
           down_step == [s \in LoopState |-> fall(s)]
<1>3. up_step \in [LoopState -> LoopState] /\ down_step \in [LoopState -> LoopState]
  BY DoubleType, HalveType
<1>4. \A s \in LoopState : up_step[s] = rise(s) /\ down_step[s] = fall(s)
  OBVIOUS
<1> HIDE DEF up_step, down_step
<1>5. \A g : Goes(g, start, n, up_step, LoopState) => F(g)
  <2> TAKE g
  <2> HAVE Goes(g, start, n, up_step, LoopState)
  <2>1. \A k \in 1 .. n : k - 1 \in 0 .. n
    BY <1>1
  <2>2. \A k \in 0 .. n : g[k] = IF k = 0 THEN start ELSE rise(g[k - 1])
    BY <1>1, <1>4, <2>1 DEF Goes
  <2>3. g = [k \in 0 .. n |-> g[k]]
    BY DEF Goes
  <2> QED
    BY <2>2, <2>3
<1>6. \A e, g : Goes(g, e, n, down_step, LoopState) => G(g, e)
  <2> TAKE e, g
  <2> HAVE Goes(g, e, n, down_step, LoopState)
  <2>1. \A k \in 1 .. n : k - 1 \in 0 .. n
    BY <1>1
  <2>2. \A k \in 0 .. n : g[k] = IF k = 0 THEN e ELSE fall(g[k - 1])
    BY <1>1, <1>4, <2>1 DEF Goes
  <2>3. g = [k \in 0 .. n |-> g[k]]
    BY DEF Goes
  <2> QED
    BY <2>2, <2>3
<1>7. ASSUME NEW g, F(g) PROVE Ups(g, start, n)
  <2>1. \A k \in 1 .. n : k - 1 \in 0 .. n /\ k # 0 /\ k \in 0 .. n
    BY <1>1
  <2>2. /\ g = [k \in 0 .. n |-> g[k]] /\ g[0] = start
        /\ \A k \in 1 .. n : g[k] = rise(g[k - 1])
    BY <1>1, <1>7, <2>1
  <2>3. Starts(g, start, n, up_step, LoopState)
    BY <1>4, <2>2 DEF Starts
  <2>4. Goes(g, start, n, up_step, LoopState)
    BY <1>1, <1>2, <1>3, <2>3, Iteration
  <2> QED
    BY <2>2, <2>4 DEF Ups, Goes, Rise
<1>8. ASSUME NEW e \in LoopState, NEW g, G(g, e) PROVE Downs(g, e, n)
  <2>1. \A k \in 1 .. n : k - 1 \in 0 .. n /\ k # 0 /\ k \in 0 .. n
    BY <1>1
  <2>2. /\ g = [k \in 0 .. n |-> g[k]] /\ g[0] = e
        /\ \A k \in 1 .. n : g[k] = fall(g[k - 1])
    BY <1>1, <1>8, <2>1
  <2>3. Starts(g, e, n, down_step, LoopState)
    BY <1>4, <2>2 DEF Starts
  <2>4. Goes(g, e, n, down_step, LoopState)
    BY <1>1, <1>3, <2>3, Iteration
  <2> QED
    BY <2>2, <2>4 DEF Downs, Goes, Fall
<1>9. \E g : F(g)
  <2>1. PICK g : Goes(g, start, n, up_step, LoopState)
    BY <1>1, <1>2, <1>3, Iteration
  <2> HIDE DEF F
  <2> QED
    BY <1>5, <2>1
<1>10. ASSUME NEW e \in LoopState PROVE \E g : G(g, e)
  <2>1. PICK g : Goes(g, e, n, down_step, LoopState)
    BY <1>1, <1>3, Iteration
  <2> HIDE DEF G
  <2> QED
    BY <1>6, <2>1
<1> DEFINE up == CHOOSE g : F(g)
           down == CHOOSE g : G(g, up[n])
<1>11. udivide(a, b) = down[n]
  BY DEF udivide, n, start, Turns
<1> HIDE DEF F, G
<1>12. Ups(up, start, n)
  BY <1>7, <1>9
<1> HIDE DEF up
<1>13. up[n] \in LoopState
  BY <1>1, <1>12 DEF Ups
<1>14. Downs(down, up[n], n)
  BY <1>8, <1>10, <1>13
<1> QED
  BY <1>11, <1>12, <1>14 DEF n, start

(* udivide ends in a state of its type. *)
LEMMA UdivideType ==
  ASSUME NEW a \in Digits, NEW b \in Digits
  PROVE  udivide(a, b) \in LoopState
<1>1. Turns(a) \in Nat
  BY TurnsType DEF Digits
<1> QED
  BY <1>1, UdivideIs DEF Downs

-----------------------------------------------------------------------------
(* The types of what the operators of bigint give *)

(* The operators of bigint give numbers. *)
LEMMA BigintOps ==
  ASSUME NEW a \in Numeral, NEW b \in Numeral
  PROVE  /\ SumOf(a, b) \in Numeral /\ DifferenceOf(a, b) \in Numeral
         /\ ProductOf(a, b) \in Numeral /\ QuotientOf(a, b) \in Numeral
         /\ RemainderOf(a, b) \in Numeral
<1> DEFINE x == a.uvalue
           y == b.uvalue
           p == a.is_negative
           q == b.is_negative
<1>1. x \in Digits /\ y \in Digits /\ p \in BOOLEAN /\ q \in BOOLEAN
  BY DEF Numeral
<1>2. \A u \in Digits, n \in BOOLEAN : bigint(u, n) \in Numeral
  BY DEF bigint, Numeral
<1>3. SumOf(a, b) \in Numeral
  <2>1. /\ Plus(x, y) \in Digits /\ Minus(x, y) \in Digits /\ Minus(y, x) \in Digits
    BY <1>1, DigitsOps
  <2> DEFINE pos == IF p THEN y ELSE x
             neg == IF p THEN x ELSE y
  <2>2. Minus(pos, neg) \in Digits /\ Minus(neg, pos) \in Digits
    BY <1>1, <2>1
  <2>3. SumOf(a, b) = IF p = q THEN bigint(Plus(x, y), p)
                      ELSE IF Less(pos, neg) THEN bigint(Minus(neg, pos), TRUE)
                      ELSE bigint(Minus(pos, neg), FALSE)
    BY DEF SumOf
  <2> HIDE DEF x, y, p, q, pos, neg
  <2> QED
    BY <1>1, <1>2, <2>1, <2>2, <2>3
<1>4. DifferenceOf(a, b) \in Numeral
  <2>1. Minus(x, y) \in Digits /\ Minus(y, x) \in Digits
    BY <1>1, DigitsOps
  <2> QED
    BY <1>2, <2>1 DEF DifferenceOf
<1>5. ProductOf(a, b) \in Numeral
  <2>1. Times(x, y) \in Digits /\ (p # q) \in BOOLEAN
    BY <1>1, DigitsOps
  <2> QED
    BY <1>2, <2>1 DEF ProductOf
<1>6. udivide(x, y).quotient \in Digits /\ udivide(x, y).remainder \in Digits /\ (p # q) \in BOOLEAN
  BY <1>1, UdivideType DEF LoopState
<1>7. QuotientOf(a, b) \in Numeral
  BY <1>2, <1>6 DEF QuotientOf
<1>8. RemainderOf(a, b) \in Numeral
  BY <1>2, <1>6 DEF RemainderOf
<1> QED
  BY <1>3, <1>4, <1>5, <1>7, <1>8

(* The constants of bigint are numbers. *)
LEMMA SmallNumerals == ZERO \in Numeral /\ ONE \in Numeral /\ TWO \in Numeral
BY SmallDigits DEF ZERO, ONE, TWO, bigint, Numeral

PowerState == [base : Numeral, exponent : Numeral, result : Numeral]

(* pow before its loop, and one turn of the loop. *)
PowerStart(a, b) ==
  [base |-> IF IsNegative(b) THEN QuotientOf(ONE, a) ELSE a,
   exponent |-> bigint(b.uvalue, FALSE), result |-> ONE]
PowerTurn(s) ==
  IF ~ IsPositive(s.exponent) THEN s
  ELSE IF RemainderOf(s.exponent, TWO) = ONE
    THEN [s EXCEPT !.result = ProductOf(@, s.base), !.exponent = DifferenceOf(@, ONE)]
    ELSE [s EXCEPT !.base = ProductOf(@, @), !.exponent = QuotientOf(@, TWO)]

(* A turn of pow keeps the type. *)
LEMMA PowerStepType ==
  ASSUME NEW s \in PowerState
  PROVE  PowerTurn(s) \in PowerState
<1>1. s.base \in Numeral /\ s.exponent \in Numeral /\ s.result \in Numeral
  BY DEF PowerState
<1>2. /\ ProductOf(s.result, s.base) \in Numeral /\ DifferenceOf(s.exponent, ONE) \in Numeral
      /\ ProductOf(s.base, s.base) \in Numeral /\ QuotientOf(s.exponent, TWO) \in Numeral
  BY <1>1, SmallNumerals, BigintOps
<1> QED
  BY <1>1, <1>2 DEF PowerTurn, PowerState

(* pow starts in a state of its type. *)
LEMMA PowerStartType ==
  ASSUME NEW a \in Numeral, NEW b \in Numeral
  PROVE  PowerStart(a, b) \in PowerState
<1>1. QuotientOf(ONE, a) \in Numeral
  BY SmallNumerals, BigintOps
<1>2. bigint(b.uvalue, FALSE) \in Numeral
  BY DEF bigint, Numeral
<1> QED
  BY <1>1, <1>2, SmallNumerals DEF PowerStart, PowerState

PowerTurns == 2 * Base * MaxExponent

(* g goes on from s, a turn of pow at a time. *)
Multiplies(g, s, n) ==
  g \in [0 .. n -> PowerState] /\ g[0] = s /\ \A k \in 1 .. n : g[k] = PowerTurn(g[k - 1])

(* The turns that pow is given are a natural number. *)
LEMMA PowerTurnsType == PowerTurns \in Nat
<1>1. 2 * Base \in Nat /\ MaxExponent \in Nat
  BY BaseFacts, YdcAssumption
<1> QED
  BY <1>1 DEF PowerTurns

(* What pow gives is the result of the last turn. *)
LEMMA PowerIs ==
  ASSUME NEW a \in Numeral, NEW b \in Numeral, a # ZERO
  PROVE  \E g : /\ Multiplies(g, PowerStart(a, b), PowerTurns)
                /\ PowerOf(a, b) = g[PowerTurns].result
<1> DEFINE n == PowerTurns
           start == PowerStart(a, b)
           turn(s) == IF ~ IsPositive(s.exponent) THEN s
             ELSE IF RemainderOf(s.exponent, TWO) = ONE
               THEN [s EXCEPT !.result = ProductOf(@, s.base),
                              !.exponent = DifferenceOf(@, ONE)]
               ELSE [s EXCEPT !.base = ProductOf(@, @), !.exponent = QuotientOf(@, TWO)]
           F(g) == g = [k \in 0 .. n |-> IF k = 0 THEN start ELSE turn(g[k - 1])]
           step == [s \in PowerState |-> turn(s)]
<1>1. n \in Nat /\ start \in PowerState
  BY PowerTurnsType, PowerStartType
<1>2. \A s : turn(s) = PowerTurn(s)
  BY DEF PowerTurn
<1>3. PowerOf(a, b) = (CHOOSE g : F(g))[n].result
  BY DEF PowerOf, PowerStart, PowerTurns
<1> HIDE DEF n, start, turn
<1>4. step \in [PowerState -> PowerState]
  BY <1>2, PowerStepType
<1>5. \A s \in PowerState : step[s] = turn(s)
  OBVIOUS
<1> HIDE DEF step
<1>6. \A g : Goes(g, start, n, step, PowerState) => F(g)
  <2> TAKE g
  <2> HAVE Goes(g, start, n, step, PowerState)
  <2>1. \A k \in 1 .. n : k - 1 \in 0 .. n
    BY <1>1
  <2>2. \A k \in 0 .. n : g[k] = IF k = 0 THEN start ELSE turn(g[k - 1])
    BY <1>1, <1>5, <2>1 DEF Goes
  <2>3. g = [k \in 0 .. n |-> g[k]]
    BY DEF Goes
  <2> QED
    BY <2>2, <2>3
<1>7. ASSUME NEW g, F(g) PROVE Multiplies(g, start, n)
  <2>1. \A k \in 1 .. n : k - 1 \in 0 .. n /\ k # 0 /\ k \in 0 .. n
    BY <1>1
  <2>2. /\ g = [k \in 0 .. n |-> g[k]] /\ g[0] = start
        /\ \A k \in 1 .. n : g[k] = turn(g[k - 1])
    BY <1>1, <1>7, <2>1
  <2>3. Starts(g, start, n, step, PowerState)
    BY <1>5, <2>2 DEF Starts
  <2>4. Goes(g, start, n, step, PowerState)
    BY <1>1, <1>4, <2>3, Iteration
  <2> QED
    BY <1>2, <2>2, <2>4 DEF Multiplies, Goes
<1>8. \E g : F(g)
  BY <1>1, <1>4, <1>6, Iteration
<1> HIDE DEF F
<1> QED
  BY <1>3, <1>7, <1>8 DEF n, start

(* pow gives a number. *)
LEMMA PowerType ==
  ASSUME NEW a \in Numeral, NEW b \in Numeral
  PROVE  PowerOf(a, b) \in Numeral
<1>1. CASE a = ZERO
  BY <1>1, SmallNumerals DEF PowerOf
<1>2. CASE a # ZERO
  <2>1. PICK g : /\ Multiplies(g, PowerStart(a, b), PowerTurns)
                 /\ PowerOf(a, b) = g[PowerTurns].result
    BY <1>2, PowerIs
  <2>2. PowerTurns \in 0 .. PowerTurns
    BY PowerTurnsType
  <2>3. g[PowerTurns] \in PowerState
    BY <2>1, <2>2 DEF Multiplies
  <2> QED
    BY <2>1, <2>3 DEF PowerState
<1> QED
  BY <1>1, <1>2

-----------------------------------------------------------------------------
(* The calculator *)

TypeInv ==
  /\ operand_stack \in Seq(Numeral) /\ Depth <= MaxDepth
  /\ oper \in {" ", "/", "%"}
  /\ loop \in LoopState
  /\ negative \in BOOLEAN
  /\ ydc \in {"scan", "double", "halve", "quit", "lost"}
  /\ ydc \in {"double", "halve"} => Depth < MaxDepth /\ loop.divisor_ # Zero

(* A number with a digit is a number. *)
LEMMA NumeralIsNumber == Numeral \subseteq Number
BY DEF Numeral, Number, Digits

(* The invariant implies the type. *)
LEMMA TypeInvIsType == TypeInv => TypeOK
<1> SUFFICES ASSUME TypeInv PROVE TypeOK
  OBVIOUS
<1>1. operand_stack \in Seq(Numeral) /\ \A k \in DOMAIN operand_stack : operand_stack[k] \in Numeral
  <2>1. operand_stack \in Seq(Numeral)
    BY DEF TypeInv
  <2> QED
    BY <2>1
<1>2. \A k \in DOMAIN operand_stack : operand_stack[k].uvalue # << >>
  BY <1>1 DEF Numeral, Digits
<1>3. operand_stack \in Seq(Number)
  <2>1. \A s \in Seq(Numeral) : s \in Seq(Number)
    BY NumeralIsNumber
  <2> QED
    BY <1>1, <2>1
<1>4. \A f \in DOMAIN loop : loop[f] \in Seq(Digit)
  BY DEF TypeInv, LoopState, Digits
<1> QED
  BY <1>2, <1>3, <1>4 DEF TypeInv, TypeOK

(* The calculator starts in its type. *)
LEMMA InitType == Init => TypeInv
<1> SUFFICES ASSUME Init PROVE TypeInv
  OBVIOUS
<1>1. operand_stack = << >> /\ Depth = 0 /\ ydc = "scan" /\ oper = " " /\ negative = FALSE
  BY DEF Init, Depth
<1>2. loop \in LoopState
  BY SmallDigits, StartType DEF Init, NoLoop
<1>3. 0 <= MaxDepth
  BY YdcAssumption
<1>4. operand_stack \in Seq(Numeral)
  <2>1. << >> \in Seq(Numeral)
    OBVIOUS
  <2> QED
    BY <1>1, <2>1
<1> QED
  BY <1>1, <1>2, <1>3, <1>4 DEF TypeInv

(* The numbers on the stack, and the stack without two or with one more. *)
LEMMA StackFacts ==
  ASSUME TypeInv
  PROVE  /\ Depth \in Nat
         /\ Depth >= 1 => Right \in Numeral
         /\ Depth >= 2 => Left \in Numeral
         /\ Depth >= 2 => Rest \in Seq(Numeral) /\ Len(Rest) = Depth - 2
         /\ \A n \in Numeral, s \in Seq(Numeral) :
              Append(s, n) \in Seq(Numeral) /\ Len(Append(s, n)) = Len(s) + 1
<1>1. operand_stack \in Seq(Numeral)
  BY DEF TypeInv
<1>2. Depth \in Nat /\ DOMAIN operand_stack = 1 .. Depth
  BY <1>1 DEF Depth
<1>3. Depth >= 2 => Rest \in Seq(Numeral) /\ Len(Rest) = Depth - 2
  <2>1. \A s \in Seq(Numeral) : Len(s) >= 2 =>
          SubSeq(s, 1, Len(s) - 2) \in Seq(Numeral) /\ Len(SubSeq(s, 1, Len(s) - 2)) = Len(s) - 2
    <3> TAKE s \in Seq(Numeral)
    <3> DEFINE m == Len(s) - 2
    <3>1. HAVE Len(s) >= 2
    <3>2. m \in 0 .. Len(s)
      BY <3>1
    <3>3. \A k \in 1 .. m : s[k] \in Numeral
      BY <3>2
    <3> HIDE DEF m
    <3>4. m \in Nat /\ \A k \in 1 .. m : k \in 1 .. Len(s)
      BY <3>2
    <3>5. SubSeq(s, 1, m) \in Seq(Numeral) /\ Len(SubSeq(s, 1, m)) = m
      BY <3>3, <3>4
    <3> QED
      BY <3>5 DEF m
  <2> QED
    BY <1>1, <2>1 DEF Depth, Rest
<1> QED
  BY <1>1, <1>2, <1>3 DEF Right, Left

(* A literal that is pushed keeps the type: it is trimmed, and an empty one is 0. *)
LEMMA OperandType ==
  ASSUME TypeInv, ydc = "scan", NEW n \in Literals, Operand(n)
  PROVE  TypeInv'
<1> DEFINE u == ubigint(n.uvalue)
<1>1. n.uvalue \in Seq(Digit) /\ n.is_negative \in BOOLEAN
  BY YdcAssumption DEF Number
<1>2. u \in Digits
  <2>1. n.uvalue # << >> => Trim(n.uvalue) \in Digits
    BY <1>1, TrimRight DEF Digits
  <2> QED
    BY <2>1, SmallDigits DEF ubigint
<1>3. bigint(u, n.is_negative) \in Numeral
  BY <1>1, <1>2 DEF bigint, Numeral
<1>4. operand_stack' = Append(operand_stack, bigint(u, n.is_negative)) /\ Depth < MaxDepth
  BY DEF Operand, Push
<1>5. operand_stack' \in Seq(Numeral) /\ Depth' = Depth + 1
  BY <1>3, <1>4, StackFacts DEF TypeInv, Depth
<1>6. Depth' <= MaxDepth
  BY <1>4, <1>5, StackFacts, YdcAssumption
<1> QED
  BY <1>5, <1>6 DEF TypeInv, Operand

(* A result that is pushed keeps the type. *)
LEMMA PushType ==
  ASSUME TypeInv, ydc = "scan", Depth >= 2, NEW n \in Numeral, do_arith(n)
  PROVE  TypeInv'
<1>1. operand_stack' = Append(Rest, n) /\ UNCHANGED << oper, loop, negative, ydc >>
  BY DEF do_arith, Push
<1>2. Rest \in Seq(Numeral) /\ Len(Rest) = Depth - 2
  BY StackFacts
<1>3. operand_stack' \in Seq(Numeral) /\ Depth' = (Depth - 2) + 1
  BY <1>1, <1>2, StackFacts DEF Depth
<1>4. Depth' <= MaxDepth
  <2>1. Depth \in Nat /\ Depth <= MaxDepth
    BY StackFacts DEF TypeInv
  <2> QED
    BY <1>3, <2>1, YdcAssumption
<1> QED
  BY <1>1, <1>3, <1>4 DEF TypeInv

(* A calculator that is lost keeps the type. *)
LEMMA LoseType == TypeInv /\ Lose => TypeInv'
BY DEF TypeInv, Lose, Depth

(* So does a step that changes nothing. *)
LEMMA UnchangedType == TypeInv /\ UNCHANGED vars => TypeInv'
BY DEF TypeInv, vars, Depth

(* The start of a division keeps the type; its result will have room. *)
LEMMA DivisionType ==
  ASSUME TypeInv, ydc = "scan", NEW op \in {"/", "%"}, do_division(op)
  PROVE  TypeInv'
<1>1. Depth >= 2
  BY DEF do_division
<1>2. CASE Right.uvalue = Zero
  BY <1>2, LoseType DEF do_division
<1>3. CASE Right.uvalue # Zero
  <2>1. /\ operand_stack' = Rest /\ oper' = op
        /\ loop' = udivide_start(Left.uvalue, Right.uvalue)
        /\ negative' = (Left.is_negative # Right.is_negative)
        /\ ydc' = "double"
    BY <1>3 DEF do_division
  <2>2. Left.uvalue \in Digits /\ Right.uvalue \in Digits
    BY <1>1, StackFacts DEF Numeral
  <2>3. loop' \in LoopState /\ loop'.divisor_ = Right.uvalue
    BY <2>1, <2>2, StartType DEF udivide_start
  <2>4. operand_stack' \in Seq(Numeral) /\ Depth' = Depth - 2
    BY <1>1, <2>1, StackFacts DEF Depth
  <2>5. Depth \in Nat /\ Depth <= MaxDepth
    BY StackFacts DEF TypeInv
  <2>6. Depth' < MaxDepth /\ Depth' <= MaxDepth
    BY <1>1, <2>4, <2>5, YdcAssumption
  <2>7. negative' \in BOOLEAN
    BY <2>1
  <2> QED
    BY <1>3, <2>1, <2>3, <2>4, <2>6, <2>7 DEF TypeInv
<1> QED
  BY <1>2, <1>3

(* Every command keeps the type. *)
LEMMA CommandType == TypeInv /\ Command => TypeInv'
<1> SUFFICES ASSUME TypeInv, Command PROVE TypeInv'
  OBVIOUS
<1>1. ydc = "scan"
  BY DEF Command
<1>2. ASSUME NEW n \in Literals, Operand(n) PROVE TypeInv'
  BY <1>1, <1>2, OperandType
<1>3. CASE StackEmpty \/ do_printall \/ do_print \/ do_debug \/ unimplemented
  BY <1>3, UnchangedType
     DEF StackEmpty, do_printall, do_print, do_debug, unimplemented, PrintsOnly
<1>4. ASSUME Depth >= 2 PROVE Left \in Numeral /\ Right \in Numeral
  BY <1>4, StackFacts
<1>5. CASE do_arith(SumOf(Left, Right)) \/ do_arith(DifferenceOf(Left, Right))
           \/ do_arith(ProductOf(Left, Right))
  <2>1. Depth >= 2
    BY <1>5 DEF do_arith
  <2> QED
    BY <1>1, <1>4, <1>5, <2>1, BigintOps, PushType
<1>6. CASE do_power
  <2>1. Depth >= 2
    BY <1>6 DEF do_power
  <2> QED
    BY <1>1, <1>4, <1>6, <2>1, PowerType, LoseType, PushType DEF do_power
<1>7. ASSUME NEW op \in {"/", "%"}, do_division(op) PROVE TypeInv'
  BY <1>1, <1>7, DivisionType
<1>8. CASE do_clear
  <2>1. operand_stack' = << >> /\ Depth' = 0
    BY <1>8 DEF do_clear, Depth
  <2>2. << >> \in Seq(Numeral) /\ 0 <= MaxDepth
    BY YdcAssumption
  <2> QED
    BY <1>1, <1>8, <2>1, <2>2 DEF do_clear, TypeInv
<1>9. CASE do_dup
  <2>1. CASE Lose
    BY <2>1, LoseType
  <2>2. CASE /\ Depth \in 1 .. MaxDepth - 1
             /\ operand_stack' = Append(operand_stack, Right)
             /\ UNCHANGED << oper, loop, negative, ydc >>
    <3>1. Right \in Numeral
      BY <2>2, StackFacts
    <3>2. operand_stack' \in Seq(Numeral) /\ Depth' = Depth + 1
      BY <2>2, <3>1, StackFacts DEF TypeInv, Depth
    <3>3. Depth' <= MaxDepth
      BY <2>2, <3>2, StackFacts, YdcAssumption
    <3> QED
      BY <1>1, <2>2, <3>2, <3>3 DEF TypeInv
  <2> QED
    BY <1>9, <2>1, <2>2 DEF do_dup
<1>10. CASE do_quit
  BY <1>1, <1>10 DEF do_quit, TypeInv, Depth
<1> QED
  BY <1>2, <1>3, <1>5, <1>6, <1>7, <1>8, <1>9, <1>10 DEF Command

(* So does a turn up. *)
LEMMA DoublesType == TypeInv /\ Doubles => TypeInv'
<1> SUFFICES ASSUME TypeInv, Doubles PROVE TypeInv'
  OBVIOUS
<1>1. CASE Lose
  BY <1>1, LoseType
<1>2. CASE loop' = double(loop) /\ UNCHANGED << operand_stack, oper, negative, ydc >>
  <2>1. loop' \in LoopState /\ loop'.divisor_ = loop.divisor_
    BY <1>2, DoubleType DEF TypeInv
  <2> QED
    BY <1>2, <2>1 DEF TypeInv, Depth
<1>3. CASE ydc' = "halve" /\ UNCHANGED << operand_stack, oper, loop, negative >>
  BY <1>3 DEF Doubles, TypeInv, Depth
<1> QED
  BY <1>1, <1>2, <1>3 DEF Doubles

(* So does a turn down, and the end of a division. *)
LEMMA HalvesType == TypeInv /\ Halves => TypeInv'
<1> SUFFICES ASSUME TypeInv, Halves PROVE TypeInv'
  OBVIOUS
<1>1. CASE loop' = halve(loop) /\ UNCHANGED << operand_stack, oper, negative, ydc >>
  <2>1. loop' \in LoopState /\ loop'.divisor_ = loop.divisor_
    BY <1>1, HalveType DEF TypeInv
  <2> QED
    BY <1>1, <2>1 DEF TypeInv, Depth
<1>2. CASE /\ operand_stack' = Append(operand_stack,
                bigint(IF oper = "/" THEN loop.quotient ELSE loop.remainder, negative))
           /\ ydc' = "scan"
           /\ oper' = " " /\ loop' = NoLoop /\ negative' = FALSE
  <2> DEFINE n == bigint(IF oper = "/" THEN loop.quotient ELSE loop.remainder, negative)
  <2>1. n \in Numeral
    BY DEF TypeInv, LoopState, bigint, Numeral
  <2>2. operand_stack' = Append(operand_stack, n)
    BY <1>2
  <2> HIDE DEF n
  <2>3. operand_stack' \in Seq(Numeral) /\ Depth' = Depth + 1
    BY <2>1, <2>2, StackFacts DEF TypeInv, Depth
  <2>4. Depth < MaxDepth
    BY DEF Halves, TypeInv
  <2>5. Depth' <= MaxDepth
    BY <2>3, <2>4, StackFacts, YdcAssumption
  <2>6. loop' \in LoopState
    BY <1>2, SmallDigits, StartType DEF NoLoop
  <2> QED
    BY <1>2, <2>3, <2>5, <2>6 DEF TypeInv
<1> QED
  BY <1>1, <1>2 DEF Halves

(* The type of every variable holds in every state of the calculator, for any
   base, literals and bounds. *)
THEOREM TypeCorrect == Spec => []TypeOK
<1>1. TypeInv /\ [Next]_vars => TypeInv'
  BY CommandType, DoublesType, HalvesType, UnchangedType DEF Next
<1> QED
  BY InitType, <1>1, TypeInvIsType, PTL DEF Spec

-----------------------------------------------------------------------------
(* A division is that of natural numbers *)

(* At every turn no number has zeros in front, and the divisor that is doubled
   is not 0. *)
LoopInv ==
  Exact =>
    /\ \A f \in DOMAIN loop : Trimmed(loop[f])
    /\ Value(loop.divisor_) > 0
    /\ ydc = "double" => Value(loop.divisor) > 0

IInv == TypeInv /\ LoopInv

(* The variables of Division while there is no exact division, and while there
   is one. *)
LEMMA AtRest == ~ Exact => Natural!Idle
BY DEF Natural!Idle, Quantity

(* The same of the next state. *)
LEMMA AtRestNext == ~ Exact' => Natural!Idle'
BY DEF Natural!Idle, Quantity

(* Without an exact division before and after a step, Division stutters. *)
LEMMA RestStays == ~ Exact /\ ~ Exact' => UNCHANGED Natural!vars
<1> SUFFICES ASSUME ~ Exact, ~ Exact' PROVE UNCHANGED Natural!vars
  OBVIOUS
<1>1. Natural!Idle /\ Natural!Idle'
  BY AtRest, AtRestNext
<1> QED
  BY <1>1 DEF Natural!Idle, Natural!vars

(* What the loops have, turned into numbers. *)
LEMMA StateFacts ==
  ASSUME NEW s \in LoopState
  PROVE  /\ s.dividend \in Seq(Digit) /\ s.dividend # << >> /\ Value(s.dividend) \in Nat
         /\ s.divisor_ \in Seq(Digit) /\ s.divisor_ # << >> /\ Value(s.divisor_) \in Nat
         /\ s.divisor \in Seq(Digit) /\ s.divisor # << >> /\ Value(s.divisor) \in Nat
         /\ s.power_of_2 \in Seq(Digit) /\ s.power_of_2 # << >> /\ Value(s.power_of_2) \in Nat
         /\ s.quotient \in Seq(Digit) /\ s.quotient # << >> /\ Value(s.quotient) \in Nat
         /\ s.remainder \in Seq(Digit) /\ s.remainder # << >> /\ Value(s.remainder) \in Nat
         /\ DOMAIN s = {"dividend", "divisor_", "divisor", "power_of_2", "quotient", "remainder"}
<1>1. /\ s.dividend \in Digits /\ s.divisor_ \in Digits /\ s.divisor \in Digits
      /\ s.power_of_2 \in Digits /\ s.quotient \in Digits /\ s.remainder \in Digits
      /\ DOMAIN s = {"dividend", "divisor_", "divisor", "power_of_2", "quotient", "remainder"}
  BY DEF LoopState
<1>2. \A d \in Digits : d \in Seq(Digit) /\ d # << >> /\ Value(d) \in Nat
  BY ValueType DEF Digits
<1> QED
  BY <1>1, <1>2

(* No number of a state of the loops has zeros in front. *)
AllTrimmed(s) == \A f \in DOMAIN s : Trimmed(s[f])

(* That is six conditions. *)
LEMMA AllTrimmedIs ==
  ASSUME NEW s \in LoopState
  PROVE  AllTrimmed(s) <=> /\ Trimmed(s.dividend) /\ Trimmed(s.divisor_) /\ Trimmed(s.divisor)
                           /\ Trimmed(s.power_of_2) /\ Trimmed(s.quotient)
                           /\ Trimmed(s.remainder)
<1>1. DOMAIN s = {"dividend", "divisor_", "divisor", "power_of_2", "quotient", "remainder"}
  BY StateFacts
<1> QED
  BY <1>1 DEF AllTrimmed

(* The state in which an exact division starts. *)
LEMMA StartExact ==
  ASSUME NEW a \in Digits, NEW b \in Digits, Trimmed(a), Trimmed(b), b # Zero
  PROVE  /\ AllTrimmed(udivide_start(a, b)) /\ Value(b) > 0
         /\ udivide_start(a, b).dividend = a /\ udivide_start(a, b).divisor_ = b
         /\ udivide_start(a, b).divisor = b /\ udivide_start(a, b).power_of_2 = One
         /\ udivide_start(a, b).quotient = Zero /\ udivide_start(a, b).remainder = a
<1>1. /\ udivide_start(a, b).dividend = a /\ udivide_start(a, b).divisor_ = b
      /\ udivide_start(a, b).divisor = b /\ udivide_start(a, b).power_of_2 = One
      /\ udivide_start(a, b).quotient = Zero /\ udivide_start(a, b).remainder = a
  BY DEF udivide_start
<1>2. AllTrimmed(udivide_start(a, b))
  BY <1>1, StartType, SmallValues, AllTrimmedIs
<1>3. b \in Seq(Digit) /\ b # << >> /\ Value(b) \in Nat
  BY ValueType DEF Digits
<1>4. Value(b) # 0
  BY <1>3, OnlyZero
<1>5. Value(b) > 0
  BY <1>3, <1>4
<1> QED
  BY <1>1, <1>2, <1>5

(* A turn up doubles two numbers and the rest is as it was. *)
LEMMA DoubleExact ==
  ASSUME NEW s \in LoopState, AllTrimmed(s)
  PROVE  /\ doubling(s) <=> Value(s.divisor) < Value(s.remainder)
         /\ AllTrimmed(double(s))
         /\ Value(double(s).divisor) = 2 * Value(s.divisor)
         /\ Value(double(s).power_of_2) = 2 * Value(s.power_of_2)
<1> DEFINE t == double(s)
<1>1. /\ Trimmed(s.dividend) /\ Trimmed(s.divisor_) /\ Trimmed(s.divisor)
      /\ Trimmed(s.power_of_2) /\ Trimmed(s.quotient) /\ Trimmed(s.remainder)
  BY AllTrimmedIs
<1>2. doubling(s) <=> Value(s.divisor) < Value(s.remainder)
  BY <1>1, StateFacts, LessRight DEF doubling
<1>3. /\ t \in LoopState /\ t.dividend = s.dividend /\ t.divisor_ = s.divisor_
      /\ t.divisor = Plus(s.divisor, s.divisor)
      /\ t.power_of_2 = Plus(s.power_of_2, s.power_of_2)
      /\ t.quotient = s.quotient /\ t.remainder = s.remainder
  BY DoubleType
<1> HIDE DEF t
<1>4. Trimmed(t.divisor) /\ Trimmed(t.power_of_2)
  BY <1>1, <1>3, StateFacts, PlusTrimmed
<1>5. AllTrimmed(t)
  BY <1>1, <1>3, <1>4, AllTrimmedIs
<1>6. /\ Value(t.divisor) = Value(s.divisor) + Value(s.divisor)
      /\ Value(t.power_of_2) = Value(s.power_of_2) + Value(s.power_of_2)
  BY <1>3, StateFacts, PlusRight
<1>7. \A x \in Nat : x + x = 2 * x
  OBVIOUS
<1>8. Value(t.divisor) = 2 * Value(s.divisor) /\ Value(t.power_of_2) = 2 * Value(s.power_of_2)
  BY <1>6, <1>7, StateFacts
<1> QED
  BY <1>2, <1>5, <1>8 DEF t

(* A turn down subtracts if it can, and halves. *)
LEMMA HalveExact ==
  ASSUME NEW s \in LoopState, AllTrimmed(s)
  PROVE  /\ halving(s) <=> Value(s.power_of_2) > 0
         /\ AllTrimmed(halve(s))
         /\ Value(halve(s).divisor) = Value(s.divisor) \div 2
         /\ Value(halve(s).power_of_2) = Value(s.power_of_2) \div 2
         /\ \/ /\ Value(s.divisor) <= Value(s.remainder)
               /\ Value(halve(s).remainder) = Value(s.remainder) - Value(s.divisor)
               /\ Value(halve(s).quotient) = Value(s.quotient) + Value(s.power_of_2)
            \/ /\ Value(s.divisor) > Value(s.remainder)
               /\ halve(s).quotient = s.quotient /\ halve(s).remainder = s.remainder
<1> DEFINE t == halve(s)
<1>1. /\ Trimmed(s.dividend) /\ Trimmed(s.divisor_) /\ Trimmed(s.divisor)
      /\ Trimmed(s.power_of_2) /\ Trimmed(s.quotient) /\ Trimmed(s.remainder)
  BY AllTrimmedIs
<1>2. halving(s) <=> Value(s.power_of_2) > 0
  BY <1>1, StateFacts, OnlyZero DEF halving
<1>3. /\ t \in LoopState /\ t.dividend = s.dividend /\ t.divisor_ = s.divisor_
      /\ t.divisor = divide_by_2(s.divisor) /\ t.power_of_2 = divide_by_2(s.power_of_2)
      /\ ~ Less(s.remainder, s.divisor) =>
           /\ t.remainder = Minus(s.remainder, s.divisor)
           /\ t.quotient = Plus(s.quotient, s.power_of_2)
      /\ Less(s.remainder, s.divisor) =>
           t.quotient = s.quotient /\ t.remainder = s.remainder
  BY HalveType
<1> HIDE DEF t
<1>4. /\ Trimmed(t.divisor) /\ Trimmed(t.power_of_2)
      /\ Value(t.divisor) = Value(s.divisor) \div 2
      /\ Value(t.power_of_2) = Value(s.power_of_2) \div 2
  BY <1>3, StateFacts, HalfRight
<1>5. CASE Less(s.remainder, s.divisor)
  <2>1. Value(s.remainder) < Value(s.divisor)
    BY <1>1, <1>5, StateFacts, LessRight
  <2>2. Value(s.divisor) > Value(s.remainder)
    BY <2>1, StateFacts
  <2>3. AllTrimmed(t)
    BY <1>1, <1>3, <1>4, <1>5, AllTrimmedIs
  <2> QED
    BY <1>2, <1>3, <1>4, <1>5, <2>2, <2>3 DEF t
<1>6. CASE ~ Less(s.remainder, s.divisor)
  <2>1. ~ Value(s.remainder) < Value(s.divisor)
    BY <1>1, <1>6, StateFacts, LessRight
  <2>2. Value(s.divisor) <= Value(s.remainder)
    BY <2>1, StateFacts
  <2>3. Len(s.divisor) <= Len(s.remainder)
    <3>1. ~ Len(s.remainder) < Len(s.divisor)
      BY <1>6 DEF Less
    <3>2. Len(s.remainder) \in Nat /\ Len(s.divisor) \in Nat
      BY StateFacts
    <3> QED
      BY <3>1, <3>2
  <2>4. Value(t.remainder) = Value(s.remainder) - Value(s.divisor)
    <3>1. t.remainder = Minus(s.remainder, s.divisor)
      BY <1>3, <1>6
    <3>2. /\ s.remainder \in Seq(Digit) /\ s.remainder # << >>
          /\ s.divisor \in Seq(Digit)
      BY StateFacts
    <3> QED
      BY <2>2, <2>3, <3>1, <3>2, MinusRight
  <2>5. Value(t.quotient) = Value(s.quotient) + Value(s.power_of_2)
    BY <1>3, <1>6, StateFacts, PlusRight
  <2>6. Trimmed(t.remainder)
    BY <1>3, <1>6, StateFacts, MinusType
  <2>7. Trimmed(t.quotient)
    BY <1>1, <1>3, <1>6, StateFacts, PlusTrimmed
  <2>8. AllTrimmed(t)
    BY <1>1, <1>3, <1>4, <2>6, <2>7, AllTrimmedIs
  <2> QED
    BY <1>2, <1>4, <2>2, <2>4, <2>5, <2>8 DEF t
<1> QED
  BY <1>5, <1>6

(* What the variables of Division are while an exact division is going on. *)
LEMMA ExactIs ==
  ASSUME Exact
  PROVE  /\ Quantity("dividend") = Value(loop.dividend)
         /\ Quantity("divisor_") = Value(loop.divisor_)
         /\ Quantity("divisor") = Value(loop.divisor)
         /\ Quantity("power_of_2") = Value(loop.power_of_2)
         /\ Quantity("quotient") = Value(loop.quotient)
         /\ Quantity("remainder") = Value(loop.remainder)
BY DEF Quantity

(* The same of the next state. *)
LEMMA ExactIsNext ==
  ASSUME Exact'
  PROVE  /\ Quantity("dividend")' = Value(loop'.dividend)
         /\ Quantity("divisor_")' = Value(loop'.divisor_)
         /\ Quantity("divisor")' = Value(loop'.divisor)
         /\ Quantity("power_of_2")' = Value(loop'.power_of_2)
         /\ Quantity("quotient")' = Value(loop'.quotient)
         /\ Quantity("remainder")' = Value(loop'.remainder)
BY DEF Quantity

(* What a step of the calculator does to a division on numbers. *)
Maps == LoopInv' /\ [Natural!Next]_(Natural!vars)

(* A step outside exact divisions maps to a stutter. *)
LEMMA RestMaps == ~ Exact /\ ~ Exact' => Maps
BY RestStays DEF Maps, LoopInv

(* So does one that leaves the loop alone. *)
LEMMA UnchangedMaps ==
  ASSUME IInv, UNCHANGED << loop, ydc >>
  PROVE  Maps
<1>1. Exact' <=> Exact
  BY DEF Exact
<1>2. LoopInv'
  BY <1>1 DEF IInv, LoopInv, Exact
<1>3. UNCHANGED Natural!vars
  BY <1>1 DEF Natural!vars, Quantity
<1> QED
  BY <1>2, <1>3 DEF Maps

(* The start of an exact division maps to Start. *)
LEMMA DivisionMaps ==
  ASSUME IInv, ydc = "scan", NEW op \in {"/", "%"}, do_division(op)
  PROVE  Maps
<1>1. ~ Exact
  BY DEF Exact
<1>2. CASE Right.uvalue = Zero
  <2>1. ~ Exact'
    BY <1>2 DEF do_division, Lose, Exact
  <2> QED
    BY <1>1, <2>1, RestMaps
<1>3. CASE Right.uvalue # Zero
  <2> DEFINE a == Left.uvalue
             b == Right.uvalue
  <2>1. loop' = udivide_start(a, b) /\ ydc' = "double" /\ Depth >= 2
    BY <1>3 DEF do_division
  <2>2. a \in Digits /\ b \in Digits
    BY <2>1, StackFacts DEF Numeral, IInv
  <2>3. CASE ~ Exact'
    BY <1>1, <2>3, RestMaps
  <2>4. CASE Exact'
    <3>1. Trimmed(a) /\ Trimmed(b)
      BY <2>1, <2>4 DEF Exact, udivide_start
    <3> HIDE DEF a, b
    <3>2. /\ AllTrimmed(loop') /\ Value(b) > 0
          /\ loop'.dividend = a /\ loop'.divisor_ = b
          /\ loop'.divisor = b /\ loop'.power_of_2 = One
          /\ loop'.quotient = Zero /\ loop'.remainder = a
      BY <1>3, <2>1, <2>2, <3>1, StartExact DEF b
    <3>3. LoopInv'
      BY <2>4, <3>2 DEF LoopInv, AllTrimmed
    <3>4. Value(a) \in Nat /\ Value(b) \in Nat
      BY <2>2, ValueType DEF Digits
    <3>5. Value(b) \in Nat \ {0}
      BY <3>2, <3>4
    <3>6. Natural!Idle
      BY <1>1, AtRest
    <3>7. Natural!Start
      BY <1>1, <2>1, <2>4, <3>2, <3>4, <3>5, ExactIsNext, SmallValues DEF Natural!Start
    <3> QED
      BY <3>3, <3>7 DEF Maps, Natural!Next
  <2> QED
    BY <2>3, <2>4
<1> QED
  BY <1>2, <1>3

(* Every other command maps to a stutter. *)
LEMMA CommandMaps == IInv /\ Command => Maps
<1> SUFFICES ASSUME IInv, Command PROVE Maps
  OBVIOUS
<1>1. ydc = "scan"
  BY DEF Command
<1>2. ASSUME NEW op \in {"/", "%"}, do_division(op) PROVE Maps
  BY <1>1, <1>2, DivisionMaps
<1>3. CASE ydc' \in {"scan", "quit", "lost"}
  <2>1. ~ Exact /\ ~ Exact'
    BY <1>1, <1>3 DEF Exact
  <2> QED
    BY <2>1, RestMaps
<1>4. ASSUME NEW n \in Literals, Operand(n) PROVE Maps
  BY <1>1, <1>3, <1>4 DEF Operand
<1>5. CASE StackEmpty \/ do_printall \/ do_print \/ do_debug \/ unimplemented
  BY <1>1, <1>3, <1>5
     DEF StackEmpty, do_printall, do_print, do_debug, unimplemented, PrintsOnly, vars
<1>6. CASE \/ do_arith(SumOf(Left, Right)) \/ do_arith(DifferenceOf(Left, Right))
           \/ do_arith(ProductOf(Left, Right))
  BY <1>1, <1>3, <1>6 DEF do_arith
<1>7. CASE do_power
  BY <1>1, <1>3, <1>7 DEF do_power, do_arith, Lose
<1>8. CASE do_clear \/ do_dup \/ do_quit
  BY <1>1, <1>3, <1>8 DEF do_clear, do_dup, do_quit, Lose
<1> QED
  BY <1>2, <1>4, <1>5, <1>6, <1>7, <1>8 DEF Command

(* A turn up maps to Double or Turn; an exact division is never endless. *)
LEMMA DoublesMap == IInv /\ Doubles => Maps
<1> SUFFICES ASSUME IInv, Doubles PROVE Maps
  OBVIOUS
<1>1. ydc = "double" /\ loop \in LoopState
  BY DEF Doubles, IInv, TypeInv
<1>2. CASE ~ Exact
  <2>1. loop'.dividend = loop.dividend /\ loop'.divisor_ = loop.divisor_
    BY <1>1, DoubleType DEF Doubles, Lose
  <2>2. ~ Exact'
    BY <1>1, <1>2, <2>1 DEF Exact
  <2> QED
    BY <1>2, <2>2, RestMaps
<1>3. CASE Exact
  <2>1. /\ AllTrimmed(loop) /\ Value(loop.divisor_) > 0 /\ Value(loop.divisor) > 0
        /\ Trimmed(loop.dividend) /\ Trimmed(loop.divisor_)
    BY <1>1, <1>3 DEF IInv, LoopInv, AllTrimmed, Exact
  <2>2. ~ endless(loop)
    <3>1. loop.divisor \in Seq(Digit)
      BY <1>1, StateFacts
    <3>2. SUFFICES ASSUME \A k \in DOMAIN loop.divisor : loop.divisor[k] = 0 PROVE FALSE
      BY DEF endless
    <3>3. Value(loop.divisor) = 0
      BY <3>1, <3>2, AllZero
    <3> QED
      BY <2>1, <3>3
  <2>3. CASE /\ doubling(loop)
             /\ loop' = double(loop)
             /\ UNCHANGED << operand_stack, oper, negative, ydc >>
    <3>1. /\ loop' \in LoopState /\ loop'.dividend = loop.dividend
          /\ loop'.divisor_ = loop.divisor_
          /\ loop'.quotient = loop.quotient /\ loop'.remainder = loop.remainder
      BY <1>1, <2>3, DoubleType
    <3>2. /\ Value(loop.divisor) < Value(loop.remainder)
          /\ AllTrimmed(loop')
          /\ Value(loop'.divisor) = 2 * Value(loop.divisor)
          /\ Value(loop'.power_of_2) = 2 * Value(loop.power_of_2)
      BY <1>1, <2>1, <2>3, DoubleExact
    <3>3. Exact'
      BY <1>1, <2>1, <2>3, <3>1 DEF Exact
    <3>4. 2 * Value(loop.divisor) > 0
      BY <1>1, <2>1, StateFacts
    <3>5. LoopInv'
      BY <2>1, <3>1, <3>2, <3>4 DEF LoopInv, AllTrimmed
    <3>6. Natural!Double
      BY <1>1, <1>3, <2>3, <3>1, <3>2, <3>3, ExactIs, ExactIsNext DEF Natural!Double
    <3> QED
      BY <3>5, <3>6 DEF Maps, Natural!Next
  <2>4. CASE /\ ~ doubling(loop)
             /\ ydc' = "halve"
             /\ UNCHANGED << operand_stack, oper, loop, negative >>
    <3>1. Value(loop.divisor) >= Value(loop.remainder)
      <4>1. ~ Value(loop.divisor) < Value(loop.remainder)
        BY <1>1, <2>1, <2>4, DoubleExact
      <4> QED
        BY <1>1, <4>1, StateFacts
    <3>2. Exact'
      BY <2>1, <2>4 DEF Exact
    <3>3. LoopInv'
      BY <2>1, <2>4 DEF LoopInv, AllTrimmed
    <3>4. Natural!Turn
      BY <1>1, <1>3, <2>4, <3>1, <3>2, ExactIs, ExactIsNext DEF Natural!Turn
    <3> QED
      BY <3>3, <3>4 DEF Maps, Natural!Next
  <2> QED
    BY <2>2, <2>3, <2>4 DEF Doubles
<1> QED
  BY <1>2, <1>3

(* A turn down maps to Halve, and the end to Finish. *)
LEMMA HalvesMap == IInv /\ Halves => Maps
<1> SUFFICES ASSUME IInv, Halves PROVE Maps
  OBVIOUS
<1>1. ydc = "halve" /\ loop \in LoopState
  BY DEF Halves, IInv, TypeInv
<1>2. CASE ~ Exact
  <2>1. CASE ydc' = "scan"
    <3>1. ~ Exact'
      BY <2>1 DEF Exact
    <3> QED
      BY <1>2, <3>1, RestMaps
  <2>2. CASE loop' = halve(loop) /\ ydc' = ydc
    <3>1. loop'.dividend = loop.dividend /\ loop'.divisor_ = loop.divisor_
      BY <1>1, <2>2, HalveType
    <3>2. ~ Exact'
      BY <1>2, <2>2, <3>1 DEF Exact
    <3> QED
      BY <1>2, <3>2, RestMaps
  <2> QED
    BY <2>1, <2>2 DEF Halves
<1>3. CASE Exact
  <2>1. /\ AllTrimmed(loop) /\ Value(loop.divisor_) > 0
        /\ Trimmed(loop.dividend) /\ Trimmed(loop.divisor_)
    BY <1>1, <1>3 DEF IInv, LoopInv, AllTrimmed, Exact
  <2>2. CASE /\ halving(loop)
             /\ loop' = halve(loop)
             /\ UNCHANGED << operand_stack, oper, negative, ydc >>
    <3>1. /\ loop' \in LoopState /\ loop'.dividend = loop.dividend
          /\ loop'.divisor_ = loop.divisor_
      BY <1>1, <2>2, HalveType
    <3>2. /\ Value(loop.power_of_2) > 0
          /\ AllTrimmed(loop')
          /\ Value(loop'.divisor) = Value(loop.divisor) \div 2
          /\ Value(loop'.power_of_2) = Value(loop.power_of_2) \div 2
          /\ \/ /\ Value(loop.divisor) <= Value(loop.remainder)
                /\ Value(loop'.remainder) = Value(loop.remainder) - Value(loop.divisor)
                /\ Value(loop'.quotient) = Value(loop.quotient) + Value(loop.power_of_2)
             \/ /\ Value(loop.divisor) > Value(loop.remainder)
                /\ loop'.quotient = loop.quotient /\ loop'.remainder = loop.remainder
      BY <1>1, <2>1, <2>2, HalveExact
    <3>3. Exact'
      BY <1>1, <2>1, <2>2, <3>1 DEF Exact
    <3>4. LoopInv'
      BY <1>1, <2>1, <2>2, <3>1, <3>2 DEF LoopInv, AllTrimmed
    <3>5. Natural!Halve
      BY <1>1, <1>3, <2>2, <3>1, <3>2, <3>3, ExactIs, ExactIsNext DEF Natural!Halve
    <3> QED
      BY <3>4, <3>5 DEF Maps, Natural!Next
  <2>3. CASE ~ halving(loop) /\ ydc' = "scan"
    <3>1. ~ Exact'
      BY <2>3 DEF Exact
    <3>2. LoopInv' /\ Natural!Idle'
      BY <3>1, AtRestNext DEF LoopInv
    <3>3. Value(loop.power_of_2) = 0
      <4>1. ~ Value(loop.power_of_2) > 0
        BY <1>1, <2>1, <2>3, HalveExact
      <4> QED
        BY <1>1, <4>1, StateFacts
    <3>4. Natural!Finish
      BY <1>1, <1>3, <3>2, <3>3, ExactIs DEF Natural!Finish
    <3> QED
      BY <3>2, <3>4 DEF Maps, Natural!Next
  <2> QED
    BY <2>2, <2>3 DEF Halves
<1> QED
  BY <1>2, <1>3

(* Every step keeps the type. *)
LEMMA TypeStep == TypeInv /\ [Next]_vars => TypeInv'
BY CommandType, DoublesType, HalvesType, UnchangedType DEF Next

(* Every step keeps the invariant and maps to a step of Division or a stutter. *)
LEMMA StepMaps == IInv /\ [Next]_vars => IInv' /\ [Natural!Next]_(Natural!vars)
<1> SUFFICES ASSUME IInv, [Next]_vars PROVE Maps /\ TypeInv'
  BY DEF Maps, IInv
<1>1. TypeInv'
  BY TypeStep DEF IInv
<1>2. CASE UNCHANGED vars
  <2>1. loop' = loop /\ ydc' = ydc
    BY <1>2 DEF vars
  <2>2. UNCHANGED << loop, ydc >>
    BY <2>1
  <2>3. Maps
    BY <2>2, UnchangedMaps
  <2> QED
    BY <1>1, <2>3
<1>3. CASE Next
  <2>1. Command \/ Doubles \/ Halves
    BY <1>3 DEF Next
  <2> QED
    BY <1>1, <2>1, CommandMaps, DoublesMap, HalvesMap
<1> QED
  BY <1>1, <1>2, <1>3

(* The invariant holds at first, and the initial state maps to an initial state. *)
LEMMA InitMaps == Init => IInv /\ Natural!Init
<1> SUFFICES ASSUME Init PROVE IInv /\ Natural!Init
  OBVIOUS
<1>1. ~ Exact
  BY DEF Init, Exact
<1> QED
  BY <1>1, InitType, AtRest DEF IInv, LoopInv, Natural!Init

(* The loops on digits do on the numbers they stand for what Division does. *)
THEOREM DivisionImplemented == Spec => ImplementsDivision
<1> QED
  BY InitMaps, StepMaps, PTL DEF Spec, ImplementsDivision, Natural!Spec

Proved == INSTANCE DivisionProofs WITH
  phase <- IF Exact THEN ydc ELSE "idle",
  dividend <- Quantity("dividend"), divisor_ <- Quantity("divisor_"),
  divisor <- Quantity("divisor"), power_of_2 <- Quantity("power_of_2"),
  quotient <- Quantity("quotient"), remainder <- Quantity("remainder")

(* What a division leaves is what Euclid's leaves. *)
THEOREM QuotientCorrect == Spec => []QuotientRight
<1>1. Natural!Init => Proved!Init
  BY DEF Natural!Init, Natural!Idle, Proved!Init, Proved!Idle
<1>2. [Natural!Next]_(Natural!vars) => [Proved!Next]_(Proved!vars)
  BY DEF Natural!Next, Natural!vars, Natural!Start, Natural!Double, Natural!Turn,
         Natural!Halve, Natural!Finish, Natural!Idle,
         Proved!Next, Proved!vars, Proved!Start, Proved!Double, Proved!Turn,
         Proved!Halve, Proved!Finish, Proved!Idle
<1>3. Proved!QuotientRight => QuotientRight
  BY DEF Proved!QuotientRight, QuotientRight, Natural!QuotientRight
<1>4. Proved!Spec => []Proved!QuotientRight
  BY Proved!DivisionCorrect
<1> QED
  BY InitMaps, StepMaps, <1>1, <1>2, <1>3, <1>4, PTL DEF Spec, Proved!Spec

-----------------------------------------------------------------------------
(* Sums, differences and products *)

(* The sign of a number and what its digits stand for. *)
LEMMA ValueOfIs ==
  ASSUME NEW u \in Digits, NEW s \in BOOLEAN
  PROVE  /\ Value(u) \in Nat /\ ValueOf(bigint(u, s)) \in Int
         /\ ValueOf(bigint(u, s)) = IF s THEN 0 - Value(u) ELSE Value(u)
         /\ bigint(u, s).uvalue = u /\ bigint(u, s).is_negative = s
<1>1. Value(u) \in Nat
  BY ValueType DEF Digits
<1>2. bigint(u, s).uvalue = u /\ bigint(u, s).is_negative = s
  BY DEF bigint
<1> DEFINE x == Value(u)
<1>3. ValueOf(bigint(u, s)) = IF s THEN - x ELSE x
  BY <1>2 DEF ValueOf
<1> HIDE DEF x
<1>4. x \in Nat /\ - x = 0 - x
  BY <1>1 DEF x
<1> QED
  BY <1>1, <1>2, <1>3, <1>4 DEF x

(* What a number is made of and stands for. *)
LEMMA NumeralIs ==
  ASSUME NEW a \in Numeral
  PROVE  /\ a.uvalue \in Digits /\ a.uvalue \in Seq(Digit) /\ a.uvalue # << >>
         /\ a.is_negative \in BOOLEAN /\ a = bigint(a.uvalue, a.is_negative)
         /\ Value(a.uvalue) \in Nat /\ ValueOf(a) \in Int
         /\ ValueOf(a) = IF a.is_negative THEN 0 - Value(a.uvalue) ELSE Value(a.uvalue)
<1>1. a.uvalue \in Digits /\ a.is_negative \in BOOLEAN /\ a = bigint(a.uvalue, a.is_negative)
  BY DEF Numeral, bigint
<1> DEFINE u == a.uvalue
           s == a.is_negative
<1>2. u \in Seq(Digit) /\ u # << >>
  BY <1>1 DEF Digits
<1>3. /\ Value(u) \in Nat /\ ValueOf(bigint(u, s)) \in Int
      /\ ValueOf(bigint(u, s)) = IF s THEN 0 - Value(u) ELSE Value(u)
  BY <1>1, ValueOfIs
<1> QED
  BY <1>1, <1>2, <1>3

(* The lesser of two numbers of digits is taken from the greater. *)
LEMMA TakenAway ==
  ASSUME NEW x \in Digits, NEW y \in Digits, Trimmed(x), Trimmed(y)
  PROVE  /\ Less(x, y) => /\ Value(Minus(y, x)) = Value(y) - Value(x)
                          /\ Value(x) < Value(y)
         /\ ~ Less(x, y) => /\ Value(Minus(x, y)) = Value(x) - Value(y)
                            /\ Value(y) <= Value(x)
         /\ Minus(x, y) \in Digits /\ Trimmed(Minus(x, y))
         /\ Minus(y, x) \in Digits /\ Trimmed(Minus(y, x))
<1>1. /\ x \in Seq(Digit) /\ x # << >> /\ y \in Seq(Digit) /\ y # << >>
      /\ Value(x) \in Nat /\ Value(y) \in Nat /\ Len(x) \in Nat /\ Len(y) \in Nat
  BY ValueType DEF Digits
<1>2. Less(x, y) <=> Value(x) < Value(y)
  BY <1>1, LessRight
<1>3. Less(x, y) => Len(x) <= Len(y)
  BY <1>1 DEF Less
<1>4. ~ Less(x, y) => Len(y) <= Len(x)
  BY <1>1 DEF Less
<1>5. ASSUME Less(x, y) PROVE Value(Minus(y, x)) = Value(y) - Value(x)
  <2>1. Value(x) <= Value(y)
    BY <1>1, <1>2, <1>5
  <2> QED
    BY <1>1, <1>3, <1>5, <2>1, MinusRight
<1>6. ASSUME ~ Less(x, y) PROVE Value(Minus(x, y)) = Value(x) - Value(y) /\ Value(y) <= Value(x)
  <2>1. Value(y) <= Value(x)
    BY <1>1, <1>2, <1>6
  <2> QED
    BY <1>1, <1>4, <1>6, <2>1, MinusRight
<1>7. /\ Minus(x, y) \in Digits /\ Trimmed(Minus(x, y))
      /\ Minus(y, x) \in Digits /\ Trimmed(Minus(y, x))
  BY <1>1, MinusType DEF Digits
<1> QED
  BY <1>2, <1>5, <1>6, <1>7

(* Sums are right and have no zeros in front. *)
LEMMA SumRight ==
  ASSUME NEW a \in Numeral, NEW b \in Numeral, Trimmed(a.uvalue), Trimmed(b.uvalue)
  PROVE  /\ ValueOf(SumOf(a, b)) = ValueOf(a) + ValueOf(b)
         /\ Trimmed(SumOf(a, b).uvalue)
<1> DEFINE x == a.uvalue
           y == b.uvalue
           p == a.is_negative
           q == b.is_negative
           pos == IF p THEN y ELSE x
           neg == IF p THEN x ELSE y
           vp == Value(pos)
           vn == Value(neg)
<1>1. /\ x \in Digits /\ y \in Digits /\ p \in BOOLEAN /\ q \in BOOLEAN
      /\ Value(x) \in Nat /\ Value(y) \in Nat
      /\ ValueOf(a) = IF p THEN 0 - Value(x) ELSE Value(x)
      /\ ValueOf(b) = IF q THEN 0 - Value(y) ELSE Value(y)
  BY NumeralIs
<1>2. SumOf(a, b) = IF p = q THEN bigint(Plus(x, y), p)
                    ELSE IF Less(pos, neg) THEN bigint(Minus(neg, pos), TRUE)
                    ELSE bigint(Minus(pos, neg), FALSE)
  BY DEF SumOf
<1>3. Trimmed(x) /\ Trimmed(y)
  OBVIOUS
<1> HIDE DEF x, y, p, q
<1>4. /\ pos \in Digits /\ neg \in Digits /\ Trimmed(pos) /\ Trimmed(neg)
      /\ vp \in Nat /\ vn \in Nat
  BY <1>1, <1>3
<1>5. CASE p = q
  <2>1. Plus(x, y) \in Digits
    BY <1>1, DigitsOps
  <2>2. Trimmed(Plus(x, y)) /\ Value(Plus(x, y)) = Value(x) + Value(y)
    BY <1>1, <1>3, PlusRight, PlusTrimmed DEF Digits
  <2>3. /\ ValueOf(SumOf(a, b)) = IF p THEN 0 - Value(Plus(x, y)) ELSE Value(Plus(x, y))
        /\ SumOf(a, b).uvalue = Plus(x, y)
    BY <1>1, <1>2, <1>5, <2>1, ValueOfIs
  <2> QED
    BY <1>1, <1>5, <2>2, <2>3
<1>6. CASE p # q
  <2>1. ValueOf(a) + ValueOf(b) = vp - vn
    <3>1. CASE p
      <4>1. ~ q /\ vp = Value(y) /\ vn = Value(x)
        BY <1>1, <1>6, <3>1
      <4> HIDE DEF vp, vn
      <4> QED
        BY <1>1, <3>1, <4>1
    <3>2. CASE ~ p
      <4>1. q /\ vp = Value(x) /\ vn = Value(y)
        BY <1>1, <1>6, <3>2
      <4> HIDE DEF vp, vn
      <4> QED
        BY <1>1, <3>2, <4>1
    <3> QED
      BY <3>1, <3>2
  <2> HIDE DEF pos, neg
  <2>2. CASE Less(pos, neg)
    <3>1. Value(Minus(neg, pos)) = vn - vp /\ Minus(neg, pos) \in Digits /\ Trimmed(Minus(neg, pos))
      BY <1>4, <2>2, TakenAway
    <3>2. /\ ValueOf(SumOf(a, b)) = 0 - Value(Minus(neg, pos))
          /\ SumOf(a, b).uvalue = Minus(neg, pos)
      BY <1>2, <1>6, <2>2, <3>1, ValueOfIs
    <3> HIDE DEF vp, vn
    <3> QED
      BY <1>4, <2>1, <3>1, <3>2
  <2>3. CASE ~ Less(pos, neg)
    <3>1. Value(Minus(pos, neg)) = vp - vn /\ Minus(pos, neg) \in Digits /\ Trimmed(Minus(pos, neg))
      BY <1>4, <2>3, TakenAway
    <3>2. /\ ValueOf(SumOf(a, b)) = Value(Minus(pos, neg))
          /\ SumOf(a, b).uvalue = Minus(pos, neg)
      BY <1>2, <1>6, <2>3, <3>1, ValueOfIs
    <3> HIDE DEF vp, vn
    <3> QED
      BY <1>4, <2>1, <3>1, <3>2
  <2> QED
    BY <2>2, <2>3
<1> QED
  BY <1>5, <1>6

(* Differences of numbers that are not negative are right, and all have no
   zeros in front. *)
LEMMA DifferenceRight ==
  ASSUME NEW a \in Numeral, NEW b \in Numeral, Trimmed(a.uvalue), Trimmed(b.uvalue)
  PROVE  /\ ~ a.is_negative /\ ~ b.is_negative =>
              ValueOf(DifferenceOf(a, b)) = ValueOf(a) - ValueOf(b)
         /\ Trimmed(DifferenceOf(a, b).uvalue)
         /\ Value(b.uvalue) <= Value(a.uvalue) => ~ DifferenceOf(a, b).is_negative
<1> DEFINE x == a.uvalue
           y == b.uvalue
<1>1. /\ x \in Digits /\ y \in Digits /\ Value(x) \in Nat /\ Value(y) \in Nat
      /\ ValueOf(a) = IF a.is_negative THEN 0 - Value(x) ELSE Value(x)
      /\ ValueOf(b) = IF b.is_negative THEN 0 - Value(y) ELSE Value(y)
  BY NumeralIs
<1>2. DifferenceOf(a, b) = IF Less(x, y) THEN bigint(Minus(y, x), TRUE)
                           ELSE bigint(Minus(x, y), FALSE)
  BY DEF DifferenceOf
<1>3. Trimmed(x) /\ Trimmed(y)
  OBVIOUS
<1> HIDE DEF x, y
<1>4. CASE Less(x, y)
  <2>1. /\ Value(Minus(y, x)) = Value(y) - Value(x) /\ Minus(y, x) \in Digits
        /\ Trimmed(Minus(y, x)) /\ Value(x) < Value(y)
    BY <1>1, <1>3, <1>4, TakenAway
  <2>2. /\ ValueOf(DifferenceOf(a, b)) = 0 - Value(Minus(y, x))
        /\ DifferenceOf(a, b).uvalue = Minus(y, x)
    BY <1>2, <1>4, <2>1, ValueOfIs
  <2>3. ~ Value(y) <= Value(x)
    BY <1>1, <2>1
  <2>4. ~ a.is_negative /\ ~ b.is_negative =>
          ValueOf(DifferenceOf(a, b)) = ValueOf(a) - ValueOf(b)
    BY <1>1, <2>1, <2>2
  <2> QED
    BY <2>1, <2>2, <2>3, <2>4 DEF y, x
<1>5. CASE ~ Less(x, y)
  <2>1. /\ Value(Minus(x, y)) = Value(x) - Value(y) /\ Minus(x, y) \in Digits
        /\ Trimmed(Minus(x, y))
    BY <1>1, <1>3, <1>5, TakenAway
  <2>2. /\ ValueOf(DifferenceOf(a, b)) = Value(Minus(x, y))
        /\ DifferenceOf(a, b).uvalue = Minus(x, y)
        /\ ~ DifferenceOf(a, b).is_negative
    BY <1>2, <1>5, <2>1, ValueOfIs
  <2>3. ~ a.is_negative /\ ~ b.is_negative =>
          ValueOf(DifferenceOf(a, b)) = ValueOf(a) - ValueOf(b)
    BY <1>1, <2>1, <2>2
  <2> QED
    BY <2>1, <2>2, <2>3
<1> QED
  BY <1>4, <1>5

(* A product is 0 only if a factor is. *)
LEMMA ProductOfSigns ==
  /\ \A m, n \in Nat : m * n \in Nat /\ (m * n # 0 <=> m # 0 /\ n # 0)
  /\ \A m, n \in Int : /\ (0 - m) * n = 0 - m * n /\ m * (0 - n) = 0 - m * n
                       /\ (0 - m) * (0 - n) = m * n
<1>1. \A m, n \in Nat : m * n \in Nat
  OBVIOUS
<1>2. ASSUME NEW m \in Nat, NEW n \in Nat, m # 0, n # 0 PROVE m * n # 0
  <2>1. m >= 1 /\ n >= 1
    BY <1>2
  <2>2. m * n >= 1
    BY <2>1
  <2> QED
    BY <2>2
<1>3. \A m, n \in Nat : (m = 0 => m * n = 0) /\ (n = 0 => m * n = 0)
  OBVIOUS
<1>4. \A m, n \in Int : /\ (0 - m) * n = 0 - m * n /\ m * (0 - n) = 0 - m * n
                        /\ (0 - m) * (0 - n) = m * n
  OBVIOUS
<1> QED
  BY <1>1, <1>2, <1>3, <1>4

(* Products are right, and those of numbers without zeros in front that are
   not 0 have none. *)
LEMMA ProductRight ==
  ASSUME NEW a \in Numeral, NEW b \in Numeral
  PROVE  /\ ValueOf(ProductOf(a, b)) = ValueOf(a) * ValueOf(b)
         /\ ProductOf(a, b).uvalue = Times(a.uvalue, b.uvalue)
         /\ Top(a.uvalue) /\ Top(b.uvalue) => Top(ProductOf(a, b).uvalue)
<1> DEFINE x == a.uvalue
           y == b.uvalue
           p == a.is_negative
           q == b.is_negative
           v == Value(x)
           w == Value(y)
<1>1. /\ x \in Digits /\ y \in Digits /\ p \in BOOLEAN /\ q \in BOOLEAN
      /\ v \in Nat /\ w \in Nat
      /\ ValueOf(a) = IF p THEN 0 - v ELSE v
      /\ ValueOf(b) = IF q THEN 0 - w ELSE w
  BY NumeralIs
<1>2. ProductOf(a, b) = bigint(Times(x, y), p # q)
  BY DEF ProductOf
<1> HIDE DEF x, y, p, q
<1>3. Times(x, y) \in Digits /\ (p # q) \in BOOLEAN
  BY <1>1, DigitsOps
<1>4. Value(Times(x, y)) = v * w /\ (Top(x) /\ Top(y) => Top(Times(x, y)))
  BY <1>1, TimesRight DEF Digits
<1> DEFINE sign == p # q
<1>5. sign <=> ~ (p <=> q)
  BY <1>1
<1> HIDE DEF sign
<1>6. /\ ValueOf(ProductOf(a, b)) = IF sign THEN 0 - v * w ELSE v * w
      /\ ProductOf(a, b).uvalue = Times(x, y)
  BY <1>2, <1>3, <1>4, ValueOfIs DEF sign
<1> HIDE DEF v, w
<1>7. /\ (0 - v) * w = 0 - v * w /\ v * (0 - w) = 0 - v * w
      /\ (0 - v) * (0 - w) = v * w
  BY <1>1, ProductOfSigns
<1>8. ValueOf(ProductOf(a, b)) = ValueOf(a) * ValueOf(b)
  BY <1>1, <1>5, <1>6, <1>7
<1> QED
  BY <1>4, <1>6, <1>8 DEF x, y

-----------------------------------------------------------------------------
(* Powers *)

(* g gives the powers of b up to the n-th. *)
PowersOf(g, b, n) ==
  g \in [0 .. n -> Int] /\ g[0] = 1 /\ \A k \in 1 .. n : g[k] = b * g[k - 1]

(* The powers of a number exist. *)
LEMMA PowersOfExist ==
  ASSUME NEW b \in Int, NEW n \in Nat
  PROVE  \E g : PowersOf(g, b, n)
<1> DEFINE step == [x \in Int |-> b * x]
<1>1. step \in [Int -> Int]
  OBVIOUS
<1>2. PICK g : Goes(g, 1, n, step, Int)
  <2> HIDE DEF step
  <2>1. 1 \in Int
    OBVIOUS
  <2> QED
    BY <1>1, <2>1, Iteration
<1>3. \A k \in 1 .. n : g[k] = b * g[k - 1]
  <2> TAKE k \in 1 .. n
  <2>1. k - 1 \in 0 .. n
    OBVIOUS
  <2>2. g[k - 1] \in Int
    BY <1>2, <2>1 DEF Goes
  <2> QED
    BY <1>2, <2>2 DEF Goes
<1> QED
  BY <1>2, <1>3 DEF Goes, PowersOf

(* Raised is any list of powers, place by place. *)
LEMMA RaisedAre ==
  ASSUME NEW b \in Int, NEW n \in Nat, NEW g, PowersOf(g, b, n), NEW k \in 0 .. n
  PROVE  Raised(b, k) = g[k] /\ Raised(b, k) \in Int
<1> DEFINE F(h) == h = [j \in 0 .. k |-> IF j = 0 THEN 1 ELSE b * h[j - 1]]
<1>1. k \in Nat
  OBVIOUS
<1>2. PICK e : PowersOf(e, b, k)
  BY <1>1, PowersOfExist
<1>3. F(e)
  <2>1. \A j \in 0 .. k : e[j] = IF j = 0 THEN 1 ELSE b * e[j - 1]
    BY <1>1, <1>2 DEF PowersOf
  <2>2. e = [j \in 0 .. k |-> e[j]]
    BY <1>2 DEF PowersOf
  <2> QED
    BY <2>1, <2>2
<1>4. PICK h : F(h) /\ Raised(b, k) = h[k]
  BY <1>3 DEF Raised
<1>5. h[0] = 1 /\ \A j \in 1 .. k : h[j] = b * h[j - 1]
  BY <1>1, <1>4
<1> HIDE DEF F
<1> DEFINE T == {j \in 0 .. k : h[j] = g[j]}
<1>6. 0 \in T
  BY <1>1, <1>5 DEF PowersOf
<1>7. ASSUME NEW j \in 0 .. k - 1, j \in T PROVE j + 1 \in T
  <2>1. j + 1 \in 1 .. k /\ (j + 1) - 1 = j /\ j + 1 \in 1 .. n
    BY <1>1
  <2>2. h[j + 1] = b * h[j] /\ g[j + 1] = b * g[j]
    BY <1>5, <2>1 DEF PowersOf
  <2> QED
    BY <1>7, <2>1, <2>2
<1> HIDE DEF T
<1>8. \A j \in 0 .. k : j \in T
  BY <1>1, <1>6, <1>7, InductionTo
<1>9. h[k] = g[k]
  BY <1>1, <1>8 DEF T
<1> QED
  BY <1>4, <1>9 DEF PowersOf

(* The recursion of Raised. *)
LEMMA RaisedIs ==
  ASSUME NEW b \in Int, NEW n \in Nat
  PROVE  /\ Raised(b, n) \in Int /\ Raised(b, 0) = 1
         /\ Raised(b, n + 1) = b * Raised(b, n)
<1>1. n + 1 \in Nat /\ n + 1 \in 1 .. n + 1 /\ (n + 1) - 1 = n /\ n \in 0 .. n + 1
      /\ 0 \in 0 .. n + 1 /\ n + 1 \in 0 .. n + 1
  OBVIOUS
<1>2. PICK g : PowersOf(g, b, n + 1)
  BY <1>1, PowersOfExist
<1>3. /\ Raised(b, n) = g[n] /\ Raised(b, n) \in Int
      /\ Raised(b, 0) = g[0] /\ Raised(b, n + 1) = g[n + 1]
  BY <1>1, <1>2, RaisedAre
<1>4. g[0] = 1 /\ g[n + 1] = b * g[(n + 1) - 1]
  BY <1>1, <1>2 DEF PowersOf
<1> QED
  BY <1>1, <1>3, <1>4

(* The power of a sum of exponents. *)
LEMMA RaisedSum ==
  ASSUME NEW b \in Int, NEW m \in Nat, NEW n \in Nat
  PROVE  Raised(b, m + n) = Raised(b, m) * Raised(b, n)
<1> DEFINE T == {k \in Nat : Raised(b, m + k) = Raised(b, m) * Raised(b, k)}
<1>1. 0 \in T
  <2>1. m + 0 = m /\ Raised(b, 0) = 1 /\ Raised(b, m) \in Int
    BY RaisedIs
  <2>2. Raised(b, m) * 1 = Raised(b, m)
    BY <2>1
  <2> QED
    BY <2>1, <2>2
<1>2. ASSUME NEW k \in Nat, k \in T PROVE k + 1 \in T
  <2> DEFINE x == Raised(b, m)
             y == Raised(b, k)
  <2>1. m + k \in Nat /\ m + (k + 1) = (m + k) + 1 /\ k + 1 \in Nat
    OBVIOUS
  <2>2. Raised(b, (m + k) + 1) = b * Raised(b, m + k) /\ Raised(b, k + 1) = b * y
        /\ x \in Int /\ y \in Int
    BY <2>1, RaisedIs
  <2>3. Raised(b, m + k) = x * y
    BY <1>2
  <2> HIDE DEF x, y
  <2>4. b * (x * y) = x * (b * y)
    BY <2>2
  <2>5. Raised(b, m + (k + 1)) = x * Raised(b, k + 1)
    BY <2>1, <2>2, <2>3, <2>4
  <2> QED
    BY <2>1, <2>5 DEF x
<1> HIDE DEF T
<1>3. \A k \in Nat : k \in T
  BY <1>1, <1>2, InductionNat
<1> QED
  BY <1>3 DEF T

(* Squaring the base halves the exponent. *)
LEMMA RaisedSquare ==
  ASSUME NEW b \in Int, NEW n \in Nat
  PROVE  Raised(b * b, n) = Raised(b, 2 * n)
<1> DEFINE c == b * b
<1>1. c \in Int
  OBVIOUS
<1> HIDE DEF c
<1> DEFINE T == {k \in Nat : Raised(c, k) = Raised(b, 2 * k)}
<1>2. 0 \in T
  <2>1. 2 * 0 = 0 /\ Raised(b, 0) = 1 /\ Raised(c, 0) = 1
    BY <1>1, RaisedIs
  <2> QED
    BY <2>1
<1>3. ASSUME NEW k \in Nat, k \in T PROVE k + 1 \in T
  <2> DEFINE j == 2 * k
             y == Raised(b, j)
  <2>1. j \in Nat /\ j + 1 \in Nat /\ 2 * (k + 1) = (j + 1) + 1 /\ k + 1 \in Nat
    OBVIOUS
  <2> HIDE DEF j
  <2>2. /\ Raised(b, (j + 1) + 1) = b * Raised(b, j + 1) /\ Raised(b, j + 1) = b * y
        /\ y \in Int /\ Raised(c, k + 1) = c * Raised(c, k)
    BY <1>1, <2>1, RaisedIs
  <2>3. Raised(c, k) = y
    BY <1>3 DEF j
  <2> HIDE DEF y
  <2>4. (b * b) * y = b * (b * y)
    BY <2>2
  <2>5. Raised(c, k + 1) = Raised(b, 2 * (k + 1))
    BY <2>1, <2>2, <2>3, <2>4 DEF c
  <2> QED
    BY <2>1, <2>5
<1> HIDE DEF T
<1>4. \A k \in Nat : k \in T
  BY <1>2, <1>3, InductionNat
<1>5. Raised(c, n) = Raised(b, 2 * n)
  BY <1>4 DEF T
<1> QED
  BY <1>5 DEF c

(* Powers of 2. *)
W(n) == Raised(2, n)

(* The powers of 2 grow without bound. *)
LEMMA PowersOf2 ==
  /\ W(0) = 1
  /\ \A n \in Nat : W(n) \in Nat /\ W(n) > n /\ W(n + 1) = 2 * W(n)
<1>1. W(0) = 1
  BY RaisedIs DEF W
<1>2. \A n \in Nat : W(n) \in Int /\ W(n + 1) = 2 * W(n)
  BY RaisedIs DEF W
<1> DEFINE T == {k \in Nat : W(k) > k}
<1>3. 0 \in T
  BY <1>1
<1>4. ASSUME NEW k \in Nat, k \in T PROVE k + 1 \in T
  <2>1. W(k) \in Int /\ W(k) > k /\ W(k + 1) = 2 * W(k)
    BY <1>2, <1>4
  <2>2. W(k + 1) > k + 1
    BY <2>1
  <2> QED
    BY <2>2
<1> HIDE DEF T
<1>5. \A k \in Nat : k \in T
  BY <1>3, <1>4, InductionNat
<1>6. \A k \in Nat : W(k) > k
  BY <1>5 DEF T
<1>7. \A k \in Nat : W(k) \in Nat
  BY <1>2, <1>6
<1> QED
  BY <1>1, <1>2, <1>6, <1>7

(* The power of 2 to a sum. *)
LEMMA TwoSum ==
  ASSUME NEW m \in Nat, NEW n \in Nat
  PROVE  W(m + n) = W(m) * W(n)
<1>1. 2 \in Int
  OBVIOUS
<1>2. Raised(2, m + n) = Raised(2, m) * Raised(2, n)
  BY <1>1, RaisedSum
<1> QED
  BY <1>2 DEF W

(* A greater exponent gives no lesser power. *)
LEMMA TwoMonotone ==
  ASSUME NEW m \in Nat, NEW n \in Nat, m <= n
  PROVE  W(m) <= W(n)
<1> DEFINE d == n - m
           x == W(m)
           y == W(d)
<1>1. d \in Nat /\ m + d = n
  OBVIOUS
<1> HIDE DEF d
<1>2. W(n) = x * y
  BY <1>1, TwoSum
<1>3. x \in Nat /\ y \in Nat /\ y > d
  BY <1>1, PowersOf2
<1> HIDE DEF x, y
<1>4. y >= 1
  BY <1>1, <1>3
<1>5. x * y >= x
  BY <1>3, <1>4
<1> QED
  BY <1>2, <1>5 DEF x

(* A number of l digits is less than the power of 2 to Base * l. *)
LEMMA ValueBelow ==
  ASSUME NEW a \in Seq(Digit)
  PROVE  Value(a) < W(Base * Len(a))
<1> DEFINE l == Len(a)
<1>1. l \in Nat /\ l >= Len(a)
  OBVIOUS
<1>2. PICK f \in [1 .. l + 1 -> Nat] : Horner(a, l, f)
  BY <1>1, HornerExists
<1>3. Value(a) = f[1]
  BY <1>1, <1>2, HornerValue
<1> HIDE DEF l
<1> DEFINE T == {k \in 1 .. l + 1 : f[k] < W(Base * (l + 1 - k))}
<1>4. l + 1 \in T
  <2>1. f[l + 1] = 0
    BY <1>2 DEF Horner
  <2>2. Base * (l + 1 - (l + 1)) = 0
    <3>1. l + 1 - (l + 1) = 0
      BY <1>1
    <3>2. Base * 0 = 0
      BY BaseFacts
    <3> QED
      BY <3>1, <3>2
  <2> QED
    BY <1>1, <2>1, <2>2, PowersOf2
<1>5. ASSUME NEW k \in 1 .. l, k + 1 \in T PROVE k \in T
  <2> DEFINE i == l - k
             d == DigitAt(a, k)
             u == f[k + 1]
             w == W(Base * i)
  <2>1. /\ i \in Nat /\ l + 1 - (k + 1) = i /\ l + 1 - k = i + 1 /\ k \in 1 .. l + 1
        /\ k \in Int /\ k + 1 \in 1 .. l + 1
    BY <1>1
  <2>2. f[k] = d + Base * u /\ u \in Nat /\ f[k] \in Nat
    BY <1>2, <2>1 DEF Horner
  <2>3. d \in Nat /\ d < Base
    BY <2>1, DigitFacts
  <2>4. u < w
    BY <1>5, <2>1
  <2> HIDE DEF i
  <2>5. Base * i \in Nat /\ Base \in Nat /\ Base * (i + 1) = Base + Base * i
    BY <2>1, BaseFacts
  <2>6. W(Base * (i + 1)) = W(Base) * w /\ w \in Nat /\ W(Base) \in Nat /\ W(Base) > Base
    <3>1. W(Base + Base * i) = W(Base) * w
      BY <2>5, TwoSum
    <3>2. w \in Nat /\ W(Base) \in Nat /\ W(Base) > Base
      BY <2>5, PowersOf2
    <3> QED
      BY <2>5, <3>1, <3>2
  <2> HIDE DEF d, u, w
  <2>7. u + 1 <= w
    BY <2>2, <2>4, <2>6
  <2>8. Base * (u + 1) <= Base * w
    BY <2>2, <2>5, <2>6, <2>7
  <2>9. Base * (u + 1) = Base * u + Base
    BY <2>2, <2>5
  <2>10. Base * w <= W(Base) * w
    <3> DEFINE e == W(Base)
    <3>1. e \in Nat /\ Base <= e
      BY <2>5, <2>6
    <3> HIDE DEF e
    <3>2. Base * w <= e * w
      BY <2>5, <2>6, <3>1
    <3> QED
      BY <3>2 DEF e
  <2> DEFINE p == Base * u
             q == Base * w
             r == W(Base) * w
  <2>11. p \in Nat /\ q \in Nat /\ r \in Nat
    BY <2>2, <2>5, <2>6
  <2>12. d + p < r
    <3>1. p + Base <= q /\ q <= r
      BY <2>8, <2>9, <2>10
    <3> HIDE DEF p, q, r
    <3> QED
      BY <2>3, <2>5, <2>11, <3>1
  <2>13. f[k] < W(Base * (l + 1 - k))
    BY <2>1, <2>2, <2>6, <2>12
  <2> QED
    BY <2>1, <2>13
<1> HIDE DEF T
<1>6. \A k \in 1 .. l + 1 : k \in T
  BY <1>1, <1>4, <1>5, InductionDown
<1>7. 1 \in T
  BY <1>1, <1>6
<1>8. l + 1 - 1 = l
  BY <1>1
<1> QED
  BY <1>3, <1>7, <1>8 DEF T, l

-----------------------------------------------------------------------------
(* udivide *)

(* A state after j turns up. *)
Risen(s, a, b, j) ==
  /\ s \in LoopState /\ AllTrimmed(s)
  /\ s.quotient = Zero /\ s.remainder = a
  /\ Value(s.power_of_2) = W(j) /\ Value(s.divisor) = W(j) * Value(b)
  /\ j > 0 => W(j - 1) * Value(b) < Value(a)

(* A state on the way down, where the power of 2 is the j-th. *)
Sinking(s, a, b, j) ==
  /\ s \in LoopState /\ AllTrimmed(s)
  /\ Value(s.power_of_2) = W(j) /\ Value(s.divisor) = W(j) * Value(b)
  /\ Value(a) = Value(s.quotient) * Value(b) + Value(s.remainder)
  /\ Value(s.remainder) < 2 * Value(s.divisor)

(* A state in which the loops have ended. *)
Ended(s, a, b) ==
  /\ s \in LoopState /\ AllTrimmed(s)
  /\ Value(s.power_of_2) = 0
  /\ Value(a) = Value(s.quotient) * Value(b) + Value(s.remainder)
  /\ Value(s.remainder) < Value(b)

(* A turn up raises the power by one, or changes nothing. *)
LEMMA RisenStep ==
  ASSUME NEW s, NEW a \in Digits, NEW b \in Digits, NEW j \in Nat, Risen(s, a, b, j)
  PROVE  \/ doubling(s) /\ Risen(Rise(s), a, b, j + 1)
         \/ ~ doubling(s) /\ Rise(s) = s
<1>1. CASE ~ doubling(s)
  BY <1>1 DEF Rise
<1>2. CASE doubling(s)
  <2> DEFINE t == double(s)
             v == Value(b)
             w == W(j)
  <2>1. s \in LoopState /\ AllTrimmed(s) /\ s.quotient = Zero /\ s.remainder = a
        /\ Value(s.power_of_2) = w /\ Value(s.divisor) = w * v
    BY DEF Risen
  <2>2. t \in LoopState /\ t.quotient = Zero /\ t.remainder = a
    BY <2>1, DoubleType
  <2>3. /\ Value(s.divisor) < Value(a) /\ AllTrimmed(t)
        /\ Value(t.divisor) = 2 * Value(s.divisor)
        /\ Value(t.power_of_2) = 2 * Value(s.power_of_2)
    BY <1>2, <2>1, DoubleExact
  <2>4. v \in Nat /\ w \in Nat /\ W(j + 1) = 2 * w /\ (j + 1) - 1 = j
    BY ValueType, PowersOf2 DEF Digits
  <2>5. Rise(s) = t
    BY <1>2 DEF Rise
  <2> HIDE DEF t, v, w
  <2>6. 2 * (w * v) = (2 * w) * v
    BY <2>4
  <2>7. Risen(t, a, b, j + 1)
    BY <2>1, <2>2, <2>3, <2>4, <2>6 DEF Risen, v, w
  <2> QED
    BY <1>2, <2>5, <2>7
<1> QED
  BY <1>1, <1>2

(* One turn down with numbers. *)
LEMMA SinkNumbers ==
  ASSUME NEW q \in Nat, NEW r \in Nat, NEW v \in Nat, NEW w \in Nat, NEW d \in Nat,
         d = w * v, d <= r
  PROVE  (q + w) * v + (r - d) = q * v + r
<1>1. (q + w) * v = q * v + w * v
  OBVIOUS
<1> DEFINE x == q * v
<1>2. x \in Nat
  OBVIOUS
<1> HIDE DEF x
<1> QED
  BY <1>1, <1>2 DEF x

(* A turn down lowers the power by one, and the last ends the division. *)
LEMMA SinkingStep ==
  ASSUME NEW s, NEW a \in Digits, NEW b \in Digits, NEW j \in Nat, Sinking(s, a, b, j)
  PROVE  /\ j > 0 => Sinking(Fall(s), a, b, j - 1)
         /\ j = 0 => Ended(Fall(s), a, b)
<1> DEFINE t == halve(s)
           v == Value(b)
           w == W(j)
           q == Value(s.quotient)
           r == Value(s.remainder)
           d == Value(s.divisor)
<1>1. /\ s \in LoopState /\ AllTrimmed(s)
      /\ Value(s.power_of_2) = w /\ d = w * v
      /\ Value(a) = q * v + r /\ r < 2 * d
  BY DEF Sinking
<1>2. /\ v \in Nat /\ w \in Nat /\ w > j /\ w > 0 /\ q \in Nat /\ r \in Nat /\ d \in Nat
  <2>1. w \in Nat /\ w > j
    BY PowersOf2
  <2>2. v \in Nat
    BY ValueType DEF Digits
  <2>3. q \in Nat /\ r \in Nat /\ d \in Nat
    BY <1>1, StateFacts
  <2> HIDE DEF v, w, q, r, d
  <2>4. w > 0
    BY <2>1
  <2> QED
    BY <2>1, <2>2, <2>3, <2>4
<1>3. Fall(s) = t /\ t \in LoopState
  BY <1>1, <1>2, HalveExact, HalveType DEF Fall
<1>4. /\ AllTrimmed(t)
      /\ Value(t.divisor) = d \div 2
      /\ Value(t.power_of_2) = w \div 2
      /\ \/ /\ d <= r
            /\ Value(t.remainder) = r - d
            /\ Value(t.quotient) = q + w
         \/ /\ d > r
            /\ t.quotient = s.quotient /\ t.remainder = s.remainder
  BY <1>1, HalveExact
<1>5. /\ Value(a) = Value(t.quotient) * v + Value(t.remainder)
      /\ Value(t.remainder) < d
  <2>1. CASE d <= r /\ Value(t.remainder) = r - d /\ Value(t.quotient) = q + w
    <3> HIDE DEF t, v, w, q, r, d
    <3>1. (q + w) * v + (r - d) = q * v + r
      BY <1>1, <1>2, <2>1, SinkNumbers
    <3> QED
      BY <1>1, <1>2, <2>1, <3>1
  <2>2. CASE d > r /\ t.quotient = s.quotient /\ t.remainder = s.remainder
    <3>1. Value(t.quotient) = q /\ Value(t.remainder) = r
      BY <2>2
    <3> HIDE DEF t, v, w, q, r, d
    <3> QED
      BY <1>1, <1>2, <2>2, <3>1
  <2> QED
    BY <1>4, <2>1, <2>2
<1> HIDE DEF t, v, w, q, r, d
<1>6. ASSUME j > 0 PROVE Sinking(t, a, b, j - 1)
  <2> DEFINE u == W(j - 1)
             e == u * v
  <2>1. j - 1 \in Nat /\ (j - 1) + 1 = j
    BY <1>6
  <2>2. u \in Nat /\ w = 2 * u
    BY <2>1, PowersOf2 DEF w
  <2> HIDE DEF u
  <2>3. (2 * u) * v = 2 * (u * v) /\ u * v \in Nat
    BY <1>2, <2>2
  <2>4. d = 2 * e /\ e \in Nat
    BY <1>1, <2>2, <2>3
  <2> HIDE DEF e
  <2>5. d \div 2 = e /\ w \div 2 = u
    BY <2>2, <2>4
  <2>6. Value(t.divisor) = e /\ Value(t.power_of_2) = u
    BY <1>4, <2>5
  <2>7. Value(t.remainder) < 2 * Value(t.divisor)
    BY <1>5, <2>4, <2>6
  <2> QED
    BY <1>3, <1>4, <1>5, <2>6, <2>7 DEF Sinking, u, e, v
<1>7. ASSUME j = 0 PROVE Ended(t, a, b)
  <2>1. w = 1
    BY <1>7, PowersOf2 DEF w
  <2>2. d = v /\ w \div 2 = 0
    BY <1>1, <1>2, <2>1
  <2> QED
    BY <1>3, <1>4, <1>5, <2>2 DEF Ended, v
<1> QED
  BY <1>3, <1>6, <1>7

(* The turns that are left change nothing. *)
LEMMA EndedStays ==
  ASSUME NEW s, NEW a, NEW b, Ended(s, a, b)
  PROVE  Fall(s) = s
<1>1. s \in LoopState /\ AllTrimmed(s) /\ Value(s.power_of_2) = 0
  BY DEF Ended
<1>2. ~ halving(s)
  BY <1>1, HalveExact
<1> QED
  BY <1>2 DEF Fall

(* The loops end within the turns that udivide is given, with the quotient and
   the remainder of Euclid. *)
LEMMA UdivideRight ==
  ASSUME NEW a \in Digits, NEW b \in Digits, Trimmed(a), Trimmed(b), b # Zero
  PROVE  Ended(udivide(a, b), a, b)
<1> DEFINE n == Turns(a)
           m == Base * Len(a)
           v == Value(b)
<1>1. /\ n \in Nat /\ m \in Nat /\ n > m
  <2>1. Len(a) \in Nat
    BY DEF Digits
  <2>2. Base * (Len(a) + 1) = Base * Len(a) + Base /\ Base * Len(a) \in Nat /\ Base \in Nat /\ Base > 2
    BY <2>1, BaseFacts, Multiples
  <2> QED
    BY <2>2 DEF Turns
<1>2. v \in Nat /\ v > 0 /\ Value(a) \in Nat /\ Value(a) < W(m)
  <2>1. v > 0
    BY StartExact
  <2> QED
    BY <2>1, ValueType, ValueBelow DEF Digits
<1>3. PICK up, down : /\ Ups(up, udivide_start(a, b), n)
                      /\ Downs(down, up[n], n)
                      /\ udivide(a, b) = down[n]
  BY UdivideIs
<1> HIDE DEF n, m, v
<1>4. ASSUME NEW s, NEW j \in Nat, Risen(s, a, b, j)
      PROVE  j <= m
  <2> SUFFICES ASSUME j > m PROVE FALSE
    BY <1>1
  <2>1. j - 1 \in Nat /\ m <= j - 1 /\ j > 0
    BY <1>1
  <2>2. W(j - 1) * v < Value(a)
    BY <1>4, <2>1 DEF Risen, v
  <2>3. W(m) <= W(j - 1) /\ W(m) \in Nat /\ W(j - 1) \in Nat
    BY <1>1, <2>1, TwoMonotone, PowersOf2
  <2> DEFINE x == W(j - 1)
  <2>4. x \in Nat
    BY <2>3
  <2> HIDE DEF x
  <2>5. x * v >= x
    BY <1>2, <2>4
  <2>6. x * v \in Nat
    BY <1>2, <2>4
  <2> QED
    BY <1>2, <2>2, <2>3, <2>4, <2>5, <2>6 DEF x
<1> DEFINE Stage(k) == \E j \in 0 .. k : Risen(up[k], a, b, j) /\ (j = k \/ ~ doubling(up[k]))
<1>5. Stage(0)
  <2>1. up[0] = udivide_start(a, b) /\ up[0] \in LoopState
    BY <1>3, StartType DEF Ups
  <2>2. W(0) = 1 /\ 1 * v = v
    BY <1>2, PowersOf2
  <2>3. Risen(up[0], a, b, 0)
    BY <2>1, <2>2, StartExact, SmallValues DEF Risen, v
  <2> QED
    BY <2>3
<1>6. ASSUME NEW k \in 0 .. n - 1, Stage(k) PROVE Stage(k + 1)
  <2>1. k \in Nat /\ k + 1 \in 1 .. n /\ (k + 1) - 1 = k
    BY <1>1
  <2>2. up[k + 1] = Rise(up[k])
    BY <1>3, <2>1 DEF Ups
  <2>3. PICK j \in 0 .. k : Risen(up[k], a, b, j) /\ (j = k \/ ~ doubling(up[k]))
    BY <1>6
  <2>4. j \in Nat
    BY <2>1
  <2>5. \/ doubling(up[k]) /\ Risen(Rise(up[k]), a, b, j + 1)
        \/ ~ doubling(up[k]) /\ Rise(up[k]) = up[k]
    BY <2>3, <2>4, RisenStep
  <2>6. CASE doubling(up[k])
    <3>1. Risen(up[k + 1], a, b, k + 1)
      BY <2>2, <2>3, <2>5, <2>6
    <3>2. k + 1 \in 0 .. k + 1
      BY <2>1
    <3> QED
      BY <3>1, <3>2
  <2>7. CASE ~ doubling(up[k])
    <3>1. up[k + 1] = up[k]
      BY <2>2, <2>5, <2>7
    <3>2. Risen(up[k + 1], a, b, j) /\ ~ doubling(up[k + 1]) /\ j \in 0 .. k + 1
      BY <2>1, <2>3, <2>7, <3>1
    <3> QED
      BY <3>2
  <2> QED
    BY <2>6, <2>7
<1>7. Stage(n)
  <2> DEFINE T == {k \in 0 .. n : Stage(k)}
  <2> HIDE DEF Stage
  <2>1. 0 \in T
    BY <1>1, <1>5
  <2>2. ASSUME NEW k \in 0 .. n - 1, k \in T PROVE k + 1 \in T
    <3>1. k + 1 \in 0 .. n
      BY <1>1
    <3> QED
      BY <1>6, <2>2, <3>1
  <2> HIDE DEF T
  <2>3. \A k \in 0 .. n : k \in T
    BY <1>1, <2>1, <2>2, InductionTo
  <2> QED
    BY <1>1, <2>3 DEF T
<1>8. PICK i \in 0 .. n : Risen(up[n], a, b, i) /\ (i = n \/ ~ doubling(up[n]))
  BY <1>7
<1>9. i \in Nat /\ i <= m /\ i < n /\ ~ doubling(up[n])
  <2>1. i \in Nat /\ i <= m
    BY <1>1, <1>4, <1>8
  <2> QED
    BY <1>1, <1>8, <2>1
<1> HIDE DEF Stage
<1>10. Sinking(up[n], a, b, i)
  <2> DEFINE s == up[n]
             d == Value(s.divisor)
             w == W(i)
  <2>1. /\ s \in LoopState /\ AllTrimmed(s) /\ s.quotient = Zero /\ s.remainder = a
        /\ Value(s.power_of_2) = w /\ d = w * v
    BY <1>8 DEF Risen, v
  <2>2. ~ d < Value(a)
    BY <1>9, <2>1, DoubleExact
  <2>3. w \in Nat /\ w > i /\ w >= 1 /\ d \in Nat
    <3>1. w \in Nat /\ w > i
      BY <1>9, PowersOf2
    <3>2. d \in Nat
      BY <2>1, StateFacts
    <3> HIDE DEF w, d
    <3> QED
      BY <1>9, <3>1, <3>2
  <2> HIDE DEF w, s
  <2>4. d > 0
    <3> HIDE DEF d
    <3>1. w * v >= 1
      BY <1>2, <2>3
    <3> QED
      BY <2>1, <2>3, <3>1
  <2>5. Value(a) < 2 * d
    <3> HIDE DEF d
    <3> QED
      BY <1>2, <2>2, <2>3, <2>4
  <2>6. Value(s.quotient) = 0 /\ Value(s.remainder) = Value(a)
    BY <2>1, SmallValues
  <2>7. Value(a) = 0 * v + Value(a)
    BY <1>2
  <2> QED
    BY <2>1, <2>5, <2>6, <2>7 DEF Sinking, s, d, v, w
<1> DEFINE Low(k) == IF k <= i THEN Sinking(down[k], a, b, i - k) ELSE Ended(down[k], a, b)
<1>11. Low(0)
  <2>1. down[0] = up[n] /\ 0 <= i /\ i - 0 = i
    BY <1>3, <1>9 DEF Downs
  <2> QED
    BY <1>10, <2>1
<1>12. ASSUME NEW k \in 0 .. n - 1, Low(k) PROVE Low(k + 1)
  <2>1. k \in Nat /\ k + 1 \in 1 .. n /\ (k + 1) - 1 = k
    BY <1>1
  <2>2. down[k + 1] = Fall(down[k])
    BY <1>3, <2>1 DEF Downs
  <2>3. CASE k < i
    <3>1. k <= i /\ i - k \in Nat /\ i - k > 0 /\ (i - k) - 1 = i - (k + 1) /\ k + 1 <= i
      BY <1>9, <2>1, <2>3
    <3>2. Sinking(down[k], a, b, i - k)
      BY <1>12, <3>1
    <3>3. Sinking(down[k + 1], a, b, (i - k) - 1)
      BY <2>2, <3>1, <3>2, SinkingStep
    <3>4. Sinking(down[k + 1], a, b, i - (k + 1))
      BY <3>1, <3>3
    <3> QED
      BY <3>1, <3>4
  <2>4. CASE k = i
    <3>1. k <= i /\ i - k = 0 /\ ~ k + 1 <= i
      BY <1>9, <2>1, <2>4
    <3>2. Sinking(down[k], a, b, 0)
      BY <1>12, <3>1
    <3>3. Ended(down[k + 1], a, b)
      BY <2>2, <3>2, SinkingStep
    <3> QED
      BY <3>1, <3>3
  <2>5. CASE k > i
    <3>1. ~ k <= i /\ ~ k + 1 <= i
      BY <1>9, <2>1, <2>5
    <3>2. Ended(down[k], a, b)
      BY <1>12, <3>1
    <3>3. down[k + 1] = down[k]
      BY <2>2, <3>2, EndedStays
    <3> QED
      BY <3>1, <3>2, <3>3
  <2> QED
    BY <1>9, <2>1, <2>3, <2>4, <2>5
<1>13. Low(n)
  <2> DEFINE T == {k \in 0 .. n : Low(k)}
  <2> HIDE DEF Low
  <2>1. 0 \in T
    BY <1>1, <1>11
  <2>2. ASSUME NEW k \in 0 .. n - 1, k \in T PROVE k + 1 \in T
    <3>1. k + 1 \in 0 .. n
      BY <1>1
    <3> QED
      BY <1>12, <2>2, <3>1
  <2> HIDE DEF T
  <2>3. \A k \in 0 .. n : k \in T
    BY <1>1, <2>1, <2>2, InductionTo
  <2> QED
    BY <1>1, <2>3 DEF T
<1>14. ~ n <= i
  BY <1>1, <1>9
<1> QED
  BY <1>3, <1>13, <1>14

-----------------------------------------------------------------------------
(* pow *)

(* Numbers without zeros in front that stand for the same number are the same. *)
LEMMA SameValue ==
  ASSUME NEW a \in Digits, NEW b \in Digits, Trimmed(a), Trimmed(b), Value(a) = Value(b)
  PROVE  a = b
<1>1. /\ a \in Seq(Digit) /\ b \in Seq(Digit) /\ a # << >> /\ b # << >>
      /\ Value(a) \in Nat /\ Value(b) \in Nat
  BY ValueType DEF Digits
<1>2. ~ Value(a) < Value(b) /\ ~ Value(b) < Value(a)
  BY <1>1
<1>3. ~ Less(a, b) /\ ~ Less(b, a)
  BY <1>1, <1>2, LessRight
<1> QED
  BY <1>1, <1>3, LessTotal

(* Base and result of pow: either is not 0, or the base is. *)
Shape(x, y) == (Top(x) /\ Top(y)) \/ (x = Zero /\ y \in {Zero, One})

(* A state of pow whose exponent is e. *)
Multiplied(s, a, n, e) ==
  /\ s \in PowerState
  /\ ~ s.exponent.is_negative /\ Trimmed(s.exponent.uvalue)
  /\ Value(s.exponent.uvalue) = e
  /\ ValueOf(s.result) * Raised(ValueOf(s.base), e) = Raised(a, n)
  /\ Shape(s.base.uvalue, s.result.uvalue)

(* 0 or 1 times 0 is the one digit 0. *)
LEMMA ZeroTimes ==
  ASSUME NEW x \in {Zero, One}
  PROVE  Times(x, Zero) = Zero
<1>1. x \in Seq(Digit) /\ Zero \in Seq(Digit) /\ x # << >> /\ Zero # << >>
  BY SmallDigits DEF Digits
<1>2. Len(x) = 1 /\ Len(Zero) = 1
  BY DEF Zero, One
<1>3. /\ Times(x, Zero) \in Seq(Digit) /\ Times(x, Zero) # << >>
      /\ Value(Times(x, Zero)) = Value(x) * Value(Zero)
  BY <1>1, TimesRight
<1>4. Value(x) \in Nat /\ Value(Zero) = 0
  BY <1>1, ValueType, SmallValues
<1>5. Value(Times(x, Zero)) = 0
  BY <1>3, <1>4
<1>6. Trimmed(Times(x, Zero))
  <2>1. Top(Times(x, Zero)) \/ Len(Times(x, Zero)) <= Len(x) + Len(Zero) - 1
    BY <1>1, TimesRight
  <2>2. CASE Top(Times(x, Zero))
    BY <1>3, <2>2, TopIs
  <2>3. CASE Len(Times(x, Zero)) <= Len(x) + Len(Zero) - 1
    <3> DEFINE s == Times(x, Zero)
    <3>1. s \in Seq(Digit) /\ s # << >>
      BY <1>3
    <3>2. Len(s) <= 1
      BY <1>2, <2>3
    <3> HIDE DEF s
    <3>3. Len(s) = 1
      <4> DEFINE k == Len(s)
      <4>1. k \in Nat /\ k # 0 /\ k <= 1
        BY <3>1, <3>2
      <4> HIDE DEF k
      <4>2. k = 1
        BY <4>1
      <4> QED
        BY <4>2 DEF k
    <3> QED
      BY <3>1, <3>3, TrimmedIs DEF s
  <2> QED
    BY <2>1, <2>2, <2>3
<1> QED
  BY <1>3, <1>5, <1>6, OnlyZero

(* The turns of pow keep the shape of base and result. *)
LEMMA ShapeKept ==
  ASSUME NEW x \in Digits, NEW y \in Digits, Shape(x, y)
  PROVE  Shape(x, Times(y, x)) /\ Shape(Times(x, x), y) /\ Trimmed(y)
<1>1. CASE Top(x) /\ Top(y)
  BY <1>1, TimesRight, TopIs DEF Shape, Digits
<1>2. CASE x = Zero /\ y \in {Zero, One}
  BY <1>2, ZeroTimes, SmallValues DEF Shape
<1> QED
  BY <1>1, <1>2 DEF Shape

(* What the exponent is after a turn. *)
Reduced(e, d) ==
  \/ e = 0 /\ d = 0
  \/ \E q \in Nat : e = 2 * q + 1 /\ d = 2 * q
  \/ d > 0 /\ e = 2 * d

(* Halving and the parity of an exponent. *)
LEMMA ParityOf ==
  ASSUME NEW x \in Numeral, ~ x.is_negative, Trimmed(x.uvalue)
  PROVE  \E q \in Nat, r \in {0, 1} :
           /\ Value(x.uvalue) = 2 * q + r
           /\ RemainderOf(x, TWO) = ONE <=> r = 1
           /\ QuotientOf(x, TWO) \in Numeral /\ ~ QuotientOf(x, TWO).is_negative
           /\ Trimmed(QuotientOf(x, TWO).uvalue)
           /\ Value(QuotientOf(x, TWO).uvalue) = q
<1> DEFINE u == x.uvalue
           s == udivide(u, Two)
           q == Value(s.quotient)
           r == Value(s.remainder)
<1>1. u \in Digits /\ Trimmed(u) /\ x.is_negative = FALSE
  BY NumeralIs
<1>2. TWO.uvalue = Two /\ TWO.is_negative = FALSE
  BY DEF TWO, bigint
<1>3. Ended(s, u, Two)
  <2>1. Two \in Digits /\ Trimmed(Two) /\ Two # Zero
    BY SmallDigits, SmallValues
  <2> QED
    BY <1>1, <2>1, UdivideRight
<1>4. /\ s \in LoopState /\ AllTrimmed(s) /\ Value(u) = q * 2 + r /\ r < 2
  BY <1>3, SmallValues DEF Ended
<1>5. /\ q \in Nat /\ r \in Nat /\ s.quotient \in Digits /\ s.remainder \in Digits
      /\ Trimmed(s.quotient) /\ Trimmed(s.remainder)
  BY <1>4, StateFacts, AllTrimmedIs DEF Digits
<1>6. r \in {0, 1} /\ Value(u) = 2 * q + r
  <2> HIDE DEF q, r
  <2> QED
    BY <1>4, <1>5
<1>7. (x.is_negative # TWO.is_negative) = FALSE
  BY <1>1, <1>2
<1>8. RemainderOf(x, TWO) = bigint(s.remainder, FALSE) /\ QuotientOf(x, TWO) = bigint(s.quotient, FALSE)
  BY <1>2, <1>7 DEF RemainderOf, QuotientOf
<1> HIDE DEF s
<1>9. RemainderOf(x, TWO) = ONE <=> r = 1
  <2>1. RemainderOf(x, TWO) = ONE <=> s.remainder = One
    <3>1. ONE.uvalue = One /\ ONE = bigint(One, FALSE)
      BY DEF ONE, bigint
    <3>2. RemainderOf(x, TWO).uvalue = s.remainder
      BY <1>8 DEF bigint
    <3>3. RemainderOf(x, TWO) = ONE => s.remainder = One
      BY <3>1, <3>2
    <3>4. s.remainder = One => RemainderOf(x, TWO) = ONE
      BY <1>8, <3>1
    <3> QED
      BY <3>3, <3>4
  <2>2. s.remainder = One <=> r = 1
    BY <1>5, SmallDigits, SmallValues, SameValue
  <2> QED
    BY <2>1, <2>2
<1>10. /\ QuotientOf(x, TWO) \in Numeral /\ ~ QuotientOf(x, TWO).is_negative
       /\ QuotientOf(x, TWO).uvalue = s.quotient
  BY <1>5, <1>8 DEF bigint, Numeral
<1> QED
  BY <1>5, <1>6, <1>9, <1>10

(* A turn of pow keeps the product of result and power, and reduces the exponent. *)
LEMMA PowerTurnRight ==
  ASSUME NEW s, NEW a \in Int, NEW n \in Nat, NEW e \in Nat, Multiplied(s, a, n, e)
  PROVE  \E d \in Nat : Multiplied(PowerTurn(s), a, n, d) /\ Reduced(e, d)
<1> DEFINE t == PowerTurn(s)
           x == s.exponent
           b == ValueOf(s.base)
           p == ValueOf(s.result)
<1>1. /\ s \in PowerState /\ x \in Numeral /\ s.base \in Numeral /\ s.result \in Numeral
      /\ ~ x.is_negative /\ Trimmed(x.uvalue) /\ Value(x.uvalue) = e
      /\ p * Raised(b, e) = Raised(a, n)
      /\ Shape(s.base.uvalue, s.result.uvalue)
  BY DEF Multiplied, PowerState
<1>2. /\ b \in Int /\ p \in Int /\ s.base.uvalue \in Digits /\ s.result.uvalue \in Digits
      /\ x.uvalue \in Digits /\ x.uvalue \in Seq(Digit) /\ x.uvalue # << >>
  BY <1>1, NumeralIs
<1>3. IsPositive(x) <=> e > 0
  BY <1>1, <1>2, OnlyZero DEF IsPositive
<1>4. PICK q \in Nat, r \in {0, 1} :
        /\ Value(x.uvalue) = 2 * q + r
        /\ RemainderOf(x, TWO) = ONE <=> r = 1
        /\ QuotientOf(x, TWO) \in Numeral /\ ~ QuotientOf(x, TWO).is_negative
        /\ Trimmed(QuotientOf(x, TWO).uvalue)
        /\ Value(QuotientOf(x, TWO).uvalue) = q
  BY <1>1, ParityOf
<1>5. e = 2 * q + r
  BY <1>1, <1>4
<1>6. CASE e = 0
  <2>1. t = s
    BY <1>3, <1>6 DEF PowerTurn
  <2> QED
    BY <1>6, <2>1 DEF Reduced
<1>7. CASE e > 0 /\ r = 1
  <2> DEFINE y == ProductOf(s.result, s.base)
             z == DifferenceOf(x, ONE)
  <2>1. t = [s EXCEPT !.result = y, !.exponent = z]
    BY <1>3, <1>4, <1>7 DEF PowerTurn
  <2>2. y \in Numeral /\ z \in Numeral
    BY <1>1, SmallNumerals, BigintOps
  <2>3. t \in PowerState /\ t.result = y /\ t.exponent = z /\ t.base = s.base
    BY <1>1, <2>1, <2>2 DEF PowerState
  <2>4. /\ ValueOf(y) = p * b /\ y.uvalue = Times(s.result.uvalue, s.base.uvalue)
    BY <1>1, ProductRight
  <2>5. /\ ~ ONE.is_negative /\ Trimmed(ONE.uvalue) /\ Value(ONE.uvalue) = 1 /\ ValueOf(ONE) = 1
    <3>1. ONE.is_negative = FALSE /\ ONE.uvalue = One
      BY DEF ONE, bigint
    <3> QED
      BY <3>1, SmallNumerals, SmallValues, NumeralIs
  <2>6. ValueOf(x) = e
    BY <1>1, NumeralIs
  <2>7. Value(ONE.uvalue) <= Value(x.uvalue)
    BY <1>1, <1>7, <2>5
  <2>8. /\ ValueOf(z) = e - 1 /\ Trimmed(z.uvalue) /\ ~ z.is_negative
    BY <1>1, <2>5, <2>6, <2>7, SmallNumerals, DifferenceRight
  <2>9. Value(z.uvalue) = e - 1
    BY <2>2, <2>8, NumeralIs
  <2>10. e - 1 = 2 * q /\ e - 1 \in Nat /\ (e - 1) + 1 = e
    BY <1>5, <1>7
  <2> DEFINE w == Raised(b, e - 1)
  <2>11. Raised(b, e) = b * w /\ w \in Int
    <3>1. w \in Int /\ Raised(b, (e - 1) + 1) = b * w
      BY <1>2, <2>10, RaisedIs, Zenon
    <3> QED
      BY <2>10, <3>1
  <2>12. (p * b) * w = p * (b * w)
    <3> HIDE DEF w, p, b
    <3> QED
      BY <1>2, <2>11
  <2>13. ValueOf(t.result) * Raised(ValueOf(t.base), e - 1) = Raised(a, n)
    BY <1>1, <2>3, <2>4, <2>11, <2>12
  <2>14. Shape(t.base.uvalue, t.result.uvalue)
    BY <1>1, <1>2, <2>3, <2>4, ShapeKept
  <2>15. Multiplied(t, a, n, e - 1)
    BY <2>3, <2>8, <2>9, <2>13, <2>14 DEF Multiplied
  <2>16. Reduced(e, e - 1)
    BY <1>5, <1>7, <2>10 DEF Reduced
  <2> QED
    BY <2>10, <2>15, <2>16
<1>8. CASE e > 0 /\ r = 0
  <2> DEFINE y == ProductOf(s.base, s.base)
             z == QuotientOf(x, TWO)
  <2>1. t = [s EXCEPT !.base = y, !.exponent = z]
    BY <1>3, <1>4, <1>8 DEF PowerTurn
  <2>2. y \in Numeral /\ z \in Numeral
    BY <1>1, <1>4, BigintOps
  <2>3. t \in PowerState /\ t.base = y /\ t.exponent = z /\ t.result = s.result
    BY <1>1, <2>1, <2>2 DEF PowerState
  <2>4. /\ ValueOf(y) = b * b /\ y.uvalue = Times(s.base.uvalue, s.base.uvalue)
    BY <1>1, ProductRight
  <2>5. e = 2 * q /\ q > 0
    BY <1>5, <1>8
  <2>6. Raised(b * b, q) = Raised(b, e)
    BY <1>2, <2>5, RaisedSquare
  <2>7. ValueOf(t.result) * Raised(ValueOf(t.base), q) = Raised(a, n)
    BY <1>1, <2>3, <2>4, <2>6
  <2>8. Shape(t.base.uvalue, t.result.uvalue)
    BY <1>1, <1>2, <2>3, <2>4, ShapeKept
  <2>9. Multiplied(t, a, n, q)
    BY <1>4, <2>3, <2>7, <2>8 DEF Multiplied
  <2>10. Reduced(e, q)
    BY <2>5 DEF Reduced
  <2> QED
    BY <2>9, <2>10
<1> QED
  BY <1>6, <1>7, <1>8

(* Two turns at least halve the exponent. *)
LEMMA TwoTurns ==
  ASSUME NEW s, NEW a \in Int, NEW n \in Nat, NEW e \in Nat, Multiplied(s, a, n, e)
  PROVE  \E d \in Nat : Multiplied(PowerTurn(PowerTurn(s)), a, n, d) /\ 2 * d <= e
<1>1. PICK c \in Nat : Multiplied(PowerTurn(s), a, n, c) /\ Reduced(e, c)
  BY PowerTurnRight
<1>2. PICK d \in Nat : Multiplied(PowerTurn(PowerTurn(s)), a, n, d) /\ Reduced(c, d)
  BY <1>1, PowerTurnRight
<1>3. 2 * d <= e
  <2>1. d <= c
    BY <1>2 DEF Reduced
  <2>2. CASE e = 0 /\ c = 0
    BY <2>1, <2>2
  <2>3. CASE c > 0 /\ e = 2 * c
    BY <2>1, <2>3
  <2>4. ASSUME NEW q \in Nat, e = 2 * q + 1, c = 2 * q PROVE 2 * d <= e
    <3>1. CASE c = 0 /\ d = 0
      BY <3>1
    <3>2. CASE c = 2 * d
      BY <2>4, <3>2
    <3>3. ASSUME NEW m \in Nat, c = 2 * m + 1 PROVE FALSE
      BY <2>4, <3>3
    <3> QED
      BY <1>2, <3>1, <3>2, <3>3 DEF Reduced
  <2> QED
    BY <1>1, <2>2, <2>3, <2>4 DEF Reduced
<1> QED
  BY <1>2, <1>3

(* pow gives the power, within the turns it is given, and no zeros in front. *)
LEMMA PowerRight ==
  ASSUME NEW a \in Numeral, NEW b \in Numeral, Trimmed(a.uvalue), Trimmed(b.uvalue),
         ~ b.is_negative, Len(b.uvalue) <= MaxExponent
  PROVE  /\ ValueOf(a) # 0 => ValueOf(PowerOf(a, b)) = Raised(ValueOf(a), ValueOf(b))
         /\ Trimmed(PowerOf(a, b).uvalue)
<1>1. CASE a = ZERO
  <2>1. PowerOf(a, b) = ZERO /\ ZERO.uvalue = Zero /\ ZERO.is_negative = FALSE
    BY <1>1 DEF PowerOf, ZERO, bigint
  <2>2. ValueOf(ZERO) = 0
    BY <2>1, SmallNumerals, SmallValues, NumeralIs
  <2> QED
    BY <1>1, <2>1, <2>2, SmallValues
<1>2. CASE a # ZERO
  <2> DEFINE m == Base * MaxExponent
             v == ValueOf(a)
             n == Value(b.uvalue)
  <2>1. PICK g : /\ Multiplies(g, PowerStart(a, b), PowerTurns)
                 /\ PowerOf(a, b) = g[PowerTurns].result
    BY <1>2, PowerIs
  <2>2. m \in Nat /\ PowerTurns = 2 * m
    <3>1. Base \in Nat /\ MaxExponent \in Nat
      BY BaseFacts, YdcAssumption
    <3>2. 2 * Base * MaxExponent = 2 * (Base * MaxExponent) /\ Base * MaxExponent \in Nat
      BY <3>1
    <3> QED
      BY <3>2 DEF PowerTurns
  <2>3. /\ v \in Int /\ n \in Nat /\ a.uvalue \in Digits /\ b.uvalue \in Digits
        /\ ValueOf(b) = n
    BY NumeralIs
  <2>4. n < W(m)
    <3> DEFINE l == Len(b.uvalue)
    <3>1. l \in Nat /\ MaxExponent \in Nat /\ Base \in Nat /\ l <= MaxExponent
      BY <2>3, BaseFacts, YdcAssumption DEF Digits
    <3> HIDE DEF l
    <3>2. Base * l <= m /\ Base * l \in Nat
      BY <3>1
    <3>3. W(Base * l) <= W(m) /\ W(Base * l) \in Nat /\ W(m) \in Nat
      BY <2>2, <3>2, TwoMonotone, PowersOf2
    <3>4. n < W(Base * l)
      BY <2>3, ValueBelow DEF l, Digits
    <3> QED
      BY <2>3, <3>3, <3>4
  <2>5. /\ g[0] = PowerStart(a, b)
        /\ \A k \in 1 .. PowerTurns : g[k] = PowerTurn(g[k - 1])
    BY <2>1 DEF Multiplies
  <2>6. Multiplied(g[0], v, n, n)
    <3>1. /\ PowerStart(a, b) \in PowerState
          /\ PowerStart(a, b).base = a
          /\ PowerStart(a, b).exponent.uvalue = b.uvalue
          /\ PowerStart(a, b).exponent.is_negative = FALSE
          /\ PowerStart(a, b).result = ONE
      BY PowerStartType DEF PowerStart, bigint, IsNegative
    <3>2. ONE.is_negative = FALSE /\ ONE.uvalue = One
      BY DEF ONE, bigint
    <3>3. ValueOf(ONE) = 1
      BY <3>2, SmallNumerals, SmallValues, NumeralIs
    <3>4. Shape(a.uvalue, One)
      <4>1. Top(One)
        BY DEF Top, One
      <4>2. CASE Value(a.uvalue) # 0
        BY <2>3, <4>1, <4>2, TopIs DEF Shape, Digits
      <4>3. CASE Value(a.uvalue) = 0
        <5>1. a.uvalue = Zero
          BY <2>3, <4>3, OnlyZero DEF Digits
        <5> QED
          BY <5>1 DEF Shape
      <4> QED
        BY <4>2, <4>3
    <3>5. 1 * Raised(v, n) = Raised(v, n)
      <4>1. Raised(v, n) \in Int
        BY <2>3, RaisedIs
      <4> QED
        BY <4>1
    <3> QED
      BY <2>5, <3>1, <3>2, <3>3, <3>4, <3>5 DEF Multiplied
  <2> HIDE DEF m, v, n
  <2> DEFINE Stage(i) == \E e \in Nat : e < W(m - i) /\ Multiplied(g[2 * i], v, n, e)
  <2>7. Stage(0)
    <3>1. m - 0 = m /\ 2 * 0 = 0
      BY <2>2
    <3> QED
      BY <2>3, <2>4, <2>6, <3>1
  <2>8. ASSUME NEW i \in 0 .. m - 1, Stage(i) PROVE Stage(i + 1)
    <3> DEFINE j == 2 * i
               k == m - (i + 1)
    <3>1. /\ j + 1 \in 1 .. PowerTurns /\ (j + 1) - 1 = j
          /\ j + 2 \in 1 .. PowerTurns /\ (j + 2) - 1 = j + 1 /\ 2 * (i + 1) = j + 2
          /\ k \in Nat /\ m - i = k + 1
      BY <2>2
    <3>2. PICK e \in Nat : e < W(m - i) /\ Multiplied(g[j], v, n, e)
      BY <2>8
    <3> HIDE DEF j, k
    <3>3. g[j + 1] = PowerTurn(g[j]) /\ g[j + 2] = PowerTurn(g[j + 1])
      BY <2>5, <3>1
    <3>4. PICK d \in Nat : Multiplied(PowerTurn(PowerTurn(g[j])), v, n, d) /\ 2 * d <= e
      BY <2>3, <3>2, TwoTurns
    <3>5. W(k + 1) = 2 * W(k) /\ W(k) \in Nat
      BY <3>1, PowersOf2
    <3>6. d < W(k)
      <4>1. e < 2 * W(k)
        BY <3>1, <3>2, <3>5
      <4> QED
        BY <3>4, <3>5, <4>1
    <3> QED
      BY <3>1, <3>3, <3>4, <3>6 DEF k
  <2>9. Stage(m)
    <3> DEFINE T == {k \in 0 .. m : Stage(k)}
    <3> HIDE DEF Stage
    <3>1. 0 \in T
      BY <2>2, <2>7
    <3>2. ASSUME NEW k \in 0 .. m - 1, k \in T PROVE k + 1 \in T
      <4>1. k + 1 \in 0 .. m
        BY <2>2
      <4> QED
        BY <2>8, <3>2, <4>1
    <3> HIDE DEF T
    <3>3. \A k \in 0 .. m : k \in T
      BY <2>2, <3>1, <3>2, InductionTo
    <3> QED
      BY <2>2, <3>3 DEF T
  <2>10. PICK e \in Nat : e < W(m - m) /\ Multiplied(g[2 * m], v, n, e)
    BY <2>9
  <2>11. e = 0
    <3>1. m - m = 0 /\ W(0) = 1
      BY <2>2, PowersOf2
    <3> QED
      BY <2>10, <3>1
  <2> DEFINE s == g[PowerTurns]
  <2>12. Multiplied(s, v, n, 0)
    BY <2>2, <2>10, <2>11
  <2>13. /\ s.base \in Numeral /\ s.result \in Numeral
         /\ ValueOf(s.result) * Raised(ValueOf(s.base), 0) = Raised(v, n)
         /\ Shape(s.base.uvalue, s.result.uvalue)
    BY <2>12 DEF Multiplied, PowerState
  <2>14. /\ ValueOf(s.base) \in Int /\ ValueOf(s.result) \in Int
         /\ s.base.uvalue \in Digits /\ s.result.uvalue \in Digits
    BY <2>13, NumeralIs
  <2>15. Raised(ValueOf(s.base), 0) = 1
    BY <2>14, RaisedIs
  <2>16. ValueOf(s.result) = Raised(v, n)
    <3> DEFINE x == ValueOf(s.result)
    <3>1. x * 1 = x
      BY <2>14
    <3> QED
      BY <2>13, <2>15, <3>1
  <2>17. Trimmed(s.result.uvalue)
    BY <2>13, <2>14, ShapeKept
  <2> QED
    BY <2>1, <2>3, <2>16, <2>17 DEF v
<1> QED
  BY <1>1, <1>2

-----------------------------------------------------------------------------
(* The invariants about numbers *)

(* Sums, products, differences and powers are those of the integers. *)
THEOREM ArithCorrect == Spec => []ArithRight
<1>1. TypeInv => ArithRight
  <2> SUFFICES ASSUME TypeInv, Pair PROVE ArithRight
    BY DEF ArithRight
  <2>1. Left \in Numeral /\ Right \in Numeral /\ Trimmed(Left.uvalue) /\ Trimmed(Right.uvalue)
    BY StackFacts DEF Pair
  <2>2. ValueOf(SumOf(Left, Right)) = ValueOf(Left) + ValueOf(Right)
    BY <2>1, SumRight
  <2>3. ValueOf(ProductOf(Left, Right)) = ValueOf(Left) * ValueOf(Right)
    BY <2>1, ProductRight
  <2>4. ~ Left.is_negative /\ ~ Right.is_negative =>
          ValueOf(DifferenceOf(Left, Right)) = ValueOf(Left) - ValueOf(Right)
    BY <2>1, DifferenceRight
  <2>5. Powers /\ ValueOf(Left) # 0 =>
          ValueOf(PowerOf(Left, Right)) = Raised(ValueOf(Left), ValueOf(Right))
    BY <2>1, PowerRight DEF Powers
  <2> QED
    BY <2>2, <2>3, <2>4, <2>5 DEF ArithRight
<1> QED
  BY InitType, TypeStep, <1>1, PTL DEF Spec

(* Numbers without zeros in front give such numbers, outside a division and at
   every turn of one. *)
THEOREM TrimmedAlways == Spec => []TrimmedKept
<1>1. IInv => TrimmedKept
  <2> SUFFICES ASSUME IInv PROVE TrimmedKept
    OBVIOUS
  <2>1. Exact => \A f \in DOMAIN loop : Trimmed(loop[f])
    BY DEF IInv, LoopInv
  <2>2. ASSUME Pair
        PROVE  /\ Trimmed(SumOf(Left, Right).uvalue)
               /\ Trimmed(DifferenceOf(Left, Right).uvalue)
               /\ ValueOf(Left) * ValueOf(Right) # 0 => Trimmed(ProductOf(Left, Right).uvalue)
               /\ Powers => Trimmed(PowerOf(Left, Right).uvalue)
    <3>1. Left \in Numeral /\ Right \in Numeral /\ Trimmed(Left.uvalue) /\ Trimmed(Right.uvalue)
      BY <2>2, StackFacts DEF Pair, IInv
    <3>2. Trimmed(SumOf(Left, Right).uvalue) /\ Trimmed(DifferenceOf(Left, Right).uvalue)
      BY <3>1, SumRight, DifferenceRight
    <3>3. ASSUME ValueOf(Left) * ValueOf(Right) # 0 PROVE Trimmed(ProductOf(Left, Right).uvalue)
      <4> DEFINE x == Left.uvalue
                 y == Right.uvalue
      <4>1. x \in Digits /\ y \in Digits /\ Trimmed(x) /\ Trimmed(y)
        BY <3>1, NumeralIs
      <4>2. Value(x) # 0 /\ Value(y) # 0
        <5> DEFINE p == ValueOf(Left)
                   q == ValueOf(Right)
        <5>1. p \in Int /\ q \in Int
          BY <3>1, NumeralIs
        <5>2. (Value(x) = 0 => p = 0) /\ (Value(y) = 0 => q = 0)
          BY <3>1, NumeralIs
        <5>3. p * q # 0
          BY <3>3
        <5> HIDE DEF p, q
        <5>4. p # 0 /\ q # 0
          BY <5>1, <5>3
        <5> QED
          BY <5>2, <5>4
      <4>3. Top(x) /\ Top(y)
        BY <4>1, <4>2, TopIs DEF Digits
      <4>4. Top(ProductOf(Left, Right).uvalue) /\ ProductOf(Left, Right) \in Numeral
        BY <3>1, <4>3, ProductRight, BigintOps
      <4> QED
        BY <4>4, NumeralIs, TopIs
    <3>4. Powers => Trimmed(PowerOf(Left, Right).uvalue)
      BY <3>1, PowerRight DEF Powers
    <3> QED
      BY <3>2, <3>3, <3>4
  <2> QED
    BY <2>1, <2>2 DEF TrimmedKept
<1> QED
  BY InitMaps, StepMaps, <1>1, PTL DEF Spec
=============================================================================
