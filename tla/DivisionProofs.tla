--------------------------- MODULE DivisionProofs ---------------------------
(***************************************************************************)
(* The long division of udivide is right for all natural numbers.  The     *)
(* invariant says that divisor is the power of 2 times the divisor asked   *)
(* for; halving both keeps it because the power, reached by doubling, is 1 *)
(* or even.                                                                *)
(***************************************************************************)
EXTENDS Division, TLAPS

\* The powers of 2, without recursion: what is in every set that holds 1 and,
\* with a number, its double.
Doubling(S) == 1 \in S /\ \A x \in S : 2 * x \in S
PowerOf2(p) == p \in Nat /\ \A S \in SUBSET Nat : Doubling(S) => p \in S

LEMMA OneIsPower == PowerOf2(1)
BY DEF PowerOf2, Doubling

LEMMA DoubleIsPower == \A p : PowerOf2(p) => PowerOf2(2 * p)
<1>. SUFFICES ASSUME NEW p, PowerOf2(p) PROVE PowerOf2(2 * p)
  OBVIOUS
<1>1. p \in Nat
  BY DEF PowerOf2
<1>2. ASSUME NEW S \in SUBSET Nat, Doubling(S) PROVE 2 * p \in S
  BY <1>2 DEF PowerOf2, Doubling
<1>. QED
  BY <1>1, <1>2 DEF PowerOf2

\* A power of 2 is 1 or the double of a power of 2.
LEMMA PowerIsEven ==
  ASSUME NEW p, PowerOf2(p), p # 1
  PROVE  \E q \in Nat : PowerOf2(q) /\ p = 2 * q
<1>. DEFINE S == {1} \cup {x \in Nat : \E q \in Nat : PowerOf2(q) /\ x = 2 * q}
<1>1. S \in SUBSET Nat
  OBVIOUS
<1>2. Doubling(S)
  <2>1. \A x \in S : PowerOf2(x)
    BY OneIsPower, DoubleIsPower
  <2>2. \A x \in S : x \in Nat /\ 2 * x \in Nat
    BY <1>1
  <2>3. \A x \in S : 2 * x \in S
    BY <2>1, <2>2
  <2>4. 1 \in S
    OBVIOUS
  <2>. HIDE DEF S
  <2>. QED
    BY <2>3, <2>4 DEF Doubling
<1>3. p \in S
  <2>. HIDE DEF S
  <2>. QED
    BY <1>1, <1>2 DEF PowerOf2
<1>. QED
  BY <1>3

TypeInv ==
  /\ phase \in {"idle", "double", "halve"}
  /\ dividend \in Nat /\ divisor_ \in Nat /\ divisor \in Nat
  /\ power_of_2 \in Nat /\ quotient \in Nat /\ remainder \in Nat

\* Going up nothing has been subtracted yet; going down the remainder is less
\* than two of the divisor, and in the end less than one.
LoopInv ==
  /\ phase # "idle" =>
       /\ divisor_ > 0
       /\ dividend = quotient * divisor_ + remainder
       /\ power_of_2 > 0 => PowerOf2(power_of_2) /\ divisor = power_of_2 * divisor_
  /\ phase = "double" => power_of_2 > 0
  /\ phase = "halve" /\ power_of_2 > 0 => remainder < 2 * divisor
  /\ phase = "halve" /\ power_of_2 = 0 => remainder < divisor_

IInv == TypeInv /\ LoopInv

LEMMA StartKeeps == IInv /\ Start => IInv'
<1>. SUFFICES ASSUME Start PROVE IInv'
  OBVIOUS
<1>1. /\ phase' = "double" /\ dividend' \in Nat /\ divisor_' \in Nat /\ divisor_' > 0
      /\ divisor' = divisor_' /\ power_of_2' = 1 /\ quotient' = 0 /\ remainder' = dividend'
  BY DEF Start
<1>2. \A d, v \in Nat : d = 0 * v + d /\ v = 1 * v
  OBVIOUS
<1>3. dividend' = quotient' * divisor_' + remainder'
  BY <1>1, <1>2
<1>4. divisor' = power_of_2' * divisor_'
  BY <1>1, <1>2
<1>5. PowerOf2(power_of_2')
  BY <1>1, OneIsPower
<1>6. TypeInv'
  BY <1>1 DEF TypeInv
<1>7. LoopInv'
  <2>1. phase' # "halve" /\ power_of_2' > 0
    BY <1>1
  <2>. QED
    BY <1>1, <1>3, <1>4, <1>5, <2>1, Zenon DEF LoopInv
<1>. QED
  BY <1>6, <1>7 DEF IInv

LEMMA DoubleKeeps == IInv /\ Double => IInv'
<1>. SUFFICES ASSUME IInv, Double PROVE IInv'
  OBVIOUS
<1>1. PowerOf2(power_of_2') /\ power_of_2' > 0
  BY DoubleIsPower DEF IInv, TypeInv, LoopInv, Double
<1>2. divisor' = power_of_2' * divisor_'
  BY DEF IInv, TypeInv, LoopInv, Double
<1>. QED
  BY <1>1, <1>2 DEF IInv, TypeInv, LoopInv, Double

LEMMA TurnKeeps == IInv /\ Turn => IInv'
<1>. SUFFICES ASSUME IInv, Turn PROVE IInv'
  OBVIOUS
<1>1. divisor > 0
  BY DEF IInv, TypeInv, LoopInv, Turn
<1>. QED
  BY <1>1 DEF IInv, TypeInv, LoopInv, Turn

LEMMA HalveKeeps == IInv /\ Halve => IInv'
<1>. SUFFICES ASSUME IInv, Halve PROVE IInv'
  OBVIOUS
<1>1. /\ PowerOf2(power_of_2) /\ power_of_2 > 0 /\ divisor = power_of_2 * divisor_
      /\ divisor_ > 0 /\ dividend = quotient * divisor_ + remainder
      /\ remainder < 2 * divisor
      /\ divisor_ \in Nat /\ power_of_2 \in Nat /\ divisor \in Nat
      /\ quotient \in Nat /\ remainder \in Nat /\ dividend \in Nat
  BY DEF IInv, TypeInv, LoopInv, Halve
<1>2. /\ remainder' \in Nat /\ quotient' \in Nat /\ remainder' < divisor
      /\ dividend = quotient' * divisor_ + remainder'
  <2>1. CASE remainder' = remainder - divisor /\ quotient' = quotient + power_of_2
                /\ divisor <= remainder
    <3>1. (quotient + power_of_2) * divisor_
            = quotient * divisor_ + power_of_2 * divisor_
      BY <1>1
    <3>2. quotient * divisor_ \in Nat
      BY <1>1
    <3>. QED
      BY <1>1, <2>1, <3>1, <3>2
  <2>2. CASE divisor > remainder /\ remainder' = remainder /\ quotient' = quotient
    BY <1>1, <2>2
  <2>. QED
    BY <2>1, <2>2 DEF Halve
<1>3. /\ phase' = "halve" /\ phase = "halve"
      /\ divisor' = divisor \div 2 /\ power_of_2' = power_of_2 \div 2
      /\ dividend' = dividend /\ divisor_' = divisor_
  BY DEF Halve
<1>4. divisor' \in Nat /\ power_of_2' \in Nat
  BY <1>1, <1>3
<1>5. /\ power_of_2' = 0 => remainder' < divisor_
      /\ power_of_2' > 0 => /\ PowerOf2(power_of_2')
                            /\ divisor' = power_of_2' * divisor_
                            /\ remainder' < 2 * divisor'
  <2>1. CASE power_of_2 = 1
    <3>1. divisor = divisor_ /\ power_of_2' = 0
      BY <1>1, <1>3, <2>1
    <3>. QED
      BY <1>2, <3>1
  <2>2. CASE power_of_2 # 1
    <3>1. PICK q \in Nat : PowerOf2(q) /\ power_of_2 = 2 * q
      BY <1>1, <2>2, PowerIsEven
    <3>2. power_of_2' = q /\ q > 0
      BY <1>1, <1>3, <3>1
    <3>3. divisor = 2 * (q * divisor_) /\ q * divisor_ \in Nat
      BY <1>1, <3>1
    <3>4. divisor' = q * divisor_
      BY <1>3, <3>3
    <3>. QED
      BY <1>2, <3>1, <3>2, <3>3, <3>4
  <2>. QED
    BY <2>1, <2>2
<1>. QED
  BY <1>1, <1>2, <1>3, <1>4, <1>5 DEF IInv, TypeInv, LoopInv

LEMMA Invariance == Spec => []IInv
<1>1. Init => IInv
  BY DEF Init, Idle, IInv, TypeInv, LoopInv
<1>2. IInv /\ [Next]_vars => IInv'
  <2>1. IInv /\ UNCHANGED vars => IInv'
    BY DEF IInv, TypeInv, LoopInv, vars
  <2>2. IInv /\ Finish => IInv'
    BY DEF Finish, Idle, IInv, TypeInv, LoopInv
  <2>. QED
    BY <2>1, <2>2, StartKeeps, DoubleKeeps, TurnKeeps, HalveKeeps DEF Next
<1>. QED
  BY <1>1, <1>2, PTL DEF Spec

\* For any dividend and any divisor but 0 the loops keep the sum of what is
\* divided and what is left, and end with a remainder less than the divisor
\* (ubigint.cpp:516-528).
THEOREM DivisionCorrect == Spec => []QuotientRight
<1>1. IInv => QuotientRight
  BY DEF IInv, LoopInv, TypeInv, QuotientRight
<1>. QED
  BY <1>1, Invariance, PTL
=============================================================================
