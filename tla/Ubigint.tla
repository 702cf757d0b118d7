------------------------------ MODULE Ubigint ------------------------------
(***************************************************************************)
(* Unsigned big integers (asg1/code/ubigint.cpp): vectors of digits, the   *)
(* lowest first.  The digits are those of Base, 10 in the code.  A number  *)
(* may have zeros in front; the comparisons trust the length all the same. *)
(***************************************************************************)
EXTENDS Integers, Sequences, SequencesExt

CONSTANT Base

ASSUME BaseAssumption == Base \in Nat /\ Base > 2 /\ Base % 2 = 0

Digit == 0 .. Base - 1
Zero == << 0 >>
One == << 1 >>
Two == << 2 >>

\* The number that a vector of digits stands for.
Value(a) ==
  LET from[k \in 1 .. Len(a) + 1] ==
        IF k > Len(a) THEN 0 ELSE a[k] + Base * from[k + 1]
  IN  from[1]

DigitAt(a, k) == IF k \in DOMAIN a THEN a[k] ELSE 0
Longer(a, b) == IF Len(a) > Len(b) THEN Len(a) ELSE Len(b)
WithCarry(a, c) == IF c > 0 THEN Append(a, c) ELSE a

\* Zeros in front are taken off, but for the last digit.
Trim(a) ==
  LET significant == {k \in DOMAIN a : a[k] # 0} IN
  SubSeq(a, 1, IF significant = {} THEN 1 ELSE Max(significant))
Trimmed(a) == Trim(a) = a

\* What the constructor makes of the digits that somebody typed.
ubigint(digits) == IF digits = << >> THEN Zero ELSE Trim(digits)

\* operator<, of numbers of one length by the highest digit that differs.
Less(a, b) ==
  \/ Len(a) < Len(b)
  \/ /\ Len(a) = Len(b)
     /\ \E k \in DOMAIN a : /\ a[k] < b[k]
                            /\ \A j \in k + 1 .. Len(a) : a[j] = b[j]

Plus(a, b) ==
  LET n == Longer(a, b)
      carry[k \in 0 .. n] ==
        IF k = 0 THEN 0 ELSE (DigitAt(a, k) + DigitAt(b, k) + carry[k - 1]) \div Base
  IN  WithCarry([k \in 1 .. n |->
                   (DigitAt(a, k) + DigitAt(b, k) + carry[k - 1]) % Base], carry[n])

\* Mutants: a digit that borrows is not given Base; the difference keeps the
\* zeros in front.
Minus_no_borrow(a, b) ==
  IF a = b THEN Zero ELSE Trim([k \in DOMAIN a |-> a[k] - DigitAt(b, k)])
Minus_untrimmed(a, b) ==
  LET borrow[k \in 0 .. Len(a)] ==
        IF k > 0 /\ a[k] - DigitAt(b, k) - borrow[k - 1] < 0 THEN 1 ELSE 0
  IN  IF a = b THEN Zero
      ELSE [k \in DOMAIN a |-> (a[k] - DigitAt(b, k) - borrow[k - 1]) % Base]

\* operator-, of which the caller has made sure that a is not less than b.  A
\* borrow that is left in the end is dropped.
Minus(a, b) ==
  LET borrow[k \in 0 .. Len(a)] ==
        IF k > 0 /\ a[k] - DigitAt(b, k) - borrow[k - 1] < 0 THEN 1 ELSE 0
  IN  IF a = b THEN Zero
      ELSE Trim([k \in DOMAIN a |-> (a[k] - DigitAt(b, k) - borrow[k - 1]) % Base])

\* a times a digit, the inner loop of operator*.
Row(a, d) ==
  LET carry[k \in 0 .. Len(a)] ==
        IF k = 0 THEN 0 ELSE (a[k] * d + carry[k - 1]) \div Base
  IN  WithCarry([k \in DOMAIN a |-> (a[k] * d + carry[k - 1]) % Base], carry[Len(a)])

\* operator* adds up the rows, each moved by its order, and does not trim.
Times(a, b) ==
  LET sum[j \in 0 .. Len(b)] ==
        IF j = 0 THEN << >>
        ELSE Plus(sum[j - 1], [k \in 1 .. j - 1 |-> 0] \o Row(a, b[j]))
  IN  sum[Len(b)]

multiply_by_2(a) == Plus(a, a)

\* Mutant: the odd digit above is not passed down.
divide_by_2_drops(a) == Trim([k \in DOMAIN a |-> a[k] \div 2])

divide_by_2(a) ==
  Trim([k \in DOMAIN a |-> a[k] \div 2 + (DigitAt(a, k + 1) % 2) * (Base \div 2)])

-----------------------------------------------------------------------------
(* udivide: the state of its loops and one turn of each *)

udivide_start(dividend, divisor_) ==
  [dividend |-> dividend, divisor_ |-> divisor_, divisor |-> divisor_,
   power_of_2 |-> One, quotient |-> Zero, remainder |-> dividend]

doubling(s) == Less(s.divisor, s.remainder)
double(s) ==
  [s EXCEPT !.divisor = multiply_by_2(@), !.power_of_2 = multiply_by_2(@)]

halving(s) == Less(Zero, s.power_of_2)
\* Mutants: a divisor equal to the remainder is not subtracted; the halving
\* belongs to the subtraction.
halve_strict(s) ==
  LET taken == IF Less(s.divisor, s.remainder)
                 THEN [s EXCEPT !.remainder = Minus(@, s.divisor),
                                !.quotient = Plus(@, s.power_of_2)]
                 ELSE s
  IN  [taken EXCEPT !.divisor = divide_by_2(@), !.power_of_2 = divide_by_2(@)]

halve_if_taken(s) ==
  IF Less(s.remainder, s.divisor) THEN s
  ELSE [s EXCEPT !.remainder = Minus(@, s.divisor),
                 !.quotient = Plus(@, s.power_of_2),
                 !.divisor = divide_by_2(@), !.power_of_2 = divide_by_2(@)]

halve(s) ==
  LET taken == IF ~ Less(s.remainder, s.divisor)
                 THEN [s EXCEPT !.remainder = Minus(@, s.divisor),
                                !.quotient = Plus(@, s.power_of_2)]
                 ELSE s
  IN  [taken EXCEPT !.divisor = divide_by_2(@), !.power_of_2 = divide_by_2(@)]

\* A divisor of zeros in front of a zero passes the test for zero, and is still
\* less than a longer dividend however often it is doubled.
endless(s) == doubling(s) /\ \A k \in DOMAIN s.divisor : s.divisor[k] = 0

\* The state in which both loops end, for a division that is not endless.
udivide(dividend, divisor_) ==
  LET turns == Base * (Len(dividend) + 1)
      rise(s) == IF doubling(s) THEN double(s) ELSE s
      fall(s) == IF halving(s) THEN halve(s) ELSE s
      up[k \in 0 .. turns] ==
        IF k = 0 THEN udivide_start(dividend, divisor_) ELSE rise(up[k - 1])
      down[k \in 0 .. turns] == IF k = 0 THEN up[turns] ELSE fall(down[k - 1])
  IN  down[turns]
=============================================================================
