--------------------------- MODULE YdcProperties ---------------------------
(***************************************************************************)
(* What the calculator Ydc should satisfy.                                 *)
(***************************************************************************)
EXTENDS Ydc

\* The integer that a number stands for.
ValueOf(n) == IF n.is_negative THEN - Value(n.uvalue) ELSE Value(n.uvalue)

\* b to the n-th.
Raised(b, n) ==
  LET p[k \in 0 .. n] == IF k = 0 THEN 1 ELSE b * p[k - 1] IN p[n]

\* A division of two numbers without zeros in front is going on.
Exact ==
  /\ ydc \in {"double", "halve"}
  /\ Trimmed(loop.dividend) /\ Trimmed(loop.divisor_)

\* Every variable has its type, and a number has at least one digit.
TypeOK ==
  /\ operand_stack \in Seq(Number)
  /\ \A k \in DOMAIN operand_stack : operand_stack[k].uvalue # << >>
  /\ Depth <= MaxDepth
  /\ oper \in {" ", "/", "%"}
  /\ \A f \in DOMAIN loop : loop[f] \in Seq(Digit)
  /\ negative \in BOOLEAN
  /\ ydc \in {"scan", "double", "halve", "quit", "lost"}

\* The digits and signs of sums, products and powers, and of differences of
\* numbers that are not negative, are those of the integers, if no operand has
\* zeros in front (ubigint.cpp:83-424, bigint.cpp:35-171, libfns.cpp:10-34).
Pair == ydc = "scan" /\ Depth >= 2 /\ Trimmed(Left.uvalue) /\ Trimmed(Right.uvalue)
Powers == Len(Right.uvalue) <= MaxExponent /\ ~ Right.is_negative
ArithRight ==
  Pair =>
    /\ ValueOf(SumOf(Left, Right)) = ValueOf(Left) + ValueOf(Right)
    /\ ValueOf(ProductOf(Left, Right)) = ValueOf(Left) * ValueOf(Right)
    /\ ~ Left.is_negative /\ ~ Right.is_negative =>
         ValueOf(DifferenceOf(Left, Right)) = ValueOf(Left) - ValueOf(Right)
    /\ Powers /\ ValueOf(Left) # 0 =>
         ValueOf(PowerOf(Left, Right)) = Raised(ValueOf(Left), ValueOf(Right))

\* Numbers without zeros in front give such numbers, on which the comparisons
\* rely, at every turn of a division too; only a product with 0 does not
\* (ubigint.cpp:334, 423, 485).
TrimmedKept ==
  /\ Pair =>
       /\ Trimmed(SumOf(Left, Right).uvalue)
       /\ Trimmed(DifferenceOf(Left, Right).uvalue)
       /\ ValueOf(Left) * ValueOf(Right) # 0 => Trimmed(ProductOf(Left, Right).uvalue)
       /\ Powers => Trimmed(PowerOf(Left, Right).uvalue)
  /\ Exact => \A f \in DOMAIN loop : Trimmed(loop[f])

\* A division ends with a number on the stack, unless its divisor stands for 0
\* (ubigint.cpp:516-527).
DivisionEnds ==
  ydc \in {"double", "halve"} /\ Value(loop.divisor_) # 0 ~> ydc = "scan"

\* The loops on digits do what Division does on natural numbers, if neither
\* operand has zeros in front.
Quantity(field) == IF Exact THEN Value(loop[field]) ELSE 0
Natural == INSTANCE Division WITH
  phase <- IF Exact THEN ydc ELSE "idle",
  dividend <- Quantity("dividend"), divisor_ <- Quantity("divisor_"),
  divisor <- Quantity("divisor"), power_of_2 <- Quantity("power_of_2"),
  quotient <- Quantity("quotient"), remainder <- Quantity("remainder")
ImplementsDivision == Natural!Spec

\* Quotient and remainder are those of Euclid (ubigint.cpp:520-527).
QuotientRight == Natural!QuotientRight
=============================================================================
