-------------------------------- MODULE Ydc --------------------------------
(***************************************************************************)
(* ydc (asg1/code): a calculator with a stack of big integers, each a sign *)
(* and an unsigned number (Ubigint).  A token of the input is one step,    *)
(* but for a division, whose loops are taken turn by turn.  Printing is    *)
(* left out.                                                               *)
(*                                                                         *)
(* A calculator that an exception nobody catches, the top of an empty      *)
(* vector or an endless loop has ended is "lost".                          *)
(***************************************************************************)
EXTENDS Ubigint

CONSTANTS
  Literals,      \* what users type: a sign and digits, perhaps none after "_"
  MaxDepth,      \* bound: numbers on the stack
  MaxDigits,     \* bound: digits of a result
  MaxExponent    \* bound: digits of an exponent

Number == [is_negative : BOOLEAN, uvalue : Seq(Digit)]

ASSUME YdcAssumption ==
  /\ Literals \subseteq Number
  /\ MaxDepth \in Nat /\ MaxDigits \in Nat /\ MaxExponent \in Nat

VARIABLES
  operand_stack,  \* the top is the last
  oper,           \* the operator of a division that is going on
  loop,           \* the state of udivide, while it runs
  negative,       \* the sign of the result of a division
  ydc             \* "scan", "double", "halve", "quit" or "lost"

vars == << operand_stack, oper, loop, negative, ydc >>

bigint(u, neg) == [is_negative |-> neg, uvalue |-> u]

NoLoop == udivide_start(Zero, One)

Init ==
  /\ operand_stack = << >>
  /\ oper = " "
  /\ loop = NoLoop
  /\ negative = FALSE
  /\ ydc = "scan"

-----------------------------------------------------------------------------
(* bigint *)

\* Mutant: the difference takes the sign of the left operand.
SumOf_left_sign(a, b) ==
  IF a.is_negative = b.is_negative
    THEN bigint(Plus(a.uvalue, b.uvalue), a.is_negative)
    ELSE IF Less(b.uvalue, a.uvalue) THEN bigint(Minus(a.uvalue, b.uvalue), a.is_negative)
    ELSE bigint(Minus(b.uvalue, a.uvalue), a.is_negative)

\* operator+: of two signs, the less is taken from the greater, and a zero is
\* positive.
SumOf(a, b) ==
  LET pos == IF a.is_negative THEN b.uvalue ELSE a.uvalue
      neg == IF a.is_negative THEN a.uvalue ELSE b.uvalue
  IN  IF a.is_negative = b.is_negative
        THEN bigint(Plus(a.uvalue, b.uvalue), a.is_negative)
        ELSE IF Less(pos, neg) THEN bigint(Minus(neg, pos), TRUE)
        ELSE bigint(Minus(pos, neg), FALSE)

\* operator-, which does not look at the signs of its operands.
DifferenceOf(a, b) ==
  IF Less(a.uvalue, b.uvalue)
    THEN bigint(Minus(b.uvalue, a.uvalue), TRUE)
    ELSE bigint(Minus(a.uvalue, b.uvalue), FALSE)

ProductOf(a, b) ==
  bigint(Times(a.uvalue, b.uvalue), a.is_negative # b.is_negative)
QuotientOf(a, b) ==
  bigint(udivide(a.uvalue, b.uvalue).quotient, a.is_negative # b.is_negative)
RemainderOf(a, b) ==
  bigint(udivide(a.uvalue, b.uvalue).remainder, a.is_negative # b.is_negative)

ZERO == bigint(Zero, FALSE)
ONE == bigint(One, FALSE)
TWO == bigint(Two, FALSE)

\* operator< of a number and ZERO, the second the other way round.
IsNegative(n) == n.is_negative
IsPositive(n) == ~ n.is_negative /\ Less(Zero, n.uvalue)

\* ONE / base of a negative exponent throws if the digits of base are 0, the
\* sign "-": +0 is returned before.
PowThrows(base, exponent) ==
  base = bigint(Zero, TRUE) /\ IsNegative(exponent)

\* pow: square and multiply.
PowerOf(base_arg, exponent_arg) ==
  LET start == [base |-> IF IsNegative(exponent_arg)
                           THEN QuotientOf(ONE, base_arg) ELSE base_arg,
                exponent |-> bigint(exponent_arg.uvalue, FALSE),
                result |-> ONE]
      turn(s) ==
        IF ~ IsPositive(s.exponent) THEN s
        ELSE IF RemainderOf(s.exponent, TWO) = ONE
          THEN [s EXCEPT !.result = ProductOf(@, s.base),
                         !.exponent = DifferenceOf(@, ONE)]
          ELSE [s EXCEPT !.base = ProductOf(@, @), !.exponent = QuotientOf(@, TWO)]
      state[k \in 0 .. 2 * Base * MaxExponent] ==
        IF k = 0 THEN start ELSE turn(state[k - 1])
  IN  IF base_arg = ZERO THEN ZERO ELSE state[2 * Base * MaxExponent].result

-----------------------------------------------------------------------------
(* The commands *)

Depth == Len(operand_stack)
Right == operand_stack[Depth]
Left == operand_stack[Depth - 1]
\* The stack once do_arith has popped both of its operands.
Rest == SubSeq(operand_stack, 1, Depth - 2)

PrintsOnly == UNCHANGED vars
Lose == ydc' = "lost" /\ UNCHANGED << operand_stack, oper, loop, negative >>
Push(stack, n) ==
  /\ Len(n.uvalue) <= MaxDigits
  /\ operand_stack' = Append(stack, n)

Operand(n) ==
  /\ Depth < MaxDepth
  /\ Push(operand_stack, bigint(ubigint(n.uvalue), n.is_negative))
  /\ UNCHANGED << oper, loop, negative, ydc >>

\* ydc_error, which main prints.
StackEmpty == Depth < 2 /\ PrintsOnly

do_arith(result) ==
  /\ Depth >= 2
  /\ Push(Rest, result)
  /\ UNCHANGED << oper, loop, negative, ydc >>

do_power ==
  /\ Depth >= 2 /\ Len(Right.uvalue) <= MaxExponent
  /\ IF PowThrows(Left, Right) THEN Lose
     ELSE do_arith(PowerOf(Left, Right))

\* operator/ and operator%: the domain_error of udivide is caught by nobody.
do_division(op) ==
  /\ Depth >= 2
  /\ IF Right.uvalue = Zero THEN Lose
     ELSE /\ operand_stack' = Rest
          /\ oper' = op
          /\ loop' = udivide_start(Left.uvalue, Right.uvalue)
          /\ negative' = (Left.is_negative # Right.is_negative)
          /\ ydc' = "double"

\* The two loops of udivide; the second leaves its result on the stack.
Doubles ==
  /\ ydc = "double"
  /\ \/ endless(loop) /\ Lose
     \/ /\ doubling(loop) /\ ~ endless(loop)
        /\ loop' = double(loop)
        /\ UNCHANGED << operand_stack, oper, negative, ydc >>
     \/ /\ ~ doubling(loop)
        /\ ydc' = "halve"
        /\ UNCHANGED << operand_stack, oper, loop, negative >>
Halves ==
  /\ ydc = "halve"
  /\ \/ /\ halving(loop)
        /\ loop' = halve(loop)
        /\ UNCHANGED << operand_stack, oper, negative, ydc >>
     \/ /\ ~ halving(loop)
        /\ operand_stack' = Append(operand_stack,
             bigint(IF oper = "/" THEN loop.quotient ELSE loop.remainder, negative))
        /\ ydc' = "scan"
        /\ oper' = " " /\ loop' = NoLoop /\ negative' = FALSE

do_clear == operand_stack' = << >> /\ UNCHANGED << oper, loop, negative, ydc >>

\* The top of an empty vector is read, whatever lies there.
do_dup ==
  \/ Depth = 0 /\ Lose
  \/ /\ Depth \in 1 .. MaxDepth - 1
     /\ operand_stack' = Append(operand_stack, Right)
     /\ UNCHANGED << oper, loop, negative, ydc >>

do_printall == PrintsOnly
do_print == PrintsOnly
do_debug == PrintsOnly
unimplemented == PrintsOnly
do_quit == ydc' = "quit" /\ UNCHANGED << operand_stack, oper, loop, negative >>

Command ==
  /\ ydc = "scan"
  /\ \/ \E n \in Literals : Operand(n)
     \/ StackEmpty
     \/ do_arith(SumOf(Left, Right))
     \/ do_arith(DifferenceOf(Left, Right))
     \/ do_arith(ProductOf(Left, Right))
     \/ do_power
     \/ \E op \in {"/", "%"} : do_division(op)
     \/ do_clear \/ do_dup \/ do_printall \/ do_print \/ do_debug
     \/ unimplemented \/ do_quit

Next == Command \/ Doubles \/ Halves

\* The loops of a division run on; nobody need type anything.
Spec == Init /\ [][Next]_vars /\ WF_vars(Doubles \/ Halves)
=============================================================================
