------------------------------ MODULE Division ------------------------------
(***************************************************************************)
(* Long division by doubling and halving: udivide (asg1/code/ubigint.cpp)  *)
(* on natural numbers.  The divisor is doubled until it reaches the        *)
(* dividend, then halved back, and subtracted wherever it goes.            *)
(***************************************************************************)
EXTENDS Integers

VARIABLES phase, dividend, divisor_, divisor, power_of_2, quotient, remainder

vars == << phase, dividend, divisor_, divisor, power_of_2, quotient, remainder >>

Idle ==
  /\ phase = "idle"
  /\ dividend = 0 /\ divisor_ = 0 /\ divisor = 0
  /\ power_of_2 = 0 /\ quotient = 0 /\ remainder = 0

Init == Idle

Start ==
  /\ phase = "idle"
  /\ phase' = "double"
  /\ dividend' \in Nat /\ divisor_' \in Nat \ {0}
  /\ divisor' = divisor_' /\ power_of_2' = 1
  /\ quotient' = 0 /\ remainder' = dividend'

Double ==
  /\ phase = "double" /\ divisor < remainder
  /\ divisor' = 2 * divisor /\ power_of_2' = 2 * power_of_2
  /\ UNCHANGED << phase, dividend, divisor_, quotient, remainder >>

Turn ==
  /\ phase = "double" /\ divisor >= remainder
  /\ phase' = "halve"
  /\ UNCHANGED << dividend, divisor_, divisor, power_of_2, quotient, remainder >>

Halve ==
  /\ phase = "halve" /\ power_of_2 > 0
  /\ \/ /\ divisor <= remainder
        /\ remainder' = remainder - divisor /\ quotient' = quotient + power_of_2
     \/ divisor > remainder /\ UNCHANGED << remainder, quotient >>
  /\ divisor' = divisor \div 2 /\ power_of_2' = power_of_2 \div 2
  /\ UNCHANGED << phase, dividend, divisor_ >>

Finish == phase = "halve" /\ power_of_2 = 0 /\ Idle'

Next == Start \/ Double \/ Turn \/ Halve \/ Finish

Spec == Init /\ [][Next]_vars

\* When the loops have ended, quotient and remainder are those of Euclid, and
\* the sum is kept at every turn (ubigint.cpp:520-527).
QuotientRight ==
  phase # "idle" =>
    /\ dividend = quotient * divisor_ + remainder
    /\ phase = "halve" /\ power_of_2 = 0 => remainder < divisor_
=============================================================================
