-------------------------------- MODULE Numerals --------------------------------
(***************************************************************************)
(* Decimal numerals as sequences of digits.                                *)
(***************************************************************************)
EXTENDS Integers

power_of_ten[exponent \in Nat] ==
  IF exponent = 0 THEN 1 ELSE power_of_ten[exponent - 1] * 10

\* The last `width` digits of a number.
Numeral(number, width) ==
  [i \in 1..width |-> (number \div power_of_ten[width - i]) % 10]
=============================================================================
