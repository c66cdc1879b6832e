---------------------------------- MODULE Money --------------------------------
(***************************************************************************)
(* The amounts of internal/domain/shared/money.go: conversion at a decimal *)
(* rate, fees in basis points and sums, in Go's fixed-width integers.      *)
(*                                                                         *)
(* An amount counts minor units.  A rate, a decimal.Decimal, is a          *)
(* fraction.  MaxMinor is 2^63 - 1 in the code.                            *)
(***************************************************************************)
EXTENDS Integers

CONSTANTS Currency,  \* the keys of supportedCurrencies
          Unit,      \* ten to the scale: the minor units of one major unit
          MaxMinor   \* the largest integer

ASSUME MoneyAssumption ==
    /\ Unit \in [Currency -> Nat \ {0}]
    /\ MaxMinor \in Nat \ {0}

Minor == -(MaxMinor + 1)..MaxMinor
Money == [currency : Currency, minor : Minor]
Rate == [num : Int, den : Nat \ {0}]

--------------------------------------------------------------------------------
(* Go's integers. *)

\* Two's complement.
Wrap(x) == ((x + MaxMinor + 1) % (2 * (MaxMinor + 1))) - (MaxMinor + 1)

\* x / 10000 and x % 10000 truncate towards zero.
Quo10000(x) == IF x >= 0 THEN x \div 10000 ELSE -((-x) \div 10000)
Rem10000(x) == IF x >= 0 THEN x % 10000 ELSE -((-x) % 10000)

--------------------------------------------------------------------------------
(* Conversion. *)

\* decimal.RoundBank(0) of n/d: to the nearest integer, and of two to the even.
RoundBank(n, d) ==
    LET q == n \div d
        r == n % d
    IN  IF 2 * r > d \/ (2 * r = d /\ q % 2 = 1) THEN q + 1 ELSE q

ValidatePositive(m) == m.minor > 0

CanConvert(base, rate) == ValidatePositive(base) /\ rate.num > 0

\* Convert, of what CanConvert lets through.
Convert(base, target, rate) ==
    [currency |-> target,
     minor |-> Wrap(RoundBank(base.minor * rate.num * Unit[target],
                              rate.den * Unit[base.currency]))]

--------------------------------------------------------------------------------
(* Fees and sums. *)

\* A bug: what the division leaves over is not charged.
FeeTruncated(base, feeBPS, minimum) ==
    LET calculated == Quo10000(Wrap(base.minor * feeBPS))
    IN  [currency |-> base.currency,
         minor |-> IF calculated < minimum.minor THEN minimum.minor ELSE calculated]

CanCharge(base, feeBPS, minimum) ==
    base.currency = minimum.currency /\ feeBPS >= 0

\* FeeFromBPS, of what CanCharge lets through.
FeeFromBPS(base, feeBPS, minimum) ==
    LET product == Wrap(base.minor * feeBPS)
        calculated == Quo10000(product) + (IF Rem10000(product) # 0 THEN 1 ELSE 0)
    IN  [currency |-> base.currency,
         minor |-> IF calculated < minimum.minor THEN minimum.minor ELSE calculated]

\* Add, of two amounts of one currency.
Add(m, other) ==
    [currency |-> m.currency, minor |-> Wrap(m.minor + other.minor)]

--------------------------------------------------------------------------------
(* What the results ought to be, without rounding, division or overflow. *)

\* fee is the least whole amount that is no less than feeBPS basis points of
\* minor and no less than minimum.
IsFeeDue(fee, minor, feeBPS, minimum) ==
    /\ fee >= minimum
    /\ fee * 10000 >= minor * feeBPS
    /\ fee > minimum => (fee - 1) * 10000 < minor * feeBPS

\* q is an integer nearest to n/d, the even one of two.
IsNearest(q, n, d) ==
    /\ 2 * (q * d - n) <= d
    /\ 2 * (n - q * d) <= d
    /\ (2 * (q * d - n) = d \/ 2 * (n - q * d) = d) => q % 2 = 0

================================================================================
