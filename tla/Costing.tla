------------------------------ MODULE Costing ------------------------------
(***************************************************************************)
(* The arithmetic of the cost of an edge that engine.py, mqtt_bridge.py    *)
(* and the injector share, in integers: exponents in tenths, their         *)
(* exponentials in thousandths, temperatures in tenths of a degree, smoke  *)
(* in thousandths.                                                         *)
(***************************************************************************)
EXTENDS Integers

AtMost(a, b) == IF a < b THEN a ELSE b
Clamped(a, low, high) == AtMost(high, IF a < low THEN low ELSE a)

\* Python's round of n / d: a half goes to the even neighbour.
Rounded(n, d) ==
    LET q == n \div d
        r == 2 * (n % d)
    IN  IF r > d \/ (r = d /\ q % 2 = 1) THEN q + 1 ELSE q

Exp[x \in 0 .. 70] == IF x = 0 THEN 1000 ELSE (Exp[x - 1] * 1105) \div 1000

\* ALPHA * T_norm + BETA * S_norm, the temperature from 25 to 80 degrees.
HazardExponent(temp, smoke) ==
    Clamped((22 * (temp - 250)) \div 550, 0, 22) + Clamped((16 * smoke) \div 1000, 0, 16)

\* SHELTER_THRESHOLD, in thousandths of half a metre; a burning edge (times
\* BLOCK_MULTIPLIER) is never below it.
ShelterThreshold == 200000000
BlockedCost == ShelterThreshold
=============================================================================
