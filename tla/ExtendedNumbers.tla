--------------------------- MODULE ExtendedNumbers ---------------------------
(***************************************************************************)
(* The float64 numbers that are not negative, as far as prices need them:  *)
(* fractions, infinity and NaN, with the arithmetic of IEEE 754 on them    *)
(* but for its rounding.  A number is a pair of naturals, numerator and    *)
(* denominator: <<1, 0>> is infinite, <<0, 0>> is NaN.  On such pairs      *)
(* division and multiplication yield what Go yields for 0/0, x/0, x/Inf,   *)
(* Inf/Inf and 0*Inf without a case of their own.                          *)
(***************************************************************************)
EXTENDS Integers

Numbers == Nat \X Nat
FiniteNumbers == Nat \X (Nat \ {0})

Number(n) == <<n, 1>>
NaN == <<0, 0>>
Infinity == <<1, 0>>
Zero == Number(0)

IsNaN(x) == x[1] = 0 /\ x[2] = 0
IsInf(x) == x[1] > 0 /\ x[2] = 0
IsFinite(x) == x[2] > 0
IsZero(x) == x[1] = 0 /\ x[2] > 0

(* Lowest terms, which keep the integers small. *)
gcd(x) ==
    LET M == x[1] + x[2]
        euclid[p \in (0..M) \X (0..M)] ==
            IF p[2] = 0 THEN p[1] ELSE euclid[<<p[2], p[1] % p[2]>>]
    IN  euclid[x]
Lowest(x) == IF IsNaN(x) THEN NaN ELSE <<x[1] \div gcd(x), x[2] \div gcd(x)>>

Times(x, y) == Lowest(<<x[1] * y[1], x[2] * y[2]>>)
Over(x, y) == Lowest(<<x[1] * y[2], x[2] * y[1]>>)
Plus(x, y) ==
    IF IsInf(x) /\ IsInf(y) THEN Infinity
    ELSE Lowest(<<x[1] * y[2] + y[1] * x[2], x[2] * y[2]>>)

(* A number or zero: what the code does wherever it finds NaN. *)
OrZero(x) == IF IsNaN(x) THEN Zero ELSE x

(* The nearest multiple of 1/decimals: what is left of a number that was   *)
(* printed with "%f" and parsed again.  NaN and infinity are left alone.   *)
Rounded(x, decimals) ==
    IF IsFinite(x) THEN Lowest(<<(2 * x[1] * decimals + x[2]) \div (2 * x[2]), decimals>>) ELSE x

(* Two finite numbers that differ by no more than e. *)
Within(x, y, e) ==
    LET d == x[1] * y[2] - y[1] * x[2]
    IN  /\ IsFinite(x) /\ IsFinite(y)
        /\ (IF d < 0 THEN -d ELSE d) * e[2] <= e[1] * x[2] * y[2]
=============================================================================
