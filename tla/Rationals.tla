------------------------------ MODULE Rationals ------------------------------
(***************************************************************************)
(* The exact numbers that privacy is computed in (utils/exact_number.py),  *)
(* as far as measurements need them: the non-negative rationals and        *)
(* infinity, which is 1/0.  They are kept in lowest terms, so that equal   *)
(* numbers are equal values.                                               *)
(***************************************************************************)
EXTENDS Integers

Gcd[p \in Nat \X Nat] == IF p[2] = 0 THEN p[1] ELSE Gcd[<<p[2], p[1] % p[2]>>]

Ratio(n, d) == [n |-> n \div Gcd[<<n, d>>], d |-> d \div Gcd[<<n, d>>]]
Whole(n) == Ratio(n, 1)
Zero == Whole(0)
Infinity == [n |-> 1, d |-> 0]

(* In lowest terms.                                                        *)
IsNumber(a) ==
  a \in [n : Nat, d : Nat] /\ (a.n # 0 \/ a.d # 0) /\ a = Ratio(a.n, a.d)

AtMost(a, b) == a.n * b.d <= b.n * a.d
Plus(a, b) ==
  IF Infinity \in {a, b} THEN Infinity ELSE Ratio(a.n * b.d + b.n * a.d, a.d * b.d)
Times(a, b) == Ratio(a.n * b.n, a.d * b.d)   \* not of 0 and infinity
Divided(a, b) == Ratio(a.n * b.d, a.d * b.n)    \* not 0/0
Squared(a) == Times(a, a)

(* The root of a square.                                                   *)
SquareRoot(a) ==
  LET root(n) == CHOOSE r \in 0 .. n : r * r = n
  IN [n |-> root(a.n), d |-> root(a.d)]
=============================================================================
