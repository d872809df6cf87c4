------------------------------ MODULE MCNumbers ------------------------------
(***************************************************************************)
(* Doubles of three binary digits for TLC, which with integers of five     *)
(* bits are in the proportions of 53 and 64.                               *)
(***************************************************************************)
EXTENDS Numbers, FiniteSetsExt

\* The distance of the doubles at x: three digits from it onwards.
Ulp(x) == Min({u \in {1, 2, 4, 8, 16} : x < 8 * u} \cup {32})

\* To the nearest double, to the even one of two.
NearestEven(x) ==
    LET u == Ulp(Magnitude(x))
        below == x \div u
        rest  == x % u
    IN  IF 2 * rest < u \/ (2 * rest = u /\ below % 2 = 0) THEN below * u ELSE (below + 1) * u

RoundedOrInf ==
    [x \in -2 * MaxReal..2 * MaxReal |->
        LET r == NearestEven(x) IN
        IF r > MaxReal THEN Inf ELSE IF r < -MaxReal THEN -Inf ELSE r]

MCRounded(x) == RoundedOrInf[x]
=============================================================================
