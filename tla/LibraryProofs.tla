--------------------------- MODULE LibraryProofs ----------------------------
(***************************************************************************)
(* What UniSwapV2Library computes, for amounts and reserves of any size.   *)
(***************************************************************************)
EXTENDS UniSwapV2Library, TLAPS

(***************************************************************************)
(* Integer division, as Solidity's / on uint rounds: the quotient is the   *)
(* largest number that fits.                                               *)
(***************************************************************************)
LEMMA Quotient ==
    ASSUME NEW n \in Nat, NEW d \in Nat, d > 0
    PROVE  /\ n \div d \in Nat
           /\ (n \div d) * d <= n
           /\ n < (n \div d + 1) * d
BY SMT

(* The products of naturals the formulas are made of are naturals.         *)
LEMMA Product ==
    ASSUME NEW m \in Nat, NEW n \in Nat
    PROVE  m * n \in Nat
BY SMT

Numerator(amountIn, reserveOut) == amountIn * 9975 * reserveOut

Denominator(amountIn, reserveIn) == reserveIn * 10000 + amountIn * 9975

(***************************************************************************)
(* getAmountOut is a natural number, the largest one whose product with    *)
(* the denominator does not exceed the numerator.                          *)
(***************************************************************************)
LEMMA AmountOut ==
    ASSUME NEW in \in Nat, NEW rIn \in Nat, NEW rOut \in Nat, rIn > 0
    PROVE  LET out == getAmountOut(in, rIn, rOut) IN
           /\ out \in Nat
           /\ out * Denominator(in, rIn) <= Numerator(in, rOut)
           /\ Numerator(in, rOut) < (out + 1) * Denominator(in, rIn)
<1>1. Numerator(in, rOut) \in Nat
    BY Product DEF Numerator
<1>2. Denominator(in, rIn) \in Nat /\ Denominator(in, rIn) > 0
    BY DEF Denominator
<1>3. getAmountOut(in, rIn, rOut) = Numerator(in, rOut) \div Denominator(in, rIn)
    BY DEF getAmountOut, Numerator, Denominator
<1>. QED
    BY <1>1, <1>2, <1>3, Quotient

(* The amounts along a path of one pair.                                   *)
LEMMA AmountsOverOnePair ==
    ASSUME NEW reserves, NEW in, NEW a, NEW b
    PROVE  LET r == getReserves(reserves, a, b) IN
           /\ getAmountsOut(reserves, in, <<a, b>>)[1] = in
           /\ getAmountsOut(reserves, in, <<a, b>>)[2] = getAmountOut(in, r[1], r[2])
<1> DEFINE path == <<a, b>>
           r(i) == getReserves(reserves, path[i - 1], path[i])
           step(g) == [i \in 1 .. Len(path) |->
                          IF i = 1 THEN in ELSE getAmountOut(g[i - 1], r(i)[1], r(i)[2])]
           f == [i \in 1 .. 2 |-> IF i = 1 THEN in ELSE getAmountOut(in, r(2)[1], r(2)[2])]
<1>0. Len(path) = 2
    OBVIOUS
<1>1. f = step(f)
    <2>1. 1 .. Len(path) = 1 .. 2
        BY <1>0
    <2>2. \A i \in 1 .. 2 : f[i] = step(f)[i]
        BY <2>1
    <2>. QED
        BY <2>1, <2>2
<1>2. getAmountsOut(reserves, in, path) = CHOOSE g : g = step(g)
    BY DEF getAmountsOut
<1>3. getAmountsOut(reserves, in, path) = step(getAmountsOut(reserves, in, path))
    BY <1>1, <1>2
<1>. QED
    BY <1>3, <1>0

(* The amounts along a path of two pairs.                                  *)
LEMMA AmountsOverTwoPairs ==
    ASSUME NEW reserves, NEW in, NEW a, NEW b, NEW c
    PROVE  LET r == getReserves(reserves, a, b)
               s == getReserves(reserves, b, c)
               amounts == getAmountsOut(reserves, in, <<a, b, c>>) IN
           /\ amounts[1] = in
           /\ amounts[2] = getAmountOut(in, r[1], r[2])
           /\ amounts[3] = getAmountOut(amounts[2], s[1], s[2])
<1> DEFINE path == <<a, b, c>>
           r(i) == getReserves(reserves, path[i - 1], path[i])
           step(g) == [i \in 1 .. Len(path) |->
                          IF i = 1 THEN in ELSE getAmountOut(g[i - 1], r(i)[1], r(i)[2])]
           second == getAmountOut(in, r(2)[1], r(2)[2])
           third == getAmountOut(second, r(3)[1], r(3)[2])
           f == [i \in 1 .. 3 |-> IF i = 1 THEN in ELSE IF i = 2 THEN second ELSE third]
<1>0. Len(path) = 3
    OBVIOUS
<1>1. f = step(f)
    <2>1. 1 .. Len(path) = 1 .. 3
        BY <1>0
    <2>2. \A i \in 1 .. 3 : f[i] = step(f)[i]
        BY <2>1
    <2>. QED
        BY <2>1, <2>2
<1>2. getAmountsOut(reserves, in, path) = CHOOSE g : g = step(g)
    BY DEF getAmountsOut
<1>3. getAmountsOut(reserves, in, path) = step(getAmountsOut(reserves, in, path))
    BY <1>1, <1>2
<1>. QED
    BY <1>3, <1>0

(***************************************************************************)
(* Multiplication by a natural number respects the order.                  *)
(***************************************************************************)
LEMMA ProductIsMonotone ==
    ASSUME NEW l \in Int, NEW m \in Int, NEW n \in Nat, l <= m
    PROVE  l * n <= m * n
BY SMT

(* Multiplication distributes over a difference.                           *)
LEMMA ProductOfDifference ==
    ASSUME NEW d \in Int, NEW m \in Int, NEW n \in Int
    PROVE  d * (m - n) = d * m - n * d
BY SMT

(***************************************************************************)
(* A pair whose fee is the library's takes an output exactly if it is not  *)
(* above the quotient getAmountOut rounds down.                            *)
(***************************************************************************)
LEMMA ProductKept ==
    ASSUME NEW in \in Nat, NEW rIn \in Nat, NEW rOut \in Nat, NEW out \in Int
    PROVE  KeepsProduct(25, rIn, rOut, in, out)
               <=> out * Denominator(in, rIn) <= Numerator(in, rOut)
<1> DEFINE d == Denominator(in, rIn)
           n == Numerator(in, rOut)
<1>1. d \in Int /\ n \in Int
    BY Product DEF Denominator, Numerator
<1>2. (rIn + in) * 10000 - in * 25 = d
    BY DEF Denominator
<1>3. d * (rOut - out) = d * rOut - out * d
    BY <1>1, ProductOfDifference
<1>4. d * rOut = rIn * rOut * 10000 + n
    BY SMT DEF Denominator, Numerator
<1>5. out * d \in Int /\ rIn * rOut * 10000 \in Int
    BY <1>1, SMT
<1>. HIDE DEF d, n
<1>. QED
    BY <1>1, <1>2, <1>3, <1>4, <1>5 DEF KeepsProduct, d, n

(***************************************************************************)
(* An output is below the reserve it is taken from.                        *)
(***************************************************************************)
LEMMA OutBelowReserve ==
    ASSUME NEW in \in Nat, NEW rIn \in Nat, NEW rOut \in Nat, rIn > 0, rOut > 0
    PROVE  getAmountOut(in, rIn, rOut) < rOut
<1> DEFINE d == Denominator(in, rIn)
           n == Numerator(in, rOut)
           out == getAmountOut(in, rIn, rOut)
<1>1. d \in Nat /\ n \in Nat
    BY Product DEF Denominator, Numerator
<1>2. out \in Nat /\ out * d <= n
    BY AmountOut
<1>3. n < rOut * d
    <2>1. rOut * d = rIn * rOut * 10000 + n
        BY SMT DEF Denominator, Numerator
    <2>2. rIn * rOut * 10000 > 0
        BY SMT
    <2>3. rOut * d \in Int
        BY <1>1, SMT
    <2>. HIDE DEF d, n
    <2>. QED
        BY <1>1, <2>1, <2>2, <2>3, SMT
<1>4. ASSUME rOut <= out PROVE FALSE
    <2>1. rOut * d <= out * d
        BY <1>1, <1>2, <1>4, ProductIsMonotone
    <2>2. rOut * d \in Int /\ out * d \in Int
        BY <1>1, <1>2, SMT
    <2>. HIDE DEF d, n, out
    <2>. QED
        BY <1>1, <1>2, <1>3, <2>1, <2>2
<1>. HIDE DEF d, n
<1>. QED
    BY <1>2, <1>4

(***************************************************************************)
(* Taking a smaller fee, a pair accepts all the more.                      *)
(***************************************************************************)
LEMMA SmallerFee ==
    ASSUME NEW fee \in 0 .. 25, NEW in \in Nat, NEW rIn \in Nat, NEW rOut \in Nat,
           NEW out \in Nat, out <= rOut, KeepsProduct(25, rIn, rOut, in, out)
    PROVE  KeepsProduct(fee, rIn, rOut, in, out)
<1> DEFINE l == (rIn + in) * 10000 - in * 25
           m == (rIn + in) * 10000 - in * fee
<1>1. l \in Int /\ m \in Int
    BY SMT
<1>2. in * fee <= in * 25
    BY ProductIsMonotone, SMT
<1>3. l <= m
    BY <1>2, SMT
<1>4. rOut - out \in Nat
    OBVIOUS
<1>5. l * (rOut - out) <= m * (rOut - out)
    BY <1>1, <1>3, <1>4, ProductIsMonotone
<1>6. l * (rOut - out) \in Int /\ m * (rOut - out) \in Int /\ rIn * rOut * 10000 \in Int
    BY <1>1, <1>4, SMT
<1>7. l * (rOut - out) >= rIn * rOut * 10000
    BY DEF KeepsProduct
<1>8. m * (rOut - out) >= rIn * rOut * 10000
    <2>. HIDE DEF l, m
    <2>. QED BY <1>5, <1>6, <1>7
<1>. QED
    BY <1>8 DEF KeepsProduct

(***************************************************************************)
(* getAmountOut quotes what a pair accepts, if the pair takes no larger    *)
(* fee than the library reckons with and the quote is not zero.            *)
(***************************************************************************)
THEOREM QuoteAccepted ==
    ASSUME NEW fee \in 0 .. 25, NEW in \in Nat, NEW rIn \in Nat, NEW rOut \in Nat,
           rIn > 0, rOut > 0, getAmountOut(in, rIn, rOut) > 0
    PROVE  PairAccepts(fee, rIn, rOut, in, getAmountOut(in, rIn, rOut))
<1> DEFINE out == getAmountOut(in, rIn, rOut)
<1>1. out \in Nat /\ out * Denominator(in, rIn) <= Numerator(in, rOut)
    BY AmountOut
<1>2. out < rOut
    BY OutBelowReserve
<1>3. KeepsProduct(25, rIn, rOut, in, out)
    BY <1>1, ProductKept
<1>4. KeepsProduct(fee, rIn, rOut, in, out)
    <2>1. out \in Nat /\ out <= rOut
        BY <1>1, <1>2
    <2>. HIDE DEF out
    <2>. QED BY <1>3, <2>1, SmallerFee
<1>. QED
    BY <1>2, <1>4 DEF PairAccepts

(***************************************************************************)
(* ... and no pair with the library's fee accepts more.                    *)
(***************************************************************************)
THEOREM QuoteMaximal ==
    ASSUME NEW in \in Nat, NEW rIn \in Nat, NEW rOut \in Nat, rIn > 0
    PROVE  ~PairAccepts(25, rIn, rOut, in, getAmountOut(in, rIn, rOut) + 1)
<1> DEFINE out == getAmountOut(in, rIn, rOut)
           d == Denominator(in, rIn)
           n == Numerator(in, rOut)
<1>1. d \in Nat /\ n \in Nat
    BY Product DEF Denominator, Numerator
<1>2. out \in Nat /\ n < (out + 1) * d
    BY AmountOut
<1>3. (out + 1) * d \in Int
    BY <1>1, <1>2, SMT
<1>4. ~((out + 1) * d <= n)
    <2>. HIDE DEF out, d, n
    <2>. QED BY <1>1, <1>2, <1>3
<1>5. ~KeepsProduct(25, rIn, rOut, in, out + 1)
    BY <1>2, <1>4, ProductKept
<1>. QED
    BY <1>5 DEF PairAccepts
=============================================================================
