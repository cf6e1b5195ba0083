---------------------------- MODULE QuoteProofs -----------------------------
(***************************************************************************)
(* The properties of QuoteCheck, for reserves and amounts of any size and  *)
(* any number of swaps.                                                    *)
(***************************************************************************)
EXTENDS QuoteCheck, LibraryProofs

(* A pair that was not empty is never emptied by swaps.                    *)
NotEmptied ==
    /\ reserveIn \in Nat \ {0}
    /\ reserveOut \in Nat \ {0}
    /\ amount \in Nat \ {0}

(* Swaps keep both reserves positive, for swap requires out < reserveOut.  *)
LEMMA NeverEmptied == Spec => []NotEmptied
<1>1. Init => NotEmptied
    BY QuoteCheckAssumption DEF Init, NotEmptied
<1>2. NotEmptied /\ [Next]_vars => NotEmptied'
    <2>. SUFFICES ASSUME NotEmptied, [Next]_vars PROVE NotEmptied'
        OBVIOUS
    <2>1. CASE Swap
        <3>1. out \in Nat
            BY AmountOut DEF NotEmptied, out
        <3>2. out < reserveOut
            BY <2>1 DEF Swap, PairAccepts
        <3>3. amount' \in Nat \ {0}
            BY <2>1, QuoteCheckAssumption DEF Swap
        <3>4. reserveIn' = reserveIn + amount /\ reserveOut' = reserveOut - out
            BY <2>1 DEF Swap
        <3>. QED
            BY <3>1, <3>2, <3>3, <3>4 DEF NotEmptied
    <2>2. CASE UNCHANGED vars
        BY <2>2 DEF vars, NotEmptied
    <2>. QED
        BY <2>1, <2>2 DEF Next
<1>. QED
    BY <1>1, <1>2, PTL DEF Spec

(***************************************************************************)
(* getAmountOut never quotes what the pair refuses, whatever happened to   *)
(* the pair before, if the pair's fee is at most the library's.            *)
(***************************************************************************)
THEOREM EveryQuoteAccepted ==
    ASSUME PairFee <= 25
    PROVE  Spec => []QuoteIsAccepted
<1>1. PairFee \in 0 .. 25
    BY QuoteCheckAssumption
<1>2. NotEmptied => QuoteIsAccepted
    <2>. SUFFICES ASSUME NotEmptied, out > 0
                  PROVE  PairAccepts(PairFee, reserveIn, reserveOut, amount, out)
        BY DEF QuoteIsAccepted
    <2>1. amount \in Nat /\ reserveIn \in Nat /\ reserveOut \in Nat
        BY DEF NotEmptied
    <2>2. reserveIn > 0 /\ reserveOut > 0
        BY DEF NotEmptied
    <2>3. getAmountOut(amount, reserveIn, reserveOut) > 0
        BY DEF out
    <2>. QED
        BY <1>1, <2>1, <2>2, <2>3, QuoteAccepted, Zenon DEF out
<1>. QED
    BY <1>2, NeverEmptied, PTL

(***************************************************************************)
(* getAmountOut never leaves anything on the table: a pair whose fee is    *)
(* the library's refuses one unit more.                                    *)
(***************************************************************************)
THEOREM EveryQuoteMaximal ==
    ASSUME PairFee = 25
    PROVE  Spec => []QuoteIsMaximal
<1>1. NotEmptied => QuoteIsMaximal
    BY QuoteMaximal DEF NotEmptied, QuoteIsMaximal, out
<1>. QED
    BY <1>1, NeverEmptied, PTL

(* A product that is smaller, of a positive factor, has a smaller cofactor. *)
LEMMA Cofactor ==
    ASSUME NEW m \in Nat, NEW n \in Nat, NEW d \in Nat, m * d < n * d
    PROVE  m < n
<1>1. ASSUME n <= m PROVE FALSE
    <2>1. n * d <= m * d
        BY <1>1, ProductIsMonotone
    <2>2. n * d \in Int /\ m * d \in Int
        BY SMT
    <2>. QED
        BY <2>1, <2>2
<1>. QED
    BY <1>1

(***************************************************************************)
(* What getAmountIn asks for gets the output it was asked for ...          *)
(***************************************************************************)
LEMMA AmountInIsEnough ==
    ASSUME NEW rIn \in Nat, NEW rOut \in Nat, NEW want \in Nat, rIn > 0, want < rOut
    PROVE  /\ getAmountIn(want, rIn, rOut) \in Nat
           /\ getAmountOut(getAmountIn(want, rIn, rOut), rIn, rOut) >= want
<1> DEFINE n == rIn * want * 10000
           d == (rOut - want) * 9975
           need == getAmountIn(want, rIn, rOut)
           got == getAmountOut(need, rIn, rOut)
<1>1. n \in Nat /\ d \in Nat /\ d > 0
    BY Product
<1>2. need = n \div d + 1
    BY DEF getAmountIn
<1>3. need \in Nat /\ n < need * d
    BY <1>1, <1>2, Quotient
<1>4. /\ got \in Nat
      /\ Numerator(need, rOut) < (got + 1) * Denominator(need, rIn)
    BY <1>3, AmountOut
<1>5. Denominator(need, rIn) \in Nat /\ Numerator(need, rOut) \in Nat
    BY <1>3, Product DEF Denominator, Numerator
<1>6. want * Denominator(need, rIn) < Numerator(need, rOut)
    <2>1. want * Denominator(need, rIn) = n + want * (need * 9975)
        BY <1>3, SMT DEF Denominator
    <2>2. Numerator(need, rOut) = need * d + want * (need * 9975)
        BY <1>3, SMT DEF Numerator
    <2>3. need * d \in Int /\ want * (need * 9975) \in Int
        BY <1>1, <1>3, SMT
    <2>. HIDE DEF n, d, need
    <2>. QED
        BY <1>1, <1>3, <2>1, <2>2, <2>3
<1>7. want * Denominator(need, rIn) < (got + 1) * Denominator(need, rIn)
    <2>1. want * Denominator(need, rIn) \in Int /\ (got + 1) * Denominator(need, rIn) \in Int
        BY <1>4, <1>5, SMT
    <2>. HIDE DEF need, got
    <2>. QED
        BY <1>4, <1>5, <1>6, <2>1
<1>8. want < got + 1
    BY <1>4, <1>5, <1>7, Cofactor
<1>. HIDE DEF need, got
<1>. QED
    BY <1>3, <1>4, <1>8 DEF need, got

(***************************************************************************)
(* ... and two units less do not.                                          *)
(***************************************************************************)
LEMMA AmountInIsNeeded ==
    ASSUME NEW rIn \in Nat, NEW rOut \in Nat, NEW want \in Nat, rIn > 0, want < rOut,
           getAmountIn(want, rIn, rOut) > 2
    PROVE  getAmountOut(getAmountIn(want, rIn, rOut) - 2, rIn, rOut) < want
<1> DEFINE n == rIn * want * 10000
           d == (rOut - want) * 9975
           q == n \div d
           less == q - 1
           got == getAmountOut(less, rIn, rOut)
<1>1. n \in Nat /\ d \in Nat /\ d > 0
    BY Product
<1>2. q \in Nat /\ q * d <= n
    BY <1>1, Quotient
<1>3. getAmountIn(want, rIn, rOut) = q + 1
    BY DEF getAmountIn
<1>4. less \in Nat /\ getAmountIn(want, rIn, rOut) - 2 = less
    BY <1>2, <1>3
<1>5. less * d < n
    <2>1. less * d = q * d - d
        BY <1>1, <1>2, SMT
    <2>2. less * d \in Int /\ q * d \in Int
        BY <1>1, <1>2, <1>4, SMT
    <2>. HIDE DEF n, d, q, less
    <2>. QED
        BY <1>1, <1>2, <2>1, <2>2
<1>6. got \in Nat /\ got * Denominator(less, rIn) <= Numerator(less, rOut)
    BY <1>4, AmountOut
<1>7. Denominator(less, rIn) \in Nat /\ Numerator(less, rOut) \in Nat
    BY <1>4, Product DEF Denominator, Numerator
<1>8. Numerator(less, rOut) < want * Denominator(less, rIn)
    <2>. HIDE DEF q
    <2>1. want * Denominator(less, rIn) = n + want * (less * 9975)
        BY <1>4, SMT DEF Denominator
    <2>2. Numerator(less, rOut) = less * d + want * (less * 9975)
        BY <1>4, SMT DEF Numerator
    <2>3. less * d \in Int /\ want * (less * 9975) \in Int
        BY <1>1, <1>4, SMT
    <2>. HIDE DEF n, d, less
    <2>. QED
        BY <1>1, <1>5, <2>1, <2>2, <2>3
<1>9. got * Denominator(less, rIn) < want * Denominator(less, rIn)
    <2>1. want * Denominator(less, rIn) \in Int /\ got * Denominator(less, rIn) \in Int
        BY <1>6, <1>7, SMT
    <2>. HIDE DEF less, got
    <2>. QED
        BY <1>6, <1>7, <1>8, <2>1
<1>10. got < want
    BY <1>6, <1>7, <1>9, Cofactor
<1>. QED
    BY <1>4, <1>10

(***************************************************************************)
(* getAmountIn rounds to the safe side, and by less than two units.        *)
(***************************************************************************)
THEOREM EveryInputSuffices == Spec => []InputSuffices
<1>1. NotEmptied => InputSuffices
    BY AmountInIsEnough, AmountInIsNeeded DEF NotEmptied, InputSuffices
<1>. QED
    BY <1>1, NeverEmptied, PTL
=============================================================================
