----------------------------- MODULE QuoteCheck -----------------------------
(***************************************************************************)
(* UniSwapV2Library over bounded inputs: one state per pair of reserves    *)
(* and amount.  A step is a swap of that amount through the pair, as the   *)
(* router makes it, which leads to the reserves of the next state.         *)
(***************************************************************************)
EXTENDS UniSwapV2Library

CONSTANTS
    Reserves,   \* reserves a pair may start with
    Amounts,    \* amounts put in
    PairFee,    \* what the pair takes, per ten thousand
    MaxSwaps    \* bound: swaps in a row

ASSUME QuoteCheckAssumption ==
    /\ Reserves \subseteq Nat \ {0}
    /\ Amounts \subseteq Nat \ {0}
    /\ PairFee \in 0 .. 10000
    /\ MaxSwaps \in Nat

VARIABLES reserveIn, reserveOut, amount, swaps

vars == <<reserveIn, reserveOut, amount, swaps>>

out == getAmountOut(amount, reserveIn, reserveOut)

Init ==
    /\ reserveIn \in Reserves
    /\ reserveOut \in Reserves
    /\ amount \in Amounts
    /\ swaps = 0

Swap ==
    /\ swaps < MaxSwaps
    /\ PairAccepts(PairFee, reserveIn, reserveOut, amount, out)
    /\ reserveIn' = reserveIn + amount
    /\ reserveOut' = reserveOut - out
    /\ amount' \in Amounts
    /\ swaps' = swaps + 1

Next == Swap

Spec == Init /\ [][Next]_vars

(***************************************************************************)
(* "the maximum output amount of the other asset": the pair accepts what   *)
(* getAmountOut says, whenever that is anything at all.                    *)
(***************************************************************************)
QuoteIsAccepted == out > 0 => PairAccepts(PairFee, reserveIn, reserveOut, amount, out)

(***************************************************************************)
(* ... and it accepts no more than that.                                   *)
(***************************************************************************)
QuoteIsMaximal == ~PairAccepts(PairFee, reserveIn, reserveOut, amount, out + 1)

(***************************************************************************)
(* "a required input amount": putting in what getAmountIn asks for an      *)
(* output gets at least that output, and two less does not.                *)
(***************************************************************************)
InputSuffices == \A want \in 1 .. reserveOut - 1 :
    LET need == getAmountIn(want, reserveIn, reserveOut) IN
    /\ getAmountOut(need, reserveIn, reserveOut) >= want
    /\ need > 2 => getAmountOut(need - 2, reserveIn, reserveOut) < want
=============================================================================
