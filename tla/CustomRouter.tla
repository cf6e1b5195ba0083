---------------------------- MODULE CustomRouter ----------------------------
(***************************************************************************)
(* contracts/CustomRouter.sol: what swapExactTokensForTokens requires and  *)
(* what it does to the pairs on its path.  Pairs and tokens are external.  *)
(* The deadline the trigger gives lies in the block's own future, and the  *)
(* ensure modifier never refuses it.                                       *)
(***************************************************************************)
EXTENDS UniSwapV2Library

CONSTANTS
    PairFee,    \* what the AMM's pairs take, per ten thousand
    Taxed       \* tokens that keep one unit of every transfer

(* What arrives of an amount of a token that is transferred.               *)
Arrives(token, amount) == IF token \in Taxed /\ amount > 0 THEN amount - 1 ELSE amount

Hops(path) == 1 .. Len(path) - 1

(* route: each pair on the path accepts its hop.  A pair that would be met *)
(* twice has no input left for its second swap.                            *)
PairsAccept(reserves, amounts, path) ==
    /\ \A i, j \in Hops(path) :
          pairFor(path[i], path[i + 1]) = pairFor(path[j], path[j + 1]) => i = j
    /\ \A i \in Hops(path) :
          LET r == getReserves(reserves, path[i], path[i + 1]) IN
          PairAccepts(PairFee, r[1], r[2], Arrives(path[i], amounts[i]), amounts[i + 1])

(* Mutated form of LastAmount: the off-by-one of a zero-based index.       *)
AmountBeforeLast(amounts, path) == amounts[Len(path) - 1]

(* amounts[amounts.length - 1]                                             *)
LastAmount(amounts, path) == amounts[Len(path)]

CanSwap(reserves, amountIn, amountOutMin, path) ==
    /\ CanGetAmountsOut(reserves, amountIn, path)
    /\ LET amounts == getAmountsOut(reserves, amountIn, path) IN
       /\ LastAmount(amounts, path) >= amountOutMin
       /\ PairsAccept(reserves, amounts, path)

(* A pair after it took in of its token a and gave out of its token b.     *)
AfterHop(r, a, b, in, out) ==
    IF a = sortTokens(a, b)[1] THEN <<r[1] + in, r[2] - out>> ELSE <<r[1] - out, r[2] + in>>

(* The pairs after the swaps of route.                                     *)
ReservesAfter(reserves, amounts, path) ==
    [p \in DOMAIN reserves |->
        IF \E i \in Hops(path) : pairFor(path[i], path[i + 1]) = p
        THEN LET i == CHOOSE j \in Hops(path) : pairFor(path[j], path[j + 1]) = p IN
             AfterHop(reserves[p], path[i], path[i + 1],
                      Arrives(path[i], amounts[i]), amounts[i + 1])
        ELSE reserves[p]]
=============================================================================
