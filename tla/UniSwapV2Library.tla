-------------------------- MODULE UniSwapV2Library --------------------------
(***************************************************************************)
(* The pure part of contracts/uniswap/UniSwapV2Library.sol, with what the  *)
(* pair contract behind it accepts.                                        *)
(*                                                                         *)
(* Token addresses are naturals, ordered as the contract orders them, and  *)
(* 0 is the zero address.  The CREATE2 address of a pair is the pair of    *)
(* its sorted tokens: the hash is injective.  A failed require is a        *)
(* precondition that does not hold; amounts stay far below 2^256, so that  *)
(* SafeMath has nothing to refuse.                                         *)
(***************************************************************************)
EXTENDS Integers, Sequences

ZeroAddress == 0

CanSort(a, b) == a # b /\ ZeroAddress \notin {a, b}

sortTokens(a, b) == IF a < b THEN <<a, b>> ELSE <<b, a>>

pairFor(a, b) == sortTokens(a, b)

(* reserves maps a pair's address to <<reserve0, reserve1>>; the result is *)
(* <<reserve of a, reserve of b>>.                                         *)
getReserves(reserves, a, b) ==
    LET r == reserves[pairFor(a, b)] IN
    IF a = sortTokens(a, b)[1] THEN r ELSE <<r[2], r[1]>>

(* getAmountOut and getAmountIn have the same requires.                    *)
CanQuote(amount, reserveIn, reserveOut) == amount > 0 /\ reserveIn > 0 /\ reserveOut > 0

(* Mutated forms of getAmountOut: the fee taken, and rounded, beforehand;  *)
(* and no fee at all.                                                      *)
getAmountOutFeeFirst(amountIn, reserveIn, reserveOut) ==
    LET amountInWithFee == (amountIn * 9975) \div 10000 IN
    (amountInWithFee * reserveOut) \div (reserveIn + amountInWithFee)

getAmountOutNoFee(amountIn, reserveIn, reserveOut) ==
    (amountIn * reserveOut) \div (reserveIn + amountIn)

getAmountOut(amountIn, reserveIn, reserveOut) ==
    (amountIn * 9975 * reserveOut) \div (reserveIn * 10000 + amountIn * 9975)

(* Mutated form of getAmountIn: the final add(1) is forgotten.             *)
getAmountInRoundedDown(amountOut, reserveIn, reserveOut) ==
    (reserveIn * amountOut * 10000) \div ((reserveOut - amountOut) * 9975)

getAmountIn(amountOut, reserveIn, reserveOut) ==
    (reserveIn * amountOut * 10000) \div ((reserveOut - amountOut) * 9975) + 1

(* getAmountsOut: the amounts along a path.  CanGetAmountsOut is the       *)
(* conjunction of all the requires met on the way.                         *)
getAmountsOut(reserves, amountIn, path) ==
    LET amounts[i \in 1 .. Len(path)] ==
            IF i = 1 THEN amountIn
            ELSE LET r == getReserves(reserves, path[i - 1], path[i])
                 IN  getAmountOut(amounts[i - 1], r[1], r[2])
    IN  amounts

CanGetAmountsOut(reserves, amountIn, path) ==
    /\ Len(path) >= 2
    /\ \A i \in 1 .. Len(path) - 1 :
        /\ CanSort(path[i], path[i + 1])
        /\ pairFor(path[i], path[i + 1]) \in DOMAIN reserves
    /\ \A i \in 1 .. Len(path) - 1 :
        LET r == getReserves(reserves, path[i], path[i + 1]) IN
        CanQuote(getAmountsOut(reserves, amountIn, path)[i], r[1], r[2])

(***************************************************************************)
(* The pair contract, external.  swap lets an output go if what came in,   *)
(* less the fee per ten thousand, keeps the product of the reserves.       *)
(***************************************************************************)
KeepsProduct(fee, reserveIn, reserveOut, amountIn, amountOut) ==
    ((reserveIn + amountIn) * 10000 - amountIn * fee) * (reserveOut - amountOut)
        >= reserveIn * reserveOut * 10000

PairAccepts(fee, reserveIn, reserveOut, amountIn, amountOut) ==
    /\ amountOut > 0
    /\ amountOut < reserveOut
    /\ KeepsProduct(fee, reserveIn, reserveOut, amountIn, amountOut)
=============================================================================
