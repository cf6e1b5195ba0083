---------------------------- MODULE MCLiquidity -----------------------------
(***************************************************************************)
(* Liquidity with transactions of every kind the handler tells apart.      *)
(***************************************************************************)
EXTENDS Liquidity

LOCAL T(id, from, kind, a, b, desA, minA, desB, minB, gas) ==
    [id |-> id, from |-> from, kind |-> kind, tokenA |-> a, tokenB |-> b,
     desiredA |-> desA, minA |-> minA, desiredB |-> desB, minB |-> minB,
     value |-> IF kind = "addLiquidityETH" THEN desB ELSE 0, gas |-> gas]

(* Additions of the target to the coin, in both orders and with the coin   *)
(* itself, twice by one provider; one with too little collateral; one that *)
(* binds itself to no minimum; one of another token; one to another pair.  *)
AllKinds == {
    T(1, "dev", "addLiquidity", "target", "coin", 4, 4, 9, 8, 7),
    T(2, "dev", "addLiquidity", "coin", "target", 9, 8, 4, 4, 3),
    T(3, "dev", "addLiquidityETH", "target", "coin", 3, 3, 9, 8, 5),
    T(4, "bot", "addLiquidityETH", "target", "coin", 4, 4, 9, 2, 7),
    T(5, "bot", "addLiquidity", "target", "dollar", 2, 2, 9, 8, 7),
    T(6, "bot", "addLiquidity", "coin", "target", 3, 3, 9, 8, 7) }

OtherToken == { T(7, "dev", "addLiquidity", "coin", "other", 9, 8, 4, 4, 3) }

FourKinds == {t \in AllKinds : t.id \in {2, 3, 4, 5}}

BlockTxs == {t \in AllKinds : t.id \in {1, 3, 6}} \cup OtherToken

(* The target is paired with the dollar, and one adds to the coin's pair.  *)
DollarOrder == {t \in AllKinds : t.id \in {3, 5}}
=============================================================================
