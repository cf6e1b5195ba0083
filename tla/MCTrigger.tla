----------------------------- MODULE MCTrigger ------------------------------
(***************************************************************************)
(* Trigger with three tokens: one to buy, the wrapped coin, and another    *)
(* paired token, whose addresses sort in this order.                       *)
(***************************************************************************)
EXTENDS Trigger

Target == 1
Coin == 2
Dollar == 3

CoinDollar == {<<Coin, Dollar>>}
=============================================================================
