------------------------------ MODULE MCSystem ------------------------------
(***************************************************************************)
(* The running program on four blocks, two with an addition and two that   *)
(* are empty, so that both workers can be inside Snipe with the channel    *)
(* full behind them; or on a hash that is an addition.                     *)
(***************************************************************************)
EXTENDS System

TwoAdditions == [e \in Hashes \cup Blocks |->
                     IF e \in {"b3", "b4"} THEN <<>> ELSE <<"addition">>]

Rank == [h1 |-> 1, b1 |-> 1, b2 |-> 2, b3 |-> 3, b4 |-> 4]

(* Bound: blocks are notified in their order.                              *)
InOrder == \A e, f \in E!Streamed :
    Rank[e] < Rank[f] /\ at'[f] # "unseen" => at'[e] # "unseen"

(* Bound: the empty blocks are notified while both workers are in Snipe.   *)
BothInside == \A w \in Workers : \E c \in Additions : InProgress(c) /\ by[c[1]] = w

EmptyBehind == \A e \in E!Streamed :
    Content[e] = <<>> /\ at'[e] # at[e] /\ at[e] = "unseen" => BothInside

(* Bound: of the blocks only the first is retried, or its lookup fails.    *)
OthersAreFound == \A e \in Blocks \ {"b1"} : at'[e] \notin {"waiting", "error"}

(* Bound: the owner configures the order before the first notification and *)
(* not again.                                                              *)
OrderFirst == (\E e \in E!Events : at'[e] # "unseen") => orders = MaxOrders

(* Bound: the pair has liquidity.                                          *)
MCInit == Init /\ liquidity

MCSpec == MCInit /\ [][Next]_vars /\ Fairness
=============================================================================
