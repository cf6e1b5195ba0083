-------------------------- MODULE LiquidityProofs ---------------------------
(***************************************************************************)
(* The decisions of UniswapLiquidity for any transactions, balances and    *)
(* configuration.                                                          *)
(***************************************************************************)
EXTENDS Liquidity, TLAPS

(***************************************************************************)
(* The amounts and the gas price of a transaction are numbers.             *)
(***************************************************************************)
LEMMA TxTyping ==
    ASSUME NEW t \in Txs
    PROVE  /\ DesiredTarget(t) \in Nat
           /\ {t.desiredA, t.desiredB, t.minA, t.minB, t.value} \subseteq Nat
           /\ t.minA <= t.desiredA /\ t.minB <= t.desiredB
           /\ t.gas \in Nat /\ t.from \in Providers
           /\ t.kind \in {"addLiquidity", "addLiquidityETH"}
BY LiquidityAssumption DEF DesiredTarget

(***************************************************************************)
(* What is read from the call data is what the router is going to do.      *)
(***************************************************************************)
LEMMA Decoded ==
    ASSUME NEW t \in Txs
    PROVE  /\ t.kind = "addLiquidity" =>
                 newInputFromTx(t) = [TokenAddressA |-> t.tokenA, TokenAddressB |-> t.tokenB,
                     AmountTokenADesired |-> t.desiredA, AmountTokenBDesired |-> t.desiredB,
                     AmountTokenAMin |-> t.minA, AmountTokenBMin |-> t.minB]
           /\ t.kind = "addLiquidityETH" =>
                 newETHInputFromTx(t) = [TokenAddress |-> t.tokenA, AmountTokenDesired |-> t.desiredA,
                     AmountTokenMin |-> t.minA, AmountETHMin |-> t.minB]
BY DEF newInputFromTx, newETHInputFromTx, Data

(* So these are the conditions the strategies check.                       *)
LEMMA Conditions ==
    ASSUME NEW t \in Txs
    PROVE  /\ ChecksBalance(t) <=>
                 (t.kind = "addLiquidityETH" \/ (Target \in Tokens(t) /\ Paired \in Tokens(t)))
           /\ t.kind = "addLiquidity" /\ ChecksBalance(t) =>
                 (Accepts(t) <=> IF t.tokenA = Target
                                 THEN t.minA <= seen[t] /\ t.minB > MinLiq
                                 ELSE t.minB <= seen[t] /\ t.minA > MinLiq)
           /\ t.kind = "addLiquidityETH" =>
                 (Accepts(t) <=> /\ t.tokenA = Target
                                /\ t.minA <= seen[t]
                                /\ t.value > MinLiq /\ t.minB > MinLiq)
<1>1. CASE t.kind = "addLiquidity"
    <2>1. newInputFromTx(t) = [TokenAddressA |-> t.tokenA, TokenAddressB |-> t.tokenB,
                     AmountTokenADesired |-> t.desiredA, AmountTokenBDesired |-> t.desiredB,
                     AmountTokenAMin |-> t.minA, AmountTokenBMin |-> t.minB]
        BY <1>1, Decoded
    <2>. QED
        BY <1>1, <2>1 DEF ChecksBalance, Accepts, AddAccepts, MinTarget, MinPaired, Tokens
<1>2. CASE t.kind = "addLiquidityETH"
    <2>1. newETHInputFromTx(t) = [TokenAddress |-> t.tokenA, AmountTokenDesired |-> t.desiredA,
                     AmountTokenMin |-> t.minA, AmountETHMin |-> t.minB]
        BY <1>2, Decoded
    <2>. QED
        BY <1>2, <2>1 DEF ChecksBalance, Accepts, AddETHAccepts, Collateral
<1>. QED
    BY <1>1, <1>2, TxTyping

(* What a strategy decides hangs on the balance it has seen.               *)
LEMMA SameDecision ==
    ASSUME NEW t \in Txs, seen'[t] = seen[t]
    PROVE  Accepts(t)' <=> Accepts(t)
BY DEF Accepts, AddAccepts, AddETHAccepts, newInputFromTx, newETHInputFromTx, Data,
       MinTarget, MinPaired, Collateral

(***************************************************************************)
(* The price of a snipe is a number, and not below that of the addition:   *)
(* a multiplier above one, cut back to an integer, does not get below it.  *)
(***************************************************************************)
LEMMA PriceKept ==
    ASSUME NEW t \in Txs
    PROVE  getGasPrice(t) \in Nat /\ getGasPrice(t) >= t.gas
<1> DEFINE q == (t.gas * Percent) \div 100
<1>1. t.gas \in Nat /\ Percent \in Nat
    BY TxTyping, LiquidityAssumption
<1>2. ASSUME Percent > 100 PROVE q \in Nat /\ q >= t.gas
    <2>1. t.gas * Percent \in Nat /\ t.gas * Percent >= t.gas * 100
        BY <1>1, <1>2, SMT
    <2> DEFINE n == t.gas * Percent
    <2>. HIDE DEF n
    <2>2. n \in Nat /\ n >= t.gas * 100
        BY <2>1 DEF n
    <2>3. n \div 100 \in Nat /\ n \div 100 >= t.gas
        BY <1>1, <2>2
    <2>. QED
        BY <2>3 DEF n
<1>. QED
    BY <1>1, <1>2 DEF getGasPrice, Raised, Multiplier

(* NoSnipe is not a gas price.                                             *)
LEMMA PriceIsNoMark ==
    ASSUME NEW t \in Txs
    PROVE  getGasPrice(t) # NoSnipe
BY PriceKept DEF NoSnipe

Typing ==
    /\ mode \in Modes
    /\ stage \in [Txs -> {"unseen", "reading", "deciding", "done", "error"}]
    /\ seen \in [Txs -> Nat]
    /\ sniped \in [Txs -> Nat \cup {NoSnipe}]
    /\ balance \in [Providers -> Nat]
    /\ granted \subseteq Providers
    /\ added \subseteq mined
    /\ mined \subseteq Txs
    /\ disturbed \subseteq Txs

(* What a handler has found out about its transaction.                     *)
Found(t) ==
    /\ stage[t] \in {"reading", "deciding"} => ChecksBalance(t)
    /\ sniped[t] # NoSnipe => stage[t] = "done" /\ ChecksBalance(t) /\ sniped[t] = getGasPrice(t)
    /\ stage[t] = "done" /\ ChecksBalance(t) => (sniped[t] # NoSnipe <=> Accepts(t))

(* A balance read before the block, with no grant since, covers what is    *)
(* left of it and what the addition has moved.                             *)
Fresh(t) ==
    stage[t] \in {"deciding", "done"} /\ ChecksBalance(t) /\ t \notin disturbed =>
        /\ balance[t.from] <= seen[t]
        /\ t \in added => DesiredTarget(t) <= seen[t]

(* A transaction that is in its block before the balance is read.          *)
Late(t) == stage[t] \in {"unseen", "reading"} /\ t \in added => t \in disturbed

IInv == Typing /\ \A t \in Txs : Found(t) /\ Fresh(t) /\ Late(t)

(***************************************************************************)
(* The invariant is inductive, one action at a time: blocks and grants ... *)
(***************************************************************************)
LEMMA ChainStep ==
    ASSUME IInv,
           (\E t \in Txs : Mine(t)) \/ (\E p \in Providers : Give(p))
    PROVE  IInv'
<1>1. ASSUME NEW t \in Txs, Mine(t) PROVE IInv'
    <2>0. /\ DesiredTarget(t) \in Nat /\ t.from \in Providers
          /\ UNCHANGED <<mode, stage, seen, sniped, granted>>
          /\ mined' = mined \cup {t}
        BY <1>1, TxTyping DEF Mine, handler
    <2>1. /\ balance' \in [Providers -> Nat]
          /\ \A p \in Providers : balance'[p] <= balance[p]
        <3>1. CASE balance' = balance
            BY <3>1 DEF IInv, Typing
        <3>2. CASE /\ balance[t.from] >= DesiredTarget(t)
                   /\ balance' = [balance EXCEPT ![t.from] = @ - DesiredTarget(t)]
            BY <2>0, <3>2 DEF IInv, Typing
        <3>. QED
            BY <1>1, <3>1, <3>2 DEF Mine
    <2>2. added' \subseteq added \cup {t}
        BY <1>1 DEF Mine
    <2>3. Typing'
        <3>1. disturbed' \subseteq Txs
            BY <1>1 DEF Mine, IInv, Typing
        <3>. QED
            BY <2>0, <2>1, <2>2, <3>1 DEF IInv, Typing
    <2>4. ASSUME NEW u \in Txs PROVE Found(u)'
        BY <2>0, <2>4, SameDecision DEF IInv, Found, getGasPrice
    <2>5. ASSUME NEW u \in Txs PROVE Fresh(u)'
        <3>. SUFFICES ASSUME stage[u] \in {"deciding", "done"}, ChecksBalance(u), u \notin disturbed'
                      PROVE  /\ balance'[u.from] <= seen[u]
                             /\ u \in added' => DesiredTarget(u) <= seen[u]
            BY <2>0 DEF Fresh
        <3>1. u \notin disturbed
            BY <1>1 DEF Mine
        <3>2. balance[u.from] <= seen[u] /\ (u \in added => DesiredTarget(u) <= seen[u])
            BY <3>1 DEF IInv, Fresh
        <3>3. u.from \in Providers /\ DesiredTarget(u) \in Nat
            BY TxTyping
        <3>4. balance[u.from] \in Nat /\ balance'[u.from] \in Nat /\ seen[u] \in Nat
            BY <2>1, <3>3 DEF IInv, Typing
        <3>5. balance'[u.from] <= seen[u]
            BY <2>1, <3>2, <3>3, <3>4
        <3>6. ASSUME u = t, t \in added', t \notin added PROVE DesiredTarget(t) <= balance[t.from]
            <4>1. balance[t.from] >= DesiredTarget(t)
                BY <1>1, <3>6 DEF Mine
            <4>. QED
                BY <3>3, <3>4, <3>6, <4>1
        <3>7. u \in added' => DesiredTarget(u) <= seen[u]
            BY <2>2, <3>2, <3>3, <3>4, <3>6
        <3>. QED
            BY <3>5, <3>7
    <2>6. ASSUME NEW u \in Txs PROVE Late(u)'
        BY <1>1, <2>0, <2>2 DEF IInv, Late, Mine
    <2>. QED
        BY <2>3, <2>4, <2>5, <2>6 DEF IInv
<1>2. ASSUME NEW p \in Providers, Give(p) PROVE IInv'
    <2>0. /\ UNCHANGED <<mode, stage, seen, sniped, mined, added>>
          /\ granted' = granted \cup {p}
          /\ balance' = [balance EXCEPT ![p] = @ + Grant]
          /\ disturbed' = disturbed
                \cup {t \in Txs : t.from = p /\ stage[t] \notin {"unseen", "reading"}}
        BY <1>2 DEF Give, handler
    <2>1. balance' \in [Providers -> Nat]
        BY <2>0, LiquidityAssumption DEF IInv, Typing
    <2>2. Typing'
        BY <2>0, <2>1 DEF IInv, Typing
    <2>3. ASSUME NEW u \in Txs PROVE Found(u)'
        BY <2>0, <2>3, SameDecision DEF IInv, Found, getGasPrice
    <2>4. ASSUME NEW u \in Txs PROVE Fresh(u)'
        <3>. SUFFICES ASSUME stage[u] \in {"deciding", "done"}, ChecksBalance(u), u \notin disturbed'
                      PROVE  /\ balance'[u.from] <= seen[u]
                             /\ u \in added => DesiredTarget(u) <= seen[u]
            BY <2>0 DEF Fresh
        <3>1. u \notin disturbed /\ u.from # p
            BY <2>0
        <3>2. u.from \in Providers
            BY TxTyping
        <3>3. balance'[u.from] = balance[u.from]
            BY <2>0, <3>1, <3>2 DEF IInv, Typing
        <3>. QED
            BY <3>1, <3>3 DEF IInv, Fresh
    <2>5. ASSUME NEW u \in Txs PROVE Late(u)'
        BY <2>0 DEF IInv, Late
    <2>. QED
        BY <2>2, <2>3, <2>4, <2>5 DEF IInv
<1>. QED
    BY <1>1, <1>2

(***************************************************************************)
(* ... and the steps of the handlers.                                      *)
(***************************************************************************)
LEMMA HandlerStep ==
    ASSUME IInv, NEW t \in Txs, Handle(t) \/ ReadBalance(t) \/ Decide(t)
    PROVE  IInv'
<1>0. /\ UNCHANGED <<mode, balance, granted, mined, added, disturbed>>
      /\ t.from \in Providers
    BY TxTyping DEF Handle, ReadBalance, Decide
<1>1. CASE Handle(t)
    <2>0. /\ stage[t] = "unseen" /\ UNCHANGED <<seen, sniped>>
          /\ \/ stage' = [stage EXCEPT ![t] = IF ChecksBalance(t) THEN "reading" ELSE "done"]
             \/ stage' = [stage EXCEPT ![t] = "error"]
        BY <1>1 DEF Handle
    <2>1. Typing'
        BY <1>0, <2>0 DEF IInv, Typing
    <2>2. ASSUME NEW u \in Txs PROVE Found(u)' /\ Fresh(u)' /\ Late(u)'
        <3>1. CASE u = t
            BY <1>0, <2>0, <3>1 DEF IInv, Typing, Found, Fresh, Late
        <3>2. CASE u # t
            <4>1. stage'[u] = stage[u] /\ Found(u) /\ Fresh(u) /\ Late(u)
                BY <2>0, <3>2 DEF IInv, Typing
            <4>. QED
                BY <1>0, <2>0, <4>1, SameDecision DEF Found, Fresh, Late, getGasPrice
        <3>. QED
            BY <3>1, <3>2
    <2>. QED
        BY <2>1, <2>2 DEF IInv
<1>2. CASE ReadBalance(t)
    <2>0. stage[t] = "reading" /\ UNCHANGED sniped /\ ChecksBalance(t) /\ sniped[t] = NoSnipe
        BY <1>2 DEF ReadBalance, IInv, Found
    <2>1. \/ /\ seen' = [seen EXCEPT ![t] = balance[t.from]]
             /\ stage' = [stage EXCEPT ![t] = "deciding"]
          \/ seen' = seen /\ stage' = [stage EXCEPT ![t] = "error"]
        BY <1>2 DEF ReadBalance
    <2>2. Typing'
        BY <1>0, <2>0, <2>1 DEF IInv, Typing
    <2>3. ASSUME NEW u \in Txs PROVE Found(u)' /\ Fresh(u)' /\ Late(u)'
        <3>1. CASE u = t
            <4>1. stage'[t] \in {"deciding", "error"} /\ sniped'[t] = NoSnipe
                BY <2>0, <2>1 DEF IInv, Typing
            <4>2. Found(t)'
                BY <2>0, <4>1 DEF Found
            <4>3. t \notin disturbed /\ stage'[t] = "deciding"
                     => seen'[t] = balance[t.from]
                BY <2>1 DEF IInv, Typing
            <4>4. balance[t.from] \in Nat
                BY <1>0 DEF IInv, Typing
            <4>5. t \in added /\ t \notin disturbed => FALSE
                BY <2>0 DEF IInv, Late
            <4>6. Late(t)'
                BY <1>0, <2>0, <4>5 DEF Late
            <4>. QED
                BY <1>0, <3>1, <4>1, <4>2, <4>3, <4>4, <4>5, <4>6 DEF Fresh
        <3>2. CASE u # t
            <4>1. stage'[u] = stage[u] /\ seen'[u] = seen[u]
                  /\ Found(u) /\ Fresh(u) /\ Late(u)
                BY <2>1, <3>2 DEF IInv, Typing
            <4>. QED
                BY <1>0, <2>0, <4>1, SameDecision DEF Found, Fresh, Late, getGasPrice
        <3>. QED
            BY <3>1, <3>2
    <2>. QED
        BY <2>2, <2>3 DEF IInv
<1>3. CASE Decide(t)
    <2>0. stage[t] = "deciding" /\ UNCHANGED seen /\ ChecksBalance(t) /\ sniped[t] = NoSnipe
        BY <1>3 DEF Decide, IInv, Found
    <2>1. /\ stage' = [stage EXCEPT ![t] = "done"]
          /\ sniped' = IF Accepts(t) THEN [sniped EXCEPT ![t] = getGasPrice(t)] ELSE sniped
        BY <1>3 DEF Decide
    <2>2. getGasPrice(t) \in Nat /\ getGasPrice(t) # NoSnipe
        BY PriceKept, PriceIsNoMark
    <2>3. sniped' \in [Txs -> Nat \cup {NoSnipe}]
        BY <2>1, <2>2 DEF IInv, Typing
    <2>4. Typing'
        BY <1>0, <2>0, <2>1, <2>3 DEF IInv, Typing
    <2>5. Accepts(t)' <=> Accepts(t)
        BY <2>0, SameDecision
    <2>6. ASSUME NEW u \in Txs PROVE Found(u)' /\ Fresh(u)' /\ Late(u)'
        <3>1. CASE u = t
            <4>1. stage'[t] = "done" /\ sniped'[t] = IF Accepts(t) THEN getGasPrice(t) ELSE NoSnipe
                BY <2>0, <2>1 DEF IInv, Typing
            <4>2. Found(t)'
                BY <1>0, <2>0, <2>2, <2>5, <4>1 DEF Found, getGasPrice
            <4>3. Fresh(t)' /\ Late(t)'
                BY <1>0, <2>0, <4>1 DEF IInv, Fresh, Late
            <4>. QED
                BY <3>1, <4>2, <4>3
        <3>2. CASE u # t
            <4>1. stage'[u] = stage[u] /\ sniped'[u] = sniped[u]
                BY <2>1, <3>2 DEF IInv, Typing
            <4>2. Found(u) /\ Fresh(u) /\ Late(u)
                BY DEF IInv
            <4>. QED
                BY <1>0, <2>0, <4>1, <4>2, SameDecision DEF Found, Fresh, Late, getGasPrice
        <3>. QED
            BY <3>1, <3>2
    <2>. QED
        BY <2>4, <2>6 DEF IInv
<1>. QED
    BY <1>1, <1>2, <1>3

(* The invariant holds in every reachable state.                           *)
LEMMA Invariance == Spec => []IInv
<1>1. Init => IInv
    <2>. SUFFICES ASSUME Init PROVE IInv
        OBVIOUS
    <2>1. Typing
        BY LiquidityAssumption DEF Init, Typing
    <2>2. ASSUME NEW t \in Txs PROVE Found(t) /\ Fresh(t) /\ Late(t)
        BY DEF Init, Found, Fresh, Late
    <2>. QED
        BY <2>1, <2>2 DEF IInv
<1>2. IInv /\ [Next]_vars => IInv'
    <2>1. IInv /\ UNCHANGED vars => IInv'
        BY SameDecision DEF vars, handler, IInv, Typing, Found, Fresh, Late, getGasPrice
    <2>. QED
        BY <2>1, ChainStep, HandlerStep DEF Next
<1>. QED
    BY <1>1, <1>2, PTL DEF Spec

-----------------------------------------------------------------------------
(***************************************************************************)
(* Type correctness.                                                       *)
(***************************************************************************)
THEOREM TypeCorrect == Spec => []TypeOK
<1>1. IInv => TypeOK
    BY Conditions, TxTyping DEF IInv, Typing, Found, Tokens, TypeOK
<1>. QED
    BY <1>1, Invariance, PTL

(***************************************************************************)
(* No snipe is sent below the addition's gas price, at any multiplier.     *)
(***************************************************************************)
THEOREM PriorityKept == Spec => []KeepsPriority
<1>1. IInv => KeepsPriority
    <2>. SUFFICES ASSUME IInv, NEW t \in Txs, Sniped(t)
                  PROVE  sniped[t] >= t.gas /\ (mode = "pending_txs" => sniped[t] = t.gas)
        BY DEF KeepsPriority
    <2>1. sniped[t] = getGasPrice(t)
        BY DEF IInv, Found, Sniped
    <2>. QED
        BY <2>1, PriceKept DEF getGasPrice
<1>. QED
    BY <1>1, Invariance, PTL

(***************************************************************************)
(* When the trigger buys with the wrapped coin, every snipe is for the     *)
(* right pair and enough collateral.                                       *)
(***************************************************************************)
THEOREM RightPair ==
    ASSUME Paired = Wrapped
    PROVE  Spec => []SnipesTheRightPair
<1>1. IInv => SnipesTheRightPair
    <2>. SUFFICES ASSUME IInv, NEW t \in Txs, Sniped(t)
                  PROVE  /\ Tokens(t) = {Target, Paired}
                         /\ IF t.tokenA = Target THEN t.minB > MinLiq ELSE t.minA > MinLiq
        BY DEF SnipesTheRightPair
    <2>1. ChecksBalance(t) /\ Accepts(t)
        BY DEF IInv, Found, Sniped
    <2>2. CASE t.kind = "addLiquidityETH"
        <3>1. t.tokenA = Target /\ t.tokenB = Paired
            BY <2>1, <2>2, Conditions, LiquidityAssumption
        <3>. QED
            BY <2>1, <2>2, <3>1, Conditions DEF Tokens
    <2>3. CASE t.kind = "addLiquidity"
        <3>1. Target \in Tokens(t) /\ Paired \in Tokens(t) /\ Target # Paired
            BY <2>1, <2>3, Conditions, LiquidityAssumption
        <3>. QED
            BY <2>1, <2>3, <3>1, Conditions DEF Tokens
    <2>. QED
        BY <2>2, <2>3, TxTyping
<1>. QED
    BY <1>1, Invariance, PTL

(***************************************************************************)
(* No expected addition slips through whose provider's balance is read     *)
(* before its block: what was left of the balance, and what the addition   *)
(* moved, were there to be seen.                                           *)
(***************************************************************************)
THEOREM NoneMissed == Spec => []TimelySnipe
<1>1. IInv => TimelySnipe
    <2>. SUFFICES ASSUME IInv, NEW t \in added \ disturbed, Expected(t), stage[t] = "done"
                  PROVE  Sniped(t)
        BY DEF TimelySnipe
    <2>0. t \in Txs
        BY DEF IInv, Typing
    <2>1. Target \in Tokens(t) /\ Paired \in Tokens(t)
        BY DEF Expected
    <2>2. ChecksBalance(t)
        BY <2>0, <2>1, Conditions
    <2>3. DesiredTarget(t) <= seen[t] /\ seen[t] \in Nat
        BY <2>0, <2>2 DEF IInv, Fresh, Typing
    <2>4. IF t.tokenA = Target THEN t.minA <= seen[t] ELSE t.minB <= seen[t]
        BY <2>0, <2>3, TxTyping DEF DesiredTarget
    <2>5. CASE t.kind = "addLiquidity"
        BY <2>0, <2>2, <2>4, <2>5, Conditions DEF Expected, IInv, Found, Sniped
    <2>6. CASE t.kind = "addLiquidityETH"
        <3>1. t.tokenA = Target
            BY <2>0, <2>6, LiquidityAssumption DEF Expected, Tokens
        <3>2. t.value \in Nat /\ t.desiredB \in Nat /\ MinLiq \in Nat
            BY <2>0, LiquidityAssumption
        <3>3. t.value > MinLiq /\ t.minB > MinLiq
            BY <2>6, <3>1, <3>2 DEF Expected
        <3>. QED
            BY <2>0, <2>2, <2>4, <2>6, <3>1, <3>3, Conditions DEF IInv, Found, Sniped
    <2>. QED
        BY <2>0, <2>5, <2>6, TxTyping
<1>. QED
    BY <1>1, Invariance, PTL
=============================================================================
