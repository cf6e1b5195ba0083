----------------------------- MODULE Liquidity ------------------------------
(***************************************************************************)
(* UniswapLiquidity of pkg/service/uniswap.go: the decision to snipe on a  *)
(* liquidity addition, made from the transaction and from the provider's   *)
(* token balance, which is read from the chain while the chain moves on.   *)
(*                                                                         *)
(* The controllers are represented by when they hand a transaction over:   *)
(* in pending_txs mode while it is in the mempool, in new_blocks mode when *)
(* it is in a block.                                                       *)
(***************************************************************************)
EXTENDS Integers

CONSTANTS
    Txs,            \* the router transactions that may be seen
    Providers,      \* their senders
    Target, Paired, \* the token to buy and the token it is paired with
    Wrapped,        \* the wrapped coin, which addLiquidityETH pairs with
    MinLiq,         \* sn.MinimumLiquidity
    Modes,          \* modes the program may be run in
    StartBalances,  \* tokens a provider may start with
    Grant,          \* tokens a provider may be given later, once
    Percent         \* the gas multiplier, in per cent

(* id tells transactions apart.  tokenA and tokenB are the arguments of    *)
(* addLiquidity; for addLiquidityETH tokenB is the wrapped coin, minB is   *)
(* amountETHMin and value the coins sent along.                            *)
ASSUME LiquidityAssumption ==
    /\ \A t \in Txs :
        /\ t.from \in Providers
        /\ t.kind \in {"addLiquidity", "addLiquidityETH"}
        /\ t.kind = "addLiquidityETH" => t.tokenB = Wrapped
        /\ {t.desiredA, t.desiredB, t.minA, t.minB, t.value, t.gas} \subseteq Nat
        /\ t.minA <= t.desiredA /\ t.minB <= t.desiredB
    /\ Target # Paired /\ Target # Wrapped
    /\ MinLiq \in Nat /\ Grant \in Nat /\ Percent \in Nat
    /\ StartBalances \subseteq Nat
    /\ Modes \subseteq {"pending_txs", "new_blocks"}

VARIABLES
    mode,       \* conf.Sniper.Mode, read when the program starts
    stage,      \* of the handler of each transaction
    seen,       \* the balance that handler has read
    sniped,     \* gas price of the snipe it started, or -1
    balance,    \* external: the target token's balance of each provider
    granted,    \* external: providers that got their grant
    mined,      \* external: transactions in blocks
    added,      \* external: those that did add liquidity
    disturbed   \* history: read after its block, or followed by a grant

handler == <<stage, seen, sniped>>
vars == <<mode, handler, balance, granted, mined, added, disturbed>>

NoSnipe == -1

DesiredTarget(t) == IF t.tokenA = Target THEN t.desiredA ELSE t.desiredB

Tokens(t) == {t.tokenA, t.tokenB}

(* The words of the call data, as the ABI of the router has them; the last *)
(* two, the receiver and the deadline, decide nothing.                     *)
Data(t) ==
    IF t.kind = "addLiquidity"
    THEN <<t.tokenA, t.tokenB, t.desiredA, t.desiredB, t.minA, t.minB>>
    ELSE <<t.tokenA, t.desiredA, t.minA, t.minB>>

newInputFromTx(t) ==
    LET data == Data(t) IN
    [TokenAddressA |-> data[1], TokenAddressB |-> data[2],
     AmountTokenADesired |-> data[3], AmountTokenBDesired |-> data[4],
     AmountTokenAMin |-> data[5], AmountTokenBMin |-> data[6]]

(* Mutated form of newETHInputFromTx: the minimums are one word too early. *)
newETHInputMisread(t) ==
    LET data == Data(t) IN
    [TokenAddress |-> data[1], AmountTokenDesired |-> data[1],
     AmountTokenMin |-> data[2], AmountETHMin |-> data[3]]

newETHInputFromTx(t) ==
    LET data == Data(t) IN
    [TokenAddress |-> data[1], AmountTokenDesired |-> data[2],
     AmountTokenMin |-> data[3], AmountETHMin |-> data[4]]

Init ==
    /\ mode \in Modes
    /\ stage = [t \in Txs |-> "unseen"]
    /\ seen = [t \in Txs |-> 0]
    /\ sniped = [t \in Txs |-> NoSnipe]
    /\ balance \in [Providers -> StartBalances]
    /\ granted = {}
    /\ mined = {}
    /\ added = {}
    /\ disturbed = {}

(* The router moves the desired amount of a first addition; it reverts     *)
(* when the provider has not got it.                                       *)
Mine(t) ==
    /\ t \notin mined
    /\ mined' = mined \cup {t}
    /\ IF Target \in Tokens(t) /\ balance[t.from] >= DesiredTarget(t)
       THEN /\ balance' = [balance EXCEPT ![t.from] = @ - DesiredTarget(t)]
            /\ added' = added \cup {t}
       ELSE UNCHANGED <<balance, added>>
    /\ disturbed' = IF stage[t] \in {"unseen", "reading"} THEN disturbed \cup {t} ELSE disturbed
    /\ UNCHANGED <<mode, handler, granted>>

(* The provider is given more tokens.                                      *)
Give(p) ==
    /\ p \notin granted
    /\ granted' = granted \cup {p}
    /\ balance' = [balance EXCEPT ![p] = @ + Grant]
    /\ disturbed' = disturbed \cup {t \in Txs : t.from = p /\ stage[t] \notin {"unseen", "reading"}}
    /\ UNCHANGED <<mode, handler, mined, added>>

(* When a controller hands the transaction over.                           *)
Handed(t) == IF mode = "pending_txs" THEN t \notin mined ELSE t \in mined

(* Mutated form of ChecksBalance: the second token is not compared.        *)
ChecksFirstToken(t) ==
    t.kind = "addLiquidity" =>
        newInputFromTx(t).TokenAddressA \in {Target, Paired}

(* Add asks for the balance only if tokens and pair match, AddETH always.  *)
ChecksBalance(t) ==
    t.kind = "addLiquidity" =>
        LET in == newInputFromTx(t) IN
        {Target, Paired} \subseteq {in.TokenAddressA, in.TokenAddressB}

(* The first half of Add and of AddETH; a sender that is not recovered     *)
(* from the signature is an error.                                         *)
Handle(t) ==
    /\ stage[t] = "unseen"
    /\ Handed(t)
    /\ \/ stage' = [stage EXCEPT ![t] = IF ChecksBalance(t) THEN "reading" ELSE "done"]
       \/ stage' = [stage EXCEPT ![t] = "error"]
    /\ UNCHANGED <<mode, seen, sniped, balance, granted, mined, added, disturbed>>

ReadBalance(t) ==
    /\ stage[t] = "reading"
    /\ \/ /\ seen' = [seen EXCEPT ![t] = balance[t.from]]
          /\ stage' = [stage EXCEPT ![t] = "deciding"]
       \/ /\ stage' = [stage EXCEPT ![t] = "error"]
          /\ UNCHANGED seen
    /\ UNCHANGED <<mode, sniped, balance, granted, mined, added, disturbed>>

MinTarget(in) == IF in.TokenAddressA = Target THEN in.AmountTokenAMin ELSE in.AmountTokenBMin

(* Mutated form of MinPaired: the amounts in the order of the arguments.   *)
SecondMinimum(in) == in.AmountTokenBMin

MinPaired(in) == IF in.TokenAddressA = Target THEN in.AmountTokenBMin ELSE in.AmountTokenAMin

AddAccepts(t) ==
    LET in == newInputFromTx(t) IN
    /\ MinTarget(in) <= seen[t]
    /\ MinPaired(in) > MinLiq

(* Mutated form of Collateral: the promise is enough, without a minimum.   *)
CollateralSent(value, min) == value > MinLiq

Collateral(value, min) == value > MinLiq /\ min > MinLiq

AddETHAccepts(t) ==
    LET in == newETHInputFromTx(t) IN
    /\ in.TokenAddress = Target
    /\ in.AmountTokenMin <= seen[t]
    /\ Collateral(t.value, in.AmountETHMin)

Accepts(t) == IF t.kind = "addLiquidity" THEN AddAccepts(t) ELSE AddETHAccepts(t)

Multiplier == IF Percent < 100 THEN 100 ELSE Percent

(* Mutated form of Raised: the integer division comes first.               *)
RaisedInSteps(gas) == (gas \div 100) * Multiplier

(* A multiplier above one, applied to a float and cut back to an integer.  *)
Raised(gas) == IF Multiplier > 100 THEN (gas * Multiplier) \div 100 ELSE gas

getGasPrice(t) == IF mode = "pending_txs" THEN t.gas ELSE Raised(t.gas)

Decide(t) ==
    /\ stage[t] = "deciding"
    /\ stage' = [stage EXCEPT ![t] = "done"]
    /\ sniped' = IF Accepts(t) THEN [sniped EXCEPT ![t] = getGasPrice(t)] ELSE sniped
    /\ UNCHANGED <<mode, seen, balance, granted, mined, added, disturbed>>

Next ==
    \/ \E t \in Txs : Mine(t) \/ Handle(t) \/ ReadBalance(t) \/ Decide(t)
    \/ \E p \in Providers : Give(p)

Spec == Init /\ [][Next]_vars

-----------------------------------------------------------------------------
(***************************************************************************)
(* Type correctness.  Only a handler that is through has sniped, and the   *)
(* node is asked for nobody's balance on account of another pair's         *)
(* addLiquidity.                                                           *)
(***************************************************************************)
TypeOK ==
    /\ \A t \in Txs : sniped[t] # NoSnipe => stage[t] = "done"
    /\ \A t \in Txs : stage[t] \in {"reading", "deciding"} /\ t.kind = "addLiquidity"
                         => {Target, Paired} \subseteq {t.tokenA, t.tokenB}
    /\ mode \in Modes
    /\ stage \in [Txs -> {"unseen", "reading", "deciding", "done", "error"}]
    /\ seen \in [Txs -> Nat]
    /\ sniped \in [Txs -> Nat \cup {NoSnipe}]
    /\ balance \in [Providers -> Nat]
    /\ granted \subseteq Providers
    /\ added \subseteq mined
    /\ mined \subseteq Txs
    /\ disturbed \subseteq Txs

Sniped(t) == sniped[t] # NoSnipe

(* What the configuration says to wait for.                                *)
Expected(t) ==
    /\ Tokens(t) = {Target, Paired}
    /\ IF t.tokenA = Target THEN t.minB > MinLiq ELSE t.minA > MinLiq
    /\ t.kind = "addLiquidityETH" => t.value >= t.desiredB /\ t.desiredB > MinLiq

(***************************************************************************)
(* "is the liquidity added on the right pair?": a snipe is started only    *)
(* for an addition to the pair the trigger is to buy from, and only if it  *)
(* is bound to bring more than the minimum of the paired token there.      *)
(***************************************************************************)
SnipesTheRightPair == \A t \in Txs :
    Sniped(t) => /\ Tokens(t) = {Target, Paired}
                 /\ IF t.tokenA = Target THEN t.minB > MinLiq ELSE t.minA > MinLiq

(***************************************************************************)
(* An expected addition that succeeds on the chain has been sniped, unless *)
(* the read failed or came after the block, or the provider got tokens     *)
(* after the read: until then the balance only falls, so a balance that    *)
(* pays for the addition in its block was sufficient when it was read.     *)
(***************************************************************************)
TimelySnipe == \A t \in added \ disturbed :
    Expected(t) /\ stage[t] = "done" => Sniped(t)

(***************************************************************************)
(* A snipe is never sent with a lower gas price than the addition's, and   *)
(* with the same one if the addition was in the mempool ("all txs have the *)
(* same gas as the liquidity addition tx").                                *)
(***************************************************************************)
KeepsPriority == \A t \in Txs :
    Sniped(t) => /\ sniped[t] >= t.gas
                 /\ mode = "pending_txs" => sniped[t] = t.gas

(***************************************************************************)
(* README, Block mode: mined blocks are scanned "looking for the liquidity *)
(* addition we expect".  One that is found and handled without an error    *)
(* leads to a snipe.                                                       *)
(***************************************************************************)
ScanFindsAddition == \A t \in added :
    Expected(t) /\ stage[t] = "done" => Sniped(t)
=============================================================================
