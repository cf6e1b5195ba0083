------------------------------ MODULE Trigger -------------------------------
(***************************************************************************)
(* contracts/Trigger.sol on a chain with its router, the pairs of one AMM  *)
(* and the people who trade there.  A transaction is one step; one that    *)
(* reverts changes nothing and is no step.                                 *)
(***************************************************************************)
EXTENDS CustomRouter, FiniteSets

CONSTANTS
    Tokens,         \* addresses of the tokens
    WBNB,           \* the wrapped coin among them
    Admins,         \* accounts the owner may appoint as administrator
    Wrappers,       \* tokens the owner may set as the wrapped coin
    Routers,        \* routers the owner may set, among "unset" and "router"
    Factories,      \* factories the router may be given, "amm" and "other"
    Sizes,          \* order sizes and amounts sent to the contract
    Minimums,       \* minimum outputs the owner may ask for
    Listed,         \* pairs that already have liquidity
    Depths,         \* reserves liquidity is added with
    MaxOrders,      \* bound: orders configured
    MaxTrades,      \* bound: trades of other people
    MaxSent         \* bound: transfers to the contract

ASSUME TriggerAssumption ==
    /\ Tokens \subseteq Nat \ {ZeroAddress}
    /\ "trigger" \notin Admins
    /\ WBNB \in Wrappers
    /\ Wrappers \subseteq Tokens
    /\ Routers \subseteq {"unset", "router"}
    /\ "amm" \in Factories
    /\ Taxed \subseteq Tokens
    /\ Sizes \subseteq Nat \ {0}
    /\ Minimums \subseteq Nat
    /\ Depths \subseteq Nat \ {0}
    /\ PairFee \in 0 .. 10000
    /\ {MaxOrders, MaxTrades, MaxSent} \subseteq Nat

Contract == "trigger"
Holders == Admins \cup {Contract}
Pairs == {p \in Tokens \X Tokens : p[1] < p[2]}

VARIABLES
    wbnb, administrator, customRouter, wbnbIn, minTknOut,
    tokenToBuy, tokenPaired, snipeLock,     \* storage of Trigger
    factory,    \* storage of CustomRouter: whether it points to this AMM
    bnb,        \* external: native coin the contract owns
    held,       \* external: token balances
    reserves,   \* external: reserves of the pairs
    trades,     \* trades of other people so far
    sent,       \* transfers to the contract so far
    orders, fills   \* history: configurations and purchases so far

settings == <<wbnb, administrator, customRouter, factory>>
config == <<wbnbIn, minTknOut, tokenToBuy, tokenPaired, snipeLock>>
market == <<reserves, trades>>
history == <<orders, fills>>
vars == <<settings, config, bnb, held, sent, market, history>>

(* As the constructors and the migrations leave it; bnb may have been sent *)
(* to the address before the contract was there.                           *)
Init ==
    /\ wbnb = WBNB
    /\ administrator \in Admins
    /\ customRouter \in Routers
    /\ factory = "amm"
    /\ wbnbIn = 0
    /\ minTknOut = 0
    /\ tokenToBuy = ZeroAddress
    /\ tokenPaired = ZeroAddress
    /\ snipeLock = FALSE
    /\ bnb \in {0, 1}
    /\ held = [h \in Holders |-> [t \in Tokens |-> 0]]
    /\ reserves \in [Pairs -> {<<0, 0>>} \cup (Depths \X Depths)]
    /\ \A p \in Pairs : reserves[p] # <<0, 0>> <=> p \in Listed
    /\ trades = 0
    /\ sent = 0
    /\ orders = 0
    /\ fills = 0

(* receive: what is sent in is wrapped.  Only WBNB has a deposit function. *)
receive(amount) ==
    /\ wbnb = WBNB
    /\ sent < MaxSent
    /\ sent' = sent + 1
    /\ held' = [held EXCEPT ![Contract][WBNB] = @ + amount]
    /\ UNCHANGED <<settings, config, bnb, market, history>>

(* Anybody may transfer tokens to the contract.                            *)
SendToken(t, amount) ==
    /\ sent < MaxSent
    /\ sent' = sent + 1
    /\ held' = [held EXCEPT ![Contract][t] = @ + Arrives(t, amount)]
    /\ UNCHANGED <<settings, config, bnb, market, history>>

configureSnipe(paired, amountIn, buy, outMin) ==
    /\ orders < MaxOrders
    /\ tokenPaired' = paired
    /\ wbnbIn' = amountIn
    /\ tokenToBuy' = buy
    /\ minTknOut' = outMin
    /\ snipeLock' = FALSE
    /\ orders' = orders + 1
    /\ UNCHANGED <<settings, bnb, held, sent, market, fills>>

Path == IF tokenPaired # wbnb THEN <<wbnb, tokenPaired, tokenToBuy>> ELSE <<wbnb, tokenToBuy>>

(* Mutated form of Locked: the lock is not taken.                          *)
StillOpen == FALSE

(* snipeLock = true                                                        *)
Locked == TRUE

(* Mutated form of OrderSize: the whole balance is spent.                  *)
WholeBalance == held[Contract][wbnb]

OrderSize == wbnbIn

Amounts == getAmountsOut(reserves, OrderSize, Path)

(* All the requires of snipeListing and of the calls it makes, and then    *)
(* all their effects: a transaction that meets one that fails has none.    *)
snipeListing ==
    /\ held[Contract][wbnb] >= wbnbIn
    /\ ~snipeLock
    /\ customRouter = "router"
    /\ factory = "amm"
    /\ CanSwap(reserves, OrderSize, minTknOut, Path)
    /\ snipeLock' = Locked
    /\ held' = [held EXCEPT
                    ![Contract][wbnb] = @ - OrderSize,
                    ![administrator][tokenToBuy] = @ + Arrives(tokenToBuy, Amounts[Len(Path)])]
    /\ reserves' = ReservesAfter(reserves, Amounts, Path)
    /\ fills' = fills + 1
    /\ UNCHANGED <<settings, wbnbIn, minTknOut, tokenToBuy, tokenPaired, bnb, sent, trades, orders>>

setAdministrator(a) ==
    /\ administrator' = a
    /\ UNCHANGED <<wbnb, customRouter, factory, config, bnb, held, sent, market, history>>

setCustomRouter(r) ==
    /\ customRouter' = r
    /\ UNCHANGED <<wbnb, administrator, factory, config, bnb, held, sent, market, history>>

setWBNBAddress(t) ==
    /\ wbnb' = t
    /\ UNCHANGED <<administrator, customRouter, factory, config, bnb, held, sent, market, history>>

(* CustomRouter.setFactoryAddress; the creation code changes with it.      *)
setFactoryAddress(f) ==
    /\ factory' = f
    /\ UNCHANGED <<wbnb, administrator, customRouter, config, bnb, held, sent, market, history>>

(* Mutated form of Covers: the require is dropped.                         *)
CoversAnything(t, amount) == TRUE

Covers(t, amount) == held[Contract][t] >= amount

emmergencyWithdrawTkn(t, amount) ==
    /\ Covers(t, amount)
    /\ held' = [held EXCEPT ![Contract][t] = @ - amount,
                            ![administrator][t] = @ + Arrives(t, amount)]
    /\ UNCHANGED <<settings, config, bnb, sent, market, history>>

emmergencyWithdrawBnb ==
    /\ bnb > 0
    /\ bnb' = 0
    /\ UNCHANGED <<settings, config, held, sent, market, history>>

(* The first liquidity of a pair, and a trade of somebody else.            *)
AddLiquidity(p, r) ==
    /\ reserves[p] = <<0, 0>>
    /\ reserves' = [reserves EXCEPT ![p] = r]
    /\ UNCHANGED <<settings, config, bnb, held, sent, trades, history>>

Trade(a, b, amount) ==
    /\ trades < MaxTrades
    /\ LET path == <<a, b>> IN
       /\ CanSwap(reserves, amount, 0, path)
       /\ reserves' = ReservesAfter(reserves, getAmountsOut(reserves, amount, path), path)
    /\ trades' = trades + 1
    /\ UNCHANGED <<settings, config, bnb, held, sent, history>>

Owner ==
    \/ \E paired, buy \in Tokens, size \in Sizes, min \in Minimums :
          configureSnipe(paired, size, buy, min)
    \/ \E a \in Admins : setAdministrator(a)
    \/ \E r \in Routers : setCustomRouter(r)
    \/ \E t \in Wrappers : setWBNBAddress(t)
    \/ \E f \in Factories : setFactoryAddress(f)
    \/ \E t \in Tokens, size \in Sizes : emmergencyWithdrawTkn(t, size)
    \/ emmergencyWithdrawBnb

Anybody ==
    \/ \E size \in Sizes : receive(size) \/ \E t \in Tokens : SendToken(t, size)
    \/ snipeListing
    \/ \E p \in Pairs, r \in Depths \X Depths : AddLiquidity(p, r)
    \/ \E a, b \in Tokens, size \in Sizes : Trade(a, b, size)

Next == Owner \/ Anybody

Spec == Init /\ [][Next]_vars

-----------------------------------------------------------------------------
(***************************************************************************)
(* Type correctness of the contract's storage and of the chain around it.  *)
(***************************************************************************)
TypeOK ==
    /\ wbnb \in Wrappers
    /\ administrator \in Admins
    /\ customRouter \in Routers
    /\ factory \in Factories
    /\ wbnbIn \in Nat /\ minTknOut \in Nat
    /\ tokenToBuy \in Tokens \cup {ZeroAddress}
    /\ tokenPaired \in Tokens \cup {ZeroAddress}
    /\ snipeLock \in BOOLEAN
    /\ bnb \in Nat
    /\ held \in [Holders -> [Tokens -> Nat]]
    /\ reserves \in [Pairs -> Nat \X Nat]
    /\ trades \in Nat /\ sent \in Nat /\ orders \in Nat /\ fills \in Nat

(***************************************************************************)
(* The contract implements SnipeOrder: no order is filled before the owner *)
(* configured it, twice, or after it was filled, whatever happens to       *)
(* balances, routers and pools in between.                                 *)
(***************************************************************************)
phase == IF orders = 0 THEN "unarmed" ELSE IF snipeLock THEN "filled" ELSE "armed"

Order == INSTANCE SnipeOrder

ImplementsOrder == Order!Spec

(***************************************************************************)
(* "you will spend [size] to buy AT LEAST [expected] tokens" (template of  *)
(* the configuration): a purchase takes exactly the order's size from the  *)
(* contract and brings the administrator at least the order's minimum.     *)
(***************************************************************************)
BuysAtLeastMinimum == [][
    fills' # fills =>
        /\ held'[Contract][wbnb] = held[Contract][wbnb] - wbnbIn
        /\ held'[administrator][tokenToBuy] >= held[administrator][tokenToBuy] + minTknOut]_vars

(***************************************************************************)
(* What the router quotes on the path of the order, the pairs accept: an   *)
(* order that meets its minimum is never lost to a refusal of the pair.    *)
(***************************************************************************)
QuotesAreAccepted ==
    /\ CanGetAmountsOut(reserves, wbnbIn, Path)
    /\ Amounts[Len(Path)] > 0
    /\ tokenToBuy # wbnb
    => PairsAccept(reserves, Amounts, Path)

(***************************************************************************)
(* No transaction, whoever sends it, takes tokens from the contract other  *)
(* than as the price of one order, in its wbnb and of its size, or to the  *)
(* administrator, whom they reach in the same transaction.                 *)
(***************************************************************************)
FundsGoHome == [][\A t \in Tokens :
    held'[Contract][t] < held[Contract][t] =>
        LET spent == held[Contract][t] - held'[Contract][t] IN
        \/ fills' = fills + 1 /\ t = wbnb /\ spent = wbnbIn
        \/ fills' = fills /\ held'[administrator][t] = held[administrator][t] + Arrives(t, spent)
   ]_vars
=============================================================================
