--------------------------- MODULE TriggerProofs ----------------------------
(***************************************************************************)
(* The Trigger contract for any tokens, any settings its owner chooses and *)
(* any amounts: type correctness, what a purchase takes and brings, where  *)
(* funds go, and that it implements SnipeOrder; and all of it again with   *)
(* the scripts of Setup, and what these leave behind.                      *)
(***************************************************************************)
EXTENDS Setup, LibraryProofs

IsPath(path) ==
    \/ \E a, b \in Nat : path = <<a, b>>
    \/ \E a, b, c \in Nat : path = <<a, b, c>>

Market(rs) == \A p \in DOMAIN rs : rs[p] \in Nat \X Nat

(***************************************************************************)
(* The reserves of a pair, in the order they are asked for, are numbers.   *)
(***************************************************************************)
LEMMA ReservesTyping ==
    ASSUME NEW rs, Market(rs), NEW a \in Nat, NEW b \in Nat, pairFor(a, b) \in DOMAIN rs
    PROVE  /\ getReserves(rs, a, b)[1] \in Nat
           /\ getReserves(rs, a, b)[2] \in Nat
<1>1. rs[pairFor(a, b)] \in Nat \X Nat
    BY DEF Market
<1>. QED
    BY <1>1 DEF getReserves

(* What the library quotes is a number.                                    *)
LEMMA OutTyping ==
    ASSUME NEW in \in Nat, NEW rIn \in Nat, NEW rOut \in Nat, rIn > 0
    PROVE  getAmountOut(in, rIn, rOut) \in Nat
BY AmountOut

(***************************************************************************)
(* Whenever the library can compute them, the amounts along a path of the  *)
(* contract are numbers.                                                   *)
(***************************************************************************)
LEMMA AmountsTyping ==
    ASSUME NEW rs, Market(rs), NEW in \in Nat, NEW path, IsPath(path),
           CanGetAmountsOut(rs, in, path)
    PROVE  \A i \in 1 .. Len(path) : getAmountsOut(rs, in, path)[i] \in Nat
<1> DEFINE amounts == getAmountsOut(rs, in, path)
           r == getReserves(rs, path[1], path[2])
           s == getReserves(rs, path[2], path[3])
<1>1. CASE \E a, b \in Nat : path = <<a, b>>
    <2>1. PICK a \in Nat, b \in Nat : path = <<a, b>>
        BY <1>1
    <2>2. Len(path) = 2 /\ path[1] = a /\ path[2] = b
        BY <2>1
    <2>3. pairFor(a, b) \in DOMAIN rs /\ r[1] > 0
        BY <2>2 DEF CanGetAmountsOut, CanQuote
    <2>4. r[1] \in Nat /\ r[2] \in Nat
        BY <2>2, <2>3, ReservesTyping
    <2>5. amounts[1] = in /\ amounts[2] = getAmountOut(in, r[1], r[2])
        BY <2>1, <2>2, AmountsOverOnePair
    <2>6. getAmountOut(in, r[1], r[2]) \in Nat
        <3>. HIDE DEF r
        <3>. QED BY <2>3, <2>4, OutTyping
    <2>. QED
        BY <2>2, <2>5, <2>6
<1>2. CASE \E a, b, c \in Nat : path = <<a, b, c>>
    <2>1. PICK a \in Nat, b \in Nat, c \in Nat : path = <<a, b, c>>
        BY <1>2
    <2>2. Len(path) = 3 /\ path[1] = a /\ path[2] = b /\ path[3] = c
        BY <2>1
    <2>3. /\ pairFor(a, b) \in DOMAIN rs /\ r[1] > 0
          /\ pairFor(b, c) \in DOMAIN rs /\ s[1] > 0
        BY <2>2 DEF CanGetAmountsOut, CanQuote
    <2>4. /\ r[1] \in Nat /\ r[2] \in Nat
          /\ s[1] \in Nat /\ s[2] \in Nat
        BY <2>2, <2>3, ReservesTyping
    <2>5. /\ amounts[1] = in
          /\ amounts[2] = getAmountOut(in, r[1], r[2])
          /\ amounts[3] = getAmountOut(amounts[2], s[1], s[2])
        BY <2>1, <2>2, AmountsOverTwoPairs
    <2>. HIDE DEF r, s, amounts
    <2>6. getAmountOut(in, r[1], r[2]) \in Nat
        BY <2>3, <2>4, OutTyping
    <2>7. amounts[2] \in Nat
        BY <2>5, <2>6
    <2>8. getAmountOut(amounts[2], s[1], s[2]) \in Nat
        BY <2>3, <2>4, <2>7, OutTyping
    <2>. QED
        BY <2>2, <2>5, <2>7, <2>8 DEF amounts
<1>. QED
    BY <1>1, <1>2 DEF IsPath

(* A transfer brings a number of units.                                    *)
LEMMA ArrivesTyping ==
    ASSUME NEW t, NEW amount \in Nat
    PROVE  Arrives(t, amount) \in Nat
BY DEF Arrives

(***************************************************************************)
(* Swaps that every pair on the path accepts leave no reserve negative.    *)
(***************************************************************************)
LEMMA SwapTyping ==
    ASSUME NEW rs, Market(rs), NEW in \in Nat, NEW path, IsPath(path),
           NEW min, CanSwap(rs, in, min, path)
    PROVE  /\ Market(ReservesAfter(rs, getAmountsOut(rs, in, path), path))
           /\ DOMAIN ReservesAfter(rs, getAmountsOut(rs, in, path), path) = DOMAIN rs
<1> DEFINE amounts == getAmountsOut(rs, in, path)
           after == ReservesAfter(rs, amounts, path)
<1>1. \A i \in 1 .. Len(path) : amounts[i] \in Nat
    BY AmountsTyping DEF CanSwap
<1>2. Len(path) \in Nat /\ \A i \in 1 .. Len(path) : path[i] \in Nat
    BY DEF IsPath
<1>3. DOMAIN after = DOMAIN rs
    BY DEF ReservesAfter
<1>4. ASSUME NEW p \in DOMAIN rs PROVE after[p] \in Nat \X Nat
    <2>1. CASE ~ \E i \in Hops(path) : pairFor(path[i], path[i + 1]) = p
        BY <2>1 DEF ReservesAfter, Market
    <2>2. CASE \E i \in Hops(path) : pairFor(path[i], path[i + 1]) = p
        <3> DEFINE k == CHOOSE j \in Hops(path) : pairFor(path[j], path[j + 1]) = p
                   in2 == Arrives(path[k], amounts[k])
        <3>1. k \in Hops(path) /\ pairFor(path[k], path[k + 1]) = p
            BY <2>2
        <3>2. after[p] = AfterHop(rs[p], path[k], path[k + 1], in2, amounts[k + 1])
            BY <2>2 DEF ReservesAfter
        <3>. HIDE DEF k
        <3>3. k \in 1 .. Len(path) /\ k + 1 \in 1 .. Len(path)
            BY <1>2, <3>1 DEF Hops
        <3>4. in2 \in Nat /\ amounts[k + 1] \in Nat
            BY <1>1, <3>3, ArrivesTyping
        <3>5. amounts[k + 1] < getReserves(rs, path[k], path[k + 1])[2]
            BY <3>1 DEF CanSwap, PairsAccept, PairAccepts
        <3>. HIDE DEF amounts, in2
        <3>6. rs[p] \in Nat \X Nat
            BY DEF Market
        <3>7. CASE path[k] = sortTokens(path[k], path[k + 1])[1]
            <4>1. getReserves(rs, path[k], path[k + 1])[2] = rs[p][2]
                BY <3>1, <3>7 DEF getReserves
            <4>2. rs[p][2] - amounts[k + 1] \in Nat /\ rs[p][1] + in2 \in Nat
                BY <3>4, <3>5, <3>6, <4>1
            <4>. QED
                BY <3>2, <3>7, <4>2 DEF AfterHop
        <3>8. CASE path[k] # sortTokens(path[k], path[k + 1])[1]
            <4>1. getReserves(rs, path[k], path[k + 1])[2] = rs[p][1]
                BY <3>1, <3>8 DEF getReserves
            <4>2. rs[p][1] - amounts[k + 1] \in Nat /\ rs[p][2] + in2 \in Nat
                BY <3>4, <3>5, <3>6, <4>1
            <4>. QED
                BY <3>2, <3>8, <4>2 DEF AfterHop
        <3>. QED
            BY <3>7, <3>8
    <2>. QED
        BY <2>1, <2>2
<1>. QED
    BY <1>3, <1>4 DEF Market

-----------------------------------------------------------------------------
(***************************************************************************)
(* The contract's path is one the lemmas speak of.                         *)
(***************************************************************************)
LEMMA PathTyping == TypeOK => IsPath(Path) /\ wbnbIn \in Nat
<1>. SUFFICES ASSUME TypeOK PROVE IsPath(Path) /\ wbnbIn \in Nat
    OBVIOUS
<1>1. wbnb \in Nat /\ tokenPaired \in Nat /\ tokenToBuy \in Nat
    BY TriggerAssumption DEF TypeOK, ZeroAddress
<1>. QED
    BY <1>1 DEF IsPath, Path, TypeOK

(* A purchase is of a token, and not of the wrapped coin it is paid with:  *)
(* CanSort refuses equal neighbours and the second swap through one pair.  *)
LEMMA BuysAnotherToken ==
    ASSUME TypeOK, snipeListing
    PROVE  /\ tokenToBuy # wbnb
           /\ tokenToBuy \in Tokens
<1>0. wbnb \in Nat /\ tokenPaired \in Nat /\ tokenToBuy \in Nat
    BY TriggerAssumption DEF TypeOK, ZeroAddress
<1>1. CanGetAmountsOut(reserves, OrderSize, Path) /\ PairsAccept(reserves, Amounts, Path)
    BY DEF snipeListing, CanSwap, Amounts
<1>2. CASE tokenPaired = wbnb
    <2>1. Path[1] = wbnb /\ Path[2] = tokenToBuy /\ Len(Path) = 2
        BY <1>2 DEF Path
    <2>2. CanSort(wbnb, tokenToBuy)
        BY <1>1, <2>1 DEF CanGetAmountsOut
    <2>. QED
        BY <2>2 DEF CanSort, TypeOK
<1>3. CASE tokenPaired # wbnb
    <2>1. Path[1] = wbnb /\ Path[2] = tokenPaired /\ Path[3] = tokenToBuy /\ Len(Path) = 3
        BY <1>3 DEF Path
    <2>2. CanSort(tokenPaired, tokenToBuy)
        BY <1>1, <2>1 DEF CanGetAmountsOut
    <2>3. 1 \in Hops(Path) /\ 2 \in Hops(Path)
        BY <2>1 DEF Hops
    <2>4. pairFor(Path[1], Path[2]) # pairFor(Path[2], Path[3])
        BY <1>1, <2>3 DEF PairsAccept
    <2>5. ASSUME tokenToBuy = wbnb PROVE FALSE
        BY <1>0, <1>3, <2>1, <2>4, <2>5 DEF pairFor, sortTokens
    <2>. QED
        BY <2>2, <2>5 DEF CanSort, TypeOK
<1>. QED
    BY <1>2, <1>3

(* What a purchase pays out is a number, and the reserves stay numbers.    *)
LEMMA PurchaseTyping ==
    ASSUME TypeOK, snipeListing
    PROVE  /\ Amounts[Len(Path)] \in Nat
           /\ Arrives(tokenToBuy, Amounts[Len(Path)]) \in Nat
           /\ reserves' \in [Pairs -> Nat \X Nat]
<1>1. IsPath(Path) /\ OrderSize \in Nat
    BY PathTyping DEF OrderSize
<1>2. Market(reserves) /\ DOMAIN reserves = Pairs
    BY DEF TypeOK, Market
<1>3. CanSwap(reserves, OrderSize, minTknOut, Path)
    BY DEF snipeListing
<1>4. Len(Path) \in 1 .. Len(Path)
    BY DEF Path
<1>5. Amounts[Len(Path)] \in Nat
    BY <1>1, <1>2, <1>3, <1>4, AmountsTyping DEF CanSwap, Amounts
<1>6. /\ Market(ReservesAfter(reserves, Amounts, Path))
      /\ DOMAIN ReservesAfter(reserves, Amounts, Path) = Pairs
    BY <1>1, <1>2, <1>3, SwapTyping DEF Amounts
<1>7. reserves' = ReservesAfter(reserves, Amounts, Path)
    BY DEF snipeListing
<1>8. reserves' \in [Pairs -> Nat \X Nat]
    <2>1. reserves' = [p \in Pairs |-> reserves'[p]]
        BY <1>6, <1>7 DEF ReservesAfter
    <2>2. \A p \in Pairs : reserves'[p] \in Nat \X Nat
        BY <1>6, <1>7 DEF Market
    <2>. QED
        BY <2>1, <2>2
<1>. QED
    BY <1>5, <1>8, ArrivesTyping

(* Nor does somebody else's trade leave a reserve negative.                *)
LEMMA TradeTyping ==
    ASSUME TypeOK, NEW a \in Tokens, NEW b \in Tokens, NEW amount \in Sizes,
           Trade(a, b, amount)
    PROVE  reserves' \in [Pairs -> Nat \X Nat]
<1> DEFINE path == <<a, b>>
           amounts == getAmountsOut(reserves, amount, path)
<1>1. IsPath(path) /\ amount \in Nat
    BY TriggerAssumption DEF IsPath
<1>2. Market(reserves) /\ DOMAIN reserves = Pairs
    BY DEF TypeOK, Market
<1>3. CanSwap(reserves, amount, 0, path) /\ reserves' = ReservesAfter(reserves, amounts, path)
    BY DEF Trade
<1>4. /\ Market(ReservesAfter(reserves, amounts, path))
      /\ DOMAIN ReservesAfter(reserves, amounts, path) = Pairs
    BY <1>1, <1>2, <1>3, SwapTyping
<1>5. reserves' = [p \in Pairs |-> reserves'[p]]
    BY <1>3, <1>4 DEF ReservesAfter
<1>6. \A p \in Pairs : reserves'[p] \in Nat \X Nat
    BY <1>3, <1>4 DEF Market
<1>. QED
    BY <1>5, <1>6

(***************************************************************************)
(* The scripts send and withdraw amounts they have read or reckoned, which *)
(* no set of sizes bounds.                                                 *)
(***************************************************************************)
OfAnyAmount ==
    \/ \E amount \in Nat : receive(amount)
    \/ \E t \in Tokens, amount \in Nat : emmergencyWithdrawTkn(t, amount)

Steps == Next \/ OfAnyAmount

LEMMA ReceiveTyping ==
    ASSUME TypeOK, NEW amount \in Nat, receive(amount)
    PROVE  TypeOK'
<1>1. Contract \in Holders /\ WBNB \in Tokens
    BY TriggerAssumption DEF Holders
<1>. QED
    BY <1>1 DEF TypeOK, receive, settings, config, market, history

LEMMA WithdrawTyping ==
    ASSUME TypeOK, NEW t \in Tokens, NEW amount \in Nat, emmergencyWithdrawTkn(t, amount)
    PROVE  TypeOK'
<1>1. Arrives(t, amount) \in Nat
    BY ArrivesTyping
<1>2. administrator \in Holders /\ Contract \in Holders /\ administrator # Contract
    BY TriggerAssumption DEF TypeOK, Holders, Contract
<1>3. held \in [Holders -> [Tokens -> Nat]] /\ held[Contract][t] >= amount
    BY DEF TypeOK, emmergencyWithdrawTkn, Covers
<1>4. held' = [held EXCEPT ![Contract][t] = @ - amount,
                           ![administrator][t] = @ + Arrives(t, amount)]
    BY DEF emmergencyWithdrawTkn
<1>5. held[Contract][t] - amount \in Nat /\ held[administrator][t] + Arrives(t, amount) \in Nat
    BY <1>1, <1>2, <1>3
<1>6. held' \in [Holders -> [Tokens -> Nat]]
    BY <1>2, <1>3, <1>4, <1>5
<1>. QED
    BY <1>6 DEF TypeOK, emmergencyWithdrawTkn, settings, config, market, history

(***************************************************************************)
(* Type correctness is inductive: the owner's calls ...                    *)
(***************************************************************************)
LEMMA OwnerTyping == TypeOK /\ Owner => TypeOK'
<1>. SUFFICES ASSUME TypeOK, Owner PROVE TypeOK'
    OBVIOUS
<1>1. ASSUME NEW paired \in Tokens, NEW buy \in Tokens, NEW amount \in Sizes,
             NEW min \in Minimums, configureSnipe(paired, amount, buy, min)
      PROVE  TypeOK'
    <2>1. amount \in Nat /\ min \in Nat
        BY TriggerAssumption
    <2>2. snipeLock' \in BOOLEAN
        BY <1>1 DEF configureSnipe
    <2>3. /\ tokenToBuy' \in Tokens /\ tokenPaired' \in Tokens
          /\ wbnbIn' \in Nat /\ minTknOut' \in Nat /\ orders' \in Nat
        BY <1>1, <2>1 DEF TypeOK, configureSnipe
    <2>4. UNCHANGED <<settings, bnb, held, sent, market, fills>>
        BY <1>1 DEF configureSnipe
    <2>. QED
        BY <2>2, <2>3, <2>4 DEF TypeOK, settings, market
<1>2. ASSUME NEW a \in Admins, setAdministrator(a) PROVE TypeOK'
    BY <1>2 DEF TypeOK, setAdministrator, config, market, history
<1>3. ASSUME NEW r \in Routers, setCustomRouter(r) PROVE TypeOK'
    BY <1>3 DEF TypeOK, setCustomRouter, config, market, history
<1>4. ASSUME NEW t \in Wrappers, setWBNBAddress(t) PROVE TypeOK'
    BY <1>4 DEF TypeOK, setWBNBAddress, config, market, history
<1>5. ASSUME NEW f \in Factories, setFactoryAddress(f) PROVE TypeOK'
    BY <1>5 DEF TypeOK, setFactoryAddress, config, market, history
<1>6. ASSUME NEW t \in Tokens, NEW amount \in Sizes, emmergencyWithdrawTkn(t, amount)
      PROVE  TypeOK'
    BY <1>6, WithdrawTyping, TriggerAssumption
<1>7. ASSUME emmergencyWithdrawBnb PROVE TypeOK'
    BY <1>7 DEF TypeOK, emmergencyWithdrawBnb, settings, config, market, history
<1>. QED
    BY <1>1, <1>2, <1>3, <1>4, <1>5, <1>6, <1>7 DEF Owner

(***************************************************************************)
(* ... and everybody else's.                                               *)
(***************************************************************************)
LEMMA AnybodyTyping == TypeOK /\ Anybody => TypeOK'
<1>. SUFFICES ASSUME TypeOK, Anybody PROVE TypeOK'
    OBVIOUS
<1>0. Contract \in Holders /\ WBNB \in Tokens
    BY TriggerAssumption DEF Holders
<1>1. ASSUME NEW amount \in Sizes, receive(amount) PROVE TypeOK'
    BY <1>1, ReceiveTyping, TriggerAssumption
<1>2. ASSUME NEW amount \in Sizes, NEW t \in Tokens, SendToken(t, amount) PROVE TypeOK'
    <2>1. Arrives(t, amount) \in Nat
        BY TriggerAssumption, ArrivesTyping
    <2>. QED
        BY <1>0, <1>2, <2>1 DEF TypeOK, SendToken, settings, config, market, history
<1>3. ASSUME snipeListing PROVE TypeOK'
    <2> DEFINE got == Arrives(tokenToBuy, Amounts[Len(Path)])
    <2>1. got \in Nat /\ reserves' \in [Pairs -> Nat \X Nat]
        BY <1>3, PurchaseTyping
    <2>2. administrator \in Holders /\ administrator # Contract
        BY TriggerAssumption DEF TypeOK, Holders, Contract
    <2>3. tokenToBuy \in Tokens /\ wbnb \in Tokens
        BY <1>3, BuysAnotherToken, TriggerAssumption DEF TypeOK
    <2>4. /\ held \in [Holders -> [Tokens -> Nat]]
          /\ held[Contract][wbnb] >= wbnbIn /\ wbnbIn \in Nat
        BY <1>3 DEF TypeOK, snipeListing
    <2>5. held' = [held EXCEPT ![Contract][wbnb] = @ - wbnbIn, ![administrator][tokenToBuy] = @ + got]
        BY <1>3 DEF snipeListing, OrderSize
    <2>. HIDE DEF got
    <2>6. held[Contract][wbnb] - wbnbIn \in Nat /\ held[administrator][tokenToBuy] + got \in Nat
        BY <1>0, <2>1, <2>2, <2>3, <2>4
    <2>7. held' \in [Holders -> [Tokens -> Nat]]
        BY <1>0, <2>2, <2>3, <2>4, <2>5, <2>6
    <2>8. snipeLock' \in BOOLEAN
        BY <1>3 DEF snipeListing, Locked
    <2>9. fills' \in Nat
        BY <1>3 DEF TypeOK, snipeListing
    <2>10. UNCHANGED <<settings, wbnbIn, minTknOut, tokenToBuy, tokenPaired, bnb, sent, trades, orders>>
        BY <1>3 DEF snipeListing
    <2>. QED
        BY <2>1, <2>7, <2>8, <2>9, <2>10 DEF TypeOK, settings
<1>4. ASSUME NEW p \in Pairs, NEW r \in Depths \X Depths, AddLiquidity(p, r) PROVE TypeOK'
    <2>1. Depths \subseteq Nat
        BY TriggerAssumption
    <2>2. r \in Nat \X Nat
        BY <2>1
    <2>3. reserves' = [reserves EXCEPT ![p] = r] /\ reserves \in [Pairs -> Nat \X Nat]
        BY <1>4 DEF TypeOK, AddLiquidity
    <2>4. reserves' \in [Pairs -> Nat \X Nat]
        BY <2>2, <2>3
    <2>. QED
        BY <1>4, <2>4 DEF TypeOK, AddLiquidity, settings, config, history
<1>5. ASSUME NEW a \in Tokens, NEW b \in Tokens, NEW amount \in Sizes, Trade(a, b, amount) PROVE TypeOK'
    <2>1. reserves' \in [Pairs -> Nat \X Nat]
        BY <1>5, TradeTyping
    <2>. QED
        BY <1>5, <2>1 DEF TypeOK, Trade, settings, config, history
<1>. QED
    BY <1>1, <1>2, <1>3, <1>4, <1>5 DEF Anybody

(* The contract starts in a state of its type.                             *)
LEMMA TypeInitially == Init => TypeOK
<1>. SUFFICES ASSUME Init PROVE TypeOK
    OBVIOUS
<1>1. reserves \in [Pairs -> Nat \X Nat]
    <2>1. Depths \subseteq Nat
        BY TriggerAssumption
    <2>2. ASSUME NEW p \in Pairs PROVE reserves[p] \in Nat \X Nat
        <3>1. reserves[p] = <<0, 0>> \/ reserves[p] \in Depths \X Depths
            BY DEF Init
        <3>2. CASE reserves[p] = <<0, 0>>
            BY <3>2
        <3>3. CASE reserves[p] \in Depths \X Depths
            BY <2>1, <3>3
        <3>. QED
            BY <3>1, <3>2, <3>3
    <2>. QED
        BY <2>2 DEF Init
<1>2. held \in [Holders -> [Tokens -> Nat]]
    BY DEF Init
<1>3. wbnb \in Wrappers /\ factory \in Factories
    BY TriggerAssumption DEF Init
<1>4. snipeLock \in BOOLEAN
    BY DEF Init
<1>5. administrator \in Admins /\ customRouter \in Routers
    BY DEF Init
<1>6. /\ wbnbIn \in Nat /\ minTknOut \in Nat /\ bnb \in Nat
      /\ trades \in Nat /\ sent \in Nat /\ orders \in Nat /\ fills \in Nat
    BY DEF Init
<1>7. tokenToBuy = ZeroAddress /\ tokenPaired = ZeroAddress
    BY DEF Init
<1>. QED
    BY <1>1, <1>2, <1>3, <1>4, <1>5, <1>6, <1>7 DEF TypeOK

LEMMA TypeStep == TypeOK /\ [Steps]_vars => TypeOK'
<1>1. TypeOK /\ UNCHANGED vars => TypeOK'
    BY DEF TypeOK, vars, settings, config, market, history
<1>2. TypeOK /\ OfAnyAmount => TypeOK'
    BY ReceiveTyping, WithdrawTyping DEF OfAnyAmount
<1>. QED
    BY <1>1, <1>2, OwnerTyping, AnybodyTyping DEF Steps, Next

(***************************************************************************)
(* Type correctness: no balance and no reserve ever goes below zero, and   *)
(* the storage holds what its types say.                                   *)
(***************************************************************************)
THEOREM TypeCorrect == Spec => []TypeOK
<1>1. TypeOK /\ [Next]_vars => TypeOK'
    BY TypeStep DEF Steps
<1>. QED
    BY <1>1, TypeInitially, PTL DEF Spec

-----------------------------------------------------------------------------
(***************************************************************************)
(* What one purchase does to the tokens.                                   *)
(***************************************************************************)
LEMMA Purchase ==
    ASSUME TypeOK, snipeListing
    PROVE  /\ held'[Contract][wbnb] = held[Contract][wbnb] - wbnbIn
           /\ \A t \in Tokens \ {wbnb} : held'[Contract][t] = held[Contract][t]
           /\ held'[administrator][tokenToBuy]
                  = held[administrator][tokenToBuy] + Arrives(tokenToBuy, Amounts[Len(Path)])
<1> DEFINE got == Arrives(tokenToBuy, Amounts[Len(Path)])
<1>1. held' = [held EXCEPT ![Contract][wbnb] = @ - wbnbIn, ![administrator][tokenToBuy] = @ + got]
    BY DEF snipeListing, OrderSize
<1>2. /\ administrator \in Holders /\ Contract \in Holders /\ administrator # Contract
      /\ held \in [Holders -> [Tokens -> Nat]]
    BY TriggerAssumption DEF TypeOK, Holders, Contract
<1>3. tokenToBuy \in Tokens /\ wbnb \in Tokens
    BY BuysAnotherToken, TriggerAssumption DEF TypeOK
<1>. HIDE DEF got
<1>4. /\ held'[Contract][wbnb] = held[Contract][wbnb] - wbnbIn
      /\ \A t \in Tokens \ {wbnb} : held'[Contract][t] = held[Contract][t]
    BY <1>1, <1>2, <1>3
<1>5. held'[administrator][tokenToBuy] = held[administrator][tokenToBuy] + got
    BY <1>1, <1>2, <1>3
<1>. QED
    BY <1>4, <1>5 DEF got

(* Nothing else counts as a purchase or takes tokens from the contract but *)
(* the owner's withdrawal.                                                 *)
LEMMA OnlyPurchasesFill ==
    ASSUME TypeOK, [Steps]_vars, fills' # fills
    PROVE  snipeListing
BY DEF Steps, OfAnyAmount, Next, Owner, Anybody, vars, settings, config, market, history, configureSnipe, receive,
       SendToken, setAdministrator, setCustomRouter, setWBNBAddress, setFactoryAddress,
       emmergencyWithdrawTkn, emmergencyWithdrawBnb, AddLiquidity, Trade

(***************************************************************************)
(* A purchase takes exactly the size of the order and brings at least its  *)
(* minimum, of tokens that keep nothing of a transfer.                     *)
(***************************************************************************)
LEMMA MinimumStep ==
    ASSUME Taxed = {}, TypeOK, [Steps]_vars, fills' # fills
    PROVE  /\ held'[Contract][wbnb] = held[Contract][wbnb] - wbnbIn
           /\ held'[administrator][tokenToBuy] >= held[administrator][tokenToBuy] + minTknOut
<1>1. snipeListing
    BY OnlyPurchasesFill
<1>2. Amounts[Len(Path)] >= minTknOut
    BY <1>1 DEF snipeListing, CanSwap, LastAmount, Amounts
<1>3. Arrives(tokenToBuy, Amounts[Len(Path)]) = Amounts[Len(Path)]
    BY DEF Arrives
<1>4. Amounts[Len(Path)] \in Nat /\ minTknOut \in Nat
    BY <1>1, PurchaseTyping DEF TypeOK
<1>5. held[administrator][tokenToBuy] \in Nat
    BY <1>1, BuysAnotherToken DEF TypeOK, Holders
<1> DEFINE got == Amounts[Len(Path)]
<1>6. held'[administrator][tokenToBuy] = held[administrator][tokenToBuy] + got
    BY <1>1, <1>3, Purchase
<1>. HIDE DEF got
<1>7. held'[administrator][tokenToBuy] >= held[administrator][tokenToBuy] + minTknOut
    BY <1>2, <1>4, <1>5, <1>6 DEF got
<1>. QED
    BY <1>1, <1>7, Purchase

THEOREM AtLeastMinimum ==
    ASSUME Taxed = {}
    PROVE  Spec => BuysAtLeastMinimum
<1>1. TypeOK /\ [Next]_vars /\ fills' # fills
        => /\ held'[Contract][wbnb] = held[Contract][wbnb] - wbnbIn
           /\ held'[administrator][tokenToBuy] >= held[administrator][tokenToBuy] + minTknOut
    BY MinimumStep DEF Steps
<1>. QED
    BY <1>1, TypeCorrect, PTL DEF Spec, BuysAtLeastMinimum

(***************************************************************************)
(* Tokens leave the contract as the price of an order or for the           *)
(* administrator, with or without a tax on transfers.                      *)
(***************************************************************************)
Home(t) ==
    held'[Contract][t] < held[Contract][t] =>
        LET spent == held[Contract][t] - held'[Contract][t] IN
        \/ fills' = fills + 1 /\ t = wbnb /\ spent = wbnbIn
        \/ fills' = fills /\ held'[administrator][t] = held[administrator][t] + Arrives(t, spent)

LEMMA HomeStep ==
    ASSUME TypeOK, [Steps]_vars, NEW t \in Tokens
    PROVE  Home(t)
<1>0. /\ held \in [Holders -> [Tokens -> Nat]]
      /\ Contract \in Holders /\ administrator \in Holders /\ administrator # Contract
    BY TriggerAssumption DEF TypeOK, Holders, Contract
<1>1. CASE held' = held
    BY <1>0, <1>1 DEF Home
<1>2. ASSUME NEW amount \in Nat, receive(amount) PROVE Home(t)
    <2>1. held' = [held EXCEPT ![Contract][WBNB] = @ + amount]
        BY <1>2 DEF receive
    <2>2. held'[Contract][t] >= held[Contract][t]
        BY <1>0, <2>1
    <2>3. held'[Contract][t] \in Nat /\ held[Contract][t] \in Nat
        BY <1>0, <2>1
    <2>. QED
        BY <2>2, <2>3 DEF Home
<1>3. ASSUME NEW amount \in Sizes, NEW u \in Tokens, SendToken(u, amount) PROVE Home(t)
    <2>1. Arrives(u, amount) \in Nat
        BY TriggerAssumption, ArrivesTyping
    <2>2. held' = [held EXCEPT ![Contract][u] = @ + Arrives(u, amount)]
        BY <1>3 DEF SendToken
    <2>3. held'[Contract][t] >= held[Contract][t]
        BY <1>0, <2>1, <2>2
    <2>4. held'[Contract][t] \in Nat /\ held[Contract][t] \in Nat
        BY <1>0, <2>1, <2>2
    <2>. QED
        BY <2>3, <2>4 DEF Home
<1>4. CASE snipeListing
    <2>1. fills' = fills + 1
        BY <1>4 DEF snipeListing
    <2>2. /\ held'[Contract][wbnb] = held[Contract][wbnb] - wbnbIn
          /\ t # wbnb => held'[Contract][t] = held[Contract][t]
        BY <1>4, Purchase
    <2>3. held[Contract][t] \in Nat /\ wbnbIn \in Nat
        BY <1>0 DEF TypeOK
    <2>. QED
        BY <2>1, <2>2, <2>3 DEF Home
<1>5. ASSUME NEW u \in Tokens, NEW amount \in Nat, emmergencyWithdrawTkn(u, amount) PROVE Home(t)
    <2> DEFINE got == Arrives(u, amount)
    <2>1. held' = [held EXCEPT ![Contract][u] = @ - amount, ![administrator][u] = @ + got]
        BY <1>5 DEF emmergencyWithdrawTkn
    <2>2. fills' = fills
        BY <1>5 DEF emmergencyWithdrawTkn, history
    <2>. HIDE DEF got
    <2>4. CASE t = u
        <3>1. held[Contract][t] - held'[Contract][t] = amount
            BY <1>0, <2>1, <2>4
        <3>2. held'[administrator][t] = held[administrator][t] + got
            BY <1>0, <2>1, <2>4
        <3>. QED
            BY <2>2, <2>4, <3>1, <3>2 DEF got, Home
    <2>5. CASE t # u
        <3>1. held'[Contract][t] = held[Contract][t] /\ held[Contract][t] \in Nat
            BY <1>0, <2>1, <2>5
        <3>. QED
            BY <3>1 DEF Home
    <2>. QED
        BY <2>4, <2>5
<1>6. Sizes \subseteq Nat
    BY TriggerAssumption
<1>7. \/ held' = held \/ snipeListing
      \/ \E amount \in Nat : receive(amount)
      \/ \E amount \in Sizes, u \in Tokens : SendToken(u, amount)
      \/ \E u \in Tokens, amount \in Nat : emmergencyWithdrawTkn(u, amount)
    BY <1>6 DEF Steps, OfAnyAmount, Next, Owner, Anybody, vars, configureSnipe, setAdministrator,
        setCustomRouter, setWBNBAddress, setFactoryAddress, emmergencyWithdrawBnb, AddLiquidity, Trade
<1>. QED
    BY <1>1, <1>2, <1>3, <1>4, <1>5, <1>7

THEOREM FundsStay == Spec => FundsGoHome
<1>1. TypeOK /\ [Next]_vars => \A t \in Tokens : Home(t)
    BY HomeStep DEF Steps
<1>. QED
    BY <1>1, TypeCorrect, PTL DEF Spec, FundsGoHome, Home

(***************************************************************************)
(* One hop of a path at the library's quote is accepted by its pair.       *)
(***************************************************************************)
LEMMA HopAccepted ==
    ASSUME Taxed = {}, PairFee <= 25, NEW a \in Nat, NEW b \in Nat, NEW in \in Nat,
           Market(reserves), pairFor(a, b) \in DOMAIN reserves,
           NEW r, r = getReserves(reserves, a, b), r[1] > 0, r[2] > 0,
           NEW out, out = getAmountOut(in, r[1], r[2]), out > 0
    PROVE  PairAccepts(PairFee, r[1], r[2], Arrives(a, in), out)
<1>1. PairFee \in 0 .. 25
    BY TriggerAssumption
<1>2. r[1] \in Nat /\ r[2] \in Nat
    BY ReservesTyping
<1>3. Arrives(a, in) = in
    BY DEF Arrives
<1>4. getAmountOut(in, r[1], r[2]) > 0
    OBVIOUS
<1>5. PairAccepts(PairFee, r[1], r[2], in, getAmountOut(in, r[1], r[2]))
    BY <1>1, <1>2, <1>4, QuoteAccepted
<1>. QED
    BY <1>3, <1>5

(***************************************************************************)
(* With no larger fee than the library's and no tax, the pairs never       *)
(* refuse what the router quotes for an order.                             *)
(***************************************************************************)
THEOREM OrdersAreAccepted ==
    ASSUME Taxed = {}, PairFee <= 25
    PROVE  Spec => []QuotesAreAccepted
<1>1. TypeOK => QuotesAreAccepted
    <2>. SUFFICES ASSUME TypeOK, CanGetAmountsOut(reserves, wbnbIn, Path),
                         Amounts[Len(Path)] > 0, tokenToBuy # wbnb
                  PROVE  PairsAccept(reserves, Amounts, Path)
        BY DEF QuotesAreAccepted
    <2> DEFINE r(i) == getReserves(reserves, Path[i], Path[i + 1])
    <2>1. IsPath(Path) /\ wbnbIn \in Nat /\ Amounts = getAmountsOut(reserves, wbnbIn, Path)
        BY PathTyping DEF Amounts, OrderSize
    <2>2. Market(reserves)
        BY DEF TypeOK, Market
    <2>3. \A i \in 1 .. Len(Path) : Amounts[i] \in Nat
        BY <2>1, <2>2, AmountsTyping
    <2>4. wbnb \in Nat /\ tokenPaired \in Nat /\ tokenToBuy \in Nat
        BY TriggerAssumption DEF TypeOK, ZeroAddress
    <2>5. CASE tokenPaired = wbnb
        <3>1. Path = <<wbnb, tokenToBuy>> /\ Len(Path) = 2 /\ Path[1] = wbnb /\ Path[2] = tokenToBuy
            BY <2>5 DEF Path
        <3>2. /\ pairFor(wbnb, tokenToBuy) \in DOMAIN reserves
              /\ r(1)[1] > 0 /\ r(1)[2] > 0
            BY <3>1 DEF CanGetAmountsOut, CanQuote
        <3>3. Amounts[1] = wbnbIn /\ Amounts[2] = getAmountOut(wbnbIn, r(1)[1], r(1)[2])
            BY <2>1, <3>1, AmountsOverOnePair
        <3>4. Amounts[2] > 0
            BY <3>1
        <3>5. r(1) = getReserves(reserves, wbnb, tokenToBuy)
            BY <3>1
        <3>6. PairAccepts(PairFee, r(1)[1], r(1)[2], Arrives(wbnb, wbnbIn), Amounts[2])
            <4>. HIDE DEF r
            <4>. QED BY <2>1, <2>2, <2>4, <3>2, <3>3, <3>4, <3>5, HopAccepted
        <3>7. Hops(Path) = {1}
            BY <3>1 DEF Hops
        <3>. QED
            BY <3>1, <3>3, <3>6, <3>7 DEF PairsAccept
    <2>6. CASE tokenPaired # wbnb
        <3>1. /\ Path = <<wbnb, tokenPaired, tokenToBuy>> /\ Len(Path) = 3
              /\ Path[1] = wbnb /\ Path[2] = tokenPaired /\ Path[3] = tokenToBuy
            BY <2>6 DEF Path
        <3>2. /\ pairFor(wbnb, tokenPaired) \in DOMAIN reserves /\ r(1)[1] > 0 /\ r(1)[2] > 0
              /\ pairFor(tokenPaired, tokenToBuy) \in DOMAIN reserves /\ r(2)[1] > 0 /\ r(2)[2] > 0
            BY <3>1 DEF CanGetAmountsOut, CanQuote
        <3>3. /\ Amounts[1] = wbnbIn
              /\ Amounts[2] = getAmountOut(wbnbIn, r(1)[1], r(1)[2])
              /\ Amounts[3] = getAmountOut(Amounts[2], r(2)[1], r(2)[2])
            BY <2>1, <3>1, AmountsOverTwoPairs
        <3>4. Amounts[3] > 0 /\ Amounts[2] > 0 /\ Amounts[2] \in Nat
            BY <2>1, <2>3, <3>1 DEF CanGetAmountsOut, CanQuote
        <3>5. /\ r(1) = getReserves(reserves, wbnb, tokenPaired)
              /\ r(2) = getReserves(reserves, tokenPaired, tokenToBuy)
            BY <3>1
        <3>6. PairAccepts(PairFee, r(1)[1], r(1)[2], Arrives(wbnb, wbnbIn), Amounts[2])
            <4>. HIDE DEF r
            <4>. QED BY <2>1, <2>2, <2>4, <3>2, <3>3, <3>4, <3>5, HopAccepted
        <3>7. PairAccepts(PairFee, r(2)[1], r(2)[2], Arrives(tokenPaired, Amounts[2]), Amounts[3])
            <4>. HIDE DEF r
            <4>. QED BY <2>2, <2>4, <3>2, <3>3, <3>4, <3>5, HopAccepted
        <3>8. pairFor(wbnb, tokenPaired) # pairFor(tokenPaired, tokenToBuy)
            <4>1. tokenPaired # tokenToBuy
                BY <3>1 DEF CanGetAmountsOut, CanSort
            <4>. QED
                BY <2>4, <2>6, <4>1 DEF pairFor, sortTokens
        <3>9. Hops(Path) = {1, 2}
            BY <3>1 DEF Hops
        <3>. QED
            BY <3>1, <3>3, <3>6, <3>7, <3>8, <3>9 DEF PairsAccept
    <2>. QED
        BY <2>5, <2>6
<1>. QED
    BY <1>1, TypeCorrect, PTL

-----------------------------------------------------------------------------
(***************************************************************************)
(* Before the first order there is nothing to buy, so that snipeListing    *)
(* reverts although the lock of a new contract is open.                    *)
(***************************************************************************)
NothingToBuy == orders = 0 => tokenToBuy = ZeroAddress

(* configureSnipe is the only call that sets tokenToBuy, and counts.       *)
LEMMA NothingToBuyStep ==
    ASSUME TypeOK, NothingToBuy, [Steps]_vars
    PROVE  NothingToBuy'
<1>1. CASE \E paired, buy \in Tokens, amount \in Sizes, min \in Minimums :
              configureSnipe(paired, amount, buy, min)
    <2>1. orders' = orders + 1 /\ orders \in Nat
        BY <1>1 DEF configureSnipe, TypeOK
    <2>. QED
        BY <2>1 DEF NothingToBuy
<1>2. CASE UNCHANGED <<orders, tokenToBuy>>
    BY <1>2 DEF NothingToBuy
<1>. QED
    BY <1>1, <1>2 DEF Steps, OfAnyAmount, Next, Owner, Anybody, vars, settings, config, market,
        history, receive, SendToken, snipeListing, setAdministrator, setCustomRouter, setWBNBAddress,
        setFactoryAddress, emmergencyWithdrawTkn, emmergencyWithdrawBnb, AddLiquidity, Trade

LEMMA OrderInitially == Init => NothingToBuy /\ Order!Init
BY DEF Init, NothingToBuy, Order!Init, phase

(***************************************************************************)
(* configureSnipe arms, a snipeListing that does not revert fills, and     *)
(* nothing else moves an order.                                            *)
(***************************************************************************)
LEMMA OrderStep ==
    ASSUME TypeOK, NothingToBuy, [Steps]_vars
    PROVE  [Order!Next]_Order!ovars
<1>1. CASE \E paired, buy \in Tokens, amount \in Sizes, min \in Minimums :
              configureSnipe(paired, amount, buy, min)
    <2>1. orders' = orders + 1 /\ orders \in Nat /\ snipeLock' = FALSE /\ fills' = fills
        BY <1>1 DEF configureSnipe, TypeOK
    <2>2. phase' = "armed"
        BY <2>1 DEF phase
    <2>. QED
        BY <2>1, <2>2 DEF Order!Next, Order!Arm
<1>2. CASE snipeListing
    <2>1. ~snipeLock /\ snipeLock' = TRUE /\ fills' = fills + 1 /\ orders' = orders
        BY <1>2 DEF snipeListing, Locked
    <2>2. orders # 0
        <3>1. tokenToBuy \in Tokens
            BY <1>2, BuysAnotherToken
        <3>2. ASSUME ZeroAddress \in Tokens PROVE FALSE
            <4>1. ZeroAddress \in Nat \ {ZeroAddress}
                BY <3>2, TriggerAssumption
            <4>. QED
                BY <4>1
        <3>. QED
            BY <3>1, <3>2 DEF NothingToBuy
    <2>3. phase = "armed" /\ phase' = "filled"
        BY <2>1, <2>2 DEF phase
    <2>. QED
        BY <2>1, <2>3 DEF Order!Next, Order!Fill
<1>3. CASE UNCHANGED <<orders, snipeLock, fills>>
    BY <1>3 DEF Order!ovars, phase
<1>. QED
    BY <1>1, <1>2, <1>3 DEF Steps, OfAnyAmount, Next, Owner, Anybody, vars, settings, config, market,
        history, receive, SendToken, setAdministrator, setCustomRouter, setWBNBAddress,
        setFactoryAddress, emmergencyWithdrawTkn, emmergencyWithdrawBnb, AddLiquidity, Trade

(***************************************************************************)
(* The contract implements SnipeOrder: no order is filled before it was    *)
(* configured, twice, or after it was filled.                              *)
(***************************************************************************)
THEOREM Implementation == Spec => ImplementsOrder
<1>1. TypeOK /\ NothingToBuy /\ [Next]_vars => NothingToBuy' /\ [Order!Next]_Order!ovars
    BY NothingToBuyStep, OrderStep DEF Steps
<1>. QED
    BY <1>1, OrderInitially, TypeCorrect, PTL DEF Spec, ImplementsOrder, Order!Spec

-----------------------------------------------------------------------------
(***************************************************************************)
(* The scripts.  Only a size of the owner's choice is ever configured.     *)
(***************************************************************************)
Prompted == script # "idle" => size \in Sizes

(* What the owner, by hand or by script, and everybody else do to the      *)
(* contract with the scripts around, is what the contract allows.          *)
LEMMA ScriptsStep ==
    ASSUME ScriptsTypeOK, Prompted, [SNext]_svars
    PROVE  [Steps]_vars
<1>1. WBNB \in Tokens
    BY TriggerAssumption
<1>2. CASE \E s \in Sizes : Configure(s)
    BY <1>2 DEF Configure
<1>3. CASE Configured
    <2>1. size \in Sizes
        BY <1>3 DEF Configured, Prompted
    <2>. QED
        BY <1>3, <2>1 DEF Configured, Steps, Next, Owner
<1>4. CASE ReadBalance \/ Halt \/ Ask \/ DoNotWithdraw
    BY <1>4 DEF ReadBalance, Halt, Ask, DoNotWithdraw
<1>5. CASE Supplied
    BY <1>5 DEF Supplied, ScriptsTypeOK, Steps, OfAnyAmount
<1>6. CASE Withdraw
    BY <1>1, <1>6 DEF Withdraw, ScriptsTypeOK, Steps, OfAnyAmount
<1>7. CASE ByOthers \/ ByHand
    BY <1>7 DEF ByOthers, ByHand, Steps, Next
<1>8. CASE UNCHANGED svars
    BY <1>8 DEF svars
<1>. QED
    BY <1>2, <1>3, <1>4, <1>5, <1>6, <1>7, <1>8 DEF SNext, Scripts

LEMMA ScriptsInitially == SInit => TypeOK /\ ScriptsTypeOK /\ Prompted
<1>. SUFFICES ASSUME SInit PROVE TypeOK /\ ScriptsTypeOK /\ Prompted
    OBVIOUS
<1>1. coins \in Nat
    BY SetupAssumption DEF SInit
<1>2. TypeOK
    BY TypeInitially DEF SInit
<1>3. {diff, coins, asked} \subseteq Nat
    BY <1>1 DEF SInit
<1>4. ScriptsTypeOK
    BY <1>3 DEF SInit, ScriptsTypeOK
<1>. QED
    BY <1>2, <1>4 DEF SInit, Prompted

LEMMA ScriptsTypeStep ==
    ASSUME TypeOK, ScriptsTypeOK, Prompted, [SNext]_svars
    PROVE  ScriptsTypeOK' /\ Prompted'
<1>0. /\ Sizes \subseteq Nat /\ Fee \in Nat /\ held[Contract][WBNB] \in Nat
      /\ {diff, coins, asked} \subseteq Nat
    BY TriggerAssumption, SetupAssumption DEF TypeOK, Holders, ScriptsTypeOK
<1>1. ASSUME NEW s \in Sizes, Configure(s) PROVE ScriptsTypeOK' /\ Prompted'
    BY <1>1 DEF Configure, ScriptsTypeOK, Prompted
<1>2. CASE Configured
    BY <1>2 DEF Configured, ScriptsTypeOK, Prompted
<1>3. CASE ReadBalance
    <2>1. size \in Nat /\ size \in Sizes
        BY <1>0, <1>3 DEF ReadBalance, Prompted
    <2>2. CASE script' = "supplying"
        <3>1. /\ held[Contract][WBNB] < size
              /\ diff' = size - held[Contract][WBNB] + 1
              /\ coins > size - held[Contract][WBNB] + 1 + Fee
            BY <1>0, <1>3, <2>1, <2>2 DEF ReadBalance, Suffices, Affords, Missing
        <3>2. diff' \in Nat /\ diff' > 0 /\ diff' + Fee < coins
            BY <1>0, <2>1, <3>1
        <3>. QED
            BY <1>3, <2>1, <2>2, <3>2 DEF ReadBalance, ScriptsTypeOK, Prompted
    <2>3. CASE script' # "supplying"
        BY <1>3, <2>1, <2>3 DEF ReadBalance, ScriptsTypeOK, Prompted
    <2>. QED
        BY <2>2, <2>3
<1>4. CASE Supplied
    <2>1. coins - diff \in Nat
        BY <1>0, <1>4 DEF Supplied, ScriptsTypeOK
    <2>. QED
        BY <1>4, <2>1 DEF Supplied, ScriptsTypeOK, Prompted
<1>5. CASE Halt
    BY <1>5 DEF Halt, ScriptsTypeOK, Prompted
<1>6. CASE Ask \/ Withdraw \/ DoNotWithdraw
    <2>1. asked' \in Nat
        BY <1>0, <1>6 DEF Ask, Withdraw, DoNotWithdraw
    <2>2. byHand' \in BOOLEAN
        BY <1>6 DEF Ask, Withdraw, DoNotWithdraw, ScriptsTypeOK
    <2>3. UNCHANGED <<script, size, diff, coins>>
        BY <1>6 DEF Ask, Withdraw, DoNotWithdraw
    <2>4. {diff', coins', asked'} \subseteq Nat
        BY <1>0, <2>1, <2>3
    <2>5. ScriptsTypeOK'
        BY <2>2, <2>3, <2>4 DEF ScriptsTypeOK
    <2>. QED
        BY <2>3, <2>5 DEF Prompted
<1>7. CASE ByOthers \/ ByHand \/ UNCHANGED svars
    BY <1>7 DEF ByOthers, ByHand, svars, scripts, ScriptsTypeOK, Prompted
<1>. QED
    BY <1>1, <1>2, <1>3, <1>4, <1>5, <1>6, <1>7 DEF SNext, Scripts

LEMMA ScriptsAreTyped == SSpec => [](TypeOK /\ ScriptsTypeOK /\ Prompted)
<1> DEFINE IInv == TypeOK /\ ScriptsTypeOK /\ Prompted
<1>1. IInv /\ [SNext]_svars => IInv'
    BY ScriptsStep, TypeStep, ScriptsTypeStep
<1>. QED
    BY <1>1, ScriptsInitially, PTL DEF SSpec

(***************************************************************************)
(* ScriptsTypeOK for any purse and any sizes: supplyTrigger never sends    *)
(* more than the owner has, and nothing only when nothing is missing.      *)
(***************************************************************************)
THEOREM ScriptsTypeCorrect == SSpec => []ScriptsTypeOK
BY ScriptsAreTyped, PTL

(***************************************************************************)
(* The contract keeps its own promises with the scripts around, whatever   *)
(* amounts they send and withdraw: its types, where funds go, and that it  *)
(* implements SnipeOrder.                                                  *)
(***************************************************************************)
THEOREM ScriptsKeepPromises == SSpec => []TypeOK /\ FundsGoHome /\ ImplementsOrder
<1> DEFINE IInv == TypeOK /\ ScriptsTypeOK /\ Prompted
<1>1. IInv /\ [SNext]_svars => \A t \in Tokens : Home(t)
    BY ScriptsStep, HomeStep
<1>2. SInit => NothingToBuy /\ Order!Init
    BY OrderInitially DEF SInit
<1>3. IInv /\ NothingToBuy /\ [SNext]_svars => NothingToBuy' /\ [Order!Next]_Order!ovars
    BY ScriptsStep, NothingToBuyStep, OrderStep
<1>4. SSpec => FundsGoHome
    BY <1>1, ScriptsAreTyped, PTL DEF SSpec, FundsGoHome, Home
<1>5. SSpec => ImplementsOrder
    BY <1>2, <1>3, ScriptsAreTyped, PTL DEF SSpec, ImplementsOrder, Order!Spec
<1>. QED
    BY <1>4, <1>5, ScriptsAreTyped, PTL

-----------------------------------------------------------------------------
(***************************************************************************)
(* Between the configuration and the end of supplyTrigger: the order is    *)
(* the script's, and unless it was filled already, the contract holds at   *)
(* least what the script has read, which the supply completes.             *)
(***************************************************************************)
OnTheWay == ~byHand =>
    /\ script \in {"reading", "supplying", "done"} => wbnbIn = size
    /\ script = "supplying" => snipeLock \/ held[Contract][WBNB] + diff > size
    /\ script = "done" => snipeLock \/ held[Contract][WBNB] >= size

(* Nobody but the owner can take wrapped coins from an open order, reopen  *)
(* it or change its size.                                                  *)
LEMMA OthersOnlyAdd ==
    ASSUME TypeOK, Anybody
    PROVE  /\ wbnbIn' = wbnbIn
           /\ snipeLock' \/ (~snipeLock /\ held'[Contract][WBNB] >= held[Contract][WBNB])
<1>0. /\ held \in [Holders -> [Tokens -> Nat]] /\ Contract \in Holders /\ WBNB \in Tokens
      /\ snipeLock \in BOOLEAN
    BY TriggerAssumption DEF TypeOK, Holders
<1> DEFINE Kept == wbnbIn' = wbnbIn /\ snipeLock' = snipeLock
<1>1. ASSUME NEW amount \in Sizes, receive(amount)
      PROVE  Kept /\ held'[Contract][WBNB] >= held[Contract][WBNB]
    <2>1. amount \in Nat
        BY TriggerAssumption
    <2>. QED
        BY <1>0, <1>1, <2>1 DEF receive, config
<1>2. ASSUME NEW amount \in Sizes, NEW t \in Tokens, SendToken(t, amount)
      PROVE  Kept /\ held'[Contract][WBNB] >= held[Contract][WBNB]
    <2>1. Arrives(t, amount) \in Nat
        BY TriggerAssumption, ArrivesTyping
    <2>. QED
        BY <1>0, <1>2, <2>1 DEF SendToken, config
<1>3. CASE snipeListing
    BY <1>3 DEF snipeListing, Locked
<1>4. ASSUME NEW p \in Pairs, NEW r \in Depths \X Depths, AddLiquidity(p, r)
      PROVE  Kept /\ held' = held
    BY <1>4 DEF AddLiquidity, config
<1>5. ASSUME NEW a \in Tokens, NEW b \in Tokens, NEW amount \in Sizes, Trade(a, b, amount)
      PROVE  Kept /\ held' = held
    BY <1>5 DEF Trade, config
<1>6. held[Contract][WBNB] >= held[Contract][WBNB]
    BY <1>0
<1>. QED
    BY <1>0, <1>1, <1>2, <1>3, <1>4, <1>5, <1>6 DEF Anybody

LEMMA OnTheWayStep ==
    ASSUME TypeOK, ScriptsTypeOK, Prompted, OnTheWay, [SNext]_svars
    PROVE  OnTheWay'
<1>0. /\ held \in [Holders -> [Tokens -> Nat]] /\ Contract \in Holders /\ WBNB \in Tokens
      /\ held[Contract][WBNB] \in Nat
      /\ size \in Nat /\ diff \in Nat /\ byHand \in BOOLEAN
    BY TriggerAssumption DEF TypeOK, Holders, ScriptsTypeOK
<1>1. ASSUME NEW s \in Sizes, Configure(s) PROVE OnTheWay'
    BY <1>1 DEF Configure, OnTheWay
<1>2. CASE Configured
    BY <1>2 DEF Configured, configureSnipe, OnTheWay
<1>3. CASE ReadBalance
    <2>1. UNCHANGED <<wbnbIn, snipeLock, held, size, byHand>>
        BY <1>3 DEF ReadBalance, vars, config
    <2>2. ~byHand => wbnbIn = size
        BY <1>3 DEF ReadBalance, OnTheWay
    <2>3. script' = "supplying" => held[Contract][WBNB] + diff' > size
        BY <1>0, <1>3 DEF ReadBalance, Missing
    <2>4. script' = "done" => held[Contract][WBNB] >= size
        BY <1>3 DEF ReadBalance, Suffices
    <2>. QED
        BY <2>1, <2>2, <2>3, <2>4 DEF OnTheWay
<1>4. CASE Supplied
    <2>1. /\ UNCHANGED <<wbnbIn, snipeLock, size, byHand>>
          /\ script = "supplying" /\ script' = "done"
        BY <1>4 DEF Supplied, receive, config
    <2>2. held'[Contract][WBNB] = held[Contract][WBNB] + diff
        BY <1>0, <1>4 DEF Supplied, receive
    <2>. QED
        BY <1>0, <2>1, <2>2 DEF OnTheWay
<1>5. CASE Halt
    BY <1>5 DEF Halt, OnTheWay
<1>6. CASE Ask \/ DoNotWithdraw \/ UNCHANGED svars
    BY <1>6 DEF Ask, DoNotWithdraw, svars, scripts, vars, config, OnTheWay
<1>7. CASE Withdraw \/ ByHand
    BY <1>7 DEF Withdraw, ByHand, OnTheWay
<1>8. CASE ByOthers
    <2>1. /\ UNCHANGED <<script, size, diff, byHand>>
          /\ wbnbIn' = wbnbIn
          /\ snipeLock' \/ (~snipeLock /\ held'[Contract][WBNB] >= held[Contract][WBNB])
        BY <1>8, OthersOnlyAdd DEF ByOthers, scripts
    <2>2. held'[Contract][WBNB] \in Nat
        <3>1. TypeOK'
            BY <1>8, AnybodyTyping DEF ByOthers
        <3>. QED
            BY <1>0, <3>1 DEF TypeOK
    <2>. QED
        BY <1>0, <2>1, <2>2 DEF OnTheWay
<1>. QED
    BY <1>1, <1>2, <1>3, <1>4, <1>5, <1>6, <1>7, <1>8 DEF SNext, Scripts

(***************************************************************************)
(* SuppliedWhenDone for any sizes, purses and amounts: as long as the      *)
(* contract pays in the configured coin, what others send, buy or trade    *)
(* between the reading of the balance and the supply cannot leave a script *)
(* that ended without an error with an order the contract cannot pay.      *)
(***************************************************************************)
THEOREM OrderIsSupplied == SSpec => []SuppliedWhenDone
<1> DEFINE IInv == TypeOK /\ ScriptsTypeOK /\ Prompted
<1>1. SInit => OnTheWay
    BY DEF SInit, OnTheWay
<1>2. IInv /\ OnTheWay /\ [SNext]_svars => OnTheWay'
    BY OnTheWayStep
<1>3. OnTheWay => SuppliedWhenDone
    BY DEF OnTheWay, SuppliedWhenDone
<1>. QED
    BY <1>1, <1>2, <1>3, ScriptsAreTyped, PTL DEF SSpec
=============================================================================
