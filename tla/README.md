# A TLA+ model of the liquidity sniper

This directory keeps, beside the code, TLA+ specifications of the program, the
TLC configurations that check them on small instances, and theorems about them
that TLAPS checks. Paths such as `pkg/service/sniper.go` are those of the
repository.

    tlc -workers 2 -config SniperSafety.cfg MCSniper     # a run
    tlapm SniperProofs.tla                               # the proofs of a module

## 1. The system

The owner deploys two contracts, arms one of them with an order (spend so much of
the wrapped coin, buy at least so many tokens), spreads coins over a swarm of
accounts, and starts the Go program. It listens to a node; when somebody adds
liquidity for the token of the order, every account of the swarm sends a
transaction that makes the contract buy.

    node --hash or block number--> Engine --> PendingTransaction | Block
      --> TransactionClassifier --> MonitorEngine.Monitor --> buffer --> monitors
                                \-> UniswapLiquidity.Add | AddETH
                                      --> Sniper.Snipe --> node
    whatever is asked of a node for an event: EthClientCluster --> one of the nodes
    block: Trigger.snipeListing --> CustomRouter --> UniSwapV2Library, pairs

| Component | State | Operations | What makes it correct |
|---|---|---|---|
| Engine (`cmd/ax-50/engine.go`) | channel, 1000 workers, context, subscription | consume, resubscribe, stop | no worker leaks, a panic stops everything, what is queued is settled |
| Controllers (`pkg/controller`) | retries in a context, timers | look up a hash or block, retry, hand transactions over | retries end for hashes and not for blocks, a block is scanned to its end |
| Classifier (`pkg/usecase`) | none | pick monitor and strategy | every addition is offered |
| Liquidity strategy (`pkg/service/uniswap.go`) | none, but a balance read while the chain moves | `Add`, `AddETH`, gas price | snipes the right pair, misses nothing it is to find, keeps its priority |
| Sniper (`pkg/service/sniper.go`) | mutex, `PendingNonce` of each bee, goroutines and channels of each call | `Snipe`, `execute`, `checkTxStatus` | no nonce used twice, no call stuck, reports true |
| Set-up (`cmd/ax-50/service.go`, `main.go`) | none | first nonce of each bee, wiring | bees can send from the first call on |
| Trigger (`contracts/Trigger.sol`) | order, lock, owner's settings, its balances | configure, snipe, settings, withdrawals | an order is filled at most once and at its price, its tokens go nowhere but into a purchase or to the administrator |
| CustomRouter, UniSwapV2Library (`contracts/`) | factory | quote and route a swap | pairs accept what is quoted |
| Monitors (`pkg/service/*monitor.go`) | mutex, buffer, ticker, a channel and goroutines for each batch | `Monitor`, `flush`, the two monitors | each transaction seen once by each monitor, logged as configured |
| Client cluster (`pkg/service/ethclientcluster.go`) | a counter with its mutex, a number in each context | number a context, delegate | one context, one node; the load is even |
| Scripts (`scripts/`), migrations | the book file, the chain, what they read of it before | set up, withdraw, refund, preview, deploy | what they do still fits what they have read |

What is hard here: calls of `Snipe` run concurrently, from workers and from
timers, over one nonce per account; sends are refused, lost, answered late or
dropped; a transaction may be mined after it was given up; the program may die
and start again while its transactions are under way; the workers that make the calls are the ones the
engine has to take events with and to stop; a goroutine of the monitors takes others'
transactions with it when it panics; nodes do not know the same things; the balance on
which a decision rests is read while the transaction it is about is being mined; the
owner reconfigures the contract, by hand or with a script that acts on what it has read
before, while transactions race for it; integer divisions have to round the way the
other side expects. `PROJECT.json` lists
each of these under "hazards", at its line.

The repository has no tests. Its comments, README and configuration template are
the only statements of intent, and are quoted where a property states them.

## 2. The modules

| Module | Models | As |
|---|---|---|
| `SnipeOrder` | abstract: what the contract promises of an order | armed, filled once, armed again |
| `Sniper` | `sniper.go`, `newBees` | calls, bees, node pool and nonces |
| `UniSwapV2Library` | the library | operators and one recursive function |
| `QuoteCheck` | the library over bounded inputs | a state per input, a step per swap |
| `CustomRouter` | the router | operators over reserves and a path |
| `Trigger` | `Trigger.sol` on its chain | refines `SnipeOrder` |
| `Liquidity` | `uniswap.go` | the decision against a moving balance |
| `Setup` | `trigger_configurer.ts`, `trigger_withdrawal.ts` | the owner's scripts over `Trigger` |
| `Engine` | `engine.go`, both controllers, classifier | events, workers, timers |
| `Cluster` | `ethclientcluster.go` | the counter and the numbered contexts |
| `ClusteredEngine` | `main.go`, `service.go`: the engine over the cluster | composition of the two |
| `MonitorPromise` | abstract: what `MonitorEngine` promises | accepted, shown to each monitor, or given up |
| `Monitors` | `monitor.go`, both monitors, `newMonitors` | refines `MonitorPromise` |
| `System` | the running program | composition of `Engine` and `Sniper` |
| `MC...` | constants and symmetry for TLC | |
| `...Proofs` | theorems | |

`CustomRouter` extends `UniSwapV2Library`, `Trigger` extends `CustomRouter`, and `Setup`
extends `Trigger`: its scripts are further actors beside the owner and everybody else.
`ClusteredEngine` extends `Engine` and instantiates `Cluster`. `System` instantiates
`Engine` and `Sniper` over one set of variables, and implements both.
`Sniper` and `Trigger` both instantiate `SnipeOrder`: `Sniper` uses it in place of
the contract, `Trigger` implements it, so that what is assumed by one is shown by
the other.

### Sniper

A call is `idle`, `blocked` at the mutex, `sending`, `checking`, `returned`, or
`killed` by a restart. `stage[c][b]` is where the goroutine of call `c` for bee `b`
is; one bee has at most one goroutine per call at a time, first of `execute` and
then of `checkTxStatus`. Atomic steps are those between which another goroutine or
the node can act: reading the nonce and signing (`Sign`), the node's taking the
transaction (`SendAccepted`) or the error (`SendFailed`), the increment
(`Increment`), the two barriers (`StartChecks`, `Return`), each poll and the
receipt. A poll that finds a transaction pending before the wait time is over
changes nothing and is no step.

The node is external: a pool of transactions, the next nonce of each account, and
receipts. It accepts a transaction whose nonce is not used up and replaces one of
the same nonce by one that pays more, without the minimum raise real nodes ask
for. `Faults` names what it may do wrong. `Restart` starts the process anew with
the nonces `PendingNonceAt` reports. A second instance of the program and other
transactions from the bees' accounts are not modelled. A `panic` is one in a call
to the client; `execute` between the answer and the channel, and the signing of a
well-formed transaction, have nothing that can panic.

`Snipe` logs a success from the logs of the receipt; `report` is "succeeded" for a
call that saw a receipt with status 1. `Order!Fill` is the contract: it succeeds
if the order is armed and there is liquidity to buy from. Whether the purchase
meets its minimum is `Trigger`'s subject; an order that fails for it is one that
this module reverts with `liquidity` false.

### The contracts

Token addresses are small naturals, ordered as Solidity orders them, because
`sortTokens` depends on the order; 0 is the zero address. A pair's address is its
sorted pair of tokens: the hash of CREATE2 is taken to be injective. `factory` only
says whether the router's factory is the AMM the liquidity is on; the creation code
changes with it.

A transaction is one step of `Trigger`; one that reverts is none. `snipeListing`
therefore has all the requires met on its way as guards, those of the library, the
router and the pairs included. The pairs (`PairAccepts`) take an output if the
product of the reserves is kept after their own fee `PairFee`; tokens in `Taxed`
keep one unit of each transfer. The constant-product check is Pancake's and
UniswapV2's, with the fee in units of 1/10000. Left out: `SafeMath` overflow (amounts
are far below 2^256; pairs themselves hold at most 2^112), the allowance (it is set
and spent in one transaction), the deadline (120 s after the block's own
timestamp), getters, transfers of ownership, reentrancy (no contract on the path
calls back, except tokens, which are not modelled), and the administrator being the
contract itself (`TriggerAssumption`).

### Liquidity

Each transaction has a handler that goes from `unseen` over `reading` and
`deciding` to `done`, or to `error` when the balance could not be read. `Mine` is
the addition reaching a block, where the router takes what the provider promised;
the amount is that of a first addition, when nothing else is in the pair. The
controllers appear only as the moment at which they hand a transaction over: before
its block in `pending_txs` mode, after it in `new_blocks` mode. Call data is a
sequence of words in the order of the router's ABI (`Data`, external), out of which
`newInputFromTx` and `newETHInputFromTx` take the arguments by position; a sender that is
not recovered from the signature is an error, as is a balance that is not read.
Transactions with a minimum above the desired amount are left out: routers refuse them.

The multiplier of the gas price is `Percent`/100; the code multiplies by a
floating-point number, 1.25, and truncates, which is the integer division here.

### Engine

`at[e]` is where a notified event is; it is in at most one goroutine at a time, a
worker (`by[e]`) or, on a retry, the goroutine of a timer. `times` is the count
that travels in the context. The content of an event is a sequence of kinds:
contract creation, addition, anything else; a hash stands for one transaction. A
strategy may return an error or panic. A panic in a worker is recovered and cancels
the context; one in a timer's goroutine ends the process (`crashed`). Queries are
answered at any time, in any of the ways the node's knowledge allows. Notifications
that come while there is no subscription are lost (`Miss`).

### Cluster and ClusteredEngine

`NewLoadBalancedContext` is two steps under the mutex, so that an increment could get
lost between them (`MutexIgnored`); `delegateAt` is the number in the context modulo the
number of delegates, and the first delegate for a context without a number; all other
methods of the cluster are `Query`. The counter is a word of `Word` values. In
`ClusteredEngine` a worker numbers the context of an event before the controller looks it up
(`Middle`, the engine's middleware), and a retry goes on with a context derived from that
one; `Snipe` sends and polls with it too. Not everything asked for an event is asked with its
context: the contract bindings are called without options (`BalanceOf(nil, sender)`,
`uniswap.go:109` and `:157`), which makes it a background context (`Contexts`, `Strategy`).
With several clients the balance an addition is judged by is therefore the first client's,
whichever client has the event: StickyDelegate is about the event's own context and says
nothing of balances. `main.go` builds one client, where the two are the same. `served`
remembers who asked with which context, and who was asked.

### Monitors

A call of `Monitor` is `idle`, `locking`, `appending` or `pushed`, with the read of the
buffer and the write apart; the ticker's goroutine reads the buffer when it takes the
mutex (`StartFlush`) and empties it, hands the batch out and unlocks in `MonitorPendings`.
A job is a batch and one of its at most `workers` goroutines; batches overlap freely. A
monitor panics exactly if it compares with a nil minimum, which is what `newMonitors`
leaves when the configured one is no number. An entry whose sender is not recovered is let
pass. Buffer and channels are sets: entries are distinct, and what is promised does not
depend on their order.

### Setup

`trigger_configurer.ts` prompts, configures, waits for the block, reads the contract's
balance, and supplies what is missing, or stops. `trigger_withdrawal.ts` reads the balance,
asks, and withdraws what it has read. Between any two of their steps everybody may send
tokens, trigger the purchase and trade, and the owner may use the contract otherwise
(`ByHand`). Coins are those of the owner; the fee is what the script reckons.

### System

The calls of `Snipe` are named by the addition they are made for, an event and a position
in it. `Accept` is the strategy's calling `Snipe`; `Classify` of that transaction waits for
the call to return, so that a worker, or a timer's goroutine, is inside `Snipe` meanwhile.
`PanicInReport` is a panic where `Snipe` logs its success: the deferred unlock runs, and the
panic goes on to the worker. Sends, polls and lookups of receipts may fail at any time, the
context cancelled or not, and the answer to a send may be lost after the node took it
(`SystemAssumption` asks for these faults). `Init` lets the node know of no event, and
`NodeStep` has it learn and forget only while somebody asks or waits to ask again: what it
knows at other times nobody sees.

## 3. The runs

Runs marked V look for a violation, of a statement the repository makes.

| Run | Instance | Distinct states | What it asks |
|---|---|---|---|
| SniperSafety | 2 calls, 2 bees, 2 orders, all faults but the poll error, nonces 0 and 1, 1 crash | 3.2M | mutex, barrier, nonces, truth of reports, one purchase per order, only a restart repairs a stranded bee |
| SniperFreshBee V | nonces 0 and 1, no faults | | what is pooled can be executed |
| SniperPollError V | failed polls | | a check gives up only after the wait time |
| QuoteCheck | 8 x 8 reserves, 7 amounts, 2 swaps | 5.6k | quotes accepted, maximal; inputs sufficient (of `getAmountIn`, which no contract calls) |
| TriggerOrder | 3 tokens, 2 orders, 1 trade, one and two hops | 882k | refinement, price, acceptance |
| TriggerSetup | 2 tokens, every setting, taxed token, withdrawals, both scripts | 529k | types, where tokens go, whether the contract can pay the order when the script is done |
| LiquidityDecisions | 4 additions, 2 providers, both modes | 1.3M | right pair, nothing missed, gas price |
| LiquidityScan V | 4 transactions in blocks | | the scan finds the addition |
| LiquidityDollar V | paired token is not the coin | | right pair |
| EngineEvents | 2 hashes or 2 blocks of 2 and 3 transactions, 2 workers, 2 retries, 1 lost subscription, 3 clients, a counter that overflows | 94k | workers, lookups, scan, one client per context, balance, stop, settlement |
| System | 4 blocks, two with an addition, or a hash; 2 workers, retries, 1 bee, all faults but the drop, panics everywhere | 55k | calls are waited for, only a lost answer costs a bee its counter, everything in the channel is settled, a panic stops the engine |
| Monitors | 3 transactions, 2 goroutines per batch, a minimum and none | 40k | refinement of `MonitorPromise`, losses, logs, calls return |

**Bounds.** Two calls contend for the mutex and have one history of nonces between
them, with a fault and a crash before, between or after them, which is what stranding a
bee and repairing it takes; two bees make the barrier a barrier. Counters that would grow
(orders, restarts, trades, transfers, losses of the subscription) are capped by constants
named `Max...`; each cap allows the event at least once before and after the others, and
orders twice, because the lock is reset by the second. `QuoteCheck` covers reserves from
1 to 34 with amounts both far below and above them, where roundings differ most; all larger
ones are the theorems'. In Engine every worker can be busy while the other is idle, stopped
or panicking, and one lookup more than the deadline allows is reachable under the mutated
forms. Channel capacity equals the number of workers, as in the code (1000), reduced to
two. With three clients and a word of four values the counter overflows once, and three is
no divisor of its size, as of 2^64. In System the channel holds two, so that
four blocks are needed for both workers to be inside `Snipe`, one waiting for the other's
mutex, with the channel full behind them; timers can be inside as well. `MCSystem` bounds
the rest by name, with action constraints: blocks come in their order (InOrder), the two
empty ones when both workers are inside `Snipe` (EmptyBehind; Engine has them at any time),
only the first is retried or fails to be looked up (OthersAreFound), and the pair has
liquidity (MCInit) and the order is configured before the first notification (OrderFirst;
SniperSafety has both at any time).
Three transactions and two goroutines make a
batch larger than its goroutines, two batches that overlap, and one left behind.

**Symmetry** is used for bees and calls, in the runs of Sniper, which have no liveness; no
property, action property included, and no `Init` tells two of them apart.

**Deadlock** is not checked: every program here stops when its calls have returned,
its orders are used up or its events are settled, within the bounds.

**Fairness.** Goroutines are scheduled, the node answers every request (well or badly) and
timers fire, in all three liveness runs. `Engine!Fairness`, and with it `CFairness` of
`ClusteredEngine`: in `new_blocks` mode the node comes to know a block it announced, as the
comment in `block.go` supposes ("all blocks should exist if they were added to the head").
It is not assumed that the subscription lives. `System!Fairness`: the node comes to
know its blocks, and the scheduler is fair to all goroutines together, which is less than
fairness to each: once the node knows its blocks, controllers and calls have finitely many
steps left, so that a scheduler which always runs some goroutine runs all of them. Nothing
is assumed of the chain or of further notifications: everything settles on a chain that never
mines. `Monitors!Fairness`: the ticker ticks, and
`sync.Mutex` (which hands itself to a waiter after a millisecond) passes nobody over for
ever, which is strong fairness of the two steps that take it, since ticks go on for ever.

Each property of a passing run is paired in `PROJECT.json` ("mutants") with a small
change to a definition, a plausible slip in the code, under which TLC finds the
property violated. The changed forms are in the modules, marked "Mutated form".

## 4. What the violation runs show

1. `newBees` (`service.go:124`) starts a bee with nonce 1 when the node says 0. The
   accounts that `createSwarm` makes in its last round, half of the swarm, have never
   sent anything: what they send waits for a nonce nobody uses.
2. `checkTxStatus` (`sniper.go:213`) ends its loop on `pend == false`, which is also
   what comes with an error: one failed poll and the transaction is looked for in
   receipts, where it is not yet, and reported as failed.
3. In `new_blocks` mode the balance is read after the addition took it
   (`uniswap.go:109`): the expected addition is ignored.
4. `AddETH` (`uniswap.go:166`) does not look at the paired token.

Four more limits of the code show in the hypotheses of properties and theorems
rather than in runs of their own. The minimum of an order is compared with the
computed amount (`CustomRouter.sol:65`), not with what arrives, so BuysAtLeastMinimum
needs `Taxed = {}`, although the configuration template promises "AT LEAST" the
minimum. The fee of 0.25 % is part of the library (`UniSwapV2Library.sol:47`), so
QuotesAreAccepted needs `PairFee <= 25`, and a fork with 0.3 % is outside of it,
although the README speaks of any fork. And the provider's balance is compared with
the minimum he names (`uniswap.go:124`), not with the amount, although the comment
above speaks of what he "wants to add". Last, `trigger_configurer.ts:74` reads and supplies
the wrapped coin of its configuration and never asks the contract for its `wbnb`, in which
`snipeListing` pays: after `setWBNBAddress` to another token the script can end without an
error with an order that cannot be paid, so SuppliedWhenDone has `wbnb = WBNB` as a
hypothesis.

## 5. What is proved

All theorems are for every value of the constants allowed by the named assumptions.

**SniperProofs.** `TypeCorrect`; then the inductive invariant of the mutex: a stage
that is at work belongs to the call that holds `mut`, whose `pc` says which half it
is in, and a stage of the wrong half does not occur; this gives `MutualExclusion`
(Serialized) and `Barrier` (ChecksFollowSends). `NoncesUsedOnce` needs more than
NoNonceReuse: every acknowledged nonce is below the bee's counter, or equal to it
while the goroutine that got it has not incremented yet, and a signed hash has the
counter's value as its nonce. Mutual exclusion makes this inductive. For
`TruthfulReports` a stage `confirmed` and a report have their receipt, and receipts are
never removed; a restart does not touch reports or the hashes they refer to.
`OnePurchasePerOrder` (NoDoubleBuy): a receipt of status 1 carries the number of a past order,
and one with the present number exists only if the order is filled.
`PurchasesOfTheirOwn` (SuccessesAreFills): there is a one-to-one map from the calls that
reported a success to purchases (Claims). It is extended when a call reports, by the receipt
that one of its checks saw. Nobody has that receipt: what a call in progress follows is none
of the mapped ones, because the node took it when its nonce was not used up, and a mined
transaction's nonce is (Past). A call whose send was answered with an error, or panicked,
follows nothing, although its transaction may be the one a later call sends again.
`StaysInSync` (InSync) assumes that no account is fresh and that the node drops nothing and
answers for what it takes (SniperFreshBee shows what the first is for).
Unbroken: the node holds of every bee exactly one transaction for each nonce from the chain's
to the bee's own, and the one on its way to the increment. `CountsThePool` turns this into
`PendingNonceAt` with a bijection.

Four theorems say what becomes of a bee's counter when that does not hold. A bee is stranded
if its counter is behind the chain or beyond a gap in the pool. `OnlyRestartRepairs`
(StrandedUntilRestart) goes action by action: a goroutine sends the counter's nonce and
nothing else, which the node refuses if it is behind and which does not fill a gap below it,
and a block takes what comes before the gap. `NoNonceSkipped`: without fresh accounts and
evictions there is never a gap, and all that is pooled can be executed, although answers may
be lost. The invariant Rows is weaker than Unbroken: the counter may be anywhere in the row,
because a send whose answer was lost is in the row and not counted, and a later send for the
same nonce takes its place; but an acknowledged send is in the row before it is counted.
`NoBeeStranded` adds that answers arrive, and follows from Unbroken. So a fresh account
(SniperFreshBee), an eviction or a lost answer is what it takes to strand a bee, and nothing else does.
Bee by bee: UnbrokenStep keeps the row of one bee over every step but the loss of an answer
to that bee (AnswerLost) or the eviction of one of its transactions (Evicted), whatever befalls
the others. `SyncedIsUnbroken` is the converse of `CountsThePool`: if the count of the node
comes out at the counter, no nonce can be missing below it, provided the node has nothing
above it and nothing twice (PooledOf), which holds within one run of the program.
`FailsOnlyWhenGone` proves GivesUpAfterWaitTime without poll errors, the one fault that
SniperPollError has: a poll that was answered saw the transaction gone, and it does not come
back, because what is followed is below the bee's counter (Checks).

**LibraryProofs** is arithmetic. `Quotient` characterises the integer division by its
two inequalities; `QuoteAccepted` and `QuoteMaximal` turn the pair's product into the
same inequalities by distributing it (`ProductOfDifference`, `ProductKept`), in steps
small enough for linear reasoning. `AmountsOverOnePair` and `AmountsOverTwoPairs` say
what the recursive function of `getAmountsOut` yields on the two paths that exist.

**QuoteProofs** lifts these to every state of `QuoteCheck` (`EveryQuoteAccepted` for a pair
fee up to 25, `EveryQuoteMaximal` for 25) and proves `EveryInputSuffices`.

**TriggerProofs.** `TypeCorrect` shows in particular that balances and reserves stay
natural numbers, which rests on `OutBelowReserve`. `AtLeastMinimum` assumes `Taxed = {}`,
for the reason given above; `FundsStay` (FundsGoHome: where tokens may go, not who may send
them there, since callers are not modelled) does not. `OrdersAreAccepted` assumes
untaxed tokens and a pair fee of at most 25. `Implementation`: `Init` maps to `SnipeOrder`'s, and
every step to `Arm`, `Fill` or a stutter. The mapping calls an order armed only after
the first `configureSnipe`, while the contract's lock is open from the start; the
invariant NothingToBuy (before the first order the token to buy is the zero address)
makes a purchase then impossible.

The same module proves the scripts of `Setup`. A script's step on the contract is a step of
`Trigger`, but its deposits and withdrawals are of the amounts it has read, where `Next` bounds
what the owner sends by hand: Steps is `Next` with any amount, and the lemmas about single
steps are stated for it, so that both specifications use them. `ScriptsTypeCorrect`
(ScriptsTypeOK) and `ScriptsKeepPromises` (types, FundsGoHome and the refinement) follow.
`OrderIsSupplied` (SuppliedWhenDone) rests on OnTheWay: from the configuration on the order has
the size the script gave it, and unless it has been filled, the contract holds at least what the
script read, since only a purchase or the owner takes coins away; what the script supplies
then makes up the rest. It counts the coins of the configuration, hence the hypothesis on `wbnb`.

**LiquidityProofs.** `Decoded` says what the words mean; all the rest rests on the decoded
fields. IInv is the typing with three parts. Found: what a transaction's
handler decided follows from what it read. Fresh: for a transaction not mined, not
disturbed and read, what was read is at least the balance now. Late: a transaction
mined undisturbed had been read in time, and if it was added its balance then sufficed.
`NoneMissed` (TimelySnipe) follows, `RightPair` under `Paired = Wrapped`, and `PriorityKept`
from the arithmetic of the raised price.

**EngineProofs.** `TypeCorrect`, from the deadline of the retries and the length of the
channel. Queued says that what is in the channel is queued and is there once, so
`Take` never takes an event that somebody has already; the other invariants rest on
it. Looked bounds the queries of an event by its retries, and by one more once
it is answered for the last time (`LookupsEnd`). Scanned: everything before the
next transaction of a block has been classified, which the error of a strategy does
not change (`ScansToTheEnd`). Holding: an event in hand keeps its worker busy, no worker
has two, a busy one has one, and an event that waits for its timer has none; the timer's
goroutine is no worker, so that what it does later releases nobody's (`WorkersReturn`).

These are about `Engine`; `ClusterIsTransparent` shows that `ClusteredEngine` implements it,
so that `ClusteredEngineKeepsItsPromises` has them for what main builds. `OneDelegate`
(StickyDelegate): whoever is inside the mutex is alone there, has read the present counter and
has no number (Serial); hence a number, once given, stays, and everything an event's own context
was used for went to the delegate of its number (Kept). `LoadIsSpread` (Balanced) needs the exact loads.
Lead(n, d) says whether delegate d has had its turn in the round that number n is in. While
the counter has not overflowed, the loads of two delegates differ exactly as their leads have
changed since the first value (RoundRobin); an overflow starts over with number 0, out of turn, and
costs at most one event (Drift). Leads are 0 or 1, which gives the property; the word
size need not be a multiple of the number of delegates.

**MonitorsProofs.** Base is inductive: typing with a bound on the batches (a batch is not
empty and no entry is in two), who holds the mutex and what it has read (Locked), and
Places: every pushed transaction is in one place at most, the buffer, the channel of one
batch or one hand. `KeepsSafePromise` is the refinement: a push accepts, a monitor's return
passes, a panic abandons the entry in hand and, with the last goroutine, what is left in the
channel; nothing else changes a status. `LossesAreBounded` counts: a batch had as many
goroutines as `workers` or as it had entries, each takes at least one away before it
panics, and it ends only on an empty channel. `LogsAreRight` relates what was logged to
how far each entry got in the list.

**SystemProofs.** `EngineImplemented` and `SwarmImplemented`: a step of the system is a step
of the engine or leaves it alone, and the same of the swarm, where the addition a goroutine
is at is one of `Additions`. The theorems of EngineProofs and SniperProofs are therefore used
as they stand (`SwarmKeepsItsPromises`, and under the proofs of the others).
`NoCallIsLeft`: an event with a call in progress is in the hands of the goroutine that waits
for it; that nobody else moves it on rests on Queued and Holding of EngineProofs.
`WorkersAreWaitedFor` follows with Holding: the worker in question is busy, so that Run has
not returned. `OnlyLossesDesync` (OnlyLossDesyncs) has no hypothesis on the accounts or the
faults: a bee that agrees with the node has an unbroken row (SyncedIsUnbroken), the step keeps
it (UnbrokenStep), and so the bee agrees afterwards, unless the step is the loss of an answer to
it or an eviction. `SyncedIsNotStranded` says what that is worth, `NoNonceSkippedWhileRunning`
what holds even when answers are lost. `StrandedForGood` is StrandedStep, for a
program whose steps include no restart. The theorems of EngineProofs are used for a cluster
of one delegate, the one that `main.go` builds, whose contexts carry no number.

Every invariant and every action property that a passing run checks is stated by a theorem.
Left to TLC: liveness (`StopsEverything`, `EventsSettle`, `EverythingSettles`, `CallsReturn`
and the fairness of `KeepsPromise`, whose safety half is `KeepsSafePromise`), which the prover
cannot treat under fairness. The properties of the violation runs do not hold; what holds of
them is said by theorems with the hypothesis that fails there (`NoNonceSkipped`,
`FailsOnlyWhenGone`, `RightPair`), except for ScanFindsAddition: `NoneMissed` assumes that the
addition was read before its block, which is never so in a scan.

## 6. Not modelled

* `scripts/swarm_factory.ts` and `scripts/swarm_refund.ts`: transfers between accounts
  that share nothing with the running program, each waited for or all at once. What can go
  wrong with them (the hazards at `swarm_factory.ts:33` and `swarm_refund.ts:40`) is the end
  of the script by an exception, and no order of steps makes it better or worse.
* `scripts/order_preview.ts`: reads and prints, in whole coins and tokens. Its `quote` is not
  the library's: it takes 0.2 % where `getAmountOut` takes 0.25 %, and rounds to the nearest
  token where the contract rounds down to the smallest unit. The preview may therefore be
  above what a first purchase brings, and `expected_tokens` taken from it unchecked may be
  refused. Floats at one scale against integers at another are not modelled.
* Configuration, domain types, logging, formatting: no behaviour to check. That
  `minimum_liquidity` is a float that is cut to an integer (`service.go:59`) is left out:
  `MinLiq` is any natural number.
* Migrations, `TransferHelper.sol`, `Migrations.sol`, the generated bindings under
  `third_party`: deployment and generated or vendored code. `Trigger!Init` is the state
  the migrations leave, with the router set or not yet set.
* `quote` and `getAmountsIn` of the library: no contract calls them. `getAmountIn`, which only
  `getAmountsIn` calls, is modelled and proved as the library's counterpart of `getAmountOut`;
  nothing the deployed program does rests on it.
* Call data too short for the fixed offsets at which `newInputFromTx` cuts it: the slice panics.
  `Liquidity` has well-formed call data only; the panic is one of those `Engine!Panic` stands for.
* The strategy between the engine and the swarm in `System`: whether an addition is
  accepted is a free choice there, which covers whatever `Liquidity` decides.

## 7. The plan

Done, in this order: `SnipeOrder` and `Sniper` with their proofs, the library and
`QuoteCheck`, the router and `Trigger` with the refinement, `Liquidity`, and `Engine`,
each with its proofs; then `MonitorPromise` and `Monitors` with the refinement and its
proofs, `Cluster` and `ClusteredEngine`, `System` with its two refinements, and `Setup`.

Then to prove more: the cluster and the scripts, which had been model-checked only, and
what strands a bee and what does not, bee by bee.

Left: to model `refundAll` over the same accounts while the program runs, if the scripts are
ever meant to be used then.
