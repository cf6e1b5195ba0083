-------------------------------- MODULE Setup --------------------------------
(***************************************************************************)
(* scripts/trigger_configurer.ts and scripts/trigger_withdrawal.ts, run by *)
(* the owner against Trigger while everybody else, and the owner by other  *)
(* means, goes on with it.  Each script reads the contract's balance and   *)
(* acts on what it has read in a later transaction.                        *)
(***************************************************************************)
EXTENDS Trigger

CONSTANTS
    Purses,     \* coins the owner may start with
    Fee,        \* what the script reckons a transfer costs
    Dust        \* a balance that is not worth a withdrawal

ASSUME SetupAssumption == Purses \subseteq Nat /\ {Fee, Dust} \subseteq Nat

VARIABLES
    script,     \* where trigger_configurer.ts is
    size,       \* the size of its order
    diff,       \* the amount it sends to the contract
    coins,      \* coins of the owner
    asked,      \* the balance trigger_withdrawal.ts asks about, or 0
    byHand      \* history: the owner did something else since the configuration

scripts == <<script, size, diff, coins, asked, byHand>>
svars == <<vars, scripts>>

SInit ==
    /\ Init
    /\ script = "idle"
    /\ size = 0
    /\ diff = 0
    /\ coins \in Purses
    /\ asked = 0
    /\ byHand = FALSE

(* promptTrigger: the owner says yes.                                      *)
Configure(s) ==
    /\ script \in {"idle", "done", "halted"}
    /\ script' = "configuring"
    /\ size' = s
    /\ UNCHANGED <<vars, diff, coins, asked, byHand>>

(* applyConfiguration: the transaction is mined.                           *)
Configured ==
    /\ script = "configuring"
    /\ \E paired, buy \in Tokens, min \in Minimums : configureSnipe(paired, size, buy, min)
    /\ script' = "reading"
    /\ byHand' = FALSE
    /\ UNCHANGED <<size, diff, coins, asked>>

(* Mutated form of Suffices: the contract is supplied if it holds anything.*)
IsSupplied(balance) == balance > 0

Suffices(balance) == balance >= size

Missing(balance) == size - balance + 1

(* Mutated form of Affords: a purse with anything in it will do.           *)
HasCoins(balance) == coins > 0

Affords(balance) == coins > Missing(balance) + Fee

(* supplyTrigger, up to its transaction.                                   *)
ReadBalance ==
    /\ script = "reading"
    /\ LET balance == held[Contract][WBNB] IN
       \/ Suffices(balance) /\ script' = "done" /\ UNCHANGED diff
       \/ ~Suffices(balance) /\ Affords(balance) /\ script' = "supplying" /\ diff' = Missing(balance)
       \/ ~Suffices(balance) /\ ~Affords(balance) /\ script' = "halted" /\ UNCHANGED diff
    /\ UNCHANGED <<vars, size, coins, asked, byHand>>

Supplied ==
    /\ script = "supplying"
    /\ receive(diff)
    /\ script' = "done"
    /\ coins' = coins - diff
    /\ UNCHANGED <<size, diff, asked, byHand>>

(* A transaction is refused or reverts; the contract cannot wrap what it   *)
(* gets if the owner has replaced the wrapped coin.                        *)
Halt ==
    /\ script \in {"configuring", "supplying"}
    /\ script' = "halted"
    /\ UNCHANGED <<vars, size, diff, coins, asked, byHand>>

(* promptWithdrawal, and the answer.                                       *)
Ask ==
    /\ asked = 0
    /\ held[Contract][WBNB] > Dust
    /\ asked' = held[Contract][WBNB]
    /\ UNCHANGED <<vars, script, size, diff, coins, byHand>>

Withdraw ==
    /\ asked > 0
    /\ emmergencyWithdrawTkn(WBNB, asked)
    /\ asked' = 0
    /\ byHand' = TRUE
    /\ UNCHANGED <<script, size, diff, coins>>

DoNotWithdraw ==
    /\ asked > 0
    /\ asked' = 0
    /\ UNCHANGED <<vars, script, size, diff, coins, byHand>>

Scripts ==
    \/ \E s \in Sizes : Configure(s)
    \/ Configured \/ ReadBalance \/ Supplied \/ Halt
    \/ Ask \/ Withdraw \/ DoNotWithdraw

ByOthers == Anybody /\ UNCHANGED scripts

ByHand == Owner /\ byHand' = TRUE /\ UNCHANGED <<script, size, diff, coins, asked>>

SNext == Scripts \/ ByOthers \/ ByHand

SSpec == SInit /\ [][SNext]_svars

-----------------------------------------------------------------------------
(***************************************************************************)
(* Type correctness of the scripts: in particular the owner never sends    *)
(* more coins than he has, and a script that supplies supplies something.  *)
(***************************************************************************)
ScriptsTypeOK ==
    /\ script \in {"idle", "configuring", "reading", "supplying", "done", "halted"}
    /\ size \in Sizes \cup {0}
    /\ {diff, coins, asked} \subseteq Nat
    /\ script = "supplying" => diff > 0 /\ diff + Fee < coins
    /\ byHand \in BOOLEAN

(***************************************************************************)
(* When trigger_configurer.ts ends without an error, snipeListing will not *)
(* fail for want of funds: the contract holds the order's size of the coin *)
(* it pays in, or has already bought, whoever sent tokens, bought or       *)
(* traded between the reading of the balance and the supply.  Two limits:  *)
(* the owner does nothing else since the configuration, and the contract's *)
(* wbnb is the configured one, which the script supplies and whose balance *)
(* it reads without asking the contract for its own.                       *)
(***************************************************************************)
SuppliedWhenDone ==
    script = "done" /\ ~byHand /\ wbnb = WBNB => snipeLock \/ held[Contract][wbnb] >= wbnbIn
=============================================================================
