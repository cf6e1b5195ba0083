------------------------------- MODULE Sniper -------------------------------
(***************************************************************************)
(* Sniper.Snipe of pkg/service/sniper.go and the swarm it drives.          *)
(*                                                                         *)
(* A call of Snipe takes the mutex, starts one goroutine per bee that      *)
(* signs and sends a transaction triggering the contract, waits for all of *)
(* them, starts one goroutine per resulting hash that follows the          *)
(* transaction until it is known or the wait time is over, waits for all   *)
(* of those, and returns.  Several calls run at once: every liquidity      *)
(* addition that an engine worker or a retry timer accepts makes one.      *)
(*                                                                         *)
(* The node behind the client is external: the transaction pool, the       *)
(* accounts' nonces and the receipts are modelled from what the code asks  *)
(* of them.  The trigger contract is represented by what it promises,      *)
(* SnipeOrder.                                                             *)
(***************************************************************************)
EXTENDS Integers, FiniteSets

CONSTANTS
    Bees,           \* accounts of the bee book
    Calls,          \* concurrent calls of Snipe
    Gas,            \* gas prices the calls may be given
    InitialNonces,  \* nonces an account may have when the program starts
    Faults,         \* what the node and the network may do wrong
    MaxOrders,      \* bound: orders the owner configures
    MaxRestarts,    \* bound: crashes of the program
    Free,           \* the mutex is held by nobody
    NullHash        \* the hash standing for "nothing was sent"

(***************************************************************************)
(* sendError:  SendTransaction fails and the node has not got it           *)
(* lostReply:  SendTransaction fails although the node accepted it         *)
(* drop:       the node evicts a transaction from its pool                 *)
(* pollError:  TransactionByHash fails                                     *)
(* receiptError: TransactionReceipt fails                                  *)
(* panic:      the client panics inside a goroutine                        *)
(***************************************************************************)
FaultKinds == {"sendError", "lostReply", "drop", "pollError", "receiptError", "panic"}

Tx == [bee : Bees, nonce : Nat, gas : Gas]

ASSUME ConstantsAssumption ==
    /\ Gas \subseteq Nat
    /\ InitialNonces \subseteq Nat
    /\ Faults \subseteq FaultKinds
    /\ MaxOrders \in Nat
    /\ MaxRestarts \in Nat
    /\ Free \notin Calls
    /\ NullHash \notin Tx

VARIABLES
    mut,            \* the call holding the mutex
    pc,             \* where each call is
    gas,            \* the gas price argument of each call
    stage,          \* of the goroutine working for a call and a bee
    hash,           \* what that goroutine signed, or NullHash
    pendingNonce,   \* Bee.PendingNonce
    restarts,       \* crashes so far
    nonce,          \* external: next nonce the chain takes from an account
    pool,           \* external: transactions the node holds
    receipts,       \* external: mined transactions
    liquidity,      \* external: the pair the order buys from has liquidity
    phase, orders, fills,   \* the trigger contract's order
    acked,          \* history: sends acknowledged to this process
    report          \* history: what each call logged at its end

swarm == <<mut, pc, gas, stage, hash, pendingNonce>>
order == <<phase, orders, fills>>
chain == <<nonce, pool, receipts, liquidity, order>>
vars == <<swarm, restarts, chain, acked, report>>

Order == INSTANCE SnipeOrder

PcValues == {"idle", "blocked", "sending", "checking", "returned", "killed"}
SendStages == {"start", "signed", "acked"}
CheckStages == {"polling", "overdue", "receipt"}
EndStages == {"confirmed", "failed", "timedOut", "panicked"}
Stages == {"none", "hashed"} \cup SendStages \cup CheckStages \cup EndStages

(***************************************************************************)
(* The node.                                                               *)
(***************************************************************************)

Rival(t) == {p \in pool : p.bee = t.bee /\ p.nonce = t.nonce}

(* A node takes a transaction whose nonce is not used up.  One that has    *)
(* the nonce of a pooled transaction replaces it if it pays more.          *)
Accepts(t) ==
    /\ t.nonce >= nonce[t.bee]
    /\ \A p \in Rival(t) : t.gas > p.gas

PoolWith(t) == (pool \ Rival(t)) \cup {t}

(* A pooled transaction can be mined once all those before it have been.   *)
Executable(t) ==
    \A m \in nonce[t.bee] .. t.nonce : \E p \in pool : p.bee = t.bee /\ p.nonce = m

(* PendingNonceAt: the chain's nonce, past the executable transactions.    *)
PendingNonceAt(b) == nonce[b] + Cardinality({p \in pool : p.bee = b /\ Executable(p)})

Receipt(t, s) == [tx |-> t, status |-> s, order |-> orders]

(* A block includes the next transaction of an account.  The contract's    *)
(* snipeListing succeeds only on an armed order with a pool to buy from;   *)
(* any other mined trigger transaction has status 0.                       *)
Mine(t) ==
    /\ t.nonce = nonce[t.bee]
    /\ pool' = pool \ {t}
    /\ nonce' = [nonce EXCEPT ![t.bee] = @ + 1]
    /\ \/ /\ liquidity
          /\ Order!Fill
          /\ receipts' = receipts \cup {Receipt(t, 1)}
       \/ /\ ~(liquidity /\ phase = "armed")
          /\ receipts' = receipts \cup {Receipt(t, 0)}
          /\ UNCHANGED order
    /\ UNCHANGED <<swarm, restarts, liquidity, acked, report>>

Drop(t) ==
    /\ "drop" \in Faults
    /\ pool' = pool \ {t}
    /\ UNCHANGED <<swarm, restarts, nonce, receipts, liquidity, order, acked, report>>

MineLiquidity ==
    /\ ~liquidity
    /\ liquidity' = TRUE
    /\ UNCHANGED <<swarm, restarts, nonce, pool, receipts, order, acked, report>>

(* The owner configures an order, possibly while the swarm is at work.     *)
ConfigureOrder ==
    /\ orders < MaxOrders
    /\ Order!Arm
    /\ UNCHANGED <<swarm, restarts, nonce, pool, receipts, liquidity, acked, report>>

(***************************************************************************)
(* Snipe.                                                                  *)
(***************************************************************************)

(* newBees: the nonce a bee starts with, given what PendingNonceAt says.   *)
StartNonce(pn) == IF pn = 0 THEN pn + 1 ELSE pn

Init ==
    /\ mut = Free
    /\ pc = [c \in Calls |-> "idle"]
    /\ gas \in [Calls -> Gas]
    /\ stage = [c \in Calls |-> [b \in Bees |-> "none"]]
    /\ hash = [c \in Calls |-> [b \in Bees |-> NullHash]]
    /\ nonce \in [Bees -> InitialNonces]
    /\ pool = {}
    /\ pendingNonce = [b \in Bees |-> StartNonce(nonce[b])]
    /\ restarts = 0
    /\ receipts = {}
    /\ liquidity \in BOOLEAN
    /\ Order!Init
    /\ acked = {}
    /\ report = [c \in Calls |-> "none"]

Call(c) ==
    /\ pc[c] = "idle"
    /\ pc' = [pc EXCEPT ![c] = "blocked"]
    /\ UNCHANGED <<mut, gas, stage, hash, pendingNonce, restarts, chain, acked, report>>

(* Mutated form of MutexAvailable: Snipe without its mutex.                *)
MutexIgnored == TRUE

MutexAvailable == mut = Free

(* The mutex is taken and one goroutine per bee is started.                *)
Lock(c) ==
    /\ pc[c] = "blocked"
    /\ MutexAvailable
    /\ mut' = c
    /\ pc' = [pc EXCEPT ![c] = "sending"]
    /\ stage' = [stage EXCEPT ![c] = [b \in Bees |-> "start"]]
    /\ UNCHANGED <<gas, hash, pendingNonce, restarts, chain, acked, report>>

To(c, b, s) == stage' = [stage EXCEPT ![c][b] = s]

(* execute reads the nonce, builds the transaction and signs it.           *)
Sign(c, b) ==
    /\ stage[c][b] = "start"
    /\ hash' = [hash EXCEPT ![c][b] = [bee |-> b, nonce |-> pendingNonce[b], gas |-> gas[c]]]
    /\ To(c, b, "signed")
    /\ UNCHANGED <<mut, pc, gas, pendingNonce, restarts, chain, acked, report>>

SendAccepted(c, b) ==
    /\ stage[c][b] = "signed"
    /\ Accepts(hash[c][b])
    /\ pool' = PoolWith(hash[c][b])
    /\ acked' = acked \cup {[bee |-> b, nonce |-> hash[c][b].nonce, call |-> c]}
    /\ To(c, b, "acked")
    /\ UNCHANGED <<mut, pc, gas, hash, pendingNonce, restarts, nonce, receipts, liquidity,
                   order, report>>

(* Mutated forms of AfterFailedSend: the increment moved above the error   *)
(* check, and an increment undone once too often.                          *)
IncrementAnyway(n) == n + 1
RollBack(n) == n - 1

(* The node refuses the transaction, or cannot be reached, or its answer   *)
(* is lost: the null hash is returned and the nonce stays as it was.       *)
AfterFailedSend(n) == n

SendFailed(c, b) ==
    /\ stage[c][b] = "signed"
    /\ \/ /\ ~Accepts(hash[c][b]) \/ "sendError" \in Faults
          /\ UNCHANGED pool
       \/ /\ Accepts(hash[c][b])
          /\ "lostReply" \in Faults
          /\ pool' = PoolWith(hash[c][b])
    /\ hash' = [hash EXCEPT ![c][b] = NullHash]
    /\ pendingNonce' = [pendingNonce EXCEPT ![b] = AfterFailedSend(@)]
    /\ To(c, b, "hashed")
    /\ UNCHANGED <<mut, pc, gas, restarts, nonce, receipts, liquidity, order, acked, report>>

(* Mutated form of AfterSend: the increment is forgotten.                  *)
SameNonceAgain(n) == n

(* bee.PendingNonce++, and the hash goes into the channel.                 *)
AfterSend(n) == n + 1

Increment(c, b) ==
    /\ stage[c][b] = "acked"
    /\ pendingNonce' = [pendingNonce EXCEPT ![b] = AfterSend(@)]
    /\ To(c, b, "hashed")
    /\ UNCHANGED <<mut, pc, gas, hash, restarts, chain, acked, report>>

(* recovery(): a goroutine that panics ends without a result.  Calls into  *)
(* the client are where it can; before it has passed anything on.          *)
Panic(c, b) ==
    /\ "panic" \in Faults
    /\ stage[c][b] \in {"signed", "polling", "receipt"}
    /\ To(c, b, "panicked")
    /\ UNCHANGED <<mut, pc, gas, hash, pendingNonce, restarts, chain, acked, report>>

(* Mutated forms of AllSent: the barrier opens with the first result, or   *)
(* wg.Done is not deferred and a panicked goroutine never counts.          *)
AnySent(c) == \E b \in Bees : stage[c][b] \in {"hashed", "panicked"}
AllSentByThemselves(c) == \A b \in Bees : stage[c][b] = "hashed"

(* The first wg.Wait: every goroutine that sends has ended.                *)
AllSent(c) == \A b \in Bees : stage[c][b] \in {"hashed", "panicked"}

(* A check goroutine is started per hash; a null hash fails immediately.   *)
CheckStart(h) == IF h = NullHash THEN "failed" ELSE "polling"

StartChecks(c) ==
    /\ pc[c] = "sending"
    /\ AllSent(c)
    /\ pc' = [pc EXCEPT ![c] = "checking"]
    /\ stage' = [stage EXCEPT ![c] = [b \in Bees |->
                    IF @[b] = "hashed" THEN CheckStart(hash[c][b]) ELSE @[b]]]
    /\ UNCHANGED <<mut, gas, hash, pendingNonce, restarts, chain, acked, report>>

(* The wait time of checkTxStatus has gone by since its goroutine started. *)
WaitTimeElapses(c, b) ==
    /\ stage[c][b] = "polling"
    /\ To(c, b, "overdue")
    /\ UNCHANGED <<mut, pc, gas, hash, pendingNonce, restarts, chain, acked, report>>

(* TransactionByHash reports pend only for a transaction that the node     *)
(* holds; an error comes with pend = FALSE.                                *)
PollEndsLoop(t) == t \notin pool \/ "pollError" \in Faults

PollDone(c, b) ==
    /\ stage[c][b] \in {"polling", "overdue"}
    /\ PollEndsLoop(hash[c][b])
    /\ To(c, b, "receipt")
    /\ UNCHANGED <<mut, pc, gas, hash, pendingNonce, restarts, chain, acked, report>>

(* Still pending and past the wait time; before it, the loop just goes on. *)
PollTimesOut(c, b) ==
    /\ stage[c][b] = "overdue"
    /\ hash[c][b] \in pool
    /\ To(c, b, "timedOut")
    /\ UNCHANGED <<mut, pc, gas, hash, pendingNonce, restarts, chain, acked, report>>

(* Mutated form of StatusOk: any receipt is a success.                     *)
AnyStatus(r) == TRUE

(* receipt.Status == 1 *)
StatusOk(r) == r.status = 1

Confirmed(t) == \E r \in receipts : r.tx = t /\ StatusOk(r)

FetchReceipt(c, b) ==
    /\ stage[c][b] = "receipt"
    /\ \/ /\ Confirmed(hash[c][b])
          /\ To(c, b, "confirmed")
       \/ /\ ~Confirmed(hash[c][b]) \/ "receiptError" \in Faults
          /\ To(c, b, "failed")
    /\ UNCHANGED <<mut, pc, gas, hash, pendingNonce, restarts, chain, acked, report>>

(* The second wg.Wait, the log lines, and the deferred unlock.             *)
Return(c) ==
    /\ pc[c] = "checking"
    /\ \A b \in Bees : stage[c][b] \in EndStages
    /\ report' = [report EXCEPT ![c] =
                      IF \E b \in Bees : stage[c][b] = "confirmed" THEN "succeeded" ELSE "failed"]
    /\ pc' = [pc EXCEPT ![c] = "returned"]
    /\ mut' = Free
    /\ UNCHANGED <<gas, stage, hash, pendingNonce, restarts, chain, acked>>

(* The process dies and is started again: calls in progress are gone and   *)
(* newBees asks the node for every nonce.                                  *)
Restart ==
    /\ restarts < MaxRestarts
    /\ restarts' = restarts + 1
    /\ mut' = Free
    /\ pc' = [c \in Calls |-> IF pc[c] \in {"blocked", "sending", "checking"}
                              THEN "killed" ELSE pc[c]]
    /\ stage' = [c \in Calls |-> [b \in Bees |-> "none"]]
    /\ pendingNonce' = [b \in Bees |-> StartNonce(PendingNonceAt(b))]
    /\ acked' = {}
    /\ UNCHANGED <<gas, hash, chain, report>>

Goroutine(c, b) ==
    \/ Sign(c, b) \/ SendAccepted(c, b) \/ SendFailed(c, b) \/ Increment(c, b)
    \/ Panic(c, b) \/ WaitTimeElapses(c, b) \/ PollDone(c, b) \/ PollTimesOut(c, b)
    \/ FetchReceipt(c, b)

Snipe(c) == Lock(c) \/ StartChecks(c) \/ Return(c)

Chain == (\E t \in pool : Mine(t) \/ Drop(t)) \/ MineLiquidity \/ ConfigureOrder

Next ==
    \/ \E c \in Calls : Call(c) \/ Snipe(c) \/ \E b \in Bees : Goroutine(c, b)
    \/ Chain
    \/ Restart

Spec == Init /\ [][Next]_vars

-----------------------------------------------------------------------------
(***************************************************************************)
(* Type correctness of the state of Snipe, of the bees and of the node.    *)
(***************************************************************************)
TypeOK ==
    /\ mut \in Calls \cup {Free}
    /\ pc \in [Calls -> PcValues]
    /\ gas \in [Calls -> Gas]
    /\ stage \in [Calls -> [Bees -> Stages]]
    /\ hash \in [Calls -> [Bees -> Tx \cup {NullHash}]]
    /\ pendingNonce \in [Bees -> Nat]
    /\ restarts \in Nat
    /\ nonce \in [Bees -> Nat]
    /\ pool \subseteq Tx
    /\ receipts \subseteq [tx : Tx, status : {0, 1}, order : Nat]
    /\ liquidity \in BOOLEAN
    /\ phase \in Order!Phases
    /\ orders \in Nat
    /\ fills \in Nat
    /\ acked \subseteq [bee : Bees, nonce : Nat, call : Calls]
    /\ report \in [Calls -> {"none", "succeeded", "failed"}]

(***************************************************************************)
(* "Snipe is concurrently safe": whatever a goroutine does with a bee, it  *)
(* does it for the call that holds the mutex, so no two goroutines ever    *)
(* read and increment the same PendingNonce.                               *)
(***************************************************************************)
Working == SendStages \cup {"hashed"} \cup CheckStages

Serialized == \A c \in Calls, b \in Bees :
    stage[c][b] \in Working => mut = c /\ pc[c] \in {"sending", "checking"}

(***************************************************************************)
(* The barrier between the two halves of Snipe: no transaction is followed *)
(* while a goroutine of the same call has still to send its own.           *)
(***************************************************************************)
ChecksFollowSends == \A c \in Calls :
    (\E b \in Bees : stage[c][b] \in CheckStages) =>
        \A b \in Bees : stage[c][b] \notin SendStages

(***************************************************************************)
(* Within one run of the program a bee never gets two transactions         *)
(* accepted for the same nonce, so that no call of Snipe replaces the      *)
(* transaction of an earlier one, whatever errors lie between them.        *)
(***************************************************************************)
NoNonceReuse == \A x, y \in acked :
    x.bee = y.bee /\ x.nonce = y.nonce => x = y

(***************************************************************************)
(* "Sniping succeeded!" is logged only by a call one of whose own          *)
(* transactions was mined and bought the tokens.                           *)
(***************************************************************************)
ReportTruthful == \A c \in Calls :
    report[c] = "succeeded" =>
        \E r \in receipts : r.status = 1 /\ \E b \in Bees : r.tx = hash[c][b]

(***************************************************************************)
(* An order is bought once: of all the transactions that the calls, the    *)
(* bees and the runs of the program send, one succeeds per order.          *)
(***************************************************************************)
NoDoubleBuy == \A r, s \in receipts :
    r.status = 1 /\ s.status = 1 /\ r.order = s.order => r = s

(***************************************************************************)
(* No two calls claim one purchase: at any time at most as many calls have *)
(* reported a success as orders were filled.                               *)
(***************************************************************************)
SuccessesAreFills == Cardinality({c \in Calls : report[c] = "succeeded"}) <= fills

(* The counter of a bee, with the increment that is under way.             *)
InFlight(b) == \E c \in Calls : stage[c][b] = "acked"

Top(b) == IF InFlight(b) THEN pendingNonce[b] + 1 ELSE pendingNonce[b]

(* The counter is what the node would answer to PendingNonceAt.            *)
Synced(b) == Top(b) = PendingNonceAt(b)

(* The two things that can set them apart: the answer to a send that the   *)
(* node took is lost, and the node evicts a transaction of the bee.        *)
AnswerLost(b) == \E c \in Calls : SendFailed(c, b) /\ pool' # pool

Evicted(b) == \E t \in pool : t.bee = b /\ Drop(t)

(***************************************************************************)
(* As long as the node keeps what it accepts and its answers arrive, every *)
(* bee's counter is what the node would answer to PendingNonceAt.          *)
(***************************************************************************)
InSync == \A b \in Bees : Synced(b)

(***************************************************************************)
(* A bee whose counter fell behind the chain, or that left a gap in the    *)
(* pool, can have no further transaction mined: nothing Snipe does repairs *)
(* the counter, only a restart of the program does.                        *)
(***************************************************************************)
Behind(b) == pendingNonce[b] < nonce[b] /\ \A c \in Calls : stage[c][b] # "acked"

Gap(b) == \E m \in nonce[b] .. pendingNonce[b] - 1 :
    \A p \in pool : p.bee # b \/ p.nonce # m

StrandedUntilRestart == [][\A b \in Bees :
    Behind(b) \/ Gap(b) => Behind(b)' \/ Gap(b)' \/ restarts' # restarts]_vars

(***************************************************************************)
(* README: the swarm clogs the mempool "with our own txs executing the     *)
(* trigger".  A transaction the node accepted can be executed once the     *)
(* ones before it are, it does not wait behind a nonce nobody will use.    *)
(***************************************************************************)
PooledIsExecutable == \A t \in pool : Executable(t)

(***************************************************************************)
(* "fail fast after waittime": the status check gives up on a transaction  *)
(* the node still holds only when the wait time is over.                   *)
(***************************************************************************)
GivesUpAfterWaitTime == \A c \in Calls, b \in Bees :
    stage[c][b] = "failed" /\ hash[c][b] # NullHash => hash[c][b] \notin pool
=============================================================================
