------------------------------- MODULE Engine -------------------------------
(***************************************************************************)
(* cmd/ax-50/engine.go with the controller it runs, PendingTransaction or  *)
(* Block of pkg/controller, and TransactionClassifier of pkg/usecase: from *)
(* a notification of the node to the strategy that may snipe.              *)
(*                                                                         *)
(* The node notifies an event once: a transaction hash or a block number.  *)
(* One goroutine at a time works on it, a worker of the engine first and,  *)
(* when the node does not know the event yet, one that a timer starts.     *)
(***************************************************************************)
EXTENDS Naturals, Sequences, FiniteSets

CONSTANTS
    Hashes,     \* transactions the node may notify of
    Blocks,     \* blocks it may notify of
    Content,    \* the transactions of each: their kinds, in order
    Workers,    \* goroutines that consume the channel
    Modes,      \* modes the program may be run in
    MaxRetries, \* pendingTransactionNotFoundMaxRetries
    Panics,     \* whether a strategy may panic
    MaxLosses   \* bound: subscriptions lost

Kinds == {"deploy", "addition", "other"}

Events == Hashes \cup Blocks

(* Stands for the goroutine of a timer where a worker might be.            *)
Timer == "timer"

ASSUME EngineAssumption ==
    /\ IsFiniteSet(Workers) /\ Workers # {} /\ Timer \notin Workers
    /\ Content \in [Events -> Seq(Kinds)]
    /\ \A h \in Hashes : Len(Content[h]) = 1
    /\ Modes \subseteq {"pending_txs", "new_blocks"}
    /\ MaxRetries \in Nat /\ MaxLosses \in Nat
    /\ Panics \in BOOLEAN

VARIABLES
    mode,           \* conf.Sniper.Mode, read when the program starts
    ch,             \* the channel, as long as there are workers
    worker,         \* of each worker: "idle", "busy" or "stopped"
    at,             \* how far each event is
    by,             \* the worker that has it, or Timer
    times,          \* retries so far, in the context of the event
    pos,            \* transaction of the event that is next
    cancelled,      \* the context of Run
    crashed,        \* a panic nobody recovered ended the process
    subscription,   \* "live", "lost" or "gone"
    node,           \* external: what the node knows of an event
    losses,         \* subscriptions lost so far
    lookups,        \* history: queries for each transaction
    monitored,      \* history: transactions passed to the monitors
    offered         \* history: transactions passed to a strategy

program == <<mode, ch, worker, at, by, times, pos, cancelled, crashed, subscription>>
history == <<lookups, monitored, offered>>
vars == <<program, node, losses, history>>

(* What the engine subscribes to.                                          *)
Streamed == IF mode = "pending_txs" THEN Hashes ELSE Blocks

(* Queued is in the channel, looking asks the node, waiting has a timer;   *)
(* the last line is where an event comes to rest.                          *)
Progress == {"unseen", "queued", "looking", "waiting", "handling"}
Outcomes == {"handled", "missed", "not_found", "confirmed", "error", "panicked"}

Init ==
    /\ mode \in Modes
    /\ ch = <<>>
    /\ worker = [w \in Workers |-> "idle"]
    /\ at = [e \in Events |-> "unseen"]
    /\ by = [e \in Events |-> Timer]
    /\ times = [e \in Events |-> 0]
    /\ pos = [e \in Events |-> 1]
    /\ cancelled = FALSE
    /\ crashed = FALSE
    /\ subscription = "live"
    /\ node \in [Events -> {"unknown", "known"}]
    /\ \A e \in Events \ Streamed : node[e] = "unknown"
    /\ losses = 0
    /\ lookups = [e \in Events |-> 0]
    /\ monitored = {}
    /\ offered = {}

(***************************************************************************)
(* The node: it learns of what it notifies, sooner or later; a transaction *)
(* is mined or dropped.                                                    *)
(***************************************************************************)
Learn(e) ==
    /\ node[e] = "unknown"
    /\ node' = [node EXCEPT ![e] = "known"]
    /\ UNCHANGED <<program, losses, history>>

Leave(e) ==
    /\ e \in Hashes
    /\ node[e] = "known"
    /\ \E s \in {"mined", "dropped"} : node' = [node EXCEPT ![e] = s]
    /\ UNCHANGED <<program, losses, history>>

(* Mutated form of Returned: the wait group counts to one.                 *)
AnyStopped == \E w \in Workers : worker[w] = "stopped"

(* Run has returned, and with it main.                                     *)
Returned == \A w \in Workers : worker[w] = "stopped"

Running == ~crashed /\ ~Returned

(* A notification enters the channel if it has room; the client keeps what *)
(* has not, and ends the subscription when it becomes too much.            *)
Notify(e) ==
    /\ Running
    /\ subscription = "live"
    /\ at[e] = "unseen"
    /\ Len(ch) < Cardinality(Workers)
    /\ ch' = Append(ch, e)
    /\ at' = [at EXCEPT ![e] = "queued"]
    /\ UNCHANGED <<mode, worker, by, times, pos, cancelled, crashed, subscription, node, losses, history>>

LoseSubscription ==
    /\ Running
    /\ losses < MaxLosses
    /\ subscription = "live"
    /\ subscription' = "lost"
    /\ losses' = losses + 1
    /\ UNCHANGED <<mode, ch, worker, at, by, times, pos, cancelled, crashed, node, history>>

(* What the node notified in the meantime is not notified again.           *)
Miss(e) ==
    /\ Running
    /\ subscription # "live"
    /\ at[e] = "unseen"
    /\ at' = [at EXCEPT ![e] = "missed"]
    /\ UNCHANGED <<mode, ch, worker, by, times, pos, cancelled, crashed, subscription, node, losses, history>>

(***************************************************************************)
(* subscribeSafe on an error of the subscription: subscribe anew, or panic *)
(* and have the panic recovered by cancelling everything.                  *)
(***************************************************************************)
Resubscribe ==
    /\ Running
    /\ subscription = "lost"
    /\ \/ subscription' = "live" /\ UNCHANGED cancelled
       \/ subscription' = "gone" /\ cancelled' = TRUE
    /\ UNCHANGED <<mode, ch, worker, at, by, times, pos, crashed, node, losses, history>>

(***************************************************************************)
(* The workers.                                                            *)
(***************************************************************************)
Take(w) ==
    /\ worker[w] = "idle"
    /\ ~crashed
    /\ ch # <<>>
    /\ ch' = Tail(ch)
    /\ worker' = [worker EXCEPT ![w] = "busy"]
    /\ at' = [at EXCEPT ![Head(ch)] = "looking"]
    /\ by' = [by EXCEPT ![Head(ch)] = w]
    /\ UNCHANGED <<mode, times, pos, cancelled, crashed, subscription, node, losses, history>>

Stop(w) ==
    /\ worker[w] = "idle"
    /\ ~crashed
    /\ cancelled
    /\ worker' = [worker EXCEPT ![w] = "stopped"]
    /\ UNCHANGED <<mode, ch, at, by, times, pos, cancelled, crashed, subscription, node, losses, history>>

(* Mutated form of Release: the worker sleeps until it looks again.        *)
KeepsWorker(e) == worker

(* The worker that had the event is free again.                            *)
Release(e) == IF by[e] = Timer THEN worker ELSE [worker EXCEPT ![by[e]] = "idle"]

(* The event leaves the goroutine for state s.                             *)
Leaves(e, s) ==
    /\ at' = [at EXCEPT ![e] = s]
    /\ worker' = Release(e)
    /\ by' = [by EXCEPT ![e] = Timer]
    /\ UNCHANGED <<mode, ch, pos, cancelled, crashed, subscription, node, losses, monitored, offered>>

(* A query for the event is answered.  Those for blocks are not counted.   *)
Answered(e) ==
    /\ Running
    /\ at[e] = "looking"
    /\ lookups' = IF e \in Hashes THEN [lookups EXCEPT ![e] = @ + 1] ELSE lookups

(* Mutated forms of MayRetry: the deadline one too late, and a block that  *)
(* is not found is not retried.                                            *)
RetriesOnceMore(e) == e \in Hashes => times[e] <= MaxRetries

TransactionsOnly(e) == e \in Hashes /\ times[e] < MaxRetries

(* A transaction is retried until its deadline, a block for ever.          *)
MayRetry(e) == e \in Hashes => times[e] < MaxRetries

(* Mutated form of Counted: the retry goes on with the old context.        *)
OldContext(e) == times[e]

(* newContextForRetries counts in the context of a transaction only.       *)
Counted(e) == IF e \in Hashes THEN times[e] + 1 ELSE times[e]

NotFound(e) ==
    /\ Answered(e)
    /\ node[e] \in {"unknown", "dropped"}
    /\ IF MayRetry(e)
       THEN /\ times' = [times EXCEPT ![e] = Counted(e)]
            /\ Leaves(e, "waiting")
       ELSE /\ Leaves(e, "not_found")
            /\ UNCHANGED times

(* time.AfterFunc: the controller runs in a goroutine of its own.          *)
Fire(e) ==
    /\ Running
    /\ at[e] = "waiting"
    /\ at' = [at EXCEPT ![e] = "looking"]
    /\ UNCHANGED <<mode, ch, worker, by, times, pos, cancelled, crashed, subscription, node, losses, history>>

Failed(e) ==
    /\ Answered(e)
    /\ Leaves(e, "error")
    /\ UNCHANGED times

(* A transaction that is in a block already is not sniped.                 *)
Confirmed(e) ==
    /\ Answered(e)
    /\ node[e] = "mined"
    /\ Leaves(e, "confirmed")
    /\ UNCHANGED times

Found(e) ==
    /\ Answered(e)
    /\ node[e] = "known"
    /\ at' = [at EXCEPT ![e] = "handling"]
    /\ UNCHANGED <<mode, ch, worker, by, times, pos, cancelled, crashed, subscription, node, losses,
                   monitored, offered>>

(***************************************************************************)
(* Classify, for the transactions of an event in their order.              *)
(***************************************************************************)
Classifying(e) ==
    /\ Running
    /\ at[e] = "handling"
    /\ pos[e] <= Len(Content[e])

Kind(e) == Content[e][pos[e]]

(* Mutated form of AfterError: the rest of the block is given up.          *)
Abandon(e) == Len(Content[e]) + 1

(* An error is kept, and the next transaction is classified.               *)
AfterError(e) == pos[e] + 1

Classify(e) ==
    /\ Classifying(e)
    /\ monitored' = IF Kind(e) = "deploy" THEN monitored ELSE monitored \cup {<<e, pos[e]>>}
    /\ offered' = IF Kind(e) = "addition" THEN offered \cup {<<e, pos[e]>>} ELSE offered
    /\ \E next \in {pos[e] + 1} \cup (IF Kind(e) = "addition" THEN {AfterError(e)} ELSE {}) :
          pos' = [pos EXCEPT ![e] = next]
    /\ UNCHANGED <<mode, ch, worker, at, by, times, cancelled, crashed, subscription, node, losses, lookups>>

(* Mutated form of Recovered: the panic is recovered and nothing stopped.  *)
Forgiven == cancelled

(* defer recovery(canc)                                                    *)
Recovered == TRUE

(* A strategy panics: a worker cancels everything on its way out, in a     *)
(* timer's goroutine nobody recovers.                                      *)
Panic(e) ==
    /\ Panics
    /\ Classifying(e)
    /\ Kind(e) = "addition"
    /\ monitored' = monitored \cup {<<e, pos[e]>>}
    /\ offered' = offered \cup {<<e, pos[e]>>}
    /\ at' = [at EXCEPT ![e] = "panicked"]
    /\ IF by[e] = Timer
       THEN crashed' = TRUE /\ UNCHANGED <<worker, cancelled>>
       ELSE /\ worker' = [worker EXCEPT ![by[e]] = "stopped"]
            /\ cancelled' = Recovered
            /\ UNCHANGED crashed
    /\ UNCHANGED <<mode, ch, by, times, pos, subscription, node, losses, lookups>>

Finish(e) ==
    /\ Running
    /\ at[e] = "handling"
    /\ pos[e] > Len(Content[e])
    /\ Leaves(e, "handled")
    /\ UNCHANGED <<times, lookups>>

Controller(e) ==
    \/ NotFound(e) \/ Fire(e) \/ Failed(e) \/ Confirmed(e) \/ Found(e)
    \/ Classify(e) \/ Panic(e) \/ Finish(e)

Next ==
    \/ \E e \in Streamed : Learn(e) \/ Leave(e) \/ Notify(e) \/ Miss(e) \/ Controller(e)
    \/ \E w \in Workers : Take(w) \/ Stop(w)
    \/ LoseSubscription \/ Resubscribe

Spec == Init /\ [][Next]_vars

(***************************************************************************)
(* Goroutines are scheduled, queries answered and timers fire; the node    *)
(* comes to know its blocks.                                               *)
(***************************************************************************)
Fairness ==
    /\ \A e \in Events : WF_vars(Controller(e))
    /\ \A e \in Blocks : WF_vars(Learn(e))
    /\ \A w \in Workers : WF_vars(Take(w) \/ Stop(w))
    /\ WF_vars(Resubscribe)

FairSpec == Spec /\ Fairness

-----------------------------------------------------------------------------
(***************************************************************************)
(* Type correctness; the channel is as long as there are workers and the   *)
(* retries of a hash are counted up to their maximum.                      *)
(***************************************************************************)
TypeOK ==
    /\ mode \in Modes
    /\ ch \in Seq(Events) /\ Len(ch) <= Cardinality(Workers)
    /\ worker \in [Workers -> {"idle", "busy", "stopped"}]
    /\ at \in [Events -> Progress \cup Outcomes]
    /\ by \in [Events -> Workers \cup {Timer}]
    /\ times \in [Events -> 0 .. MaxRetries]
    /\ pos \in [Events -> Nat]
    /\ {cancelled, crashed} \subseteq BOOLEAN
    /\ subscription \in {"live", "lost", "gone"}
    /\ node \in [Events -> {"unknown", "known", "mined", "dropped"}]
    /\ losses \in Nat
    /\ lookups \in [Events -> Nat]
    /\ monitored \subseteq Events \X Nat
    /\ offered \subseteq Events \X Nat

InHand == {"looking", "handling"}

(***************************************************************************)
(* Every busy worker is busy with one event and no event is in two hands:  *)
(* neither a retry nor a panic leaks a worker.                             *)
(***************************************************************************)
NoWorkerLeaks == \A w \in Workers :
    worker[w] = "busy" <=> Cardinality({e \in Events : by[e] = w /\ at[e] \in InHand}) = 1

(***************************************************************************)
(* "we don't retry forever and have a deadline": a hash is looked up at    *)
(* most three times, by the worker and by the retries together.            *)
(***************************************************************************)
LookupsAreBounded == \A e \in Hashes : lookups[e] <= MaxRetries + 1

(***************************************************************************)
(* A block that was handled has had every transaction classified, whatever *)
(* the strategies made of those before: every addition in it was offered,  *)
(* and whatever was offered was monitored.                                 *)
(***************************************************************************)
NothingSkipped == \A e \in Events :
    at[e] = "handled" => \A i \in 1 .. Len(Content[e]) :
        /\ Content[e][i] = "addition" => <<e, i>> \in offered
        /\ Content[e][i] # "deploy" => <<e, i>> \in monitored

(***************************************************************************)
(* "if a worker panics we stop everything": after a panic in a worker or   *)
(* in the resubscription, every worker stops and Run returns, busy or      *)
(* idle, channel empty or not.                                             *)
(***************************************************************************)
StopsEverything ==
    cancelled \/ (\E e \in Events : at[e] = "panicked") ~> Returned \/ crashed

(***************************************************************************)
(* "retry block forever with delay, all blocks should exist": what got     *)
(* into the channel is settled in the end, as long as the engine runs, and *)
(* a block is never given up as not found.                                 *)
(***************************************************************************)
EventsSettle == \A e \in Events :
    at[e] = "queued" ~> \/ at[e] \in Outcomes \ {"not_found"}
                        \/ e \in Hashes /\ at[e] = "not_found"
                        \/ cancelled \/ crashed
=============================================================================
