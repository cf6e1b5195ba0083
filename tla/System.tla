------------------------------- MODULE System -------------------------------
(***************************************************************************)
(* The running program: the engine and its controllers (Engine) with the   *)
(* swarm behind them (Sniper).  A goroutine of the engine that reaches a   *)
(* liquidity addition may call Snipe, and goes on when the call returns;   *)
(* meanwhile it is a worker less, or a timer's goroutine that the engine   *)
(* does not wait for.  Snipe runs with the context of the engine: what the *)
(* calls ask the node may fail at any time, with the answer to a send lost *)
(* or not, and when a panic has cancelled the context it does.             *)
(*                                                                         *)
(* The variables are those of the two components; the calls of Snipe are   *)
(* named by the transaction they are made for.                             *)
(***************************************************************************)
EXTENDS Naturals, Sequences, FiniteSets

CONSTANTS
    Hashes, Blocks, Content, Workers, Modes, MaxRetries, Panics, MaxLosses,
    Bees, Gas, InitialNonces, Faults, MaxOrders, MaxRestarts, Free, NullHash

VARIABLES
    mode, ch, worker, at, by, times, pos, cancelled, crashed, subscription,
    node, losses, lookups, monitored, offered,
    mut, pc, gas, stage, hash, pendingNonce, restarts, nonce, pool, receipts,
    liquidity, phase, orders, fills, acked, report

engine == <<mode, ch, worker, at, by, times, pos, cancelled, crashed, subscription,
            node, losses, lookups, monitored, offered>>
swarm == <<mut, pc, gas, stage, hash, pendingNonce, restarts, nonce, pool, receipts,
           liquidity, phase, orders, fills, acked, report>>
vars == <<engine, swarm>>

E == INSTANCE Engine

(* The additions there are, by event and position.                         *)
Additions == {a \in E!Events \X (1 .. 3) :
                  a[2] \in DOMAIN Content[a[1]] /\ Content[a[1]][a[2]] = "addition"}

S == INSTANCE Sniper WITH Calls <- Additions

ASSUME SystemAssumption ==
    /\ E!EngineAssumption
    /\ S!ConstantsAssumption
    /\ \A e \in E!Events : Len(Content[e]) <= 3
    /\ {"sendError", "lostReply", "pollError", "receiptError"} \subseteq Faults

(* What the node knows at first it may as well learn before it is asked.   *)
Init == E!Init /\ S!Init /\ \A e \in E!Events : node[e] = "unknown"

(* The addition an event is at.                                            *)
Addition(e) == <<e, pos[e]>>

AtAddition(e) == E!Classifying(e) /\ E!Kind(e) = "addition"

-----------------------------------------------------------------------------
(* The strategy accepts the addition and calls Snipe.                      *)
Accept(e) ==
    /\ AtAddition(e)
    /\ S!Call(Addition(e))
    /\ UNCHANGED engine

(* Mutated form of Resumes: go sniper.Snipe(...)                           *)
DoesNotWait(e) == pc[Addition(e)] # "idle"

(* Snipe is called without go: the goroutine waits for it.                 *)
Resumes(e) == pc[Addition(e)] = "returned"

(* The strategy has declined or failed, or Snipe has returned; or there    *)
(* was no strategy for the transaction.                                    *)
Classify(e) ==
    /\ E!Classify(e)
    /\ AtAddition(e) => pc[Addition(e)] = "idle" \/ Resumes(e)
    /\ UNCHANGED swarm

(* A strategy panics before it has called Snipe.                           *)
Panic(e) ==
    /\ E!Panic(e)
    /\ pc[Addition(e)] = "idle"
    /\ UNCHANGED swarm

(* The client panics while Snipe logs a success: the deferred unlock runs  *)
(* on the way out.                                                         *)
PanicInReport(e) ==
    /\ AtAddition(e)
    /\ S!Return(Addition(e))
    /\ report'[Addition(e)] = "succeeded"
    /\ E!Panic(e)

(* What the node knows of an event matters when it is asked: what it does  *)
(* before the first query, or after the last one, is left out.             *)
NodeStep(e) ==
    /\ at[e] \in {"looking", "waiting"}
    /\ E!Learn(e) \/ E!Leave(e)
    /\ UNCHANGED swarm

(* What the engine does without the swarm.                                 *)
EngineOnly ==
    /\ \/ \E e \in E!Streamed :
             \/ E!Notify(e) \/ E!Miss(e)
             \/ E!NotFound(e) \/ E!Fire(e) \/ E!Failed(e) \/ E!Confirmed(e) \/ E!Found(e)
             \/ E!Finish(e)
       \/ \E w \in Workers : E!Take(w) \/ E!Stop(w)
       \/ E!LoseSubscription \/ E!Resubscribe
    /\ UNCHANGED swarm

(* The goroutines of Snipe live as long as the process.                    *)
Goroutine(c, b) ==
    /\ E!Running
    /\ S!Goroutine(c, b)
    /\ UNCHANGED engine

Snipe(c) ==
    /\ E!Running
    /\ S!Snipe(c)
    /\ UNCHANGED engine

SwarmStep == \E c \in Additions : Snipe(c) \/ \E b \in Bees : Goroutine(c, b)

Chain == S!Chain /\ UNCHANGED engine

Next ==
    \/ \E e \in E!Streamed : NodeStep(e) \/ Accept(e) \/ Classify(e) \/ Panic(e) \/ PanicInReport(e)
    \/ EngineOnly
    \/ SwarmStep
    \/ Chain

Spec == Init /\ [][Next]_vars

(***************************************************************************)
(* As in the components, goroutines are scheduled, timers fire, the node   *)
(* answers and comes to know its blocks.  After that the goroutines have   *)
(* only finitely many steps left, so that it is enough if the scheduler is *)
(* fair to all of them together.  Nothing is assumed of the chain, nor of  *)
(* further notifications.                                                  *)
(***************************************************************************)
Handles(e) ==
    \/ (E!NotFound(e) \/ E!Fire(e) \/ E!Failed(e) \/ E!Confirmed(e) \/ E!Found(e) \/ E!Finish(e))
           /\ UNCHANGED swarm
    \/ Accept(e) \/ Classify(e) \/ Panic(e) \/ PanicInReport(e)

Program ==
    \/ \E e \in E!Streamed : Handles(e)
    \/ (E!Resubscribe \/ \E w \in Workers : E!Take(w) \/ E!Stop(w)) /\ UNCHANGED swarm
    \/ SwarmStep

Fairness ==
    /\ WF_vars(Program)
    /\ WF_vars(\E e \in Blocks : NodeStep(e))

FairSpec == Spec /\ Fairness

-----------------------------------------------------------------------------
InProgress(c) == pc[c] \in {"blocked", "sending", "checking"}

(***************************************************************************)
(* One event, one addition, one call: the goroutine that has an event is   *)
(* in at most one call of Snipe, for the addition it is at, and no call is *)
(* in progress that nobody waits for.                                      *)
(***************************************************************************)
CallsAreWaitedFor == \A c \in Additions :
    InProgress(c) => at[c[1]] = "handling" /\ pos[c[1]] = c[2]

(***************************************************************************)
(* "if a worker panics we stop everything": Run waits for the workers, so  *)
(* that the end of the program cuts no call of theirs short; those of the  *)
(* timers' goroutines it does not wait for.                                *)
(***************************************************************************)
EndCutsNoWorkerShort == \A c \in Additions :
    InProgress(c) /\ E!Returned /\ ~crashed => by[c[1]] = E!Timer

(***************************************************************************)
(* A bee whose counter is what the node would answer keeps it so in every  *)
(* call of Snipe, whoever makes it and however it ends: sends that are     *)
(* refused, polls that fail, panics and the end of the context cost no bee *)
(* its counter.  Only two things do: the answer to one of its sends is     *)
(* lost, or the node evicts one of its transactions.                       *)
(***************************************************************************)
OnlyLossDesyncs == [][\A b \in Bees :
    S!Synced(b) => S!Synced(b)' \/ S!AnswerLost(b) \/ S!Evicted(b)]_vars

(***************************************************************************)
(* All workers may be inside Snipe, waiting for its mutex, with the        *)
(* channel full behind them: the calls return, and whatever is in the      *)
(* channel is taken out and settled, unless the program ends first.        *)
(***************************************************************************)
AtRest(e) == at[e] \in E!Outcomes \cup {"unseen"}

EverythingSettles == <>[](~E!Running \/ \A e \in E!Events : AtRest(e))

(***************************************************************************)
(* A panic stops the engine although other workers are inside Snipe.       *)
(***************************************************************************)
StopsEverything == E!StopsEverything
=============================================================================
