--------------------------- MODULE ClusteredEngine ---------------------------
(***************************************************************************)
(* Engine with the cluster of clients behind its controllers, as main puts *)
(* them together: consumeBlocking gives each event a load balanced context *)
(* (e.middle) before the controller asks for it, and a retry goes on with  *)
(* a context derived from that one.  What the node of Engine knows of an   *)
(* event is what the event's own delegate knows.  The balance a strategy   *)
(* decides by is the exception: it is asked for without a context, and so  *)
(* of the first delegate, whichever the event's own is.                    *)
(***************************************************************************)
EXTENDS Engine

CONSTANTS N, Word, Earlier, NoNumber

VARIABLES count, inside, seen, number, served, wraps

C == INSTANCE Cluster WITH Users <- Events

ASSUME ClusteredAssumption == C!ClusterAssumption

cluster == <<count, inside, seen, number, served, wraps>>
cvars == <<vars, cluster>>

CInit == Init /\ C!Init

(* e.middle(ctx), by the worker that has taken the event.                  *)
Middle(e) ==
    /\ Running
    /\ at[e] = "looking" /\ by[e] # Timer
    /\ C!Lock(e) \/ C!Decorate(e)
    /\ UNCHANGED vars

(* Mutated form of RetryContext: the retry takes a context of its own.     *)
ContextOfItsOwn(e) == [number EXCEPT ![e] = C!Incremented(@)]

(* context.WithValue on the context of the event keeps its number.         *)
RetryContext(e) == number

Looks(e) ==
    \/ /\ C!Query(e, {"own"})
       /\ NotFound(e) \/ Failed(e) \/ Confirmed(e) \/ Found(e)
    \/ /\ Fire(e)
       /\ number' = RetryContext(e)
       /\ UNCHANGED <<count, inside, seen, served, wraps>>

(* What the node does with an event it is not going to be asked for any    *)
(* more is left out.                                                       *)
NodeStep(e) ==
    /\ at[e] \in Progress \ {"handling"}
    /\ Learn(e) \/ Leave(e)
    /\ UNCHANGED cluster

(* A strategy ends, well or in a panic, before it asks for the balance of  *)
(* the sender (BalanceOf without options), after that, or after Snipe has  *)
(* sent and polled with the context of the event.                          *)
Strategy(e) ==
    /\ Classify(e) \/ Panic(e)
    /\ IF Kind(e) = "addition"
       THEN \E used \in {{}, {"background"}, {"background", "own"}} : C!Query(e, used)
       ELSE UNCHANGED cluster

Others(e) ==
    /\ Notify(e) \/ Miss(e) \/ Finish(e)
    /\ UNCHANGED cluster

CNext ==
    \/ \E e \in Streamed : NodeStep(e) \/ Middle(e) \/ Looks(e) \/ Strategy(e) \/ Others(e)
    \/ /\ (\E w \in Workers : Take(w) \/ Stop(w)) \/ LoseSubscription \/ Resubscribe
       /\ UNCHANGED cluster

CSpec == CInit /\ [][CNext]_cvars

(* The fairness of Engine, and a mutex that is handed on.  Events are      *)
(* taken and workers stopped finitely often.                               *)
CFairness ==
    /\ \A e \in Events : WF_cvars(Middle(e) \/ Looks(e) \/ Strategy(e)
                                    \/ (Finish(e) /\ UNCHANGED cluster))
    /\ \A e \in Blocks : WF_cvars(NodeStep(e))
    /\ WF_cvars((Resubscribe \/ \E w \in Workers : Take(w) \/ Stop(w)) /\ UNCHANGED cluster)

CFairSpec == CSpec /\ CFairness

-----------------------------------------------------------------------------
(***************************************************************************)
(* "We would get race condition issues because one node has info that      *)
(* another one hasn't yet": every lookup of an event, by its worker and by *)
(* its timers, and every send and poll made for it, goes to the same       *)
(* delegate, however many other events got their contexts in between.  Of  *)
(* the balances, asked for without a context, it says nothing.             *)
(***************************************************************************)
StickyDelegate == C!StickyDelegate

(***************************************************************************)
(* Workers that take events at the same time get different numbers, and    *)
(* spread the events evenly, up to the overflows of the counter.           *)
(***************************************************************************)
Balanced == C!Balanced
=============================================================================
