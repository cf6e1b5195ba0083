---------------------------- MODULE SystemProofs ----------------------------
(***************************************************************************)
(* The running program implements both of its components: whatever is      *)
(* proved of Engine and of Sniper holds of them together, for any number   *)
(* of workers, events, retries, bees and faults.  What relates the two is  *)
(* proved from there.                                                      *)
(***************************************************************************)
EXTENDS System, Integers, TLAPS

(* The program has one client: a cluster of one delegate, without numbers. *)
EP == INSTANCE EngineProofs WITH
          N <- 1, Word <- 2, Earlier <- {1}, NoNumber <- -1,
          count <- 0, inside <- {}, seen <- [e \in E!Events |-> 0],
          number <- [e \in E!Events |-> -1], served <- {}, wraps <- 0

SP == INSTANCE SniperProofs WITH Calls <- Additions

-----------------------------------------------------------------------------
(***************************************************************************)
(* The assumptions of the two components are among those of the system.    *)
(***************************************************************************)
LEMMA EngineAssumed == EP!EngineAssumption
BY SystemAssumption
   DEF EP!IsFiniteSet, EP!Kinds, EP!Timer, EP!Events, E!IsFiniteSet, E!Kinds, E!Timer, E!Events

LEMMA ClusterAssumed == EP!ClusteredAssumption
BY DEF EP!ClusteredAssumption, EP!C!ClusterAssumption

LEMMA SniperAssumed == SP!ConstantsAssumption
BY SystemAssumption DEF SP!FaultKinds, SP!Tx, S!FaultKinds, S!Tx

(***************************************************************************)
(* EngineProofs and SniperProofs speak of the Engine and the Sniper that   *)
(* the system is made of.                                                  *)
(***************************************************************************)
LEMMA SameController ==
    ASSUME NEW e
    PROVE  E!Controller(e) <=> EP!Controller(e)
BY DEF E!Controller, E!NotFound, E!Fire, E!Failed, E!Confirmed, E!Found, E!Classify, E!Panic,
       E!Finish, E!Answered, E!Leaves, E!Release, E!Timer, E!Running, E!Returned, E!MayRetry,
       E!Counted, E!Classifying, E!Kind, E!AfterError, E!Recovered, E!history,
       EP!Controller, EP!NotFound, EP!Fire, EP!Failed, EP!Confirmed, EP!Found, EP!Classify,
       EP!Panic, EP!Finish, EP!Answered, EP!Leaves, EP!Release, EP!Timer, EP!Running,
       EP!Returned, EP!MayRetry, EP!Counted, EP!Classifying, EP!Kind, EP!AfterError,
       EP!Recovered, EP!history

LEMMA SameEngine == E!Spec <=> EP!Spec
<1>1. E!Init <=> EP!Init
    BY DEF E!Init, E!Events, E!Streamed, E!Timer, EP!Init, EP!Events, EP!Streamed, EP!Timer
<1>2. E!Next <=> EP!Next
    BY SameController
    DEF E!Next, E!Learn, E!Leave, E!Notify, E!Miss, E!Take, E!Stop, E!LoseSubscription,
        E!Resubscribe, E!Running, E!Returned, E!history, E!program, E!Streamed, E!Cardinality,
        EP!Next, EP!Learn, EP!Leave, EP!Notify, EP!Miss, EP!Take, EP!Stop, EP!LoseSubscription,
        EP!Resubscribe, EP!Running, EP!Returned, EP!history, EP!program, EP!Streamed,
        EP!Cardinality
<1>3. UNCHANGED E!vars <=> UNCHANGED EP!vars
    BY DEF E!vars, E!program, E!history, EP!vars, EP!program, EP!history
<1>4. [E!Next]_E!vars <=> [EP!Next]_EP!vars
    BY <1>2, <1>3
<1>. QED
    BY <1>1, <1>4, PTL DEF E!Spec, EP!Spec

LEMMA SameChain == S!Chain <=> SP!Chain
BY DEF S!Chain, S!Mine, S!Drop, S!MineLiquidity, S!ConfigureOrder, S!Receipt, S!swarm, S!order,
       S!Order!Fill, S!Order!Arm,
       SP!Chain, SP!Mine, SP!Drop, SP!MineLiquidity, SP!ConfigureOrder, SP!Receipt, SP!swarm,
       SP!order, SP!Order!Fill, SP!Order!Arm

LEMMA SameGoroutine ==
    ASSUME NEW c, NEW b
    PROVE  S!Goroutine(c, b) <=> SP!Goroutine(c, b)
BY DEF S!Goroutine, S!Sign, S!SendAccepted, S!SendFailed, S!Increment, S!Panic,
       S!WaitTimeElapses, S!PollDone, S!PollTimesOut, S!FetchReceipt, S!To, S!Accepts, S!Rival,
       S!PoolWith, S!AfterFailedSend, S!AfterSend, S!PollEndsLoop, S!Confirmed, S!StatusOk,
       S!chain, S!order,
       SP!Goroutine, SP!Sign, SP!SendAccepted, SP!SendFailed, SP!Increment, SP!Panic,
       SP!WaitTimeElapses, SP!PollDone, SP!PollTimesOut, SP!FetchReceipt, SP!To, SP!Accepts,
       SP!Rival, SP!PoolWith, SP!AfterFailedSend, SP!AfterSend, SP!PollEndsLoop, SP!Confirmed,
       SP!StatusOk, SP!chain, SP!order

LEMMA SameSnipe ==
    ASSUME NEW c
    PROVE  (S!Call(c) <=> SP!Call(c)) /\ (S!Snipe(c) <=> SP!Snipe(c))
BY DEF S!Call, S!Snipe, S!Lock, S!StartChecks, S!Return, S!MutexAvailable, S!AllSent,
       S!CheckStart, S!EndStages, S!chain, S!order,
       SP!Call, SP!Snipe, SP!Lock, SP!StartChecks, SP!Return, SP!MutexAvailable, SP!AllSent,
       SP!CheckStart, SP!EndStages, SP!chain, SP!order

LEMMA SameSwarmStep == [S!Next]_S!vars <=> [SP!Next]_SP!vars
<1>1. S!Restart <=> SP!Restart
    BY DEF S!Restart, S!StartNonce, S!PendingNonceAt, S!Executable, S!chain, S!order, S!Cardinality,
           SP!Restart, SP!StartNonce, SP!PendingNonceAt, SP!Executable, SP!chain, SP!order,
           SP!Cardinality
<1>2. S!Next <=> SP!Next
    BY <1>1, SameChain, SameGoroutine, SameSnipe DEF S!Next, SP!Next
<1>3. UNCHANGED S!vars <=> UNCHANGED SP!vars
    BY DEF S!vars, S!swarm, S!chain, S!order, SP!vars, SP!swarm, SP!chain, SP!order
<1>. QED
    BY <1>2, <1>3

LEMMA SameSwarmInit == S!Init <=> SP!Init
BY DEF S!Init, S!StartNonce, S!Order!Init, SP!Init, SP!StartNonce, SP!Order!Init

LEMMA SameSwarm == S!Spec <=> SP!Spec
BY SameSwarmInit, SameSwarmStep, PTL DEF S!Spec, SP!Spec

-----------------------------------------------------------------------------
(***************************************************************************)
(* The engine of the system is Engine: calling Snipe and waiting for it    *)
(* adds guards to what its goroutines do, and stutters in between.         *)
(***************************************************************************)
THEOREM EngineImplemented == Spec => E!Spec
<1>1. Init => E!Init
    BY DEF Init
<1>2. [Next]_vars => [E!Next]_E!vars
    <2>. SUFFICES ASSUME [Next]_vars PROVE E!Next \/ UNCHANGED E!vars
        OBVIOUS
    <2>1. ASSUME NEW e \in E!Streamed, NodeStep(e) PROVE E!Next
        BY <2>1 DEF NodeStep, E!Next
    <2>2. ASSUME NEW e \in E!Streamed, Classify(e) \/ Panic(e) \/ PanicInReport(e) PROVE E!Next
        BY <2>2 DEF Classify, Panic, PanicInReport, E!Next, E!Controller
    <2>3. CASE EngineOnly
        BY <2>3 DEF EngineOnly, E!Next, E!Controller
    <2>4. CASE UNCHANGED engine
        BY <2>4 DEF engine, E!vars, E!program, E!history
    <2>5. CASE (\E e \in E!Streamed : Accept(e)) \/ SwarmStep \/ Chain \/ UNCHANGED vars
        <3>1. UNCHANGED engine
            BY <2>5 DEF Accept, SwarmStep, Snipe, Goroutine, Chain, vars
        <3>. QED
            BY <2>4, <3>1
    <2>. QED
        BY <2>1, <2>2, <2>3, <2>5 DEF Next
<1>. QED
    BY <1>1, <1>2, PTL DEF Spec, E!Spec

(***************************************************************************)
(* What EngineProofs knows of every state: the channel holds queued        *)
(* events, workers and events have each other in hand, and positions       *)
(* begin at one.                                                           *)
(***************************************************************************)
EngineKnown == EP!TypeOK /\ EP!Queued /\ EP!Holding /\ \A e \in EP!Events : EP!Scanned(e)

LEMMA EngineIsKnown == Spec => []EngineKnown
<1>1. EP!Spec => [](EP!TypeOK /\ EP!Queued /\ EP!Holding)
    BY EP!HandsAreInvariant, EngineAssumed, ClusterAssumed
<1>2. EP!Spec => [](EP!TypeOK /\ EP!Queued /\ \A e \in EP!Events : EP!Scanned(e))
    BY EP!ScansAreInvariant, EngineAssumed, ClusterAssumed
<1>. QED
    BY <1>1, <1>2, EngineImplemented, SameEngine, PTL DEF EngineKnown

(* The transaction an event is at is an addition of the system.            *)
LEMMA AtAnAddition ==
    ASSUME EngineKnown, NEW e \in E!Events, AtAddition(e)
    PROVE  Addition(e) \in Additions
<1>1. /\ pos[e] \in Nat /\ pos[e] >= 1
    BY DEF EngineKnown, EP!TypeOK, EP!Scanned, EP!Events, E!Events
<1>2. pos[e] <= Len(Content[e]) /\ Content[e][pos[e]] = "addition"
    BY DEF AtAddition, E!Classifying, E!Kind
<1>3. Len(Content[e]) <= 3 /\ Content[e] \in Seq(E!Kinds)
    BY SystemAssumption DEF E!EngineAssumption
<1>4. Len(Content[e]) \in Nat /\ DOMAIN Content[e] = 1 .. Len(Content[e])
    BY <1>3
<1>5. pos[e] \in 1 .. 3 /\ pos[e] \in DOMAIN Content[e]
    BY <1>1, <1>2, <1>3, <1>4
<1>. QED
    BY <1>2, <1>5 DEF Additions, Addition

(* A step of the system is one of the swarm, or leaves it alone.           *)
LEMMA SwarmStepImplemented == EngineKnown /\ [Next]_vars => [S!Next]_S!vars
<1>. SUFFICES ASSUME EngineKnown, [Next]_vars PROVE S!Next \/ UNCHANGED S!vars
    OBVIOUS
<1>0. E!Streamed \subseteq E!Events
    BY DEF E!Streamed, E!Events
<1>1. ASSUME NEW e \in E!Streamed, Accept(e) PROVE S!Next
    BY <1>0, <1>1, AtAnAddition DEF Accept, S!Next
<1>2. ASSUME NEW e \in E!Streamed, PanicInReport(e) PROVE S!Next
    BY <1>0, <1>2, AtAnAddition DEF PanicInReport, S!Next, S!Snipe
<1>3. CASE SwarmStep
    BY <1>3 DEF SwarmStep, Snipe, Goroutine, S!Next
<1>4. CASE Chain
    BY <1>4 DEF Chain, S!Next
<1>5. CASE UNCHANGED swarm
    BY <1>5 DEF swarm, S!vars, S!swarm, S!chain, S!order
<1>6. CASE \/ \E e \in E!Streamed : NodeStep(e) \/ Classify(e) \/ Panic(e)
           \/ EngineOnly \/ UNCHANGED vars
    <2>1. UNCHANGED swarm
        BY <1>6 DEF NodeStep, Classify, Panic, EngineOnly, vars
    <2>. QED
        BY <1>5, <2>1
<1>. QED
    BY <1>1, <1>2, <1>3, <1>4, <1>6 DEF Next

(***************************************************************************)
(* The swarm of the system is Sniper: each of its calls is made for an     *)
(* addition, so that all that SniperProofs shows of concurrent calls holds *)
(* of those the workers and the timers make.                               *)
(***************************************************************************)
THEOREM SwarmImplemented == Spec => S!Spec
<1>1. Init => S!Init
    BY DEF Init
<1>. QED
    BY <1>1, SwarmStepImplemented, EngineIsKnown, PTL DEF Spec, S!Spec

-----------------------------------------------------------------------------
(***************************************************************************)
(* CallsAreWaitedFor, for any number of workers, events and bees.  A call  *)
(* begins where its event is; the event stays there, because its goroutine *)
(* cannot go on and no other one has it.                                   *)
(***************************************************************************)
LEMMA WaitedForStep ==
    ASSUME EngineKnown, SP!TypeOK, CallsAreWaitedFor, [Next]_vars
    PROVE  CallsAreWaitedFor'
<1>. SUFFICES ASSUME NEW c \in Additions, InProgress(c)'
              PROVE  (at[c[1]] = "handling" /\ pos[c[1]] = c[2])'
    BY DEF CallsAreWaitedFor
<1>0. PICK f \in E!Events, k \in 1 .. 3 :
          c = <<f, k>> /\ k \in DOMAIN Content[f] /\ Content[f][k] = "addition"
    BY DEF Additions
<1>1. /\ at \in [E!Events -> EP!Progress \cup EP!Outcomes] /\ pos \in [E!Events -> Nat]
      /\ pc \in [Additions -> SP!PcValues]
    BY DEF EngineKnown, EP!TypeOK, EP!Events, E!Events, SP!TypeOK
<1>2. k \in 1 .. Len(Content[f]) /\ Len(Content[f]) \in Nat
    <2>1. Content[f] \in Seq(E!Kinds)
        BY SystemAssumption DEF E!EngineAssumption
    <2>. QED
        BY <1>0, <2>1
<1>3. E!Streamed \subseteq E!Events
    BY DEF E!Streamed, E!Events
<1>4. InProgress(c) => at[f] = "handling" /\ pos[f] = k
    BY <1>0 DEF CallsAreWaitedFor
<1>5. SUFFICES at'[f] = "handling" /\ pos'[f] = k
    BY <1>0
<1>6. ASSUME NEW e \in E!Streamed, Accept(e) PROVE at'[f] = "handling" /\ pos'[f] = k
    <2>1. /\ UNCHANGED <<at, pos>> /\ at[e] = "handling"
          /\ pc' = [pc EXCEPT ![Addition(e)] = "blocked"]
        BY <1>6 DEF Accept, AtAddition, E!Classifying, S!Call, engine
    <2>2. CASE c = Addition(e)
        BY <1>0, <2>1, <2>2 DEF Addition
    <2>3. CASE c # Addition(e)
        BY <1>1, <1>4, <2>1, <2>3 DEF InProgress
    <2>. QED
        BY <2>2, <2>3
<1>7. ASSUME NEW e \in E!Streamed, Classify(e) PROVE at'[f] = "handling" /\ pos'[f] = k
    <2>1. UNCHANGED pc /\ InProgress(c)
        BY <1>7 DEF Classify, swarm, InProgress
    <2>2. /\ at' = at /\ E!Classifying(e)
          /\ \E n : pos' = [pos EXCEPT ![e] = n]
        BY <1>7 DEF Classify, E!Classify
    <2>3. f # e
        <3>. SUFFICES ASSUME f = e PROVE FALSE
            OBVIOUS
        <3>1. AtAddition(e) /\ Addition(e) = c
            BY <1>0, <1>4, <2>1, <2>2 DEF AtAddition, E!Kind, Addition
        <3>. QED
            BY <1>7, <2>1, <3>1 DEF Classify, Resumes, InProgress
    <2>. QED
        BY <1>1, <1>3, <1>4, <2>1, <2>2, <2>3
<1>8. ASSUME NEW e \in E!Streamed, Panic(e) PROVE at'[f] = "handling" /\ pos'[f] = k
    <2>1. UNCHANGED pc /\ InProgress(c) /\ pc[Addition(e)] = "idle"
        BY <1>8 DEF Panic, swarm, InProgress
    <2>2. pos' = pos /\ at' = [at EXCEPT ![e] = "panicked"]
        BY <1>8 DEF Panic, E!Panic
    <2>3. f # e
        BY <1>0, <1>4, <2>1 DEF Addition, InProgress
    <2>. QED
        BY <1>1, <1>4, <2>1, <2>2, <2>3
<1>9. ASSUME NEW e \in E!Streamed, PanicInReport(e) PROVE at'[f] = "handling" /\ pos'[f] = k
    <2>1. pc' = [pc EXCEPT ![Addition(e)] = "returned"]
        BY <1>9 DEF PanicInReport, S!Return
    <2>2. pos' = pos /\ at' = [at EXCEPT ![e] = "panicked"]
        BY <1>9 DEF PanicInReport, E!Panic
    <2>3. Addition(e) \in Additions
        BY <1>3, <1>9, AtAnAddition DEF PanicInReport
    <2>4. c # Addition(e) /\ InProgress(c)
        BY <1>1, <2>1, <2>3 DEF InProgress
    <2>5. f # e
        BY <1>0, <1>4, <2>4 DEF Addition
    <2>. QED
        BY <1>1, <1>4, <2>2, <2>4, <2>5
<1>10. CASE EngineOnly
    <2>1. UNCHANGED pc /\ InProgress(c)
        BY <1>10 DEF EngineOnly, swarm, InProgress
    <2>2. ASSUME NEW e \in E!Streamed,
                 \/ E!Notify(e) \/ E!Miss(e)
                 \/ E!NotFound(e) \/ E!Fire(e) \/ E!Failed(e) \/ E!Confirmed(e) \/ E!Found(e)
          PROVE  at'[f] = "handling" /\ pos'[f] = k
        <3>1. /\ at[e] \in {"unseen", "looking", "waiting"} /\ pos' = pos
              /\ \E x : at' = [at EXCEPT ![e] = x]
            BY <2>2 DEF E!Notify, E!Miss, E!NotFound, E!Fire, E!Failed, E!Confirmed, E!Found,
                        E!Answered, E!Leaves
        <3>. QED
            BY <1>1, <1>3, <1>4, <2>1, <3>1
    <2>3. ASSUME NEW e \in E!Streamed, E!Finish(e) PROVE at'[f] = "handling" /\ pos'[f] = k
        <3>1. /\ pos[e] > Len(Content[e]) /\ pos' = pos
              /\ at' = [at EXCEPT ![e] = "handled"]
            BY <2>3 DEF E!Finish, E!Leaves
        <3>2. f # e
            BY <1>2, <1>4, <2>1, <3>1
        <3>. QED
            BY <1>1, <1>3, <1>4, <2>1, <3>1, <3>2
    <2>4. ASSUME NEW w \in Workers, E!Take(w) PROVE at'[f] = "handling" /\ pos'[f] = k
        <3>1. ch # <<>> /\ pos' = pos /\ at' = [at EXCEPT ![Head(ch)] = "looking"]
            BY <2>4 DEF E!Take
        <3>2. ch \in Seq(E!Events)
            BY DEF EngineKnown, EP!TypeOK, EP!Events, E!Events
        <3>3. at[Head(ch)] = "queued"
            BY <3>1, <3>2 DEF EngineKnown, EP!Queued
        <3>. QED
            BY <1>1, <1>4, <2>1, <3>1, <3>3
    <2>5. CASE E!LoseSubscription \/ E!Resubscribe \/ \E w \in Workers : E!Stop(w)
        BY <1>4, <2>1, <2>5 DEF E!LoseSubscription, E!Resubscribe, E!Stop
    <2>. QED
        BY <1>10, <2>2, <2>3, <2>4, <2>5 DEF EngineOnly
<1>11. ASSUME NEW d \in Additions, Snipe(d) PROVE at'[f] = "handling" /\ pos'[f] = k
    <2>1. /\ UNCHANGED <<at, pos>>
          /\ S!Lock(d) \/ S!StartChecks(d) \/ S!Return(d)
        BY <1>11 DEF Snipe, S!Snipe, engine
    <2>2. InProgress(c)
        BY <1>1, <2>1 DEF InProgress, S!Lock, S!StartChecks, S!Return
    <2>. QED
        BY <1>4, <2>1, <2>2
<1>12. ASSUME \/ \E d \in Additions, b \in Bees : Goroutine(d, b)
              \/ Chain \/ UNCHANGED vars \/ \E e \in E!Streamed : NodeStep(e)
       PROVE  at'[f] = "handling" /\ pos'[f] = k
    <2>1. UNCHANGED <<at, pos>>
        BY <1>12 DEF Goroutine, Chain, NodeStep, engine, vars, E!Learn, E!Leave, E!program
    <2>2. UNCHANGED pc
        BY <1>12 DEF Goroutine, Chain, NodeStep, vars, swarm, S!Goroutine, S!Sign, S!SendAccepted,
                     S!SendFailed, S!Increment, S!Panic, S!WaitTimeElapses, S!PollDone,
                     S!PollTimesOut, S!FetchReceipt, S!Chain, S!Mine, S!Drop, S!MineLiquidity,
                     S!ConfigureOrder, S!swarm
    <2>. QED
        BY <1>4, <2>1, <2>2 DEF InProgress
<1>. QED
    BY <1>6, <1>7, <1>8, <1>9, <1>10, <1>11, <1>12 DEF Next, SwarmStep

(***************************************************************************)
(* Nobody leaves a call of Snipe behind, whatever fails or panics.         *)
(***************************************************************************)
THEOREM NoCallIsLeft == Spec => []CallsAreWaitedFor
<1>1. Init => CallsAreWaitedFor
    BY DEF Init, S!Init, CallsAreWaitedFor, InProgress
<1>2. Spec => []SP!TypeOK
    BY SwarmImplemented, SameSwarm, SP!TypeCorrect, SniperAssumed, PTL
<1>3. EngineKnown /\ SP!TypeOK /\ CallsAreWaitedFor /\ [Next]_vars => CallsAreWaitedFor'
    BY WaitedForStep
<1>. QED
    BY <1>1, <1>2, <1>3, EngineIsKnown, PTL DEF Spec

(***************************************************************************)
(* A worker inside Snipe is busy, so that Run, which waits for every       *)
(* worker to stop, returns after its call has; a timer's goroutine is no   *)
(* worker and is not waited for.                                           *)
(***************************************************************************)
THEOREM WorkersAreWaitedFor == Spec => []EndCutsNoWorkerShort
<1>1. EngineKnown /\ CallsAreWaitedFor => EndCutsNoWorkerShort
    <2>. SUFFICES ASSUME EngineKnown, CallsAreWaitedFor, NEW c \in Additions,
                         InProgress(c), E!Returned
                  PROVE  by[c[1]] = E!Timer
        BY DEF EndCutsNoWorkerShort
    <2>1. c[1] \in E!Events /\ at[c[1]] = "handling"
        BY DEF CallsAreWaitedFor, Additions
    <2>2. by[c[1]] \in Workers \cup {E!Timer}
        BY <2>1 DEF EngineKnown, EP!TypeOK, EP!Events, E!Events, EP!Timer, E!Timer
    <2>3. by[c[1]] \in Workers => worker[by[c[1]]] = "busy"
        BY <2>1 DEF EngineKnown, EP!Holding, EP!Held, EP!InHand, EP!Events, E!Events
    <2>. QED
        BY <2>2, <2>3 DEF E!Returned
<1>. QED
    BY <1>1, EngineIsKnown, NoCallIsLeft, PTL

-----------------------------------------------------------------------------
(***************************************************************************)
(* What Sniper promises of concurrent calls holds of those that the        *)
(* workers and the timers make: one call at a time uses the bees, no bee   *)
(* has two transactions accepted for a nonce, success is reported truly,   *)
(* no order is bought twice and no two calls claim one purchase.           *)
(***************************************************************************)
COROLLARY SwarmKeepsItsPromises ==
    Spec => [](SP!Serialized /\ SP!NoNonceReuse /\ SP!ReportTruthful /\ SP!NoDoubleBuy
               /\ SP!SuccessesAreFills)
<1>1. /\ SP!Spec => []SP!Serialized
      /\ SP!Spec => []SP!NoNonceReuse
      /\ SP!Spec => []SP!ReportTruthful
      /\ SP!Spec => []SP!NoDoubleBuy
      /\ SP!Spec => []SP!SuccessesAreFills
    BY SP!MutualExclusion, SP!NoncesUsedOnce, SP!TruthfulReports, SP!OnePurchasePerOrder,
       SP!PurchasesOfTheirOwn, SniperAssumed
<1>. QED
    BY <1>1, SwarmImplemented, SameSwarm, PTL

(* While the program runs it is not started again.                         *)
LEMMA NoRestart ==
    ASSUME SP!Typing, [Next]_vars
    PROVE  ~SP!Restart
<1>. SUFFICES UNCHANGED restarts
    BY SniperAssumed DEF SP!Restart, SP!Typing, SP!TypeOK
<1>1. CASE \E d \in Additions, b \in Bees : S!Goroutine(d, b)
    BY <1>1 DEF S!Goroutine, S!Sign, S!SendAccepted, S!SendFailed, S!Increment, S!Panic,
           S!WaitTimeElapses, S!PollDone, S!PollTimesOut, S!FetchReceipt
<1>2. CASE ~ \E d \in Additions, b \in Bees : S!Goroutine(d, b)
    BY <1>2 DEF Next, NodeStep, Accept, Classify, Panic, PanicInReport, EngineOnly, SwarmStep,
           Snipe, Goroutine, Chain, vars, swarm, S!Call, S!Snipe, S!Lock, S!StartChecks,
           S!Return, S!Chain, S!Mine, S!Drop, S!MineLiquidity, S!ConfigureOrder
<1>. QED
    BY <1>1, <1>2

(***************************************************************************)
(* A bee that the running program strands stays stranded for as long as    *)
(* the program runs: no later event, call or retry repairs its counter.    *)
(***************************************************************************)
THEOREM StrandedForGood ==
    Spec => [][\A b \in Bees : SP!Stranded(b) => SP!Stranded(b)']_vars
<1>1. EngineKnown /\ SP!Typing /\ SP!Exclusion /\ SP!Nonces /\ [Next]_vars =>
          [\A b \in Bees : SP!Stranded(b) => SP!Stranded(b)']_vars
    BY NoRestart, SwarmStepImplemented, SameSwarmStep, SP!StrandedStep, SniperAssumed
<1>2. Spec => [](SP!Typing /\ SP!Exclusion /\ SP!Nonces)
    BY SwarmImplemented, SameSwarm, SP!NoncesAreInvariant, SniperAssumed, PTL
<1>. QED
    BY <1>1, <1>2, EngineIsKnown, PTL DEF Spec

-----------------------------------------------------------------------------
(***************************************************************************)
(* The counters of the bees, whatever the node and the network do.         *)
(***************************************************************************)
Counted == /\ EngineKnown /\ SP!Typing /\ SP!Exclusion /\ SP!Nonces
           /\ \A b \in Bees : SP!PooledOf(b)

(* What is pooled of a bee lies between the chain's nonce and its counter. *)
LEMMA CountedInvariant == Spec => []Counted
<1>1. Init => \A b \in Bees : SP!PooledOf(b)
    BY SameSwarmInit, SP!InitPooled, SniperAssumed DEF Init
<1>2. Counted /\ [Next]_vars => (\A b \in Bees : SP!PooledOf(b))'
    BY NoRestart, SwarmStepImplemented, SameSwarmStep, SP!PooledStep, SniperAssumed DEF Counted
<1>3. Spec => [](SP!Typing /\ SP!Exclusion /\ SP!Nonces)
    BY SwarmImplemented, SameSwarm, SP!NoncesAreInvariant, SniperAssumed, PTL
<1>. QED
    BY <1>1, <1>2, <1>3, EngineIsKnown, PTL DEF Spec, Counted

(* Sniper and SniperProofs mean the same counters and the same losses.     *)
LEMMA SameSynced == \A b : S!Synced(b) <=> SP!Synced(b)
BY DEF S!Synced, S!Top, S!InFlight, S!PendingNonceAt, S!Executable, S!Cardinality,
       SP!Synced, SP!Top, SP!InFlight, SP!PendingNonceAt, SP!Executable, SP!Cardinality

LEMMA SameLoss ==
    ASSUME NEW b
    PROVE  (S!AnswerLost(b) <=> SP!AnswerLost(b)) /\ (S!Evicted(b) <=> SP!Evicted(b))
BY DEF S!AnswerLost, S!SendFailed, S!To, S!Accepts, S!Rival, S!PoolWith, S!AfterFailedSend,
       S!order, S!Evicted, S!Drop, S!swarm,
       SP!AnswerLost, SP!SendFailed, SP!To, SP!Accepts, SP!Rival, SP!PoolWith,
       SP!AfterFailedSend, SP!order, SP!Evicted, SP!Drop, SP!swarm

(***************************************************************************)
(* A bee that agrees with the node keeps agreeing unless one of its own    *)
(* answers is lost or one of its own transactions is evicted: for any      *)
(* accounts, fresh ones included, any faults, and any number of workers,   *)
(* events, retries and bees.  The argument: while the counter is what the  *)
(* node answers, the bee's transactions are a row from the chain's nonce   *)
(* up to the counter, and every other step keeps the row whole.            *)
(***************************************************************************)
THEOREM OnlyLossesDesync == Spec => OnlyLossDesyncs
<1>1. (\A b : S!Synced(b) <=> SP!Synced(b))'
    BY SameSynced, PTL
<1>2. (SP!Typing => \A b \in Bees : SP!Unbroken(b) => SP!Synced(b))'
    BY SP!SyncedNext, SniperAssumed, PTL
<1>3. Counted /\ Counted' /\ [Next]_vars =>
          [\A b \in Bees : S!Synced(b) => S!Synced(b)' \/ S!AnswerLost(b) \/ S!Evicted(b)]_vars
    <2>. SUFFICES ASSUME Counted, Counted', [Next]_vars, NEW b \in Bees,
                         SP!Synced(b), ~SP!AnswerLost(b), ~SP!Evicted(b)
                  PROVE  SP!Synced(b)'
        BY <1>1, SameSynced, SameLoss
    <2>1. SP!Unbroken(b)
        BY SP!SyncedIsUnbroken, SniperAssumed DEF Counted
    <2>2. [SP!Next]_SP!vars
        BY SwarmStepImplemented, SameSwarmStep DEF Counted
    <2>3. SP!Unbroken(b)'
        BY <2>1, <2>2, SP!UnbrokenStep, SniperAssumed DEF Counted
    <2>. QED
        BY <1>2, <2>3 DEF Counted
<1>. QED
    BY <1>3, CountedInvariant, PTL DEF Spec, OnlyLossDesyncs

(***************************************************************************)
(* A bee that agrees with the node is not stranded: what it sends next can *)
(* be mined.                                                               *)
(***************************************************************************)
THEOREM SyncedIsNotStranded ==
    Spec => [](\A b \in Bees : S!Synced(b) => ~SP!Stranded(b))
<1>1. Counted => \A b \in Bees : S!Synced(b) => ~SP!Stranded(b)
    BY SameSynced, SP!SyncedIsUnbroken, SP!UnbrokenNotStranded, SniperAssumed DEF Counted
<1>. QED
    BY <1>1, CountedInvariant, PTL

(***************************************************************************)
(* Unless an account is fresh or the node evicts, the running program      *)
(* skips no nonce, even when answers to its sends are lost: everything     *)
(* the node holds of the bees can still be mined.                          *)
(***************************************************************************)
COROLLARY NoNonceSkippedWhileRunning ==
    ASSUME 0 \notin InitialNonces, "drop" \notin Faults
    PROVE  Spec => [](SP!PooledIsExecutable /\ \A b \in Bees : ~SP!Gap(b))
<1>1. SP!Spec => [](SP!PooledIsExecutable /\ \A b \in Bees : ~SP!Gap(b))
    BY SP!NoNonceSkipped, SniperAssumed
<1>. QED
    BY <1>1, SwarmImplemented, SameSwarm, PTL
=============================================================================
