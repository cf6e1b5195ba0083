---------------------------- MODULE EngineProofs ----------------------------
(***************************************************************************)
(* The safety properties of Engine, for any events, workers and number of  *)
(* retries, and those of ClusteredEngine, for any number of delegates and  *)
(* any size of the counter.                                                *)
(***************************************************************************)
EXTENDS ClusteredEngine, FiniteSetTheorems, TLAPS

(***************************************************************************)
(* The channel never has more room than there are workers.                 *)
(***************************************************************************)
LEMMA Room == Cardinality(Workers) \in Nat
BY FS_CardinalityType, EngineAssumption

(***************************************************************************)
(* A worker that is released is idle, and nobody else is affected.         *)
(***************************************************************************)
LEMMA Released ==
    ASSUME NEW e \in Events, by[e] \in Workers \cup {Timer},
           worker \in [Workers -> {"idle", "busy", "stopped"}]
    PROVE  /\ Release(e) \in [Workers -> {"idle", "busy", "stopped"}]
           /\ \A w \in Workers : Release(e)[w] = IF w = by[e] THEN "idle" ELSE worker[w]
BY EngineAssumption DEF Release

-----------------------------------------------------------------------------
(***************************************************************************)
(* Type correctness.  The retries stay within their maximum because only   *)
(* a retry below it goes on, and only that of a transaction counts.        *)
(***************************************************************************)
LEMMA TypeLeaves ==
    ASSUME TypeOK, NEW e \in Events, NEW s \in Progress \cup Outcomes, Leaves(e, s),
           times' \in [Events -> 0 .. MaxRetries], lookups' \in [Events -> Nat]
    PROVE  TypeOK'
<1>1. by[e] \in Workers \cup {Timer}
    BY DEF TypeOK
<1>2. worker' \in [Workers -> {"idle", "busy", "stopped"}]
    BY <1>1, Released DEF TypeOK, Leaves
<1>. QED
    BY <1>2 DEF TypeOK, Leaves

LEMMA TypeController ==
    ASSUME TypeOK, NEW e \in Events, Controller(e)
    PROVE  TypeOK'
<1>0. MaxRetries \in Nat /\ Content \in [Events -> Seq(Kinds)]
    BY EngineAssumption
<1>1. ASSUME Answered(e) PROVE lookups' \in [Events -> Nat]
    BY <1>1 DEF Answered, TypeOK
<1>2. CASE NotFound(e)
    <2>1. CASE MayRetry(e)
        <3>1. times' = [times EXCEPT ![e] = Counted(e)] /\ Leaves(e, "waiting")
            BY <1>2, <2>1 DEF NotFound
        <3>2. Counted(e) \in 0 .. MaxRetries
            BY <1>0, <2>1 DEF Counted, MayRetry, TypeOK
        <3>3. times' \in [Events -> 0 .. MaxRetries]
            BY <3>1, <3>2 DEF TypeOK
        <3>4. lookups' \in [Events -> Nat]
            BY <1>1, <1>2 DEF NotFound
        <3>. QED
            BY <3>1, <3>3, <3>4, TypeLeaves DEF Progress
    <2>2. CASE ~MayRetry(e)
        BY <1>1, <1>2, <2>2, TypeLeaves DEF NotFound, TypeOK, Outcomes
    <2>. QED
        BY <2>1, <2>2
<1>3. CASE Fire(e)
    BY <1>3 DEF Fire, TypeOK, Progress, history
<1>4. CASE Failed(e)
    BY <1>1, <1>4, TypeLeaves DEF Failed, TypeOK, Outcomes
<1>5. CASE Confirmed(e)
    BY <1>1, <1>5, TypeLeaves DEF Confirmed, TypeOK, Outcomes
<1>6. CASE Found(e)
    <2>1. at' \in [Events -> Progress \cup Outcomes]
        BY <1>6 DEF Found, TypeOK, Progress
    <2>. QED
        BY <1>1, <1>6, <2>1 DEF Found, TypeOK
<1>7. CASE Classify(e)
    <2>1. pos[e] \in Nat /\ AfterError(e) \in Nat
        BY DEF TypeOK, AfterError
    <2>2. pos' \in [Events -> Nat]
        BY <1>7, <2>1 DEF Classify, TypeOK
    <2>3. monitored' \subseteq Events \X Nat /\ offered' \subseteq Events \X Nat
        BY <1>7, <2>1 DEF Classify, TypeOK
    <2>. QED
        BY <1>7, <2>2, <2>3 DEF Classify, TypeOK
<1>8. CASE Panic(e)
    <2>1. pos[e] \in Nat
        BY DEF TypeOK
    <2>2. monitored' \subseteq Events \X Nat /\ offered' \subseteq Events \X Nat
        BY <1>8, <2>1 DEF Panic, TypeOK
    <2>3. at' \in [Events -> Progress \cup Outcomes]
        BY <1>8 DEF Panic, TypeOK, Outcomes
    <2>4. /\ worker' \in [Workers -> {"idle", "busy", "stopped"}]
          /\ {cancelled', crashed'} \subseteq BOOLEAN
        BY <1>8 DEF Panic, Recovered, TypeOK
    <2>. QED
        BY <1>8, <2>2, <2>3, <2>4 DEF Panic, TypeOK
<1>9. CASE Finish(e)
    BY <1>9, TypeLeaves DEF Finish, TypeOK, Outcomes
<1>. QED
    BY <1>2, <1>3, <1>4, <1>5, <1>6, <1>7, <1>8, <1>9 DEF Controller

LEMMA TypeStep == TypeOK /\ [Next]_vars => TypeOK'
<1>. SUFFICES ASSUME TypeOK, [Next]_vars PROVE TypeOK'
    OBVIOUS
<1>0. Streamed \subseteq Events
    BY DEF Streamed, Events
<1>1. ASSUME NEW e \in Streamed, Learn(e) \/ Leave(e) PROVE TypeOK'
    BY <1>0, <1>1 DEF Learn, Leave, TypeOK, program, history
<1>2. ASSUME NEW e \in Streamed, Notify(e) PROVE TypeOK'
    <2>1. ch' \in Seq(Events) /\ Len(ch') <= Cardinality(Workers)
        BY <1>0, <1>2, Room DEF Notify, TypeOK
    <2>2. at' \in [Events -> Progress \cup Outcomes]
        BY <1>2 DEF Notify, TypeOK, Progress
    <2>. QED
        BY <1>2, <2>1, <2>2 DEF Notify, TypeOK, history
<1>3. ASSUME NEW e \in Streamed, Miss(e) PROVE TypeOK'
    BY <1>3 DEF Miss, TypeOK, Outcomes, history
<1>4. ASSUME NEW e \in Streamed, Controller(e) PROVE TypeOK'
    BY <1>0, <1>4, TypeController
<1>5. ASSUME NEW w \in Workers, Take(w) PROVE TypeOK'
    <2>1. Head(ch) \in Events /\ Tail(ch) \in Seq(Events) /\ Len(Tail(ch)) <= Cardinality(Workers)
        BY <1>5, Room DEF Take, TypeOK
    <2>2. at' \in [Events -> Progress \cup Outcomes]
        BY <1>5 DEF Take, TypeOK, Progress
    <2>3. by' \in [Events -> Workers \cup {Timer}]
        BY <1>5 DEF Take, TypeOK
    <2>4. worker' \in [Workers -> {"idle", "busy", "stopped"}]
        BY <1>5 DEF Take, TypeOK
    <2>. QED
        BY <1>5, <2>1, <2>2, <2>3, <2>4 DEF Take, TypeOK, history
<1>6. ASSUME NEW w \in Workers, Stop(w) PROVE TypeOK'
    BY <1>6 DEF Stop, TypeOK, history
<1>7. CASE LoseSubscription \/ Resubscribe
    <2>1. CASE LoseSubscription
        BY <2>1 DEF LoseSubscription, TypeOK, history
    <2>2. CASE Resubscribe
        BY <2>2 DEF Resubscribe, TypeOK, history
    <2>. QED
        BY <1>7, <2>1, <2>2
<1>8. CASE UNCHANGED vars
    BY <1>8 DEF vars, program, history, TypeOK
<1>. QED
    BY <1>1, <1>2, <1>3, <1>4, <1>5, <1>6, <1>7, <1>8 DEF Next

(* The engine starts in a state of its type.                               *)
LEMMA TypeInitially == Init => TypeOK
<1>. SUFFICES ASSUME Init PROVE TypeOK
    OBVIOUS
<1>1. ch \in Seq(Events) /\ Len(ch) <= Cardinality(Workers)
    BY Room DEF Init
<1>2. at \in [Events -> Progress \cup Outcomes]
    BY DEF Init, Progress
<1>3. times \in [Events -> 0 .. MaxRetries]
    BY EngineAssumption DEF Init
<1>. QED
    BY <1>1, <1>2, <1>3 DEF Init, TypeOK

(***************************************************************************)
(* Type correctness of the engine's state.                                 *)
(***************************************************************************)
THEOREM TypeCorrect == Spec => []TypeOK
BY TypeInitially, TypeStep, PTL DEF Spec

-----------------------------------------------------------------------------
(***************************************************************************)
(* The steps that concern one event leave the others alone, and those of   *)
(* the node and of the subscription leave all of them alone.               *)
(***************************************************************************)
Same(f) ==
    /\ at'[f] = at[f] /\ by'[f] = by[f] /\ times'[f] = times[f]
    /\ pos'[f] = pos[f] /\ lookups'[f] = lookups[f]

Aside == UNCHANGED <<ch, worker, at, by, times, pos, lookups, monitored, offered>>

LEMMA OneEvent ==
    ASSUME TypeOK, NEW e \in Events, Controller(e)
    PROVE  /\ \A f \in Events \ {e} : Same(f)
           /\ ch' = ch
           /\ at[e] \in {"looking", "waiting", "handling"}
           /\ at'[e] \in (Progress \cup Outcomes) \ {"unseen", "queued", "missed"}
           /\ monitored \subseteq monitored' /\ offered \subseteq offered'
<1>1. CASE NotFound(e)
    BY <1>1 DEF NotFound, Answered, Leaves, TypeOK, Same, Progress, Outcomes
<1>2. CASE Fire(e)
    BY <1>2 DEF Fire, TypeOK, Same, Progress, history
<1>3. CASE Failed(e)
    BY <1>3 DEF Failed, Answered, Leaves, TypeOK, Same, Outcomes
<1>4. CASE Confirmed(e)
    BY <1>4 DEF Confirmed, Answered, Leaves, TypeOK, Same, Outcomes
<1>5. CASE Found(e)
    BY <1>5 DEF Found, Answered, TypeOK, Same, Progress
<1>6. CASE Classify(e)
    BY <1>6 DEF Classify, Classifying, TypeOK, Same, Progress
<1>7. CASE Panic(e)
    BY <1>7 DEF Panic, Classifying, TypeOK, Same, Outcomes
<1>8. CASE Finish(e)
    BY <1>8 DEF Finish, Leaves, TypeOK, Same, Outcomes
<1>. QED
    BY <1>1, <1>2, <1>3, <1>4, <1>5, <1>6, <1>7, <1>8 DEF Controller

(***************************************************************************)
(* The steps of the engine, by what they concern.                          *)
(***************************************************************************)
LEMMA Steps ==
    ASSUME [Next]_vars
    PROVE  \/ Aside
           \/ \E e \in Events : Notify(e) \/ Miss(e) \/ Controller(e)
           \/ \E w \in Workers : Take(w) \/ Stop(w)
<1>1. ASSUME NEW e \in Events, Learn(e) \/ Leave(e) PROVE Aside
    BY <1>1 DEF Learn, Leave, Aside, program, history
<1>2. CASE LoseSubscription \/ Resubscribe
    BY <1>2 DEF LoseSubscription, Resubscribe, Aside, history
<1>3. CASE UNCHANGED vars
    BY <1>3 DEF vars, program, history, Aside
<1>. QED
    BY <1>1, <1>2, <1>3 DEF Next, Streamed, Events

-----------------------------------------------------------------------------
(***************************************************************************)
(* What is in the channel is queued, and is there once.                    *)
(***************************************************************************)
Queued ==
    /\ \A i \in 1 .. Len(ch) : at[ch[i]] = "queued"
    /\ \A i, j \in 1 .. Len(ch) : ch[i] = ch[j] => i = j

LEMMA QueuedStep ==
    ASSUME TypeOK, Queued, [Next]_vars
    PROVE  Queued'
<1>0. ch \in Seq(Events) /\ at \in [Events -> Progress \cup Outcomes]
    BY DEF TypeOK
<1>1. CASE Aside
    BY <1>1 DEF Aside, Queued
<1>2. ASSUME NEW e \in Events, Notify(e) PROVE Queued'
    <2>1. /\ at[e] = "unseen" /\ ch' = Append(ch, e)
          /\ at' = [at EXCEPT ![e] = "queued"]
        BY <1>2 DEF Notify
    <2>2. Len(ch') = Len(ch) + 1 /\ ch'[Len(ch) + 1] = e
        BY <1>0, <2>1
    <2>3. \A i \in 1 .. Len(ch) : ch'[i] = ch[i] /\ ch[i] \in Events /\ ch[i] # e
        BY <1>0, <2>1 DEF Queued
    <2>4. \A i \in 1 .. Len(ch') : i = Len(ch) + 1 \/ i \in 1 .. Len(ch)
        BY <1>0, <2>2
    <2>. QED
        BY <1>0, <2>1, <2>2, <2>3, <2>4 DEF Queued
<1>3. ASSUME NEW e \in Events, Miss(e) PROVE Queued'
    BY <1>0, <1>3 DEF Miss, Queued
<1>4. ASSUME NEW e \in Events, Controller(e) PROVE Queued'
    <2>1. /\ ch' = ch /\ at[e] # "queued"
          /\ \A f \in Events \ {e} : at'[f] = at[f]
        BY <1>4, OneEvent DEF Same
    <2>2. \A i \in 1 .. Len(ch) : ch[i] \in Events \ {e}
        BY <1>0, <2>1 DEF Queued
    <2>. QED
        BY <2>1, <2>2 DEF Queued
<1>5. ASSUME NEW w \in Workers, Take(w) PROVE Queued'
    <2>1. /\ ch # <<>> /\ ch' = Tail(ch)
          /\ at' = [at EXCEPT ![Head(ch)] = "looking"]
        BY <1>5 DEF Take
    <2>2. /\ Len(ch) >= 1 /\ Len(ch') = Len(ch) - 1 /\ Head(ch) = ch[1]
          /\ \A i \in 1 .. Len(ch') : ch'[i] = ch[i + 1] /\ i + 1 \in 1 .. Len(ch)
        BY <1>0, <2>1
    <2>3. \A i \in 1 .. Len(ch') : ch[i + 1] \in Events /\ ch[i + 1] # ch[1]
        BY <1>0, <2>2 DEF Queued
    <2>4. \A i \in 1 .. Len(ch') : at'[ch'[i]] = "queued"
        BY <1>0, <2>1, <2>2, <2>3 DEF Queued
    <2>5. \A i, j \in 1 .. Len(ch') : ch'[i] = ch'[j] => i = j
        BY <1>0, <2>2 DEF Queued
    <2>. QED
        BY <2>4, <2>5 DEF Queued
<1>6. ASSUME NEW w \in Workers, Stop(w) PROVE Queued'
    BY <1>6 DEF Stop, Queued
<1>. QED
    BY <1>1, <1>2, <1>3, <1>4, <1>5, <1>6, Steps

(* An event that is taken from the channel was queued there.               *)
LEMMA Taken ==
    ASSUME TypeOK, Queued, NEW w \in Workers, Take(w)
    PROVE  Head(ch) \in Events /\ at[Head(ch)] = "queued"
<1>1. ch \in Seq(Events) /\ ch # <<>>
    BY DEF TypeOK, Take
<1>2. 1 \in 1 .. Len(ch) /\ Head(ch) = ch[1] /\ Head(ch) \in Events
    BY <1>1
<1>. QED
    BY <1>2 DEF Queued

-----------------------------------------------------------------------------
(***************************************************************************)
(* The lookups of an event: one for each retry, and the one under way.     *)
(***************************************************************************)
Looked(e) ==
    /\ at[e] \in {"unseen", "queued", "missed"} => lookups[e] = 0
    /\ at[e] \in {"looking", "waiting"} => lookups[e] <= times[e]
    /\ lookups[e] <= times[e] + 1

LEMMA LookedStep ==
    ASSUME TypeOK, Queued, \A e \in Events : Looked(e), [Next]_vars
    PROVE  \A e \in Events : Looked(e)'
<1>. SUFFICES ASSUME NEW f \in Events PROVE Looked(f)'
    OBVIOUS
<1>0. /\ Looked(f) /\ times[f] \in Nat /\ lookups[f] \in Nat
      /\ at \in [Events -> Progress \cup Outcomes]
      /\ times \in [Events -> 0 .. MaxRetries] /\ lookups \in [Events -> Nat]
    BY EngineAssumption DEF TypeOK
<1>1. CASE Aside
    BY <1>0, <1>1 DEF Aside, Looked
<1>2. ASSUME NEW e \in Events, Notify(e) PROVE Looked(f)'
    BY <1>0, <1>2 DEF Notify, Looked, history
<1>3. ASSUME NEW e \in Events, Miss(e) PROVE Looked(f)'
    BY <1>0, <1>3 DEF Miss, Looked, history
<1>4. ASSUME NEW e \in Events, Controller(e) PROVE Looked(f)'
    <2>1. CASE f # e
        BY <1>0, <1>4, <2>1, OneEvent DEF Same, Looked
    <2>2. CASE f = e
        <3>0. at'[f] \notin {"unseen", "queued", "missed"}
            BY <1>4, <2>2, OneEvent
        <3>1. ASSUME Answered(e)
              PROVE  /\ lookups[f] <= times[f]
                     /\ lookups'[f] = IF f \in Hashes THEN lookups[f] + 1 ELSE lookups[f]
            BY <1>0, <2>2, <3>1 DEF Answered, Looked
        <3>2. CASE NotFound(e) /\ MayRetry(e)
            <4>1. times'[f] = IF f \in Hashes THEN times[f] + 1 ELSE times[f]
                BY <1>0, <2>2, <3>2 DEF NotFound, Counted
            <4>2. Answered(e)
                BY <3>2 DEF NotFound
            <4>. QED
                BY <1>0, <3>0, <3>1, <4>1, <4>2 DEF Looked
        <3>3. CASE NotFound(e) /\ ~MayRetry(e)
            <4>1. times' = times /\ at'[f] = "not_found" /\ Answered(e)
                BY <1>0, <2>2, <3>3 DEF NotFound, Leaves
            <4>. QED
                BY <1>0, <3>1, <4>1 DEF Looked
        <3>4. CASE Failed(e) \/ Confirmed(e) \/ Found(e)
            <4>1. times' = times /\ Answered(e)
                BY <3>4 DEF Failed, Confirmed, Found
            <4>2. at'[f] \in {"error", "confirmed", "handling"}
                BY <1>0, <2>2, <3>4 DEF Failed, Confirmed, Found, Leaves
            <4>. QED
                BY <1>0, <3>1, <4>1, <4>2 DEF Looked
        <3>5. CASE Fire(e)
            BY <1>0, <2>2, <3>5 DEF Fire, Looked, history
        <3>6. CASE Classify(e)
            BY <1>0, <2>2, <3>6 DEF Classify, Classifying, Looked
        <3>7. CASE Panic(e) \/ Finish(e)
            <4>1. times' = times /\ lookups' = lookups
                BY <3>7 DEF Panic, Finish
            <4>2. at'[f] \in {"panicked", "handled"}
                BY <1>0, <2>2, <3>7 DEF Panic, Finish, Leaves
            <4>. QED
                BY <1>0, <4>1, <4>2 DEF Looked
        <3>. QED
            BY <1>4, <3>2, <3>3, <3>4, <3>5, <3>6, <3>7 DEF Controller
    <2>. QED
        BY <2>1, <2>2
<1>5. ASSUME NEW w \in Workers, Take(w) PROVE Looked(f)'
    <2>1. Head(ch) \in Events /\ at[Head(ch)] = "queued"
        BY <1>5, Taken
    <2>. QED
        BY <1>0, <1>5, <2>1 DEF Take, Looked, history
<1>6. ASSUME NEW w \in Workers, Stop(w) PROVE Looked(f)'
    BY <1>0, <1>6 DEF Stop, Looked, history
<1>. QED
    BY <1>1, <1>2, <1>3, <1>4, <1>5, <1>6, Steps

(***************************************************************************)
(* LookupsAreBounded for every maximum: a hash is looked up no more than   *)
(* that many times after the first, whatever the node answers and whoever  *)
(* asks, the worker or a timer.                                            *)
(***************************************************************************)
THEOREM LookupsEnd == Spec => []LookupsAreBounded
<1> DEFINE IInv == TypeOK /\ Queued /\ \A e \in Events : Looked(e)
<1>1. Init => IInv
    <2>. SUFFICES ASSUME Init PROVE Queued /\ \A e \in Events : Looked(e)
        BY TypeInitially
    <2>1. Queued
        BY DEF Init, Queued
    <2>2. ASSUME NEW e \in Events PROVE Looked(e)
        BY <2>2 DEF Init, Looked
    <2>. QED
        BY <2>1, <2>2
<1>2. IInv /\ [Next]_vars => IInv'
    BY TypeStep, QueuedStep, LookedStep
<1>3. IInv => LookupsAreBounded
    BY EngineAssumption DEF LookupsAreBounded, Looked, TypeOK, Events
<1>. QED
    BY <1>1, <1>2, <1>3, PTL DEF Spec

-----------------------------------------------------------------------------
(***************************************************************************)
(* How far an event has been classified: everything before the next        *)
(* transaction, and all of it once it is handled.                          *)
(***************************************************************************)
Classified(e, i) ==
    /\ Content[e][i] = "addition" => <<e, i>> \in offered
    /\ Content[e][i] # "deploy" => <<e, i>> \in monitored

Scanned(e) ==
    /\ pos[e] >= 1
    /\ \A i \in 1 .. Len(Content[e]) : i < pos[e] => Classified(e, i)
    /\ at[e] = "handled" => pos[e] > Len(Content[e])

LEMMA ScannedStep ==
    ASSUME TypeOK, Queued, \A e \in Events : Scanned(e), [Next]_vars
    PROVE  \A e \in Events : Scanned(e)'
<1>. SUFFICES ASSUME NEW f \in Events PROVE Scanned(f)'
    OBVIOUS
<1>0. /\ Scanned(f) /\ pos[f] \in Nat /\ Len(Content[f]) \in Nat
      /\ at \in [Events -> Progress \cup Outcomes] /\ pos \in [Events -> Nat]
    BY EngineAssumption DEF TypeOK
<1>1. CASE Aside
    BY <1>0, <1>1 DEF Aside, Scanned, Classified
<1>2. ASSUME NEW e \in Events, Notify(e) \/ Miss(e) PROVE Scanned(f)'
    BY <1>0, <1>2 DEF Notify, Miss, Scanned, Classified, history
<1>3. ASSUME NEW e \in Events, Controller(e) PROVE Scanned(f)'
    <2>1. monitored \subseteq monitored' /\ offered \subseteq offered'
        BY <1>3, OneEvent
    <2>2. CASE f # e
        BY <1>0, <1>3, <2>1, <2>2, OneEvent DEF Same, Scanned, Classified
    <2>3. CASE f = e
        <3>1. CASE Classify(e)
            <4>1. pos'[f] = pos[f] + 1 /\ at'[f] = "handling"
                BY <1>0, <2>3, <3>1 DEF Classify, Classifying, AfterError
            <4>2. \A i \in 1 .. Len(Content[f]) : i = pos[f] => Classified(f, i)'
                BY <1>0, <2>3, <3>1 DEF Classify, Kind, Classified
            <4>3. \A i \in 1 .. Len(Content[f]) : i < pos'[f] => i < pos[f] \/ i = pos[f]
                BY <1>0, <4>1
            <4>. QED
                BY <1>0, <2>1, <4>1, <4>2, <4>3 DEF Scanned, Classified
        <3>2. CASE Finish(e)
            BY <1>0, <2>1, <2>3, <3>2 DEF Finish, Leaves, Scanned, Classified
        <3>3. CASE Panic(e) \/ Fire(e) \/ Found(e)
            <4>1. pos' = pos /\ at'[f] \in {"panicked", "looking", "handling"}
                BY <1>0, <2>3, <3>3 DEF Panic, Fire, Found
            <4>. QED
                BY <1>0, <2>1, <4>1 DEF Scanned, Classified
        <3>4. CASE NotFound(e) \/ Failed(e) \/ Confirmed(e)
            <4>1. pos' = pos /\ at'[f] \in {"waiting", "not_found", "error", "confirmed"}
                BY <1>0, <2>3, <3>4 DEF NotFound, Failed, Confirmed, Leaves
            <4>. QED
                BY <1>0, <2>1, <4>1 DEF Scanned, Classified
        <3>. QED
            BY <1>3, <3>1, <3>2, <3>3, <3>4 DEF Controller
    <2>. QED
        BY <2>2, <2>3
<1>4. ASSUME NEW w \in Workers, Take(w) \/ Stop(w) PROVE Scanned(f)'
    <2>1. pos' = pos /\ offered' = offered /\ monitored' = monitored
        BY <1>4 DEF Take, Stop, history
    <2>2. at'[f] = "handled" => at[f] = "handled"
        BY <1>0, <1>4, Taken DEF Take, Stop
    <2>. QED
        BY <1>0, <2>1, <2>2 DEF Scanned, Classified
<1>. QED
    BY <1>1, <1>2, <1>3, <1>4, Steps

(* How far every event has been classified, in every reachable state.      *)
LEMMA ScansAreInvariant == Spec => [](TypeOK /\ Queued /\ \A e \in Events : Scanned(e))
<1> DEFINE IInv == TypeOK /\ Queued /\ \A e \in Events : Scanned(e)
<1>1. Init => IInv
    <2>. SUFFICES ASSUME Init PROVE Queued /\ \A e \in Events : Scanned(e)
        BY TypeInitially
    <2>1. Queued
        BY DEF Init, Queued
    <2>2. ASSUME NEW e \in Events PROVE Scanned(e)
        BY <2>2 DEF Init, Scanned
    <2>. QED
        BY <2>1, <2>2
<1>2. IInv /\ [Next]_vars => IInv'
    BY TypeStep, QueuedStep, ScannedStep
<1>. QED
    BY <1>1, <1>2, PTL DEF Spec

(***************************************************************************)
(* NothingSkipped for blocks of any length and any content: an error of a  *)
(* strategy costs no later transaction of the block its turn.              *)
(***************************************************************************)
THEOREM ScansToTheEnd == Spec => []NothingSkipped
<1> DEFINE IInv == TypeOK /\ Queued /\ \A e \in Events : Scanned(e)
<1>1. IInv => NothingSkipped
    <2>. SUFFICES ASSUME IInv, NEW e \in Events, at[e] = "handled",
                         NEW i \in 1 .. Len(Content[e])
                  PROVE  Classified(e, i)
        BY DEF NothingSkipped, Classified
    <2>1. pos[e] \in Nat /\ Len(Content[e]) \in Nat /\ Scanned(e)
        BY EngineAssumption DEF TypeOK
    <2>2. i < pos[e]
        BY <2>1 DEF Scanned
    <2>. QED
        BY <2>1, <2>2 DEF Scanned
<1>. QED
    BY <1>1, ScansAreInvariant, PTL

-----------------------------------------------------------------------------
(***************************************************************************)
(* Which worker has which event: a worker is busy as long as it has one,   *)
(* it has no two, and an event that waits for its timer has no worker.     *)
(***************************************************************************)
Held(e) == by[e] \in Workers /\ at[e] \in InHand

Holding ==
    /\ \A e \in Events : at[e] = "waiting" => by[e] = Timer
    /\ \A e \in Events : Held(e) => worker[by[e]] = "busy"
    /\ \A e, f \in Events : Held(e) /\ Held(f) /\ by[e] = by[f] => e = f
    /\ \A w \in Workers : worker[w] = "busy" => \E e \in Events : by[e] = w /\ at[e] \in InHand

(* What a step of a controller does with its worker: keeps it, gives it    *)
(* back, stops it, or has none.                                            *)
LEMMA Hands ==
    ASSUME TypeOK, Holding, NEW e \in Events, Controller(e)
    PROVE  \/ /\ at[e] \in InHand /\ at'[e] \in InHand
              /\ by'[e] = by[e] /\ worker' = worker
           \/ /\ at[e] = "waiting" /\ by[e] = Timer
              /\ by'[e] = Timer /\ worker' = worker /\ at'[e] = "looking"
           \/ /\ at[e] \in InHand /\ by'[e] = Timer /\ worker' = Release(e)
           \/ /\ at[e] \in InHand /\ at'[e] = "panicked" /\ by'[e] = by[e]
              /\ worker' = IF by[e] = Timer THEN worker ELSE [worker EXCEPT ![by[e]] = "stopped"]
<1>1. CASE NotFound(e) \/ Failed(e) \/ Confirmed(e) \/ Finish(e)
    BY <1>1 DEF NotFound, Failed, Confirmed, Finish, Answered, Leaves, InHand, TypeOK
<1>2. CASE Fire(e)
    BY <1>2 DEF Fire, Holding, TypeOK
<1>3. CASE Found(e) \/ Classify(e)
    BY <1>3 DEF Found, Answered, Classify, Classifying, InHand, TypeOK
<1>4. CASE Panic(e)
    BY <1>4 DEF Panic, Classifying, InHand, TypeOK
<1>. QED
    BY <1>1, <1>2, <1>3, <1>4 DEF Controller

LEMMA HoldingController ==
    ASSUME TypeOK, Holding, NEW e \in Events, Controller(e)
    PROVE  Holding'
<1>0. /\ Timer \notin Workers
      /\ \A f \in Events : by[f] \in Workers \cup {Timer}
      /\ worker \in [Workers -> {"idle", "busy", "stopped"}]
    BY EngineAssumption DEF TypeOK
<1>1. \A f \in Events \ {e} : at'[f] = at[f] /\ by'[f] = by[f]
    BY OneEvent DEF Same
<1>2. CASE /\ at[e] \in InHand /\ at'[e] \in InHand
           /\ by'[e] = by[e] /\ worker' = worker
    <2>1. \A f \in Events : Held(f)' <=> Held(f)
        BY <1>1, <1>2 DEF Held
    <2>2. \A f \in Events : by'[f] = by[f] /\ (at'[f] = "waiting" => at[f] = "waiting")
        BY <1>1, <1>2 DEF InHand
    <2>3. \A w \in Workers, f \in Events :
              by[f] = w /\ at[f] \in InHand => by'[f] = w /\ at'[f] \in InHand
        BY <1>1, <1>2
    <2>. QED
        BY <1>2, <2>1, <2>2, <2>3 DEF Holding
<1>3. CASE /\ at[e] = "waiting" /\ by[e] = Timer
           /\ by'[e] = Timer /\ worker' = worker /\ at'[e] = "looking"
    <2>1. \A f \in Events : Held(f)' <=> Held(f)
        BY <1>0, <1>1, <1>3 DEF Held
    <2>2. \A f \in Events : by'[f] = by[f] /\ (at'[f] = "waiting" => at[f] = "waiting")
        BY <1>1, <1>3
    <2>3. \A w \in Workers, f \in Events :
              by[f] = w /\ at[f] \in InHand => by'[f] = w /\ at'[f] \in InHand
        BY <1>0, <1>1, <1>3
    <2>. QED
        BY <1>3, <2>1, <2>2, <2>3 DEF Holding
<1>4. CASE /\ at[e] \in InHand
           /\ \/ by'[e] = Timer /\ worker' = Release(e)
              \/ /\ at'[e] = "panicked" /\ by'[e] = by[e]
                 /\ worker' = IF by[e] = Timer THEN worker
                              ELSE [worker EXCEPT ![by[e]] = "stopped"]
    <2>1. \A f \in Events : Held(f)' => Held(f) /\ f # e /\ by'[f] = by[f]
        BY <1>0, <1>1, <1>4 DEF Held, InHand
    <2>2. \A w \in Workers :
              /\ w # by[e] => worker'[w] = worker[w]
              /\ w = by[e] => worker'[w] # "busy"
        BY <1>0, <1>4, Released
    <2>3. \A f \in Events : Held(f)' => by[f] # by[e]
        <3>. SUFFICES ASSUME NEW f \in Events, Held(f)', by[f] = by[e] PROVE FALSE
            OBVIOUS
        <3>1. Held(f) /\ Held(e) /\ f # e
            BY <1>4, <2>1 DEF Held
        <3>. QED
            BY <3>1 DEF Holding
    <2>4. \A f \in Events : at'[f] = "waiting" => by'[f] = Timer
        BY <1>1, <1>4 DEF Holding
    <2>5. \A f \in Events : Held(f)' => worker'[by'[f]] = "busy"
        BY <2>1, <2>2, <2>3 DEF Holding, Held
    <2>6. \A f, g \in Events : Held(f)' /\ Held(g)' /\ by'[f] = by'[g] => f = g
        BY <2>1 DEF Holding
    <2>7. \A w \in Workers : worker'[w] = "busy" =>
              \E f \in Events : by'[f] = w /\ at'[f] \in InHand
        <3>. SUFFICES ASSUME NEW w \in Workers, worker'[w] = "busy"
                      PROVE  \E f \in Events : by'[f] = w /\ at'[f] \in InHand
            OBVIOUS
        <3>1. w # by[e] /\ worker[w] = "busy"
            BY <2>2
        <3>2. PICK f \in Events : by[f] = w /\ at[f] \in InHand
            BY <3>1 DEF Holding
        <3>. QED
            BY <1>1, <3>1, <3>2
    <2>. QED
        BY <2>4, <2>5, <2>6, <2>7 DEF Holding
<1>. QED
    BY <1>2, <1>3, <1>4, Hands

LEMMA HoldingStep ==
    ASSUME TypeOK, Queued, Holding, [Next]_vars
    PROVE  Holding'
<1>0. /\ Timer \notin Workers
      /\ at \in [Events -> Progress \cup Outcomes]
      /\ by \in [Events -> Workers \cup {Timer}]
      /\ worker \in [Workers -> {"idle", "busy", "stopped"}]
    BY EngineAssumption DEF TypeOK
<1>1. CASE Aside
    BY <1>1 DEF Aside, Holding, Held
<1>2. ASSUME NEW e \in Events, Notify(e) \/ Miss(e) PROVE Holding'
    <2>1. /\ by' = by /\ worker' = worker /\ at[e] = "unseen"
          /\ \A f \in Events : \/ at'[f] = at[f]
                               \/ f = e /\ at'[f] \in {"queued", "missed"}
        BY <1>0, <1>2 DEF Notify, Miss
    <2>2. \A f \in Events : /\ at'[f] \in InHand <=> at[f] \in InHand
                            /\ at'[f] = "waiting" <=> at[f] = "waiting"
        BY <2>1 DEF InHand
    <2>. QED
        BY <2>1, <2>2 DEF Holding, Held
<1>3. ASSUME NEW e \in Events, Controller(e) PROVE Holding'
    BY <1>3, HoldingController
<1>4. ASSUME NEW w \in Workers, Take(w) PROVE Holding'
    <2> DEFINE e == Head(ch)
    <2>1. e \in Events /\ at[e] = "queued" /\ worker[w] = "idle"
        BY <1>4, Taken DEF Take
    <2>2. /\ at' = [at EXCEPT ![e] = "looking"] /\ by' = [by EXCEPT ![e] = w]
          /\ worker' = [worker EXCEPT ![w] = "busy"]
        BY <1>4 DEF Take
    <2>. HIDE DEF e
    <2>3. /\ \A f \in Events \ {e} : at'[f] = at[f] /\ by'[f] = by[f]
          /\ at'[e] = "looking" /\ by'[e] = w
          /\ \A v \in Workers \ {w} : worker'[v] = worker[v]
          /\ worker'[w] = "busy"
        BY <1>0, <2>1, <2>2
    <2>4. \A f \in Events : Held(f) => by[f] # w /\ f # e
        BY <2>1 DEF Holding, Held, InHand
    <2>5. \A f \in Events : Held(f)' <=> Held(f) \/ f = e
        BY <2>3, <2>4 DEF Held, InHand
    <2>6. \A f \in Events : at'[f] = "waiting" => by'[f] = Timer
        BY <2>3 DEF Holding
    <2>7. \A f \in Events : Held(f)' => worker'[by'[f]] = "busy"
        BY <2>3, <2>4, <2>5 DEF Holding, Held
    <2>8. \A f, g \in Events : Held(f)' /\ Held(g)' /\ by'[f] = by'[g] => f = g
        BY <2>3, <2>4, <2>5 DEF Holding
    <2>9. \A v \in Workers : worker'[v] = "busy" =>
              \E f \in Events : by'[f] = v /\ at'[f] \in InHand
        <3>. SUFFICES ASSUME NEW v \in Workers, worker'[v] = "busy", v # w
                      PROVE  \E f \in Events : by'[f] = v /\ at'[f] \in InHand
            BY <2>1, <2>3 DEF InHand
        <3>1. PICK f \in Events : by[f] = v /\ at[f] \in InHand
            BY <2>3 DEF Holding
        <3>2. f # e
            BY <2>1, <3>1 DEF InHand
        <3>. QED
            BY <2>3, <3>1, <3>2
    <2>. QED
        BY <2>6, <2>7, <2>8, <2>9 DEF Holding
<1>5. ASSUME NEW w \in Workers, Stop(w) PROVE Holding'
    <2>1. /\ at' = at /\ by' = by /\ worker[w] = "idle"
          /\ worker' = [worker EXCEPT ![w] = "stopped"]
        BY <1>5 DEF Stop
    <2>2. \A v \in Workers : worker'[v] = "busy" <=> worker[v] = "busy"
        BY <1>0, <2>1
    <2>. QED
        BY <2>1, <2>2 DEF Holding, Held
<1>. QED
    BY <1>1, <1>2, <1>3, <1>4, <1>5, Steps

(* All that is known of the channel and of the hands events are in.        *)
LEMMA HandsAreInvariant == Spec => [](TypeOK /\ Queued /\ Holding)
<1> DEFINE IInv == TypeOK /\ Queued /\ Holding
<1>1. Init => IInv
    <2>. SUFFICES ASSUME Init PROVE Queued /\ Holding
        BY TypeInitially
    <2>1. Queued
        BY DEF Init, Queued
    <2>2. Holding
        BY EngineAssumption DEF Init, Holding, Held, InHand
    <2>. QED
        BY <2>1, <2>2
<1>2. IInv /\ [Next]_vars => IInv'
    BY TypeStep, QueuedStep, HoldingStep
<1>. QED
    BY <1>1, <1>2, PTL DEF Spec

(***************************************************************************)
(* NoWorkerLeaks for any number of workers and events: whatever becomes of *)
(* an event, a retry included, its worker is back at the channel or has    *)
(* stopped.                                                                *)
(***************************************************************************)
THEOREM WorkersReturn == Spec => []NoWorkerLeaks
<1> DEFINE IInv == TypeOK /\ Queued /\ Holding
<1>1. IInv => NoWorkerLeaks
    <2>. SUFFICES ASSUME IInv, NEW w \in Workers
                  PROVE  worker[w] = "busy" <=>
                             Cardinality({e \in Events : by[e] = w /\ at[e] \in InHand}) = 1
        BY DEF NoWorkerLeaks
    <2> DEFINE Has == {e \in Events : by[e] = w /\ at[e] \in InHand}
    <2>1. CASE worker[w] = "busy"
        <3>1. PICK e \in Events : by[e] = w /\ at[e] \in InHand
            BY <2>1 DEF Holding
        <3>2. Has = {e}
            BY <3>1 DEF Holding, Held
        <3>. QED
            BY <2>1, <3>2, FS_Singleton
    <2>2. CASE worker[w] # "busy"
        <3>1. Has = {}
            BY <2>2 DEF Holding, Held
        <3>. QED
            BY <2>2, <3>1, FS_EmptySet
    <2>. QED
        BY <2>1, <2>2
<1>. QED
    BY <1>1, HandsAreInvariant, PTL
-----------------------------------------------------------------------------
(***************************************************************************)
(* With the cluster behind it the engine takes no step it does not take    *)
(* with one client: the cluster only adds guards and a state of its own.   *)
(***************************************************************************)
THEOREM ClusterIsTransparent == CSpec => Spec
<1>1. CInit => Init
    BY DEF CInit
<1>2. [CNext]_cvars => [Next]_vars
    <2>. SUFFICES ASSUME [CNext]_cvars PROVE [Next]_vars
        OBVIOUS
    <2>1. ASSUME NEW e \in Streamed, NodeStep(e) \/ Middle(e) \/ Looks(e) \/ Strategy(e) \/ Others(e)
          PROVE  [Next]_vars
        BY <2>1 DEF NodeStep, Middle, Looks, Strategy, Others, Next, Controller
    <2>2. CASE (\E w \in Workers : Take(w) \/ Stop(w)) \/ LoseSubscription \/ Resubscribe
        BY <2>2 DEF Next
    <2>3. CASE UNCHANGED cvars
        BY <2>3 DEF cvars
    <2>. QED
        BY <2>1, <2>2, <2>3 DEF CNext
<1>. QED
    BY <1>1, <1>2, PTL DEF CSpec, Spec

(***************************************************************************)
(* So whatever is proved of the engine holds with any number of delegates. *)
(***************************************************************************)
THEOREM ClusteredEngineKeepsItsPromises ==
    CSpec => [](TypeOK /\ NoWorkerLeaks /\ LookupsAreBounded /\ NothingSkipped)
BY ClusterIsTransparent, TypeCorrect, WorkersReturn, LookupsEnd, ScansToTheEnd, PTL

(* What is assumed of the cluster.                                         *)
LEMMA Numbering ==
    /\ N \in Nat \ {0} /\ Word \in Nat \ {0, 1}
    /\ Earlier \subseteq 1 .. Word - 1
    /\ NoNumber \notin Nat
BY ClusteredAssumption DEF C!ClusterAssumption

(* The only steps that concern the cluster are the cluster's.              *)
LEMMA ClusterSteps ==
    ASSUME [CNext]_cvars
    PROVE  \/ UNCHANGED cluster
           \/ \E e \in Events : C!Lock(e) \/ C!Decorate(e)
           \/ \E e \in Events : \E used \in SUBSET C!Contexts : C!Query(e, used)
<1>1. ASSUME NEW e \in Streamed, Looks(e) \/ Strategy(e)
      PROVE  UNCHANGED cluster \/ \E used \in SUBSET C!Contexts : C!Query(e, used)
    BY <1>1 DEF Looks, Strategy, RetryContext, cluster, C!Contexts
<1>. QED
    BY <1>1 DEF CNext, cvars, cluster, NodeStep, Middle, Others, Streamed, Events

-----------------------------------------------------------------------------
(***************************************************************************)
(* Who has asked has a number, if there is a choice of delegates, and has  *)
(* asked the delegate its context stands for.                              *)
(***************************************************************************)
Kept == \A s \in served :
    /\ C!Ready(s[1])
    /\ s[3] = C!delegateAt(C!Value(s[1], s[2]))

(* A number, once given, stays: NewLoadBalancedContext is called once for  *)
(* each event, and a retry derives its context from the event's.           *)
LEMMA KeptStep ==
    ASSUME served \subseteq Events \X C!Contexts \X Nat, number \in [Events -> Nat \cup {NoNumber}],
           \A u \in inside : number[u] = NoNumber,
           Kept, [CNext]_cvars
    PROVE  Kept'
<1>1. CASE UNCHANGED cluster
    BY <1>1 DEF cluster, Kept, C!Ready, C!delegateAt, C!Value
<1>2. ASSUME NEW e \in Events, C!Lock(e) PROVE Kept'
    BY <1>2 DEF C!Lock, Kept, C!Ready, C!delegateAt, C!Value
<1>3. ASSUME NEW e \in Events, C!Decorate(e) PROVE Kept'
    <2>1. /\ served' = served /\ number[e] = NoNumber
          /\ \A f \in Events \ {e} : number'[f] = number[f]
        BY <1>3 DEF C!Decorate
    <2>2. CASE N = 1
        BY <2>1, <2>2 DEF Kept, C!Ready, C!delegateAt
    <2>3. CASE N # 1
        <3>1. \A s \in served : s[1] \in Events \ {e}
            BY <2>1, <2>3 DEF Kept, C!Ready
        <3>. QED
            BY <2>1, <2>3, <3>1 DEF Kept, C!Ready, C!delegateAt, C!Value
    <2>. QED
        BY <2>2, <2>3
<1>4. ASSUME NEW e \in Events, NEW used \in SUBSET C!Contexts, C!Query(e, used) PROVE Kept'
    <2>1. /\ number' = number /\ C!Ready(e)
          /\ \A s \in served' \ served : s[1] = e /\ s[3] = C!delegateAt(C!Value(e, s[2]))
        BY <1>4 DEF C!Query
    <2>. QED
        BY <2>1 DEF Kept, C!Ready, C!delegateAt, C!Value
<1>. QED
    BY <1>1, <1>2, <1>3, <1>4, ClusterSteps

-----------------------------------------------------------------------------
(***************************************************************************)
(* Division by the number of delegates.                                    *)
(***************************************************************************)
LEMMA Quotient ==
    ASSUME NEW m \in Nat
    PROVE  m \div N \in Nat /\ m % N \in 0 .. N - 1 /\ m = N * (m \div N) + (m % N)
BY Numbering

LEMMA Multiples ==
    ASSUME NEW a \in Nat, NEW b \in Nat, a < b
    PROVE  N * a + N <= N * b
BY Numbering

(* There is one quotient and one remainder.                                *)
LEMMA Remainder ==
    ASSUME NEW m \in Nat, NEW q \in Nat, NEW r \in 0 .. N - 1, m = N * q + r
    PROVE  m % N = r
<1> DEFINE p == m \div N
           s == m % N
<1>1. p \in Nat /\ s \in 0 .. N - 1 /\ m = N * p + s
    BY Quotient
<1>. HIDE DEF p, s
<1>2. N * p \in Nat /\ N * q \in Nat
    BY <1>1, Numbering
<1>3. ~(q < p) /\ ~(p < q)
    BY <1>1, <1>2, Multiples, Numbering
<1>. QED
    BY <1>1, <1>2, <1>3, Numbering DEF s

(* The next number stands for the next delegate, and after the last one    *)
(* for the first.                                                          *)
LEMMA NextDelegate ==
    ASSUME NEW n \in Nat
    PROVE  (n + 1) % N = IF n % N = N - 1 THEN 0 ELSE (n % N) + 1
<1> DEFINE p == n \div N
           s == n % N
<1>1. p \in Nat /\ s \in 0 .. N - 1 /\ n = N * p + s
    BY Quotient
<1>. HIDE DEF p, s
<1>2. CASE s = N - 1
    <2>1. N * (p + 1) = N * p + N
        BY <1>1, Numbering
    <2>2. N * p \in Nat
        BY <1>1, Numbering
    <2>3. n + 1 = N * (p + 1) + 0 /\ p + 1 \in Nat
        BY <1>1, <1>2, <2>1, <2>2, Numbering
    <2>4. n + 1 \in Nat /\ 0 \in 0 .. N - 1
        BY Numbering
    <2>5. (n + 1) % N = 0
        BY <2>3, <2>4, Remainder, Zenon
    <2>. QED
        BY <1>2, <2>5 DEF s
<1>3. CASE s # N - 1
    <2>1. N * p \in Nat
        BY <1>1, Numbering
    <2>2. n + 1 = N * p + (s + 1) /\ s + 1 \in 0 .. N - 1
        BY <1>1, <1>3, <2>1, Numbering
    <2>3. (n + 1) % N = s + 1
        BY <1>1, <2>2, Remainder
    <2>. QED
        BY <1>3, <2>3 DEF s
<1>. QED
    BY <1>2, <1>3 DEF s

(* The counter overflows after its last value only.                        *)
LEMMA NextNumber ==
    ASSUME NEW n \in 0 .. Word - 1
    PROVE  C!Incremented(n) = IF n = Word - 1 THEN 0 ELSE n + 1
BY Numbering DEF C!Incremented

LEMMA NoRemainder == 0 % N = 0
BY Numbering

-----------------------------------------------------------------------------
(***************************************************************************)
(* The state of the cluster.  The counter is a word, and the contexts that *)
(* have a number are finitely many.                                        *)
(***************************************************************************)
Numbered == {u \in Events : number[u] # NoNumber}

ClusterTyping ==
    /\ count \in 0 .. Word - 1
    /\ inside \subseteq Events
    /\ seen \in [Events -> 0 .. Word - 1]
    /\ number \in [Events -> 0 .. Word - 1 \cup {NoNumber}]
    /\ served \subseteq Events \X C!Contexts \X Nat
    /\ wraps \in Nat
    /\ IsFiniteSet(Numbered)

(***************************************************************************)
(* The mutex: one user at a time is inside, has read what the counter      *)
(* still is, and has no number yet.                                        *)
(***************************************************************************)
Serial ==
    /\ inside # {} => N > 1
    /\ \A u \in inside : inside = {u} /\ seen[u] = count /\ number[u] = NoNumber

LEMMA ClusterInitially == C!Init => ClusterTyping /\ Serial /\ Kept
<1>. SUFFICES ASSUME C!Init PROVE ClusterTyping /\ Serial /\ Kept
    OBVIOUS
<1>1. count \in 0 .. Word - 1 /\ 0 \in 0 .. Word - 1
    BY Numbering DEF C!Init
<1>2. IsFiniteSet(Numbered)
    <2>1. Numbered = {}
        BY DEF C!Init, Numbered
    <2>. QED
        BY <2>1, FS_EmptySet
<1>. QED
    BY <1>1, <1>2 DEF C!Init, ClusterTyping, Serial, Kept

(* The user inside takes the number that comes after the counter.          *)
LEMMA Numbers ==
    ASSUME ClusterTyping, Serial, NEW e \in Events, C!Decorate(e)
    PROVE  LET n == C!Incremented(count) IN
           /\ n \in 0 .. Word - 1 /\ count' = n /\ N > 1 /\ number[e] = NoNumber
           /\ number' = [number EXCEPT ![e] = n]
           /\ wraps' = IF n = 0 THEN wraps + 1 ELSE wraps
           /\ inside' = {} /\ seen' = [seen EXCEPT ![e] = 0] /\ served' = served
<1>1. C!Incremented(count) \in 0 .. Word - 1
    BY NextNumber, Numbering DEF ClusterTyping
<1>2. seen[e] = count /\ inside = {e} /\ number[e] = NoNumber /\ N > 1
    BY DEF C!Decorate, Serial
<1>. QED
    BY <1>1, <1>2 DEF C!Decorate

LEMMA ClusterStep ==
    ASSUME ClusterTyping, Serial, [CNext]_cvars
    PROVE  ClusterTyping' /\ Serial'
<1>0. N \in Nat /\ 0 \in 0 .. Word - 1 /\ NoNumber \notin 0 .. Word - 1
    BY Numbering
<1>1. CASE UNCHANGED cluster
    BY <1>1 DEF cluster, ClusterTyping, Serial, Numbered
<1>2. ASSUME NEW e \in Events, C!Lock(e) PROVE ClusterTyping' /\ Serial'
    <2>1. Numbered' = Numbered
        BY <1>2 DEF C!Lock, Numbered
    <2>. QED
        BY <1>2, <2>1 DEF C!Lock, C!MutexAvailable, ClusterTyping, Serial
<1>3. ASSUME NEW e \in Events, C!Decorate(e) PROVE ClusterTyping' /\ Serial'
    <2> DEFINE n == C!Incremented(count)
    <2>1. /\ n \in 0 .. Word - 1 /\ count' = n /\ number' = [number EXCEPT ![e] = n]
          /\ wraps' = IF n = 0 THEN wraps + 1 ELSE wraps
          /\ inside' = {} /\ seen' = [seen EXCEPT ![e] = 0] /\ served' = served
        BY <1>3, Numbers
    <2>. HIDE DEF n
    <2>2. Numbered' = Numbered \cup {e}
        BY <1>0, <2>1 DEF Numbered, ClusterTyping
    <2>3. IsFiniteSet(Numbered')
        BY <2>2, FS_AddElement DEF ClusterTyping
    <2>. QED
        BY <1>0, <2>1, <2>3 DEF ClusterTyping, Serial
<1>4. ASSUME NEW e \in Events, NEW used \in SUBSET C!Contexts, C!Query(e, used)
      PROVE  ClusterTyping' /\ Serial'
    <2>1. \A ctx \in C!Contexts : C!delegateAt(C!Value(e, ctx)) \in Nat
        <3>1. \A ctx \in C!Contexts : C!Value(e, ctx) = NoNumber \/ C!Value(e, ctx) \in Nat
            BY <1>0 DEF C!Value, ClusterTyping
        <3>2. \A n \in Nat : n % N \in Nat
            BY Quotient, <1>0
        <3>. QED
            BY <3>1, <3>2 DEF C!delegateAt
    <2>2. served' \subseteq Events \X C!Contexts \X Nat
        BY <1>4, <2>1 DEF C!Query, ClusterTyping
    <2>. QED
        BY <1>4, <2>2 DEF C!Query, ClusterTyping, Serial, Numbered
<1>. QED
    BY <1>1, <1>2, <1>3, <1>4, ClusterSteps

LEMMA ClusterIsInvariant == CSpec => [](ClusterTyping /\ Serial /\ Kept)
<1> DEFINE IInv == ClusterTyping /\ Serial /\ Kept
<1>1. CInit => IInv
    BY ClusterInitially DEF CInit
<1>2. IInv /\ [CNext]_cvars => IInv'
    <2>1. ClusterTyping => /\ number \in [Events -> Nat \cup {NoNumber}]
                           /\ served \subseteq Events \X C!Contexts \X Nat
        BY DEF ClusterTyping
    <2>2. Serial => \A u \in inside : number[u] = NoNumber
        BY DEF Serial
    <2>. QED
        BY <2>1, <2>2, KeptStep, ClusterStep
<1>. QED
    BY <1>1, <1>2, PTL DEF CSpec

(***************************************************************************)
(* StickyDelegate for any number of delegates and events, however their    *)
(* lookups, retries and first contexts interleave: whatever is asked with  *)
(* the context of an event is asked of one delegate.                       *)
(***************************************************************************)
THEOREM OneDelegate == CSpec => []StickyDelegate
<1>1. Kept => StickyDelegate
    BY DEF Kept, StickyDelegate, C!StickyDelegate, C!Value
<1>. QED
    BY <1>1, ClusterIsInvariant, PTL

-----------------------------------------------------------------------------
(***************************************************************************)
(* A context with number n adds to the load of one delegate.               *)
(***************************************************************************)
LEMMA LoadTyping ==
    ASSUME ClusterTyping, NEW d
    PROVE  C!Load(d) \in Nat
<1> DEFINE Carried == {u \in Events : number[u] # NoNumber /\ number[u] % N = d}
<1>1. Carried \in SUBSET Numbered
    BY DEF Numbered
<1>2. IsFiniteSet(Carried)
    BY <1>1, FS_Subset DEF ClusterTyping
<1>. QED
    BY <1>2, FS_CardinalityType DEF C!Load, C!Cardinality, Cardinality

LEMMA LoadStep ==
    ASSUME ClusterTyping, NEW e \in Events, number[e] = NoNumber,
           NEW n \in 0 .. Word - 1, number' = [number EXCEPT ![e] = n], NEW d
    PROVE  C!Load(d)' = IF d = n % N THEN C!Load(d) + 1 ELSE C!Load(d)
<1> DEFINE Carried == {u \in Events : number[u] # NoNumber /\ number[u] % N = d}
           After == {u \in Events : number'[u] # NoNumber /\ number'[u] % N = d}
<1>1. Carried \in SUBSET Numbered /\ e \notin Carried
    BY DEF Numbered
<1>2. IsFiniteSet(Carried)
    BY <1>1, FS_Subset DEF ClusterTyping
<1>3. /\ number'[e] = n /\ n # NoNumber
      /\ \A u \in Events \ {e} : number'[u] = number[u]
    BY Numbering DEF ClusterTyping
<1>4. After = IF d = n % N THEN Carried \cup {e} ELSE Carried
    BY <1>1, <1>3
<1>5. C!Load(d) = Cardinality(Carried) /\ C!Load(d)' = Cardinality(After)
    BY DEF C!Load, C!Cardinality, Cardinality
<1>. HIDE DEF Carried, After
<1>. QED
    BY <1>1, <1>2, <1>4, <1>5, FS_AddElement

-----------------------------------------------------------------------------
(***************************************************************************)
(* Delegate d has got its number in the round that number n belongs to.    *)
(***************************************************************************)
Lead(n, d) == IF d <= n % N THEN 1 ELSE 0

(* Within a round the delegates lead in their order.                       *)
LEMMA LeadOrder ==
    ASSUME NEW n \in Nat, NEW c \in 0 .. N - 1, NEW d \in 0 .. N - 1
    PROVE  /\ Lead(n, c) \in {0, 1}
           /\ Lead(n, 0) = 1
           /\ c <= d => Lead(n, d) <= Lead(n, c)
<1>1. n % N \in 0 .. N - 1
    BY Quotient
<1>. QED
    BY <1>1, Numbering DEF Lead

LEMMA LeadAtZero ==
    ASSUME NEW d \in 0 .. N - 1
    PROVE  Lead(0, d) = IF d = 0 THEN 1 ELSE 0
BY NoRemainder, Numbering DEF Lead

(* The next number moves one delegate ahead of the others.                 *)
LEMMA LeadStep ==
    ASSUME NEW n \in Nat, NEW c \in 0 .. N - 1, NEW d \in 0 .. N - 1
    PROVE  (Lead(n + 1, c) - Lead(n + 1, d)) - (Lead(n, c) - Lead(n, d))
               = (IF c = (n + 1) % N THEN 1 ELSE 0) - (IF d = (n + 1) % N THEN 1 ELSE 0)
<1> DEFINE r == n % N
           s == (n + 1) % N
<1>1. r \in 0 .. N - 1 /\ s = IF r = N - 1 THEN 0 ELSE r + 1
    BY Quotient, NextDelegate
<1>2. /\ \A x \in {c, d} : Lead(n, x) = IF x <= r THEN 1 ELSE 0
      /\ \A x \in {c, d} : Lead(n + 1, x) = IF x <= s THEN 1 ELSE 0
    BY DEF Lead
<1>. HIDE DEF r, s
<1>3. CASE r = N - 1
    BY <1>1, <1>2, <1>3, Numbering DEF s
<1>4. CASE r # N - 1
    BY <1>1, <1>2, <1>4, Numbering DEF s
<1>. QED
    BY <1>3, <1>4

(***************************************************************************)
(* Until the counter overflows the loads are exactly what a round robin    *)
(* that began after some number f makes them; after that each overflow     *)
(* may have added one.                                                     *)
(***************************************************************************)
RoundRobin(f) == \A c, d \in 0 .. N - 1 :
    C!Load(c) - C!Load(d) = (Lead(count, c) - Lead(f, c)) - (Lead(count, d) - Lead(f, d))

Drift == \A c, d \in 0 .. N - 1 :
    C!Load(c) - C!Load(d) <= wraps + Lead(count, c) - Lead(count, d)

Loads == IF wraps = 0 THEN \E f \in Nat : RoundRobin(f) ELSE Drift

LEMMA LoadsInitially == C!Init => Loads
<1>. SUFFICES ASSUME C!Init PROVE Loads
    OBVIOUS
<1>1. count \in Nat /\ wraps = 0
    BY Numbering DEF C!Init
<1>2. \A d : C!Load(d) = 0
    <2>1. \A d : {u \in Events : number[u] # NoNumber /\ number[u] % N = d} = {}
        BY DEF C!Init
    <2>. QED
        BY <2>1, FS_EmptySet DEF C!Load, C!Cardinality, Cardinality
<1>3. RoundRobin(count)
    BY <1>1, <1>2, LeadOrder DEF RoundRobin
<1>. QED
    BY <1>1, <1>3 DEF Loads

(* A context that is numbered without an overflow.                         *)
LEMMA LoadsIncrement ==
    ASSUME ClusterTyping, Loads, NEW e \in Events, number[e] = NoNumber,
           count + 1 \in 0 .. Word - 1, count' = count + 1, wraps' = wraps,
           number' = [number EXCEPT ![e] = count + 1]
    PROVE  Loads'
<1>1. count \in Nat /\ wraps \in Nat
    BY DEF ClusterTyping
<1>2. ASSUME NEW c \in 0 .. N - 1, NEW d \in 0 .. N - 1
      PROVE  /\ C!Load(c) \in Nat /\ C!Load(d) \in Nat
             /\ C!Load(c)' \in Nat /\ C!Load(d)' \in Nat
             /\ \A n \in {count, count + 1}, x \in {c, d} : Lead(n, x) \in {0, 1}
             /\ (C!Load(c)' - C!Load(d)') - (C!Load(c) - C!Load(d))
                    = (Lead(count + 1, c) - Lead(count + 1, d)) - (Lead(count, c) - Lead(count, d))
    <2>1. C!Load(c) \in Nat /\ C!Load(d) \in Nat
        BY LoadTyping
    <2>2. /\ C!Load(c)' = IF c = (count + 1) % N THEN C!Load(c) + 1 ELSE C!Load(c)
          /\ C!Load(d)' = IF d = (count + 1) % N THEN C!Load(d) + 1 ELSE C!Load(d)
        BY LoadStep
    <2>3. \A n \in {count, count + 1}, x \in {c, d} : Lead(n, x) \in {0, 1}
        BY <1>1, LeadOrder
    <2>4. (Lead(count + 1, c) - Lead(count + 1, d)) - (Lead(count, c) - Lead(count, d))
              = (IF c = (count + 1) % N THEN 1 ELSE 0) - (IF d = (count + 1) % N THEN 1 ELSE 0)
        BY <1>1, LeadStep
    <2> DEFINE s == (count + 1) % N
    <2>. HIDE DEF s
    <2>5. /\ C!Load(c)' = IF c = s THEN C!Load(c) + 1 ELSE C!Load(c)
          /\ C!Load(d)' = IF d = s THEN C!Load(d) + 1 ELSE C!Load(d)
          /\ (Lead(count + 1, c) - Lead(count + 1, d)) - (Lead(count, c) - Lead(count, d))
                = (IF c = s THEN 1 ELSE 0) - (IF d = s THEN 1 ELSE 0)
        BY <2>2, <2>4 DEF s
    <2>. QED
        BY <2>1, <2>3, <2>5
<1>3. CASE wraps = 0
    <2>1. PICK f \in Nat : RoundRobin(f)
        BY <1>3 DEF Loads
    <2>2. RoundRobin(f)'
        <3>. SUFFICES ASSUME NEW c \in 0 .. N - 1, NEW d \in 0 .. N - 1
                      PROVE  C!Load(c)' - C!Load(d)' = (Lead(count', c) - Lead(f, c))
                                                        - (Lead(count', d) - Lead(f, d))
            BY DEF RoundRobin, Lead
        <3>1. C!Load(c) - C!Load(d) = (Lead(count, c) - Lead(f, c)) - (Lead(count, d) - Lead(f, d))
            BY <2>1 DEF RoundRobin
        <3>2. Lead(f, c) \in {0, 1} /\ Lead(f, d) \in {0, 1}
            BY LeadOrder
        <3>. QED
            BY <1>2, <3>1, <3>2
    <2>. QED
        BY <1>3, <2>2 DEF Loads
<1>4. CASE wraps # 0
    <2>1. Drift'
        <3>. SUFFICES ASSUME NEW c \in 0 .. N - 1, NEW d \in 0 .. N - 1
                      PROVE  C!Load(c)' - C!Load(d)' <= wraps + Lead(count', c) - Lead(count', d)
            BY DEF Drift, Lead
        <3>1. C!Load(c) - C!Load(d) <= wraps + Lead(count, c) - Lead(count, d)
            BY <1>4 DEF Loads, Drift
        <3>. QED
            BY <1>1, <1>2, <3>1
    <2>. QED
        BY <1>4, <2>1 DEF Loads
<1>. QED
    BY <1>3, <1>4

(* An overflow: number 0 goes to the first delegate, out of its turn.      *)
LEMMA LoadsOverflow ==
    ASSUME ClusterTyping, Loads, NEW e \in Events, number[e] = NoNumber,
           count' = 0, wraps' = wraps + 1, number' = [number EXCEPT ![e] = 0]
    PROVE  Loads'
<1>1. count \in Nat /\ wraps \in Nat /\ 0 \in 0 .. Word - 1 /\ 0 \in 0 .. N - 1
    BY Numbering DEF ClusterTyping
<1>2. ASSUME NEW c \in 0 .. N - 1, NEW d \in 0 .. N - 1
      PROVE  C!Load(c)' - C!Load(d)' <= wraps + 1 + Lead(0, c) - Lead(0, d)
    <2>1. C!Load(c) \in Nat /\ C!Load(d) \in Nat
        BY LoadTyping
    <2>2. /\ C!Load(c)' = IF c = 0 THEN C!Load(c) + 1 ELSE C!Load(c)
          /\ C!Load(d)' = IF d = 0 THEN C!Load(d) + 1 ELSE C!Load(d)
        BY <1>1, LoadStep, NoRemainder
    <2>3. /\ Lead(0, c) = IF c = 0 THEN 1 ELSE 0
          /\ Lead(0, d) = IF d = 0 THEN 1 ELSE 0
        BY LeadAtZero
    <2>4. /\ Lead(count, c) \in {0, 1} /\ Lead(count, d) \in {0, 1}
          /\ c = 0 => Lead(count, c) = 1
          /\ d = 0 => Lead(count, d) = 1
          /\ c <= d => Lead(count, d) <= Lead(count, c)
          /\ d <= c => Lead(count, c) <= Lead(count, d)
        BY <1>1, LeadOrder
    <2>5. CASE wraps = 0
        <3>1. PICK f \in Nat : RoundRobin(f)
            BY <2>5 DEF Loads
        <3>2. C!Load(c) - C!Load(d) = (Lead(count, c) - Lead(f, c)) - (Lead(count, d) - Lead(f, d))
            BY <3>1 DEF RoundRobin
        <3>3. /\ Lead(f, c) \in {0, 1} /\ Lead(f, d) \in {0, 1}
              /\ c = 0 => Lead(f, c) = 1
              /\ d = 0 => Lead(f, d) = 1
              /\ c <= d => Lead(f, d) <= Lead(f, c)
              /\ d <= c => Lead(f, c) <= Lead(f, d)
            BY LeadOrder
        <3>. QED
            BY <2>1, <2>2, <2>3, <2>4, <2>5, <3>2, <3>3
    <2>6. CASE wraps # 0
        <3>1. C!Load(c) - C!Load(d) <= wraps + Lead(count, c) - Lead(count, d)
            BY <2>6 DEF Loads, Drift
        <3>. QED
            BY <1>1, <2>1, <2>2, <2>3, <2>4, <3>1
    <2>. QED
        BY <2>5, <2>6
<1>3. Drift'
    BY <1>2 DEF Drift, Lead
<1>. QED
    BY <1>1, <1>3 DEF Loads

LEMMA LoadsStay ==
    ASSUME ClusterTyping, Serial, Loads, [CNext]_cvars
    PROVE  Loads'
<1>1. ASSUME UNCHANGED <<count, number, wraps>> PROVE Loads'
    <2>1. \A d : C!Load(d)' = C!Load(d)
        BY <1>1 DEF C!Load
    <2>2. (\A f : RoundRobin(f)' <=> RoundRobin(f)) /\ (Drift' <=> Drift)
        BY <1>1, <2>1 DEF RoundRobin, Drift, Lead
    <2>. QED
        BY <1>1, <2>2 DEF Loads
<1>2. ASSUME NEW e \in Events, C!Decorate(e) PROVE Loads'
    <2>1. CASE count = Word - 1
        <3>1. C!Incremented(count) = 0
            BY <2>1, NextNumber DEF ClusterTyping
        <3>. QED
            BY <1>2, <3>1, Numbers, LoadsOverflow
    <2>2. CASE count # Word - 1
        <3>1. C!Incremented(count) = count + 1 /\ count + 1 # 0
            BY <2>2, NextNumber DEF ClusterTyping
        <3>. QED
            BY <1>2, <3>1, Numbers, LoadsIncrement
    <2>. QED
        BY <2>1, <2>2
<1>. QED
    BY <1>1, <1>2, ClusterSteps DEF cluster, C!Lock, C!Query

(***************************************************************************)
(* Balanced for any number of delegates and any word: of two delegates one *)
(* gets at most one event more than the other, and one more for each       *)
(* overflow, whoever waits for the mutex.                                  *)
(***************************************************************************)
THEOREM LoadIsSpread == CSpec => []Balanced
<1> DEFINE IInv == ClusterTyping /\ Serial /\ Kept
<1>1. CInit => Loads
    BY LoadsInitially DEF CInit
<1>2. IInv /\ Loads /\ [CNext]_cvars => Loads'
    BY LoadsStay
<1>3. IInv /\ Loads => Balanced
    <2>. SUFFICES ASSUME IInv, Loads, NEW c \in 0 .. N - 1, NEW d \in 0 .. N - 1
                  PROVE  C!Load(c) <= C!Load(d) + 1 + wraps
        BY DEF Balanced, C!Balanced
    <2>1. count \in Nat /\ wraps \in Nat
        BY DEF ClusterTyping
    <2>2. C!Load(c) \in Nat /\ C!Load(d) \in Nat
        BY LoadTyping
    <2>3. \A n \in Nat : /\ Lead(n, c) \in {0, 1} /\ Lead(n, d) \in {0, 1}
                         /\ c <= d => Lead(n, d) <= Lead(n, c)
                         /\ d <= c => Lead(n, c) <= Lead(n, d)
        BY LeadOrder
    <2>4. CASE wraps = 0
        <3>1. PICK f \in Nat : RoundRobin(f)
            BY <2>4 DEF Loads
        <3>2. C!Load(c) - C!Load(d) = (Lead(count, c) - Lead(f, c)) - (Lead(count, d) - Lead(f, d))
            BY <3>1 DEF RoundRobin
        <3>. QED
            BY <2>1, <2>2, <2>3, <2>4, <3>2
    <2>5. CASE wraps # 0
        <3>1. C!Load(c) - C!Load(d) <= wraps + Lead(count, c) - Lead(count, d)
            BY <2>5 DEF Loads, Drift
        <3>. QED
            BY <2>1, <2>2, <2>3, <3>1
    <2>. QED
        BY <2>4, <2>5
<1>. QED
    BY <1>1, <1>2, <1>3, ClusterIsInvariant, PTL DEF CSpec
=============================================================================
