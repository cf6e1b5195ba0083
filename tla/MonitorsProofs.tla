--------------------------- MODULE MonitorsProofs ---------------------------
(***************************************************************************)
(* Monitors for any number of transactions and of goroutines: nothing is   *)
(* lost or shown twice between the buffer and the monitors, except by a    *)
(* panic, and a panic costs a goroutine and one transaction.               *)
(***************************************************************************)
EXTENDS Monitors, FiniteSetTheorems, TLAPS

(* The two monitors, and the lists of them there are.                      *)
Kinds == {"address", "whale"}

LEMMA ListFacts ==
    ASSUME list \in Lists
    PROVE  /\ list \in Seq(Kinds)
           /\ Len(list) \in 0 .. 2
           /\ Len(list) = 0 <=> list = <<>>
           /\ \A i \in 1 .. Len(list) : list[i] \in Kinds
<1>1. CASE list = <<>>
    BY <1>1
<1>2. CASE list = <<"address">>
    BY <1>2 DEF Kinds
<1>3. CASE list = <<"whale">>
    BY <1>3 DEF Kinds
<1>4. CASE list = <<"address", "whale">>
    BY <1>4 DEF Kinds
<1>. QED
    BY <1>1, <1>2, <1>3, <1>4 DEF Lists

-----------------------------------------------------------------------------
(***************************************************************************)
(* The invariant.  Batches are counted, at first, by any number.           *)
(***************************************************************************)
Typing ==
    /\ list \in Lists
    /\ threshold \in Thresholds
    /\ mut \in Entries \cup {Flusher, Free}
    /\ buf \subseteq Entries
    /\ read \in [Entries \cup {Flusher} -> SUBSET Entries]
    /\ caller \in [Entries -> {"idle", "ignored", "locking", "appending", "pushed"}]
    /\ tick \in BOOLEAN /\ flushing \in BOOLEAN
    /\ ch \in [Numbers -> SUBSET Entries]
    /\ life \in [Jobs -> {"unborn", "running", "ended", "panicked"}]
    /\ hand \in [Jobs -> Entries \cup {None}]
    /\ next \in [Jobs -> 1 .. 2]
    /\ runs \in [Entries -> Seq(Kinds)]
    /\ reported \subseteq Kinds \X Entries

(* Whoever has read the buffer holds the mutex, so what he read is current.*)
Locked ==
    /\ \A e \in Entries : caller[e] = "appending" => mut = e /\ read[e] = buf
    /\ flushing => mut = Flusher /\ read[Flusher] = buf

(* A transaction is in one place at a time, and has been shown to the      *)
(* monitors its goroutine is through with.                                 *)
Nowhere(e) ==
    /\ \A n \in Numbers : e \notin ch[n]
    /\ \A j \in Jobs : hand[j] # e

NotPushed(e) ==
    /\ caller[e] \notin {"idle", "ignored"} => list # <<>>
    /\ caller[e] # "pushed" => runs[e] = <<>> /\ e \notin buf /\ Nowhere(e)

InBuffer(e) == e \in buf => runs[e] = <<>> /\ Nowhere(e)

InChannel(n) == \A e \in ch[n] :
    /\ n <= batches
    /\ runs[e] = <<>>
    /\ \A m \in Numbers : e \in ch[m] => m = n
    /\ \A j \in Jobs : hand[j] # e

InHand(j) ==
    /\ hand[j] = None => next[j] = 1
    /\ hand[j] # None =>
          /\ life[j] = "running"
          /\ next[j] <= Len(list)
          /\ Len(runs[hand[j]]) = next[j] - 1
          /\ \A k \in Jobs : hand[k] = hand[j] => k = j
    /\ life[j] # "unborn" => j[1] <= batches
    /\ life[j] = "ended" => ch[j[1]] = {}

Places ==
    /\ \A e \in Entries : NotPushed(e) /\ InBuffer(e)
    /\ \A n \in Numbers : InChannel(n)
    /\ \A j \in Jobs : InHand(j)

(* There have been at most as many batches as transactions in them.        *)
Gone == {e \in Entries : caller[e] = "pushed" /\ e \notin buf}

Batches == batches \in Nat /\ batches <= Cardinality(Gone)

Base == Typing /\ Locked /\ Places /\ Batches

LEMMA EntryCount ==
    /\ IsFiniteSet(Entries) /\ Cardinality(Entries) \in Nat
    /\ \A S \in SUBSET Entries : IsFiniteSet(S) /\ Cardinality(S) \in Nat
                                 /\ Cardinality(S) <= Cardinality(Entries)
<1>1. IsFiniteSet(Entries)
    BY MonitorsAssumption
<1>2. ASSUME NEW S \in SUBSET Entries
      PROVE  IsFiniteSet(S) /\ Cardinality(S) \in Nat /\ Cardinality(S) <= Cardinality(Entries)
    BY <1>1, <1>2, FS_Subset, FS_CardinalityType
<1>. QED
    BY <1>1, <1>2, FS_CardinalityType

(***************************************************************************)
(* The calls of Monitor and the ticker.                                    *)
(***************************************************************************)
LEMMA BaseMonitor ==
    ASSUME Base, NEW e \in Entries, Monitor(e)
    PROVE  Base'
<1>0. /\ caller' = [caller EXCEPT ![e] = IF list = <<>> THEN "ignored" ELSE "locking"]
      /\ caller[e] = "idle"
      /\ UNCHANGED <<list, threshold, mut, buf, read, tick, flushing, batches, ch, life, hand, next, runs, reported>>
    BY DEF Monitor, config, work
<1>1. Typing'
    BY <1>0 DEF Base, Typing
<1>2. Locked'
    BY <1>0 DEF Base, Typing, Locked
<1>3. Places'
    <2>1. ASSUME NEW f \in Entries PROVE NotPushed(f)' /\ InBuffer(f)'
        <3>1. NotPushed(f) /\ InBuffer(f)
            BY DEF Base, Places
        <3>2. /\ caller'[f] = "pushed" <=> caller[f] = "pushed"
              /\ caller'[f] \notin {"idle", "ignored"} =>
                    caller[f] \notin {"idle", "ignored"} \/ list # <<>>
            BY <1>0 DEF Base, Typing
        <3>. QED
            BY <1>0, <3>1, <3>2 DEF NotPushed, InBuffer, Nowhere
    <2>2. \A n \in Numbers : InChannel(n)'
        BY <1>0 DEF Base, Places, InChannel
    <2>3. \A j \in Jobs : InHand(j)'
        BY <1>0 DEF Base, Places, InHand
    <2>. QED
        BY <2>1, <2>2, <2>3 DEF Places
<1>4. Gone' = Gone
    BY <1>0 DEF Base, Typing, Gone
<1>. QED
    BY <1>0, <1>1, <1>2, <1>3, <1>4 DEF Base, Batches

LEMMA BaseLock ==
    ASSUME Base, NEW e \in Entries, Lock(e)
    PROVE  Base'
<1>0. /\ caller' = [caller EXCEPT ![e] = "appending"]
      /\ caller[e] = "locking"
      /\ mut = Free /\ mut' = e
      /\ read' = [read EXCEPT ![e] = buf]
      /\ UNCHANGED <<list, threshold, buf, tick, flushing, batches, ch, life, hand, next, runs, reported>>
    BY DEF Lock, config, work, MutexAvailable
<1>1. Typing'
    BY <1>0 DEF Base, Typing
<1>2. Locked'
    BY <1>0, MonitorsAssumption DEF Base, Typing, Locked
<1>3. Places'
    BY <1>0 DEF Base, Typing, Places, NotPushed, InBuffer, InChannel, InHand, Nowhere
<1>4. Gone' = Gone
    BY <1>0 DEF Base, Typing, Gone
<1>. QED
    BY <1>0, <1>1, <1>2, <1>3, <1>4 DEF Base, Batches

LEMMA BasePush ==
    ASSUME Base, NEW e \in Entries, Push(e)
    PROVE  Base' /\ buf' = buf \cup {e} /\ e \notin buf
<1>0. /\ caller[e] = "appending"
      /\ caller' = [caller EXCEPT ![e] = "pushed"]
      /\ mut' = Free
      /\ buf' = read[e] \cup {e}
      /\ read' = [read EXCEPT ![e] = {}]
      /\ UNCHANGED <<list, threshold, tick, flushing, batches, ch, life, hand, next, runs, reported>>
    BY DEF Push, config, work
<1>1. /\ buf' = buf \cup {e} /\ e \notin buf
      /\ mut = e /\ ~flushing
    BY <1>0, MonitorsAssumption DEF Base, Locked, Places, NotPushed
<1>2. Typing'
    BY <1>0 DEF Base, Typing
<1>3. Locked'
    BY <1>0, <1>1, MonitorsAssumption DEF Base, Typing, Locked
<1>4. Places'
    BY <1>0, <1>1 DEF Base, Typing, Places, NotPushed, InBuffer, InChannel, InHand, Nowhere
<1>5. Gone' = Gone
    BY <1>0, <1>1 DEF Base, Typing, Gone
<1>. QED
    BY <1>0, <1>1, <1>2, <1>3, <1>4, <1>5 DEF Base, Batches

LEMMA BaseTick ==
    ASSUME Base, Tick \/ StartFlush
    PROVE  Base'
<1>1. CASE Tick
    BY <1>1 DEF Tick, config, work, Base, Typing, Locked, Places, NotPushed, InBuffer,
        InChannel, InHand, Nowhere, Batches, Gone
<1>2. CASE StartFlush
    <2>0. /\ mut = Free /\ mut' = Flusher /\ flushing' = TRUE /\ tick' = FALSE
          /\ read' = [read EXCEPT ![Flusher] = buf]
          /\ UNCHANGED <<list, threshold, buf, caller, batches, ch, life, hand, next, runs, reported>>
        BY <1>2 DEF StartFlush, config, work, MutexAvailable
    <2>1. Typing'
        BY <2>0 DEF Base, Typing
    <2>2. Locked'
        BY <2>0, MonitorsAssumption DEF Base, Typing, Locked
    <2>3. Places' /\ Batches'
        BY <2>0 DEF Base, Places, NotPushed, InBuffer, InChannel, InHand, Nowhere, Batches, Gone
    <2>. QED
        BY <2>1, <2>2, <2>3 DEF Base
<1>. QED
    BY <1>1, <1>2

(***************************************************************************)
(* A batch: what was in the buffer is in the channel of the batch, which   *)
(* was empty, and its goroutines, which were not born, run.                *)
(***************************************************************************)
LEMMA NewBatch ==
    ASSUME Base, MonitorPendings, buf # {}
    PROVE  /\ batches + 1 \in Numbers /\ batches' = batches + 1
           /\ ch[batches + 1] = {}
           /\ ch' = [ch EXCEPT ![batches + 1] = buf]
           /\ \A j \in Jobs : j[1] = batches + 1 => life[j] = "unborn"
           /\ life' = [j \in Jobs |-> IF j[1] = batches + 1 /\ j[2] \in Goroutines(buf)
                                      THEN "running" ELSE life[j]]
           /\ Batches'
<1>0. /\ read[Flusher] = buf /\ buf' = {}
      /\ UNCHANGED <<caller, hand, next, runs>>
    BY DEF MonitorPendings, Base, Locked, Emptied
<1>1. PICK x \in Entries : x \in buf
    BY DEF Base, Typing
<1>2. /\ x \notin Gone
      /\ \A e \in buf : caller[e] = "pushed"
    BY <1>1 DEF Gone, Base, Typing, Places, NotPushed
<1>3. Gone' = Gone \cup buf
    BY <1>0, <1>2 DEF Gone, Base, Typing
<1>4. /\ Gone \cup {x} \in SUBSET Gone'
      /\ Gone \in SUBSET Entries /\ Gone' \in SUBSET Entries
    BY <1>1, <1>3 DEF Gone, Base, Typing
<1>5. /\ IsFiniteSet(Gone) /\ IsFiniteSet(Gone')
      /\ Cardinality(Gone) \in Nat /\ Cardinality(Gone') \in Nat
      /\ Cardinality(Gone') <= Cardinality(Entries)
    BY <1>4, EntryCount
<1>6. Cardinality(Gone \cup {x}) = Cardinality(Gone) + 1
    BY <1>2, <1>5, FS_AddElement
<1>7. Cardinality(Gone \cup {x}) <= Cardinality(Gone')
    BY <1>4, <1>5, FS_Subset
<1>8. Cardinality(Gone) + 1 <= Cardinality(Gone')
    BY <1>6, <1>7
<1>9. batches' = batches + 1
      /\ ch' = [ch EXCEPT ![batches + 1] = buf]
      /\ life' = [j \in Jobs |-> IF j[1] = batches + 1 /\ j[2] \in Goroutines(buf)
                                  THEN "running" ELSE life[j]]
    BY <1>0 DEF MonitorPendings
<1>10. batches + 1 \in Nat /\ batches + 1 <= Cardinality(Gone') /\ batches + 1 \in Numbers
    BY <1>5, <1>8, EntryCount DEF Base, Batches, Numbers
<1>11. Batches'
    BY <1>9, <1>10 DEF Batches
<1>12. batches \in Nat
    BY DEF Base, Batches
<1>13. ch[batches + 1] = {}
    <2>1. InChannel(batches + 1)
        BY <1>10 DEF Base, Places
    <2>. QED
        BY <1>12, <2>1 DEF InChannel
<1>14. ASSUME NEW j \in Jobs, j[1] = batches + 1 PROVE life[j] = "unborn"
    BY <1>12, <1>14 DEF Base, Places, InHand
<1>. QED
    BY <1>9, <1>10, <1>11, <1>13, <1>14

LEMMA BasePendings ==
    ASSUME Base, MonitorPendings
    PROVE  Base'
<1>0. /\ read[Flusher] = buf /\ buf' = {} /\ mut' = Free /\ flushing' = FALSE
      /\ mut = Flusher
      /\ read' = [read EXCEPT ![Flusher] = {}]
      /\ UNCHANGED <<list, threshold, caller, tick, hand, next, runs, reported>>
    BY DEF MonitorPendings, Base, Locked, Emptied, Unlocked, config
<1>1. Locked'
    BY <1>0, MonitorsAssumption DEF Base, Typing, Locked
<1>2. CASE buf = {}
    <2>1. UNCHANGED <<batches, ch, life>>
        BY <1>0, <1>2 DEF MonitorPendings
    <2>2. Typing'
        BY <1>0, <2>1 DEF Base, Typing
    <2>3. Places'
        BY <1>0, <1>2, <2>1 DEF Base, Places, NotPushed, InBuffer, InChannel, InHand, Nowhere
    <2>4. Batches'
        BY <1>0, <1>2, <2>1 DEF Base, Batches, Gone
    <2>. QED
        BY <1>1, <2>2, <2>3, <2>4 DEF Base
<1>3. CASE buf # {}
    <2> DEFINE new == batches + 1
    <2>1. /\ new \in Numbers /\ batches' = new /\ ch[new] = {}
          /\ ch' = [ch EXCEPT ![new] = buf]
          /\ \A j \in Jobs : j[1] = new => life[j] = "unborn"
          /\ life' = [j \in Jobs |-> IF j[1] = new /\ j[2] \in Goroutines(buf)
                                     THEN "running" ELSE life[j]]
          /\ Batches'
        BY <1>3, NewBatch
    <2>. /\ batches \in Nat /\ new \in Nat /\ batches < new
        BY DEF Base, Batches
    <2>. HIDE DEF new
    <2>2. Typing'
        BY <1>0, <2>1 DEF Base, Typing
    <2>3. \A m \in Numbers : ch'[m] = IF m = new THEN buf ELSE ch[m]
        BY <2>1 DEF Base, Typing
    <2>4. ASSUME NEW f \in Entries PROVE NotPushed(f)' /\ InBuffer(f)'
        <3>1. NotPushed(f)
            BY DEF Base, Places
        <3>. QED
            BY <1>0, <2>3, <3>1 DEF NotPushed, InBuffer, Nowhere
    <2>5. ASSUME NEW n \in Numbers PROVE InChannel(n)'
        <3>. SUFFICES ASSUME NEW f \in ch'[n]
                      PROVE  /\ n <= batches'
                             /\ runs'[f] = <<>>
                             /\ \A m \in Numbers : f \in ch'[m] => m = n
                             /\ \A j \in Jobs : hand'[j] # f
            BY DEF InChannel
        <3>1. CASE n = new
            <4>1. f \in buf /\ f \in Entries
                BY <2>3, <3>1 DEF Base, Typing
            <4>2. runs[f] = <<>> /\ Nowhere(f)
                BY <4>1 DEF Base, Places, InBuffer
            <4>. QED
                BY <1>0, <2>1, <2>3, <3>1, <4>2 DEF Nowhere
        <3>2. CASE n # new
            <4>1. f \in ch[n] /\ f \in Entries
                BY <2>3, <3>2 DEF Base, Typing
            <4>2. InChannel(n) /\ InBuffer(f)
                BY <4>1 DEF Base, Places
            <4>3. f \notin buf
                BY <4>1, <4>2 DEF InBuffer, Nowhere
            <4>4. n <= batches'
                BY <2>1, <4>1, <4>2 DEF InChannel, Numbers
            <4>. QED
                BY <1>0, <2>3, <4>1, <4>2, <4>3, <4>4 DEF InChannel
        <3>. QED
            BY <3>1, <3>2
    <2>6. ASSUME NEW j \in Jobs PROVE InHand(j)'
        <3>1. InHand(j) /\ j[1] \in Numbers
            BY DEF Base, Places, Jobs
        <3>2. CASE j[1] = new
            <4>1. life[j] = "unborn" /\ hand[j] = None
                BY <2>1, <3>1, <3>2 DEF InHand
            <4>2. life'[j] \in {"unborn", "running"}
                BY <2>1, <4>1
            <4>. QED
                BY <1>0, <2>1, <3>1, <3>2, <4>1, <4>2 DEF InHand
        <3>3. CASE j[1] # new
            <4>1. life'[j] = life[j] /\ ch'[j[1]] = ch[j[1]]
                BY <2>1, <2>3, <3>1, <3>3
            <4>2. j[1] <= batches => j[1] <= batches'
                BY <2>1, <3>1 DEF Numbers
            <4>. QED
                BY <1>0, <3>1, <4>1, <4>2 DEF InHand
        <3>. QED
            BY <3>2, <3>3
    <2>. QED
        BY <1>1, <2>1, <2>2, <2>4, <2>5, <2>6 DEF Base, Places
<1>. QED
    BY <1>2, <1>3

(***************************************************************************)
(* The goroutines of the batches.                                          *)
(***************************************************************************)
LEMMA BaseReceive ==
    ASSUME Base, NEW j \in Jobs, Receive(j)
    PROVE  Base'
<1>0. PICK e \in ch[j[1]] :
          /\ ch' = [ch EXCEPT ![j[1]] = @ \ {e}]
          /\ hand' = [hand EXCEPT ![j] = e]
    BY DEF Receive
<1>1. /\ life[j] = "running" /\ hand[j] = None
      /\ UNCHANGED <<list, threshold, mut, buf, read, caller, tick, flushing, batches, life,
                     next, runs, reported>>
    BY DEF Receive, config, buffer
<1>2. j[1] \in Numbers /\ e \in Entries /\ e # None
    BY <1>0, MonitorsAssumption DEF Jobs, Base, Typing
<1>3. /\ InChannel(j[1]) /\ InHand(j) /\ NotPushed(e) /\ InBuffer(e)
    BY <1>2 DEF Base, Places
<1>4. /\ runs[e] = <<>> /\ next[j] = 1
      /\ \A n \in Numbers : e \in ch[n] => n = j[1]
      /\ \A k \in Jobs : hand[k] # e
      /\ caller[e] = "pushed" /\ e \notin buf
    BY <1>0, <1>1, <1>2, <1>3 DEF InChannel, InHand, NotPushed, InBuffer, Nowhere
<1>5. /\ \A n \in Numbers : ch'[n] = ch[n] \ {e}
      /\ \A k \in Jobs : hand'[k] = IF k = j THEN e ELSE hand[k]
    BY <1>0, <1>2, <1>4 DEF Base, Typing
<1>6. Typing'
    BY <1>0, <1>1, <1>2 DEF Base, Typing
<1>7. Locked' /\ Batches'
    BY <1>1 DEF Base, Locked, Batches, Gone
<1>8. ASSUME NEW f \in Entries PROVE NotPushed(f)' /\ InBuffer(f)'
    <2>1. NotPushed(f) /\ InBuffer(f)
        BY DEF Base, Places
    <2>. QED
        BY <1>1, <1>4, <1>5, <2>1 DEF NotPushed, InBuffer, Nowhere
<1>9. ASSUME NEW n \in Numbers PROVE InChannel(n)'
    <2>1. InChannel(n)
        BY DEF Base, Places
    <2>. QED
        BY <1>1, <1>5, <2>1 DEF InChannel
<1>10. ASSUME NEW k \in Jobs PROVE InHand(k)'
    <2>1. InHand(k) /\ k[1] \in Numbers
        BY DEF Base, Places, Jobs
    <2>2. CASE k = j
        <3>1. list # <<>> /\ list \in Lists
            BY <1>3, <1>4 DEF NotPushed, Base, Typing
        <3>2. 1 <= Len(list)
            BY <3>1, ListFacts
        <3>3. Len(runs[e]) = 0
            BY <1>4
        <3>. QED
            BY <1>1, <1>2, <1>4, <1>5, <2>1, <2>2, <3>2, <3>3 DEF InHand
    <2>3. CASE k # j
        BY <1>1, <1>4, <1>5, <2>1, <2>3 DEF InHand
    <2>. QED
        BY <2>2, <2>3
<1>. QED
    BY <1>6, <1>7, <1>8, <1>9, <1>10 DEF Base, Places

LEMMA BaseShow ==
    ASSUME Base, NEW j \in Jobs, Show(j)
    PROVE  /\ Base'
           /\ hand[j] \in Entries /\ hand[j] # None
           /\ Calls(j) \in Kinds /\ next[j] \in 1 .. Len(list)
           /\ runs' = [runs EXCEPT ![hand[j]] = Append(@, Calls(j))]
           /\ Len(runs[hand[j]]) = next[j] - 1
<1>1. /\ hand[j] # None /\ ~Panics(Calls(j))
      /\ runs' = [runs EXCEPT ![hand[j]] = Append(@, Calls(j))]
      /\ reported' = IF Logs(Calls(j), hand[j]) THEN reported \cup {<<Calls(j), hand[j]>>}
                     ELSE reported
      /\ next' = [next EXCEPT ![j] = IF AfterLast(@) THEN 1 ELSE @ + 1]
      /\ hand' = [hand EXCEPT ![j] = IF AfterLast(next[j]) THEN None ELSE @]
      /\ UNCHANGED <<list, threshold, mut, buf, read, caller, tick, flushing, batches, ch, life>>
    BY DEF Show, config, buffer
<1> DEFINE e == hand[j]
<1>2. /\ e \in Entries /\ InHand(j) /\ next[j] \in 1 .. 2 /\ list \in Lists
    BY <1>1 DEF Base, Typing, Places
<1>3. /\ life[j] = "running" /\ next[j] \in 1 .. Len(list) /\ Len(list) \in 0 .. 2
      /\ Len(runs[e]) = next[j] - 1
      /\ \A k \in Jobs : hand[k] = e => k = j
    BY <1>1, <1>2, ListFacts DEF InHand
<1>4. Calls(j) \in Kinds
    BY <1>2, <1>3, ListFacts DEF Calls
<1>5. Len(Append(runs[e], Calls(j))) = next[j]
      /\ Append(runs[e], Calls(j)) \in Seq(Kinds)
    BY <1>2, <1>3, <1>4 DEF Base, Typing
<1>. HIDE DEF e
<1>6. /\ \A f \in Entries : runs'[f] = IF f = e THEN Append(runs[e], Calls(j)) ELSE runs[f]
      /\ \A k \in Jobs : k # j => hand'[k] = hand[k] /\ next'[k] = next[k]
      /\ AfterLast(next[j]) => hand'[j] = None /\ next'[j] = 1
      /\ ~AfterLast(next[j]) => hand'[j] = e /\ next'[j] = next[j] + 1
    BY <1>1, <1>2 DEF Base, Typing, e
<1>7. ~AfterLast(next[j]) => next[j] + 1 \in 1 .. 2 /\ next[j] + 1 <= Len(list)
    <2>1. ASSUME NEW i, NEW m, i \in 1 .. m, m \in 0 .. 2, i # m
          PROVE  i + 1 \in 1 .. 2 /\ i + 1 <= m
        BY <2>1
    <2>. QED
        BY <1>3, <2>1 DEF AfterLast
<1>8. Typing'
    <2>1. runs' \in [Entries -> Seq(Kinds)]
        BY <1>1, <1>2, <1>5 DEF Base, Typing, e
    <2>2. next' \in [Jobs -> 1 .. 2]
        BY <1>1, <1>7 DEF Base, Typing
    <2>3. reported' \subseteq Kinds \X Entries
        BY <1>1, <1>2, <1>4 DEF Base, Typing, e
    <2>4. hand' \in [Jobs -> Entries \cup {None}]
        BY <1>1 DEF Base, Typing
    <2>. QED
        BY <1>1, <2>1, <2>2, <2>3, <2>4 DEF Base, Typing
<1>9. Locked' /\ Batches'
    BY <1>1 DEF Base, Locked, Batches, Gone
<1>10. \A k \in Jobs : hand'[k] \in {hand[k], None}
    BY <1>6 DEF e
<1>11. ASSUME NEW f \in Entries PROVE NotPushed(f)' /\ InBuffer(f)'
    <2>1. NotPushed(f) /\ InBuffer(f) /\ f # None
        BY MonitorsAssumption DEF Base, Places
    <2>2. CASE f = e
        <3>1. hand[j] = f
            BY <2>2 DEF e
        <3>2. caller[f] = "pushed" /\ f \notin buf
            BY <2>1, <3>1 DEF NotPushed, InBuffer, Nowhere
        <3>. QED
            BY <1>1, <2>1, <3>2 DEF NotPushed, InBuffer
    <2>3. CASE f # e
        BY <1>1, <1>6, <1>10, <2>1, <2>3 DEF NotPushed, InBuffer, Nowhere
    <2>. QED
        BY <2>2, <2>3
<1>12. ASSUME NEW n \in Numbers PROVE InChannel(n)'
    <2>. SUFFICES ASSUME NEW f \in ch[n]
                  PROVE  /\ n <= batches
                         /\ runs'[f] = <<>>
                         /\ \A m \in Numbers : f \in ch[m] => m = n
                         /\ \A k \in Jobs : hand'[k] # f
        BY <1>1 DEF InChannel
    <2>1. InChannel(n) /\ f \in Entries /\ f # None
        BY MonitorsAssumption DEF Base, Places, Typing
    <2>2. f # e
        BY <2>1 DEF InChannel, e
    <2>. QED
        BY <1>6, <1>10, <2>1, <2>2 DEF InChannel
<1>13. ASSUME NEW k \in Jobs PROVE InHand(k)'
    <2>1. InHand(k)
        BY DEF Base, Places
    <2>2. CASE k = j
        <3>1. CASE AfterLast(next[j])
            BY <1>1, <1>3, <1>6, <2>1, <2>2, <3>1 DEF InHand
        <3>2. CASE ~AfterLast(next[j])
            <4>0. e \in Entries /\ next[j] \in Nat
                BY <1>2 DEF e
            <4>1. Len(runs'[e]) = next'[j] - 1
                <5>1. Len(runs'[e]) = next[j] /\ next'[j] = next[j] + 1
                    BY <1>5, <1>6, <3>2, <4>0
                <5>. QED
                    BY <4>0, <5>1
            <4>2. \A i \in Jobs : hand'[i] = e => i = j
                BY <1>2, <1>3, <1>6 DEF e
            <4>. QED
                <5>1. hand'[j] = e /\ e # None /\ life'[j] = "running"
                    BY <1>1, <1>3, <1>6, <3>2 DEF e
                <5>2. next'[j] <= Len(list')
                    BY <1>1, <1>6, <1>7, <3>2
                <5>. QED
                    BY <1>1, <2>1, <2>2, <4>1, <4>2, <5>1, <5>2 DEF InHand
        <3>. QED
            BY <3>1, <3>2
    <2>3. CASE k # j
        <3>1. hand[k] # e
            BY <1>3, <2>3
        <3>2. hand[k] # None => hand[k] \in Entries
            BY DEF Base, Typing
        <3>3. hand[k] # None => runs'[hand[k]] = runs[hand[k]]
            BY <1>6, <3>1, <3>2
        <3>. QED
            BY <1>1, <1>6, <1>10, <2>1, <2>3, <3>3 DEF InHand
    <2>. QED
        BY <2>2, <2>3
<1>. QED
    BY <1>1, <1>2, <1>3, <1>4, <1>8, <1>9, <1>11, <1>12, <1>13 DEF Base, Places, e

LEMMA BasePanic ==
    ASSUME Base, NEW j \in Jobs, Panic(j)
    PROVE  Base' /\ life[j] = "running" /\ hand[j] \in Entries
<1>1. /\ hand[j] # None
      /\ hand' = [hand EXCEPT ![j] = None]
      /\ next' = [next EXCEPT ![j] = 1]
      /\ life' = [life EXCEPT ![j] = "panicked"]
      /\ UNCHANGED <<list, threshold, mut, buf, read, caller, tick, flushing, batches, ch,
                     runs, reported>>
    BY DEF Panic, config, buffer
<1>2. life[j] = "running" /\ hand[j] \in Entries
    BY <1>1 DEF Base, Typing, Places, InHand
<1>3. Typing'
    BY <1>1 DEF Base, Typing
<1>4. Locked' /\ Batches'
    BY <1>1 DEF Base, Locked, Batches, Gone
<1>5. /\ \A k \in Jobs : hand'[k] = IF k = j THEN None ELSE hand[k]
      /\ \A k \in Jobs : next'[k] = IF k = j THEN 1 ELSE next[k]
      /\ \A k \in Jobs : life'[k] = IF k = j THEN "panicked" ELSE life[k]
    BY <1>1 DEF Base, Typing
<1>6. \A f \in Entries : f # None
    BY MonitorsAssumption
<1>7. ASSUME NEW f \in Entries PROVE NotPushed(f)' /\ InBuffer(f)'
    BY <1>1, <1>5, <1>6 DEF Base, Places, NotPushed, InBuffer, Nowhere
<1>8. ASSUME NEW n \in Numbers PROVE InChannel(n)'
    <2>1. InChannel(n) /\ ch[n] \subseteq Entries
        BY DEF Base, Places, Typing
    <2>. QED
        BY <1>1, <1>5, <1>6, <2>1 DEF InChannel
<1>9. ASSUME NEW k \in Jobs PROVE InHand(k)'
    <2>1. InHand(k) /\ InHand(j)
        BY DEF Base, Places
    <2>. QED
        BY <1>1, <1>2, <1>5, <2>1 DEF InHand
<1>. QED
    BY <1>2, <1>3, <1>4, <1>7, <1>8, <1>9 DEF Base, Places

LEMMA BaseEnd ==
    ASSUME Base, NEW j \in Jobs, End(j)
    PROVE  Base'
<1>1. /\ life[j] = "running" /\ hand[j] = None /\ ch[j[1]] = {}
      /\ life' = [life EXCEPT ![j] = "ended"]
      /\ UNCHANGED <<list, threshold, mut, buf, read, caller, tick, flushing, batches, ch,
                     hand, next, runs, reported>>
    BY DEF End, config, buffer
<1>2. Typing'
    BY <1>1 DEF Base, Typing
<1>3. Locked' /\ Batches'
    BY <1>1 DEF Base, Locked, Batches, Gone
<1>4. ASSUME NEW k \in Jobs PROVE InHand(k)'
    <2>1. InHand(k) /\ InHand(j) /\ life'[k] = IF k = j THEN "ended" ELSE life[k]
        BY <1>1 DEF Base, Places, Typing
    <2>. QED
        BY <1>1, <2>1 DEF InHand
<1>5. (\A f \in Entries : NotPushed(f)' /\ InBuffer(f)') /\ \A n \in Numbers : InChannel(n)'
    BY <1>1 DEF Base, Places, NotPushed, InBuffer, InChannel, Nowhere
<1>. QED
    BY <1>2, <1>3, <1>4, <1>5 DEF Base, Places

LEMMA BaseInvariance == Spec => []Base
<1>1. Init => Base
    <2>. SUFFICES ASSUME Init PROVE Base
        OBVIOUS
    <2>1. Typing
        <3>1. /\ read \in [Entries \cup {Flusher} -> SUBSET Entries]
              /\ ch \in [Numbers -> SUBSET Entries]
            BY DEF Init
        <3>2. runs \in [Entries -> Seq(Kinds)]
            BY DEF Init
        <3>3. next \in [Jobs -> 1 .. 2] /\ hand \in [Jobs -> Entries \cup {None}]
            BY DEF Init
        <3>4. /\ caller \in [Entries -> {"idle", "ignored", "locking", "appending", "pushed"}]
              /\ life \in [Jobs -> {"unborn", "running", "ended", "panicked"}]
            BY DEF Init
        <3>. QED
            BY <3>1, <3>2, <3>3, <3>4 DEF Init, Typing
    <2>2. Locked
        BY DEF Init, Locked
    <2>3. Places
        <3>1. \A e \in Entries : e # None
            BY MonitorsAssumption
        <3>. QED
            BY <3>1 DEF Init, Places, NotPushed, InBuffer, InChannel, InHand, Nowhere
    <2>4. Batches
        <3>1. Gone = {}
            BY DEF Init, Gone
        <3>. QED
            BY <3>1, FS_EmptySet DEF Init, Batches
    <2>. QED
        BY <2>1, <2>2, <2>3, <2>4 DEF Base
<1>2. Base /\ [Next]_vars => Base'
    <2>1. Base /\ UNCHANGED vars => Base'
        BY DEF vars, config, buffer, work, Base, Typing, Locked, Places, NotPushed, InBuffer,
               InChannel, InHand, Nowhere, Batches, Gone
    <2>. QED
        BY <2>1, BaseMonitor, BaseLock, BasePush, BaseTick, BasePendings, BaseReceive,
           BaseShow, BasePanic, BaseEnd DEF Next, Goroutine
<1>. QED
    BY <1>1, <1>2, PTL DEF Spec

-----------------------------------------------------------------------------
(***************************************************************************)
(* Type correctness; in particular no more batches than transactions.      *)
(***************************************************************************)
THEOREM TypeCorrect == Spec => []TypeOK
<1>1. Base => TypeOK
    <2>. SUFFICES ASSUME Base PROVE TypeOK
        OBVIOUS
    <2>1. batches \in 0 .. Cardinality(Entries)
        <3>1. Gone \in SUBSET Entries
            BY DEF Gone
        <3>. QED
            BY <3>1, EntryCount DEF Base, Batches
    <2>. QED
        BY <2>1 DEF Base, Typing, TypeOK, Kinds
<1>. QED
    BY <1>1, BaseInvariance, PTL

-----------------------------------------------------------------------------
(***************************************************************************)
(* MonitorEngine implements MonitorPromise, but for the liveness of it.    *)
(***************************************************************************)
LEMMA StatusIs ==
    ASSUME NEW e \in Entries
    PROVE  /\ caller[e] # "pushed" => Status(e) = "absent"
           /\ caller[e] = "pushed" /\ Len(runs[e]) = Len(list) => Status(e) = "finished"
           /\ caller[e] = "pushed" /\ Len(runs[e]) # Len(list) =>
                 Status(e) = IF Within(e) THEN "accepted" ELSE "abandoned"
BY DEF Status

(* The same of the next state.                                             *)
LEMMA StatusBecomes ==
    ASSUME NEW e \in Entries
    PROVE  /\ caller'[e] # "pushed" => Status(e)' = "absent"
           /\ caller'[e] = "pushed" /\ Len(runs'[e]) = Len(list') => Status(e)' = "finished"
           /\ caller'[e] = "pushed" /\ Len(runs'[e]) # Len(list') =>
                 Status(e)' = IF Within(e)' THEN "accepted" ELSE "abandoned"
BY DEF Status

(* A step is no step of the promise if it moves transactions around.       *)
LEMMA Moves ==
    ASSUME UNCHANGED <<list, threshold, runs>>,
           \A e \in Entries :
               /\ caller'[e] = "pushed" <=> caller[e] = "pushed"
               /\ caller[e] = "pushed" => (Within(e)' <=> Within(e))
    PROVE  UNCHANGED Promise!vars
<1>1. ASSUME NEW e \in Entries PROVE Status(e)' = Status(e)
    BY StatusIs, StatusBecomes
<1>. QED
    BY <1>1 DEF Promise!vars, Panics

LEMMA CallsMove ==
    ASSUME Base, \/ \E e \in Entries : Monitor(e) \/ Lock(e)
                 \/ Tick \/ StartFlush
    PROVE  UNCHANGED Promise!vars
<1>1. /\ UNCHANGED <<list, threshold, runs, buf, ch, life, hand>>
      /\ \A e \in Entries : caller'[e] = "pushed" <=> caller[e] = "pushed"
    BY DEF Monitor, Lock, Tick, StartFlush, config, work, Base, Typing
<1>. QED
    BY <1>1, Moves DEF Within, Held

LEMMA PendingsMove ==
    ASSUME Base, MonitorPendings
    PROVE  UNCHANGED Promise!vars
<1>0. /\ buf' = {}
      /\ UNCHANGED <<list, threshold, caller, hand, runs>>
    BY DEF MonitorPendings, Emptied, config
<1>1. CASE buf = {}
    <2>1. UNCHANGED <<ch, life>>
        BY <1>0, <1>1 DEF MonitorPendings, Base, Locked
    <2>. QED
        BY <1>0, <1>1, <2>1, Moves DEF Within, Held
<1>2. CASE buf # {}
    <2>0. PICK new \in Numbers : new = batches + 1
        BY <1>2, NewBatch
    <2>1. /\ ch[new] = {}
          /\ ch' = [ch EXCEPT ![new] = buf]
          /\ \A j \in Jobs : j[1] = new => life[j] = "unborn"
          /\ life' = [j \in Jobs |-> IF j[1] = new /\ j[2] \in Goroutines(buf)
                                     THEN "running" ELSE life[j]]
        BY <1>2, <2>0, NewBatch
    <2>2. \A m \in Numbers : ch'[m] = IF m = new THEN buf ELSE ch[m]
        BY <2>1 DEF Base, Typing
    <2>3. Held(new)'
        <3>1. buf \in SUBSET Entries
            BY DEF Base, Typing
        <3>2. IsFiniteSet(buf) /\ Cardinality(buf) \in Nat
            BY <3>1, EntryCount
        <3>3. Cardinality(buf) # 0
            BY <1>2, <3>2, FS_EmptySet
        <3>4. 1 \in Pool
            BY MonitorsAssumption DEF Pool
        <3>5. 1 \in Goroutines(buf)
            BY <3>2, <3>3, <3>4 DEF Goroutines
        <3>6. <<new, 1>> \in Jobs
            BY <2>1, <3>4 DEF Jobs
        <3>7. life'[<<new, 1>>] = "running"
            BY <2>1, <3>5, <3>6
        <3>. QED
            BY <3>6, <3>7 DEF Held
    <2>4. ASSUME NEW m \in Numbers, m # new PROVE Held(m)' <=> Held(m)
        BY <2>1, <2>4 DEF Held
    <2>5. ASSUME NEW e \in Entries PROVE Within(e)' <=> Within(e)
        BY <1>0, <2>1, <2>2, <2>3, <2>4 DEF Within
    <2>. QED
        BY <1>0, <2>5, Moves
<1>. QED
    BY <1>1, <1>2

LEMMA GoroutinesMove ==
    ASSUME Base, NEW j \in Jobs, Receive(j) \/ End(j)
    PROVE  UNCHANGED Promise!vars
<1>1. CASE Receive(j)
    <2>0. PICK e \in ch[j[1]] :
              /\ ch' = [ch EXCEPT ![j[1]] = @ \ {e}]
              /\ hand' = [hand EXCEPT ![j] = e]
        BY <1>1 DEF Receive
    <2>1. /\ life[j] = "running" /\ hand[j] = None
          /\ UNCHANGED <<list, threshold, buf, caller, life, runs>>
        BY <1>1 DEF Receive, config, buffer
    <2>2. j[1] \in Numbers /\ e \in Entries /\ \A f \in Entries : f # None
        BY <2>0, MonitorsAssumption DEF Jobs, Base, Typing
    <2>3. /\ \A n \in Numbers : ch'[n] = IF n = j[1] THEN ch[n] \ {e} ELSE ch[n]
          /\ \A k \in Jobs : hand'[k] = IF k = j THEN e ELSE hand[k]
        BY <2>0, <2>2 DEF Base, Typing
    <2>4. \A n \in Numbers : Held(n)' <=> Held(n)
        BY <2>1 DEF Held
    <2>5. Held(j[1])
        BY <2>1 DEF Held
    <2>6. ASSUME NEW f \in Entries PROVE Within(f)' <=> Within(f)
        <3>1. CASE f = e
            BY <2>0, <2>2, <2>3, <2>5, <3>1 DEF Within
        <3>2. CASE f # e
            <4>1. \A n \in Numbers : f \in ch'[n] <=> f \in ch[n]
                BY <2>3, <3>2
            <4>2. \A k \in Jobs : hand'[k] = f <=> hand[k] = f
                BY <2>1, <2>2, <2>3, <3>2
            <4>. QED
                BY <2>1, <2>4, <4>1, <4>2 DEF Within
        <3>. QED
            BY <3>1, <3>2
    <2>. QED
        BY <2>1, <2>6, Moves
<1>2. CASE End(j)
    <2>1. /\ ch[j[1]] = {}
          /\ life' = [life EXCEPT ![j] = "ended"]
          /\ UNCHANGED <<list, threshold, buf, caller, ch, hand, runs>>
        BY <1>2 DEF End, config, buffer
    <2>2. \A k \in Jobs : life'[k] = IF k = j THEN "ended" ELSE life[k]
        BY <2>1 DEF Base, Typing
    <2>3. ASSUME NEW n \in Numbers, n # j[1] PROVE Held(n)' <=> Held(n)
        BY <2>2, <2>3 DEF Held
    <2>4. ASSUME NEW f \in Entries PROVE Within(f)' <=> Within(f)
        BY <2>1, <2>3 DEF Within
    <2>. QED
        BY <2>1, <2>4, Moves
<1>. QED
    BY <1>1, <1>2

LEMMA PushAccepts ==
    ASSUME Base, NEW e \in Entries, Push(e)
    PROVE  Promise!Accept(e)
<1>1. /\ caller[e] = "appending" /\ caller' = [caller EXCEPT ![e] = "pushed"]
      /\ buf' = buf \cup {e}
      /\ UNCHANGED <<list, threshold, ch, life, hand, runs>>
    BY BasePush DEF Push, config, work
<1>2. list # <<>> /\ runs[e] = <<>> /\ list \in Lists
    BY <1>1 DEF Base, Typing, Places, NotPushed
<1>3. Len(runs[e]) # Len(list)
    BY <1>2, ListFacts
<1>4. Status(e) = "absent" /\ Status(e)' = "accepted"
    <2>1. Within(e)' /\ caller'[e] = "pushed"
        BY <1>1 DEF Within, Base, Typing
    <2>. QED
        BY <1>1, <1>3, <2>1, StatusIs, StatusBecomes
<1>5. ASSUME NEW f \in Entries, f # e PROVE Status(f)' = Status(f)
    <2>1. caller'[f] = caller[f]
        BY <1>1, <1>5 DEF Base, Typing
    <2>2. Within(f)' <=> Within(f)
        BY <1>1, <1>5 DEF Within, Held
    <2>. QED
        BY <1>1, <2>1, <2>2, StatusIs, StatusBecomes
<1>. QED
    BY <1>1, <1>2, <1>4, <1>5 DEF Promise!Accept, Panics

LEMMA ShowPasses ==
    ASSUME Base, NEW j \in Jobs, Show(j)
    PROVE  \E e \in Entries : Promise!Pass(e)
<1>1. /\ hand' = [hand EXCEPT ![j] = IF AfterLast(next[j]) THEN None ELSE @]
      /\ UNCHANGED <<list, threshold, buf, caller, ch, life>>
    BY DEF Show, config, buffer
<1>2. /\ hand[j] \in Entries /\ next[j] \in 1 .. Len(list)
      /\ runs' = [runs EXCEPT ![hand[j]] = Append(@, Calls(j))]
      /\ Len(runs[hand[j]]) = next[j] - 1
      /\ Calls(j) \in Kinds
    BY BaseShow
<1>0. PICK e \in Entries : e = hand[j]
    BY <1>2
<1>3. /\ caller[e] = "pushed" /\ e \notin buf /\ (\A n \in Numbers : e \notin ch[n])
      /\ \A k \in Jobs : hand[k] = e => k = j
    <2>1. NotPushed(e) /\ InBuffer(e) /\ InHand(j) /\ e # None
        BY MonitorsAssumption DEF Base, Places
    <2>2. \A n \in Numbers : InChannel(n)
        BY DEF Base, Places
    <2>. QED
        BY <1>0, <1>2, <2>1, <2>2 DEF NotPushed, InBuffer, InHand, InChannel, Nowhere
<1>4. /\ \A k \in Jobs : k # j => hand'[k] = hand[k]
      /\ hand'[j] = IF AfterLast(next[j]) THEN None ELSE e
      /\ \A f \in Entries : f # None
    BY <1>0, <1>1, MonitorsAssumption DEF Base, Typing
<1>5. list \in Lists /\ Len(list) \in 0 .. 2
    BY ListFacts DEF Base, Typing
<1>6. /\ runs'[e] = Append(runs[e], Calls(j)) /\ Len(runs'[e]) = next[j]
      /\ \A f \in Entries : f # e => runs'[f] = runs[f]
    <2>1. runs[e] \in Seq(Kinds) /\ runs'[e] = Append(runs[e], Calls(j))
        BY <1>0, <1>2 DEF Base, Typing
    <2>2. Len(Append(runs[e], Calls(j))) = Len(runs[e]) + 1
        BY <1>2, <2>1
    <2>3. next[j] \in Nat
        BY <1>2
    <2>4. Len(runs'[e]) = next[j]
        BY <1>0, <1>2, <2>1, <2>2, <2>3
    <2>. QED
        BY <1>0, <1>2, <2>1, <2>4 DEF Base, Typing
<1>7. Status(e) = "accepted"
    <2>1. Within(e)
        BY <1>0 DEF Within
    <2>2. Len(runs[e]) # Len(list)
        BY <1>0, <1>2, <1>5
    <2>. QED
        BY <1>2, <1>3, <2>1, <2>2, StatusIs
<1>8. Status(e)' = IF next[j] = Len(list) THEN "finished" ELSE "accepted"
    <2>1. next[j] # Len(list) => Within(e)'
        BY <1>4 DEF Within, AfterLast
    <2>2. caller'[e] = "pushed" /\ list' = list
        BY <1>1, <1>3
    <2>. QED
        BY <1>6, <2>1, <2>2, StatusBecomes
<1>9. ASSUME NEW f \in Entries, f # e PROVE Status(f)' = Status(f)
    <2>1. \A k \in Jobs : hand'[k] = f <=> hand[k] = f
        BY <1>0, <1>4, <1>9
    <2>2. Within(f)' <=> Within(f)
        BY <1>1, <2>1 DEF Within, Held
    <2>. QED
        BY <1>1, <1>6, <1>9, <2>2, StatusIs, StatusBecomes
<1>10. Len(runs[e]) + 1 = next[j]
    BY <1>0, <1>2
<1>11. runs' = [runs EXCEPT ![e] = Append(@, list[Len(runs[e]) + 1])]
    BY <1>0, <1>2, <1>10 DEF Calls
<1>. QED
    BY <1>1, <1>2, <1>7, <1>8, <1>9, <1>10, <1>11 DEF Promise!Pass, Promise!Seen, Panics

LEMMA PanicAbandons ==
    ASSUME Base, NEW j \in Jobs, Panic(j)
    PROVE  \E S \in SUBSET Entries : Promise!Abandon(S)
<1>1. /\ hand[j] # None /\ Panics(Calls(j))
      /\ hand' = [hand EXCEPT ![j] = None]
      /\ life' = [life EXCEPT ![j] = "panicked"]
      /\ UNCHANGED <<list, threshold, buf, caller, ch, runs>>
    BY DEF Panic, config, buffer
<1>2. \E i \in 1 .. Len(list) : Panics(list[i])
    <2>1. InHand(j) /\ next[j] \in 1 .. 2 /\ list \in Lists
        BY DEF Base, Typing, Places
    <2>2. next[j] <= Len(list) /\ Len(list) \in 0 .. 2
        BY <1>1, <2>1, ListFacts DEF InHand
    <2>3. next[j] \in 1 .. Len(list)
        BY <2>1, <2>2
    <2>. QED
        BY <1>1, <2>3 DEF Calls
<1>3. /\ \A k \in Jobs : hand'[k] \in {hand[k], None}
      /\ \A k \in Jobs : life'[k] = "running" => life[k] = "running"
      /\ \A f \in Entries : f # None
    BY <1>1, MonitorsAssumption DEF Base, Typing
<1> DEFINE S == {f \in Entries : Status(f) = "accepted" /\ Status(f)' = "abandoned"}
<1>4. ASSUME NEW f \in Entries, Status(f)' # Status(f)
      PROVE  Status(f) = "accepted" /\ Status(f)' = "abandoned"
    <2>1. Within(f)' => Within(f)
        BY <1>1, <1>3 DEF Within, Held
    <2>. QED
        BY <1>1, <1>4, <2>1, StatusIs, StatusBecomes
<1>5. ASSUME NEW f \in Entries PROVE Status(f)' = IF f \in S THEN "abandoned" ELSE Status(f)
    BY <1>4
<1>6. \A f \in S : f \in Entries /\ Status(f) = "accepted"
    OBVIOUS
<1>7. S \in SUBSET Entries
    OBVIOUS
<1>. HIDE DEF S
<1>8. Promise!Abandon(S)
    BY <1>1, <1>2, <1>5, <1>6 DEF Promise!Abandon, Panics
<1>. QED
    BY <1>7, <1>8

(***************************************************************************)
(* What MonitorEngine does is allowed by MonitorPromise: each transaction  *)
(* is accepted once, shown to the monitors in their order and to none of   *)
(* them twice, and given up only when one of them has panicked.            *)
(***************************************************************************)
THEOREM KeepsSafePromise == Spec => Promise!Spec
<1>1. Init => Promise!Init
    <2>. SUFFICES ASSUME Init PROVE Promise!Init
        OBVIOUS
    <2>1. ASSUME NEW e \in Entries PROVE Status(e) = "absent"
        BY StatusIs DEF Init
    <2>. QED
        BY <2>1 DEF Init, Promise!Init
<1>2. Base /\ [Next]_vars => [Promise!Next]_(Promise!vars)
    <2>1. ASSUME UNCHANGED vars PROVE UNCHANGED Promise!vars
        BY <2>1, Moves DEF vars, config, buffer, work, Within, Held
    <2>2. ASSUME Base, Next PROVE Promise!Next \/ UNCHANGED Promise!vars
        <3>1. CASE \E e \in Entries : Push(e)
            BY <2>2, <3>1, PushAccepts DEF Promise!Next
        <3>2. CASE \E j \in Jobs : Show(j)
            BY <2>2, <3>2, ShowPasses DEF Promise!Next
        <3>3. CASE \E j \in Jobs : Panic(j)
            BY <2>2, <3>3, PanicAbandons DEF Promise!Next
        <3>4. CASE \/ \E e \in Entries : Monitor(e) \/ Lock(e)
                   \/ Tick \/ StartFlush
            BY <2>2, <3>4, CallsMove
        <3>5. CASE MonitorPendings
            BY <2>2, <3>5, PendingsMove
        <3>6. CASE \E j \in Jobs : Receive(j) \/ End(j)
            BY <2>2, <3>6, GoroutinesMove
        <3>. QED
            BY <2>2, <3>1, <3>2, <3>3, <3>4, <3>5, <3>6 DEF Next, Goroutine
    <2>. QED
        BY <2>1, <2>2
<1>. QED
    BY <1>1, <1>2, BaseInvariance, PTL DEF Spec, Promise!Spec

-----------------------------------------------------------------------------
(***************************************************************************)
(* What a panic costs.  A batch that has fewer goroutines than there may   *)
(* be has one for each of its transactions; each that has panicked, or is  *)
(* at work, has taken a transaction out of the channel.                    *)
(***************************************************************************)
Born(n) == {i \in Pool : life[<<n, i>>] # "unborn"}

Busy(n) == {i \in Pool : life[<<n, i>>] = "panicked" \/ hand[<<n, i>>] # None}

Counted(n) ==
    n <= batches /\ (\E i \in Pool : life[<<n, i>>] = "unborn") =>
        Cardinality(ch[n]) + Cardinality(Busy(n)) <= Cardinality(Born(n))

LEMMA PoolCount ==
    /\ IsFiniteSet(Pool)
    /\ \A n \in Numbers : Busy(n) \in SUBSET Pool /\ Born(n) \in SUBSET Pool
    /\ \A S \in SUBSET Pool : IsFiniteSet(S) /\ Cardinality(S) \in Nat
<1>1. IsFiniteSet(Pool)
    BY MonitorsAssumption, FS_Interval DEF Pool
<1>2. ASSUME NEW S \in SUBSET Pool PROVE IsFiniteSet(S) /\ Cardinality(S) \in Nat
    BY <1>1, FS_Subset, FS_CardinalityType
<1>. QED
    BY <1>1, <1>2 DEF Busy, Born

(* Nothing is counted that was not counted before.                         *)
LEMMA CountShrinks ==
    ASSUME Base, Base', NEW n \in Numbers, Counted(n),
           UNCHANGED batches, ch'[n] = ch[n], Born(n)' = Born(n), Busy(n)' \subseteq Busy(n)
    PROVE  Counted(n)'
<1>1. /\ Busy(n) \in SUBSET Pool /\ Busy(n)' \in SUBSET Busy(n)
      /\ ch[n] \in SUBSET Entries
    BY PoolCount DEF Base, Typing
<1>2. /\ IsFiniteSet(Busy(n)) /\ Cardinality(Busy(n)) \in Nat
      /\ Born(n) \in SUBSET Pool /\ Cardinality(Born(n)) \in Nat
      /\ Cardinality(ch[n]) \in Nat
    BY <1>1, PoolCount, EntryCount
<1>3. Cardinality(Busy(n)') <= Cardinality(Busy(n)) /\ Cardinality(Busy(n)') \in Nat
    BY <1>1, <1>2, FS_Subset, FS_CardinalityType
<1>4. (\E i \in Pool : life'[<<n, i>>] = "unborn") <=> \E i \in Pool : life[<<n, i>>] = "unborn"
    BY DEF Born
<1>. QED
    BY <1>2, <1>3, <1>4 DEF Counted

LEMMA CountKept ==
    ASSUME Base, Base', \A n \in Numbers : Counted(n), [Next]_vars
    PROVE  \A n \in Numbers : Counted(n)'
<1>1. CASE MonitorPendings
    <2>0. UNCHANGED hand
        BY <1>1 DEF MonitorPendings
    <2>1. CASE buf = {}
        <3>1. UNCHANGED <<batches, ch, life>>
            BY <1>1, <2>1 DEF MonitorPendings, Base, Locked
        <3>. QED
            BY <2>0, <3>1 DEF Counted, Busy, Born
    <2>2. CASE buf # {}
        <3>0. PICK new \in Numbers : new = batches + 1
            BY <1>1, <2>2, NewBatch
        <3>1. /\ batches' = new /\ batches \in Nat
              /\ ch' = [ch EXCEPT ![new] = buf]
              /\ \A j \in Jobs : j[1] = new => life[j] = "unborn"
              /\ life' = [j \in Jobs |-> IF j[1] = new /\ j[2] \in Goroutines(buf)
                                         THEN "running" ELSE life[j]]
            BY <1>1, <2>2, <3>0, NewBatch DEF Base, Batches
        <3>2. ASSUME NEW n \in Numbers PROVE Counted(n)'
            <4>1. \A i \in Pool : <<n, i>> \in Jobs
                BY DEF Jobs
            <4>2. CASE n # new
                <5>1. \A i \in Pool : life'[<<n, i>>] = life[<<n, i>>]
                    BY <3>1, <4>1, <4>2
                <5>2. ch'[n] = ch[n]
                    BY <3>1, <4>2 DEF Base, Typing
                <5>3. Busy(n)' = Busy(n) /\ Born(n)' = Born(n)
                    BY <2>0, <5>1 DEF Busy, Born
                <5>4. n <= batches' => n <= batches
                    BY <3>0, <3>1, <4>2 DEF Numbers
                <5>. QED
                    BY <5>1, <5>2, <5>3, <5>4 DEF Counted
            <4>3. CASE n = new
                <5>. SUFFICES ASSUME NEW k \in Pool, life'[<<n, k>>] = "unborn"
                              PROVE  Cardinality(ch'[n]) + Cardinality(Busy(n)')
                                        <= Cardinality(Born(n)')
                    BY DEF Counted
                <5>1. \A i \in Pool : life'[<<n, i>>] =
                          IF i \in Goroutines(buf) THEN "running" ELSE "unborn"
                    BY <3>1, <4>1, <4>3
                <5>2. \A i \in Pool : hand[<<n, i>>] = None
                    BY <3>1, <4>1, <4>3 DEF Base, Places, InHand
                <5>3. Busy(n)' = {}
                    BY <2>0, <5>1, <5>2 DEF Busy
                <5>4. buf \in SUBSET Entries /\ ch'[n] = buf
                    BY <3>1, <4>3 DEF Base, Typing
                <5>5. Cardinality(buf) \in Nat
                    BY <5>4, EntryCount
                <5>6. k \in 1 .. workers /\ ~(k <= Cardinality(buf)) /\ workers \in Nat
                    BY <5>1, MonitorsAssumption DEF Goroutines, Pool
                <5>7. Born(n)' = Goroutines(buf)
                    BY <5>1 DEF Born, Goroutines
                <5>8. Goroutines(buf) = 1 .. Cardinality(buf)
                    BY <5>5, <5>6 DEF Goroutines, Pool
                <5>9. Cardinality(1 .. Cardinality(buf)) = Cardinality(buf)
                    BY <5>5, FS_Interval
                <5>10. Cardinality(Busy(n)') = 0
                    BY <5>3, FS_EmptySet
                <5>. QED
                    BY <5>4, <5>5, <5>7, <5>8, <5>9, <5>10
            <4>. QED
                BY <4>2, <4>3
        <3>. QED
            BY <3>2
    <2>. QED
        BY <2>1, <2>2
<1>2. ASSUME NEW j \in Jobs, Receive(j), NEW n \in Numbers PROVE Counted(n)'
    <2>0. PICK e \in ch[j[1]] :
              /\ ch' = [ch EXCEPT ![j[1]] = @ \ {e}]
              /\ hand' = [hand EXCEPT ![j] = e]
        BY <1>2 DEF Receive
    <2>1. j = <<j[1], j[2]>> /\ j[1] \in Numbers /\ j[2] \in Pool
        BY DEF Jobs
    <2>2. UNCHANGED <<batches, life>> /\ Born(n)' = Born(n) /\ hand[j] = None
        BY <1>2 DEF Receive, Born
    <2>3. CASE n # j[1]
        <3>1. ch'[n] = ch[n]
            BY <2>0, <2>1, <2>3 DEF Base, Typing
        <3>2. \A i \in Pool : hand'[<<n, i>>] = hand[<<n, i>>]
            BY <2>0, <2>1, <2>3 DEF Base, Typing, Jobs
        <3>3. Busy(n)' \subseteq Busy(n)
            BY <2>2, <3>2 DEF Busy
        <3>. QED
            BY <2>2, <3>1, <3>3, CountShrinks
    <2>4. CASE n = j[1]
        <3>1. ch'[n] = ch[n] \ {e} /\ e \in ch[n] /\ ch[n] \in SUBSET Entries
            BY <2>0, <2>4 DEF Base, Typing
        <3>2. Cardinality(ch'[n]) = Cardinality(ch[n]) - 1 /\ Cardinality(ch[n]) \in Nat
            BY <3>1, EntryCount, FS_RemoveElement
        <3>3. Busy(n)' \in SUBSET (Busy(n) \cup {j[2]})
            <4>1. \A i \in Pool : i # j[2] => hand'[<<n, i>>] = hand[<<n, i>>]
                BY <2>0, <2>1, <2>4 DEF Base, Typing, Jobs
            <4>. QED
                BY <2>2, <4>1 DEF Busy
        <3>4. IsFiniteSet(Busy(n)) /\ Cardinality(Busy(n)) \in Nat /\ Cardinality(Born(n)) \in Nat
            BY PoolCount
        <3>5. /\ IsFiniteSet(Busy(n) \cup {j[2]})
              /\ Cardinality(Busy(n) \cup {j[2]}) <= Cardinality(Busy(n)) + 1
              /\ Cardinality(Busy(n) \cup {j[2]}) \in Nat
            <4>1. CASE j[2] \in Busy(n)
                <5>1. Busy(n) \cup {j[2]} = Busy(n)
                    BY <4>1
                <5>. QED
                    BY <3>4, <5>1
            <4>2. CASE j[2] \notin Busy(n)
                <5>1. IsFiniteSet(Busy(n) \cup {j[2]})
                    BY <3>4, FS_AddElement
                <5>2. Cardinality(Busy(n) \cup {j[2]}) = Cardinality(Busy(n)) + 1
                    BY <3>4, <4>2, FS_AddElement
                <5>. QED
                    BY <3>4, <5>1, <5>2
            <4>. QED
                BY <4>1, <4>2
        <3>6. Cardinality(Busy(n)') <= Cardinality(Busy(n)) + 1 /\ Cardinality(Busy(n)') \in Nat
            <4>1. Cardinality(Busy(n)') <= Cardinality(Busy(n) \cup {j[2]})
                BY <3>3, <3>5, FS_Subset
            <4>2. IsFiniteSet(Busy(n)')
                BY <3>3, <3>5, FS_Subset
            <4>3. Cardinality(Busy(n)') \in Nat
                BY <4>2, FS_CardinalityType
            <4>. QED
                BY <3>4, <3>5, <4>1, <4>3
        <3>7. Counted(n)
            OBVIOUS
        <3>. QED
            BY <2>2, <3>2, <3>4, <3>6, <3>7 DEF Counted
    <2>. QED
        BY <2>3, <2>4
<1>3. ASSUME NEW j \in Jobs, Show(j) \/ Panic(j) \/ End(j), NEW n \in Numbers PROVE Counted(n)'
    <2>1. UNCHANGED <<batches, ch>>
        BY <1>3 DEF Show, Panic, End
    <2>2. /\ \A k \in Jobs : life'[k] = "unborn" <=> life[k] = "unborn"
          /\ \A k \in Jobs : hand'[k] # None => hand[k] # None
          /\ \A k \in Jobs : life'[k] = "panicked" => life[k] = "panicked" \/ hand[k] # None
        <3>1. CASE Show(j)
            BY <3>1 DEF Show, Base, Typing
        <3>2. CASE Panic(j)
            BY <3>2, BasePanic DEF Panic, Base, Typing
        <3>3. CASE End(j)
            BY <3>3 DEF End, Base, Typing
        <3>. QED
            BY <1>3, <3>1, <3>2, <3>3
    <2>3. Born(n)' = Born(n) /\ Busy(n)' \subseteq Busy(n)
        BY <2>2 DEF Born, Busy, Jobs
    <2>. QED
        BY <2>1, <2>3, CountShrinks
<1>4. CASE \/ \E e \in Entries : Monitor(e) \/ Lock(e) \/ Push(e)
           \/ Tick \/ StartFlush \/ UNCHANGED vars
    BY <1>4 DEF Monitor, Lock, Push, Tick, StartFlush, vars, work, Counted, Busy, Born
<1>. QED
    BY <1>1, <1>2, <1>3, <1>4 DEF Next, Goroutine

(***************************************************************************)
(* A batch is left behind only when as many goroutines have panicked as    *)
(* there may be: in particular no batch of at most that many is.           *)
(***************************************************************************)
THEOREM LossesAreBounded == Spec => []LossNeedsPanics
<1>1. Init => \A n \in Numbers : Counted(n)
    BY DEF Init, Counted, Numbers
<1>2. (\A n \in Numbers : Counted(n)) /\ Base /\ Base' /\ [Next]_vars
         => (\A n \in Numbers : Counted(n))'
    BY CountKept
<1>3. Base /\ (\A n \in Numbers : Counted(n)) => LossNeedsPanics
    <2>. SUFFICES ASSUME Base, NEW n \in Numbers, Counted(n), LeftBehind(n),
                         NEW i \in Pool, life[<<n, i>>] # "panicked"
                  PROVE  FALSE
        BY DEF LossNeedsPanics
    <2>1. /\ n <= batches /\ ch[n] # {}
          /\ \A k \in Pool : <<n, k>> \in Jobs /\ life[<<n, k>>] # "running"
        BY DEF LeftBehind, Held, Jobs
    <2>2. \A k \in Pool : life[<<n, k>>] \in {"unborn", "panicked"}
        BY <2>1 DEF Base, Typing, Places, InHand
    <2>3. Cardinality(ch[n]) + Cardinality(Busy(n)) <= Cardinality(Born(n))
        BY <2>1, <2>2 DEF Counted
    <2>4. Born(n) \in SUBSET Busy(n)
        BY <2>2 DEF Born, Busy
    <2>5. /\ IsFiniteSet(Busy(n)) /\ Cardinality(Busy(n)) \in Nat /\ Cardinality(Born(n)) \in Nat
        BY PoolCount
    <2>6. Cardinality(Born(n)) <= Cardinality(Busy(n))
        BY <2>4, <2>5, FS_Subset
    <2>7. ch[n] \in SUBSET Entries
        BY DEF Base, Typing
    <2>8. IsFiniteSet(ch[n]) /\ Cardinality(ch[n]) \in Nat /\ Cardinality(ch[n]) # 0
        BY <2>1, <2>7, EntryCount, FS_EmptySet
    <2>. QED
        BY <2>3, <2>5, <2>6, <2>8
<1>. QED
    BY <1>1, <1>2, <1>3, BaseInvariance, PTL DEF Spec

-----------------------------------------------------------------------------
(***************************************************************************)
(* What has been logged of a transaction is what the monitors that have    *)
(* seen it log.                                                            *)
(***************************************************************************)
Logged(e) ==
    /\ \A m \in Kinds : <<m, e>> \in reported => Logs(m, e) /\ ~Panics(m)
    /\ \A i \in 1 .. Len(runs[e]) :
          /\ runs[e][i] \in Kinds /\ ~Panics(runs[e][i])
          /\ Logs(runs[e][i], e) => <<runs[e][i], e>> \in reported

LEMMA LoggedByShow ==
    ASSUME Base, NEW j \in Jobs, Show(j), NEW f \in Entries, Logged(f)
    PROVE  Logged(f)'
<1>1. /\ ~Panics(Calls(j))
      /\ reported' = IF Logs(Calls(j), hand[j]) THEN reported \cup {<<Calls(j), hand[j]>>}
                     ELSE reported
      /\ UNCHANGED threshold
    BY DEF Show, config
<1>2. /\ Calls(j) \in Kinds /\ hand[j] \in Entries
      /\ runs' = [runs EXCEPT ![hand[j]] = Append(@, Calls(j))]
    BY BaseShow
<1>3. PICK m \in Kinds, e \in Entries : m = Calls(j) /\ e = hand[j]
    BY <1>2
<1>4. /\ ~Panics(m)
      /\ reported' = IF Logs(m, e) THEN reported \cup {<<m, e>>} ELSE reported
      /\ runs'[f] = IF f = e THEN Append(runs[e], m) ELSE runs[f]
    BY <1>1, <1>2, <1>3 DEF Base, Typing
<1>5. \A k \in Kinds : (Logs(k, f)' <=> Logs(k, f)) /\ (Panics(k)' <=> Panics(k))
    BY <1>1 DEF Logs, IsWhale, IsWatched, Panics
<1>6. ASSUME NEW k \in Kinds, <<k, f>> \in reported' PROVE Logs(k, f)' /\ ~Panics(k)'
    BY <1>4, <1>5, <1>6 DEF Logged
<1>7. ASSUME NEW i \in 1 .. Len(runs'[f])
      PROVE  /\ runs'[f][i] \in Kinds /\ ~Panics(runs'[f][i])
             /\ Logs(runs'[f][i], f) => <<runs'[f][i], f>> \in reported'
    <2>1. runs[f] \in Seq(Kinds) /\ runs[e] \in Seq(Kinds)
        BY DEF Base, Typing
    <2>2. CASE f # e
        BY <1>4, <1>7, <2>2 DEF Logged
    <2>3. CASE f = e
        <3>1. Len(runs'[f]) = Len(runs[f]) + 1
            BY <1>4, <2>1, <2>3
        <3>2. CASE i = Len(runs[f]) + 1
            <4>1. runs'[f][i] = m
                BY <1>4, <2>1, <2>3, <3>2
            <4>. QED
                BY <1>4, <2>3, <4>1
        <3>3. CASE i # Len(runs[f]) + 1
            <4>1. i \in 1 .. Len(runs[f]) /\ runs'[f][i] = runs[f][i]
                BY <1>4, <1>7, <2>1, <2>3, <3>1, <3>3
            <4>. QED
                BY <1>4, <4>1 DEF Logged
        <3>. QED
            BY <3>2, <3>3
    <2>. QED
        BY <2>2, <2>3
<1>8. threshold' = threshold
    BY <1>1
<1>. QED
    BY <1>6, <1>7, <1>8 DEF Logged, Logs, IsWhale, IsWatched, Panics

(***************************************************************************)
(* A transaction that has been seen by all was logged by each monitor that *)
(* wants it, and by no other.                                              *)
(***************************************************************************)
THEOREM LogsAreRight == Spec => []LogsWhatIsWanted
<1>1. Init => \A e \in Entries : Logged(e)
    BY DEF Init, Logged
<1>2. (\A e \in Entries : Logged(e)) /\ Base /\ [Next]_vars => (\A e \in Entries : Logged(e))'
    <2>1. CASE UNCHANGED <<threshold, runs, reported>>
        BY <2>1 DEF Logged, Logs, IsWhale, IsWatched, Panics
    <2>2. CASE \E j \in Jobs : Show(j)
        BY <2>2, LoggedByShow
    <2>3. [Next]_vars => UNCHANGED <<threshold, runs, reported>> \/ \E j \in Jobs : Show(j)
        BY DEF Next, Goroutine, Monitor, Lock, Push, Tick, StartFlush, MonitorPendings, Receive,
               Panic, End, vars, config, work
    <2>. QED
        BY <2>1, <2>2, <2>3
<1>3. Base /\ (\A e \in Entries : Logged(e)) => LogsWhatIsWanted
    <2>. SUFFICES ASSUME Base, NEW e \in Entries, Logged(e), NEW m \in Kinds
                  PROVE  /\ Whole(e) /\ (\E i \in 1 .. Len(list) : list[i] = m)
                               => (<<m, e>> \in reported <=> Wanted(m, e))
                         /\ <<m, e>> \in reported => Wanted(m, e)
        BY DEF LogsWhatIsWanted, Kinds
    <2>1. Logs(m, e) /\ ~Panics(m) => Wanted(m, e)
        BY DEF Logs, IsWhale, IsWatched, Panics, Wanted, Kinds
    <2>2. Wanted(m, e) => Logs(m, e)
        BY MonitorsAssumption DEF Logs, IsWhale, IsWatched, Wanted, Kinds
    <2>3. <<m, e>> \in reported => Wanted(m, e)
        BY <2>1 DEF Logged
    <2>4. ASSUME Whole(e), NEW i \in 1 .. Len(list), list[i] = m, Wanted(m, e)
          PROVE  <<m, e>> \in reported
        BY <2>2, <2>4 DEF Logged, Whole
    <2>. QED
        BY <2>3, <2>4
<1>. QED
    BY <1>1, <1>2, <1>3, BaseInvariance, PTL DEF Spec
=============================================================================
