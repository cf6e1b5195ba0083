------------------------------ MODULE Monitors ------------------------------
(***************************************************************************)
(* MonitorEngine of pkg/service/monitor.go with the two monitors of        *)
(* whalemonitor.go and addrmonitor.go, built by newMonitors.               *)
(*                                                                         *)
(* Goroutines of the engine push transactions into a buffer.  A ticker's   *)
(* goroutine takes the whole buffer and starts a few goroutines that share *)
(* it through a channel, and does not wait for them: several batches may   *)
(* be at work at once.  A monitor that panics takes its goroutine with it. *)
(*                                                                         *)
(* The buffer and the channels are sets: entries are distinct, and nothing *)
(* here depends on their order.                                            *)
(***************************************************************************)
EXTENDS Naturals, Sequences, FiniteSets

CONSTANTS
    Entries,        \* transactions passed to Monitor
    Value,          \* value of each
    Sender,         \* sender of each, or Unsigned
    Watched,        \* addresses the address monitor is configured with
    Thresholds,     \* minimums the whale monitor may be configured with
    workers,        \* goroutines a batch may have at most
    None, Free, Flusher, Unsigned, NoThreshold

Numbers == 1 .. Cardinality(Entries)    \* batches: none is empty

Pool == 1 .. workers

Jobs == Numbers \X Pool

Lists == {<<>>, <<"address">>, <<"whale">>, <<"address", "whale">>}

ASSUME MonitorsAssumption ==
    /\ IsFiniteSet(Entries)
    /\ {None, Free, Flusher} \cap Entries = {} /\ Free # Flusher
    /\ Value \in [Entries -> Nat]
    /\ Thresholds \subseteq Nat \cup {NoThreshold} /\ NoThreshold \notin Nat
    /\ Unsigned \notin Watched
    /\ workers \in Nat \ {0}

VARIABLES
    list,       \* the monitors the configuration enables, in their order
    threshold,  \* MinThreshold; NoThreshold if the configured one is no number
    mut,        \* the goroutine that holds the mutex
    buf,        \* the buffer
    read,       \* what each goroutine has read of the buffer
    caller,     \* of each transaction, where its call of Monitor is
    tick,       \* a tick is in the channel of the ticker
    flushing,   \* the ticker's goroutine is inside flush
    batches,    \* batches so far
    ch,         \* what is in the channel of each batch
    life,       \* of each goroutine of each batch
    hand,       \* the transaction a goroutine is working on
    next,       \* and the position of the monitor it calls next
    runs,       \* history: the monitors that have returned, of each transaction
    reported    \* history: what was logged

config == <<list, threshold>>
buffer == <<mut, buf, read, caller, tick, flushing>>
work == <<ch, life, hand, next, runs, reported>>
vars == <<config, buffer, batches, work>>

Init ==
    /\ list \in Lists
    /\ threshold \in Thresholds
    /\ mut = Free
    /\ buf = {}
    /\ read = [p \in Entries \cup {Flusher} |-> {}]
    /\ caller = [e \in Entries |-> "idle"]
    /\ tick = FALSE
    /\ flushing = FALSE
    /\ batches = 0
    /\ ch = [n \in Numbers |-> {}]
    /\ life = [j \in Jobs |-> "unborn"]
    /\ hand = [j \in Jobs |-> None]
    /\ next = [j \in Jobs |-> 1]
    /\ runs = [e \in Entries |-> <<>>]
    /\ reported = {}

(* Mutated form of MutexAvailable: the buffer without its mutex.           *)
MutexIgnored == TRUE

MutexAvailable == mut = Free

(***************************************************************************)
(* Monitor and push, of the goroutine that classifies transaction e.       *)
(***************************************************************************)
Monitor(e) ==
    /\ caller[e] = "idle"
    /\ caller' = [caller EXCEPT ![e] = IF list = <<>> THEN "ignored" ELSE "locking"]
    /\ UNCHANGED <<config, mut, buf, read, tick, flushing, batches, work>>

Lock(e) ==
    /\ caller[e] = "locking"
    /\ MutexAvailable
    /\ mut' = e
    /\ read' = [read EXCEPT ![e] = buf]
    /\ caller' = [caller EXCEPT ![e] = "appending"]
    /\ UNCHANGED <<config, buf, tick, flushing, batches, work>>

Push(e) ==
    /\ caller[e] = "appending"
    /\ buf' = read[e] \cup {e}
    /\ mut' = Free
    /\ caller' = [caller EXCEPT ![e] = "pushed"]
    /\ read' = [read EXCEPT ![e] = {}]
    /\ UNCHANGED <<config, tick, flushing, batches, work>>

(***************************************************************************)
(* The ticker and its goroutine, which NewMonitorEngine starts only if     *)
(* there is a monitor.  A tick that finds another one waiting is dropped.  *)
(***************************************************************************)
Tick ==
    /\ list # <<>>
    /\ ~tick
    /\ tick' = TRUE
    /\ UNCHANGED <<config, mut, buf, read, caller, flushing, batches, work>>

StartFlush ==
    /\ tick /\ ~flushing
    /\ MutexAvailable
    /\ mut' = Flusher
    /\ read' = [read EXCEPT ![Flusher] = buf]
    /\ tick' = FALSE
    /\ flushing' = TRUE
    /\ UNCHANGED <<config, buf, caller, batches, work>>

(* Mutated forms of Goroutines: as many as there are workers but never     *)
(* more than there are entries, off by one; and of Emptied: the slice that *)
(* was handed out stays in the buffer.                                     *)
OneFewer(b) == {i \in Pool : i = 1 \/ i < Cardinality(b)}
StillFull(b) == b

Goroutines(b) == {i \in Pool : i <= Cardinality(b)}

(* e.buf = make([]entry, 0)                                                *)
Emptied(b) == {}

(* Mutated form of Unlocked: an early return before the mutex is given up. *)
KeptIfEmpty == IF read[Flusher] = {} THEN mut ELSE Free

(* defer e.mut.Unlock()                                                    *)
Unlocked == Free

(* The rest of flush, and of monitorPendings: the channel is filled and    *)
(* closed, and its goroutines are started.                                 *)
MonitorPendings ==
    /\ flushing
    /\ flushing' = FALSE
    /\ buf' = Emptied(buf)
    /\ mut' = Unlocked
    /\ LET b == read[Flusher]
           n == batches + 1
       IN  IF b = {}
           THEN UNCHANGED <<batches, ch, life>>
           ELSE /\ batches' = n
                /\ ch' = [ch EXCEPT ![n] = b]
                /\ life' = [j \in Jobs |-> IF j[1] = n /\ j[2] \in Goroutines(b)
                                           THEN "running" ELSE life[j]]
    /\ read' = [read EXCEPT ![Flusher] = {}]
    /\ UNCHANGED <<config, caller, tick, hand, next, runs, reported>>

(***************************************************************************)
(* The monitors.                                                           *)
(***************************************************************************)

(* Mutated form of IsWhale: the threshold itself counts.                   *)
AtLeast(e) == Value[e] >= threshold

(* tx.Value().Cmp(m.MinThreshold) == 1                                     *)
IsWhale(e) == Value[e] > threshold

(* A transaction whose sender cannot be recovered is let pass.             *)
IsWatched(e) == Sender[e] # Unsigned /\ Sender[e] \in Watched

Logs(m, e) == IF m = "whale" THEN IsWhale(e) ELSE IsWatched(e)

(* Comparing with a nil big.Int.                                           *)
Panics(m) == m = "whale" /\ threshold = NoThreshold

(***************************************************************************)
(* A goroutine of a batch.                                                 *)
(***************************************************************************)
Receive(j) ==
    /\ life[j] = "running"
    /\ hand[j] = None
    /\ \E e \in ch[j[1]] :
          /\ ch' = [ch EXCEPT ![j[1]] = @ \ {e}]
          /\ hand' = [hand EXCEPT ![j] = e]
    /\ UNCHANGED <<config, buffer, batches, life, next, runs, reported>>

Calls(j) == list[next[j]]

AfterLast(k) == k = Len(list)

(* A monitor returns; after the last one the next entry is received.       *)
Show(j) ==
    /\ hand[j] # None
    /\ ~Panics(Calls(j))
    /\ runs' = [runs EXCEPT ![hand[j]] = Append(@, Calls(j))]
    /\ reported' = IF Logs(Calls(j), hand[j]) THEN reported \cup {<<Calls(j), hand[j]>>} ELSE reported
    /\ next' = [next EXCEPT ![j] = IF AfterLast(@) THEN 1 ELSE @ + 1]
    /\ hand' = [hand EXCEPT ![j] = IF AfterLast(next[j]) THEN None ELSE @]
    /\ UNCHANGED <<config, buffer, batches, ch, life>>

(* defer recovery(): the loop over the channel is over.                    *)
Panic(j) ==
    /\ hand[j] # None
    /\ Panics(Calls(j))
    /\ hand' = [hand EXCEPT ![j] = None]
    /\ next' = [next EXCEPT ![j] = 1]
    /\ life' = [life EXCEPT ![j] = "panicked"]
    /\ UNCHANGED <<config, buffer, batches, ch, runs, reported>>

End(j) ==
    /\ life[j] = "running"
    /\ hand[j] = None
    /\ ch[j[1]] = {}
    /\ life' = [life EXCEPT ![j] = "ended"]
    /\ UNCHANGED <<config, buffer, batches, ch, hand, next, runs, reported>>

Goroutine(j) == Receive(j) \/ Show(j) \/ Panic(j) \/ End(j)

Next ==
    \/ \E e \in Entries : Monitor(e) \/ Lock(e) \/ Push(e)
    \/ Tick \/ StartFlush \/ MonitorPendings
    \/ \E j \in Jobs : Goroutine(j)

Spec == Init /\ [][Next]_vars

(***************************************************************************)
(* The ticker ticks, goroutines are scheduled, and a goroutine that waits  *)
(* for a sync.Mutex is not passed over for ever.                           *)
(***************************************************************************)
Fairness ==
    /\ WF_vars(Tick) /\ SF_vars(StartFlush) /\ WF_vars(MonitorPendings)
    /\ \A e \in Entries : SF_vars(Lock(e)) /\ WF_vars(Push(e))
    /\ \A j \in Jobs : WF_vars(Goroutine(j))

FairSpec == Spec /\ Fairness

-----------------------------------------------------------------------------
(***************************************************************************)
(* Type correctness of the buffer, of the batches and of what was seen.    *)
(***************************************************************************)
TypeOK ==
    /\ list \in Lists
    /\ threshold \in Thresholds
    /\ mut \in Entries \cup {Flusher, Free}
    /\ buf \subseteq Entries
    /\ read \in [Entries \cup {Flusher} -> SUBSET Entries]
    /\ caller \in [Entries -> {"idle", "ignored", "locking", "appending", "pushed"}]
    /\ {tick, flushing} \subseteq BOOLEAN
    /\ batches \in 0 .. Cardinality(Entries)
    /\ ch \in [Numbers -> SUBSET Entries]
    /\ life \in [Jobs -> {"unborn", "running", "ended", "panicked"}]
    /\ hand \in [Jobs -> Entries \cup {None}]
    /\ next \in [Jobs -> 1 .. 2]
    /\ runs \in [Entries -> Seq({"address", "whale"})]
    /\ reported \subseteq {"address", "whale"} \X Entries

(***************************************************************************)
(* MonitorEngine keeps its promise: whatever the interleaving of pushes,   *)
(* flushes and batches, no transaction is lost between the buffer and the  *)
(* monitors, or shown to one twice; only a panic gives transactions up;    *)
(* and every other one has been seen by all the monitors in the end.       *)
(***************************************************************************)
Held(n) == \E j \in Jobs : j[1] = n /\ life[j] = "running"

Within(e) ==
    \/ e \in buf
    \/ \E n \in Numbers : e \in ch[n] /\ Held(n)
    \/ \E j \in Jobs : hand[j] = e

Status(e) ==
    CASE caller[e] # "pushed" -> "absent"
      [] caller[e] = "pushed" /\ Len(runs[e]) = Len(list) -> "finished"
      [] caller[e] = "pushed" /\ Len(runs[e]) # Len(list) /\ Within(e) -> "accepted"
      [] OTHER -> "abandoned"

Promise == INSTANCE MonitorPromise
    WITH list <- list, runs <- runs,
         fragile <- \E i \in 1 .. Len(list) : Panics(list[i]),
         status <- [e \in Entries |-> Status(e)]

KeepsPromise == Promise!FairSpec

(***************************************************************************)
(* A panic costs the batch one goroutine and one transaction: entries are  *)
(* left behind in a channel only after as many panics as there may be      *)
(* goroutines, so a batch no larger than that is received to its end.      *)
(***************************************************************************)
LeftBehind(n) == n <= batches /\ ch[n] # {} /\ ~Held(n)

LossNeedsPanics == \A n \in Numbers :
    LeftBehind(n) => \A i \in Pool : life[<<n, i>>] = "panicked"

(***************************************************************************)
(* What is logged is what the configuration asks for: a transaction that   *)
(* every monitor has seen was logged by the whale monitor exactly if it    *)
(* moves more than the minimum, and by the address monitor exactly if one  *)
(* of the listed addresses sent it; and nothing was logged unseen.         *)
(***************************************************************************)
Wanted(m, e) ==
    \/ m = "whale" /\ threshold # NoThreshold /\ Value[e] > threshold
    \/ m = "address" /\ \E a \in Watched : Sender[e] = a

Whole(e) == runs[e] = list

LogsWhatIsWanted == \A e \in Entries, m \in {"address", "whale"} :
    /\ Whole(e) /\ (\E i \in 1 .. Len(list) : list[i] = m) => (<<m, e>> \in reported <=> Wanted(m, e))
    /\ <<m, e>> \in reported => Wanted(m, e)

(***************************************************************************)
(* A call of Monitor holds up the classification of a transaction for a    *)
(* moment only, whatever the monitors do with those before.                *)
(***************************************************************************)
CallsReturn == \A e \in Entries :
    caller[e] = "locking" ~> caller[e] = "pushed"
=============================================================================
