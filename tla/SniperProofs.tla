---------------------------- MODULE SniperProofs ----------------------------
(***************************************************************************)
(* What Sniper guarantees for any swarm, any number of concurrent calls,   *)
(* any faults of the node, any orders and any crashes.                     *)
(***************************************************************************)
EXTENDS Sniper, FiniteSetTheorems, TLAPS

PoolFinite == IsFiniteSet(pool)

(* What a goroutine sends is a transaction of its own bee.                 *)
SignedByBee == \A c \in Calls, b \in Bees :
    stage[c][b] \in {"signed", "acked"} => hash[c][b] \in Tx /\ hash[c][b].bee = b

Typing == TypeOK /\ PoolFinite /\ SignedByBee

(***************************************************************************)
(* Mutual exclusion needs to know that a call between Lock and Return      *)
(* holds the mutex even when all its goroutines have ended.                *)
(***************************************************************************)
Holder == \A c \in Calls : pc[c] \in {"sending", "checking"} => mut = c

(* The stages a goroutine may be in during each half of Snipe.             *)
Halves == \A c \in Calls, b \in Bees :
    /\ pc[c] = "sending" => stage[c][b] \in SendStages \cup {"hashed", "panicked"}
    /\ pc[c] = "checking" => stage[c][b] \in CheckStages \cup EndStages

Exclusion == Holder /\ Halves /\ Serialized

(* A transaction on its way has the nonce the bee still counts as unused.  *)
NonceOfSend == \A c \in Calls, b \in Bees :
    stage[c][b] \in {"signed", "acked"} => hash[c][b].nonce = pendingNonce[b]

(* Every nonce acknowledged is below the counter, or is the one that its   *)
(* goroutine is about to count.                                            *)
AckedBelow == \A x \in acked :
    \/ x.nonce < pendingNonce[x.bee]
    \/ x.nonce = pendingNonce[x.bee] /\ stage[x.call][x.bee] = "acked"

Nonces == NonceOfSend /\ AckedBelow /\ NoNonceReuse

(* What a confirmed goroutine has seen; a call that has reported is over.  *)
ConfirmedMined == \A c \in Calls, b \in Bees :
    stage[c][b] = "confirmed" => \E r \in receipts : r.status = 1 /\ r.tx = hash[c][b]

ReportedReturned == \A c \in Calls : report[c] # "none" => pc[c] = "returned"

Reports == ConfirmedMined /\ ReportedReturned /\ ReportTruthful

(* The order that is still armed has not been bought by any receipt.       *)
ReceiptOrders == \A r \in receipts :
    r.status = 1 => r.order <= orders /\ (phase = "armed" => r.order # orders)

-----------------------------------------------------------------------------
(* The state newBees and NewSniper leave is well typed.                    *)
LEMMA InitTyping == Init => Typing
<1>. SUFFICES ASSUME Init PROVE Typing
  OBVIOUS
<1>1. nonce \in [Bees -> Nat]
  BY ConstantsAssumption DEF Init
<1>2. pendingNonce \in [Bees -> Nat]
  BY <1>1 DEF Init, StartNonce
<1>3. pool \subseteq Tx /\ PoolFinite
  BY FS_EmptySet DEF Init, PoolFinite
<1>4. stage \in [Calls -> [Bees -> Stages]] /\ hash \in [Calls -> [Bees -> Tx \cup {NullHash}]]
  BY DEF Init, Stages
<1>5. SignedByBee
  BY DEF Init, SignedByBee
<1>. QED
  BY <1>1, <1>2, <1>3, <1>4, <1>5
  DEF Init, Typing, TypeOK, Order!Init, PcValues, Order!Phases

(* The pool after a transaction was taken is still a finite set of them.   *)
LEMMA PoolWithTyping ==
    ASSUME Typing, NEW t \in Tx
    PROVE  PoolWith(t) \subseteq Tx /\ IsFiniteSet(PoolWith(t))
<1>1. IsFiniteSet(pool \ Rival(t))
  BY FS_Subset, pool \ Rival(t) \subseteq pool DEF Typing, PoolFinite
<1>2. IsFiniteSet(PoolWith(t))
  BY <1>1, FS_AddElement DEF PoolWith
<1>. QED
  BY <1>2 DEF PoolWith, Typing, TypeOK

(* The node's answer to PendingNonceAt is a nonce.                         *)
LEMMA PendingNonceTyping ==
    ASSUME Typing, NEW b \in Bees
    PROVE  PendingNonceAt(b) \in Nat
<1>. DEFINE S == {p \in pool : p.bee = b /\ Executable(p)}
<1>1. IsFiniteSet(S)
  BY FS_Subset, S \subseteq pool DEF Typing, PoolFinite
<1>2. Cardinality(S) \in Nat
  BY <1>1, FS_CardinalityType
<1>3. nonce[b] \in Nat
  BY DEF Typing, TypeOK
<1>4. nonce[b] + Cardinality(S) \in Nat
  BY <1>2, <1>3
<1>. QED
  BY <1>4 DEF PendingNonceAt

(* Blocks, evictions, liquidity and orders keep the types.                 *)
LEMMA ChainTyping ==
    ASSUME Typing, Chain
    PROVE  Typing'
<1>1. CASE \E t \in pool : Mine(t)
  <2>1. PICK t \in pool : Mine(t)
    BY <1>1
  <2>2. t \in Tx /\ t.bee \in Bees
    BY DEF Typing, TypeOK, Tx
  <2>3. IsFiniteSet(pool')
    BY <2>1, FS_Subset, pool \ {t} \subseteq pool DEF Mine, Typing, PoolFinite
  <2>4. receipts' \subseteq [tx : Tx, status : {0, 1}, order : Nat]
    BY <2>1, <2>2 DEF Mine, Receipt, Typing, TypeOK
  <2>. QED
    BY <2>1, <2>2, <2>3, <2>4
    DEF Mine, Order!Fill, Typing, TypeOK, PoolFinite, SignedByBee, swarm, order, Order!Phases
<1>2. CASE \E t \in pool : Drop(t)
  <2>1. PICK t \in pool : Drop(t)
    BY <1>2
  <2>2. IsFiniteSet(pool')
    BY <2>1, FS_Subset, pool \ {t} \subseteq pool DEF Drop, Typing, PoolFinite
  <2>. QED
    BY <2>1, <2>2 DEF Drop, Typing, TypeOK, PoolFinite, SignedByBee, swarm, order
<1>3. CASE MineLiquidity
  BY <1>3 DEF MineLiquidity, Typing, TypeOK, PoolFinite, SignedByBee, swarm, order
<1>4. CASE ConfigureOrder
  BY <1>4 DEF ConfigureOrder, Order!Arm, Typing, TypeOK, PoolFinite, SignedByBee, swarm, Order!Phases
<1>. QED
  BY <1>1, <1>2, <1>3, <1>4 DEF Chain

(* Every step of a goroutine of Snipe keeps the types.                     *)
LEMMA GoroutineTyping ==
    ASSUME Typing, NEW c \in Calls, NEW b \in Bees, Goroutine(c, b)
    PROVE  Typing'
<1>. USE DEF Typing, chain, order
<1>1. CASE Sign(c, b)
  <2>1. [bee |-> b, nonce |-> pendingNonce[b], gas |-> gas[c]] \in Tx
    BY DEF TypeOK, Tx, ConstantsAssumption
  <2>2. stage' \in [Calls -> [Bees -> Stages]]
    BY <1>1 DEF Sign, To, TypeOK, Stages, SendStages
  <2>3. SignedByBee'
    BY <1>1, <2>1 DEF Sign, To, TypeOK, SignedByBee
  <2>. QED
    BY <1>1, <2>1, <2>2, <2>3 DEF Sign, TypeOK, PoolFinite
<1>2. CASE SendAccepted(c, b)
  <2>1. hash[c][b] \in Tx
    BY <1>2 DEF SendAccepted, SignedByBee
  <2>2. PoolWith(hash[c][b]) \subseteq Tx /\ IsFiniteSet(PoolWith(hash[c][b]))
    BY <2>1, PoolWithTyping
  <2>3. acked' \subseteq [bee : Bees, nonce : Nat, call : Calls]
    BY <1>2, <2>1 DEF SendAccepted, TypeOK, Tx
  <2>4. stage' \in [Calls -> [Bees -> Stages]]
    BY <1>2 DEF SendAccepted, To, TypeOK, Stages, SendStages
  <2>5. SignedByBee'
    BY <1>2, <2>1 DEF SendAccepted, To, TypeOK, SignedByBee
  <2>. QED
    BY <1>2, <2>2, <2>3, <2>4, <2>5 DEF SendAccepted, TypeOK, PoolFinite
<1>3. CASE SendFailed(c, b)
  <2>1. hash[c][b] \in Tx
    BY <1>3 DEF SendFailed, SignedByBee
  <2>2. pool' \subseteq Tx /\ IsFiniteSet(pool')
    BY <1>3, <2>1, PoolWithTyping DEF SendFailed, TypeOK, PoolFinite
  <2>3. stage' \in [Calls -> [Bees -> Stages]]
    BY <1>3 DEF SendFailed, To, TypeOK, Stages
  <2>4. SignedByBee'
    BY <1>3 DEF SendFailed, To, TypeOK, SignedByBee
  <2>. QED
    BY <1>3, <2>2, <2>3, <2>4 DEF SendFailed, AfterFailedSend, TypeOK, PoolFinite
<1>4. CASE Increment(c, b)
  <2>1. stage' \in [Calls -> [Bees -> Stages]]
    BY <1>4 DEF Increment, To, TypeOK, Stages
  <2>2. SignedByBee'
    BY <1>4 DEF Increment, To, TypeOK, SignedByBee
  <2>. QED
    BY <1>4, <2>1, <2>2 DEF Increment, AfterSend, TypeOK, PoolFinite
<1>5. CASE \/ Panic(c, b) \/ WaitTimeElapses(c, b) \/ PollDone(c, b)
           \/ PollTimesOut(c, b) \/ FetchReceipt(c, b)
  <2>1. PICK s \in CheckStages \cup EndStages :
            To(c, b, s) /\ UNCHANGED <<mut, pc, gas, hash, pendingNonce, restarts, chain, acked, report>>
    BY <1>5 DEF Panic, WaitTimeElapses, PollDone, PollTimesOut, FetchReceipt, CheckStages, EndStages
  <2>2. stage' \in [Calls -> [Bees -> Stages]]
    BY <2>1 DEF To, TypeOK, Stages
  <2>3. SignedByBee'
    BY <2>1 DEF To, TypeOK, SignedByBee, CheckStages, EndStages
  <2>. QED
    BY <2>1, <2>2, <2>3 DEF TypeOK, PoolFinite
<1>. QED
  BY <1>1, <1>2, <1>3, <1>4, <1>5 DEF Goroutine

(* So do the steps of the calling goroutine.                               *)
LEMMA SnipeTyping ==
    ASSUME Typing, NEW c \in Calls, Call(c) \/ Snipe(c)
    PROVE  Typing'
<1>. USE DEF Typing, chain, order
<1>1. CASE Call(c)
  BY <1>1 DEF Call, TypeOK, PcValues, PoolFinite, SignedByBee
<1>2. CASE Lock(c)
  <2>1. stage' \in [Calls -> [Bees -> Stages]]
    BY <1>2 DEF Lock, TypeOK, Stages, SendStages
  <2>2. SignedByBee'
    BY <1>2 DEF Lock, TypeOK, SignedByBee
  <2>. QED
    BY <1>2, <2>1, <2>2 DEF Lock, TypeOK, PcValues, PoolFinite
<1>3. CASE StartChecks(c)
  <2>1. stage' \in [Calls -> [Bees -> Stages]]
    BY <1>3 DEF StartChecks, CheckStart, TypeOK, Stages, CheckStages, EndStages
  <2>2. SignedByBee'
    BY <1>3 DEF StartChecks, CheckStart, TypeOK, SignedByBee
  <2>. QED
    BY <1>3, <2>1, <2>2 DEF StartChecks, TypeOK, PcValues, PoolFinite
<1>4. CASE Return(c)
  BY <1>4 DEF Return, TypeOK, PcValues, PoolFinite, SignedByBee
<1>. QED
  BY <1>1, <1>2, <1>3, <1>4 DEF Snipe

(* So does a restart of the program.                                       *)
LEMMA RestartTyping ==
    ASSUME Typing, Restart
    PROVE  Typing'
<1>. USE DEF Typing, chain, order
<1>1. pendingNonce' \in [Bees -> Nat]
  BY PendingNonceTyping DEF Restart, StartNonce
<1>2. stage' \in [Calls -> [Bees -> Stages]] /\ SignedByBee'
  BY DEF Restart, Stages, SignedByBee
<1>. QED
  BY <1>1, <1>2 DEF Restart, TypeOK, PcValues, PoolFinite

(***************************************************************************)
(* The state of Snipe, of the bees and of the node is always well typed,   *)
(* and the node's pool is finite.                                          *)
(***************************************************************************)
LEMMA TypingIsInvariant == Spec => []Typing
<1>1. Typing /\ [Next]_vars => Typing'
  <2>. SUFFICES ASSUME Typing, [Next]_vars PROVE Typing'
    OBVIOUS
  <2>1. CASE UNCHANGED vars
    BY <2>1 DEF vars, swarm, chain, order, Typing, TypeOK, PoolFinite, SignedByBee
  <2>. QED
    BY <2>1, ChainTyping, GoroutineTyping, SnipeTyping, RestartTyping DEF Next
<1>. QED
  BY <1>1, InitTyping, PTL DEF Spec

(***************************************************************************)
(* Type correctness, for every swarm and any faults.                       *)
(***************************************************************************)
THEOREM TypeCorrect == Spec => []TypeOK
<1>1. Typing => TypeOK
  BY DEF Typing
<1>. QED
  BY <1>1, TypingIsInvariant, PTL

-----------------------------------------------------------------------------
(* Each action of a call of Snipe or of its goroutines keeps Exclusion.    *)
LEMMA GoroutineExclusion ==
    ASSUME Typing, Exclusion, NEW c \in Calls, NEW b \in Bees, Goroutine(c, b)
    PROVE  Exclusion'
<1>. USE DEF Typing, TypeOK, Exclusion, Holder, Halves, Serialized, Working
<1>1. PICK s \in Stages :
        /\ To(c, b, s)
        /\ UNCHANGED <<mut, pc>>
        /\ stage[c][b] \in Working
        /\ stage[c][b] \in SendStages => s \in SendStages \cup {"hashed", "panicked"}
        /\ stage[c][b] \in CheckStages => s \in CheckStages \cup EndStages
        /\ stage[c][b] # "hashed"
  BY DEF Goroutine, Sign, SendAccepted, SendFailed, Increment, Panic, WaitTimeElapses, PollDone,
         PollTimesOut, FetchReceipt, Stages, SendStages, CheckStages, EndStages
<1>2. stage' = [stage EXCEPT ![c][b] = s]
  BY <1>1 DEF To
<1>3. mut = c /\ pc[c] \in {"sending", "checking"}
  BY <1>1
<1>4. Halves'
  BY <1>1, <1>2, <1>3 DEF SendStages, CheckStages, EndStages
<1>5. Serialized'
  BY <1>1, <1>2, <1>3
<1>. QED
  BY <1>1, <1>4, <1>5

(* The calling goroutine starts and collects its own goroutines only.      *)
LEMMA SnipeExclusion ==
    ASSUME Typing, Exclusion, NEW c \in Calls, Call(c) \/ Snipe(c)
    PROVE  Exclusion'
<1>. USE DEF Typing, TypeOK, Exclusion, Holder, Halves, Serialized, Working
<1>1. CASE Call(c)
  BY <1>1 DEF Call
<1>2. CASE Lock(c)
  <2>1. \A d \in Calls : pc[d] \notin {"sending", "checking"}
    BY <1>2, ConstantsAssumption DEF Lock, MutexAvailable
  <2>2. \A d \in Calls \ {c} : stage'[d] = stage[d] /\ pc'[d] = pc[d]
    BY <1>2 DEF Lock
  <2>3. \A b \in Bees : stage'[c][b] = "start"
    BY <1>2 DEF Lock
  <2>4. pc'[c] = "sending" /\ mut' = c
    BY <1>2 DEF Lock
  <2>5. \A d \in Calls : pc'[d] \in {"sending", "checking"} => d = c
    BY <2>1, <2>2
  <2>6. \A d \in Calls, b \in Bees : stage'[d][b] \in Working => d = c
    BY <2>1, <2>2
  <2>7. Holder' /\ Halves'
    BY <2>3, <2>4, <2>5 DEF SendStages
  <2>. QED
    BY <2>4, <2>6, <2>7
<1>3. CASE StartChecks(c)
  <2>1. \A d \in Calls \ {c} : stage'[d] = stage[d] /\ pc'[d] = pc[d]
    BY <1>3 DEF StartChecks
  <2>2. ASSUME NEW b \in Bees PROVE stage'[c][b] \in CheckStages \cup EndStages
    <3>1. stage[c][b] \in {"hashed", "panicked"}
      BY <1>3 DEF StartChecks, AllSent
    <3>2. stage'[c][b] = IF stage[c][b] = "hashed" THEN CheckStart(hash[c][b]) ELSE stage[c][b]
      BY <1>3 DEF StartChecks
    <3>. QED
      BY <3>1, <3>2 DEF CheckStart, CheckStages, EndStages
  <2>3. pc'[c] = "checking" /\ mut' = c /\ mut = c
    BY <1>3 DEF StartChecks
  <2>. QED
    BY <2>1, <2>2, <2>3
<1>4. CASE Return(c)
  <2>1. mut = c
    BY <1>4 DEF Return
  <2>2. \A d \in Calls : pc'[d] = IF d = c THEN "returned" ELSE pc[d]
    BY <1>4 DEF Return
  <2>3. \A d \in Calls : pc'[d] \notin {"sending", "checking"}
    BY <2>1, <2>2
  <2>4. stage' = stage /\ \A b \in Bees : stage[c][b] \in EndStages
    BY <1>4 DEF Return
  <2>5. \A d \in Calls, b \in Bees : stage'[d][b] \notin Working
    BY <2>1, <2>4 DEF EndStages, SendStages, CheckStages
  <2>. QED
    BY <2>3, <2>5
<1>. QED
  BY <1>1, <1>2, <1>3, <1>4 DEF Snipe

(* Mutual exclusion in the form that every step keeps.                     *)
LEMMA ExclusionIsInvariant == Spec => [](Typing /\ Exclusion)
<1>1. Init => Exclusion
  BY ConstantsAssumption
  DEF Init, Exclusion, Holder, Halves, Serialized, Working, SendStages, CheckStages
<1>2. Typing /\ Exclusion /\ [Next]_vars => Exclusion'
  <2>. SUFFICES ASSUME Typing, Exclusion, [Next]_vars PROVE Exclusion'
    OBVIOUS
  <2>1. CASE Restart
    BY <2>1 DEF Restart, Exclusion, Holder, Halves, Serialized, Working, SendStages, CheckStages,
                Typing, TypeOK
  <2>2. CASE Chain \/ UNCHANGED vars
    <3>1. UNCHANGED <<mut, pc, stage>>
      BY <2>2 DEF Chain, Mine, Drop, MineLiquidity, ConfigureOrder, vars, swarm
    <3>. QED
      BY <3>1 DEF Exclusion, Holder, Halves, Serialized
  <2>. QED
    BY <2>1, <2>2, GoroutineExclusion, SnipeExclusion DEF Next
<1>. QED
  BY <1>1, <1>2, TypingIsInvariant, PTL DEF Spec

(***************************************************************************)
(* "Snipe is concurrently safe": of all concurrent calls only the holder   *)
(* of the mutex has goroutines that work with the bees.                    *)
(***************************************************************************)
THEOREM MutualExclusion == Spec => []Serialized
<1>1. Exclusion => Serialized
  BY DEF Exclusion
<1>. QED
  BY <1>1, ExclusionIsInvariant, PTL

(***************************************************************************)
(* No status is asked for before every goroutine of the call has sent.     *)
(***************************************************************************)
THEOREM Barrier == Spec => []ChecksFollowSends
<1>1. Exclusion => ChecksFollowSends
  BY DEF Exclusion, ChecksFollowSends, Halves, Serialized, Working, SendStages, CheckStages, EndStages
<1>. QED
  BY <1>1, ExclusionIsInvariant, PTL

-----------------------------------------------------------------------------
(* The nonces across the steps of one goroutine: only the holder of the    *)
(* mutex has one working with the bee, so no other send is on its way.     *)
LEMMA GoroutineNonces ==
    ASSUME Typing, Exclusion, Nonces, NEW c \in Calls, NEW b \in Bees, Goroutine(c, b)
    PROVE  Nonces'
<1>. USE DEF Typing, TypeOK, Nonces
<1>1. CASE Sign(c, b)
  <2>1. NonceOfSend'
    BY <1>1 DEF Sign, To, NonceOfSend
  <2>2. AckedBelow'
    BY <1>1 DEF Sign, To, AckedBelow
  <2>. QED
    BY <1>1, <2>1, <2>2 DEF Sign, NoNonceReuse
<1>2. CASE SendAccepted(c, b)
  <2>. DEFINE new == [bee |-> b, nonce |-> hash[c][b].nonce, call |-> c]
  <2>1. new.nonce = pendingNonce[b] /\ hash' = hash /\ pendingNonce' = pendingNonce
    BY <1>2 DEF SendAccepted, NonceOfSend
  <2>2. stage' = [stage EXCEPT ![c][b] = "acked"] /\ stage[c][b] = "signed"
    BY <1>2 DEF SendAccepted, To
  <2>3. NonceOfSend'
    BY <2>1, <2>2 DEF NonceOfSend
  <2>4. ASSUME NEW x \in acked, x.bee = b
        PROVE  x.nonce < pendingNonce[b]
    <3>1. x.call \in Calls
      OBVIOUS
    <3>2. stage[x.call][b] # "acked"
      BY <2>2, <3>1 DEF Exclusion, Serialized, Working, SendStages
    <3>. QED
      BY <2>4, <3>2 DEF AckedBelow
  <2>5. AckedBelow'
    BY <1>2, <2>1, <2>2, <2>4 DEF SendAccepted, AckedBelow
  <2>6. NoNonceReuse'
    BY <1>2, <2>1, <2>4 DEF SendAccepted, NoNonceReuse
  <2>. QED
    BY <2>3, <2>5, <2>6
<1>3. CASE SendFailed(c, b)
  <2>1. stage' = [stage EXCEPT ![c][b] = "hashed"] /\ stage[c][b] = "signed" /\ acked' = acked
    BY <1>3 DEF SendFailed, To
  <2>2. pendingNonce' = pendingNonce
    BY <1>3 DEF SendFailed, AfterFailedSend
  <2>3. \A d \in Calls, e \in Bees : stage'[d][e] \in {"signed", "acked"} => hash'[d][e] = hash[d][e]
    BY <1>3, <2>1 DEF SendFailed
  <2>. QED
    BY <2>1, <2>2, <2>3 DEF NonceOfSend, AckedBelow, NoNonceReuse
<1>4. CASE Increment(c, b)
  <2>1. stage' = [stage EXCEPT ![c][b] = "hashed"] /\ stage[c][b] = "acked" /\ acked' = acked
    BY <1>4 DEF Increment, To
  <2>2. pendingNonce' = [pendingNonce EXCEPT ![b] = @ + 1] /\ hash' = hash
    BY <1>4 DEF Increment, AfterSend
  <2>3. \A d \in Calls : stage'[d][b] \notin {"signed", "acked"}
    BY <2>1 DEF Exclusion, Serialized, Working, SendStages
  <2>4. NonceOfSend'
    BY <2>1, <2>2, <2>3 DEF NonceOfSend
  <2>5. AckedBelow'
    BY <2>1, <2>2 DEF AckedBelow
  <2>. QED
    BY <2>1, <2>4, <2>5 DEF NoNonceReuse
<1>5. CASE \/ Panic(c, b) \/ WaitTimeElapses(c, b) \/ PollDone(c, b)
           \/ PollTimesOut(c, b) \/ FetchReceipt(c, b)
  <2>1. PICK s \in CheckStages \cup EndStages :
            To(c, b, s) /\ UNCHANGED <<hash, pendingNonce, acked>> /\ stage[c][b] # "acked"
    BY <1>5 DEF Panic, WaitTimeElapses, PollDone, PollTimesOut, FetchReceipt, CheckStages, EndStages
  <2>2. stage' = [stage EXCEPT ![c][b] = s] /\ s \notin {"signed", "acked"}
    BY <2>1 DEF To, CheckStages, EndStages
  <2>. QED
    BY <2>1, <2>2 DEF NonceOfSend, AckedBelow, NoNonceReuse
<1>. QED
  BY <1>1, <1>2, <1>3, <1>4, <1>5 DEF Goroutine

(* Snipe starts and ends goroutines, but never one with a send under way.  *)
LEMMA StartsNoSend ==
    ASSUME Typing, Exclusion, NEW c \in Calls, Call(c) \/ Snipe(c), NEW d \in Calls, NEW b \in Bees
    PROVE  /\ stage'[d][b] \in {"signed", "acked"} => stage'[d][b] = stage[d][b]
           /\ stage[d][b] = "acked" => stage'[d][b] = "acked"
<1>1. CASE Call(c) \/ Return(c)
  BY <1>1 DEF Call, Return
<1>2. CASE Lock(c)
  <2>1. mut = Free /\ stage' = [stage EXCEPT ![c] = [e \in Bees |-> "start"]]
    BY <1>2 DEF Lock, MutexAvailable
  <2>2. stage[d][b] # "acked"
    BY <2>1, ConstantsAssumption DEF Exclusion, Serialized, Working, SendStages
  <2>. QED
    BY <2>1, <2>2 DEF Typing, TypeOK
<1>3. CASE StartChecks(c)
  <2>1. \A e \in Bees : stage[c][e] \in {"hashed", "panicked"}
    BY <1>3 DEF StartChecks, AllSent
  <2>2. \A e \in Bees : stage'[c][e] = IF stage[c][e] = "hashed" THEN CheckStart(hash[c][e]) ELSE stage[c][e]
    BY <1>3 DEF StartChecks, Typing, TypeOK
  <2>3. d # c => stage'[d] = stage[d]
    BY <1>3 DEF StartChecks, Typing, TypeOK
  <2>. QED
    BY <2>1, <2>2, <2>3 DEF CheckStart
<1>. QED
  BY <1>1, <1>2, <1>3 DEF Snipe

(* ... and across the steps of Snipe, which start and end goroutines.      *)
LEMMA SnipeNonces ==
    ASSUME Typing, Exclusion, Nonces, NEW c \in Calls, Call(c) \/ Snipe(c)
    PROVE  Nonces'
<1>1. UNCHANGED <<hash, pendingNonce, acked>>
  BY DEF Call, Snipe, Lock, StartChecks, Return
<1>. QED
  BY <1>1, StartsNoSend DEF Nonces, NonceOfSend, AckedBelow, NoNonceReuse, Typing, TypeOK

(* What a bee sent is below its counter, in every reachable state.         *)
LEMMA NoncesAreInvariant == Spec => [](Typing /\ Exclusion /\ Nonces)
<1>1. Init => Nonces
  BY DEF Init, Nonces, NonceOfSend, AckedBelow, NoNonceReuse
<1>2. Typing /\ Exclusion /\ Nonces /\ [Next]_vars => Nonces'
  <2>. SUFFICES ASSUME Typing, Exclusion, Nonces, [Next]_vars PROVE Nonces'
    OBVIOUS
  <2>1. CASE Restart
    BY <2>1 DEF Restart, Nonces, NonceOfSend, AckedBelow, NoNonceReuse
  <2>2. CASE Chain \/ UNCHANGED vars
    <3>1. UNCHANGED <<stage, hash, pendingNonce, acked>>
      BY <2>2 DEF Chain, Mine, Drop, MineLiquidity, ConfigureOrder, vars, swarm
    <3>. QED
      BY <3>1 DEF Nonces, NonceOfSend, AckedBelow, NoNonceReuse
  <2>. QED
    BY <2>1, <2>2, GoroutineNonces, SnipeNonces DEF Next
<1>. QED
  BY <1>1, <1>2, ExclusionIsInvariant, PTL DEF Spec

(***************************************************************************)
(* No bee gets two transactions accepted for one nonce in a run of the     *)
(* program, whatever fails between the calls.                              *)
(***************************************************************************)
THEOREM NoncesUsedOnce == Spec => []NoNonceReuse
<1>1. Nonces => NoNonceReuse
  BY DEF Nonces
<1>. QED
  BY <1>1, NoncesAreInvariant, PTL

-----------------------------------------------------------------------------
(* Receipts are never taken back, so a goroutine that confirmed one can    *)
(* still show it when Snipe reports, and so can the call ever after.       *)
LEMMA GoroutineReports ==
    ASSUME Typing, Exclusion, Reports, NEW c \in Calls, NEW b \in Bees, Goroutine(c, b)
    PROVE  Reports'
<1>. USE DEF Typing, TypeOK, Reports
<1>1. stage[c][b] \in Working /\ UNCHANGED <<receipts, report, pc>>
  BY DEF Goroutine, Sign, SendAccepted, SendFailed, Increment, Panic, WaitTimeElapses, PollDone,
         PollTimesOut, FetchReceipt, chain, Working, SendStages, CheckStages
<1>2. report[c] = "none"
  BY <1>1 DEF Exclusion, Serialized, ReportedReturned
<1>3. PICK s \in Stages : stage' = [stage EXCEPT ![c][b] = s]
  BY DEF Goroutine, Sign, SendAccepted, SendFailed, Increment, Panic, WaitTimeElapses, PollDone,
         PollTimesOut, FetchReceipt, To, Stages, SendStages, CheckStages, EndStages
<1>4. \A d \in Calls, e \in Bees : d # c \/ e # b => hash'[d][e] = hash[d][e]
  BY DEF Goroutine, Sign, SendAccepted, SendFailed, Increment, Panic, WaitTimeElapses, PollDone,
         PollTimesOut, FetchReceipt
<1>5. s = "confirmed" => hash' = hash /\ Confirmed(hash[c][b])
  BY <1>3 DEF Goroutine, Sign, SendAccepted, SendFailed, Increment, Panic, WaitTimeElapses, PollDone,
         PollTimesOut, FetchReceipt, To
<1>6. ConfirmedMined'
  BY <1>1, <1>3, <1>4, <1>5 DEF ConfirmedMined, Confirmed, StatusOk
<1>7. ReportTruthful'
  BY <1>1, <1>2, <1>4 DEF ReportTruthful
<1>. QED
  BY <1>1, <1>6, <1>7 DEF ReportedReturned

(* The report is made from the results of the call's own checks.           *)
LEMMA SnipeReports ==
    ASSUME Typing, Exclusion, Reports, NEW c \in Calls, Call(c) \/ Snipe(c)
    PROVE  Reports'
<1>. USE DEF Typing, TypeOK, Reports
<1>1. UNCHANGED <<hash, receipts>>
  BY DEF Call, Snipe, Lock, StartChecks, Return, chain
<1>2. CASE Call(c) \/ Lock(c) \/ StartChecks(c)
  <2>1. UNCHANGED report /\ pc[c] # "returned" /\ \A d \in Calls \ {c} : pc'[d] = pc[d]
    BY <1>2 DEF Call, Lock, StartChecks
  <2>2. ASSUME NEW d \in Calls, NEW b \in Bees, stage'[d][b] = "confirmed"
        PROVE  stage[d][b] = "confirmed"
    <3>1. CASE Call(c) \/ d # c
      BY <1>2, <2>2, <3>1 DEF Call, Lock, StartChecks
    <3>2. CASE Lock(c) /\ d = c
      BY <2>2, <3>2 DEF Lock
    <3>3. CASE StartChecks(c) /\ d = c
      <4>1. stage'[c][b] = IF stage[c][b] = "hashed" THEN CheckStart(hash[c][b]) ELSE stage[c][b]
        BY <3>3 DEF StartChecks
      <4>. QED
        BY <2>2, <3>3, <4>1 DEF CheckStart
    <3>. QED
      BY <1>2, <3>1, <3>2, <3>3
  <2>3. ConfirmedMined'
    BY <1>1, <2>2 DEF ConfirmedMined
  <2>. QED
    BY <1>1, <2>1, <2>3 DEF ReportedReturned, ReportTruthful
<1>3. CASE Return(c)
  <2>1. UNCHANGED stage /\ \A d \in Calls \ {c} : pc'[d] = pc[d] /\ report'[d] = report[d]
    BY <1>3 DEF Return
  <2>2. pc'[c] = "returned"
    BY <1>3 DEF Return
  <2>3. report'[c] = "succeeded" => \E b \in Bees : stage[c][b] = "confirmed"
    BY <1>3 DEF Return
  <2>4. ConfirmedMined'
    BY <1>1, <2>1 DEF ConfirmedMined
  <2>5. ReportTruthful'
    BY <1>1, <2>1, <2>3 DEF ReportTruthful, ConfirmedMined
  <2>. QED
    BY <2>1, <2>2, <2>4, <2>5 DEF ReportedReturned
<1>. QED
  BY <1>2, <1>3 DEF Snipe

(* What the reports rest on, in every reachable state.                     *)
LEMMA ReportsAreInvariant == Spec => [](Typing /\ Exclusion /\ Reports)
<1>1. Init => Reports
  BY DEF Init, Reports, ConfirmedMined, ReportedReturned, ReportTruthful
<1>2. Typing /\ Exclusion /\ Reports /\ [Next]_vars => Reports'
  <2>. SUFFICES ASSUME Typing, Exclusion, Reports, [Next]_vars PROVE Reports'
    OBVIOUS
  <2>1. CASE Restart
    <3>1. UNCHANGED <<hash, receipts, report>>
      BY <2>1 DEF Restart, chain
    <3>2. \A c \in Calls, b \in Bees : stage'[c][b] # "confirmed"
      BY <2>1 DEF Restart
    <3>3. \A c \in Calls : pc[c] = "returned" => pc'[c] = "returned"
      BY <2>1 DEF Restart
    <3>. QED
      BY <3>1, <3>2, <3>3 DEF Reports, ConfirmedMined, ReportedReturned, ReportTruthful
  <2>2. CASE Chain \/ UNCHANGED vars
    <3>1. UNCHANGED <<pc, stage, hash, report>> /\ receipts \subseteq receipts'
      BY <2>2 DEF Chain, Mine, Drop, MineLiquidity, ConfigureOrder, vars, swarm, chain
    <3>. QED
      BY <3>1 DEF Reports, ConfirmedMined, ReportedReturned, ReportTruthful
  <2>. QED
    BY <2>1, <2>2, GoroutineReports, SnipeReports DEF Next
<1>. QED
  BY <1>1, <1>2, ExclusionIsInvariant, PTL DEF Spec

(***************************************************************************)
(* A call that reports a success had one of its own transactions mined     *)
(* with status 1.                                                          *)
(***************************************************************************)
THEOREM TruthfulReports == Spec => []ReportTruthful
<1>1. Reports => ReportTruthful
  BY DEF Reports
<1>. QED
  BY <1>1, ReportsAreInvariant, PTL

(***************************************************************************)
(* One purchase per order, whatever the swarm sends: a transaction that    *)
(* buys finds its order armed, which no earlier purchase has left it.      *)
(***************************************************************************)
THEOREM OnePurchasePerOrder == Spec => []NoDoubleBuy
<1>. DEFINE I == ReceiptOrders /\ NoDoubleBuy
<1>1. Init => I
  BY DEF Init, ReceiptOrders, NoDoubleBuy
<1>2. Typing /\ I /\ [Next]_vars => I'
  <2>. SUFFICES ASSUME Typing, I, [Next]_vars PROVE I'
    OBVIOUS
  <2>1. CASE \E t \in pool : Mine(t)
    <3>1. PICK t \in pool, s \in {0, 1} :
              /\ receipts' = receipts \cup {Receipt(t, s)}
              /\ orders' = orders
              /\ \/ s = 1 /\ phase = "armed" /\ phase' = "filled"
                 \/ s = 0 /\ phase' = phase
      BY <2>1 DEF Mine, Order!Fill, order
    <3>. QED
      BY <3>1 DEF Receipt, ReceiptOrders, NoDoubleBuy, Typing, TypeOK
  <2>2. CASE ConfigureOrder
    <3>1. receipts' = receipts /\ orders' = orders + 1
      BY <2>2 DEF ConfigureOrder, Order!Arm
    <3>. QED
      BY <3>1 DEF ReceiptOrders, NoDoubleBuy, Typing, TypeOK
  <2>3. CASE UNCHANGED <<receipts, orders, phase>>
    BY <2>3 DEF ReceiptOrders, NoDoubleBuy
  <2>4. ASSUME NEW c \in Calls, Call(c) \/ Snipe(c) \/ \E b \in Bees : Goroutine(c, b)
        PROVE  UNCHANGED <<receipts, orders, phase>>
    BY <2>4 DEF Call, Snipe, Lock, StartChecks, Return, Goroutine, Sign, SendAccepted, SendFailed,
       Increment, Panic, WaitTimeElapses, PollDone, PollTimesOut, FetchReceipt, chain, order
  <2>5. CASE Restart \/ (\E t \in pool : Drop(t)) \/ MineLiquidity \/ UNCHANGED vars
    BY <2>3, <2>5 DEF Restart, Drop, MineLiquidity, vars, chain, order
  <2>. QED
    BY <2>1, <2>2, <2>3, <2>4, <2>5 DEF Next, Chain
<1>. QED
  BY <1>1, <1>2, TypingIsInvariant, PTL DEF Spec

-----------------------------------------------------------------------------
(***************************************************************************)
(* Each call that succeeded can be given a purchase of its own: whatever   *)
(* the call in progress has sent, it sent for a nonce that the chain had   *)
(* not used, and what earlier calls were reported for is mined.            *)
(***************************************************************************)
Succeeded == {c \in Calls : report[c] = "succeeded"}

Bought == {r \in receipts : r.status = 1}

Past == \A r \in receipts : r.tx.nonce < nonce[r.tx.bee]

Follows(c, b) ==
    /\ pc[c] \in {"sending", "checking"}
    /\ \/ stage[c][b] \in {"acked", "confirmed"} \cup CheckStages
       \/ stage[c][b] = "hashed" /\ hash[c][b] # NullHash

GivesEach(f) ==
    /\ \A c, d \in Succeeded : f[c] = f[d] => c = d
    /\ \A c \in Calls, b \in Bees : Follows(c, b) => \A d \in Succeeded : f[d].tx # hash[c][b]

Claims == \E f \in [Succeeded -> Bought] : GivesEach(f)

BoughtOnce == IsFiniteSet(Bought) /\ Cardinality(Bought) <= fills

Purchases == Past /\ Claims /\ BoughtOnce

(* A mined transaction uses its nonce up, and buys with a fill or not.     *)
LEMMA MinePurchases ==
    ASSUME Typing, Past, BoughtOnce, NEW t \in pool, Mine(t)
    PROVE  Past' /\ BoughtOnce'
<1>. USE DEF Typing, TypeOK
<1>1. PICK s \in {0, 1} :
        /\ receipts' = receipts \cup {Receipt(t, s)}
        /\ fills' = IF s = 1 THEN fills + 1 ELSE fills
  BY DEF Mine, Order!Fill, order
<1>2. t \in Tx /\ t.bee \in Bees /\ t.nonce \in Nat /\ t.nonce = nonce[t.bee]
  BY DEF Tx, Mine
<1>3. nonce' = [nonce EXCEPT ![t.bee] = @ + 1]
  BY DEF Mine
<1>4. Past'
  <2>. SUFFICES ASSUME NEW r \in receipts' PROVE r.tx.nonce < nonce'[r.tx.bee]
    BY DEF Past
  <2>1. CASE r \in receipts
    <3>1. r.tx \in Tx /\ r.tx.bee \in Bees /\ r.tx.nonce \in Nat
      BY <2>1 DEF Tx
    <3>2. nonce[r.tx.bee] \in Nat /\ r.tx.nonce < nonce[r.tx.bee]
      BY <2>1, <3>1 DEF Past
    <3>. QED
      BY <1>3, <3>1, <3>2
  <2>2. CASE r = Receipt(t, s)
    BY <1>2, <1>3, <2>2 DEF Receipt
  <2>. QED
    BY <1>1, <2>1, <2>2
<1>5. CASE s = 0
  <2>1. Bought' = Bought
    BY <1>1, <1>5 DEF Bought, Receipt
  <2>. QED
    BY <1>1, <1>4, <1>5, <2>1 DEF BoughtOnce
<1>6. CASE s = 1
  <2>1. Bought' = Bought \cup {Receipt(t, s)}
    BY <1>1, <1>6 DEF Bought, Receipt
  <2>2. IsFiniteSet(Bought) /\ Cardinality(Bought) \in Nat
    BY FS_CardinalityType DEF BoughtOnce
  <2>3. /\ IsFiniteSet(Bought')
        /\ Cardinality(Bought') \in {Cardinality(Bought), Cardinality(Bought) + 1}
    BY <2>1, <2>2, FS_AddElement
  <2>. QED
    BY <1>1, <1>4, <1>6, <2>2, <2>3 DEF BoughtOnce
<1>. QED
  BY <1>5, <1>6

(* A transaction that the node takes is none that it has mined.            *)
LEMMA GoroutineClaims ==
    ASSUME Typing, Exclusion, Past, NEW f \in [Succeeded -> Bought], GivesEach(f),
           NEW c \in Calls, NEW b \in Bees, Goroutine(c, b)
    PROVE  GivesEach(f)'
<1>. USE DEF Typing, TypeOK
<1>1. UNCHANGED <<report, pc>>
  BY DEF Goroutine, Sign, SendAccepted, SendFailed, Increment, Panic, WaitTimeElapses, PollDone,
         PollTimesOut, FetchReceipt
<1>2. Succeeded' = Succeeded
  BY <1>1 DEF Succeeded
<1>3. \A d \in Calls, e \in Bees : d # c \/ e # b =>
         hash'[d][e] = hash[d][e] /\ stage'[d][e] = stage[d][e]
  BY DEF Goroutine, Sign, SendAccepted, SendFailed, Increment, Panic, WaitTimeElapses, PollDone,
         PollTimesOut, FetchReceipt, To
<1>4. CASE SendAccepted(c, b)
  <2>1. hash' = hash /\ hash[c][b] \in Tx /\ hash[c][b].bee = b
    BY <1>4 DEF SendAccepted, SignedByBee
  <2>2. hash[c][b].nonce \in Nat /\ nonce[b] \in Nat /\ hash[c][b].nonce >= nonce[b]
    BY <1>4, <2>1 DEF SendAccepted, Accepts, Tx
  <2>3. ASSUME NEW d \in Succeeded PROVE f[d].tx # hash[c][b]
    <3>1. f[d] \in receipts
      BY DEF Bought
    <3>. QED
      BY <2>1, <2>2, <3>1 DEF Past
  <2>. QED
    BY <1>1, <1>2, <1>3, <2>1, <2>3 DEF GivesEach, Follows
<1>5. CASE ~SendAccepted(c, b)
  <2>1. Follows(c, b)' => Follows(c, b) /\ hash'[c][b] = hash[c][b]
    <3>1. CASE Sign(c, b)
      BY <3>1 DEF Sign, To, Follows, CheckStages
    <3>2. CASE SendFailed(c, b)
      BY <3>2 DEF SendFailed, To, Follows, CheckStages
    <3>3. CASE Increment(c, b)
      BY <3>3 DEF Increment, To, Follows, CheckStages
    <3>4. CASE Panic(c, b)
      BY <3>4 DEF Panic, To, Follows, CheckStages
    <3>5. CASE WaitTimeElapses(c, b) \/ PollDone(c, b) \/ PollTimesOut(c, b) \/ FetchReceipt(c, b)
      <4>1. stage[c][b] \in CheckStages /\ UNCHANGED <<pc, hash>>
        BY <3>5 DEF WaitTimeElapses, PollDone, PollTimesOut, FetchReceipt, CheckStages
      <4>. QED
        BY <4>1, <1>1 DEF Follows, Exclusion, Serialized, Working
    <3>. QED
      BY <1>5, <3>1, <3>2, <3>3, <3>4, <3>5 DEF Goroutine
  <2>2. \A d \in Calls, e \in Bees : Follows(d, e)' => Follows(d, e) /\ hash'[d][e] = hash[d][e]
    BY <1>1, <1>3, <2>1 DEF Follows
  <2>. QED
    BY <1>2, <2>2 DEF GivesEach
<1>. QED
  BY <1>4, <1>5

(* A call that reports is given the receipt that one of its checks saw.    *)
LEMMA SnipeClaims ==
    ASSUME Typing, Exclusion, Reports, Claims, NEW c \in Calls, Call(c) \/ Snipe(c)
    PROVE  Claims'
<1>. USE DEF Typing, TypeOK
<1>1. PICK f \in [Succeeded -> Bought] : GivesEach(f)
  BY DEF Claims
<1>2. UNCHANGED <<hash, receipts>> /\ Bought' = Bought
  BY DEF Call, Snipe, Lock, StartChecks, Return, chain, Bought
<1>3. CASE Call(c) \/ Lock(c) \/ StartChecks(c)
  <2>1. Succeeded' = Succeeded
    BY <1>3 DEF Call, Lock, StartChecks, Succeeded
  <2>2. ASSUME NEW d \in Calls, NEW b \in Bees, Follows(d, b)' PROVE Follows(d, b)
    <3>1. CASE Call(c)
      BY <2>2, <3>1 DEF Call, Follows
    <3>2. CASE Lock(c)
      BY <2>2, <3>2 DEF Lock, Follows, CheckStages
    <3>3. CASE StartChecks(c)
      <4>1. CASE d = c
        <5>1. pc[c] = "sending" /\ stage[c][b] \in {"hashed", "panicked"}
          BY <3>3 DEF StartChecks, AllSent
        <5>2. stage'[c][b] = IF stage[c][b] = "hashed" THEN CheckStart(hash[c][b]) ELSE stage[c][b]
          BY <3>3 DEF StartChecks
        <5>. QED
          BY <1>2, <2>2, <4>1, <5>1, <5>2 DEF Follows, CheckStart, CheckStages
      <4>2. CASE d # c
        BY <1>2, <2>2, <3>3, <4>2 DEF StartChecks, Follows
      <4>. QED
        BY <4>1, <4>2
    <3>. QED
      BY <1>3, <3>1, <3>2, <3>3
  <2>3. GivesEach(f)'
    BY <1>1, <1>2, <2>1, <2>2 DEF GivesEach
  <2>. QED
    BY <1>2, <2>1, <2>3 DEF Claims
<1>4. CASE Return(c)
  <2>1. pc[c] = "checking" /\ mut = c /\ c \notin Succeeded
    BY <1>4 DEF Return, Exclusion, Holder, Reports, ReportedReturned, Succeeded
  <2>2. \A d \in Calls, b \in Bees : ~Follows(d, b)'
    BY <1>4, <2>1 DEF Return, Follows, Exclusion, Holder
  <2>3. CASE \A b \in Bees : stage[c][b] # "confirmed"
    <3>1. Succeeded' = Succeeded
      BY <1>4, <2>1, <2>3 DEF Return, Succeeded
    <3>2. GivesEach(f)'
      BY <1>1, <2>2, <3>1 DEF GivesEach
    <3>. QED
      BY <1>2, <3>1, <3>2 DEF Claims
  <2>4. ASSUME NEW b \in Bees, stage[c][b] = "confirmed"
        PROVE  Claims'
    <3>1. PICK r \in Bought : r.tx = hash[c][b]
      BY <2>4 DEF Reports, ConfirmedMined, Bought
    <3>2. \A d \in Succeeded : f[d] # r
      BY <1>1, <2>1, <2>4, <3>1 DEF GivesEach, Follows
    <3>3. Succeeded' = Succeeded \cup {c}
      BY <1>4, <2>4 DEF Return, Succeeded
    <3>4. PICK g \in [Succeeded' -> Bought'] : g = [d \in Succeeded' |-> IF d = c THEN r ELSE f[d]]
      BY <1>2, <3>1, <3>3
    <3>5. ASSUME NEW d \in Succeeded', NEW e \in Succeeded', g[d] = g[e] PROVE d = e
      BY <1>1, <3>2, <3>3, <3>4, <3>5 DEF GivesEach
    <3>6. GivesEach(g)'
      BY <2>2, <3>5 DEF GivesEach
    <3>. QED
      BY <3>6 DEF Claims
  <2>. QED
    BY <2>3, <2>4
<1>. QED
  BY <1>3, <1>4 DEF Snipe

(* Every step keeps the purchases apart.                                   *)
LEMMA PurchasesStep ==
    ASSUME Typing, Exclusion, Reports, Purchases, [Next]_vars
    PROVE  Purchases'
<1>. USE DEF Purchases
<1>1. CASE \E t \in pool : Mine(t)
  <2>1. PICK t \in pool : Mine(t)
    BY <1>1
  <2>2. UNCHANGED <<pc, stage, hash, report>> /\ receipts \subseteq receipts'
    BY <2>1 DEF Mine, swarm
  <2>3. Succeeded' = Succeeded /\ Bought \subseteq Bought'
    BY <2>2 DEF Succeeded, Bought
  <2>4. \A f : GivesEach(f) => GivesEach(f)'
    BY <2>2, <2>3 DEF GivesEach, Follows
  <2>5. Claims'
    BY <2>3, <2>4 DEF Claims
  <2>. QED
    BY <2>1, <2>5, MinePurchases
<1>2. ASSUME NEW c \in Calls, NEW b \in Bees, Goroutine(c, b) PROVE Purchases'
  <2>1. UNCHANGED <<nonce, receipts, fills, report>>
    BY <1>2 DEF Goroutine, Sign, SendAccepted, SendFailed, Increment, Panic, WaitTimeElapses,
                PollDone, PollTimesOut, FetchReceipt, chain, order
  <2>2. Bought' = Bought /\ Succeeded' = Succeeded
    BY <2>1 DEF Bought, Succeeded
  <2>3. PICK f \in [Succeeded -> Bought] : GivesEach(f)
    BY DEF Claims
  <2>4. GivesEach(f)'
    BY <1>2, <2>3, GoroutineClaims
  <2>. QED
    BY <2>1, <2>2, <2>4 DEF Claims, Past, BoughtOnce
<1>3. ASSUME NEW c \in Calls, Call(c) \/ Snipe(c) PROVE Purchases'
  <2>1. UNCHANGED <<nonce, receipts, fills>>
    BY <1>3 DEF Call, Snipe, Lock, StartChecks, Return, chain, order
  <2>2. Bought' = Bought
    BY <2>1 DEF Bought
  <2>. QED
    BY <1>3, <2>1, <2>2, SnipeClaims DEF Past, BoughtOnce
<1>4. CASE Restart \/ (\E t \in pool : Drop(t)) \/ MineLiquidity \/ ConfigureOrder \/ UNCHANGED vars
  <2>1. UNCHANGED <<nonce, receipts, fills, report, hash>>
    BY <1>4 DEF Restart, Drop, MineLiquidity, ConfigureOrder, Order!Arm, vars, chain, order, swarm
  <2>2. Bought' = Bought /\ Succeeded' = Succeeded
    BY <2>1 DEF Bought, Succeeded
  <2>3. \A c \in Calls, b \in Bees : Follows(c, b)' => Follows(c, b)
    <3>1. CASE Restart
      BY <3>1 DEF Restart, Follows, CheckStages, Typing, TypeOK
    <3>2. CASE ~Restart
      BY <1>4, <2>1, <3>2 DEF Drop, MineLiquidity, ConfigureOrder, vars, swarm, Follows
    <3>. QED
      BY <3>1, <3>2
  <2>4. \A f : GivesEach(f) => GivesEach(f)'
    BY <2>1, <2>2, <2>3 DEF GivesEach
  <2>. QED
    BY <2>1, <2>2, <2>4 DEF Claims, Past, BoughtOnce
<1>. QED
  BY <1>1, <1>2, <1>3, <1>4 DEF Next, Chain

(***************************************************************************)
(* At most as many calls report a success as orders were filled: no two    *)
(* calls, of one run of the program or of several, claim one purchase.     *)
(***************************************************************************)
THEOREM PurchasesOfTheirOwn == Spec => []SuccessesAreFills
<1>1. Init => Purchases
  <2>. SUFFICES ASSUME Init PROVE Purchases
    OBVIOUS
  <2>1. Succeeded = {} /\ Bought = {} /\ receipts = {}
    BY DEF Init, Succeeded, Bought
  <2>2. Claims
    <3>. DEFINE f == [c \in Succeeded |-> c]
    <3>1. f \in [Succeeded -> Bought] /\ GivesEach(f)
      BY <2>1 DEF GivesEach
    <3>. QED
      BY <3>1 DEF Claims
  <2>3. BoughtOnce
    BY <2>1, FS_EmptySet DEF Init, Order!Init, BoughtOnce
  <2>. QED
    BY <2>1, <2>2, <2>3 DEF Purchases, Past
<1>2. Typing /\ Exclusion /\ Reports /\ Purchases /\ [Next]_vars => Purchases'
  BY PurchasesStep
<1>3. Typing /\ Purchases => SuccessesAreFills
  <2>. SUFFICES ASSUME Typing, Purchases PROVE Cardinality(Succeeded) <= fills
    BY DEF SuccessesAreFills, Succeeded
  <2>1. PICK f \in [Succeeded -> Bought] : GivesEach(f)
    BY DEF Purchases, Claims
  <2>2. f \in Injection(Succeeded, Bought)
    BY <2>1 DEF GivesEach, Injection, IsInjective
  <2>3. IsFiniteSet(Bought) /\ Cardinality(Bought) <= fills
    BY DEF Purchases, BoughtOnce
  <2>4. IsFiniteSet(Succeeded) /\ Cardinality(Succeeded) <= Cardinality(Bought)
    BY <2>2, <2>3, FS_Injection
  <2>5. Cardinality(Succeeded) \in Nat /\ Cardinality(Bought) \in Nat /\ fills \in Nat
    BY <2>3, <2>4, FS_CardinalityType DEF Typing, TypeOK
  <2>. QED
    BY <2>3, <2>4, <2>5
<1>. QED
  BY <1>1, <1>2, <1>3, ReportsAreInvariant, PTL DEF Spec

-----------------------------------------------------------------------------
(***************************************************************************)
(* InSync, for a node that keeps what it takes and answers for it: what    *)
(* the node holds of a bee has the nonces from the chain's to the bee's    *)
(* own, each of them once.                                                 *)
(***************************************************************************)
Contiguous(b, n) ==
    /\ 0 < nonce[b] /\ nonce[b] <= n
    /\ \A p \in pool : p.bee = b => nonce[b] <= p.nonce /\ p.nonce < n
    /\ \A p, q \in pool : p.bee = b /\ q.bee = b /\ p.nonce = q.nonce => p = q
    /\ \A m \in nonce[b] .. n - 1 : \E p \in pool : p.bee = b /\ p.nonce = m

Unbroken(b) == Contiguous(b, Top(b))

(* PendingNonceAt counts the transactions of an unbroken row.              *)
LEMMA CountsThePool ==
    ASSUME Typing, NEW b \in Bees, NEW n \in Nat, Contiguous(b, n)
    PROVE  PendingNonceAt(b) = n
<1>. DEFINE S == {p \in pool : p.bee = b /\ Executable(p)}
            R == nonce[b] .. n - 1
            f == [p \in S |-> p.nonce]
<1>. USE DEF Typing, TypeOK
<1>1. nonce[b] \in Nat /\ \A p \in pool : p.bee \in Bees /\ p.nonce \in Nat
  BY DEF Tx
<1>2. \A p \in pool : p.bee = b => Executable(p)
  BY <1>1 DEF Contiguous, Executable
<1>3. f \in [S -> R]
  BY <1>1 DEF Contiguous
<1>4. f \in Injection(S, R)
  BY <1>3 DEF Contiguous, Injection, IsInjective
<1>5. \A m \in R : \E p \in S : f[p] = m
  BY <1>2 DEF Contiguous
<1>6. f \in Surjection(S, R)
  <2>. HIDE DEF S, R, f
  <2>. QED
    BY <1>3, <1>5 DEF Surjection
<1>7. IsFiniteSet(R) /\ Cardinality(R) = n - nonce[b]
  <2>1. nonce[b] <= n
    BY DEF Contiguous
  <2>2. nonce[b] \in Int /\ n - 1 \in Int
    BY <1>1
  <2>3. /\ IsFiniteSet(R)
        /\ Cardinality(R) = IF nonce[b] > n - 1 THEN 0 ELSE (n - 1) - nonce[b] + 1
    BY <2>2, FS_Interval
  <2>. QED
    <3>1. \A i, j \in Nat : i <= j => (IF i > j - 1 THEN 0 ELSE (j - 1) - i + 1) = j - i
      OBVIOUS
    <3>2. (IF nonce[b] > n - 1 THEN 0 ELSE (n - 1) - nonce[b] + 1) = n - nonce[b]
      BY ONLY <1>1, <2>1, <3>1, n \in Nat
    <3>. QED
      BY <2>3, <3>2
<1>8. IsFiniteSet(S) /\ (Cardinality(S) = Cardinality(R) <=> f \in Surjection(S, R))
  <2>. HIDE DEF S, R, f
  <2>. QED
    BY <1>4, <1>7, FS_Injection
<1>9. Cardinality(S) = n - nonce[b]
  BY <1>6, <1>7, <1>8
<1>. QED
  BY <1>1, <1>9 DEF PendingNonceAt

(* A transaction for a nonce of the row takes the place of the one that    *)
(* held it; one for the next nonce lengthens the row.                      *)
LEMMA SendContiguous ==
    ASSUME Typing, NEW b \in Bees, NEW n \in Nat, Contiguous(b, n), NEW h \in Tx,
           h.bee = b, nonce[b] <= h.nonce, h.nonce <= n,
           pool' = PoolWith(h), nonce'[b] = nonce[b],
           NEW k \in Nat, k = IF h.nonce = n THEN n + 1 ELSE n
    PROVE  Contiguous(b, k)'
<1>1. nonce[b] \in Nat /\ h.nonce \in Nat /\ \A p \in pool : p.nonce \in Nat
  BY DEF Typing, TypeOK, Tx
<1>2. n <= k /\ h.nonce < k
  BY <1>1
<1>3. \A p \in pool' : p = h \/ (p \in pool /\ (p.bee = b => p.nonce # h.nonce))
  BY DEF PoolWith, Rival
<1>4. \A p \in pool' : p.bee = b => nonce[b] <= p.nonce /\ p.nonce < k
  <2>1. \A p \in pool : p.bee = b => nonce[b] <= p.nonce /\ p.nonce < n
    BY DEF Contiguous
  <2>. QED
    BY <1>1, <1>2, <1>3, <2>1
<1>5. \A p, q \in pool' : p.bee = b /\ q.bee = b /\ p.nonce = q.nonce => p = q
  BY <1>3 DEF Contiguous
<1>6. ASSUME NEW m \in nonce[b] .. k - 1 PROVE \E p \in pool' : p.bee = b /\ p.nonce = m
  <2>1. CASE m = h.nonce
    BY <2>1 DEF PoolWith
  <2>2. CASE m # h.nonce
    <3>1. m \in nonce[b] .. n - 1
      BY <1>1, <2>2
    <3>2. PICK p \in pool : p.bee = b /\ p.nonce = m
      BY <3>1 DEF Contiguous
    <3>. QED
      BY <2>2, <3>2 DEF PoolWith, Rival
  <2>. QED
    BY <2>1, <2>2
<1>7. 0 < nonce[b] /\ nonce[b] <= k
  BY <1>1, <1>2 DEF Contiguous
<1>. QED
  BY <1>4, <1>5, <1>6, <1>7 DEF Contiguous

(* The rows of the other bees are left alone.                              *)
LEMMA SendElsewhere ==
    ASSUME NEW b \in Bees, NEW n \in Nat, Contiguous(b, n), NEW h \in Tx, h.bee # b,
           pool' = PoolWith(h), nonce'[b] = nonce[b]
    PROVE  Contiguous(b, n)'
<1>1. \A p : p.bee = b => (p \in pool' <=> p \in pool)
  BY DEF PoolWith, Rival
<1>. QED
  BY <1>1 DEF Contiguous

(* A send of the row's next nonce lengthens it, unless the answer is lost; *)
(* the increment follows it.                                               *)
LEMMA GoroutineUnbroken ==
    ASSUME Typing, Exclusion, Nonces, NEW e \in Bees, Unbroken(e), ~AnswerLost(e),
           NEW c \in Calls, NEW b \in Bees, Goroutine(c, b)
    PROVE  Unbroken(e)'
<1>. USE DEF Typing, TypeOK
<1>1. \A d \in Calls, f \in Bees : d # c \/ f # b => stage'[d][f] = stage[d][f]
  BY DEF Goroutine, Sign, SendAccepted, SendFailed, Increment, Panic, WaitTimeElapses, PollDone,
         PollTimesOut, FetchReceipt, To
<1>2. nonce' = nonce /\ \A f \in Bees \ {b} : pendingNonce'[f] = pendingNonce[f]
  BY DEF Goroutine, Sign, SendAccepted, SendFailed, Increment, Panic, WaitTimeElapses, PollDone,
         PollTimesOut, FetchReceipt, chain
<1>3. stage[c][b] \in Working
  BY DEF Goroutine, Sign, SendAccepted, SendFailed, Increment, Panic, WaitTimeElapses, PollDone,
         PollTimesOut, FetchReceipt, Working, SendStages, CheckStages
<1>4. \A d \in Calls \ {c} : stage[d][b] # "acked"
  BY <1>3 DEF Exclusion, Serialized, Working, SendStages
<1>5. PICK n \in Nat : n = Top(e)
  BY DEF Top
<1>6. CASE e # b
  <2>1. InFlight(e)' <=> InFlight(e)
    BY <1>1, <1>6 DEF InFlight
  <2>2. Top(e)' = n
    BY <1>2, <1>5, <1>6, <2>1 DEF Top
  <2>3. pool' = pool \/ \E h \in Tx : h.bee = b /\ pool' = PoolWith(h)
    BY DEF Goroutine, Sign, SendAccepted, SendFailed, Increment, Panic, WaitTimeElapses, PollDone,
           PollTimesOut, FetchReceipt, chain, SignedByBee
  <2>4. CASE pool' = pool
    BY <1>2, <1>5, <2>2, <2>4 DEF Unbroken, Contiguous
  <2>5. ASSUME NEW h \in Tx, h.bee = b, pool' = PoolWith(h) PROVE Unbroken(e)'
    <3>1. Contiguous(e, n)'
      BY <1>2, <1>5, <1>6, <2>5, SendElsewhere DEF Unbroken
    <3>. QED
      BY <2>2, <3>1 DEF Unbroken, Contiguous
  <2>. QED
    BY <2>3, <2>4, <2>5
<1>7. CASE e = b /\ SendAccepted(c, b)
  <2>1. PICK h \in Tx : /\ h = hash[c][b] /\ h.bee = b /\ h.nonce = pendingNonce[b]
                        /\ pendingNonce' = pendingNonce /\ pool' = PoolWith(h)
    BY <1>7 DEF SendAccepted, SignedByBee, Nonces, NonceOfSend
  <2>2. ~InFlight(b) /\ InFlight(b)'
    BY <1>4, <1>7 DEF SendAccepted, To, InFlight
  <2>3. n = pendingNonce[b] /\ Top(b)' = n + 1
    BY <1>5, <1>7, <2>1, <2>2 DEF Top
  <2>4. Contiguous(b, n) /\ nonce[b] <= n
    BY <1>5, <1>7 DEF Unbroken, Contiguous
  <2>5. Contiguous(b, n + 1)'
    <3>1. n + 1 \in Nat /\ n + 1 = (IF h.nonce = n THEN n + 1 ELSE n)
      BY <2>1, <2>3
    <3>2. nonce[b] <= h.nonce /\ h.nonce <= n /\ nonce'[b] = nonce[b]
      BY <1>2, <2>1, <2>3, <2>4
    <3>. QED
      BY <2>1, <2>4, <3>1, <3>2, SendContiguous
  <2>. QED
    BY ONLY <1>7, <2>3, <2>5 DEF Unbroken, Contiguous
<1>8. CASE e = b /\ Increment(c, b)
  <2>1. pool' = pool /\ pendingNonce' = [pendingNonce EXCEPT ![b] = @ + 1]
    BY <1>8 DEF Increment, AfterSend, chain
  <2>2. InFlight(b) /\ ~InFlight(b)'
    BY <1>1, <1>4, <1>8 DEF Increment, To, InFlight
  <2>3. Top(e)' = Top(e)
    BY <1>8, <2>1, <2>2 DEF Top
  <2>. QED
    BY <1>2, <2>1, <2>3 DEF Unbroken, Contiguous
<1>9. CASE e = b /\ ~SendAccepted(c, b) /\ ~Increment(c, b)
  <2>1. UNCHANGED <<pool, pendingNonce>> /\ stage[c][b] # "acked" /\ stage'[c][b] # "acked"
    <3>1. CASE SendFailed(c, b)
      BY <1>9, <3>1 DEF SendFailed, AfterFailedSend, To, AnswerLost
    <3>2. CASE Sign(c, b)
      BY <3>2 DEF Sign, To, chain
    <3>3. CASE \/ Panic(c, b) \/ WaitTimeElapses(c, b) \/ PollDone(c, b)
               \/ PollTimesOut(c, b) \/ FetchReceipt(c, b)
      BY <3>3 DEF Panic, WaitTimeElapses, PollDone, PollTimesOut, FetchReceipt, To, chain
    <3>. QED
      BY <1>9, <3>1, <3>2, <3>3 DEF Goroutine
  <2>2. InFlight(b)' <=> InFlight(b)
    BY <1>1, <2>1 DEF InFlight
  <2>3. Top(e)' = Top(e)
    BY <1>9, <2>1, <2>2 DEF Top
  <2>. QED
    BY <1>2, <2>1, <2>3 DEF Unbroken, Contiguous
<1>. QED
  BY <1>6, <1>7, <1>8, <1>9

(* Starting and ending calls sends nothing.                                *)
LEMMA SnipeUnbroken ==
    ASSUME Typing, Exclusion, NEW b \in Bees, Unbroken(b), NEW c \in Calls, Call(c) \/ Snipe(c)
    PROVE  Unbroken(b)'
<1>1. UNCHANGED <<nonce, pool, pendingNonce>>
  BY DEF Call, Snipe, Lock, StartChecks, Return, chain
<1>2. \A d \in Calls : stage'[d][b] = "acked" <=> stage[d][b] = "acked"
  BY StartsNoSend
<1>3. Top(b)' = Top(b)
  BY <1>1, <1>2 DEF Top, InFlight
<1>. QED
  BY <1>1, <1>3 DEF Unbroken, Contiguous

(* A block takes the first of a row.                                       *)
LEMMA MineContiguous ==
    ASSUME Typing, NEW t \in pool, Mine(t), NEW b \in Bees, NEW n \in Nat, Contiguous(b, n)
    PROVE  Contiguous(b, n)'
<1>. USE DEF Typing, TypeOK
<1>1. /\ pool' = pool \ {t} /\ t.nonce = nonce[t.bee]
      /\ nonce' = [nonce EXCEPT ![t.bee] = @ + 1]
  BY DEF Mine
<1>2. nonce[b] \in Nat /\ \A p \in pool : p.bee \in Bees /\ p.nonce \in Nat
  BY DEF Tx
<1>3. CASE b = t.bee
  <2>1. nonce'[b] = nonce[b] + 1 /\ nonce[b] < n
    BY <1>1, <1>2, <1>3 DEF Contiguous
  <2>2. ASSUME NEW p \in pool', p.bee = b
        PROVE  nonce'[b] <= p.nonce /\ p.nonce < n
    <3>1. p \in pool /\ p.nonce \in Nat /\ p.nonce # nonce[b]
      BY <1>1, <1>2, <1>3, <2>2 DEF Contiguous
    <3>2. nonce[b] <= p.nonce /\ p.nonce < n
      BY <2>2, <3>1 DEF Contiguous
    <3>3. \A i, j \in Nat : i <= j /\ j # i => i + 1 <= j
      OBVIOUS
    <3>. QED
      BY <1>2, <2>1, <3>1, <3>2, <3>3
  <2>3. \A m \in nonce'[b] .. n - 1 : m \in nonce[b] .. n - 1 /\ m # nonce[b]
    BY <1>2, <2>1
  <2>4. \A m \in nonce'[b] .. n - 1 : \E p \in pool' : p.bee = b /\ p.nonce = m
    BY <1>1, <1>3, <2>3 DEF Contiguous
  <2>5. 0 < nonce'[b] /\ nonce'[b] <= n
    BY <1>2, <2>1
  <2>. QED
    BY <1>1, <2>2, <2>4, <2>5 DEF Contiguous
<1>4. CASE b # t.bee
  <2>1. nonce'[b] = nonce[b] /\ \A p \in pool : p.bee = b => p \in pool'
    BY <1>1, <1>4
  <2>. QED
    BY <1>1, <2>1 DEF Contiguous
<1>. QED
  BY <1>3, <1>4

LEMMA MineUnbroken ==
    ASSUME Typing, NEW b \in Bees, Unbroken(b), NEW t \in pool, Mine(t)
    PROVE  Unbroken(b)'
<1>1. PICK n \in Nat : n = Top(b)
  BY DEF Top, Typing, TypeOK
<1>2. Top(b)' = n
  BY <1>1 DEF Mine, swarm, Top, InFlight
<1>3. Contiguous(b, n)'
  BY <1>1, MineContiguous DEF Unbroken
<1>. QED
  BY <1>2, <1>3 DEF Unbroken, Contiguous

(***************************************************************************)
(* The row of a bee stays unbroken over every step that evicts none of its *)
(* transactions and loses no answer to it, a restart included.             *)
(***************************************************************************)
LEMMA UnbrokenStep ==
    ASSUME Typing, Exclusion, Nonces, NEW b \in Bees, Unbroken(b), [Next]_vars,
           ~AnswerLost(b), ~Evicted(b)
    PROVE  Unbroken(b)'
<1>1. CASE Restart
  <2>1. UNCHANGED <<nonce, pool>>
    BY <1>1 DEF Restart, chain
  <2>2. Top(b) \in Nat /\ Contiguous(b, Top(b)) /\ nonce[b] \in Nat
    BY DEF Top, Unbroken, Typing, TypeOK
  <2>3. PendingNonceAt(b) = Top(b) /\ Top(b) # 0
    BY <2>2, CountsThePool DEF Contiguous
  <2>4. pendingNonce'[b] = Top(b)
    BY <1>1, <2>3 DEF Restart, StartNonce
  <2>5. ~InFlight(b)'
    BY <1>1 DEF Restart, InFlight
  <2>6. Top(b)' = Top(b)
    BY <2>4, <2>5 DEF Top
  <2>. QED
    BY <2>1, <2>2, <2>6 DEF Unbroken, Contiguous
<1>2. CASE MineLiquidity \/ ConfigureOrder \/ UNCHANGED vars
  <2>1. UNCHANGED <<stage, pendingNonce, nonce, pool>>
    BY <1>2 DEF MineLiquidity, ConfigureOrder, vars, swarm, chain
  <2>. QED
    BY <2>1 DEF Unbroken, Contiguous, Top, InFlight
<1>3. ASSUME NEW t \in pool, Drop(t) PROVE Unbroken(b)'
  <2>1. /\ UNCHANGED <<stage, pendingNonce, nonce>> /\ t.bee # b
        /\ \A p : p.bee = b => (p \in pool' <=> p \in pool)
    BY <1>3 DEF Drop, swarm, Evicted
  <2>. QED
    BY <2>1 DEF Unbroken, Contiguous, Top, InFlight
<1>. QED
  BY <1>1, <1>2, <1>3, MineUnbroken, GoroutineUnbroken, SnipeUnbroken DEF Next, Chain

(* The counter of a bee is the end of its row.                             *)
LEMMA UnbrokenIsSynced ==
    ASSUME Typing, NEW b \in Bees, Unbroken(b)
    PROVE  Synced(b)
<1>1. Contiguous(b, Top(b)) /\ Top(b) \in Nat
  BY DEF Unbroken, Top, Typing, TypeOK
<1>. QED
  BY <1>1, CountsThePool DEF Synced

(* newBees starts a bee at the nonce of the chain, unless that is 0.       *)
LEMMA InitUnbroken ==
    ASSUME Init, 0 \notin InitialNonces, NEW b \in Bees
    PROVE  Unbroken(b)
<1>1. nonce[b] \in Nat /\ nonce[b] # 0 /\ pool = {}
  <2>1. nonce[b] \in InitialNonces
    BY DEF Init
  <2>. QED
    BY <2>1, ConstantsAssumption DEF Init
<1>2. Top(b) = nonce[b]
  BY <1>1 DEF Init, StartNonce, Top, InFlight
<1>. QED
  BY <1>1, <1>2 DEF Unbroken, Contiguous

(* Without evictions and lost answers every row stays unbroken.            *)
LEMMA RowsStayUnbroken ==
    ASSUME 0 \notin InitialNonces, Faults \cap {"drop", "lostReply"} = {}
    PROVE  Spec => [](Typing /\ \A b \in Bees : Unbroken(b))
<1>1. Init => \A b \in Bees : Unbroken(b)
  BY InitUnbroken
<1>2. /\ Typing /\ Exclusion /\ Nonces /\ \A b \in Bees : Unbroken(b)
      /\ [Next]_vars
      => (\A b \in Bees : Unbroken(b))'
  <2>1. \A b \in Bees : ~AnswerLost(b) /\ ~Evicted(b)
    BY DEF AnswerLost, SendFailed, Evicted, Drop
  <2>. QED
    BY <2>1, UnbrokenStep
<1>. QED
  BY <1>1, <1>2, NoncesAreInvariant, PTL DEF Spec

(***************************************************************************)
(* PendingNonce agrees with the node as long as accounts are not fresh,    *)
(* the node drops nothing and its answers to sends arrive, whatever else   *)
(* fails, panics or crashes: sends, polls and whole runs of the program.   *)
(***************************************************************************)
THEOREM StaysInSync ==
    ASSUME 0 \notin InitialNonces, Faults \cap {"drop", "lostReply"} = {}
    PROVE  Spec => []InSync
<1>1. Typing /\ (\A b \in Bees : Unbroken(b)) => InSync
  BY UnbrokenIsSynced DEF InSync
<1>. QED
  BY <1>1, RowsStayUnbroken, PTL

-----------------------------------------------------------------------------
(***************************************************************************)
(* What happens to a bee whose counter the node no longer agrees with.     *)
(***************************************************************************)
Stranded(b) == Behind(b) \/ Gap(b)

(* All a goroutine does to a bee: it may send the nonce the bee counts     *)
(* next, and count it; a bee behind the chain has no send accepted.        *)
LEMMA GoroutineOfBee ==
    ASSUME Typing, Exclusion, Nonces, NEW c \in Calls, NEW b \in Bees, Goroutine(c, b),
           NEW e \in Bees
    PROVE  /\ nonce'[e] = nonce[e]
           /\ pendingNonce'[e] \in {pendingNonce[e], pendingNonce[e] + 1}
           /\ \A p \in pool' : p.bee = e /\ p.nonce # pendingNonce[e] => p \in pool
           /\ Behind(e) => /\ pendingNonce'[e] = pendingNonce[e]
                           /\ \A d \in Calls : stage'[d][e] # "acked"
<1>. USE DEF Typing, TypeOK
<1>1. UNCHANGED nonce
  BY DEF Goroutine, Sign, SendAccepted, SendFailed, Increment, Panic, WaitTimeElapses, PollDone,
         PollTimesOut, FetchReceipt, chain
<1>2. PICK s \in Stages : stage' = [stage EXCEPT ![c][b] = s]
  BY DEF Goroutine, Sign, SendAccepted, SendFailed, Increment, Panic, WaitTimeElapses, PollDone,
         PollTimesOut, FetchReceipt, To, Stages, SendStages, CheckStages, EndStages
<1>3. CASE SendAccepted(c, b) \/ SendFailed(c, b)
  <2>. DEFINE h == hash[c][b]
  <2>1. h \in Tx /\ h.bee = b /\ h.nonce = pendingNonce[b] /\ UNCHANGED pendingNonce
    BY <1>3 DEF SendAccepted, SendFailed, AfterFailedSend, SignedByBee, Nonces, NonceOfSend
  <2>2. pool' \in {pool, PoolWith(h)} /\ (Accepts(h) \/ SendFailed(c, b))
    BY <1>3 DEF SendAccepted, SendFailed
  <2>3. \A p \in pool' : p.bee = e /\ p.nonce # pendingNonce[e] => p \in pool
    BY <2>1, <2>2 DEF PoolWith
  <2>4. Behind(b) => SendFailed(c, b)
    <3>1. pendingNonce[b] \in Nat /\ nonce[b] \in Nat
      OBVIOUS
    <3>. QED
      BY <2>1, <2>2, <3>1 DEF Behind, Accepts
  <2>5. SendFailed(c, b) => stage'[c][b] = "hashed"
    BY DEF SendFailed, To
  <2>. QED
    BY <1>1, <1>2, <2>1, <2>3, <2>4, <2>5 DEF Behind
<1>4. CASE Increment(c, b)
  <2>1. stage[c][b] = "acked" /\ UNCHANGED pool /\ pendingNonce' = [pendingNonce EXCEPT ![b] = @ + 1]
    BY <1>4 DEF Increment, AfterSend, chain
  <2>2. Behind(e) => e # b
    BY <2>1 DEF Behind
  <2>. QED
    BY <1>1, <1>2, <2>1, <2>2 DEF Behind
<1>5. CASE \/ Sign(c, b) \/ Panic(c, b) \/ WaitTimeElapses(c, b) \/ PollDone(c, b)
           \/ PollTimesOut(c, b) \/ FetchReceipt(c, b)
  <2>1. UNCHANGED <<pool, pendingNonce>> /\ stage'[c][b] # "acked"
    BY <1>5 DEF Sign, Panic, WaitTimeElapses, PollDone, PollTimesOut, FetchReceipt, To, chain
  <2>. QED
    BY <1>1, <1>2, <2>1 DEF Behind
<1>. QED
  BY <1>3, <1>4, <1>5 DEF Goroutine

(* Nothing but a restart gives a stranded bee its place in the row back:   *)
(* its own sends are behind the chain or beyond the gap, and a block takes *)
(* what comes before the gap.                                              *)
LEMMA StrandedStep ==
    ASSUME Typing, Exclusion, Nonces, [Next]_vars, ~Restart, NEW b \in Bees, Stranded(b)
    PROVE  Stranded(b)'
<1>. USE DEF Typing, TypeOK
<1>1. nonce[b] \in Nat /\ pendingNonce[b] \in Nat /\ \A p \in pool : p.nonce \in Nat
  BY DEF Tx
<1>2. CASE \E t \in pool : Mine(t)
  <2>1. PICK t \in pool : Mine(t)
    BY <1>2
  <2>2. UNCHANGED <<stage, pendingNonce>> /\ pool' \subseteq pool
    BY <2>1 DEF Mine, swarm
  <2>3. nonce'[b] = IF b = t.bee THEN nonce[b] + 1 ELSE nonce[b]
    BY <2>1 DEF Mine
  <2>4. CASE Behind(b)
    BY <1>1, <2>2, <2>3, <2>4 DEF Stranded, Behind
  <2>5. CASE Gap(b)
    <3>1. PICK m \in nonce[b] .. pendingNonce[b] - 1 : \A p \in pool : p.bee # b \/ p.nonce # m
      BY <2>5 DEF Gap
    <3>2. b = t.bee => m # nonce[b]
      BY <2>1, <3>1 DEF Mine
    <3>3. m \in nonce'[b] .. pendingNonce[b] - 1
      <4>1. CASE b = t.bee
        <5>1. \A i, j \in Nat : \A k \in i .. j - 1 : k # i => k \in i + 1 .. j - 1
          OBVIOUS
        <5>. QED
          BY <1>1, <2>3, <3>1, <3>2, <4>1, <5>1
      <4>2. CASE b # t.bee
        BY <2>3, <3>1, <4>2
      <4>. QED
        BY <4>1, <4>2
    <3>. QED
      BY <2>2, <3>1, <3>3 DEF Stranded, Gap
  <2>. QED
    BY <2>4, <2>5 DEF Stranded
<1>3. CASE (\E t \in pool : Drop(t)) \/ MineLiquidity \/ ConfigureOrder \/ UNCHANGED vars
  <2>1. UNCHANGED <<stage, pendingNonce, nonce>> /\ pool' \subseteq pool
    BY <1>3 DEF Drop, MineLiquidity, ConfigureOrder, vars, swarm, chain
  <2>. QED
    BY <2>1 DEF Stranded, Behind, Gap
<1>4. CASE \E c \in Calls : Call(c) \/ Snipe(c)
  <2>1. PICK c \in Calls : Call(c) \/ Snipe(c)
    BY <1>4
  <2>2. UNCHANGED <<pendingNonce, nonce, pool>>
    BY <2>1 DEF Call, Snipe, Lock, StartChecks, Return, chain
  <2>3. \A d \in Calls : stage'[d][b] = "acked" => stage[d][b] = "acked"
    BY <2>1, StartsNoSend
  <2>. QED
    BY <2>2, <2>3 DEF Stranded, Behind, Gap
<1>5. CASE \E c \in Calls, e \in Bees : Goroutine(c, e)
  <2>1. /\ nonce'[b] = nonce[b]
        /\ pendingNonce'[b] \in {pendingNonce[b], pendingNonce[b] + 1}
        /\ \A p \in pool' : p.bee = b /\ p.nonce # pendingNonce[b] => p \in pool
        /\ Behind(b) => /\ pendingNonce'[b] = pendingNonce[b]
                        /\ \A d \in Calls : stage'[d][b] # "acked"
    BY <1>5, GoroutineOfBee
  <2>2. CASE Behind(b)
    BY <2>1, <2>2 DEF Stranded, Behind
  <2>3. CASE Gap(b)
    <3>1. PICK m \in nonce[b] .. pendingNonce[b] - 1 : \A p \in pool : p.bee # b \/ p.nonce # m
      BY <2>3 DEF Gap
    <3>2. m \in nonce'[b] .. pendingNonce'[b] - 1 /\ m # pendingNonce[b]
      BY <1>1, <2>1, <3>1
    <3>. QED
      BY <2>1, <3>1, <3>2 DEF Stranded, Gap
  <2>. QED
    BY <2>2, <2>3 DEF Stranded
<1>. QED
  BY <1>2, <1>3, <1>4, <1>5 DEF Next, Chain

(***************************************************************************)
(* A bee that fell behind the chain, or left a gap in the pool, stays that *)
(* way until the program is restarted: whatever later calls of Snipe send, *)
(* whatever the node answers, drops or mines.                              *)
(***************************************************************************)
THEOREM OnlyRestartRepairs == Spec => StrandedUntilRestart
<1>. DEFINE Stays == \A b \in Bees : Behind(b) \/ Gap(b) => Behind(b)' \/ Gap(b)' \/ restarts' # restarts
<1>1. Typing /\ Exclusion /\ Nonces /\ [Next]_vars => [Stays]_vars
  <2>. SUFFICES ASSUME Typing, Exclusion, Nonces, [Next]_vars PROVE Stays
    OBVIOUS
  <2>1. Restart => restarts' # restarts
    BY DEF Restart, Typing, TypeOK
  <2>. QED
    BY <2>1, StrandedStep DEF Stranded
<1>. QED
  BY <1>1, NoncesAreInvariant, PTL DEF Spec, StrandedUntilRestart

-----------------------------------------------------------------------------
(***************************************************************************)
(* The counters of the bees when answers to sends may be lost: PendingNonce*)
(* may then be the nonce of a pooled transaction, which the next call of   *)
(* Snipe competes with, but it is never beyond the end of the bee's row.   *)
(***************************************************************************)
WithinRow(b, n) ==
    /\ Contiguous(b, n)
    /\ pendingNonce[b] <= n
    /\ InFlight(b) => pendingNonce[b] < n

Rows == \A b \in Bees : \E n \in Nat : WithinRow(b, n)

(* A goroutine's send, known or not to have been taken, replaces one of    *)
(* the row or lengthens it; only a send that was acknowledged is counted.  *)
LEMMA GoroutineRows ==
    ASSUME Typing, Exclusion, Nonces, Rows, NEW c \in Calls, NEW b \in Bees, Goroutine(c, b)
    PROVE  Rows'
<1>. USE DEF Typing, TypeOK
<1>1. \A d \in Calls, e \in Bees : d # c \/ e # b => stage'[d][e] = stage[d][e]
  BY DEF Goroutine, Sign, SendAccepted, SendFailed, Increment, Panic, WaitTimeElapses, PollDone,
         PollTimesOut, FetchReceipt, To
<1>2. UNCHANGED nonce /\ \A e \in Bees \ {b} : pendingNonce'[e] = pendingNonce[e]
  BY DEF Goroutine, Sign, SendAccepted, SendFailed, Increment, Panic, WaitTimeElapses, PollDone,
         PollTimesOut, FetchReceipt, chain
<1>3. \A e \in Bees \ {b} : InFlight(e)' <=> InFlight(e)
  BY <1>1 DEF InFlight
<1>4. stage[c][b] \in Working
  BY DEF Goroutine, Sign, SendAccepted, SendFailed, Increment, Panic, WaitTimeElapses, PollDone,
         PollTimesOut, FetchReceipt, Working, SendStages, CheckStages
<1>5. \A d \in Calls \ {c} : stage[d][b] # "acked" /\ stage'[d][b] # "acked"
  BY <1>1, <1>4 DEF Exclusion, Serialized, Working, SendStages
<1>6. PICK n \in Nat : WithinRow(b, n)
  BY DEF Rows
<1>7. CASE (SendAccepted(c, b) \/ SendFailed(c, b)) /\ pool' # pool
  <2>1. PICK h \in Tx : /\ h = hash[c][b] /\ h.bee = b /\ h.nonce = pendingNonce[b]
                        /\ pendingNonce' = pendingNonce /\ pool' = PoolWith(h) /\ Accepts(h)
    BY <1>7 DEF SendAccepted, SendFailed, AfterFailedSend, SignedByBee, Nonces, NonceOfSend
  <2>2. nonce[b] <= h.nonce /\ h.nonce <= n /\ h.nonce \in Nat /\ nonce'[b] = nonce[b]
    BY <1>2, <1>6, <2>1 DEF Accepts, WithinRow
  <2>3. PICK k \in Nat : k = IF h.nonce = n THEN n + 1 ELSE n
    OBVIOUS
  <2>4. Contiguous(b, k)'
    BY <1>6, <2>1, <2>2, <2>3, SendContiguous DEF WithinRow
  <2>5. pendingNonce'[b] < k
    <3>1. \A i, j \in Nat : i <= j => i < (IF i = j THEN j + 1 ELSE j)
      OBVIOUS
    <3>2. h.nonce < k
      BY <2>2, <2>3, <3>1
    <3>. QED
      BY <2>1, <3>2
  <2>6. WithinRow(b, k)'
    BY <2>1, <2>2, <2>4, <2>5 DEF WithinRow
  <2>7. ASSUME NEW e \in Bees \ {b} PROVE \E i \in Nat : WithinRow(e, i)'
    <3>1. PICK i \in Nat : WithinRow(e, i)
      BY DEF Rows
    <3>2. Contiguous(e, i)'
      BY <1>2, <2>1, <3>1, SendElsewhere DEF WithinRow
    <3>. QED
      BY <1>2, <1>3, <3>1, <3>2 DEF WithinRow
  <2>. QED
    BY <2>6, <2>7 DEF Rows
<1>8. CASE UNCHANGED pool
  <2>1. \A e \in Bees, i \in Nat : Contiguous(e, i)' <=> Contiguous(e, i)
    BY <1>2, <1>8 DEF Contiguous
  <2>2. pendingNonce'[b] <= n /\ (InFlight(b)' => pendingNonce'[b] < n)
    <3>1. CASE SendAccepted(c, b)
      <4>1. hash[c][b] \in pool' /\ hash[c][b] \in Tx /\ hash[c][b].bee = b
            /\ hash[c][b].nonce = pendingNonce[b] /\ pendingNonce' = pendingNonce
        BY <3>1 DEF SendAccepted, PoolWith, SignedByBee, Nonces, NonceOfSend
      <4>. QED
        BY <1>6, <1>8, <4>1 DEF WithinRow, Contiguous
    <3>2. CASE Increment(c, b)
      <4>1. InFlight(b) /\ pendingNonce'[b] = pendingNonce[b] + 1 /\ ~InFlight(b)'
        BY <1>5, <3>2 DEF Increment, AfterSend, To, InFlight
      <4>2. pendingNonce[b] < n /\ pendingNonce[b] \in Nat
        BY <1>6, <4>1 DEF WithinRow
      <4>. QED
        BY <4>1, <4>2
    <3>3. CASE ~SendAccepted(c, b) /\ ~Increment(c, b)
      <4>1. pendingNonce' = pendingNonce /\ stage'[c][b] # "acked"
        BY <3>3 DEF Goroutine, Sign, SendFailed, AfterFailedSend, Panic, WaitTimeElapses, PollDone,
                    PollTimesOut, FetchReceipt, To
      <4>2. ~InFlight(b)'
        BY <1>5, <4>1 DEF InFlight
      <4>. QED
        BY <1>6, <4>1, <4>2 DEF WithinRow
    <3>. QED
      BY <3>1, <3>2, <3>3
  <2>3. WithinRow(b, n)'
    BY <1>6, <2>1, <2>2 DEF WithinRow
  <2>4. ASSUME NEW e \in Bees \ {b} PROVE \E i \in Nat : WithinRow(e, i)'
    <3>1. PICK i \in Nat : WithinRow(e, i)
      BY DEF Rows
    <3>. QED
      BY <1>2, <1>3, <2>1, <3>1 DEF WithinRow
  <2>. QED
    BY <2>3, <2>4 DEF Rows
<1>9. pool' # pool => SendAccepted(c, b) \/ SendFailed(c, b)
  BY DEF Goroutine, Sign, Increment, Panic, WaitTimeElapses, PollDone, PollTimesOut, FetchReceipt, chain
<1>. QED
  BY <1>7, <1>8, <1>9

(* The counters stay within the rows over every step that drops nothing,   *)
(* a restart included.                                                     *)
LEMMA RowsStep ==
    ASSUME Typing, Exclusion, Nonces, Rows, [Next]_vars, "drop" \notin Faults
    PROVE  Rows'
<1>1. CASE Restart
  <2>. SUFFICES ASSUME NEW b \in Bees PROVE \E n \in Nat : WithinRow(b, n)'
    BY DEF Rows
  <2>1. PICK n \in Nat : Contiguous(b, n)
    BY DEF Rows, WithinRow
  <2>2. PendingNonceAt(b) = n /\ n # 0
    <3>1. nonce[b] \in Nat
      BY DEF Typing, TypeOK
    <3>. QED
      BY <2>1, <3>1, CountsThePool DEF Contiguous
  <2>3. pendingNonce'[b] = n /\ ~InFlight(b)'
    BY <1>1, <2>2 DEF Restart, StartNonce, InFlight
  <2>4. Contiguous(b, n)'
    BY <1>1, <2>1 DEF Restart, chain, Contiguous
  <2>. QED
    BY <2>3, <2>4 DEF WithinRow
<1>2. CASE MineLiquidity \/ ConfigureOrder \/ UNCHANGED vars
  <2>1. UNCHANGED <<stage, pendingNonce, nonce, pool>>
    BY <1>2 DEF MineLiquidity, ConfigureOrder, vars, swarm, chain
  <2>. QED
    BY <2>1 DEF Rows, WithinRow, Contiguous, InFlight
<1>3. CASE \E t \in pool : Mine(t)
  <2>1. PICK t \in pool : Mine(t)
    BY <1>3
  <2>. SUFFICES ASSUME NEW b \in Bees PROVE \E n \in Nat : WithinRow(b, n)'
    BY DEF Rows
  <2>2. PICK n \in Nat : WithinRow(b, n)
    BY DEF Rows
  <2>3. Contiguous(b, n)'
    BY <2>1, <2>2, MineContiguous DEF WithinRow
  <2>. QED
    BY <2>1, <2>2, <2>3 DEF Mine, swarm, WithinRow, InFlight
<1>4. CASE \E c \in Calls : Call(c) \/ Snipe(c)
  <2>1. PICK c \in Calls : Call(c) \/ Snipe(c)
    BY <1>4
  <2>2. UNCHANGED <<nonce, pool, pendingNonce>>
    BY <2>1 DEF Call, Snipe, Lock, StartChecks, Return, chain
  <2>3. \A d \in Calls, b \in Bees : stage'[d][b] = "acked" <=> stage[d][b] = "acked"
    BY <2>1, StartsNoSend
  <2>. QED
    BY <2>2, <2>3 DEF Rows, WithinRow, Contiguous, InFlight
<1>5. ~ \E t \in pool : Drop(t)
  BY DEF Drop
<1>. QED
  BY <1>1, <1>2, <1>3, <1>4, <1>5, GoroutineRows DEF Next, Chain

(***************************************************************************)
(* Once no account is fresh, only evictions leave a gap: a send that       *)
(* fails, even one whose answer is lost, a panic or a restart never makes  *)
(* the swarm skip a nonce, and everything it sent can be mined.            *)
(***************************************************************************)
THEOREM NoNonceSkipped ==
    ASSUME 0 \notin InitialNonces, "drop" \notin Faults
    PROVE  Spec => [](PooledIsExecutable /\ \A b \in Bees : ~Gap(b))
<1>1. Init => Rows
  <2>. SUFFICES ASSUME Init, NEW b \in Bees PROVE \E n \in Nat : WithinRow(b, n)
    BY DEF Rows
  <2>1. ~InFlight(b) /\ Typing
    BY InitTyping DEF Init, InFlight
  <2>2. PICK n \in Nat : n = pendingNonce[b]
    BY <2>1 DEF Typing, TypeOK
  <2>3. Contiguous(b, n)
    BY <2>1, <2>2, InitUnbroken DEF Unbroken, Top
  <2>. QED
    BY <2>1, <2>2, <2>3 DEF WithinRow
<1>2. Typing /\ Exclusion /\ Nonces /\ Rows /\ [Next]_vars => Rows'
  BY RowsStep
<1>3. Typing /\ Rows => PooledIsExecutable
  <2>. SUFFICES ASSUME Typing, Rows, NEW t \in pool PROVE Executable(t)
    BY DEF PooledIsExecutable
  <2>1. t.bee \in Bees /\ t.nonce \in Nat /\ nonce[t.bee] \in Nat
    BY DEF Typing, TypeOK, Tx
  <2>2. PICK n \in Nat : Contiguous(t.bee, n)
    BY <2>1 DEF Rows, WithinRow
  <2>. QED
    BY <2>1, <2>2 DEF Contiguous, Executable
<1>4. Typing /\ Rows => \A b \in Bees : ~Gap(b)
  <2>. SUFFICES ASSUME Typing, Rows, NEW b \in Bees,
                       NEW m \in nonce[b] .. pendingNonce[b] - 1
                PROVE  \E p \in pool : p.bee = b /\ p.nonce = m
    BY DEF Gap
  <2>1. nonce[b] \in Nat /\ pendingNonce[b] \in Nat
    BY DEF Typing, TypeOK
  <2>2. PICK n \in Nat : WithinRow(b, n)
    BY DEF Rows
  <2>3. m \in nonce[b] .. n - 1
    BY <2>1, <2>2 DEF WithinRow
  <2>. QED
    BY <2>2, <2>3 DEF WithinRow, Contiguous
<1>. QED
  BY <1>1, <1>2, <1>3, <1>4, NoncesAreInvariant, PTL DEF Spec

(* A bee whose counter ends its row is neither behind it nor beyond a gap. *)
LEMMA UnbrokenNotStranded ==
    ASSUME Typing, NEW b \in Bees, Unbroken(b)
    PROVE  ~Stranded(b)
<1>1. nonce[b] \in Nat /\ pendingNonce[b] \in Nat
  BY DEF Typing, TypeOK
<1>2. ~Behind(b)
  <2>1. Behind(b) => Contiguous(b, pendingNonce[b])
    BY DEF Behind, Unbroken, Top, InFlight
  <2>. QED
    BY <1>1, <2>1 DEF Behind, Contiguous
<1>3. ~Gap(b)
  <2>1. Contiguous(b, Top(b)) /\ Top(b) \in {pendingNonce[b], pendingNonce[b] + 1}
    BY DEF Unbroken, Top
  <2>2. \A m \in nonce[b] .. pendingNonce[b] - 1 : m \in nonce[b] .. Top(b) - 1
    BY <1>1, <2>1
  <2>. QED
    BY <2>1, <2>2 DEF Gap, Contiguous
<1>. QED
  BY <1>2, <1>3 DEF Stranded

(***************************************************************************)
(* With every answer to a send arriving as well, no bee is ever stranded.  *)
(***************************************************************************)
THEOREM NoBeeStranded ==
    ASSUME 0 \notin InitialNonces, Faults \cap {"drop", "lostReply"} = {}
    PROVE  Spec => [](\A b \in Bees : ~Stranded(b))
<1>1. Typing /\ (\A b \in Bees : Unbroken(b)) => \A b \in Bees : ~Stranded(b)
  BY UnbrokenNotStranded
<1>. QED
  BY <1>1, RowsStayUnbroken, PTL

-----------------------------------------------------------------------------
(***************************************************************************)
(* Within one run of the program the node holds of each bee at most one    *)
(* transaction for a nonce, and none beyond the bee's counter.  (newBees   *)
(* may start a bee below what an earlier run has sent.)                    *)
(***************************************************************************)
PooledOf(b) ==
    /\ 1 <= pendingNonce[b]
    /\ \A p \in pool : p.bee = b =>
           1 <= p.nonce /\ nonce[b] <= p.nonce /\ p.nonce <= pendingNonce[b]
    /\ \A p, q \in pool : p.bee = b /\ q.bee = b /\ p.nonce = q.nonce => p = q

LEMMA InitPooled ==
    ASSUME Init, NEW b \in Bees
    PROVE  PooledOf(b)
<1>1. nonce[b] \in Nat
  <2>1. nonce[b] \in InitialNonces
    BY DEF Init
  <2>. QED
    BY <2>1, ConstantsAssumption
<1>. QED
  BY <1>1 DEF Init, StartNonce, PooledOf

(* A send has the nonce of the counter, and takes the place of another.    *)
LEMMA PooledSend ==
    ASSUME Typing, NEW b \in Bees, PooledOf(b), NEW h \in Tx, pool' = PoolWith(h),
           h.bee = b => nonce[b] <= h.nonce /\ h.nonce = pendingNonce[b],
           pendingNonce'[b] = pendingNonce[b], nonce'[b] = nonce[b]
    PROVE  PooledOf(b)'
<1>1. \A p \in pool' : p = h \/ (p \in pool /\ (p.bee = h.bee => p.nonce # h.nonce))
  BY DEF PoolWith, Rival
<1>2. ASSUME NEW p \in pool', p.bee = b
      PROVE  1 <= p.nonce /\ nonce[b] <= p.nonce /\ p.nonce <= pendingNonce[b]
  <2>1. CASE p = h
    <3>1. pendingNonce[b] \in Nat
      BY DEF Typing, TypeOK
    <3>. QED
      BY <1>2, <2>1, <3>1 DEF PooledOf
  <2>2. CASE p # h
    BY <1>1, <1>2, <2>2 DEF PooledOf
  <2>. QED
    BY <2>1, <2>2
<1>3. ASSUME NEW p \in pool', NEW q \in pool', p.bee = b, q.bee = b, p.nonce = q.nonce
      PROVE  p = q
  <2>1. CASE p \in pool /\ q \in pool
    BY <1>3, <2>1 DEF PooledOf
  <2>2. CASE p = h \/ q = h
    BY <1>1, <1>3, <2>2
  <2>. QED
    BY <1>1, <2>1, <2>2
<1>4. 1 <= pendingNonce[b]
  BY DEF PooledOf
<1>. QED
  BY <1>2, <1>3, <1>4 DEF PooledOf

LEMMA PooledStep ==
    ASSUME Typing, Exclusion, Nonces, NEW b \in Bees, PooledOf(b), [Next]_vars, ~Restart
    PROVE  PooledOf(b)'
<1>0. /\ pendingNonce[b] \in Nat /\ nonce[b] \in Nat
      /\ \A p \in pool : p.bee \in Bees /\ p.nonce \in Nat
  BY DEF Typing, TypeOK, Tx
<1>1. ASSUME NEW c \in Calls, NEW e \in Bees, SendAccepted(c, e) \/ SendFailed(c, e)
      PROVE  PooledOf(b)'
  <2>1. UNCHANGED <<pendingNonce, nonce>>
    BY <1>1 DEF SendAccepted, SendFailed, AfterFailedSend, Typing, TypeOK
  <2>2. CASE pool' = pool
    BY <2>1, <2>2 DEF PooledOf
  <2>3. CASE pool' # pool
    <3>1. PICK h \in Tx : /\ h.bee = e /\ h.nonce = pendingNonce[e]
                          /\ Accepts(h) /\ pool' = PoolWith(h)
      BY <1>1, <2>3 DEF SendAccepted, SendFailed, Typing, SignedByBee, Nonces, NonceOfSend
    <3>2. h.bee = b => nonce[b] <= h.nonce /\ h.nonce = pendingNonce[b]
      BY <1>0, <3>1 DEF Accepts
    <3>. QED
      BY <2>1, <3>1, <3>2, PooledSend
  <2>. QED
    BY <2>2, <2>3
<1>2. ASSUME NEW c \in Calls, NEW e \in Bees, Increment(c, e) PROVE PooledOf(b)'
  <2>1. UNCHANGED <<pool, nonce>> /\ pendingNonce'[b] \in {pendingNonce[b], pendingNonce[b] + 1}
    BY <1>2 DEF Increment, AfterSend, chain, Typing, TypeOK
  <2>2. pendingNonce[b] <= pendingNonce'[b] /\ pendingNonce'[b] \in Nat
    BY <1>0, <2>1
  <2>. QED
    BY <1>0, <2>1, <2>2 DEF PooledOf
<1>3. ASSUME NEW t \in pool, Mine(t) PROVE PooledOf(b)'
  <2>1. /\ pool' = pool \ {t} /\ t.nonce = nonce[t.bee] /\ pendingNonce' = pendingNonce
        /\ nonce' = [nonce EXCEPT ![t.bee] = @ + 1]
    BY <1>3 DEF Mine, swarm
  <2>2. ASSUME NEW p \in pool', p.bee = b PROVE nonce'[b] <= p.nonce
    <3>1. p \in pool /\ nonce[b] <= p.nonce /\ p.nonce \in Nat
      BY <1>0, <2>1, <2>2 DEF PooledOf
    <3>2. CASE t.bee = b
      <4>1. p.nonce # nonce[b] /\ nonce'[b] = nonce[b] + 1
        BY <2>1, <2>2, <3>1, <3>2 DEF PooledOf, Typing, TypeOK
      <4>. QED
        BY <1>0, <3>1, <4>1
    <3>3. CASE t.bee # b
      BY <2>1, <3>1, <3>3 DEF Typing, TypeOK
    <3>. QED
      BY <3>2, <3>3
  <2>. QED
    BY <2>1, <2>2 DEF PooledOf
<1>4. ASSUME NEW t \in pool, Drop(t) PROVE PooledOf(b)'
  BY <1>4 DEF Drop, swarm, PooledOf
<1>5. CASE ~ \E c \in Calls, e \in Bees : SendAccepted(c, e) \/ SendFailed(c, e) \/ Increment(c, e)
  <2>1. CASE \E t \in pool : Mine(t) \/ Drop(t)
    BY <1>3, <1>4, <2>1
  <2>2. CASE ~ \E t \in pool : Mine(t) \/ Drop(t)
    <3>1. UNCHANGED <<pool, nonce, pendingNonce>>
      BY <1>5, <2>2 DEF Next, Call, Snipe, Lock, StartChecks, Return, Goroutine, Sign, Panic,
             WaitTimeElapses, PollDone, PollTimesOut, FetchReceipt, Chain, MineLiquidity,
             ConfigureOrder, vars, swarm, chain
    <3>. QED
      BY <3>1 DEF PooledOf
  <2>. QED
    BY <2>1, <2>2
<1>. QED
  BY <1>1, <1>2, <1>5

(***************************************************************************)
(* If the node would answer a bee's counter, its row is unbroken: a nonce  *)
(* missing below the counter would leave the node's count too small, and a *)
(* transaction at the counter would make it too large.                     *)
(***************************************************************************)
LEMMA SyncedIsUnbroken ==
    ASSUME Typing, NEW b \in Bees, PooledOf(b), Synced(b)
    PROVE  Unbroken(b)
<1>. DEFINE S == {p \in pool : p.bee = b /\ Executable(p)}
            f == [p \in S |-> p.nonce]
<1>0. /\ pendingNonce[b] \in Nat /\ nonce[b] \in Nat
      /\ \A p \in pool : p.bee \in Bees /\ p.nonce \in Nat
  BY DEF Typing, TypeOK, Tx
<1>1. PICK n \in Nat : n = Top(b)
  BY <1>0 DEF Top
<1>2. /\ 1 <= n /\ n \in {pendingNonce[b], pendingNonce[b] + 1}
  BY <1>0, <1>1 DEF Top, PooledOf
<1>3. IsFiniteSet(S) /\ Cardinality(S) \in Nat /\ n = nonce[b] + Cardinality(S)
  <2>1. IsFiniteSet(S)
    BY FS_Subset DEF Typing, PoolFinite
  <2>2. Cardinality(S) \in Nat
    BY <2>1, FS_CardinalityType
  <2>. QED
    BY <1>1, <2>1, <2>2 DEF Synced, PendingNonceAt
<1>4. nonce[b] <= n
  BY <1>0, <1>3
<1>5. ASSUME NEW m \in nonce[b] .. n - 1 PROVE \E p \in pool : p.bee = b /\ p.nonce = m
  <2>. SUFFICES ASSUME ~ \E p \in pool : p.bee = b /\ p.nonce = m PROVE FALSE
    OBVIOUS
  <2>. DEFINE R == nonce[b] .. m - 1
  <2>1. \A p \in S : p.nonce \in R
    <3>. SUFFICES ASSUME NEW p \in S PROVE p.nonce \in R
      OBVIOUS
    <3>1. p.nonce \in Nat /\ nonce[b] <= p.nonce /\ p.bee = b /\ p \in pool /\ Executable(p)
      BY <1>0 DEF PooledOf
    <3>2. m \notin nonce[b] .. p.nonce
      BY <3>1 DEF Executable
    <3>. QED
      BY <1>0, <3>1, <3>2
  <2>2. f \in Injection(S, R)
    <3>1. f \in [S -> R]
      BY <2>1
    <3>2. \A p, q \in S : f[p] = f[q] => p = q
      BY DEF PooledOf
    <3>. QED
      BY <3>1, <3>2 DEF Injection, IsInjective
  <2>3. IsFiniteSet(R) /\ Cardinality(R) = m - nonce[b]
    <3>1. nonce[b] \in Int /\ m - 1 \in Int /\ nonce[b] <= m
      BY <1>0
    <3>2. /\ IsFiniteSet(R)
          /\ Cardinality(R) = IF nonce[b] > m - 1 THEN 0 ELSE (m - 1) - nonce[b] + 1
      BY <3>1, FS_Interval
    <3>3. (IF nonce[b] > m - 1 THEN 0 ELSE (m - 1) - nonce[b] + 1) = m - nonce[b]
      BY <3>1
    <3>. QED
      BY <3>2, <3>3
  <2>4. Cardinality(S) <= Cardinality(R)
    <3>. HIDE DEF S, R, f
    <3>. QED
      BY <2>2, <2>3, FS_Injection
  <2>. HIDE DEF S, R, f
  <2>. QED
    BY <1>0, <1>3, <2>3, <2>4
<1>6. \A p \in pool : p.bee = b => nonce[b] <= p.nonce /\ p.nonce < n
  <2>. SUFFICES ASSUME NEW p \in pool, p.bee = b, ~ p.nonce < n PROVE FALSE
    BY DEF PooledOf
  <2>1. p.nonce = n /\ n = pendingNonce[b]
    BY <1>0, <1>2 DEF PooledOf
  <2>2. /\ \A q \in pool : q.bee = b => nonce[b] <= q.nonce /\ q.nonce < n + 1
        /\ \A q, r \in pool : q.bee = b /\ r.bee = b /\ q.nonce = r.nonce => q = r
    BY <1>0, <2>1 DEF PooledOf
  <2>3. \A m \in nonce[b] .. n : \E q \in pool : q.bee = b /\ q.nonce = m
    <3>1. \A m \in nonce[b] .. n : m = n \/ m \in nonce[b] .. n - 1
      BY <1>0
    <3>. QED
      BY <1>5, <2>1, <3>1
  <2>4. \A q \in S : q.nonce \in nonce[b] .. n
    BY <1>0, <2>2
  <2>5. Executable(p)
    BY <1>0, <2>1, <2>3 DEF Executable
  <2>6. \A m \in nonce[b] .. n : \E q \in S : q.nonce = m
    <3>. SUFFICES ASSUME NEW m \in nonce[b] .. n PROVE \E q \in S : q.nonce = m
      OBVIOUS
    <3>1. PICK q \in pool : q.bee = b /\ q.nonce = m
      BY <2>3
    <3>2. Executable(q)
      BY <1>0, <2>3, <3>1 DEF Executable
    <3>. QED
      BY <3>1, <3>2
  <2>. DEFINE R == nonce[b] .. n
  <2>7. f \in Injection(S, R) /\ f \in Surjection(S, R)
    <3>1. f \in [S -> R]
      BY <2>4
    <3>2. \A q, r \in S : f[q] = f[r] => q = r
      BY <2>2
    <3>3. \A m \in R : \E q \in S : f[q] = m
      BY <2>6
    <3>. HIDE DEF S, R, f
    <3>. QED
      BY <3>1, <3>2, <3>3 DEF Injection, IsInjective, Surjection
  <2>8. IsFiniteSet(R) /\ Cardinality(R) = n - nonce[b] + 1
    <3>1. nonce[b] \in Int /\ n \in Int
      BY <1>0
    <3>2. /\ IsFiniteSet(R)
          /\ Cardinality(R) = IF nonce[b] > n THEN 0 ELSE n - nonce[b] + 1
      BY <3>1, FS_Interval
    <3>. QED
      BY <1>0, <1>4, <3>2
  <2>9. Cardinality(S) = Cardinality(R)
    <3>. HIDE DEF S, R, f
    <3>. QED
      BY <2>7, <2>8, FS_Injection
  <2>. HIDE DEF S, R
  <2>. QED
    BY <1>0, <1>3, <2>8, <2>9
<1>7. 0 < nonce[b]
  <2>. SUFFICES ASSUME nonce[b] = 0 PROVE FALSE
    BY <1>0
  <2>1. PICK p \in pool : p.bee = b /\ p.nonce = 0
    BY <1>2, <1>5
  <2>. QED
    BY <2>1 DEF PooledOf
<1>. QED
  BY <1>1, <1>4, <1>5, <1>6, <1>7 DEF Unbroken, Contiguous, PooledOf

(***************************************************************************)
(* UnbrokenIsSynced, in the state that a step leads to.                    *)
(***************************************************************************)
LEMMA SyncedNext ==
    (Typing => \A b \in Bees : Unbroken(b) => Synced(b))'
<1>1. Typing => \A b \in Bees : Unbroken(b) => Synced(b)
  BY UnbrokenIsSynced
<1>. QED
  BY <1>1, PTL

-----------------------------------------------------------------------------
(***************************************************************************)
(* The status check, for a node whose answers to polls arrive.  A          *)
(* transaction that has left the pool does not come back, because its bee  *)
(* has counted its nonce as used.                                          *)
(***************************************************************************)
Followed == {"hashed", "confirmed", "failed", "timedOut"} \cup CheckStages

FollowsCounted == \A c \in Calls, b \in Bees :
    stage[c][b] \in Followed /\ hash[c][b] # NullHash =>
        hash[c][b].bee = b /\ hash[c][b].nonce < pendingNonce[b]

SeenGone == \A c \in Calls, b \in Bees :
    stage[c][b] \in {"receipt", "failed"} /\ hash[c][b] # NullHash => hash[c][b] \notin pool

Checks == FollowsCounted /\ SeenGone

(* Sends are counted before they are followed, and only a poll that found  *)
(* the transaction gone ends the loop.                                     *)
LEMMA GoroutineChecks ==
    ASSUME Typing, Exclusion, Nonces, Checks, "pollError" \notin Faults,
           NEW c \in Calls, NEW b \in Bees, Goroutine(c, b)
    PROVE  Checks'
<1>. USE DEF Typing, TypeOK, Checks
<1>1. PICK s \in Stages : stage' = [stage EXCEPT ![c][b] = s]
  BY DEF Goroutine, Sign, SendAccepted, SendFailed, Increment, Panic, WaitTimeElapses, PollDone,
         PollTimesOut, FetchReceipt, To, Stages, SendStages, CheckStages, EndStages
<1>2. \A d \in Calls, e \in Bees :
          d # c \/ e # b => stage'[d][e] = stage[d][e] /\ hash'[d][e] = hash[d][e]
  BY DEF Goroutine, Sign, SendAccepted, SendFailed, Increment, Panic, WaitTimeElapses, PollDone,
         PollTimesOut, FetchReceipt, To
<1>3. \A e \in Bees : /\ pendingNonce'[e] \in {pendingNonce[e], pendingNonce[e] + 1}
                      /\ \A p \in pool' : p.bee = e /\ p.nonce # pendingNonce[e] => p \in pool
  BY GoroutineOfBee
<1>4. \A e \in Bees : pendingNonce[e] \in Nat /\ pendingNonce[e] <= pendingNonce'[e]
  BY <1>3
<1>5. \A d \in Calls, e \in Bees : hash[d][e] # NullHash => hash[d][e] \in Tx /\ hash[d][e].nonce \in Nat
  BY DEF Tx
<1>6. ASSUME NEW d \in Calls, NEW e \in Bees, d # c \/ e # b, hash[d][e] # NullHash
      PROVE  /\ stage[d][e] \in Followed => hash[d][e].bee = e /\ hash[d][e].nonce < pendingNonce'[e]
             /\ stage[d][e] \in {"receipt", "failed"} => hash[d][e] \notin pool'
  <2>1. stage[d][e] \in Followed => hash[d][e].bee = e /\ hash[d][e].nonce < pendingNonce[e]
    BY <1>6 DEF FollowsCounted
  <2>2. {"receipt", "failed"} \subseteq Followed
    BY DEF Followed, CheckStages
  <2>3. stage[d][e] \in {"receipt", "failed"} => hash[d][e] \notin pool
    BY <1>6 DEF SeenGone
  <2>4. stage[d][e] \in Followed => hash[d][e].nonce < pendingNonce'[e] /\ hash[d][e].nonce # pendingNonce[e]
    <3>1. \A i, j, k \in Nat : i < j /\ j <= k => i < k /\ i # j
      OBVIOUS
    <3>2. pendingNonce'[e] \in Nat
      BY <1>3, <1>4
    <3>. QED
      BY <1>4, <1>5, <1>6, <2>1, <3>1, <3>2
  <2>. QED
    BY <1>3, <2>1, <2>2, <2>3, <2>4
<1>7. hash'[c][b] # NullHash /\ stage'[c][b] \in Followed =>
          hash'[c][b].bee = b /\ hash'[c][b].nonce < pendingNonce'[b]
  <2>1. CASE Sign(c, b) \/ SendAccepted(c, b) \/ SendFailed(c, b) \/ Panic(c, b)
    BY <2>1 DEF Sign, SendAccepted, SendFailed, Panic, To, Followed, CheckStages
  <2>2. CASE Increment(c, b)
    <3>1. hash[c][b].bee = b /\ hash[c][b].nonce = pendingNonce[b]
          /\ hash' = hash /\ pendingNonce'[b] = pendingNonce[b] + 1
      BY <2>2 DEF Increment, AfterSend, SignedByBee, Nonces, NonceOfSend
    <3>. QED
      BY <1>4, <3>1
  <2>3. CASE \/ WaitTimeElapses(c, b) \/ PollDone(c, b) \/ PollTimesOut(c, b) \/ FetchReceipt(c, b)
    <3>1. stage[c][b] \in Followed /\ hash' = hash /\ pendingNonce' = pendingNonce
      BY <2>3 DEF WaitTimeElapses, PollDone, PollTimesOut, FetchReceipt, Followed, CheckStages
    <3>. QED
      BY <3>1 DEF FollowsCounted
  <2>. QED
    BY <2>1, <2>2, <2>3 DEF Goroutine
<1>8. hash'[c][b] # NullHash /\ stage'[c][b] \in {"receipt", "failed"} => hash'[c][b] \notin pool'
  <2>1. CASE \/ Sign(c, b) \/ SendAccepted(c, b) \/ SendFailed(c, b) \/ Increment(c, b) \/ Panic(c, b)
             \/ WaitTimeElapses(c, b) \/ PollTimesOut(c, b)
    BY <2>1 DEF Sign, SendAccepted, SendFailed, Increment, Panic, WaitTimeElapses, PollTimesOut, To
  <2>2. CASE PollDone(c, b)
    BY <2>2 DEF PollDone, PollEndsLoop, chain
  <2>3. CASE FetchReceipt(c, b)
    BY <2>3 DEF FetchReceipt, chain, SeenGone
  <2>. QED
    BY <2>1, <2>2, <2>3 DEF Goroutine
<1>9. ASSUME NEW d \in Calls, NEW e \in Bees, hash'[d][e] # NullHash
      PROVE  /\ stage'[d][e] \in Followed => hash'[d][e].bee = e /\ hash'[d][e].nonce < pendingNonce'[e]
             /\ stage'[d][e] \in {"receipt", "failed"} => hash'[d][e] \notin pool'
  <2>1. CASE d = c /\ e = b
    BY ONLY <1>7, <1>8, <1>9, <2>1
  <2>2. CASE d # c \/ e # b
    <3>1. stage'[d][e] = stage[d][e] /\ hash'[d][e] = hash[d][e]
      BY <1>2, <2>2
    <3>. QED
      BY ONLY <1>6, <1>9, <2>2, <3>1
  <2>. QED
    BY <2>1, <2>2
<1>. QED
  BY ONLY <1>9 DEF Checks, FollowsCounted, SeenGone

(* Only a hash that stands for nothing fails without a poll.               *)
LEMMA SnipeChecks ==
    ASSUME Typing, Checks, NEW c \in Calls, Call(c) \/ Snipe(c)
    PROVE  Checks'
<1>1. UNCHANGED <<hash, pendingNonce, pool>>
  BY DEF Call, Snipe, Lock, StartChecks, Return, chain
<1>2. ASSUME NEW d \in Calls, NEW b \in Bees, hash[d][b] # NullHash
      PROVE  /\ stage'[d][b] \in Followed => stage[d][b] \in Followed
             /\ stage'[d][b] \in {"receipt", "failed"} => stage'[d][b] = stage[d][b]
  <2>1. CASE Call(c) \/ Return(c)
    BY <2>1 DEF Call, Return
  <2>2. CASE Lock(c)
    BY <2>2 DEF Lock, Typing, TypeOK, Followed, CheckStages
  <2>3. CASE StartChecks(c)
    <3>1. \A e \in Bees : stage'[c][e] = IF stage[c][e] = "hashed" THEN CheckStart(hash[c][e]) ELSE stage[c][e]
      BY <2>3 DEF StartChecks, Typing, TypeOK
    <3>2. d # c => stage'[d] = stage[d]
      BY <2>3 DEF StartChecks, Typing, TypeOK
    <3>. QED
      BY <1>2, <3>1, <3>2 DEF CheckStart, Followed
  <2>. QED
    BY <2>1, <2>2, <2>3 DEF Snipe
<1>. QED
  BY <1>1, <1>2 DEF Checks, FollowsCounted, SeenGone

(***************************************************************************)
(* "fail fast after waittime", when polls are answered: a check fails on a *)
(* transaction that has left the pool or was never sent; on one the node   *)
(* still holds it only times out.                                          *)
(***************************************************************************)
THEOREM FailsOnlyWhenGone ==
    ASSUME "pollError" \notin Faults
    PROVE  Spec => []GivesUpAfterWaitTime
<1>1. Init => Checks
  BY DEF Init, Checks, FollowsCounted, SeenGone, Followed, CheckStages
<1>2. Typing /\ Exclusion /\ Nonces /\ Checks /\ [Next]_vars => Checks'
  <2>. SUFFICES ASSUME Typing, Exclusion, Nonces, Checks, [Next]_vars PROVE Checks'
    OBVIOUS
  <2>1. CASE Restart
    BY <2>1 DEF Restart, Checks, FollowsCounted, SeenGone, Followed, CheckStages
  <2>2. CASE Chain \/ UNCHANGED vars
    <3>1. UNCHANGED <<stage, hash, pendingNonce>> /\ pool' \subseteq pool
      BY <2>2 DEF Chain, Mine, Drop, MineLiquidity, ConfigureOrder, vars, swarm, chain
    <3>. QED
      BY <3>1 DEF Checks, FollowsCounted, SeenGone
  <2>. QED
    BY <2>1, <2>2, GoroutineChecks, SnipeChecks DEF Next
<1>3. Checks => GivesUpAfterWaitTime
  BY DEF Checks, SeenGone, GivesUpAfterWaitTime
<1>. QED
  BY <1>1, <1>2, <1>3, NoncesAreInvariant, PTL DEF Spec
=============================================================================
