--------------------------- MODULE MonitorPromise ---------------------------
(***************************************************************************)
(* What MonitorEngine promises of the transactions it is given: each is    *)
(* shown to the monitors one after the other and to none of them twice; it *)
(* is given up only if a monitor may panic; and nobody is left waiting.    *)
(***************************************************************************)
EXTENDS Naturals, Sequences

CONSTANTS
    Entries,    \* transactions the engine may be given
    Lists       \* lists of monitors it may be built with

VARIABLES
    list,       \* the monitors, in the order they are called
    fragile,    \* one of them may panic
    runs,       \* of each transaction, the monitors that have seen it
    status      \* of each transaction

vars == <<list, fragile, runs, status>>

Statuses == {"absent", "accepted", "finished", "abandoned"}

Init ==
    /\ list \in Lists
    /\ fragile \in BOOLEAN
    /\ runs = [e \in Entries |-> <<>>]
    /\ status = [e \in Entries |-> "absent"]

(* A monitor engine without monitors accepts nothing.                      *)
Accept(e) ==
    /\ list # <<>>
    /\ status[e] = "absent"
    /\ status' = [status EXCEPT ![e] = "accepted"]
    /\ UNCHANGED <<list, fragile, runs>>

Seen(e) == Len(runs[e])

(* The next monitor in the list sees the transaction.                      *)
Pass(e) ==
    /\ status[e] = "accepted"
    /\ runs' = [runs EXCEPT ![e] = Append(@, list[Seen(e) + 1])]
    /\ status' = [status EXCEPT ![e] = IF Seen(e) + 1 = Len(list) THEN "finished" ELSE @]
    /\ UNCHANGED <<list, fragile>>

(* Transactions that are given up together are given up for good.          *)
Abandon(S) ==
    /\ fragile
    /\ \A e \in S : status[e] = "accepted"
    /\ status' = [e \in Entries |-> IF e \in S THEN "abandoned" ELSE status[e]]
    /\ UNCHANGED <<list, fragile, runs>>

Next ==
    \/ \E e \in Entries : Accept(e) \/ Pass(e)
    \/ \E S \in SUBSET Entries : Abandon(S)

Fairness == \A e \in Entries : WF_vars(Pass(e))

Spec == Init /\ [][Next]_vars

FairSpec == Spec /\ Fairness
=============================================================================
