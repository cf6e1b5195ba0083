----------------------------- MODULE SnipeOrder -----------------------------
(***************************************************************************)
(* What the Trigger contract promises about the orders its owner           *)
(* configures, independently of balances, pools and routers: an order is   *)
(* armed by configureSnipe, filled by the one snipeListing that does not   *)
(* revert, and stays filled until the owner configures the next one.       *)
(*                                                                         *)
(* Trigger implements this specification; Sniper and the modules above it  *)
(* use it in place of the contract.                                        *)
(***************************************************************************)
EXTENDS Naturals

VARIABLES phase,   \* of the current order
          orders,  \* orders configured so far
          fills    \* calls of snipeListing that did not revert

ovars == <<phase, orders, fills>>

Phases == {"unarmed", "armed", "filled"}

Init ==
    /\ phase = "unarmed"
    /\ orders = 0
    /\ fills = 0

(* configureSnipe: whatever the phase, the lock is cleared. *)
Arm ==
    /\ phase' = "armed"
    /\ orders' = orders + 1
    /\ UNCHANGED fills

(* Mutated form of Fill: the lock is checked but not taken. *)
FillUnlocked ==
    /\ phase = "armed"
    /\ fills' = fills + 1
    /\ UNCHANGED <<phase, orders>>

(* A snipeListing that finds the lock open and takes it. *)
Fill ==
    /\ phase = "armed"
    /\ phase' = "filled"
    /\ fills' = fills + 1
    /\ UNCHANGED orders

Next == Arm \/ Fill

Spec == Init /\ [][Next]_ovars
=============================================================================
