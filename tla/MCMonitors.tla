----------------------------- MODULE MCMonitors -----------------------------
(***************************************************************************)
(* Monitors with three transactions: a whale's, one of exactly the minimum *)
(* that a watched address sent, and one whose sender is not recovered.     *)
(***************************************************************************)
EXTENDS Monitors, TLC

Values == ("e1" :> 6) @@ ("e2" :> 5) @@ ("e3" :> 4)

Senders == ("e1" :> "stranger") @@ ("e2" :> "team") @@ ("e3" :> Unsigned)

Minimums == {5, NoThreshold}
=============================================================================
