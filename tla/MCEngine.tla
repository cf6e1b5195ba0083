------------------------------ MODULE MCEngine ------------------------------
(***************************************************************************)
(* Engine with two hashes, both of additions, and two blocks with two      *)
(* additions and with one among other transactions.                        *)
(***************************************************************************)
EXTENDS ClusteredEngine, TLC

Chain == ("h1" :> <<"addition">>) @@ ("h2" :> <<"addition">>)
      @@ ("b1" :> <<"addition", "deploy", "addition">>) @@ ("b2" :> <<"other", "addition">>)
=============================================================================
