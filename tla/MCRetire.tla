------------------------------ MODULE MCRetire ------------------------------
(* A memory with a history beside one that can do no more than be retired.     *)
EXTENDS Retire, TLC
CONSTANTS m1, m2
Versions == m1 :> 3 @@ m2 :> 2
ReadFacts == m1 :> 1 @@ m2 :> 0
=============================================================================
