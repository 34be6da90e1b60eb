-------------------------- MODULE MCCallbackLocks --------------------------
(* Two models, the second the virtual field of the first and saved by itself too. *)
EXTENDS CallbackLocks
CONSTANTS g1, g2
MCModels   == 1 .. 2
MCChildren == <<<<2>>, <<>>>>
MCGiven    == [m \in MCModels |-> [pos \in {"before", "after"} |-> IF (m = 1) = (pos = "before") THEN 1 ELSE 0]]
MCMaxDepth == g1 :> 2 @@ g2 :> 1
=============================================================================
