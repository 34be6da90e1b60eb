--------------------------- MODULE MCSearchChain ---------------------------
(* Chains that fork after none to five common conditions. *)
EXTENDS SearchChain

MCCommon == 0 .. 5
=============================================================================
