------------------------- MODULE MCAssociationMode -------------------------
(* Two handles of one source: a value linked already, which both have objects  *)
(* of, and new ones passed by pointer and by value.                            *)
EXTENDS AssociationMode, TLC

CONSTANTS h1, h2, linked, again, new, copied, text

MCOwn   == h1 :> {linked, new, text} @@ h2 :> {again, copied}
MCKeyOf == linked :> 1 @@ again :> 1 @@ new :> 0 @@ copied :> 0 @@ text :> 0
MCCalls == h1 :> 2 @@ h2 :> 1
=============================================================================
