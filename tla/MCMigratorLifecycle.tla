------------------------ MODULE MCMigratorLifecycle ------------------------
(* A user with a profile and a join table, migrated with and without errors kept back. *)
EXTENDS MigratorLifecycle

CONSTANTS user, profile, languages

MCChildren == [t \in Type |-> IF t = user THEN <<profile>> ELSE <<>>]
MCJoins    == [t \in Type |-> IF t = user THEN {languages} ELSE {}]
MCBases    == {{}, {<<"table", user>>, <<"join", languages>>}}
F(does)    == [t |-> user, does |-> does]
MCPrograms == {<<F("strict")>>, <<F("swallow"), F("strict")>>, <<F("strict"), F("fail")>>}
=============================================================================
