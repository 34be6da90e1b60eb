-------------------------- MODULE MCRelationSetup --------------------------
(* Single fields with all combinations of tags, and structs with several fields. *)
EXTENDS RelationSetup, TLC

ID == <<"ID">>
Nm == <<"Name">>
X  == <<"X">>
T(n) == <<"T">> \o n
G(n) == <<"F">> \o n

Plain == [kind |-> "slice", name |-> "F", inline |-> FALSE, excluded |-> FALSE, tag |-> "none",
          fk |-> <<>>, ak |-> <<>>, m2m |-> FALSE, poly |-> None, to |-> [fields |-> {}, primary |-> <<>>]]

\* One field: every set of keys in the related struct, and tags in and out of step.
Foreign  == {<<>>, <<T(ID)>>, <<X>>, <<G(ID)>>, <<X, T(ID)>>, <<T(ID), X>>, <<T(ID), T(Nm)>>, <<X, G(ID)>>}
Assoc    == {<<>>, <<ID>>, <<X, ID>>, <<ID, Nm>>, <<ID, X, Nm>>, <<X, ID, Nm>>}
Related  == {[fields |-> fs \cup ToSet(ks), primary |-> ks] :
                fs \in SUBSET {T(ID), T(Nm), X, ID}, ks \in {<<>>, <<ID>>, <<ID, Nm>>}}
Single   ==
    {[type |-> "T", fields |-> fs \cup ToSet(ks), primary |-> ks,
      rels |-> <<[Plain EXCEPT !.kind = kind, !.tag = IF fk = <<>> THEN "none" ELSE "fk", !.fk = fk, !.ak = ak, !.to = to]>>] :
       fs \in {{ID, Nm}, {ID, Nm, G(ID)}, {ID, Nm, G(ID), X}}, ks \in {<<>>, <<ID>>, <<ID, Nm>>},
       kind \in {"slice", "struct"}, fk \in Foreign, ak \in Assoc, to \in Related}

\* Several fields: children, INLINE slices, and what fails or panics in between.
Linked  == [fields |-> {ID, T(ID), <<"Parent", "ID">>}, primary |-> <<ID>>]
Several ==
    {[Plain EXCEPT !.kind = "struct", !.inline = TRUE, !.to = Linked],
     [Plain EXCEPT !.inline = TRUE, !.to = Linked],
     [Plain EXCEPT !.inline = TRUE, !.to.fields = {ID}, !.to.primary = <<ID>>],
     [Plain EXCEPT !.kind = "embedded", !.to = Linked],
     [Plain EXCEPT !.excluded = TRUE, !.to = Linked],
     [Plain EXCEPT !.tag = "fkc", !.to = Linked],
     [Plain EXCEPT !.tag = "fkc", !.m2m = TRUE, !.to = Linked],
     [Plain EXCEPT !.tag = "both", !.fk = <<T(ID)>>, !.to = Linked],
     [Plain EXCEPT !.poly = "O", !.to.fields = {ID, <<"O", "ID">>, <<"O", "Type">>}, !.to.primary = <<ID>>]}
Childish == {f \in Several : f.inline /\ f.to = Linked}
Lists    == UNION {[1 .. n -> Several] : n \in 1 .. 4} \cup UNION {[1 .. n -> Childish] : n \in 5 .. 7}

MCShapes == Single \cup {[type |-> "T", fields |-> {ID}, primary |-> <<ID>>, rels |-> rels] : rels \in Lists}
=============================================================================
