--------------------------- MODULE RelationSetup ---------------------------
(***************************************************************************)
(* What the deferred part of ModelStruct.setup makes of a struct's slice   *)
(* and struct fields, the last one first: relations with their pairs of    *)
(* keys, children, and foreign key constraints of the related structs.     *)
(*                                                                         *)
(* A name is a sequence of parts: <<"ID">>, <<"User", "ID">>.  A field's   *)
(* column has its name.  Structs refer to each other by their fields:      *)
(*   kind      "slice", "struct", or "embedded", a relation that an        *)
(*             embedded struct has brought                                 *)
(*   inline    its type has no name; of a slice, its elements' type, or    *)
(*             INLINE is tagged                                            *)
(*   excluded  no struct is made of its type                               *)
(*   tag, fk   FOREIGNKEY, FKC or both, and the foreign keys they name     *)
(*   ak        ASSOCIATION_FOREIGNKEY                                      *)
(*   m2m, poly M2M; POLYMORPHIC or None                                    *)
(*   to        the related struct: [fields, primary]                       *)
(***************************************************************************)
EXTENDS Naturals, Sequences, FiniteSets, SequencesExt

CONSTANTS Shapes, \* structs: [type, fields, primary, rels]
          None

ASSUME ShapeAssumption ==
    \A s \in Shapes :
       /\ ToSet(s.primary) \subseteq s.fields
       /\ \A f \in ToSet(s.rels) : /\ f.kind \in {"slice", "struct", "embedded"}
                                   /\ f.tag \in {"none", "fk", "fkc", "both"}
                                   /\ f.tag = "none" => f.fk = <<>>
                                   /\ ToSet(f.to.primary) \subseteq f.to.fields

VARIABLES shape,       \* the struct
          k,           \* the field whose turn it is, 0 at the end
          rel,         \* rel[i]: the relation of field i, [kind, pairs]
          related,     \* RelatedFields
          constraints, \* fields that a ForeignKey of the related struct was made for
          arrays,      \* arrays of children, each as long as its capacity
          children,    \* Children: [arr, len]
          many,        \* HasManyChildren: [arr, len]
          err,         \* setup has failed
          panicked     \* a deferred function has panicked; the others still run

vars  == <<shape, k, rel, related, constraints, arrays, children, many, err, panicked>>
lists == <<arrays, children, many>>

NoRelation == [kind |-> "none", pairs |-> <<>>]

Init == /\ shape \in Shapes
        /\ k = Len(shape.rels)
        /\ rel = [i \in 1 .. k |-> NoRelation]
        /\ related = <<>> /\ constraints = <<>>
        /\ arrays = <<>>
        /\ children = [arr |-> 0, len |-> 0] /\ many = [arr |-> 0, len |-> 0]
        /\ err = FALSE /\ panicked = FALSE
-----------------------------------------------------------------------------
(* Keys *)

\* The prefix of foreign keys: POLYMORPHIC if the related struct has its Type field.
Prefix(f) == IF f.poly # None /\ <<f.poly, "Type">> \in f.to.fields THEN f.poly ELSE shape.type

With(p, ns)   == [i \in DOMAIN ns |-> <<p>> \o ns[i]]
FirstOf(ns)   == IF ns = <<>> THEN <<>> ELSE <<ns[1]>>
Known(ns, fs) == SelectSeq(ns, LAMBDA n : n \in fs)

\* The foreign keys f names that begin with p and go on with a field of fs, without p.
TrimmedOnly(f, p, fs, first) ==
    LET ns == SelectSeq(f.fk, LAMBDA n : Head(n) = p /\ Tail(n) \in fs)
    IN  [i \in DOMAIN ns |-> Tail(ns[i])]
Trimmed(f, p, fs, first) ==
    IF TrimmedOnly(f, p, fs, first) = <<>> /\ Len(f.fk) = 1 THEN first ELSE TrimmedOnly(f, p, fs, first)

\* Foreign and association keys, as tagged or made of each other: p, the prefix; primary,
\* the fields they are made of; fs, those association keys are looked up in; first, what a
\* single foreign key without p refers to.  Known association keys are appended to the
\* tagged ones they come from.
Keys(f, p, primary, fs, first) ==
    CASE f.fk = <<>> /\ f.ak = <<>> -> [fk |-> With(p, primary), ak |-> primary]
      [] f.fk = <<>> /\ f.ak # <<>> -> [fk |-> With(p, Known(f.ak, fs)), ak |-> f.ak \o Known(f.ak, fs)]
      [] f.fk # <<>> /\ f.ak = <<>> -> [fk |-> f.fk, ak |-> Trimmed(f, p, fs, first)]
      [] f.fk # <<>> /\ f.ak # <<>> -> [fk |-> f.fk, ak |-> f.ak]

HasManyKeys(f)   == Keys(f, Prefix(f), shape.primary, shape.fields, FirstOf(shape.primary))
HasOneKeys(f)    == Keys(f, Prefix(f), shape.primary, shape.fields, FirstOf(f.to.primary))
BelongsToKeysByType(f) == Keys(f, shape.type, f.to.primary, ToSet(f.to.primary), FirstOf(f.to.primary))
BelongsToKeys(f) == Keys(f, f.name, f.to.primary, ToSet(f.to.primary), FirstOf(f.to.primary))

\* The keys are paired by position; a foreign key that is no field is passed over before
\* its association key is looked at.
Pairs(ks, fkIn, akIn) ==
    LET both == [i \in DOMAIN ks.fk |-> <<ks.fk[i], IF i \in DOMAIN ks.ak THEN ks.ak[i] ELSE <<>>>>]
    IN  SelectSeq(both, LAMBDA pair : pair[1] \in fkIn /\ pair[2] \in akIn)

\* Tags of different lengths are an error; an index out of range, or the first primary field
\* of a struct that has none, is a panic.
Mismatch(f) == f.fk # <<>> /\ f.ak # <<>> /\ Len(f.fk) # Len(f.ak)
OutOfRange(f, ks, fkIn) == \/ \E i \in DOMAIN ks.fk : ks.fk[i] \in fkIn /\ i \notin DOMAIN ks.ak
                           \/ Len(f.fk) = 1 /\ f.ak = <<>> /\ ks.ak = <<>>
-----------------------------------------------------------------------------
Turn(kinds) == k > 0 /\ shape.rels[k].kind \in kinds
F           == shape.rels[k]
Fresh       == ~err /\ ~F.excluded
Pass        == k' = k - 1 /\ UNCHANGED shape
Gets(kind, pairs) == /\ rel' = [rel EXCEPT ![k] = [kind |-> kind, pairs |-> pairs]]
                     /\ related' = Append(related, k)
GetsNone    == UNCHANGED <<rel, related>>
Calm        == UNCHANGED <<err, panicked>>

\* A relation of an embedded struct is RelatedFields' even after an error.
Inherit == /\ Turn({"embedded"})
           /\ Gets("inherited", <<>>)
           /\ Pass /\ Calm /\ UNCHANGED <<constraints, lists>>

\* Fields left over after an error, and one whose type makes an error.
Skip == /\ Turn({"slice", "struct"})
        /\ err \/ F.excluded
        /\ err' = TRUE
        /\ Pass /\ GetsNone /\ UNCHANGED <<constraints, lists, panicked>>

\* append.
NewCap(n) == IF n = 0 THEN 1 ELSE 2 * n
Appended(s, c) ==
    IF s.arr # 0 /\ s.len < Len(arrays[s.arr])
    THEN [arrays |-> [arrays EXCEPT ![s.arr][s.len + 1] = c], slice |-> [s EXCEPT !.len = @ + 1]]
    ELSE [arrays |-> Append(arrays, [i \in 1 .. NewCap(s.len) |->
                        IF i <= s.len THEN arrays[s.arr][i] ELSE IF i = s.len + 1 THEN c ELSE 0]),
          slice  |-> [arr |-> Len(arrays) + 1, len |-> s.len + 1]]

\* addChildField gives the child its own primary fields: those of its parent.
IsChild(f) == (f.inline /\ shape.primary # <<>>) \/ f.to.primary = <<>>
ChildFieldOfMany ==
    /\ Turn({"struct"}) /\ Fresh /\ IsChild(F)
    /\ LET a == Appended(many, k) IN arrays' = a.arrays /\ children' = a.slice
    /\ Gets("child", [i \in DOMAIN shape.primary |-> <<shape.primary[i], shape.primary[i]>>])
    /\ Pass /\ Calm /\ UNCHANGED <<constraints, many>>
ChildField ==
    /\ Turn({"struct"}) /\ Fresh /\ IsChild(F)
    /\ LET a == Appended(children, k) IN arrays' = a.arrays /\ children' = a.slice
    /\ Gets("child", [i \in DOMAIN shape.primary |-> <<shape.primary[i], shape.primary[i]>>])
    /\ Pass /\ Calm /\ UNCHANGED <<constraints, many>>

\* addChildSliceField: the element needs a primary field, and a Parent field for each of its
\* parent's.  HasManyChildren becomes Children and the new struct.
ChildSlice ==
    /\ Turn({"slice"}) /\ Fresh /\ F.inline
    /\ IF F.to.primary = <<>> THEN err' = TRUE /\ GetsNone /\ UNCHANGED lists
       ELSE /\ LET a == Appended(children, k) IN arrays' = a.arrays /\ many' = a.slice
            /\ UNCHANGED children
            /\ IF ToSet(With("Parent", shape.primary)) \subseteq F.to.fields
               THEN Gets("childslice", [i \in DOMAIN shape.primary |-> <<<<"Parent">> \o shape.primary[i], shape.primary[i]>>])
                    /\ UNCHANGED err
               ELSE err' = TRUE /\ GetsNone
    /\ Pass /\ UNCHANGED <<constraints, panicked>>

\* FOREIGNKEY besides FKC.
TagTwice == /\ Turn({"slice"}) /\ Fresh /\ ~F.inline /\ F.tag = "both"
            /\ panicked' = TRUE
            /\ Pass /\ GetsNone /\ UNCHANGED <<constraints, lists, err>>

\* The related struct gets a ForeignKey before anything is known of the relation.
Constrain == constraints' = IF F.tag = "none" THEN constraints ELSE Append(constraints, k)

\* The keys of the join table, those that are fields.
ManyToMany ==
    /\ Turn({"slice"}) /\ Fresh /\ ~F.inline /\ F.tag # "both" /\ F.m2m
    /\ Constrain
    /\ Gets("many_to_many", <<Known(IF F.fk = <<>> THEN shape.primary ELSE F.fk, shape.fields),
                              Known(IF F.ak = <<>> THEN F.to.primary ELSE F.ak, F.to.fields)>>)
    /\ Pass /\ Calm /\ UNCHANGED lists

\* What becomes of keys: an error, a panic, a relation, or nothing.
Relate(kind, ks, fkIn, akIn) ==
    /\ err' = Mismatch(F)
    /\ panicked' = (panicked \/ (~Mismatch(F) /\ OutOfRange(F, ks, fkIn)))
    /\ IF Mismatch(F) \/ OutOfRange(F, ks, fkIn) \/ Pairs(ks, fkIn, akIn) = <<>> THEN GetsNone
       ELSE Gets(kind, Pairs(ks, fkIn, akIn))

HasManyWhole ==
    /\ Turn({"slice"}) /\ Fresh /\ ~F.inline /\ F.tag # "both" /\ ~F.m2m
    /\ Constrain
    /\ LET ks == HasManyKeys(F)
       IN  IF Len(Pairs(ks, F.to.fields, shape.fields)) < Len(ks.fk) THEN GetsNone /\ Calm
           ELSE Relate("has_many", ks, F.to.fields, shape.fields)
    /\ Pass /\ UNCHANGED lists
HasMany ==
    /\ Turn({"slice"}) /\ Fresh /\ ~F.inline /\ F.tag # "both" /\ ~F.m2m
    /\ Constrain
    /\ Relate("has_many", HasManyKeys(F), F.to.fields, shape.fields)
    /\ Pass /\ UNCHANGED lists

\* A struct field is tried as has_one, and as belongs_to if that gives no pair.
OneFails(f) == Mismatch(f) \/ OutOfRange(f, HasOneKeys(f), f.to.fields)
OnePairs(f) == Pairs(HasOneKeys(f), f.to.fields, shape.fields)

HasOne ==
    /\ Turn({"struct"}) /\ Fresh /\ ~IsChild(F)
    /\ OneFails(F) \/ OnePairs(F) # <<>>
    /\ Relate("has_one", HasOneKeys(F), F.to.fields, shape.fields)
    /\ Pass /\ UNCHANGED <<constraints, lists>>

BelongsTo ==
    /\ Turn({"struct"}) /\ Fresh /\ ~IsChild(F)
    /\ ~OneFails(F) /\ OnePairs(F) = <<>>
    /\ Relate("belongs_to", BelongsToKeys(F), shape.fields, F.to.fields)
    /\ Pass /\ UNCHANGED <<constraints, lists>>

Next == \/ Inherit \/ Skip \/ ChildField \/ ChildSlice \/ TagTwice \/ ManyToMany
        \/ HasMany \/ HasOne \/ BelongsTo
Spec == Init /\ [][Next]_vars
-----------------------------------------------------------------------------
(* Correctness *)

Elems(s) == {arrays[s.arr][i] : i \in 1 .. s.len}
Done     == k + 1 .. Len(shape.rels)
Of(kind) == {i \in Done : rel[i].kind = kind}

\* Types of the variables; RelatedFields has each field that has a relation, once.
TypeOK == /\ k \in 0 .. Len(shape.rels) /\ DOMAIN rel = 1 .. Len(shape.rels)
          /\ \A i \in 1 .. k : rel[i] = NoRelation
          /\ IsInjective(related) /\ ToSet(related) = {i \in Done : rel[i] # NoRelation}
          /\ ToSet(constraints) \subseteq Done
          /\ \A s \in {children, many} : s.arr \in 0 .. Len(arrays) /\ 0 \notin Elems(s)
          /\ Elems(children) = Of("child")
          /\ err \in BOOLEAN /\ panicked \in BOOLEAN

\* A foreign key from which an association key is told.
Tells(n, p, fs) == Head(n) = p /\ Tail(n) \in fs

\* The pairs the tags and names say, of foreign keys in fkIn that begin with p and
\* association keys in fs.
Expected(f, p, primary, fkIn, fs, first) ==
    LET said == CASE f.fk = <<>> /\ f.ak = <<>> -> {<<<<p>> \o n, n>> : n \in ToSet(primary)}
                  [] f.fk = <<>> /\ f.ak # <<>> -> {<<<<p>> \o n, n>> : n \in ToSet(f.ak)}
                  [] f.fk # <<>> /\ f.ak # <<>> -> ToSet(Zip(f.fk, f.ak))
                  [] Len(f.fk) = 1 /\ f.ak = <<>> /\ ~Tells(f.fk[1], p, fs) -> {<<f.fk[1], n>> : n \in ToSet(first)}
                  [] OTHER -> {<<n, Tail(n)>> : n \in {m \in ToSet(f.fk) : Tells(m, p, fs)}}
    IN  said \cap (fkIn \X fs)

\* Among the tagged keys one that tells nothing comes before one that does.
Skewed(f, p, fs) ==
    \/ f.fk = <<>> /\ \E i, j \in DOMAIN f.ak : i < j /\ f.ak[i] \notin fs /\ f.ak[j] \in fs
    \/ f.ak = <<>> /\ \E i, j \in DOMAIN f.fk : i < j /\ ~Tells(f.fk[i], p, fs) /\ Tells(f.fk[j], p, fs)

HasManyAsSaid(i) ==
    LET f == shape.rels[i]
    IN  Expected(f, Prefix(f), shape.primary, f.to.fields, shape.fields, FirstOf(shape.primary))

\* A relation has the pairs of keys that its tags and the names of fields say, unless tagged
\* keys are skewed: setup pairs keys by position, in lists it has filtered one by one.
KeysPairUp ==
    /\ \A i \in Of("has_many") :
          LET f == shape.rels[i]
          IN  Skewed(f, Prefix(f), shape.fields) \/ ToSet(rel[i].pairs) = HasManyAsSaid(i)
    /\ \A i \in Of("has_one") :
          LET f == shape.rels[i]
          IN  \/ Skewed(f, Prefix(f), shape.fields)
              \/ ToSet(rel[i].pairs) = Expected(f, Prefix(f), shape.primary, f.to.fields, shape.fields, FirstOf(f.to.primary))
    /\ \A i \in Of("belongs_to") :
          LET f == shape.rels[i] fs == ToSet(f.to.primary)
          IN  \/ Skewed(f, f.name, fs)
              \/ ToSet(rel[i].pairs) = Expected(f, f.name, f.to.primary, shape.fields, fs, FirstOf(f.to.primary))

\* setup panics only over a field that has FOREIGNKEY besides FKC, or several foreign keys of
\* which one tells no association key, or one when the struct has no primary field.
PanicsOnlyOverTags ==
    panicked => \E i \in Done :
        LET f == shape.rels[i]
        IN  \/ f.tag = "both"
            \/ /\ f.ak = <<>> /\ Len(f.fk) > 1
               /\ \E n \in ToSet(f.fk) : \A p \in {Prefix(f), f.name} : ~Tells(n, p, shape.fields \cap ToSet(f.to.primary))
            \/ f.ak = <<>> /\ Len(f.fk) = 1 /\ shape.primary = <<>>

\* The related fields and children fit the relations so far, and what makes setup panic is a
\* field's tags.
Inv == TypeOK /\ PanicsOnlyOverTags

\* A foreign key constraint is of a field that turns out to be a has_many relation, unless it
\* is many_to_many or none of its keys is a field: the post handler then defines the
\* constraint of no relation (ForeignKey.Definition), which panics, or of the wrong kind.
ConstraintHasRelation ==
    ~err /\ ~panicked =>
        \A i \in ToSet(constraints) :
           LET f == shape.rels[i]
           IN  \/ Skewed(f, Prefix(f), shape.fields)
               \/ i \in Of("has_many") <=> ~f.m2m /\ HasManyAsSaid(i) # {}

\* createChildrenTables makes the tables of Children and HasManyChildren.  A child is among
\* them, and so is an INLINE slice's struct unless another slice is declared before it, or
\* it has shared the array of 3, 5, 6 or 7 children with a child declared before it.
ChildrenKept ==
    /\ Of("child") \subseteq Elems(children)
    /\ \A i \in Of("childslice") \ Elems(many) :
          \/ \E j \in Done : j < i /\ shape.rels[j].kind = "slice" /\ shape.rels[j].inline
          \/ /\ \E j \in Of("child") : j < i
             /\ Cardinality({j \in Of("child") : j > i}) \in {3, 5, 6, 7}
=============================================================================
