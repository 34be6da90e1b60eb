--------------------- MODULE ModelStructStorageProofs ---------------------
(***************************************************************************)
(* The safety of the storage of model structs, for all types, goroutines   *)
(* and bounds: the stacks of half built structs are in order, a shared     *)
(* type has one struct unless it becomes a child, and becomes one only if  *)
(* it was met before its key was known or has failed; what is returned     *)
(* has all its fields and relations until goroutines meet or setups fail.  *)
(***************************************************************************)
EXTENDS ModelStructStorage, SequenceTheorems, TLAPS

(* The inductive invariant *)

Built(i) == i \in 1 .. n /\ struct[i].phase \in Building

\* Only what exists is referred to; the map has structs of the right type.
Numbered ==
    /\ \A t \in Type : map[t] # 0 => map[t] <= n /\ struct[map[t]].type = t
    /\ \A p \in Proc : top[p] <= n /\ result[p] <= n
    /\ \A i \in 1 .. n : struct[i].caller < i

\* The structs that p is setting up are a chain from top[p] down, in the order of
\* their creation.
Stack ==
    /\ \A p \in Proc : top[p] # 0 => Built(top[p]) /\ struct[top[p]].by = p
    /\ \A i \in 1 .. n : Built(i) =>
          /\ i <= top[struct[i].by]
          /\ struct[i].caller # 0 => /\ Built(struct[i].caller)
                                     /\ struct[struct[i].caller].by = struct[i].by
          /\ i = top[struct[i].by] \/ \E j \in 1 .. n : Built(j) /\ struct[j].caller = i
    /\ \A i, j \in 1 .. n : /\ Built(i) /\ Built(j)
                            /\ struct[i].by = struct[j].by /\ i < j
                            => i <= struct[j].caller

\* The setup of i waits for a call, of its own or on top of it.
Waits(i) == i # top[struct[i].by] \/ ask[struct[i].by] # None

\* A struct that embeds no type, or whose key comes first, is seen with its key.
Scanned(s) == Embeds[s.type] # <<>> /\ (s.type \in KeyFirst => HasKey(s))

\* A setup waits in its scan or in a relation only.
Waiting ==
    \A i \in 1 .. n : Built(i) =>
        /\ Waits(i) => struct[i].phase \in {"scan", "relate"}
        /\ struct[i].phase = "scan" /\ (Waits(i) \/ struct[i].adopt # {}) => Scanned(struct[i])

\* The setup of s waits for the next of its fields, of this type, or for a child that it
\* adopts during its scan.
Awaits(s, type, isChild) == ~isChild \/ s.phase = "relate" => s.todo # <<>> /\ type = Head(s.todo)

\* What a call is made for.
Asking ==
    \A p \in Proc : ask[p] # None =>
        /\ top[p] = 0 => ~ask[p].isChild /\ ~ask[p].embedded
        /\ top[p] # 0 => Awaits(struct[top[p]], ask[p].type, ask[p].isChild)
        /\ ask[p].embedded => ask[p].type \in Fields(Embeds[struct[top[p]].type])
        /\ ask[p].isChild => ~ask[p].missed

\* What a struct is made for.
Called ==
    \A i \in 1 .. n :
        /\ Built(i) /\ struct[i].caller # 0 =>
              Awaits(struct[struct[i].caller], struct[i].type, struct[i].isChild)
        /\ struct[i].embedded => /\ struct[i].caller # 0
                                 /\ struct[i].type \in Fields(Embeds[struct[struct[i].caller].type])
        /\ struct[i].isChild => struct[i].caller # 0

\* What is true of each struct by itself.
Sound(s) ==
    /\ s.phase = "child" => s.isChild /\ s.adopt = {}
    /\ s.phase \in {"child", "scan"} => Fields(s.todo) \subseteq Fields(Embeds[s.type])
    /\ s.phase \in {"relate", "done"} /\ s.type \in Keyed => HasKey(s)
    /\ s.phase = "done" => s.indexed \/ s.embedded
    /\ s.adopt \subseteq s.kids

Alone == ~overlap => \A p, q \in Proc : Busy(p) /\ Busy(q) => p = q

\* A shared type that may become a child.
Excused(t) == t \in Shared => \/ t \notin KeyFirst /\ Embeds[t] # <<>>
                              \/ \E i \in 1 .. n : struct[i].type = t /\ struct[i].phase = "failed"

\* A child is made of t, has been or is being asked for.
MadeChild(t) == \/ \E p \in Proc : ask[p] # None /\ ask[p].isChild /\ ask[p].type = t
                \/ \E i \in 1 .. n : t \in struct[i].kids \/ (struct[i].isChild /\ struct[i].type = t)

\* As long as goroutines have not met: what is missed is not in the map, a shared type
\* being set up is, and children are made of excused types alone.
Unraced ==
    ~overlap =>
        /\ \A p \in Proc : ask[p] # None /\ ask[p].missed => map[ask[p].type] = 0
        /\ \A t \in Shared : ~HasChild(t) =>
              \A i \in 1 .. n : Built(i) /\ struct[i].type = t => map[t] = i
        /\ \A t \in Type : MadeChild(t) => Excused(t)

IInv == /\ TypeOK /\ Numbered /\ Stack /\ Waiting /\ Asking /\ Called
        /\ \A i \in 1 .. n : Sound(struct[i])
        /\ Alone /\ Unraced /\ HalfBuiltOnlyIfRacedOrFailed
-----------------------------------------------------------------------------
(* Tables of structs *)

Table(e, m) == /\ e \in [Id -> Struct \cup {None}]
               /\ \A i \in Id : IF i <= m THEN e[i] \in Struct ELSE e[i] = None

LEMMA TableFacts ==
    ASSUME TypeOK
    PROVE  Table(struct, n) /\ n \in Nat /\ n <= MaxStruct /\ \A i \in 1 .. n : i \in Id /\ struct[i] \in Struct
<1>1. MaxStruct \in Nat  BY BoundAssumption
<1>2. QED  BY <1>1 DEF TypeOK, Table, Id

\* e is the table f but for its i-th struct, x.
Puts(f, e, m, i, x) == Table(e, m) /\ e[i] = x /\ \A j \in 1 .. m : j # i => e[j] = f[j]

LEMMA TableSet ==
    ASSUME NEW m \in 0 .. MaxStruct, NEW f, Table(f, m), NEW i \in 1 .. m, NEW x \in Struct,
           NEW e, e = [f EXCEPT ![i] = x]
    PROVE  Puts(f, e, m, i, x)
<1>1. MaxStruct \in Nat  BY BoundAssumption
<1>2. f \in [Id -> Struct \cup {None}]  BY DEF Table
<1>3. i \in Id /\ i <= m /\ \A j \in 1 .. m : j \in Id  BY <1>1 DEF Id
<1>4. e \in [Id -> Struct \cup {None}]  BY <1>2
<1>5. e[i] = x /\ \A j \in Id : j # i => e[j] = f[j]  BY <1>2, <1>3
<1>6. \A j \in Id : IF j <= m THEN e[j] \in Struct ELSE e[j] = None  BY <1>3, <1>5 DEF Table
<1>7. QED  BY <1>3, <1>4, <1>5, <1>6 DEF Table, Puts

LEMMA StructFields ==
    ASSUME NEW s \in Struct
    PROVE  /\ s.type \in Type /\ s.phase \in Phases /\ s.caller \in 0 .. MaxStruct /\ s.by \in Proc
           /\ s.embedded \in BOOLEAN /\ s.isChild \in BOOLEAN /\ s.todo \in Seq(Type)
           /\ s.own \subseteq Type /\ s.rels \subseteq Type /\ s.kids \subseteq Type
           /\ s.adopt \subseteq Type /\ s.key \in Keys /\ s.rooted \in BOOLEAN /\ s.indexed \in BOOLEAN
BY DEF Struct

LEMMA FieldsOf ==
    ASSUME NEW q \in Seq(Type), q # <<>>
    PROVE  /\ Head(q) \in Type /\ Head(q) \in Fields(q)
           /\ Tail(q) \in Seq(Type) /\ Fields(Tail(q)) \subseteq Fields(q)
<1>1. Len(q) \in Nat /\ Len(q) # 0 /\ Head(q) = q[1]  OBVIOUS
<1>2. Len(Tail(q)) = Len(q) - 1 /\ \A i \in 1 .. Len(Tail(q)) : Tail(q)[i] = q[i + 1]
    BY HeadTailProperties
<1>3. Head(q) \in Fields(q)  BY <1>1 DEF Fields
<1>4. ASSUME NEW i \in 1 .. Len(Tail(q)) PROVE Tail(q)[i] \in Fields(q)
  <2>1. i + 1 \in 1 .. Len(q)  BY <1>1, <1>2
  <2>2. QED  BY <1>2, <2>1 DEF Fields
<1>5. Fields(Tail(q)) \subseteq Fields(q)  BY <1>4 DEF Fields
<1>6. Head(q) \in Type /\ Tail(q) \in Seq(Type)  BY HeadTailProperties
<1>7. QED  BY <1>3, <1>5, <1>6

LEMMA ReversedType == ASSUME NEW q \in Seq(Type) PROVE Reversed(q) \in Seq(Type)
<1>1. Len(q) \in Nat /\ \A i \in 1 .. Len(q) : q[i] \in Type  OBVIOUS
<1>2. \A i \in 1 .. Len(q) : Len(q) + 1 - i \in 1 .. Len(q)  BY <1>1
<1>3. Reversed(q) \in [1 .. Len(q) -> Type]  BY <1>1, <1>2 DEF Reversed
<1>4. QED  BY <1>1, <1>3

\* x is the struct s, at a later point of its setup.
Same(s, x) == /\ x.type = s.type /\ x.by = s.by /\ x.caller = s.caller
              /\ x.embedded = s.embedded /\ x.isChild = s.isChild

\* x is the struct s but for what its children have added to it.
Alike(s, x) == /\ Same(s, x)
               /\ x.phase = s.phase /\ x.todo = s.todo /\ x.adopt = s.adopt
               /\ x.key = s.key /\ x.indexed = s.indexed /\ s.kids \subseteq x.kids

\* x is the struct s after what setup does with the result of a call.
Goes(s, x) == /\ x \in Struct /\ Same(s, x)
              /\ x.phase \in {s.phase, "erring"} /\ x.indexed = s.indexed
              /\ Fields(x.todo) \subseteq Fields(s.todo)
              /\ HasKey(s) => HasKey(x)
              /\ s.adopt \subseteq s.kids => x.adopt \subseteq x.kids

LEMMA CopyFacts ==
    ASSUME NEW s \in Struct, NEW got \in Struct, s.todo # <<>>
    PROVE  /\ Goes(s, Copy(s, got)) /\ Copy(s, got).phase = s.phase
           /\ Copy(s, got).kids = s.kids \cup got.kids
<1>1. Tail(s.todo) \in Seq(Type) /\ Fields(Tail(s.todo)) \subseteq Fields(s.todo)  BY StructFields, FieldsOf
<1>2. /\ s.own \cup got.own \subseteq Type /\ s.rels \cup got.rels \subseteq Type
      /\ s.kids \cup got.kids \subseteq Type
      /\ (IF <<s.type, got.type>> \in Anonymous THEN got.kids ELSE {}) \subseteq s.kids \cup got.kids
    BY StructFields
<1>3. (IF got.key = "tagged" THEN "tagged" ELSE s.key) \in Keys  BY StructFields DEF Keys
<1> DEFINE own == s.own \cup got.own
           rels == s.rels \cup got.rels
           kids == s.kids \cup got.kids
           adopt == IF <<s.type, got.type>> \in Anonymous THEN got.kids ELSE {}
           key == IF got.key = "tagged" THEN "tagged" ELSE s.key
           todo == Tail(s.todo)
           x == [s EXCEPT !.own = own, !.rels = rels, !.kids = kids, !.adopt = adopt, !.key = key, !.todo = todo]
<1>4. Copy(s, got) = x  BY DEF Copy
<1>5. own \subseteq Type /\ rels \subseteq Type /\ kids \subseteq Type /\ adopt \subseteq kids /\ key \in Keys
      /\ todo \in Seq(Type)  BY <1>1, <1>2, <1>3
<1>6. Fields(todo) \subseteq Fields(s.todo)  BY <1>1
<1>7. s.key # "none" => key # "none"  OBVIOUS
<1> HIDE DEF own, rels, kids, adopt, key, todo
<1>8. x \in Struct  BY <1>5 DEF Struct
<1>9. /\ x.type = s.type /\ x.by = s.by /\ x.caller = s.caller /\ x.embedded = s.embedded
      /\ x.isChild = s.isChild /\ x.phase = s.phase /\ x.indexed = s.indexed
      /\ x.todo = todo /\ x.key = key /\ x.adopt = adopt /\ x.kids = kids
    BY DEF Struct
<1> HIDE DEF x
<1>10. QED  BY <1>4, <1>5, <1>6, <1>7, <1>8, <1>9 DEF Goes, Same, HasKey, kids

LEMMA ErringFacts ==
    ASSUME NEW s \in Struct
    PROVE  /\ Goes(s, [s EXCEPT !.phase = "erring"])
           /\ [s EXCEPT !.phase = "erring"].phase = "erring" /\ [s EXCEPT !.phase = "erring"].kids = s.kids
<1> DEFINE x == [s EXCEPT !.phase = "erring"]
<1>1. x \in Struct  BY DEF Struct, Phases
<1>2. /\ x.type = s.type /\ x.by = s.by /\ x.caller = s.caller /\ x.embedded = s.embedded
      /\ x.isChild = s.isChild /\ x.phase = "erring" /\ x.indexed = s.indexed
      /\ x.todo = s.todo /\ x.key = s.key /\ x.adopt = s.adopt /\ x.kids = s.kids
    BY DEF Struct
<1> HIDE DEF x
<1>3. QED  BY <1>1, <1>2 DEF Goes, Same, HasKey, x

LEMMA MergeFacts ==
    ASSUME NEW c, NEW s \in Struct, NEW got \in Struct, s.todo # <<>>, s.phase \in {"scan", "relate"}
    PROVE  /\ Goes(s, Merge(c, s, got))
           /\ Merge(c, s, got).kids \subseteq s.kids \cup got.kids
           /\ s.phase = "relate" /\ BecomesChild(c, s, Head(s.todo), got) => Merge(c, s, got) = s
<1>1. CASE s.phase = "scan"
  <2>1. Merge(c, s, got) = Copy(s, got)  BY <1>1 DEF Merge
  <2>2. QED  BY <1>1, <2>1, CopyFacts
<1>2. CASE s.phase # "scan" /\ TakenOver(s, Head(s.todo)) /\ ~HasKey(got)
  <2>1. Merge(c, s, got) = [s EXCEPT !.phase = "erring"]  BY <1>2 DEF Merge
  <2>2. ~BecomesChild(c, s, Head(s.todo), got)  BY <1>2 DEF TakenOver, BecomesChild
  <2>3. QED  BY <2>1, <2>2, ErringFacts
<1>3. CASE s.phase # "scan" /\ ~(TakenOver(s, Head(s.todo)) /\ ~HasKey(got)) /\ BecomesChild(c, s, Head(s.todo), got)
  <2>1. Merge(c, s, got) = s  BY <1>3 DEF Merge
  <2>2. QED  BY <2>1 DEF Goes, Same
<1>4. CASE s.phase # "scan" /\ ~(TakenOver(s, Head(s.todo)) /\ ~HasKey(got)) /\ ~BecomesChild(c, s, Head(s.todo), got)
  <2> DEFINE rels == s.rels \cup {Head(s.todo)}
             todo == Tail(s.todo)
             x == [s EXCEPT !.rels = rels, !.todo = todo]
  <2>1. Merge(c, s, got) = x  BY <1>4 DEF Merge
  <2>2. todo \in Seq(Type) /\ Fields(todo) \subseteq Fields(s.todo) /\ rels \subseteq Type
      BY StructFields, FieldsOf
  <2> HIDE DEF rels, todo
  <2>3. x \in Struct  BY <2>2 DEF Struct
  <2>4. /\ x.type = s.type /\ x.by = s.by /\ x.caller = s.caller /\ x.embedded = s.embedded
        /\ x.isChild = s.isChild /\ x.phase = s.phase /\ x.indexed = s.indexed
        /\ x.todo = todo /\ x.key = s.key /\ x.adopt = s.adopt /\ x.kids = s.kids
      BY DEF Struct
  <2> HIDE DEF x
  <2>5. QED  BY <1>4, <2>1, <2>2, <2>3, <2>4 DEF Goes, Same, HasKey
<1>5. QED  BY <1>1, <1>2, <1>3, <1>4
-----------------------------------------------------------------------------
(* What a return changes *)

LEMMA GoesSelf == ASSUME NEW s \in Struct PROVE Goes(s, s)
BY DEF Goes, Same

LEMMA ReturnTable ==
    ASSUME TypeOK, NEW p \in Proc, NEW c \in 0 .. n, NEW i \in 0 .. n, NEW ok \in BOOLEAN,
           NEW f, Table(f, n), Return(p, c, i, ok, f),
           c # 0 => f[c].phase \in {"scan", "relate"}, ok => i # 0,
           c # 0 /\ ok /\ ~Adopted(c, i, f) => f[c].todo # <<>>
    PROVE  /\ Table(struct', n)
           /\ \A j \in 1 .. n : j # c => struct'[j] = f[j]
           /\ c # 0 => /\ Goes(f[c], struct'[c])
                       /\ \A t \in struct'[c].kids : t \in f[c].kids \/ (i # 0 /\ t \in f[i].kids)
           /\ c # 0 /\ ok /\ f[c].phase = "relate" /\ BecomesChild(c, f[c], Head(f[c].todo), f[i])
              => struct'[c] = f[c]
<1>0. n \in 0 .. MaxStruct /\ \A j \in 1 .. n : f[j] \in Struct
    BY TableFacts DEF TypeOK, Table
<1>1. CASE c = 0 \/ Adopted(c, i, f)
  <2>1. struct' = f  BY <1>1 DEF Return
  <2>2. c # 0 => f[c].phase = "scan"  BY <1>1 DEF Adopted
  <2>3. QED  BY <1>0, <2>1, <2>2, GoesSelf
<1>2. CASE ~(c = 0 \/ Adopted(c, i, f)) /\ ok
  <2> DEFINE x == Merge(c, f[c], f[i])
  <2>1. struct' = [f EXCEPT ![c] = x]  BY <1>2 DEF Return
  <2>2. c \in 1 .. n /\ i \in 1 .. n /\ f[c] \in Struct /\ f[i] \in Struct  BY <1>0, <1>2
  <2>3. /\ Goes(f[c], x) /\ x.kids \subseteq f[c].kids \cup f[i].kids
        /\ f[c].phase = "relate" /\ BecomesChild(c, f[c], Head(f[c].todo), f[i]) => x = f[c]
      BY <1>2, <2>2, MergeFacts
  <2>4. x \in Struct  BY <2>3 DEF Goes
  <2> HIDE DEF x
  <2>5. Puts(f, struct', n, c, x)  BY <1>0, <2>1, <2>2, <2>4, TableSet
  <2>6. QED  BY <1>2, <2>2, <2>3, <2>5 DEF Puts
<1>3. CASE ~(c = 0 \/ Adopted(c, i, f)) /\ ~ok
  <2> DEFINE x == [f[c] EXCEPT !.phase = "erring"]
  <2>1. struct' = [f EXCEPT ![c] = x]  BY <1>3 DEF Return
  <2>2. c \in 1 .. n /\ f[c] \in Struct  BY <1>0, <1>3
  <2>3. Goes(f[c], x) /\ x.kids = f[c].kids  BY <2>2, ErringFacts
  <2>4. x \in Struct  BY <2>3 DEF Goes
  <2> HIDE DEF x
  <2>5. Puts(f, struct', n, c, x)  BY <1>0, <2>1, <2>2, <2>4, TableSet
  <2>6. QED  BY <1>3, <2>2, <2>3, <2>5 DEF Puts
<1>4. QED  BY <1>1, <1>2, <1>3

LEMMA NewCallType ==
    ASSUME NEW t \in Type, NEW embedded \in BOOLEAN, NEW isChild \in BOOLEAN
    PROVE  /\ NewCall(t, embedded, isChild) \in Call /\ NewCall(t, embedded, isChild) # None
           /\ NewCall(t, embedded, isChild).type = t
           /\ NewCall(t, embedded, isChild).embedded = embedded
           /\ NewCall(t, embedded, isChild).isChild = isChild
           /\ ~NewCall(t, embedded, isChild).missed
<1>1. NewCall(t, embedded, isChild) \in Call  BY DEF NewCall, Call
<1>2. None \notin Call  BY NoneAssumption
<1>3. QED  BY <1>1, <1>2 DEF NewCall

LEMMA NotShared ==
    ASSUME NEW s, NEW r \in Shared, s.type \in Type PROVE ~TakenOver(s, r)
BY DEF Shared, TakenOver

LEMMA ReturnRest ==
    ASSUME TypeOK, NEW p \in Proc, NEW c \in 0 .. n, NEW i \in 0 .. n, NEW ok \in BOOLEAN,
           NEW f, Table(f, n), Return(p, c, i, ok, f),
           c # 0 /\ ok /\ f[c].phase = "relate" => f[c].todo # <<>>
    PROVE  /\ ask' \in [Proc -> Call \cup {None}]
           /\ \A q \in Proc : q # p => ask'[q] = ask[q]
           /\ ask'[p] # None =>
                 /\ c # 0 /\ ok /\ f[c].phase = "relate" /\ f[c].todo # <<>>
                 /\ BecomesChild(c, f[c], Head(f[c].todo), f[i])
                 /\ ask'[p] = NewCall(Head(f[c].todo), FALSE, TRUE)
           /\ result' \in [Proc -> 0 .. MaxStruct]
           /\ \A q \in Proc : result'[q] # result[q] => q = p /\ c = 0 /\ ok /\ result'[q] = i
           /\ map' \in [Type -> 0 .. MaxStruct]
           /\ \A t \in Type : map'[t] = map[t] \/ (map'[t] = 0 /\ t \notin Shared)
<1>0. /\ n \in 0 .. MaxStruct /\ MaxStruct \in Nat /\ \A j \in 1 .. n : f[j] \in Struct
      /\ ask \in [Proc -> Call \cup {None}] /\ result \in [Proc -> 0 .. MaxStruct]
      /\ map \in [Type -> 0 .. MaxStruct]
    BY TableFacts, BoundAssumption DEF TypeOK, Table
<1> DEFINE made == c # 0 /\ ok /\ f[c].phase = "relate" /\ BecomesChild(c, f[c], Head(f[c].todo), f[i])
           taken == c # 0 /\ ok /\ f[c].phase = "relate" /\ TakenOver(f[c], Head(f[c].todo))
           a == IF made THEN NewCall(Head(f[c].todo), FALSE, TRUE) ELSE None
           r == IF c = 0 /\ ok THEN i ELSE result[p]
<1>1. c # 0 /\ ok /\ f[c].phase = "relate" => /\ f[c] \in Struct /\ f[c].todo # <<>>
                                              /\ Head(f[c].todo) \in Type /\ f[c].type \in Type
    BY <1>0, StructFields, FieldsOf
<1>2. a \in Call \cup {None}  BY <1>1, NewCallType
<1>3. ask' = [ask EXCEPT ![p] = a]  BY DEF Return
<1>4. r \in 0 .. MaxStruct  BY <1>0
<1>5. result' = [result EXCEPT ![p] = r]  BY DEF Return
<1>6. map' = IF taken THEN [map EXCEPT ![Head(f[c].todo)] = 0] ELSE map  BY DEF Return
<1>7. taken => Head(f[c].todo) \notin Shared  BY <1>1, NotShared
<1> HIDE DEF a, r
<1>8. /\ ask' \in [Proc -> Call \cup {None}] /\ ask'[p] = a
      /\ \A q \in Proc : q # p => ask'[q] = ask[q]
    BY <1>0, <1>2, <1>3
<1>9. /\ result' \in [Proc -> 0 .. MaxStruct] /\ result'[p] = r
      /\ \A q \in Proc : q # p => result'[q] = result[q]
    BY <1>0, <1>4, <1>5
<1>10. map' \in [Type -> 0 .. MaxStruct]  BY <1>0, <1>1, <1>6
<1>11. \A t \in Type : map'[t] = map[t] \/ (map'[t] = 0 /\ t \notin Shared)  BY <1>0, <1>1, <1>6, <1>7
<1>12. ask'[p] # None => made /\ ask'[p] = NewCall(Head(f[c].todo), FALSE, TRUE)  BY <1>8 DEF a
<1>13. \A q \in Proc : result'[q] # result[q] => q = p /\ c = 0 /\ ok /\ result'[q] = i
    BY <1>9 DEF r
<1>14. QED  BY <1>1, <1>8, <1>9, <1>10, <1>11, <1>12, <1>13
-----------------------------------------------------------------------------
(* Steps that leave the stacks as they are *)

\* p changes the struct at its top, and what children add to others.
InPlace(p) ==
    /\ n' = n /\ top' = top /\ Table(struct', n)
    /\ \A i \in 1 .. n : i # top[p] => Alike(struct[i], struct'[i])
    /\ top[p] # 0 => /\ Same(struct[top[p]], struct'[top[p]])
                     /\ struct'[top[p]].phase \in Building
    /\ \A q \in Proc : q # p => ask'[q] = ask[q]

LEMMA InPlaceBuilt ==
    ASSUME TypeOK, Stack, NEW p \in Proc, InPlace(p)
    PROVE  /\ \A i \in 1 .. n : /\ Same(struct[i], struct'[i]) /\ struct'[i] \in Struct
                                /\ Built(i)' <=> Built(i)
                                /\ struct[i].phase \notin Building => struct'[i].phase = struct[i].phase
           /\ \A t \in Type : (HasChild(t)' <=> HasChild(t)) /\ (Excused(t) => Excused(t)')
<1>1. ASSUME NEW i \in 1 .. n
      PROVE  /\ Same(struct[i], struct'[i]) /\ struct'[i] \in Struct
             /\ Built(i)' <=> Built(i)
             /\ struct[i].phase \notin Building => struct'[i].phase = struct[i].phase
  <2>1. struct'[i] \in Struct  BY TableFacts DEF InPlace, Table
  <2>2. CASE i = top[p]
    <3>1. Built(i)  BY <2>2, TableFacts DEF Stack
    <3>2. QED  BY <2>1, <2>2, <3>1, TableFacts DEF Built, InPlace
  <2>3. CASE i # top[p]
    <3>1. Alike(struct[i], struct'[i]) /\ n' = n  BY <2>3 DEF InPlace
    <3>2. QED  BY <2>1, <3>1 DEF Built, Alike
  <2>4. QED  BY <2>2, <2>3
<1>2. ASSUME NEW t \in Type PROVE (HasChild(t)' <=> HasChild(t)) /\ (Excused(t) => Excused(t)')
  <2>1. n' = n  BY DEF InPlace
  <2>2. HasChild(t)' <=> HasChild(t)  BY <1>1, <2>1 DEF HasChild, Same
  <2>3. Excused(t) => Excused(t)'  BY <1>1, <2>1 DEF Excused, Same, Building
  <2>4. QED  BY <2>2, <2>3
<1>3. QED  BY <1>1, <1>2

LEMMA InPlaceStack ==
    ASSUME TypeOK, Stack, NEW p \in Proc, InPlace(p)
    PROVE  Stack'
<1>1. n' = n /\ top' = top  BY DEF InPlace
<1>2. \A i \in 1 .. n : Same(struct[i], struct'[i]) /\ (Built(i)' <=> Built(i))  BY InPlaceBuilt
<1>3. \A i : Built(i) => i \in 1 .. n  BY DEF Built
<1>4. \A i : Built(i)' => i \in 1 .. n  BY <1>1 DEF Built
<1>5. \A i : Built(i)' <=> Built(i)  BY <1>2, <1>3, <1>4
<1>6. \A i \in 1 .. n : struct'[i].by = struct[i].by /\ struct'[i].caller = struct[i].caller  BY <1>2 DEF Same
<1>7. (\A q \in Proc : top[q] # 0 => Built(top[q]) /\ struct[top[q]].by = q)'
    BY <1>1, <1>3, <1>5, <1>6 DEF Stack
<1>8. ASSUME NEW i \in 1 .. n, Built(i)
      PROVE  /\ i <= top'[struct'[i].by]
             /\ struct'[i].caller # 0 => /\ Built(struct[i].caller)
                                         /\ struct'[struct[i].caller].by = struct'[i].by
             /\ i = top'[struct'[i].by] \/ \E j \in 1 .. n : Built(j) /\ struct'[j].caller = i
    BY <1>1, <1>3, <1>6, <1>8 DEF Stack
<1>9. ASSUME NEW i \in 1 .. n, NEW j \in 1 .. n, Built(i), Built(j), struct'[i].by = struct'[j].by, i < j
      PROVE  i <= struct'[j].caller
    BY <1>6, <1>9 DEF Stack
<1> QED
  <2>2. \A i \in 1 .. n' : Built(i)' =>
          /\ i <= top'[struct'[i].by]
          /\ struct'[i].caller # 0 => /\ Built(struct[i].caller)'
                                      /\ struct'[struct'[i].caller].by = struct'[i].by
          /\ i = top'[struct'[i].by] \/ \E j \in 1 .. n' : Built(j)' /\ struct'[j].caller = i
      BY <1>1, <1>5, <1>6, <1>8
  <2>3. \A i, j \in 1 .. n' : Built(i)' /\ Built(j)' /\ struct'[i].by = struct'[j].by /\ i < j
                               => i <= struct'[j].caller
      BY <1>1, <1>5, <1>9
  <2>4. QED  BY <1>7, <2>2, <2>3 DEF Stack

LEMMA InPlaceCalled ==
    ASSUME TypeOK, Numbered, Stack, Called, NEW p \in Proc, InPlace(p)
    PROVE  Called'
<1>1. n' = n /\ top' = top  BY DEF InPlace
<1>2. \A i \in 1 .. n : Same(struct[i], struct'[i]) /\ (Built(i)' <=> Built(i))  BY InPlaceBuilt
<1>3. ASSUME NEW i \in 1 .. n, Built(i), struct[i].caller # 0
      PROVE  Alike(struct[struct[i].caller], struct'[struct[i].caller])
  <2>1. Built(struct[i].caller) /\ struct[struct[i].caller].by = struct[i].by  BY <1>3 DEF Stack
  <2>2. struct[i].caller < i /\ i <= top[struct[i].by] /\ struct[i].caller \in 1 .. n
      BY <1>3, <2>1 DEF Numbered, Stack, Built
  <2>3. struct[i].caller # top[p]
    <3>1. SUFFICES ASSUME struct[i].caller = top[p] PROVE FALSE  OBVIOUS
    <3>2. struct[struct[i].caller].by = p  BY <2>2, <3>1 DEF Stack
    <3>3. i <= top[p]  BY <2>1, <2>2, <3>2
    <3>4. i \in Nat /\ struct[i].caller \in Nat  BY <2>2, TableFacts
    <3>5. QED  BY <2>2, <3>1, <3>3, <3>4
  <2>4. QED  BY <2>2, <2>3 DEF InPlace
<1>4. ASSUME NEW i \in 1 .. n
      PROVE  /\ struct'[i].type = struct[i].type /\ struct'[i].caller = struct[i].caller
             /\ struct'[i].embedded = struct[i].embedded /\ struct'[i].isChild = struct[i].isChild
    BY <1>2 DEF Same
<1>5. ASSUME NEW i \in 1 .. n, Built(i)', struct'[i].caller # 0
      PROVE  Awaits(struct'[struct'[i].caller], struct'[i].type, struct'[i].isChild)
    BY <1>2, <1>3, <1>4, <1>5 DEF Called, Awaits, Alike, Same
<1>6. ASSUME NEW i \in 1 .. n, struct'[i].embedded
      PROVE  /\ struct'[i].caller # 0
             /\ struct'[i].type \in Fields(Embeds[struct'[struct'[i].caller].type])
  <2>1. /\ struct[i].caller # 0 /\ struct[i].type \in Fields(Embeds[struct[struct[i].caller].type])
        /\ struct[i].caller < i
      BY <1>4, <1>6 DEF Called, Numbered
  <2>2. struct[i].caller \in 1 .. n  BY <2>1, TableFacts, StructFields
  <2>3. QED  BY <1>4, <2>1, <2>2
<1>7. \A i \in 1 .. n : struct'[i].isChild => struct'[i].caller # 0  BY <1>4 DEF Called
<1>8. QED  BY <1>1, <1>5, <1>6, <1>7 DEF Called

LEMMA InPlaceWaiting ==
    ASSUME TypeOK, Numbered, Stack, Waiting, NEW p \in Proc, InPlace(p),
           top[p] # 0 =>
             /\ ask'[p] # None => struct'[top[p]].phase \in {"scan", "relate"}
             /\ struct'[top[p]].phase = "scan" /\ (ask'[p] # None \/ struct'[top[p]].adopt # {})
                  => Scanned(struct'[top[p]])
    PROVE  Waiting'
<1>1. n' = n /\ top' = top  BY DEF InPlace
<1>2. SUFFICES ASSUME NEW i \in 1 .. n, Built(i)'
               PROVE  /\ Waits(i)' => struct'[i].phase \in {"scan", "relate"}
                      /\ struct'[i].phase = "scan" /\ (Waits(i)' \/ struct'[i].adopt # {}) => Scanned(struct'[i])
    BY <1>1 DEF Waiting, Scanned
<1>3. Built(i) /\ Same(struct[i], struct'[i]) /\ struct[i].by \in Proc
    BY <1>2, InPlaceBuilt, TableFacts, StructFields
<1>4. CASE i = top[p]
  <2>1. struct'[i].by = p /\ i # 0  BY <1>3, <1>4 DEF Stack, Same
  <2>2. Waits(i)' => ask'[p] # None  BY <1>1, <1>4, <2>1 DEF Waits
  <2>3. QED  BY <1>4, <2>1, <2>2
<1>5. CASE i # top[p]
  <2>1. Alike(struct[i], struct'[i])  BY <1>5 DEF InPlace
  <2>2. struct'[i].by = struct[i].by  BY <2>1 DEF Alike, Same
  <2>3. Waits(i)' => Waits(i)
    <3>1. CASE struct[i].by = p  BY <1>1, <1>5, <3>1 DEF Waits
    <3>2. CASE struct[i].by # p
      <4>1. ask'[struct[i].by] = ask[struct[i].by]  BY <1>3, <3>2 DEF InPlace
      <4>2. QED  BY <1>1, <2>2, <4>1 DEF Waits
    <3>3. QED  BY <3>1, <3>2
  <2>4. QED  BY <1>3, <2>1, <2>3 DEF Waiting, Alike, Same, Scanned, HasKey
<1>6. QED  BY <1>4, <1>5

LEMMA InPlaceAsking ==
    ASSUME TypeOK, Numbered, Stack, Asking, NEW p \in Proc, InPlace(p),
           ask'[p] # None =>
             /\ top[p] = 0 => ~ask'[p].isChild /\ ~ask'[p].embedded
             /\ top[p] # 0 => Awaits(struct'[top[p]], ask'[p].type, ask'[p].isChild)
             /\ ask'[p].embedded => ask'[p].type \in Fields(Embeds[struct'[top[p]].type])
             /\ ask'[p].isChild => ~ask'[p].missed
    PROVE  Asking'
<1>1. n' = n /\ top' = top  BY DEF InPlace
<1>2. ASSUME NEW q \in Proc, q # p, ask'[q] # None
      PROVE  /\ top[q] = 0 => ~ask'[q].isChild /\ ~ask'[q].embedded
             /\ top[q] # 0 => Awaits(struct'[top[q]], ask'[q].type, ask'[q].isChild)
             /\ ask'[q].embedded => ask'[q].type \in Fields(Embeds[struct'[top[q]].type])
             /\ ask'[q].isChild => ~ask'[q].missed
  <2>1. ask'[q] = ask[q]  BY <1>2 DEF InPlace
  <2>2. ASSUME top[q] # 0 PROVE Alike(struct[top[q]], struct'[top[q]])
    <3>1. top[q] \in 1 .. n /\ struct[top[q]].by = q  BY <2>2 DEF Stack, Built
    <3>2. top[q] # top[p]  BY <1>2, <2>2, <3>1 DEF Stack
    <3>3. QED  BY <3>1, <3>2 DEF InPlace
  <2>3. ask'[q].embedded => top[q] # 0  BY <1>2, <2>1 DEF Asking
  <2>4. QED  BY <1>2, <2>1, <2>2, <2>3 DEF Asking, Awaits, Alike, Same
<1>3. QED  BY <1>1, <1>2 DEF Asking

LEMMA InPlaceSound ==
    ASSUME TypeOK, \A i \in 1 .. n : Sound(struct[i]), NEW p \in Proc, InPlace(p),
           top[p] # 0 => Sound(struct'[top[p]])
    PROVE  (\A i \in 1 .. n : Sound(struct[i]))'
<1>1. n' = n  BY DEF InPlace
<1>2. ASSUME NEW i \in 1 .. n PROVE Sound(struct'[i])
  <2>1. CASE i = top[p]  BY <2>1, TableFacts
  <2>2. CASE i # top[p]
    <3>1. Alike(struct[i], struct'[i]) /\ Sound(struct[i])  BY <2>2 DEF InPlace
    <3>2. QED  BY <3>1 DEF Alike, Same, Sound, HasKey
  <2>3. QED  BY <2>1, <2>2
<1>3. QED  BY <1>1, <1>2

\* While goroutines have not met, the only one in the storage is p.
Lonely(p) == ~overlap' => /\ ~overlap
                          /\ \A q \in Proc : q # p => top[q] = 0 /\ ask[q] = None

LEMMA BusyLonely ==
    ASSUME Alone, NEW p \in Proc, Busy(p), overlap' = overlap
    PROVE  Lonely(p)
BY DEF Alone, Lonely, Busy

LEMMA InPlaceAlone ==
    ASSUME NEW p \in Proc, InPlace(p), Lonely(p)
    PROVE  Alone'
<1>1. \A q \in Proc : q # p /\ Busy(q)' => overlap'  BY DEF InPlace, Lonely, Busy
<1>2. QED  BY <1>1 DEF Alone

LEMMA InPlaceUnraced ==
    ASSUME TypeOK, Stack, Unraced, NEW p \in Proc, InPlace(p), Lonely(p),
           ~overlap =>
             /\ ask'[p] # None /\ ask'[p].missed => map'[ask'[p].type] = 0
             /\ \A t \in Type : ask'[p] # None /\ ask'[p].isChild /\ ask'[p].type = t => Excused(t)
             /\ \A t \in Shared : ~HasChild(t) => map'[t] = map[t]
             /\ \A i \in 1 .. n : \A t \in struct'[i].kids : t \in struct[i].kids \/ Excused(t)
    PROVE  Unraced'
<1>1. SUFFICES ASSUME ~overlap' PROVE
        (/\ \A q \in Proc : ask[q] # None /\ ask[q].missed => map[ask[q].type] = 0
         /\ \A t \in Shared : ~HasChild(t) =>
              \A i \in 1 .. n : Built(i) /\ struct[i].type = t => map[t] = i
         /\ \A t \in Type : MadeChild(t) => Excused(t))'
    BY DEF Unraced
<1>2. ~overlap /\ n' = n  BY <1>1 DEF Lonely, InPlace
<1>3. \A q \in Proc : q # p => ask'[q] = None  BY <1>1 DEF Lonely, InPlace
<1>4. \A i \in 1 .. n : /\ Same(struct[i], struct'[i]) /\ struct'[i] \in Struct
                        /\ Built(i)' <=> Built(i)
    BY InPlaceBuilt
<1>5. \A t \in Type : (HasChild(t)' <=> HasChild(t)) /\ (Excused(t) => Excused(t)')  BY InPlaceBuilt
<1>6. \A i \in 1 .. n : struct'[i].type = struct[i].type /\ struct'[i].isChild = struct[i].isChild
    BY <1>4 DEF Same
<1>7. \A q \in Proc : ask'[q] # None /\ ask'[q].missed => map'[ask'[q].type] = 0  BY <1>2, <1>3
<1>8. ASSUME NEW t \in Shared, ~HasChild(t)', NEW i \in 1 .. n, Built(i)', struct'[i].type = t
      PROVE  map'[t] = i
  <2>1. t \in Type  BY TypeAssumption DEF Shared
  <2>2. Built(i) /\ struct[i].type = t /\ ~HasChild(t)  BY <1>4, <1>5, <1>6, <1>8, <2>1
  <2>3. QED  BY <1>2, <2>2 DEF Unraced
<1>9. ASSUME NEW t \in Type, MadeChild(t)' PROVE Excused(t)'
  <2>1. MadeChild(t) \/ Excused(t)  BY <1>2, <1>3, <1>6, <1>9 DEF MadeChild
  <2>2. QED  BY <1>2, <1>5, <2>1 DEF Unraced
<1>10. QED  BY <1>2, <1>7, <1>8, <1>9

LEMMA InPlaceResults ==
    ASSUME TypeOK, Numbered, Stack, HalfBuiltOnlyIfRacedOrFailed, NEW p \in Proc, InPlace(p),
           overlap => overlap', result' \in [Proc -> 0 .. MaxStruct],
           \A q \in Proc : q # p => result'[q] = result[q],
           result'[p] # 0 /\ result'[p] # result[p] =>
              /\ result'[p] \in 1 .. n
              /\ Built(result'[p]) => overlap /\ struct[result'[p]].by # p
              /\ ~Built(result'[p]) => struct[result'[p]].phase \in {"done", "failed"}
    PROVE  HalfBuiltOnlyIfRacedOrFailed' /\ \A q \in Proc : result'[q] <= n'
<1>1. n' = n /\ top' = top  BY DEF InPlace
<1>2. \A i \in 1 .. n : /\ Same(struct[i], struct'[i])
                        /\ struct[i].phase \notin Building => struct'[i].phase = struct[i].phase
    BY InPlaceBuilt
<1>3. ASSUME NEW q \in Proc, result'[q] # 0
      PROVE  /\ result'[q] \in 1 .. n
             /\ \/ struct[result'[q]].phase \in {"done", "failed"}
                \/ overlap /\ struct[result'[q]].by # q
  <2>1. result[q] \in 0 .. n /\ result'[q] \in Nat /\ n \in Nat  BY TableFacts DEF Numbered, TypeOK
  <2>2. CASE result'[q] = result[q]  BY <1>3, <2>1, <2>2 DEF HalfBuiltOnlyIfRacedOrFailed
  <2>3. CASE result'[q] # result[q]  BY <1>3, <2>1, <2>3
  <2>4. QED  BY <2>2, <2>3
<1>4. ASSUME NEW q \in Proc, result'[q] # 0
      PROVE  \/ struct'[result'[q]].phase \in {"done", "failed"}
             \/ overlap' /\ struct'[result'[q]].by # q
    BY <1>2, <1>3, <1>4 DEF Same, Building
<1>5. \A q \in Proc : result'[q] <= n
  <2>1. \A q \in Proc : result'[q] \in Nat /\ n \in Nat  BY TableFacts
  <2>2. QED  BY <1>3, <2>1
<1>6. QED  BY <1>1, <1>4, <1>5 DEF HalfBuiltOnlyIfRacedOrFailed

\* What a step of p in place owes the invariant: the types of what it sets, and what is
\* true of its own stack and call.
Typed == /\ map' \in [Type -> 0 .. MaxStruct] /\ ask' \in [Proc -> Call \cup {None}]
         /\ result' \in [Proc -> 0 .. MaxStruct] /\ calls' \in [Proc -> 0 .. MaxCalls]
         /\ overlap' \in BOOLEAN /\ (overlap => overlap')

Local(p) ==
    /\ top[p] # 0 =>
          LET s == struct'[top[p]]
          IN  /\ ask'[p] # None => s.phase \in {"scan", "relate"}
              /\ s.phase = "scan" /\ (ask'[p] # None \/ s.adopt # {}) => Scanned(s)
              /\ Sound(s)
    /\ ask'[p] # None =>
          /\ top[p] = 0 => ~ask'[p].isChild /\ ~ask'[p].embedded
          /\ top[p] # 0 => Awaits(struct'[top[p]], ask'[p].type, ask'[p].isChild)
          /\ ask'[p].embedded => ask'[p].type \in Fields(Embeds[struct'[top[p]].type])
          /\ ask'[p].isChild => ~ask'[p].missed
    /\ \A t \in Type : map'[t] # 0 => map'[t] = map[t]
    /\ \A q \in Proc : q # p => result'[q] = result[q]
    /\ result'[p] # 0 /\ result'[p] # result[p] =>
          /\ result'[p] \in 1 .. n
          /\ Built(result'[p]) => overlap /\ struct[result'[p]].by # p
          /\ ~Built(result'[p]) => struct[result'[p]].phase \in {"done", "failed"}
    /\ ~overlap =>
          /\ ask'[p] # None /\ ask'[p].missed => map'[ask'[p].type] = 0
          /\ \A t \in Type : ask'[p] # None /\ ask'[p].isChild /\ ask'[p].type = t => Excused(t)
          /\ \A t \in Shared : ~HasChild(t) => map'[t] = map[t]
          /\ \A i \in 1 .. n : \A t \in struct'[i].kids : t \in struct[i].kids \/ Excused(t)

LEMMA InPlaceInv ==
    ASSUME IInv, NEW p \in Proc, InPlace(p), Lonely(p), Typed, Local(p)
    PROVE  IInv'
<1>1. /\ TypeOK /\ Numbered /\ Stack /\ Waiting /\ Asking /\ Called
      /\ \A i \in 1 .. n : Sound(struct[i])
      /\ Alone /\ Unraced /\ HalfBuiltOnlyIfRacedOrFailed
    BY DEF IInv
<1>2. TypeOK'  BY <1>1 DEF InPlace, Table, TypeOK, Typed
<1>3. Stack'  BY <1>1, InPlaceStack
<1>4. Called'  BY <1>1, InPlaceCalled
<1>5. Waiting'  BY <1>1, InPlaceWaiting DEF Local
<1>6. Asking'  BY <1>1, InPlaceAsking DEF Local
<1>7. (\A i \in 1 .. n : Sound(struct[i]))'  BY <1>1, InPlaceSound DEF Local
<1>8. Alone'  BY InPlaceAlone
<1>9. Unraced'  BY <1>1, InPlaceUnraced DEF Local
<1>10. HalfBuiltOnlyIfRacedOrFailed' /\ \A q \in Proc : result'[q] <= n'
    BY <1>1, InPlaceResults DEF Local, Typed
<1>11. Numbered'
  <2>1. \A i \in 1 .. n : struct'[i].type = struct[i].type /\ struct'[i].caller = struct[i].caller
      BY <1>1, InPlaceBuilt DEF Same
  <2>2. n' = n /\ top' = top  BY DEF InPlace
  <2>3. ASSUME NEW t \in Type, map'[t] # 0 PROVE map'[t] <= n /\ struct'[map'[t]].type = t
    <3>1. map'[t] = map[t] /\ map[t] \in 0 .. MaxStruct  BY <1>1, <2>3 DEF Local, TypeOK
    <3>2. map[t] \in 1 .. n /\ struct[map[t]].type = t  BY <1>1, <2>3, <3>1, TableFacts DEF Numbered
    <3>3. QED  BY <2>1, <3>1, <3>2
  <2>4. QED  BY <1>1, <1>10, <2>1, <2>2, <2>3 DEF Numbered
<1>12. QED  BY <1>2, <1>3, <1>4, <1>5, <1>6, <1>7, <1>8, <1>9, <1>10, <1>11 DEF IInv
-----------------------------------------------------------------------------
(* The actions that leave the stacks as they are *)

LEMMA AlikeSelf == ASSUME NEW s PROVE Alike(s, s) /\ Same(s, s)
BY DEF Alike, Same

\* A step that changes no struct.
LEMMA StillInPlace ==
    ASSUME TypeOK, Stack, NEW p \in Proc, n' = n, top' = top, struct' = struct,
           \A q \in Proc : q # p => ask'[q] = ask[q]
    PROVE  InPlace(p)
<1>1. top[p] # 0 => struct[top[p]].phase \in Building  BY DEF Stack, Built
<1>2. Table(struct', n)  BY TableFacts
<1>3. QED  BY <1>1, <1>2, AlikeSelf DEF InPlace

\* A step that changes the struct at the top alone.
LEMMA TopInPlace ==
    ASSUME TypeOK, Stack, NEW p \in Proc, n' = n, top' = top, top[p] # 0, NEW x \in Struct,
           struct' = [struct EXCEPT ![top[p]] = x], Same(struct[top[p]], x), x.phase \in Building,
           \A q \in Proc : q # p => ask'[q] = ask[q]
    PROVE  InPlace(p) /\ struct'[top[p]] = x /\ \A i \in 1 .. n : i # top[p] => struct'[i] = struct[i]
<1>1. top[p] \in 1 .. n /\ n \in 0 .. MaxStruct /\ Table(struct, n)  BY TableFacts DEF Stack, Built, TypeOK
<1>2. Puts(struct, struct', n, top[p], x)  BY <1>1, TableSet
<1>3. QED  BY <1>2, AlikeSelf DEF Puts, InPlace

LEMMA GetOrNewInv == ASSUME IInv, NEW p \in Proc, GetOrNew(p) PROVE IInv'
<1>1. /\ TypeOK /\ Stack /\ \A i \in 1 .. n : Sound(struct[i])
      /\ top[p] = 0 /\ ask[p] = None
    BY DEF IInv, GetOrNew, Busy
<1>2. PICK t \in Asked : ask' = [ask EXCEPT ![p] = NewCall(t, FALSE, FALSE)]  BY DEF GetOrNew
<1>3. t \in Type  BY TypeAssumption
<1>4. /\ NewCall(t, FALSE, FALSE) \in Call /\ NewCall(t, FALSE, FALSE) # None
      /\ ~NewCall(t, FALSE, FALSE).embedded /\ ~NewCall(t, FALSE, FALSE).isChild
      /\ ~NewCall(t, FALSE, FALSE).missed
    BY <1>3, NewCallType
<1>5. /\ ask' \in [Proc -> Call \cup {None}] /\ ask'[p] = NewCall(t, FALSE, FALSE)
      /\ \A q \in Proc : q # p => ask'[q] = ask[q]
    BY <1>1, <1>2, <1>4 DEF TypeOK
<1>6. InPlace(p)  BY <1>1, <1>5, StillInPlace DEF GetOrNew
<1>7. Lonely(p)  BY DEF GetOrNew, Lonely, Busy
<1>8. Typed
  <2>1. calls[p] + 1 \in 0 .. MaxCalls  BY <1>1, BoundAssumption DEF GetOrNew, TypeOK
  <2>2. calls' \in [Proc -> 0 .. MaxCalls]  BY <1>1, <2>1 DEF GetOrNew, TypeOK
  <2>3. result' \in [Proc -> 0 .. MaxStruct]  BY <1>1, BoundAssumption DEF GetOrNew, TypeOK
  <2>4. overlap' \in BOOLEAN /\ (overlap => overlap')  BY <1>1 DEF GetOrNew, TypeOK
  <2>5. map' \in [Type -> 0 .. MaxStruct]  BY <1>1 DEF GetOrNew, TypeOK
  <2>6. QED  BY <1>5, <2>2, <2>3, <2>4, <2>5 DEF Typed
<1>9. Local(p)
  <2>1. result'[p] = 0 /\ \A q \in Proc : q # p => result'[q] = result[q]  BY <1>1 DEF GetOrNew, TypeOK
  <2>2. map' = map /\ struct' = struct  BY DEF GetOrNew
  <2>3. QED  BY <1>1, <1>4, <1>5, <2>1, <2>2 DEF Local
<1>10. QED  BY <1>6, <1>7, <1>8, <1>9, InPlaceInv

LEMMA MissInv == ASSUME IInv, NEW p \in Proc, Miss(p) PROVE IInv'
<1>1. /\ TypeOK /\ Stack /\ Asking /\ Waiting /\ Alone /\ \A i \in 1 .. n : Sound(struct[i])
    BY DEF IInv
<1>2. ask[p] \in Call  BY <1>1 DEF Miss, TypeOK
<1> DEFINE a == [ask[p] EXCEPT !.missed = TRUE]
<1>3. /\ a \in Call /\ a.type = ask[p].type /\ a.embedded = ask[p].embedded /\ a.isChild = ask[p].isChild
    BY <1>2 DEF Call
<1>4. ask' = [ask EXCEPT ![p] = a]  BY DEF Miss
<1> HIDE DEF a
<1>5. /\ ask' \in [Proc -> Call \cup {None}] /\ ask'[p] = a
      /\ \A q \in Proc : q # p => ask'[q] = ask[q]
    BY <1>1, <1>3, <1>4 DEF TypeOK
<1>6. InPlace(p)  BY <1>1, <1>5, StillInPlace DEF Miss
<1>7. Lonely(p)  BY <1>1, BusyLonely DEF Miss, Busy
<1>8. Typed  BY <1>1, <1>5 DEF Typed, Miss, TypeOK
<1>9. Local(p)
  <2>1. result' = result /\ map' = map /\ struct' = struct  BY DEF Miss
  <2>2. ~a.isChild /\ map[a.type] = 0  BY <1>3 DEF Miss
  <2>3. ASSUME top[p] # 0 PROVE /\ top[p] \in 1 .. n /\ Built(top[p]) /\ Waits(top[p])
    BY <1>1, <2>3 DEF Stack, Built, Waits, Miss
  <2>4. QED  BY <1>1, <1>3, <1>5, <2>1, <2>2, <2>3 DEF Local, Asking, Waiting, Miss
<1>10. QED  BY <1>6, <1>7, <1>8, <1>9, InPlaceInv

\* What holds of the struct that p is setting up.
LEMMA InFacts ==
    ASSUME IInv, NEW p \in Proc, NEW phase, In(p, phase)
    PROVE  /\ TypeOK /\ Stack /\ Alone /\ Busy(p) /\ ask[p] = None
           /\ top[p] # 0 /\ top[p] \in 1 .. n /\ Built(top[p])
           /\ struct[top[p]] \in Struct /\ struct[top[p]].phase = phase /\ struct[top[p]].by = p
           /\ Sound(struct[top[p]])
<1>1. TypeOK /\ Stack /\ Alone /\ \A i \in 1 .. n : Sound(struct[i])  BY DEF IInv
<1>2. top[p] # 0 /\ ask[p] = None /\ struct[top[p]].phase = phase  BY DEF In
<1>3. Built(top[p]) /\ struct[top[p]].by = p  BY <1>1, <1>2 DEF Stack
<1>4. QED  BY <1>1, <1>2, <1>3, TableFacts DEF Built, Busy

LEMMA RelateInv == ASSUME IInv, NEW p \in Proc, Relate(p) PROVE IInv'
<1> DEFINE s == struct[top[p]]
           t == Head(s.todo)
           b == <<s.type, t>> \notin Slices /\ t \in Unnamed /\ HasKey(s)
<1>1. In(p, "relate")  BY DEF Relate
<1>2. /\ TypeOK /\ Stack /\ Alone /\ Busy(p) /\ top[p] # 0 /\ s \in Struct /\ s.phase = "relate"
      /\ Sound(s)
    BY <1>1, InFacts
<1>3. s.todo # <<>> /\ ask' = [ask EXCEPT ![p] = NewCall(t, FALSE, b)]  BY DEF Relate
<1>4. t \in Type /\ b \in BOOLEAN  BY <1>2, <1>3, StructFields, FieldsOf
<1>5. b => t \notin Shared  BY DEF Shared
<1>6. s = struct[top[p]] /\ t = Head(s.todo)  OBVIOUS
<1> HIDE DEF s, t, b
<1>7. /\ NewCall(t, FALSE, b) \in Call /\ NewCall(t, FALSE, b) # None /\ NewCall(t, FALSE, b).type = t
      /\ ~NewCall(t, FALSE, b).embedded /\ NewCall(t, FALSE, b).isChild = b
      /\ ~NewCall(t, FALSE, b).missed
    BY <1>4, NewCallType
<1>8. /\ ask' \in [Proc -> Call \cup {None}] /\ ask'[p] = NewCall(t, FALSE, b)
      /\ \A q \in Proc : q # p => ask'[q] = ask[q]
    BY <1>2, <1>3, <1>7 DEF TypeOK
<1>9. InPlace(p)  BY <1>2, <1>8, StillInPlace DEF Relate
<1>10. Lonely(p)  BY <1>2, BusyLonely DEF Relate
<1>11. Typed  BY <1>2, <1>8 DEF Typed, Relate, TypeOK
<1>12. b => Excused(t)  BY <1>5 DEF Excused
<1>13. Local(p)
  <2>1. result' = result /\ map' = map /\ struct' = struct  BY DEF Relate
  <2>2. Awaits(struct'[top[p]], ask'[p].type, ask'[p].isChild)  BY <1>3, <1>6, <1>7, <1>8, <2>1 DEF Awaits
  <2>3. struct'[top[p]].phase = "relate" /\ Sound(struct'[top[p]])  BY <1>2, <1>6, <2>1
  <2>4. QED  BY <1>2, <1>7, <1>8, <1>12, <2>1, <2>2, <2>3 DEF Local
<1>14. QED  BY <1>9, <1>10, <1>11, <1>13, InPlaceInv

LEMMA EmbedInv == ASSUME IInv, NEW p \in Proc, Embed(p) PROVE IInv'
<1> DEFINE s == struct[top[p]]
           t == Head(s.todo)
           key == IF s.type \in KeyFirst THEN "tagged" ELSE s.key
           x == [s EXCEPT !.key = key]
<1>1. In(p, "scan")  BY DEF Embed
<1>2. /\ TypeOK /\ Stack /\ Alone /\ Busy(p) /\ top[p] # 0 /\ top[p] \in 1 .. n
      /\ s \in Struct /\ s.phase = "scan" /\ Sound(s)
    BY <1>1, InFacts
<1>3. s.todo # <<>> /\ s.adopt = {} /\ ask' = [ask EXCEPT ![p] = NewCall(t, TRUE, FALSE)]  BY DEF Embed
<1>4. struct' = [struct EXCEPT ![top[p]] = x]  BY DEF Embed
<1>5. t \in Type /\ t \in Fields(s.todo) /\ key \in Keys  BY <1>2, <1>3, StructFields, FieldsOf DEF Keys
<1>6. t \in Fields(Embeds[s.type])  BY <1>2, <1>5 DEF Sound
<1>7. Embeds[s.type] # <<>>  BY <1>6 DEF Fields
<1>8. HasKey(s) => key # "none"  BY DEF HasKey
<1>9. s.type \in KeyFirst => key # "none"  OBVIOUS
<1>10. s = struct[top[p]] /\ t = Head(s.todo)  OBVIOUS
<1> HIDE DEF s, t, key
<1>11. x \in Struct  BY <1>2, <1>5 DEF Struct
<1>12. /\ Same(s, x) /\ x.phase = "scan" /\ x.todo = s.todo /\ x.adopt = {} /\ x.kids = s.kids
       /\ x.key = key /\ x.type = s.type
    BY <1>2, <1>3 DEF Struct, Same
<1> HIDE DEF x
<1>13. Sound(x) /\ Scanned(x)  BY <1>2, <1>7, <1>8, <1>9, <1>12 DEF Sound, Scanned, HasKey
<1>14. /\ NewCall(t, TRUE, FALSE) \in Call /\ NewCall(t, TRUE, FALSE) # None /\ NewCall(t, TRUE, FALSE).type = t
       /\ ~NewCall(t, TRUE, FALSE).isChild /\ ~NewCall(t, TRUE, FALSE).missed
    BY <1>5, NewCallType
<1>15. /\ ask' \in [Proc -> Call \cup {None}] /\ ask'[p] = NewCall(t, TRUE, FALSE)
       /\ \A q \in Proc : q # p => ask'[q] = ask[q]
    BY <1>2, <1>3, <1>14 DEF TypeOK
<1>16. n' = n /\ top' = top /\ result' = result /\ map' = map /\ overlap' = overlap /\ calls' = calls  BY DEF Embed
<1>17. Same(struct[top[p]], x) /\ x.phase \in Building  BY <1>10, <1>12 DEF Building
<1>18. InPlace(p) /\ struct'[top[p]] = x /\ \A i \in 1 .. n : i # top[p] => struct'[i] = struct[i]
    BY <1>2, <1>4, <1>11, <1>15, <1>16, <1>17, TopInPlace
<1>19. Lonely(p)  BY <1>2, <1>16, BusyLonely
<1>20. Typed  BY <1>2, <1>15, <1>16 DEF Typed, TypeOK
<1>21. Local(p)
  <2>1. Awaits(x, t, FALSE)  BY <1>3, <1>10, <1>12 DEF Awaits
  <2>2. t \in Fields(Embeds[x.type])  BY <1>6, <1>12
  <2>3. \A i \in 1 .. n : struct'[i].kids = struct[i].kids  BY <1>10, <1>12, <1>18
  <2>4. Awaits(struct'[top[p]], ask'[p].type, ask'[p].isChild)  BY <1>14, <1>15, <1>18, <2>1 DEF Awaits
  <2>5. QED  BY <1>2, <1>12, <1>13, <1>14, <1>15, <1>16, <1>18, <2>2, <2>3, <2>4 DEF Local
<1>22. QED  BY <1>18, <1>19, <1>20, <1>21, InPlaceInv

LEMMA AdoptInv == ASSUME IInv, NEW p \in Proc, Adopt(p) PROVE IInv'
<1> DEFINE s == struct[top[p]]
<1>1. In(p, "scan")  BY DEF Adopt
<1>2. /\ TypeOK /\ Stack /\ Alone /\ Busy(p) /\ top[p] # 0 /\ top[p] \in 1 .. n /\ Built(top[p])
      /\ s \in Struct /\ s.phase = "scan" /\ Sound(s) /\ Waiting /\ Unraced
    BY <1>1, InFacts DEF IInv
<1>3. PICK t \in s.adopt : /\ struct' = [struct EXCEPT ![top[p]].adopt = @ \ {t}]
                           /\ ask' = [ask EXCEPT ![p] = NewCall(t, FALSE, TRUE)]
    BY DEF Adopt
<1> DEFINE adopt == s.adopt \ {t}
           x == [s EXCEPT !.adopt = adopt]
<1>4. struct' = [struct EXCEPT ![top[p]] = x]  BY <1>3
<1>5. t \in Type /\ adopt \subseteq Type /\ adopt \subseteq s.kids /\ t \in s.kids
    BY <1>2, <1>3, StructFields DEF Sound
<1>6. Scanned(s)  BY <1>2, <1>3 DEF Waiting
<1>7. ~overlap => Excused(t)  BY <1>2, <1>5 DEF Unraced, MadeChild
<1>8. s = struct[top[p]]  OBVIOUS
<1> HIDE DEF s, adopt
<1>9. x \in Struct  BY <1>2, <1>5 DEF Struct
<1>10. /\ Same(s, x) /\ x.phase = "scan" /\ x.todo = s.todo /\ x.adopt = adopt /\ x.kids = s.kids
       /\ x.key = s.key /\ x.type = s.type
    BY <1>2 DEF Struct, Same
<1> HIDE DEF x
<1>11. Sound(x) /\ Scanned(x)  BY <1>2, <1>5, <1>6, <1>10 DEF Sound, Scanned, HasKey
<1>12. /\ NewCall(t, FALSE, TRUE) \in Call /\ NewCall(t, FALSE, TRUE) # None /\ NewCall(t, FALSE, TRUE).type = t
       /\ NewCall(t, FALSE, TRUE).isChild /\ ~NewCall(t, FALSE, TRUE).embedded /\ ~NewCall(t, FALSE, TRUE).missed
    BY <1>5, NewCallType
<1>13. /\ ask' \in [Proc -> Call \cup {None}] /\ ask'[p] = NewCall(t, FALSE, TRUE)
       /\ \A q \in Proc : q # p => ask'[q] = ask[q]
    BY <1>2, <1>3, <1>12 DEF TypeOK
<1>14. n' = n /\ top' = top /\ result' = result /\ map' = map /\ overlap' = overlap /\ calls' = calls  BY DEF Adopt
<1>15. Same(struct[top[p]], x) /\ x.phase \in Building  BY <1>8, <1>10 DEF Building
<1>16. InPlace(p) /\ struct'[top[p]] = x /\ \A i \in 1 .. n : i # top[p] => struct'[i] = struct[i]
    BY <1>2, <1>4, <1>9, <1>13, <1>14, <1>15, TopInPlace
<1>17. Lonely(p)  BY <1>2, <1>14, BusyLonely
<1>18. Typed  BY <1>2, <1>13, <1>14 DEF Typed, TypeOK
<1>19. Local(p)
  <2>1. Awaits(x, t, TRUE)  BY <1>10 DEF Awaits
  <2>2. \A i \in 1 .. n : struct'[i].kids = struct[i].kids  BY <1>8, <1>10, <1>16
  <2>3. Awaits(struct'[top[p]], ask'[p].type, ask'[p].isChild)  BY <1>12, <1>13, <1>16, <2>1 DEF Awaits
  <2>4. struct'[top[p]].phase = "scan" /\ Scanned(struct'[top[p]]) /\ Sound(struct'[top[p]])  BY <1>10, <1>11, <1>16
  <2>5. ask'[p].type = t /\ ~ask'[p].embedded /\ ~ask'[p].missed  BY <1>12, <1>13
  <2>6. QED  BY <1>2, <1>7, <1>14, <2>2, <2>3, <2>4, <2>5 DEF Local
<1>20. QED  BY <1>16, <1>17, <1>18, <1>19, InPlaceInv

LEMMA EndScanInv == ASSUME IInv, NEW p \in Proc, EndScan(p) PROVE IInv'
<1> DEFINE s == struct[top[p]]
           from == struct[s.caller]
           todo == Reversed(Refs[s.type])
           own == s.own \cup {s.type}
           key == KeyOf(s)
           rooted == s.rooted \/ (/\ KeyOf(s) = "none" /\ s.caller # 0 /\ ~s.isChild
                                  /\ HasKey(from) \/ from.rooted)
           x == [s EXCEPT !.phase = "relate", !.todo = todo, !.own = own, !.key = key, !.rooted = rooted]
<1>1. In(p, "scan")  BY DEF EndScan
<1>2. /\ TypeOK /\ Stack /\ Alone /\ Busy(p) /\ ask[p] = None /\ top[p] # 0 /\ top[p] \in 1 .. n
      /\ s \in Struct /\ s.phase = "scan" /\ Sound(s)
    BY <1>1, InFacts
<1>3. s.adopt = {}  BY DEF EndScan
<1>4. struct' = [struct EXCEPT ![top[p]] = x]  BY DEF EndScan
<1>5. s.type \in Type /\ own \subseteq Type /\ todo \in Seq(Type)
    BY <1>2, StructFields, ReversedType, TypeAssumption
<1>6. key \in Keys  BY <1>2, StructFields DEF KeyOf, Keys
<1>7. s.type \in Keyed => key # "none"  BY DEF KeyOf
<1>8. rooted \in BOOLEAN  BY <1>2, StructFields
<1>9. s = struct[top[p]]  OBVIOUS
<1> HIDE DEF s, from, todo, own, key, rooted
<1>10. x \in Struct  BY <1>2, <1>5, <1>6, <1>8 DEF Struct, Phases
<1>11. /\ Same(s, x) /\ x.phase = "relate" /\ x.adopt = {} /\ x.kids = s.kids
       /\ x.key = key /\ x.type = s.type
    BY <1>2, <1>3 DEF Struct, Same
<1> HIDE DEF x
<1>12. Sound(x)  BY <1>7, <1>11 DEF Sound, HasKey
<1>13. /\ n' = n /\ top' = top /\ ask' = ask /\ result' = result /\ map' = map
       /\ overlap' = overlap /\ calls' = calls
    BY DEF EndScan
<1>14. Same(struct[top[p]], x) /\ x.phase \in Building  BY <1>9, <1>11 DEF Building
<1>15. InPlace(p) /\ struct'[top[p]] = x /\ \A i \in 1 .. n : i # top[p] => struct'[i] = struct[i]
    BY <1>2, <1>4, <1>10, <1>13, <1>14, TopInPlace
<1>16. Lonely(p)  BY <1>2, <1>13, BusyLonely
<1>17. Typed  BY <1>2, <1>13 DEF Typed, TypeOK
<1>18. Local(p)
  <2>1. \A i \in 1 .. n : struct'[i].kids = struct[i].kids  BY <1>9, <1>11, <1>15
  <2>2. QED  BY <1>2, <1>11, <1>12, <1>13, <1>15, <2>1 DEF Local
<1>19. QED  BY <1>15, <1>16, <1>17, <1>18, InPlaceInv

LEMMA UnpublishInv == ASSUME IInv, NEW p \in Proc, Unpublish(p) PROVE IInv'
<1> DEFINE s == struct[top[p]]
           parent == struct[s.caller]
           haskey == parent.rooted \/ (HasKey(parent) /\ ~parent.isChild)
           key == IF haskey THEN "found" ELSE "none"
           kids == parent.kids \cup {s.type}
           rels == parent.rels \cup {s.type}
           x == [s EXCEPT !.phase = "scan", !.rooted = haskey, !.key = key]
           y == [parent EXCEPT !.kids = kids, !.rels = rels]
           f == [struct EXCEPT ![top[p]] = x]
<1>1. In(p, "child")  BY DEF Unpublish
<1>2. /\ TypeOK /\ Stack /\ Alone /\ Busy(p) /\ ask[p] = None /\ top[p] # 0 /\ top[p] \in 1 .. n
      /\ s \in Struct /\ s.phase = "child" /\ Sound(s) /\ Unraced /\ Called /\ Numbered
    BY <1>1, InFacts DEF IInv
<1>3. s.isChild /\ s.adopt = {} /\ Fields(s.todo) \subseteq Fields(Embeds[s.type])  BY <1>2 DEF Sound
<1>4. s.caller # 0 /\ s.caller < top[p] /\ s.caller \in 1 .. n /\ n \in 0 .. MaxStruct
  <2>1. s.caller # 0 /\ s.caller < top[p]  BY <1>2, <1>3 DEF Called, Numbered
  <2>2. s.caller \in Nat /\ n \in Nat  BY <1>2, TableFacts, StructFields
  <2>3. QED  BY <1>2, <2>1, <2>2 DEF TypeOK
<1>5. parent \in Struct  BY <1>2, <1>4, TableFacts
<1>6. struct' = [f EXCEPT ![s.caller] = y]  BY DEF Unpublish
<1>7. s.type \in Type /\ kids \subseteq Type /\ rels \subseteq Type  BY <1>2, <1>5, StructFields
<1>8. haskey \in BOOLEAN
  <2>1. parent.rooted \in BOOLEAN /\ parent.isChild \in BOOLEAN /\ HasKey(parent) \in BOOLEAN
      BY <1>5, StructFields DEF HasKey
  <2>2. QED  BY <2>1, Zenon
<1>9. key \in Keys  BY DEF Keys
<1>10. s = struct[top[p]] /\ parent = struct[s.caller] /\ kids = parent.kids \cup {s.type}  OBVIOUS
<1>11. map' = [map EXCEPT ![s.type] = 0]  BY DEF Unpublish
<1> HIDE DEF s, parent, haskey, key, kids, rels
<1>12. x \in Struct  BY <1>2, <1>8, <1>9 DEF Struct, Phases
<1>13. /\ Same(s, x) /\ x.phase = "scan" /\ x.todo = s.todo /\ x.adopt = {} /\ x.kids = s.kids
       /\ x.type = s.type
    BY <1>2, <1>3 DEF Struct, Same
<1>14. y \in Struct  BY <1>5, <1>7 DEF Struct
<1>15. Alike(parent, y) /\ y.kids = kids
  <2>1. /\ y.type = parent.type /\ y.by = parent.by /\ y.caller = parent.caller
        /\ y.embedded = parent.embedded /\ y.isChild = parent.isChild
        /\ y.phase = parent.phase /\ y.todo = parent.todo /\ y.adopt = parent.adopt
        /\ y.key = parent.key /\ y.indexed = parent.indexed /\ y.kids = kids
      BY <1>5 DEF Struct
  <2>2. QED  BY <1>10, <2>1 DEF Alike, Same
<1> HIDE DEF x, y
<1>16. Table(struct, n)  BY <1>2, TableFacts
<1>17. Puts(struct, f, n, top[p], x)  BY <1>2, <1>4, <1>12, <1>16, TableSet
<1> HIDE DEF f
<1>18. Table(f, n)  BY <1>17 DEF Puts
<1>19. Puts(f, struct', n, s.caller, y)  BY <1>4, <1>6, <1>14, <1>18, TableSet
<1>20. top[p] # s.caller  BY <1>4
<1>21. struct'[top[p]] = x  BY <1>2, <1>17, <1>19, <1>20 DEF Puts
<1>22. struct'[s.caller] = y  BY <1>19 DEF Puts
<1>23. \A i \in 1 .. n : i # top[p] /\ i # s.caller => struct'[i] = struct[i]  BY <1>17, <1>19 DEF Puts
<1>24. /\ n' = n /\ top' = top /\ ask' = ask /\ result' = result
       /\ overlap' = overlap /\ calls' = calls
    BY DEF Unpublish
<1>25. InPlace(p)
  <2>1. \A i \in 1 .. n : i # top[p] => Alike(struct[i], struct'[i])
      BY <1>10, <1>15, <1>22, <1>23, AlikeSelf
  <2>2. Same(struct[top[p]], struct'[top[p]]) /\ struct'[top[p]].phase \in Building
      BY <1>10, <1>13, <1>21 DEF Building
  <2>3. Table(struct', n)  BY <1>19 DEF Puts
  <2>4. QED  BY <1>24, <2>1, <2>2, <2>3 DEF InPlace
<1>26. Lonely(p)  BY <1>2, <1>24, BusyLonely
<1>27. map' \in [Type -> 0 .. MaxStruct] /\ \A t \in Type : map'[t] = IF t = s.type THEN 0 ELSE map[t]
    BY <1>2, <1>7, <1>11, BoundAssumption DEF TypeOK
<1>28. Typed  BY <1>2, <1>24, <1>27 DEF Typed, TypeOK
<1>29. HasChild(s.type)  BY <1>2, <1>3, <1>10 DEF HasChild
<1>30. ~overlap => Excused(s.type)  BY <1>2, <1>3, <1>7, <1>10 DEF Unraced, MadeChild
<1>31. Sound(x)  BY <1>3, <1>13 DEF Sound
<1>32. Local(p)
  <2>1. ~overlap => \A i \in 1 .. n : \A t \in struct'[i].kids : t \in struct[i].kids \/ Excused(t)
    <3>1. SUFFICES ASSUME ~overlap, NEW i \in 1 .. n, NEW t \in struct'[i].kids
                   PROVE  t \in struct[i].kids \/ Excused(t)
        OBVIOUS
    <3>2. CASE i = top[p]  BY <1>10, <1>13, <1>21, <3>1, <3>2
    <3>3. CASE i = s.caller
      <4>1. t \in parent.kids \/ t = s.type  BY <1>10, <1>15, <1>22, <3>1, <3>3
      <4>2. QED  BY <1>10, <1>30, <3>1, <3>3, <4>1
    <3>4. CASE i # top[p] /\ i # s.caller  BY <1>23, <3>1, <3>4
    <3>5. QED  BY <3>2, <3>3, <3>4
  <2>2. \A t \in Type : map'[t] # 0 => map'[t] = map[t]  BY <1>27
  <2>3. \A t \in Shared : ~HasChild(t) => map'[t] = map[t]
    <3>1. Shared \subseteq Type  BY TypeAssumption DEF Shared
    <3>2. QED  BY <1>27, <1>29, <3>1
  <2>4. QED  BY <1>2, <1>13, <1>21, <1>24, <1>31, <2>1, <2>2, <2>3 DEF Local
<1>33. QED  BY <1>25, <1>26, <1>28, <1>32, InPlaceInv

\* A call that is answered at once: from the map, or with an error.
LEMMA AnswerInv ==
    ASSUME IInv, NEW p \in Proc, ask[p] # None, ~ask[p].isChild, NEW i \in 0 .. n, NEW ok \in BOOLEAN,
           ok => i # 0 /\ i = map[ask[p].type],
           Return(p, top[p], i, ok, struct),
           n' = n /\ top' = top /\ calls' = calls /\ overlap' = overlap
    PROVE  IInv'
<1> DEFINE c == top[p]
           s == struct[c]
<1>1. /\ TypeOK /\ Stack /\ Alone /\ Numbered /\ Waiting /\ Asking /\ Unraced
      /\ \A j \in 1 .. n : Sound(struct[j])
      /\ ask[p] \in Call
    BY DEF IInv, TypeOK
<1>2. c \in 0 .. n  BY <1>1, TableFacts DEF TypeOK, Numbered
<1>3. c # 0 => /\ c \in 1 .. n /\ Built(c) /\ s.by = p /\ s \in Struct /\ s.phase \in {"scan", "relate"}
               /\ s.phase = "scan" => Scanned(s)
  <2>1. SUFFICES ASSUME c # 0
                 PROVE  /\ c \in 1 .. n /\ Built(c) /\ s.by = p /\ s \in Struct /\ s.phase \in {"scan", "relate"}
                        /\ s.phase = "scan" => Scanned(s)
      OBVIOUS
  <2>2. Built(c) /\ s.by = p /\ c \in 1 .. n  BY <1>1, <1>2, <2>1 DEF Stack
  <2>3. Waits(c)  BY <2>2 DEF Waits
  <2>4. QED  BY <1>1, <2>2, <2>3, TableFacts DEF Waiting
<1>4. c # 0 => s.todo # <<>> /\ ask[p].type = Head(s.todo)  BY <1>1 DEF Asking, Awaits
<1>5. Table(struct, n)  BY <1>1, TableFacts
<1> HIDE DEF c
<1>6. /\ Table(struct', n)
      /\ \A j \in 1 .. n : j # c => struct'[j] = struct[j]
      /\ c # 0 => /\ Goes(s, struct'[c])
                  /\ \A t \in struct'[c].kids : t \in s.kids \/ (i # 0 /\ t \in struct[i].kids)
      /\ c # 0 /\ ok /\ s.phase = "relate" /\ BecomesChild(c, s, Head(s.todo), struct[i])
         => struct'[c] = s
    BY <1>1, <1>2, <1>3, <1>4, <1>5, ReturnTable DEF c
<1>7. /\ ask' \in [Proc -> Call \cup {None}]
      /\ \A q \in Proc : q # p => ask'[q] = ask[q]
      /\ ask'[p] # None =>
            /\ c # 0 /\ ok /\ s.phase = "relate" /\ s.todo # <<>>
            /\ BecomesChild(c, s, Head(s.todo), struct[i])
            /\ ask'[p] = NewCall(Head(s.todo), FALSE, TRUE)
      /\ result' \in [Proc -> 0 .. MaxStruct]
      /\ \A q \in Proc : result'[q] # result[q] => q = p /\ c = 0 /\ ok /\ result'[q] = i
      /\ map' \in [Type -> 0 .. MaxStruct]
      /\ \A t \in Type : map'[t] = map[t] \/ (map'[t] = 0 /\ t \notin Shared)
    BY <1>1, <1>2, <1>4, <1>5, ReturnRest DEF c
<1>8. c = top[p] /\ s = struct[c]  BY DEF c
<1> HIDE DEF s
<1>9. InPlace(p)
  <2>1. \A j \in 1 .. n : j # top[p] => Alike(struct[j], struct'[j])  BY <1>6, <1>8, AlikeSelf
  <2>2. top[p] # 0 => /\ Same(struct[top[p]], struct'[top[p]])
                      /\ struct'[top[p]].phase \in Building
      BY <1>3, <1>6, <1>8 DEF Goes, Building
  <2>3. QED  BY <1>6, <1>7, <2>1, <2>2 DEF InPlace
<1>10. Busy(p) /\ Lonely(p)  BY <1>1, BusyLonely DEF Busy
<1>11. Typed  BY <1>1, <1>7 DEF Typed, TypeOK
<1>12. ok => i \in 1 .. n /\ struct[i] \in Struct /\ struct[i].type = ask[p].type /\ Sound(struct[i])
  <2>1. SUFFICES ASSUME ok PROVE i \in 1 .. n /\ struct[i] \in Struct /\ struct[i].type = ask[p].type /\ Sound(struct[i])
      OBVIOUS
  <2>2. i \in 1 .. n  BY <2>1
  <2>3. ask[p].type \in Type  BY <1>1 DEF Call
  <2>4. QED  BY <1>1, <2>1, <2>2, <2>3, TableFacts DEF Numbered
<1>13. ASSUME ok, Built(i), ~overlap PROVE struct[i].by = p /\ c # 0 /\ (i = c \/ Waits(i))
  <2>1. i \in 1 .. n /\ i \in Nat /\ n \in Nat /\ struct[i].by \in Proc  BY <1>1, <1>12, <1>13, TableFacts, StructFields
  <2>2. i <= top[struct[i].by] /\ top[struct[i].by] \in Nat  BY <1>1, <1>13, <2>1, TableFacts DEF Stack, TypeOK
  <2>3. Busy(struct[i].by)  BY <2>1, <2>2 DEF Busy
  <2>4. struct[i].by = p  BY <1>1, <1>10, <1>13, <2>1, <2>3 DEF Alone
  <2>5. QED  BY <1>8, <2>1, <2>2, <2>4 DEF Waits
<1>14. ASSUME ask'[p] # None, ~overlap PROVE Excused(ask'[p].type)
  <2>1. /\ c # 0 /\ ok /\ s.phase = "relate" /\ ~HasKey(struct[i])
        /\ ask'[p] = NewCall(ask[p].type, FALSE, TRUE)
      BY <1>4, <1>7, <1>14 DEF BecomesChild
  <2> DEFINE t == ask[p].type
  <2>2. ask'[p].type = t /\ struct[i].type = t /\ t \in Type  BY <1>1, <1>12, <2>1 DEF NewCall, Call
  <2>3. SUFFICES ASSUME t \in Shared
                 PROVE  \/ t \notin KeyFirst /\ Embeds[t] # <<>>
                        \/ \E j \in 1 .. n : struct[j].type = t /\ struct[j].phase = "failed"
      BY <2>2 DEF Excused
  <2>4. t \in Keyed  BY <2>3 DEF Shared
  <2>5. struct[i].phase \notin {"relate", "done"}  BY <1>12, <2>1, <2>2, <2>4 DEF Sound
  <2>6. CASE struct[i].phase = "failed"  BY <1>12, <2>1, <2>2, <2>6
  <2>7. CASE struct[i].phase \in Building
    <3>1. Built(i)  BY <1>12, <2>1, <2>7 DEF Built
    <3>2. i # c  BY <1>8, <2>1, <2>5
    <3>3. Waits(i)  BY <1>13, <1>14, <2>1, <3>1, <3>2
    <3>4. struct[i].phase = "scan"  BY <1>1, <1>12, <2>1, <2>5, <3>1, <3>3 DEF Waiting
    <3>5. Scanned(struct[i])  BY <1>1, <1>12, <2>1, <3>1, <3>3, <3>4 DEF Waiting
    <3>6. QED  BY <2>1, <2>2, <3>5 DEF Scanned
  <2>8. struct[i].phase \in Phases  BY <1>12, <2>1, StructFields
  <2>9. QED  BY <2>5, <2>6, <2>7, <2>8 DEF Phases, Building
<1>15. c # 0 =>
          LET x == struct'[c]
          IN  /\ ask'[p] # None => x.phase \in {"scan", "relate"}
              /\ x.phase = "scan" /\ (ask'[p] # None \/ x.adopt # {}) => Scanned(x)
              /\ Sound(x)
  <2> SUFFICES ASSUME c # 0
               PROVE  /\ ask'[p] # None => struct'[c].phase \in {"scan", "relate"}
                      /\ struct'[c].phase = "scan" => Scanned(struct'[c])
                      /\ Sound(struct'[c])
      OBVIOUS
  <2>1. Goes(s, struct'[c]) /\ Sound(s)  BY <1>1, <1>3, <1>6, <1>8
  <2>2. ask'[p] # None => struct'[c].phase = "relate"  BY <1>6, <1>7
  <2>3. struct'[c].phase = "scan" => Scanned(struct'[c])  BY <1>3, <2>1 DEF Goes, Same, Scanned
  <2>4. Sound(struct'[c])  BY <1>3, <2>1 DEF Goes, Same, Sound
  <2>5. QED  BY <2>2, <2>3, <2>4
<1>16. ask'[p] # None =>
          /\ c # 0 /\ Awaits(struct'[c], ask'[p].type, ask'[p].isChild)
          /\ ~ask'[p].embedded /\ ~ask'[p].missed
  <2> SUFFICES ASSUME ask'[p] # None
               PROVE  /\ c # 0 /\ Awaits(struct'[c], ask'[p].type, ask'[p].isChild)
                      /\ ~ask'[p].embedded /\ ~ask'[p].missed
      OBVIOUS
  <2>1. c # 0 /\ struct'[c] = s /\ s.todo # <<>> /\ ask'[p] = NewCall(Head(s.todo), FALSE, TRUE)
      BY <1>6, <1>7
  <2>2. QED  BY <2>1 DEF NewCall, Awaits
<1>17. result'[p] # 0 /\ result'[p] # result[p] =>
          /\ result'[p] \in 1 .. n
          /\ Built(result'[p]) => overlap /\ struct[result'[p]].by # p
          /\ ~Built(result'[p]) => struct[result'[p]].phase \in {"done", "failed"}
  <2> SUFFICES ASSUME result'[p] # 0 /\ result'[p] # result[p]
               PROVE  /\ i \in 1 .. n /\ result'[p] = i
                      /\ Built(i) => overlap /\ struct[i].by # p
                      /\ ~Built(i) => struct[i].phase \in {"done", "failed"}
      OBVIOUS
  <2>1. c = 0 /\ ok /\ result'[p] = i /\ i \in 1 .. n /\ struct[i] \in Struct  BY <1>7, <1>12
  <2>2. Built(i) => overlap  BY <1>13, <2>1
  <2>3. Built(i) => struct[i].by # p
    <3>1. Built(i) => i <= top[struct[i].by]  BY <1>1, <2>1 DEF Stack
    <3>2. i > 0 /\ ~(i <= 0)  BY <1>1, <2>1, TableFacts
    <3>3. QED  BY <1>8, <2>1, <3>1, <3>2
  <2>4. ~Built(i) => struct[i].phase \in {"done", "failed"}
      BY <2>1, StructFields DEF Built, Phases, Building
  <2>5. QED  BY <2>1, <2>2, <2>3, <2>4
<1>18. ~overlap => \A j \in 1 .. n : \A t \in struct'[j].kids : t \in struct[j].kids \/ Excused(t)
  <2>1. SUFFICES ASSUME ~overlap, NEW j \in 1 .. n, NEW t \in struct'[j].kids, t \notin struct[j].kids
                 PROVE  Excused(t)
      OBVIOUS
  <2>2. j = c /\ c # 0 /\ i # 0 /\ t \in struct[i].kids  BY <1>6, <1>8, <2>1
  <2>3. i \in 1 .. n /\ struct[i] \in Struct  BY <1>1, <2>2, TableFacts
  <2>4. t \in Type  BY <2>2, <2>3, StructFields
  <2>5. QED  BY <1>1, <2>1, <2>2, <2>3, <2>4 DEF Unraced, MadeChild
<1>19. /\ \A t \in Type : map'[t] # 0 => map'[t] = map[t]
       /\ \A t \in Shared : map'[t] = map[t]
       /\ \A q \in Proc : q # p => result'[q] = result[q]
  <2>1. Shared \subseteq Type  BY TypeAssumption DEF Shared
  <2>2. QED  BY <1>7, <2>1
<1>20. Local(p)
  <2>1. \A t \in Type : ask'[p] # None /\ ~overlap /\ ask'[p].type = t => Excused(t)  BY <1>14
  <2>2. QED  BY <1>8, <1>15, <1>16, <1>17, <1>18, <1>19, <2>1 DEF Local
<1>21. QED  BY <1>9, <1>10, <1>11, <1>20, InPlaceInv

LEMMA HitInv == ASSUME IInv, NEW p \in Proc, Hit(p) PROVE IInv'
<1>1. TypeOK /\ Numbered /\ ask[p] \in Call  BY DEF IInv, TypeOK, Hit
<1>2. ask[p].type \in Type  BY <1>1 DEF Call
<1>3. map[ask[p].type] \in 0 .. n /\ map[ask[p].type] # 0  BY <1>1, <1>2, TableFacts DEF Hit, TypeOK, Numbered
<1>4. QED  BY <1>3, AnswerInv DEF Hit

LEMMA RejectInv == ASSUME IInv, NEW p \in Proc, Reject(p) PROVE IInv'
<1>1. 0 \in 0 .. n  BY TableFacts DEF IInv
<1>2. QED  BY <1>1, AnswerInv DEF Reject
-----------------------------------------------------------------------------
(* A struct is created on top of a stack *)

LEMMA CreateInv == ASSUME IInv, NEW p \in Proc, Create(p) PROVE IInv'
<1> DEFINE c == top[p]
           a == ask[p]
           m == n + 1
           phase == IF a.isChild THEN "child" ELSE "scan"
           x == [type |-> a.type, phase |-> phase,
                 caller |-> c, by |-> p, embedded |-> a.embedded,
                 isChild |-> a.isChild, todo |-> Embeds[a.type], own |-> {}, rels |-> {},
                 kids |-> {}, adopt |-> {}, key |-> "none", rooted |-> FALSE,
                 indexed |-> FALSE]
<1>1. /\ TypeOK /\ Stack /\ Alone /\ Numbered /\ Waiting /\ Asking /\ Called /\ Unraced
      /\ \A j \in 1 .. n : Sound(struct[j])
      /\ HalfBuiltOnlyIfRacedOrFailed
    BY DEF IInv
<1>2. /\ n < MaxStruct /\ n' = m
      /\ struct' = [struct EXCEPT ![m] = x]
      /\ map' = IF a.type \in Inline THEN map ELSE [map EXCEPT ![a.type] = m]
      /\ top' = [top EXCEPT ![p] = m] /\ ask' = [ask EXCEPT ![p] = None]
      /\ result' = result /\ calls' = calls /\ overlap' = overlap
    BY DEF Create, Publish
<1>3. a # None /\ (a.isChild \/ a.missed)  BY DEF Create
<1>4. a \in Call /\ a.type \in Type /\ a.embedded \in BOOLEAN /\ a.isChild \in BOOLEAN
    BY <1>1, <1>3 DEF TypeOK, Call
<1>5. /\ n \in Nat /\ MaxStruct \in Nat /\ m \in Nat /\ m <= MaxStruct /\ m \in Id /\ 1 .. n' = 1 .. n \cup {m}
      /\ m \notin 1 .. n /\ m # 0 /\ n < m /\ n' \in 0 .. MaxStruct
    BY <1>1, <1>2, TableFacts, BoundAssumption DEF Id
<1>6. c \in 0 .. n /\ c \in 0 .. MaxStruct  BY <1>1, <1>5, TableFacts DEF TypeOK, Numbered
<1>7. phase \in {"child", "scan"} /\ (phase = "child" => a.isChild)  OBVIOUS
<1> HIDE DEF a, c, m, phase
<1>8. x \in Struct
  <2>1. phase \in Phases /\ "none" \in Keys /\ FALSE \in BOOLEAN  BY <1>7 DEF Phases, Keys
  <2>2. Embeds[a.type] \in Seq(Type)  BY <1>4, TypeAssumption
  <2>3. QED  BY <1>4, <1>6, <2>1, <2>2 DEF Struct
<1>9. /\ x.type = a.type /\ x.phase = phase /\ x.caller = c /\ x.by = p /\ x.embedded = a.embedded
      /\ x.isChild = a.isChild /\ x.todo = Embeds[a.type] /\ x.kids = {} /\ x.adopt = {}
    OBVIOUS
<1> HIDE DEF x
<1>10. /\ struct' \in [Id -> Struct \cup {None}] /\ struct'[m] = x
       /\ \A i \in Id : i # m => struct'[i] = struct[i]
    BY <1>1, <1>2, <1>5, <1>8 DEF TypeOK
<1>11. \A i \in 1 .. n : struct'[i] = struct[i] /\ i \in Id /\ struct[i] \in Struct
    BY <1>1, <1>5, <1>10, TableFacts
<1>12. /\ top' \in [Proc -> 0 .. MaxStruct] /\ top'[p] = m /\ \A q \in Proc : q # p => top'[q] = top[q]
    BY <1>1, <1>2, <1>5 DEF TypeOK
<1>13. /\ ask' \in [Proc -> Call \cup {None}] /\ ask'[p] = None /\ \A q \in Proc : q # p => ask'[q] = ask[q]
    BY <1>1, <1>2 DEF TypeOK
<1>14. /\ map' \in [Type -> 0 .. MaxStruct]
       /\ \A t \in Type : map'[t] = map[t] \/ (t = a.type /\ map'[t] = m)
       /\ a.type \notin Inline => map'[a.type] = m
    BY <1>1, <1>2, <1>4, <1>5 DEF TypeOK
<1>15. TypeOK'
  <2>1. \A i \in Id : IF i <= n' THEN struct'[i] \in Struct ELSE struct'[i] = None
    <3>1. SUFFICES ASSUME NEW i \in Id
                   PROVE  IF i <= n' THEN struct'[i] \in Struct ELSE struct'[i] = None
        OBVIOUS
    <3>2. CASE i = m  BY <1>2, <1>5, <1>8, <1>10, <3>2
    <3>3. CASE i # m
      <4>1. struct'[i] = struct[i]  BY <1>10, <3>3
      <4>2. i <= n' <=> i <= n  BY <1>2, <1>5, <3>3 DEF Id, m
      <4>3. QED  BY <1>1, <4>1, <4>2 DEF TypeOK
    <3>4. QED  BY <3>2, <3>3
  <2>2. calls' \in [Proc -> 0 .. MaxCalls] /\ result' \in [Proc -> 0 .. MaxStruct] /\ overlap' \in BOOLEAN
      BY <1>1, <1>2 DEF TypeOK
  <2>3. QED  BY <1>5, <1>10, <1>12, <1>13, <1>14, <2>1, <2>2 DEF TypeOK
<1>16. \A i \in 1 .. n : Built(i)' <=> Built(i)
    BY <1>5, <1>11 DEF Built
<1>17. m \in 1 .. n' /\ struct'[m].phase \in Building /\ \A i : i = m => Built(i)'
    BY <1>5, <1>7, <1>9, <1>10 DEF Built, Building
<1>18. \A i : Built(i)' => i \in 1 .. n \/ i = m  BY <1>5 DEF Built
<1>19. \A i : Built(i) => i \in 1 .. n  BY DEF Built
<1>20. c # 0 => Built(c) /\ struct[c].by = p  BY <1>1 DEF Stack, c
<1>21. Numbered'
  <2>1. ASSUME NEW t \in Type, map'[t] # 0 PROVE map'[t] <= n' /\ struct'[map'[t]].type = t
    <3>1. CASE map'[t] = map[t]
      <4>1. map[t] \in 1 .. n /\ struct[map[t]].type = t
          BY <1>1, <1>5, <2>1, <3>1 DEF Numbered, TypeOK
      <4>2. QED  BY <1>2, <1>5, <1>11, <3>1, <4>1
    <3>2. CASE t = a.type /\ map'[t] = m  BY <1>2, <1>5, <1>9, <1>10, <3>2
    <3>3. QED  BY <1>14, <3>1, <3>2
  <2>2. ASSUME NEW q \in Proc PROVE top'[q] <= n' /\ result'[q] <= n'
    <3>1. top[q] \in 0 .. n /\ result[q] \in 0 .. n  BY <1>1, <1>5 DEF Numbered, TypeOK
    <3>2. QED  BY <1>2, <1>5, <1>12, <3>1
  <2>3. ASSUME NEW i \in 1 .. n' PROVE struct'[i].caller < i
    <3>1. CASE i = m  BY <1>5, <1>6, <1>9, <1>10, <3>1
    <3>2. CASE i \in 1 .. n  BY <1>1, <1>11, <3>2 DEF Numbered
    <3>3. QED  BY <1>5, <3>1, <3>2
  <2>4. QED  BY <2>1, <2>2, <2>3 DEF Numbered
<1>22. Stack'
  <2>1. ASSUME NEW q \in Proc, top'[q] # 0 PROVE Built(top[q])' /\ struct'[top'[q]].by = q
    <3>1. CASE q = p
      <4>1. top'[q] = m  BY <1>12, <3>1
      <4>2. QED  BY <1>9, <1>10, <1>17, <3>1, <4>1 DEF Built
    <3>2. CASE q # p
      <4>1. top'[q] = top[q]  BY <1>12, <3>2
      <4>2. Built(top[q]) /\ struct[top[q]].by = q  BY <1>1, <2>1, <4>1 DEF Stack
      <4>3. top[q] \in 1 .. n  BY <4>2 DEF Built
      <4>4. QED  BY <1>5, <1>11, <4>1, <4>2, <4>3 DEF Built
    <3>3. QED  BY <3>1, <3>2
  <2>2. ASSUME NEW i \in 1 .. n, Built(i)
        PROVE  /\ i <= top'[struct'[i].by]
               /\ struct'[i].caller # 0 => /\ Built(struct[i].caller)
                                           /\ struct'[struct'[i].caller].by = struct'[i].by
               /\ i = top'[struct'[i].by] \/ (i = c /\ struct'[i].by = p)
                                          \/ \E j \in 1 .. n : Built(j) /\ struct'[j].caller = i
    <3>1. struct'[i] = struct[i] /\ struct[i].by \in Proc  BY <1>11, StructFields
    <3>2. i <= top[struct[i].by] /\ top[struct[i].by] \in 0 .. n  BY <1>1, <2>2 , <3>1, <1>5 DEF Stack, TypeOK, Numbered
    <3>3. i <= top'[struct[i].by]
      <4>1. CASE struct[i].by = p  BY <1>5, <1>12, <3>2, <4>1
      <4>2. CASE struct[i].by # p  BY <1>12, <3>1, <3>2, <4>2
      <4>3. QED  BY <4>1, <4>2
    <3>4. struct[i].caller # 0 => /\ Built(struct[i].caller) /\ struct[i].caller \in 1 .. n
                                  /\ struct[struct[i].caller].by = struct[i].by
        BY <1>1, <1>19, <2>2 DEF Stack
    <3>5. i = top[struct[i].by] \/ \E j \in 1 .. n : Built(j) /\ struct[j].caller = i
        BY <1>1, <2>2 DEF Stack
    <3>6. i = top[struct[i].by] => i = top'[struct[i].by] \/ (i = c /\ struct[i].by = p)
        BY <1>12, <3>1 DEF c
    <3>7. QED  BY <1>11, <3>1, <3>3, <3>4, <3>5, <3>6
  <2>3. ASSUME NEW i \in 1 .. n', Built(i)'
        PROVE  /\ i <= top'[struct'[i].by]
               /\ struct'[i].caller # 0 => /\ Built(struct[i].caller)'
                                           /\ struct'[struct'[i].caller].by = struct'[i].by
               /\ i = top'[struct'[i].by] \/ \E j \in 1 .. n' : Built(j)' /\ struct'[j].caller = i
    <3>1. CASE i = m
      <4>1. m = top'[struct'[m].by] /\ struct'[m].caller = c  BY <1>9, <1>10, <1>12
      <4>2. c # 0 => \A j : j = c => Built(j)' /\ struct'[j].by = p
        <5>1. c # 0 => c \in 1 .. n  BY <1>19, <1>20
        <5>2. QED  BY <1>5, <1>11, <1>16, <1>20, <5>1
      <4>3. struct'[i].caller # 0 => /\ Built(struct[i].caller)'
                                     /\ struct'[struct'[i].caller].by = struct'[i].by
        <5>1. struct'[i].caller = c /\ struct'[i].by = p  BY <1>9, <1>10, <3>1
        <5>2. QED  BY <4>2, <5>1
      <4>4. QED  BY <1>5, <3>1, <4>1, <4>3
    <3>2. CASE i \in 1 .. n
      <4>1. Built(i)  BY <1>16, <2>3, <3>2
      <4>2. \E j \in 1 .. n' : i = c /\ struct'[i].by = p => Built(j)' /\ struct'[j].caller = i
          BY <1>5, <1>9, <1>10, <1>17
      <4>3. struct'[i].caller # 0 => Built(struct[i].caller)'
          BY <1>11, <1>16, <1>19, <2>2, <3>2, <4>1 DEF Built
      <4>4. QED  BY <1>5, <1>16, <2>2, <3>2, <4>1, <4>2, <4>3
    <3>3. QED  BY <1>5, <3>1, <3>2
  <2>4. ASSUME NEW i \in 1 .. n', NEW j \in 1 .. n', Built(i)', Built(j)', struct'[i].by = struct'[j].by, i < j
        PROVE  i <= struct'[j].caller
    <3>1. i \in 1 .. n /\ Built(i)  BY <1>2, <1>5, <1>16, <2>4
    <3>2. CASE j = m
      <4>1. struct[i].by = p /\ struct'[j].caller = c  BY <1>9, <1>10, <1>11, <2>4, <3>1, <3>2
      <4>2. QED  BY <1>1, <3>1, <4>1 DEF Stack, c
    <3>3. CASE j \in 1 .. n  BY <1>1, <1>11, <1>16, <2>4, <3>1, <3>3 DEF Stack
    <3>4. QED  BY <1>5, <3>2, <3>3
  <2>5. QED  BY <2>1, <2>3, <2>4 DEF Stack
<1>23. Waiting'
  <2>1. SUFFICES ASSUME NEW i \in 1 .. n', Built(i)'
                 PROVE  /\ Waits(i)' => struct'[i].phase \in {"scan", "relate"}
                        /\ struct'[i].phase = "scan" /\ (Waits(i)' \/ struct'[i].adopt # {}) => Scanned(struct'[i])
      BY DEF Waiting, Scanned
  <2>2. CASE i = m
    <3>1. struct'[i] = x /\ x.by = p  BY <1>9, <1>10, <2>2
    <3>2. ~Waits(i)'  BY <1>12, <1>13, <2>2, <3>1 DEF Waits
    <3>3. QED  BY <1>9, <3>1, <3>2
  <2>3. CASE i \in 1 .. n
    <3>1. Built(i) /\ struct'[i] = struct[i] /\ struct[i].by \in Proc  BY <1>11, <1>16, <2>1, <2>3, StructFields
    <3>2. Waits(i)' => Waits(i)
      <4>1. CASE struct[i].by = p  BY <1>3, <4>1 DEF Waits, a
      <4>2. CASE struct[i].by # p  BY <1>12, <1>13, <3>1, <4>2 DEF Waits
      <4>3. QED  BY <4>1, <4>2
    <3>3. QED  BY <1>1, <2>3, <3>1, <3>2 DEF Waiting
  <2>4. QED  BY <1>5, <2>2, <2>3
<1>24. Asking'
  <2>1. SUFFICES ASSUME NEW q \in Proc, ask'[q] # None
                 PROVE  /\ top'[q] = 0 => ~ask'[q].isChild /\ ~ask'[q].embedded
                        /\ top'[q] # 0 => Awaits(struct'[top'[q]], ask'[q].type, ask'[q].isChild)
                        /\ ask'[q].embedded => ask'[q].type \in Fields(Embeds[struct'[top'[q]].type])
                        /\ ask'[q].isChild => ~ask'[q].missed
      BY DEF Asking
  <2>2. q # p /\ ask'[q] = ask[q] /\ top'[q] = top[q]  BY <1>12, <1>13, <2>1
  <2>3. top[q] # 0 => struct'[top[q]] = struct[top[q]]  BY <1>1, <1>11, <1>19 DEF Stack
  <2>4. ask[q].embedded => top[q] # 0  BY <1>1, <2>1, <2>2 DEF Asking
  <2>5. QED  BY <1>1, <2>1, <2>2, <2>3, <2>4 DEF Asking
<1>25. Called'
  <2>1. SUFFICES ASSUME NEW i \in 1 .. n'
                 PROVE  /\ Built(i)' /\ struct'[i].caller # 0 =>
                              Awaits(struct'[struct'[i].caller], struct'[i].type, struct'[i].isChild)
                        /\ struct'[i].embedded => /\ struct'[i].caller # 0
                                                  /\ struct'[i].type \in Fields(Embeds[struct'[struct'[i].caller].type])
                        /\ struct'[i].isChild => struct'[i].caller # 0
      BY DEF Called
  <2>2. CASE i = m
    <3>1. /\ struct'[i].type = a.type /\ struct'[i].caller = c /\ struct'[i].embedded = a.embedded
          /\ struct'[i].isChild = a.isChild
        BY <1>9, <1>10, <2>2
    <3>2. c # 0 => struct'[c] = struct[c]  BY <1>11, <1>19, <1>20
    <3>3. /\ c = 0 => ~a.isChild /\ ~a.embedded
          /\ c # 0 => Awaits(struct[c], a.type, a.isChild)
          /\ a.embedded => a.type \in Fields(Embeds[struct[c].type])
        BY <1>1, <1>3 DEF Asking, a, c
    <3>4. QED  BY <3>1, <3>2, <3>3
  <2>3. CASE i \in 1 .. n
    <3>1. struct'[i] = struct[i] /\ (Built(i)' <=> Built(i))  BY <1>11, <1>16, <2>3
    <3>2. struct[i].caller # 0 => struct[i].caller \in 1 .. n
      <4>1. struct[i].caller \in 0 .. MaxStruct /\ struct[i].caller < i  BY <1>1, <1>11, <2>3, StructFields DEF Numbered
      <4>2. QED  BY <1>5, <2>3, <4>1
    <3>3. struct[i].caller # 0 => struct'[struct[i].caller] = struct[struct[i].caller]  BY <1>11, <3>2
    <3>4. QED  BY <1>1, <2>3, <3>1, <3>3 DEF Called
  <2>4. QED  BY <1>5, <2>2, <2>3
<1>26. (\A i \in 1 .. n : Sound(struct[i]))'
  <2>1. Sound(x)  BY <1>7, <1>9 DEF Sound
  <2>2. \A i \in 1 .. n' : Sound(struct'[i])  BY <1>1, <1>5, <1>10, <1>11, <2>1
  <2>3. QED  BY <2>2
<1>27. \A q \in Proc : q # p /\ Busy(q)' => Busy(q) /\ Busy(p)  BY <1>3, <1>12, <1>13 DEF Busy, a
<1>28. ~overlap => \A q \in Proc : q # p => ~Busy(q)
    BY <1>1, <1>3 DEF Alone, Busy, a
<1>29. Alone'  BY <1>2, <1>27, <1>28 DEF Alone
<1>30. Unraced'
  <2>1. SUFFICES ASSUME ~overlap PROVE
          (/\ \A q \in Proc : ask[q] # None /\ ask[q].missed => map[ask[q].type] = 0
           /\ \A t \in Shared : ~HasChild(t) =>
                \A i \in 1 .. n : Built(i) /\ struct[i].type = t => map[t] = i
           /\ \A t \in Type : MadeChild(t) => Excused(t))'
      BY <1>2 DEF Unraced
  <2>2. \A q \in Proc : ask'[q] = None  BY <1>13, <1>28, <2>1 DEF Busy
  <2>3. ASSUME NEW t \in Shared, ~HasChild(t)', NEW i \in 1 .. n', Built(i)', struct'[i].type = t
        PROVE  map'[t] = i
    <3>1. t \in Type /\ t \notin Inline  BY TypeAssumption DEF Shared
    <3>2. CASE i = m
      <4>1. a.type = t  BY <1>9, <1>10, <2>3, <3>2
      <4>2. QED  BY <1>14, <3>1, <3>2, <4>1
    <3>3. CASE i \in 1 .. n
      <4>1. Built(i) /\ struct[i].type = t  BY <1>11, <1>16, <2>3, <3>3
      <4>2. ~HasChild(t)  BY <1>5, <1>11, <2>3 DEF HasChild
      <4>3. map[t] = i  BY <1>1, <2>1, <3>3, <4>1, <4>2 DEF Unraced
      <4>4. a.type # t
        <5>1. SUFFICES ASSUME a.type = t PROVE FALSE  OBVIOUS
        <5>2. ~a.isChild  BY <1>5, <1>9, <1>10, <2>3, <5>1 DEF HasChild
        <5>3. map[t] = 0  BY <1>1, <1>3, <2>1, <5>1, <5>2 DEF Unraced, a
        <5>4. QED  BY <1>5, <3>3, <4>3, <5>3
      <4>5. QED  BY <1>14, <3>1, <4>3, <4>4
    <3>4. QED  BY <1>5, <3>2, <3>3
  <2>4. ASSUME NEW t \in Type, MadeChild(t)' PROVE Excused(t)'
    <3>1. MadeChild(t)
      <4>1. PICK i \in 1 .. n' : t \in struct'[i].kids \/ (struct'[i].isChild /\ struct'[i].type = t)
          BY <2>2, <2>4 DEF MadeChild
      <4>2. CASE i = m
        <5>1. a.isChild /\ a.type = t  BY <1>9, <1>10, <4>1, <4>2
        <5>2. QED  BY <1>3, <5>1 DEF MadeChild, a
      <4>3. CASE i \in 1 .. n  BY <1>11, <4>1, <4>3 DEF MadeChild
      <4>4. QED  BY <1>5, <4>2, <4>3
    <3>2. Excused(t)  BY <1>1, <2>1, <3>1 DEF Unraced
    <3>3. QED  BY <1>5, <1>11, <3>2 DEF Excused
  <2>5. QED  BY <2>2, <2>3, <2>4
<1>31. HalfBuiltOnlyIfRacedOrFailed'
  <2>1. \A q \in Proc : result[q] # 0 => result[q] \in 1 .. n  BY <1>1, <1>5 DEF Numbered, TypeOK
  <2>2. QED  BY <1>1, <1>2, <1>11, <2>1 DEF HalfBuiltOnlyIfRacedOrFailed
<1>32. QED  BY <1>15, <1>21, <1>22, <1>23, <1>24, <1>25, <1>26, <1>29, <1>30, <1>31 DEF IInv
-----------------------------------------------------------------------------
(* A setup returns to its caller *)

\* x is the struct s after its setup.
Finished(s, x, ok) ==
    /\ x \in Struct /\ Same(s, x) /\ x.kids = s.kids /\ x.adopt = s.adopt /\ x.key = s.key
    /\ x.phase = IF ok THEN "done" ELSE "failed"
    /\ ok => s.phase = "relate" /\ (x.indexed \/ x.embedded)

LEMMA LeaveInv ==
    ASSUME IInv, NEW p \in Proc, NEW phase, In(p, phase), NEW ok \in BOOLEAN, NEW x,
           Finished(struct[top[p]], x, ok), Leave(p, ok, x)
    PROVE  IInv'
<1> DEFINE i == top[p]
           c == x.caller
           f == [struct EXCEPT ![i] = x]
           s == struct[c]
<1>1. /\ TypeOK /\ Stack /\ Alone /\ Numbered /\ Waiting /\ Asking /\ Called /\ Unraced
      /\ \A j \in 1 .. n : Sound(struct[j])
      /\ HalfBuiltOnlyIfRacedOrFailed
    BY DEF IInv
<1>2. Busy(p) /\ ask[p] = None /\ i # 0 /\ i \in 1 .. n /\ Built(i) /\ struct[i] \in Struct /\ struct[i].by = p
      /\ Sound(struct[i])
    BY InFacts
<1>3. /\ top' = [top EXCEPT ![p] = c] /\ Return(p, c, i, ok, f)
      /\ n' = n /\ calls' = calls /\ overlap' = overlap
    BY DEF Leave
<1>4. n \in Nat /\ MaxStruct \in Nat /\ n \in 0 .. MaxStruct /\ Table(struct, n)  BY <1>1, TableFacts, BoundAssumption DEF TypeOK
<1>5. /\ x \in Struct /\ x.type = struct[i].type /\ x.by = p /\ x.caller = struct[i].caller
      /\ x.embedded = struct[i].embedded /\ x.isChild = struct[i].isChild
      /\ x.kids = struct[i].kids /\ x.phase = IF ok THEN "done" ELSE "failed"
      /\ ok => struct[i].phase = "relate"
      /\ Same(struct[i], x)
    BY <1>2 DEF Finished, Same
<1>6. Sound(x)
  <2>1. ok /\ x.type \in Keyed => HasKey(x)  BY <1>2, <1>5 DEF Sound, Finished, HasKey
  <2>2. QED  BY <1>2, <1>5, <2>1 DEF Sound, Finished
<1>7. c < i /\ c \in 0 .. n /\ c # i /\ c \in Nat /\ c \in 0 .. MaxStruct /\ i \in Nat
  <2>1. c < i  BY <1>1, <1>2, <1>5 DEF Numbered
  <2>2. c \in 0 .. MaxStruct  BY <1>5, StructFields
  <2>3. QED  BY <1>2, <1>4, <2>1, <2>2
<1> HIDE DEF c
<1>8. c # 0 => /\ c \in 1 .. n /\ Built(c) /\ s.by = p /\ s \in Struct /\ s.phase \in {"scan", "relate"}
               /\ s.phase = "scan" => Scanned(s)
               /\ Awaits(s, x.type, x.isChild)
  <2>1. SUFFICES ASSUME c # 0
                 PROVE  /\ c \in 1 .. n /\ Built(c) /\ s.by = p /\ s \in Struct /\ s.phase \in {"scan", "relate"}
                        /\ s.phase = "scan" => Scanned(s)
                        /\ Awaits(s, x.type, x.isChild)
      OBVIOUS
  <2>2. c = struct[i].caller  BY <1>5 DEF c
  <2>3. Built(c) /\ s.by = p  BY <1>1, <1>2, <2>1, <2>2 DEF Stack
  <2>4. c \in 1 .. n /\ s \in Struct  BY <1>1, <2>3, TableFacts DEF Built
  <2>5. Waits(c)  BY <1>7, <2>3 DEF Waits
  <2>6. Awaits(s, x.type, x.isChild)  BY <1>1, <1>2, <1>5, <2>1, <2>2 DEF Called
  <2>7. QED  BY <1>1, <2>3, <2>4, <2>5, <2>6 DEF Waiting
<1>9. Puts(struct, f, n, i, x)  BY <1>2, <1>4, <1>5, TableSet
<1> HIDE DEF f
<1>10. Table(f, n) /\ f[i] = x /\ (c # 0 => f[c] = s) /\ \A j \in 1 .. n : j # i => f[j] = struct[j]
    BY <1>7, <1>8, <1>9 DEF Puts
<1>11. c = x.caller /\ s = struct[c] /\ i = top[p]  BY DEF c
<1> HIDE DEF s, i
<1>12. c # 0 /\ ok /\ ~Adopted(c, i, f) => f[c].todo # <<>>
    BY <1>2, <1>8, <1>10, <1>11 DEF Adopted, Awaits
<1>13. c # 0 /\ s.phase = "relate" => s.todo # <<>> /\ x.type = Head(s.todo)  BY <1>8 DEF Awaits
<1>14. i \in 0 .. n /\ (ok => i # 0) /\ (c # 0 => f[c].phase \in {"scan", "relate"})
       /\ (c # 0 /\ ok /\ f[c].phase = "relate" => f[c].todo # <<>>)
    BY <1>2, <1>4, <1>8, <1>10, <1>13
<1>15. /\ Table(struct', n)
       /\ \A j \in 1 .. n : j # c => struct'[j] = f[j]
       /\ c # 0 => /\ Goes(f[c], struct'[c])
                   /\ \A t \in struct'[c].kids : t \in f[c].kids \/ (i # 0 /\ t \in f[i].kids)
       /\ c # 0 /\ ok /\ f[c].phase = "relate" /\ BecomesChild(c, f[c], Head(f[c].todo), f[i])
          => struct'[c] = f[c]
    BY <1>1, <1>3, <1>7, <1>10, <1>12, <1>14, ReturnTable
<1>16. /\ ask' \in [Proc -> Call \cup {None}]
       /\ \A q \in Proc : q # p => ask'[q] = ask[q]
       /\ ask'[p] # None =>
             /\ c # 0 /\ ok /\ f[c].phase = "relate" /\ f[c].todo # <<>>
             /\ BecomesChild(c, f[c], Head(f[c].todo), f[i])
             /\ ask'[p] = NewCall(Head(f[c].todo), FALSE, TRUE)
       /\ result' \in [Proc -> 0 .. MaxStruct]
       /\ \A q \in Proc : result'[q] # result[q] => q = p /\ c = 0 /\ ok /\ result'[q] = i
       /\ map' \in [Type -> 0 .. MaxStruct]
       /\ \A t \in Type : map'[t] = map[t] \/ (map'[t] = 0 /\ t \notin Shared)
    BY <1>1, <1>3, <1>7, <1>10, <1>14, ReturnRest
<1>17. \A j \in 1 .. n : j # i /\ j # c => struct'[j] = struct[j]  BY <1>10, <1>15
<1>18. struct'[i] = x  BY <1>2, <1>7, <1>10, <1>15
<1>19. c # 0 => Goes(s, struct'[c])  BY <1>10, <1>15
<1>20. ASSUME NEW j \in 1 .. n PROVE Same(struct[j], struct'[j]) /\ struct[j] \in Struct /\ struct'[j] \in Struct
  <2>1. CASE j = i  BY <1>2, <1>5, <1>18, <2>1
  <2>2. CASE j = c /\ c # 0  BY <1>8, <1>11, <1>19, <2>2 DEF Goes
  <2>3. CASE j # i /\ j # c  BY <1>1, <1>17, <2>3, AlikeSelf, TableFacts
  <2>4. j # 0  BY <1>4
  <2>5. QED  BY <2>1, <2>2, <2>3, <2>4
<1>21. ASSUME NEW j \in 1 .. n
       PROVE  /\ struct'[j].type = struct[j].type /\ struct'[j].by = struct[j].by
              /\ struct'[j].caller = struct[j].caller /\ struct'[j].isChild = struct[j].isChild
              /\ struct'[j].embedded = struct[j].embedded
    BY <1>20 DEF Same
<1>22. ASSUME NEW j PROVE Built(j)' <=> Built(j) /\ j # i
  <2>1. CASE j = i
    <3>1. struct'[j].phase \in {"done", "failed"}  BY <1>5, <1>18, <2>1
    <3>2. QED  BY <2>1, <3>1 DEF Built, Building
  <2>2. CASE j = c /\ j \in 1 .. n
    <3>1. c # 0 /\ j # i  BY <1>4, <1>7, <2>2
    <3>2. struct'[j].phase \in Building /\ Built(j)  BY <1>8, <1>19, <2>2, <3>1 DEF Goes, Building
    <3>3. QED  BY <1>3, <2>2, <3>1, <3>2 DEF Built
  <2>3. CASE j # i /\ j # c /\ j \in 1 .. n  BY <1>3, <1>17, <2>3 DEF Built
  <2>4. CASE j \notin 1 .. n  BY <1>3, <2>4 DEF Built
  <2>5. QED  BY <2>1, <2>2, <2>3, <2>4
<1>23. /\ top' \in [Proc -> 0 .. MaxStruct] /\ top'[p] = c /\ \A q \in Proc : q # p => top'[q] = top[q]
    BY <1>1, <1>3, <1>7 DEF TypeOK
<1>24. TypeOK'
  <2>1. /\ \A j \in Id : IF j <= n THEN struct'[j] \in Struct ELSE struct'[j] = None
        /\ struct' \in [Id -> Struct \cup {None}]
      BY <1>15 DEF Table
  <2>2. calls' \in [Proc -> 0 .. MaxCalls] /\ overlap' \in BOOLEAN  BY <1>1, <1>3 DEF TypeOK
  <2>3. QED  BY <1>3, <1>4, <1>16, <1>23, <2>1, <2>2 DEF TypeOK
<1>25. \A j : Built(j) => j \in 1 .. n  BY DEF Built
<1>26. Numbered'
  <2>1. ASSUME NEW t \in Type, map'[t] # 0 PROVE map'[t] <= n /\ struct'[map'[t]].type = t
    <3>1. map'[t] = map[t]  BY <1>16, <2>1
    <3>2. map[t] \in 1 .. n /\ struct[map[t]].type = t  BY <1>1, <1>4, <2>1, <3>1 DEF Numbered, TypeOK
    <3>3. QED  BY <1>4, <1>21, <3>1, <3>2
  <2>2. ASSUME NEW q \in Proc PROVE top'[q] <= n /\ result'[q] <= n
    <3>1. top[q] \in 0 .. n /\ result[q] \in 0 .. n  BY <1>1, <1>4 DEF Numbered, TypeOK
    <3>2. top'[q] \in 0 .. n  BY <1>7, <1>23, <3>1
    <3>3. result'[q] \in 0 .. n  BY <1>14, <1>16, <3>1
    <3>4. QED  BY <1>4, <3>2, <3>3
  <2>3. \A j \in 1 .. n : struct'[j].caller < j  BY <1>1, <1>21 DEF Numbered
  <2>4. QED  BY <1>3, <2>1, <2>2, <2>3 DEF Numbered
<1>27. ASSUME NEW j \in 1 .. n, Built(j), j # i, struct[j].by = p
       PROVE  j <= c /\ j < i
  <2>1. j <= i  BY <1>1, <1>11, <1>27 DEF Stack
  <2>2. j < i  BY <1>4, <1>7, <1>27, <2>1
  <2>3. j <= struct[i].caller  BY <1>1, <1>2, <1>27, <2>2 DEF Stack
  <2>4. QED  BY <1>5, <1>11, <2>2, <2>3
<1>28. Stack'
  <2>1. ASSUME NEW q \in Proc, top'[q] # 0
        PROVE  \A j : j = top'[q] => Built(j)' /\ struct'[j].by = q
    <3>1. CASE q = p
      <4>1. top'[q] = c /\ c # 0 /\ c \in 1 .. n /\ Built(c) /\ struct[c].by = p  BY <1>8, <1>11, <1>23, <2>1, <3>1
      <4>2. QED  BY <1>7, <1>21, <1>22, <3>1, <4>1
    <3>2. CASE q # p
      <4>1. top'[q] = top[q]  BY <1>23, <3>2
      <4>2. Built(top[q]) /\ struct[top[q]].by = q  BY <1>1, <2>1, <4>1 DEF Stack
      <4>3. top[q] # i  BY <1>2, <3>2, <4>2
      <4>4. QED  BY <1>21, <1>22, <1>25, <4>1, <4>2, <4>3
    <3>3. QED  BY <3>1, <3>2
  <2>2. ASSUME NEW j \in 1 .. n, Built(j), j # i
        PROVE  /\ j <= top'[struct'[j].by]
               /\ struct'[j].caller # 0 => /\ Built(struct[j].caller) /\ struct[j].caller # i
                                           /\ struct'[struct'[j].caller].by = struct'[j].by
               /\ j = top'[struct'[j].by] \/ \E k \in 1 .. n : Built(k) /\ k # i /\ struct'[k].caller = j
    <3>1. struct[j].by \in Proc /\ struct'[j].by = struct[j].by /\ struct'[j].caller = struct[j].caller
        BY <1>20, <1>21, StructFields
    <3>2. j <= top[struct[j].by]  BY <1>1, <2>2 DEF Stack
    <3>3. j <= top'[struct[j].by]
      <4>1. CASE struct[j].by = p  BY <1>23, <1>27, <2>2, <4>1
      <4>2. CASE struct[j].by # p  BY <1>23, <3>1, <3>2, <4>2
      <4>3. QED  BY <4>1, <4>2
    <3>4. struct[j].caller # 0 => /\ Built(struct[j].caller) /\ struct[j].caller \in 1 .. n
                                  /\ struct[struct[j].caller].by = struct[j].by /\ struct[j].caller < j
        BY <1>1, <1>25, <2>2 DEF Stack, Numbered
    <3>5. struct[j].caller # 0 => struct[j].caller # i
      <4>1. CASE struct[j].by = p
        <5>1. j < i  BY <1>27, <2>2, <4>1
        <5>2. j \in Nat /\ (struct[j].caller # 0 => struct[j].caller \in Nat)  BY <1>4, <3>4
        <5>3. QED  BY <1>7, <3>4, <5>1, <5>2
      <4>2. CASE struct[j].by # p  BY <1>2, <3>4, <4>2
      <4>3. QED  BY <4>1, <4>2
    <3>6. j = top'[struct[j].by] \/ \E k \in 1 .. n : Built(k) /\ k # i /\ struct[k].caller = j
      <4>1. j = top[struct[j].by] \/ \E k \in 1 .. n : Built(k) /\ struct[k].caller = j
          BY <1>1, <2>2 DEF Stack
      <4>2. CASE j = top[struct[j].by]
        <5>1. struct[j].by # p  BY <1>11, <2>2, <4>2
        <5>2. QED  BY <1>23, <3>1, <4>2, <5>1
      <4>3. CASE \E k \in 1 .. n : Built(k) /\ struct[k].caller = j
        <5>1. PICK k \in 1 .. n : Built(k) /\ struct[k].caller = j  BY <4>3
        <5>2. CASE k = i
          <6>1. j = c /\ c # 0  BY <1>4, <1>5, <1>11, <5>1, <5>2
          <6>2. struct[j].by = p  BY <1>8, <1>11, <6>1
          <6>3. QED  BY <1>23, <6>1, <6>2
        <5>3. QED  BY <5>1, <5>2
      <4>4. QED  BY <4>1, <4>2, <4>3
    <3>7. QED  BY <1>21, <3>1, <3>3, <3>4, <3>5, <3>6
  <2>3. ASSUME NEW j \in 1 .. n, NEW k \in 1 .. n, Built(j), Built(k), struct'[j].by = struct'[k].by, j < k
        PROVE  j <= struct'[k].caller
    BY <1>1, <1>21, <2>3 DEF Stack
  <2>4. \A q \in Proc : top'[q] # 0 => Built(top[q])' /\ struct'[top'[q]].by = q
    <3>1. \A q \in Proc : top'[q] # 0 => top'[q] \in 1 .. n' /\ struct'[top'[q]].phase \in Building /\ struct'[top'[q]].by = q
        BY <2>1 DEF Built
    <3>2. QED  BY <3>1 DEF Built
  <2>5. \A j \in 1 .. n' : Built(j)' =>
          /\ j <= top'[struct'[j].by]
          /\ struct'[j].caller # 0 => /\ Built(struct[j].caller)'
                                      /\ struct'[struct'[j].caller].by = struct'[j].by
          /\ j = top'[struct'[j].by] \/ \E k \in 1 .. n' : Built(k)' /\ struct'[k].caller = j
    <3>1. SUFFICES ASSUME NEW j \in 1 .. n, Built(j)'
                   PROVE  /\ j <= top'[struct'[j].by]
                          /\ struct'[j].caller # 0 => /\ Built(struct[j].caller)'
                                                      /\ struct'[struct'[j].caller].by = struct'[j].by
                          /\ j = top'[struct'[j].by] \/ \E k \in 1 .. n : Built(k)' /\ struct'[k].caller = j
        BY <1>3
    <3>2. Built(j) /\ j # i  BY <1>22, <3>1
    <3>3. \A k : Built(k) /\ k # i => k \in 1 .. n' /\ struct'[k].phase \in Building  BY <1>22 DEF Built
    <3>4. struct'[j].caller # 0 => Built(struct[j].caller)'
      <4>1. struct'[j].caller = struct[j].caller  BY <1>21
      <4>2. struct'[j].caller # 0 => struct'[j].caller \in 1 .. n' /\ struct'[struct'[j].caller].phase \in Building
          BY <2>2, <3>2, <3>3, <4>1
      <4>3. QED  BY <4>2 DEF Built
    <3>5. QED  BY <1>22, <2>2, <3>2, <3>4
  <2>6. \A j, k \in 1 .. n' : Built(j)' /\ Built(k)' /\ struct'[j].by = struct'[k].by /\ j < k
                               => j <= struct'[k].caller
      BY <1>3, <1>22, <2>3
  <2>7. QED  BY <2>4, <2>5, <2>6 DEF Stack
<1>29. Waiting'
  <2>1. SUFFICES ASSUME NEW j \in 1 .. n, Built(j)'
                 PROVE  /\ Waits(j)' => struct'[j].phase \in {"scan", "relate"}
                        /\ struct'[j].phase = "scan" /\ (Waits(j)' \/ struct'[j].adopt # {}) => Scanned(struct'[j])
      BY <1>3 DEF Waiting, Scanned
  <2>2. Built(j) /\ j # i /\ struct[j].by \in Proc  BY <1>20, <1>22, <2>1, StructFields
  <2>3. CASE j = c
    <3>1. c # 0 /\ s.by = p  BY <1>4, <1>8, <2>3
    <3>2. Waits(j)' => ask'[p] # None  BY <1>11, <1>21, <1>23, <2>3, <3>1 DEF Waits
    <3>3. ask'[p] # None => struct'[j].phase = "relate"  BY <1>10, <1>15, <1>16, <2>3
    <3>4. struct'[j].phase = "scan" => Scanned(struct'[j])  BY <1>8, <1>19, <2>3, <3>1 DEF Goes, Same, Scanned
    <3>5. QED  BY <3>2, <3>3, <3>4
  <2>4. CASE j # c
    <3>1. struct'[j] = struct[j]  BY <1>17, <2>2, <2>4
    <3>2. Waits(j)' => Waits(j)
      <4>1. CASE struct[j].by = p  BY <1>11, <2>2, <4>1 DEF Waits
      <4>2. CASE struct[j].by # p  BY <1>16, <1>23, <2>2, <3>1, <4>2 DEF Waits
      <4>3. QED  BY <4>1, <4>2
    <3>3. QED  BY <1>1, <2>2, <3>1, <3>2 DEF Waiting
  <2>5. QED  BY <2>3, <2>4
<1>30. ask'[p] # None =>
          /\ c # 0 /\ ok /\ struct'[c] = s /\ s.phase = "relate" /\ ~HasKey(x)
          /\ s.todo # <<>> /\ ask'[p] = NewCall(x.type, FALSE, TRUE) /\ x.type = Head(s.todo)
    BY <1>10, <1>13, <1>15, <1>16 DEF BecomesChild
<1>31. Asking'
  <2>1. SUFFICES ASSUME NEW q \in Proc, ask'[q] # None
                 PROVE  /\ top'[q] = 0 => ~ask'[q].isChild /\ ~ask'[q].embedded
                        /\ top'[q] # 0 => Awaits(struct'[top'[q]], ask'[q].type, ask'[q].isChild)
                        /\ ask'[q].embedded => ask'[q].type \in Fields(Embeds[struct'[top'[q]].type])
                        /\ ask'[q].isChild => ~ask'[q].missed
      BY DEF Asking
  <2>2. CASE q = p  BY <1>23, <1>30, <2>1, <2>2 DEF NewCall, Awaits
  <2>3. CASE q # p
    <3>1. ask'[q] = ask[q] /\ top'[q] = top[q]  BY <1>16, <1>23, <2>3
    <3>2. top[q] # 0 => struct'[top[q]] = struct[top[q]]
      <4>1. top[q] # 0 => top[q] \in 1 .. n /\ struct[top[q]].by = q  BY <1>1, <1>25 DEF Stack
      <4>2. top[q] # 0 => top[q] # i /\ top[q] # c  BY <1>2, <1>8, <1>11, <2>3, <4>1
      <4>3. QED  BY <1>17, <4>1, <4>2
    <3>3. ask[q].embedded => top[q] # 0  BY <1>1, <2>1, <3>1 DEF Asking
    <3>4. QED  BY <1>1, <2>1, <3>1, <3>2, <3>3 DEF Asking
  <2>4. QED  BY <2>2, <2>3
<1>32. Called'
  <2>1. ASSUME NEW j \in 1 .. n, Built(j)', struct'[j].caller # 0
        PROVE  Awaits(struct'[struct'[j].caller], struct'[j].type, struct'[j].isChild)
    <3>1. Built(j) /\ j # i /\ struct[j].caller # 0 /\ struct'[j].caller = struct[j].caller  BY <1>21, <1>22, <2>1
    <3>2. Built(struct[j].caller) /\ struct[struct[j].caller].by = struct[j].by /\ struct[j].caller < j
        BY <1>1, <3>1 DEF Stack, Numbered
    <3>3. j \in Nat /\ struct[j].caller \in Nat /\ struct[j].caller \in 1 .. n  BY <1>4, <1>25, <3>2
    <3>4. struct[j].caller # c
      <4>1. SUFFICES ASSUME struct[j].caller = c PROVE FALSE  OBVIOUS
      <4>2. struct[j].by = p  BY <1>8, <1>11, <3>1, <3>2, <4>1
      <4>3. QED  BY <1>27, <3>1, <3>2, <3>3, <4>1, <4>2
    <3>5. struct[j].caller # i
      <4>1. SUFFICES ASSUME struct[j].caller = i PROVE FALSE  OBVIOUS
      <4>2. struct[j].by = p  BY <1>2, <3>2, <4>1
      <4>3. QED  BY <1>27, <3>1, <3>2, <3>3, <4>1, <4>2
    <3>6. struct'[struct[j].caller] = struct[struct[j].caller]  BY <1>17, <3>3, <3>4, <3>5
    <3>7. QED  BY <1>1, <1>21, <3>1, <3>6 DEF Called
  <2>2. ASSUME NEW j \in 1 .. n, struct'[j].embedded
        PROVE  /\ struct'[j].caller # 0
               /\ struct'[j].type \in Fields(Embeds[struct'[struct'[j].caller].type])
    <3>1. /\ struct[j].caller # 0 /\ struct[j].type \in Fields(Embeds[struct[struct[j].caller].type])
          /\ struct[j].caller < j
        BY <1>1, <1>21, <2>2 DEF Called, Numbered
    <3>2. struct[j].caller \in 0 .. MaxStruct  BY <1>20, StructFields
    <3>3. struct[j].caller \in 1 .. n  BY <1>4, <3>1, <3>2
    <3>4. QED  BY <1>21, <3>1, <3>3
  <2>3. \A j \in 1 .. n : struct'[j].isChild => struct'[j].caller # 0  BY <1>1, <1>21 DEF Called
  <2>4. QED  BY <1>3, <2>1, <2>2, <2>3 DEF Called
<1>33. (\A j \in 1 .. n : Sound(struct[j]))'
  <2>1. SUFFICES ASSUME NEW j \in 1 .. n PROVE Sound(struct'[j])  BY <1>3
  <2>2. CASE j = i  BY <1>6, <1>18, <2>2
  <2>3. CASE j = c
    <3>1. c # 0 /\ Sound(s)  BY <1>1, <1>4, <1>11, <2>3
    <3>2. QED  BY <1>8, <1>19, <2>3, <3>1 DEF Goes, Same, Sound
  <2>4. CASE j # i /\ j # c  BY <1>1, <1>17, <2>4
  <2>5. QED  BY <2>2, <2>3, <2>4
<1>34. Lonely(p)  BY <1>1, <1>2, <1>3, BusyLonely
<1>35. Alone'
  <2>1. \A q \in Proc : q # p /\ Busy(q)' => overlap'  BY <1>16, <1>23, <1>34 DEF Lonely, Busy
  <2>2. QED  BY <2>1 DEF Alone
<1>36. ASSUME NEW j \in 1 .. n, struct[j].phase \notin Building PROVE struct'[j] = struct[j]
  <2>1. ~Built(j)  BY <1>36 DEF Built
  <2>2. j # i /\ j # c  BY <1>2, <1>4, <1>8, <2>1
  <2>3. QED  BY <1>17, <2>2
<1>37. \A t \in Type : Excused(t) => Excused(t)'
    BY <1>3, <1>36 DEF Excused, Building
<1>38. Unraced'
  <2>1. SUFFICES ASSUME ~overlap PROVE
          (/\ \A q \in Proc : ask[q] # None /\ ask[q].missed => map[ask[q].type] = 0
           /\ \A t \in Shared : ~HasChild(t) =>
                \A j \in 1 .. n : Built(j) /\ struct[j].type = t => map[t] = j
           /\ \A t \in Type : MadeChild(t) => Excused(t))'
      BY <1>3 DEF Unraced
  <2>2. \A q \in Proc : q # p => ask'[q] = None  BY <1>3, <1>16, <1>34, <2>1 DEF Lonely
  <2>3. \A q \in Proc : ask'[q] # None => ~ask'[q].missed  BY <1>30, <2>2 DEF NewCall
  <2>4. ASSUME NEW t \in Shared, ~HasChild(t)', NEW j \in 1 .. n, Built(j)', struct'[j].type = t
        PROVE  map'[t] = j
    <3>1. t \in Type  BY TypeAssumption DEF Shared
    <3>2. ~HasChild(t)  BY <1>3, <1>21, <2>4 DEF HasChild
    <3>3. map[t] = j  BY <1>1, <1>21, <1>22, <2>1, <2>4, <3>2 DEF Unraced
    <3>4. QED  BY <1>16, <3>1, <3>3
  <2>5. ASSUME NEW t \in Type, MadeChild(t)' PROVE Excused(t)'
    <3>1. CASE \E q \in Proc : ask'[q] # None /\ ask'[q].isChild /\ ask'[q].type = t
      <4>1. t = x.type /\ ok /\ ~HasKey(x)  BY <1>30, <2>2, <3>1 DEF NewCall
      <4>2. t \notin Shared  BY <1>5, <1>6, <4>1 DEF Sound, Shared
      <4>3. QED  BY <4>2 DEF Excused
    <3>2. CASE \E j \in 1 .. n : t \in struct'[j].kids \/ (struct'[j].isChild /\ struct'[j].type = t)
      <4>1. PICK j \in 1 .. n : t \in struct'[j].kids \/ (struct'[j].isChild /\ struct'[j].type = t)  BY <3>2
      <4>2. MadeChild(t)
        <5>1. CASE struct'[j].isChild /\ struct'[j].type = t  BY <1>21, <5>1 DEF MadeChild
        <5>2. CASE t \in struct'[j].kids
          <6>1. CASE j = i  BY <1>5, <1>18, <5>2, <6>1 DEF MadeChild
          <6>2. CASE j = c
            <7>1. c # 0  BY <1>4, <6>2
            <7>2. t \in s.kids \/ t \in x.kids  BY <1>10, <1>15, <5>2, <6>2, <7>1
            <7>3. QED  BY <1>2, <1>5, <1>8, <1>11, <7>1, <7>2 DEF MadeChild
          <6>3. CASE j # i /\ j # c  BY <1>17, <5>2, <6>3 DEF MadeChild
          <6>4. QED  BY <6>1, <6>2, <6>3
        <5>3. QED  BY <4>1, <5>1, <5>2
      <4>3. QED  BY <1>1, <1>37, <2>1, <4>2 DEF Unraced
    <3>3. QED  BY <1>3, <2>5, <3>1, <3>2 DEF MadeChild
  <2>6. QED  BY <1>3, <2>3, <2>4, <2>5
<1>39. HalfBuiltOnlyIfRacedOrFailed'
  <2>1. SUFFICES ASSUME NEW q \in Proc, result'[q] # 0
                 PROVE  \/ struct'[result'[q]].phase \in {"done", "failed"}
                        \/ overlap' /\ struct'[result'[q]].by # q
      BY DEF HalfBuiltOnlyIfRacedOrFailed
  <2>2. CASE result'[q] # result[q]
    <3>1. result'[q] = i /\ ok  BY <1>16, <2>2
    <3>2. QED  BY <1>5, <1>18, <3>1
  <2>3. CASE result'[q] = result[q]
    <3>1. result[q] \in 1 .. n  BY <1>1, <1>4, <2>1, <2>3 DEF Numbered, TypeOK
    <3>2. \/ struct[result[q]].phase \in {"done", "failed"}
          \/ overlap /\ struct[result[q]].by # q
        BY <1>1, <2>1, <2>3 DEF HalfBuiltOnlyIfRacedOrFailed
    <3>3. CASE struct[result[q]].phase \in {"done", "failed"}  BY <1>36, <2>3, <3>1, <3>3 DEF Building
    <3>4. CASE overlap /\ struct[result[q]].by # q  BY <1>3, <1>21, <2>3, <3>1, <3>4
    <3>5. QED  BY <3>2, <3>3, <3>4
  <2>4. QED  BY <2>2, <2>3
<1>40. QED  BY <1>24, <1>26, <1>28, <1>29, <1>31, <1>32, <1>33, <1>35, <1>38, <1>39 DEF IInv

LEMMA FinishInv == ASSUME IInv, NEW p \in Proc, Finish(p) PROVE IInv'
<1> DEFINE s == struct[top[p]]
           bad == ~s.embedded /\ s.type \in BadIndex
           ok == ~bad
           phase == IF bad THEN "failed" ELSE "done"
           indexed == ~s.embedded /\ ~bad
           x == [s EXCEPT !.phase = phase, !.indexed = indexed]
<1>1. In(p, "relate") /\ Leave(p, ok, x)  BY DEF Finish
<1>2. s \in Struct /\ s.phase = "relate" /\ s.embedded \in BOOLEAN  BY <1>1, InFacts, StructFields
<1>3. /\ phase = IF ok THEN "done" ELSE "failed"
      /\ ok => indexed \/ s.embedded
    OBVIOUS
<1>4. indexed \in BOOLEAN /\ ok \in BOOLEAN  BY <1>2
<1> HIDE DEF ok, phase, indexed
<1>5. Finished(s, x, ok)
  <2>1. phase \in Phases  BY <1>3 DEF Phases
  <2>2. x \in Struct  BY <1>2, <1>4, <2>1 DEF Struct
  <2>3. /\ x.type = s.type /\ x.by = s.by /\ x.caller = s.caller /\ x.embedded = s.embedded
        /\ x.isChild = s.isChild /\ x.kids = s.kids /\ x.adopt = s.adopt /\ x.key = s.key
        /\ x.phase = phase /\ x.indexed = indexed
      BY <1>2 DEF Struct
  <2> HIDE DEF x
  <2>4. QED  BY <1>2, <1>3, <2>2, <2>3 DEF Finished, Same
<1> HIDE DEF s, x
<1>6. s = struct[top[p]]  BY DEF s
<1>7. QED  BY <1>1, <1>4, <1>5, <1>6, LeaveInv

LEMMA FailInv == ASSUME IInv, NEW p \in Proc, Fail(p) PROVE IInv'
<1> DEFINE s == struct[top[p]]
           x == [s EXCEPT !.phase = "failed"]
<1>1. In(p, "erring") /\ Leave(p, FALSE, x)  BY DEF Fail
<1>2. s \in Struct  BY <1>1, InFacts
<1>3. Finished(s, x, FALSE)
  <2>1. x \in Struct  BY <1>2 DEF Struct, Phases
  <2>2. /\ x.type = s.type /\ x.by = s.by /\ x.caller = s.caller /\ x.embedded = s.embedded
        /\ x.isChild = s.isChild /\ x.kids = s.kids /\ x.adopt = s.adopt /\ x.key = s.key
        /\ x.phase = "failed"
      BY <1>2 DEF Struct
  <2> HIDE DEF x
  <2>3. QED  BY <2>1, <2>2 DEF Finished, Same
<1> HIDE DEF s, x
<1>4. s = struct[top[p]]  BY DEF s
<1>5. QED  BY <1>1, <1>3, <1>4, LeaveInv
-----------------------------------------------------------------------------
(* The invariant *)

LEMMA InitInv == Init => IInv
<1> SUFFICES ASSUME Init PROVE IInv  OBVIOUS
<1>1. MaxStruct \in Nat /\ MaxCalls \in Nat  BY BoundAssumption
<1>2. TypeOK
  <2>1. \A i \in Id : ~(i <= n) /\ struct[i] = None  BY <1>1 DEF Init, Id
  <2>2. struct \in [Id -> Struct \cup {None}] /\ n \in 0 .. MaxStruct  BY <1>1 DEF Init
  <2>3. map \in [Type -> 0 .. MaxStruct] /\ top \in [Proc -> 0 .. MaxStruct]  BY <1>1 DEF Init
  <2>4. result \in [Proc -> 0 .. MaxStruct] /\ calls \in [Proc -> 0 .. MaxCalls]  BY <1>1 DEF Init
  <2>5. ask \in [Proc -> Call \cup {None}] /\ overlap \in BOOLEAN  BY DEF Init
  <2>6. QED  BY <2>1, <2>2, <2>3, <2>4, <2>5 DEF TypeOK
<1>3. n = 0 /\ 1 .. n = {} /\ \A i : ~Built(i)  BY DEF Init, Built
<1>4. /\ \A p \in Proc : top[p] = 0 /\ ask[p] = None /\ result[p] = 0
      /\ \A t \in Type : map[t] = 0
    BY DEF Init
<1>5. Numbered /\ Stack /\ Waiting /\ Asking /\ Called  BY <1>3, <1>4 DEF Numbered, Stack, Waiting, Asking, Called
<1>6. Alone /\ Unraced /\ HalfBuiltOnlyIfRacedOrFailed
    BY <1>3, <1>4 DEF Alone, Busy, Unraced, MadeChild, HalfBuiltOnlyIfRacedOrFailed
<1>7. QED  BY <1>2, <1>3, <1>5, <1>6 DEF IInv

LEMMA StutterInv == ASSUME IInv, UNCHANGED vars PROVE IInv'
<1>1. /\ map' = map /\ n' = n /\ struct' = struct /\ top' = top /\ ask' = ask
      /\ result' = result /\ calls' = calls /\ overlap' = overlap
    BY DEF vars
<1>2. TypeOK' /\ Numbered' /\ HalfBuiltOnlyIfRacedOrFailed'
    BY <1>1 DEF IInv, TypeOK, Numbered, HalfBuiltOnlyIfRacedOrFailed
<1>3. Stack'  BY <1>1 DEF IInv, Stack, Built
<1>4. Waiting'  BY <1>1 DEF IInv, Waiting, Built, Waits, Scanned, HasKey
<1>5. Asking' /\ Called'  BY <1>1 DEF IInv, Asking, Called, Awaits, Built
<1>6. (\A i \in 1 .. n : Sound(struct[i]))'  BY <1>1 DEF IInv, Sound, HasKey
<1>7. Alone'  BY <1>1 DEF IInv, Alone, Busy
<1>8. Unraced'  BY <1>1 DEF IInv, Unraced, HasChild, MadeChild, Excused, Built
<1>9. QED  BY <1>2, <1>3, <1>4, <1>5, <1>6, <1>7, <1>8 DEF IInv

LEMMA NextInv == IInv /\ [Next]_vars => IInv'
<1> SUFFICES ASSUME IInv, [Next]_vars PROVE IInv'  OBVIOUS
<1>1. CASE UNCHANGED vars  BY <1>1, StutterInv
<1>2. CASE Next
  <2>1. PICK p \in Proc : GetOrNew(p) \/ Step(p)  BY <1>2 DEF Next
  <2>2. CASE GetOrNew(p)  BY <2>2, GetOrNewInv
  <2>3. CASE Hit(p)  BY <2>3, HitInv
  <2>4. CASE Reject(p)  BY <2>4, RejectInv
  <2>5. CASE Miss(p)  BY <2>5, MissInv
  <2>6. CASE Create(p)  BY <2>6, CreateInv
  <2>7. CASE Unpublish(p)  BY <2>7, UnpublishInv
  <2>8. CASE Embed(p)  BY <2>8, EmbedInv
  <2>9. CASE Adopt(p)  BY <2>9, AdoptInv
  <2>10. CASE EndScan(p)  BY <2>10, EndScanInv
  <2>11. CASE Relate(p)  BY <2>11, RelateInv
  <2>12. CASE Finish(p)  BY <2>12, FinishInv
  <2>13. CASE Fail(p)  BY <2>13, FailInv
  <2>14. QED
      BY <2>1, <2>2, <2>3, <2>4, <2>5, <2>6, <2>7, <2>8, <2>9, <2>10, <2>11, <2>12, <2>13 DEF Step
<1>3. QED  BY <1>1, <1>2

\* Every reachable state of the storage, for all types and goroutines, satisfies the
\* inductive invariant (getOrNew, create, setup and addChildField of modelstruct_*.go).
THEOREM Invariant == Spec => []IInv
<1>1. QED  BY InitInv, NextInv, PTL DEF Spec

LEMMA StackInvHolds == ASSUME IInv PROVE StackInv
<1>1. TypeOK /\ Numbered /\ Stack  BY DEF IInv
<1>2. \A p \in Proc : top[p] # 0 => /\ top[p] <= n
                                     /\ struct[top[p]].phase \in Building
                                     /\ struct[top[p]].by = p
    BY <1>1 DEF Stack, Built, Numbered
<1>3. \A i \in 1 .. n : struct[i].caller < i  BY <1>1 DEF Numbered
<1>4. \A i \in 1 .. n : struct[i].phase \in Building =>
          /\ struct[i].caller # 0 => /\ struct[struct[i].caller].phase \in Building
                                     /\ struct[struct[i].caller].by = struct[i].by
          /\ i = top[struct[i].by] \/ \E j \in 1 .. n : struct[j].phase \in Building /\ struct[j].caller = i
    BY <1>1 DEF Stack, Built
<1>5. ASSUME NEW i \in 1 .. n, NEW j \in 1 .. n,
             struct[i].phase \in Building, struct[j].phase \in Building,
             struct[i].caller = struct[j].caller, struct[i].by = struct[j].by
      PROVE  ~(i < j)
  <2>1. SUFFICES ASSUME i < j PROVE FALSE  OBVIOUS
  <2>2. i <= struct[j].caller  BY <1>1, <1>5, <2>1 DEF Stack, Built
  <2>3. struct[i].caller < i /\ struct[i].caller \in Nat /\ i \in Nat  BY <1>1, TableFacts, StructFields DEF Numbered
  <2>4. QED  BY <1>5, <2>2, <2>3
<1>6. ASSUME NEW i \in 1 .. n, NEW j \in 1 .. n,
             struct[i].phase \in Building, struct[j].phase \in Building,
             struct[i].caller = struct[j].caller, struct[i].by = struct[j].by
      PROVE  i = j
  <2>1. ~(i < j) /\ ~(j < i)  BY <1>5, <1>6
  <2>2. i \in Nat /\ j \in Nat  BY <1>1, TableFacts
  <2>3. QED  BY <2>1, <2>2
<1>7. QED  BY <1>2, <1>3, <1>4, <1>6 DEF StackInv

\* In every reachable state the stacks of half built structs are in order, no goroutine
\* builds a shared type twice but as a child, only types met before their key is known
\* become children, and an index is missing only where an embedding struct came first
\* (create publishes before setup; addChildField; the deferred setupIndexes).
THEOREM InvHolds == Spec => []Inv
<1>1. ASSUME IInv PROVE Inv
  <2>1. TypeOK /\ Numbered /\ Stack /\ Called /\ Unraced /\ \A i \in 1 .. n : Sound(struct[i])  BY <1>1 DEF IInv
  <2>2. StackInv  BY <1>1, StackInvHolds
  <2>3. NoTypeTwice
    <3>1. SUFFICES ASSUME ~overlap, NEW i \in 1 .. n, NEW j \in 1 .. n,
                          struct[i].type = struct[j].type, struct[i].type \in Shared, ~HasChild(struct[i].type),
                          struct[i].phase \in Building, struct[j].phase \in Building
                   PROVE  i = j
        BY DEF NoTypeTwice
    <3>2. map[struct[i].type] = i /\ map[struct[j].type] = j  BY <2>1, <3>1 DEF Unraced, Built
    <3>3. QED  BY <3>1, <3>2
  <2>4. OnlyKeylessBecomeChildren
    <3>1. SUFFICES ASSUME ~overlap, NEW t \in Shared, HasChild(t)
                   PROVE  \/ t \notin KeyFirst /\ Embeds[t] # <<>>
                          \/ \E i \in 1 .. n : struct[i].type = t /\ struct[i].phase = "failed"
        BY DEF OnlyKeylessBecomeChildren
    <3>2. MadeChild(t)  BY <3>1 DEF HasChild, MadeChild
    <3>3. t \in Type  BY TypeAssumption DEF Shared
    <3>4. Excused(t)  BY <2>1, <3>1, <3>2, <3>3 DEF Unraced
    <3>5. QED  BY <3>1, <3>4 DEF Excused
  <2>5. UnindexedOnlyIfEmbeddedFirst
    <3>1. SUFFICES ASSUME NEW i \in 1 .. n, struct[i].phase = "done", ~struct[i].indexed
                   PROVE  \E j \in 1 .. i - 1 : struct[i].type \in Fields(Embeds[struct[j].type])
        BY DEF UnindexedOnlyIfEmbeddedFirst
    <3>2. struct[i].embedded  BY <2>1, <3>1 DEF Sound
    <3>3. struct[i].caller # 0 /\ struct[i].type \in Fields(Embeds[struct[struct[i].caller].type])
        BY <2>1, <3>2 DEF Called
    <3>4. struct[i].caller < i /\ struct[i].caller \in Nat /\ i \in Nat  BY <2>1, TableFacts, StructFields DEF Numbered
    <3>5. struct[i].caller \in 1 .. i - 1  BY <3>3, <3>4
    <3>6. QED  BY <3>3, <3>5
  <2>6. QED  BY <2>1, <2>2, <2>3, <2>4, <2>5 DEF Inv
<1>2. QED  BY <1>1, Invariant, PTL

\* A call returns a half built struct only if another goroutine is building it, or its
\* setup has failed (getOrNew returns what is in the map without a look at it).
THEOREM HalfBuiltHolds == Spec => []HalfBuiltOnlyIfRacedOrFailed
<1>1. IInv => HalfBuiltOnlyIfRacedOrFailed  BY DEF IInv
<1>2. QED  BY <1>1, Invariant, PTL
-----------------------------------------------------------------------------
(* The entry of a shared type *)

Kept == \A t \in Shared : map[t] # 0 /\ ~HasChild(t)' /\ ~overlap' => map'[t] = map[t]

LEMMA ReturnKeeps ==
    ASSUME TypeOK, NEW p, NEW c, NEW i, NEW ok, NEW f, Return(p, c, i, ok, f), c # 0 => f[c].type \in Type
    PROVE  Kept
<1>1. SUFFICES ASSUME NEW t \in Shared PROVE map'[t] = map[t]  BY DEF Kept
<1>2. CASE c # 0 /\ ok /\ f[c].phase = "relate" /\ TakenOver(f[c], Head(f[c].todo))
  <2>1. map' = [map EXCEPT ![Head(f[c].todo)] = 0]  BY <1>2 DEF Return
  <2>2. t # Head(f[c].todo)  BY <1>2, NotShared
  <2>3. t \in Type  BY TypeAssumption DEF Shared
  <2>4. QED  BY <2>1, <2>2, <2>3 DEF TypeOK
<1>3. CASE ~(c # 0 /\ ok /\ f[c].phase = "relate" /\ TakenOver(f[c], Head(f[c].todo)))  BY <1>3 DEF Return
<1>4. QED  BY <1>2, <1>3

LEMMA LeaveKeeps ==
    ASSUME IInv, NEW p \in Proc, NEW phase, In(p, phase), NEW ok, NEW x, x.caller = struct[top[p]].caller, Leave(p, ok, x)
    PROVE  Kept
<1>1. TypeOK /\ Numbered /\ top[p] \in 1 .. n /\ struct[top[p]] \in Struct  BY InFacts DEF IInv
<1> DEFINE c == x.caller
<1>2. c \in Nat /\ c < top[p] /\ n \in Nat  BY <1>1, TableFacts, StructFields DEF Numbered
<1>3. c # 0 => c \in 1 .. n  BY <1>1, <1>2
<1>4. c # 0 => [struct EXCEPT ![top[p]] = x][c].type \in Type
  <2>1. c # 0 => struct[c] \in Struct /\ c \in Id /\ c # top[p]  BY <1>1, <1>2, <1>3, TableFacts
  <2>2. c # 0 => [struct EXCEPT ![top[p]] = x][c] = struct[c]  BY <1>1, <2>1 DEF TypeOK
  <2>3. QED  BY <2>1, <2>2, StructFields
<1>5. Return(p, c, top[p], ok, [struct EXCEPT ![top[p]] = x])  BY DEF Leave
<1> HIDE DEF c
<1>6. QED  BY <1>1, <1>4, <1>5, ReturnKeeps

LEMMA StepKeeps == ASSUME IInv, Next PROVE Kept
<1>1. PICK p \in Proc : GetOrNew(p) \/ Step(p)  BY DEF Next
<1>2. TypeOK /\ Numbered /\ Unraced /\ n \in Nat  BY TableFacts DEF IInv
<1>3. CASE GetOrNew(p) \/ Miss(p) \/ Embed(p) \/ Adopt(p) \/ EndScan(p) \/ Relate(p)
    BY <1>3 DEF GetOrNew, Miss, Embed, Adopt, EndScan, Relate, Kept
<1>4. CASE Hit(p) \/ Reject(p)
  <2>1. top[p] # 0 => struct[top[p]].type \in Type
    <3>1. top[p] # 0 => top[p] \in 1 .. n  BY <1>2 DEF Numbered, TypeOK
    <3>2. QED  BY <1>2, <3>1, TableFacts, StructFields
  <2>2. CASE Hit(p)  BY <1>2, <2>1, <2>2, ReturnKeeps DEF Hit
  <2>3. CASE Reject(p)  BY <1>2, <2>1, <2>3, ReturnKeeps DEF Reject
  <2>4. QED  BY <1>4, <2>2, <2>3
<1>5. CASE Create(p)
  <2> DEFINE a == ask[p]
  <2>1. SUFFICES ASSUME NEW t \in Shared, map[t] # 0, ~HasChild(t)', ~overlap', map'[t] # map[t] PROVE FALSE
      BY DEF Kept
  <2>2. t = a.type
    <3>1. t \in Type  BY TypeAssumption DEF Shared
    <3>2. QED  BY <1>2, <1>5, <2>1, <3>1 DEF Create, Publish, TypeOK
  <2>3. ~a.missed  BY <1>2, <1>5, <2>1, <2>2 DEF Unraced, Create
  <2>4. a.isChild  BY <1>5, <2>3 DEF Create
  <2>5. n + 1 \in Id  BY <1>2, <1>5, BoundAssumption DEF Create, Id
  <2>6. struct'[n + 1].type = a.type /\ struct'[n + 1].isChild = a.isChild
      BY <1>2, <1>5, <2>5 DEF Create, TypeOK
  <2>7. n + 1 \in 1 .. n'  BY <1>2, <1>5 DEF Create
  <2>8. HasChild(t)'  BY <2>2, <2>4, <2>6, <2>7 DEF HasChild
  <2>9. QED  BY <2>1, <2>8
<1>6. CASE Unpublish(p)
  <2> DEFINE s == struct[top[p]]
  <2>1. SUFFICES ASSUME NEW t \in Shared, ~HasChild(t)', map'[t] # map[t] PROVE FALSE
      BY DEF Kept
  <2>2. In(p, "child")  BY <1>6 DEF Unpublish
  <2>3. top[p] \in 1 .. n /\ top[p] \in Id /\ s \in Struct /\ Sound(s) /\ s.phase = "child" /\ Called
      BY <1>2, <2>2, InFacts, TableFacts DEF IInv
  <2>4. s.isChild /\ s.caller < top[p] /\ s.caller \in Nat /\ top[p] \in Nat
      BY <1>2, <2>3, StructFields DEF Sound, Numbered
  <2>5. t = s.type
    <3>1. t \in Type  BY TypeAssumption DEF Shared
    <3>2. map' = [map EXCEPT ![s.type] = 0]  BY <1>6 DEF Unpublish
    <3>3. QED  BY <1>2, <2>1, <3>1, <3>2 DEF TypeOK
  <2>6. s.caller # top[p]  BY <2>4
  <2>7. struct'[top[p]].type = s.type /\ struct'[top[p]].isChild = s.isChild
    <3>1. PICK haskey, key, y : struct' = [struct EXCEPT ![top[p]] = [s EXCEPT !.phase = "scan", !.rooted = haskey, !.key = key],
                                                         ![s.caller] = y]
        BY <1>6 DEF Unpublish
    <3>2. struct'[top[p]] = [s EXCEPT !.phase = "scan", !.rooted = haskey, !.key = key]
        BY <1>2, <2>3, <2>6, <3>1 DEF TypeOK
    <3>3. QED  BY <2>3, <3>2 DEF Struct
  <2>8. n' = n  BY <1>6 DEF Unpublish
  <2>9. HasChild(t)'  BY <2>3, <2>4, <2>5, <2>7, <2>8 DEF HasChild
  <2>10. QED  BY <2>1, <2>9
<1>7. CASE Finish(p)
  <2> DEFINE s == struct[top[p]]
             bad == ~s.embedded /\ s.type \in BadIndex
             x == [s EXCEPT !.phase = IF bad THEN "failed" ELSE "done", !.indexed = ~s.embedded /\ ~bad]
  <2>1. In(p, "relate") /\ Leave(p, ~bad, x)  BY <1>7 DEF Finish
  <2>2. x.caller = s.caller  BY <2>1, InFacts DEF Struct
  <2> HIDE DEF x, bad
  <2>3. QED  BY <2>1, <2>2, LeaveKeeps
<1>8. CASE Fail(p)
  <2> DEFINE x == [struct[top[p]] EXCEPT !.phase = "failed"]
  <2>1. In(p, "erring") /\ Leave(p, FALSE, x)  BY <1>8 DEF Fail
  <2>2. x.caller = struct[top[p]].caller  BY <2>1, InFacts DEF Struct
  <2> HIDE DEF x
  <2>3. QED  BY <2>1, <2>2, LeaveKeeps
<1>9. QED  BY <1>1, <1>3, <1>4, <1>5, <1>6, <1>7, <1>8 DEF Step

\* Unless it becomes a child of another, the entry of a shared type in ModelStructsMap is
\* never dropped nor replaced while goroutines do not meet (ModelStructsMap.Set and Del in
\* create, addChildField and addChildSliceField).
THEOREM OneStructForGoodHolds == Spec => OneStructForGood
<1>1. IInv /\ [Next]_vars => [Kept]_vars  BY StepKeeps
<1>2. Spec => [][Kept]_vars  BY <1>1, Invariant, PTL DEF Spec
<1>3. QED  BY <1>2 DEF OneStructForGood, Kept
-----------------------------------------------------------------------------
(* Complete structs *)

\* s has no more than its type says, and its children are among its relations.
Fit(s) == /\ s.own \subseteq Columns(s.type) /\ s.kids \subseteq s.rels /\ s.rels \subseteq Relations(s.type)
          /\ s.phase = "relate" => Fields(s.todo) \subseteq Fields(Refs[s.type])

\* s has all that its type says but what its fields left to do will bring.
Filled(s) ==
    LET left == Fields(s.todo) \ {s.type}
    IN  /\ s.phase \in {"child", "scan"} =>
              /\ Columns(s.type) \subseteq s.own \cup {s.type} \cup UNION {Columns(e) : e \in left}
              /\ Relations(s.type) \subseteq s.rels \cup Fields(Refs[s.type]) \cup UNION {Relations(e) : e \in left}
        /\ s.phase \in {"relate", "done"} => Columns(s.type) \subseteq s.own
        /\ s.phase = "relate" => Relations(s.type) \subseteq s.rels \cup Fields(s.todo)
        /\ s.phase = "done" => Relations(s.type) \subseteq s.rels

\* A child is a relation of the type it is made for; a setup comes to the types of those
\* that are above it on the stack.
Chained ==
    /\ \A i \in 1 .. n : struct[i].isChild => struct[i].type \in Relations(struct[struct[i].caller].type)
    /\ \A p \in Proc : ask[p] # None /\ ask[p].isChild => ask[p].type \in Relations(struct[top[p]].type)
    /\ \A i, j \in 1 .. n : /\ Built(i) /\ Built(j) /\ struct[i].by = struct[j].by /\ i < j
                            => struct[j].type \in Within[struct[i].type]

\* No goroutines have met, and no setup has failed.
Clean == ~overlap /\ \A i \in 1 .. n : struct[i].phase # "failed"

CInv == /\ Chained
        /\ \A i \in 1 .. n : Fit(struct[i])
        /\ Clean => \A i \in 1 .. n : struct[i].type \notin Circular => Filled(struct[i])

LEMMA FieldsFinite == ASSUME NEW q \in Seq(Type) PROVE Fields(q) \subseteq Type
BY DEF Fields

\* Columns(t) is the least set with t that is closed under embedding.
LEMMA ColumnFacts ==
    ASSUME NEW t \in Type
    PROVE  /\ t \in Columns(t) /\ Columns(t) \subseteq Type
           /\ \A u \in Columns(t) : Fields(Embeds[u]) \subseteq Columns(t)
           /\ \A S \in EmbedClosed : t \in S => Columns(t) \subseteq S
<1>1. Columns(t) = {u \in Type : \A S \in EmbedClosed : t \in S => u \in S}  BY DEF Columns, Embedded
<1>2. \A S \in EmbedClosed : t \in S => Columns(t) \subseteq S  BY <1>1
<1>3. ASSUME NEW u \in Columns(t), NEW e \in Fields(Embeds[u]) PROVE e \in Columns(t)
    <2>1. u \in Type /\ Embeds[u] \in Seq(Type)  BY <1>1, TypeAssumption
    <2>2. e \in Type  BY <2>1, FieldsFinite
    <2>3. ASSUME NEW S \in EmbedClosed, t \in S PROVE e \in S
        <3>1. u \in S  BY <1>2, <2>3
        <3>2. QED  BY <3>1 DEF EmbedClosed
    <2>4. QED  BY <1>1, <2>2, <2>3
<1>4. QED  BY <1>1, <1>2, <1>3

LEMMA ColumnsNest ==
    ASSUME NEW t \in Type, NEW u \in Columns(t)
    PROVE  u \in Type /\ Columns(u) \subseteq Columns(t) /\ Relations(u) \subseteq Relations(t)
<1>1. u \in Type  BY ColumnFacts
<1>2. Columns(t) \in EmbedClosed  BY ColumnFacts DEF EmbedClosed
<1>3. Columns(u) \subseteq Columns(t)  BY <1>1, <1>2, ColumnFacts
<1>4. QED  BY <1>1, <1>3 DEF Relations

\* A type's columns are its own and those of the other types it embeds, and so are its relations.
LEMMA ColumnsSplit ==
    ASSUME NEW t \in Type
    PROVE  /\ \A x \in Columns(t) : x = t \/ \E e \in Fields(Embeds[t]) \ {t} : x \in Columns(e)
           /\ \A x \in Relations(t) : x \in Fields(Refs[t]) \/ \E e \in Fields(Embeds[t]) \ {t} : x \in Relations(e)
<1> DEFINE S == {x \in Type : x = t \/ \E e \in Fields(Embeds[t]) \ {t} : x \in Columns(e)}
<1>1. Fields(Embeds[t]) \subseteq Type  BY TypeAssumption, FieldsFinite
<1>2. ASSUME NEW u \in S, NEW x \in Fields(Embeds[u]) PROVE x \in S
    <2>1. x \in Type  BY TypeAssumption, FieldsFinite
    <2>2. CASE u = t
        <3>1. x = t \/ (x \in Fields(Embeds[t]) \ {t} /\ x \in Columns(x))  BY <2>1, <2>2, ColumnFacts
        <3>2. QED  BY <2>1, <3>1
    <2>3. CASE u # t
        <3>1. PICK e \in Fields(Embeds[t]) \ {t} : u \in Columns(e)  BY <2>3
        <3>2. x \in Columns(e)  BY <1>1, <3>1, ColumnFacts
        <3>3. QED  BY <2>1, <3>1, <3>2
    <2>4. QED  BY <2>2, <2>3
<1>3. S \in EmbedClosed /\ t \in S  BY <1>2 DEF EmbedClosed
<1> HIDE DEF S
<1>4. Columns(t) \subseteq S  BY <1>3, ColumnFacts
<1>5. \A x \in Columns(t) : x = t \/ \E e \in Fields(Embeds[t]) \ {t} : x \in Columns(e)  BY <1>4 DEF S
<1>6. QED  BY <1>5 DEF Relations

LEMMA WithinFacts ==
    ASSUME NEW t \in Type
    PROVE  /\ t \in Within[t] /\ Within[t] \subseteq Type
           /\ \A u \in Within[t] : /\ Fields(Embeds[u]) \subseteq Within[t] /\ Fields(Refs[u]) \subseteq Within[t]
                                   /\ Within[u] \subseteq Within[t]
           /\ Columns(t) \subseteq Within[t] /\ Relations(t) \subseteq Within[t]
<1>1. \A u \in Type : Within[u] = {v \in Type : \A S \in SetupClosed : u \in S => v \in S}  BY DEF Within
<1>2. \A S \in SetupClosed : t \in S => Within[t] \subseteq S  BY <1>1
<1>3. ASSUME NEW u \in Within[t]
      PROVE  Fields(Embeds[u]) \subseteq Within[t] /\ Fields(Refs[u]) \subseteq Within[t]
    <2>1. u \in Type  BY <1>1
    <2>2. Fields(Embeds[u]) \subseteq Type /\ Fields(Refs[u]) \subseteq Type  BY <2>1, TypeAssumption, FieldsFinite
    <2>3. ASSUME NEW S \in SetupClosed, t \in S PROVE Fields(Embeds[u]) \subseteq S /\ Fields(Refs[u]) \subseteq S
        <3>1. u \in S  BY <1>2, <2>3
        <3>2. QED  BY <3>1 DEF SetupClosed, EmbedClosed
    <2>4. QED  BY <1>1, <2>2, <2>3
<1>4. t \in Within[t] /\ Within[t] \subseteq Type  BY <1>1
<1>5. Within[t] \in EmbedClosed  BY <1>3, <1>4 DEF EmbedClosed
<1>6. Within[t] \in SetupClosed  BY <1>3, <1>5 DEF SetupClosed
<1>7. ASSUME NEW u \in Within[t] PROVE Within[u] \subseteq Within[t]
    <2>1. u \in Type  BY <1>4
    <2>2. \A v \in Within[u] : \A S \in SetupClosed : u \in S => v \in S  BY <1>1, <2>1
    <2>3. QED  BY <1>6, <2>2
<1>8. Columns(t) \subseteq Within[t]  BY <1>4, <1>5, ColumnFacts
<1>9. Relations(t) \subseteq Within[t]  BY <1>3, <1>8 DEF Relations
<1>10. QED  BY <1>3, <1>4, <1>7, <1>8, <1>9

\* What a type that is not circular embeds is not either, nor does its setup come back.
LEMMA NotCircular ==
    ASSUME NEW t \in Type, t \notin Circular, NEW e \in Fields(Embeds[t])
    PROVE  /\ e \in Type /\ e \notin Circular /\ Columns(e) \subseteq Columns(t) /\ Relations(e) \subseteq Relations(t)
           /\ e # t => t \notin Within[e]
<1>1. t \in Columns(t) /\ e \in Columns(t)  BY ColumnFacts
<1>2. e \in Type /\ Columns(e) \subseteq Columns(t) /\ Relations(e) \subseteq Relations(t)  BY <1>1, ColumnsNest
<1>3. \A u \in Columns(t) : \A x \in Columns(u) \ {u} : u \notin Within[x]  BY DEF Circular
<1>4. QED  BY <1>1, <1>2, <1>3 DEF Circular
-----------------------------------------------------------------------------
(* What a step makes of one struct *)

LEMMA FieldsSplit ==
    ASSUME NEW q \in Seq(Type), q # <<>>
    PROVE  \A r \in Fields(q) : r = Head(q) \/ r \in Fields(Tail(q))
<1>1. SUFFICES ASSUME NEW i \in 1 .. Len(q), q[i] # Head(q) PROVE q[i] \in Fields(Tail(q))  BY DEF Fields
<1>2. Len(Tail(q)) = Len(q) - 1 /\ Head(q) = q[1] /\ \A j \in 1 .. Len(Tail(q)) : Tail(q)[j] = q[j + 1]
    BY HeadTailProperties
<1>3. i - 1 \in 1 .. Len(Tail(q)) /\ i = (i - 1) + 1  BY <1>1, <1>2
<1>4. QED  BY <1>2, <1>3 DEF Fields

LEMMA FieldsReversed == ASSUME NEW q \in Seq(Type) PROVE Fields(Reversed(q)) = Fields(q)
<1>1. Len(q) \in Nat /\ Len(Reversed(q)) = Len(q) /\ \A i \in 1 .. Len(q) : Reversed(q)[i] = q[Len(q) + 1 - i]
    BY DEF Reversed
<1>2. \A i \in 1 .. Len(q) : Len(q) + 1 - i \in 1 .. Len(q) /\ Len(q) + 1 - (Len(q) + 1 - i) = i  BY <1>1
<1>3. \A i \in 1 .. Len(q) : \E j \in 1 .. Len(q) : Reversed(q)[j] = q[i]  BY <1>1, <1>2
<1>4. \A i \in 1 .. Len(q) : \E j \in 1 .. Len(q) : q[j] = Reversed(q)[i]  BY <1>1, <1>2
<1> DEFINE b == Reversed(q)
<1>5. Len(b) = Len(q) /\ (\A i \in 1 .. Len(q) : \E j \in 1 .. Len(b) : b[j] = q[i])
      /\ (\A i \in 1 .. Len(b) : \E j \in 1 .. Len(q) : q[j] = b[i])
    BY <1>1, <1>3, <1>4
<1> HIDE DEF b
<1>6. Fields(b) = Fields(q)
    <2>1. \A r : r \in Fields(q) <=> \E i \in 1 .. Len(q) : r = q[i]  BY DEF Fields
    <2>2. \A r : r \in Fields(b) <=> \E i \in 1 .. Len(b) : r = b[i]  BY DEF Fields
    <2>3. QED  BY <1>5, <2>1, <2>2, Zenon
<1>7. QED  BY <1>6 DEF b

LEMMA FieldsNone == Fields(<<>>) = {}
BY DEF Fields

\* x is s but for its key, what it is to adopt, and the like.
LEMMA AsFull ==
    ASSUME NEW s, NEW x, x.type = s.type, x.phase = s.phase, x.todo = s.todo,
           x.own = s.own, x.rels = s.rels, x.kids = s.kids
    PROVE  (Fit(s) => Fit(x)) /\ (Filled(s) => Filled(x))
BY DEF Fit, Filled

\* A copy of an embedded struct that is complete, or of the same type, brings what it should.
LEMMA CopyFills ==
    ASSUME NEW s \in Struct, NEW got \in Struct, s.phase = "scan", s.todo # <<>>, Sound(s),
           got.type = Head(s.todo), Fit(s), Fit(got)
    PROVE  /\ Fit(Copy(s, got))
           /\ Filled(s) /\ (got.type = s.type \/ (got.phase = "done" /\ Filled(got))) => Filled(Copy(s, got))
<1>1. /\ s.type \in Type /\ got.type \in Fields(Embeds[s.type])
      /\ \A r \in Fields(s.todo) : r = got.type \/ r \in Fields(Tail(s.todo))
    BY StructFields, FieldsOf, FieldsSplit DEF Sound
<1>2. Columns(got.type) \subseteq Columns(s.type) /\ Relations(got.type) \subseteq Relations(s.type)
    BY <1>1, ColumnFacts, ColumnsNest
<1> DEFINE x == Copy(s, got)
<1>3. /\ x.type = s.type /\ x.phase = s.phase /\ x.todo = Tail(s.todo)
      /\ x.own = s.own \cup got.own /\ x.rels = s.rels \cup got.rels /\ x.kids = s.kids \cup got.kids
    BY DEF Copy, Struct
<1> HIDE DEF x
<1>4. Fit(x)  BY <1>2, <1>3 DEF Fit
<1>5. ASSUME Filled(s), got.type = s.type \/ (got.phase = "done" /\ Filled(got)) PROVE Filled(x)
    <2>1. \A r \in Fields(s.todo) \ {s.type} : r \in Fields(Tail(s.todo)) \ {s.type} \/ (r = got.type /\ got.type # s.type)
        BY <1>1
    <2>2. got.type # s.type => Columns(got.type) \subseteq got.own /\ Relations(got.type) \subseteq got.rels
        BY <1>5 DEF Filled
    <2>3. ASSUME NEW c \in Columns(s.type)
          PROVE  c \in x.own \cup {s.type} \cup UNION {Columns(e) : e \in Fields(Tail(s.todo)) \ {s.type}}
        <3>1. c \in s.own \/ c = s.type \/ \E e \in Fields(s.todo) \ {s.type} : c \in Columns(e)  BY <1>5 DEF Filled
        <3>2. QED  BY <1>3, <2>1, <2>2, <3>1
    <2>4. ASSUME NEW r \in Relations(s.type)
          PROVE  r \in x.rels \cup Fields(Refs[s.type]) \cup UNION {Relations(e) : e \in Fields(Tail(s.todo)) \ {s.type}}
        <3>1. r \in s.rels \/ r \in Fields(Refs[s.type]) \/ \E e \in Fields(s.todo) \ {s.type} : r \in Relations(e)
            BY <1>5 DEF Filled
        <3>2. QED  BY <1>3, <2>1, <2>2, <3>1
    <2>5. QED  BY <1>3, <2>3, <2>4 DEF Filled
<1>6. QED  BY <1>4, <1>5 DEF x

\* So does what a relation returns.
LEMMA MergeFills ==
    ASSUME NEW c, NEW s \in Struct, NEW got \in Struct, s.phase \in {"scan", "relate"}, s.todo # <<>>, Sound(s),
           s.phase = "scan" => got.type = Head(s.todo), Fit(s), Fit(got)
    PROVE  /\ Fit(Merge(c, s, got))
           /\ Filled(s) /\ (s.phase = "scan" => got.type = s.type \/ (got.phase = "done" /\ Filled(got)))
                => Filled(Merge(c, s, got))
<1>1. CASE s.phase = "scan"
    <2>1. Merge(c, s, got) = Copy(s, got)  BY <1>1 DEF Merge
    <2>2. QED  BY <1>1, <2>1, CopyFills
<1>2. CASE s.phase = "relate" /\ TakenOver(s, Head(s.todo)) /\ ~HasKey(got)
    <2> DEFINE x == [s EXCEPT !.phase = "erring"]
    <2>1. Merge(c, s, got) = x  BY <1>2 DEF Merge
    <2>2. x.type = s.type /\ x.phase = "erring" /\ x.own = s.own /\ x.rels = s.rels /\ x.kids = s.kids  BY DEF Struct
    <2>3. Fit(x) /\ Filled(x)  BY <2>2 DEF Fit, Filled
    <2>4. QED  BY <2>1, <2>3
<1>3. CASE s.phase = "relate" /\ ~(TakenOver(s, Head(s.todo)) /\ ~HasKey(got)) /\ BecomesChild(c, s, Head(s.todo), got)
    <2>1. Merge(c, s, got) = s  BY <1>3 DEF Merge
    <2>2. QED  BY <2>1
<1>4. CASE s.phase = "relate" /\ ~(TakenOver(s, Head(s.todo)) /\ ~HasKey(got)) /\ ~BecomesChild(c, s, Head(s.todo), got)
    <2> DEFINE x == [s EXCEPT !.rels = @ \cup {Head(s.todo)}, !.todo = Tail(@)]
    <2>1. Merge(c, s, got) = x  BY <1>4 DEF Merge
    <2>2. /\ x.type = s.type /\ x.phase = "relate" /\ x.own = s.own /\ x.rels = s.rels \cup {Head(s.todo)}
          /\ x.kids = s.kids /\ x.todo = Tail(s.todo)
        BY <1>4 DEF Struct
    <2> HIDE DEF x
    <2>3. /\ s.todo \in Seq(Type) /\ Head(s.todo) \in Fields(s.todo) /\ Fields(Tail(s.todo)) \subseteq Fields(s.todo)
          /\ \A r \in Fields(s.todo) : r = Head(s.todo) \/ r \in Fields(Tail(s.todo))
        BY StructFields, FieldsOf, FieldsSplit
    <2>4. Fields(Refs[s.type]) \subseteq Relations(s.type)  BY StructFields, ColumnFacts DEF Relations
    <2>5. Fit(x)  BY <1>4, <2>2, <2>3, <2>4 DEF Fit
    <2>6. Filled(s) => Filled(x)  BY <1>4, <2>2, <2>3 DEF Filled
    <2>7. QED  BY <2>1, <2>5, <2>6
<1>5. QED  BY <1>1, <1>2, <1>3, <1>4

\* At the end of the scan a struct has its columns, and its relations are left to do.
LEMMA ScanFills ==
    ASSUME NEW s \in Struct, NEW x, s.phase = "scan", s.todo = <<>>, Fit(s),
           x.type = s.type, x.phase = "relate", x.todo = Reversed(Refs[s.type]), x.own = s.own \cup {s.type},
           x.rels = s.rels, x.kids = s.kids
    PROVE  Fit(x) /\ (Filled(s) => Filled(x))
<1>1. s.type \in Type /\ Refs[s.type] \in Seq(Type)  BY StructFields, TypeAssumption
<1>2. Fields(x.todo) = Fields(Refs[s.type]) /\ Fields(s.todo) = {}  BY <1>1, FieldsReversed, FieldsNone
<1>3. s.type \in Columns(s.type)  BY <1>1, ColumnFacts
<1>4. QED  BY <1>2, <1>3 DEF Fit, Filled

\* A new struct has nothing, and all its fields are left to do.
LEMMA NewFills ==
    ASSUME NEW x, x.type \in Type, x.phase \in {"child", "scan"}, x.todo = Embeds[x.type], x.own = {}, x.rels = {}, x.kids = {}
    PROVE  Fit(x) /\ Filled(x)
<1>1. Fit(x)  BY DEF Fit
<1>2. Filled(x)  BY ColumnsSplit DEF Filled
<1>3. QED  BY <1>1, <1>2
-----------------------------------------------------------------------------
(* Steps that create no struct *)

\* x is the struct s after a step that leaves it as complete as its setup is far.
Grows(s, x) == /\ Same(s, x) /\ s.phase # "failed" /\ (x.phase \in Building => s.phase \in Building)
               /\ Fit(x)
               /\ Clean /\ s.type \notin Circular /\ Filled(s) => Filled(x)

LEMMA StepComplete ==
    ASSUME IInv, CInv, NEW p \in Proc, n' = n, overlap => overlap',
           \A q \in Proc : q # p => ask'[q] = ask[q] /\ top'[q] = top[q],
           \A i \in 1 .. n : struct'[i] = struct[i] \/ Grows(struct[i], struct'[i]),
           ask'[p] # None /\ ask'[p].isChild =>
               top'[p] \in 1 .. n /\ ask'[p].type \in Relations(struct[top'[p]].type)
    PROVE  CInv'
<1>1. /\ TypeOK /\ Numbered /\ Stack /\ Asking /\ Called /\ Chained
      /\ \A i \in 1 .. n : Fit(struct[i])
      /\ n \in Nat
    BY TableFacts DEF IInv, CInv
<1>2. ASSUME NEW i \in 1 .. n
      PROVE  /\ struct'[i].type = struct[i].type /\ struct'[i].by = struct[i].by /\ struct'[i].caller = struct[i].caller
             /\ struct'[i].isChild = struct[i].isChild /\ Fit(struct'[i])
             /\ Built(i)' => Built(i)
             /\ struct[i].phase = "failed" => struct'[i].phase = "failed"
    <2>1. CASE struct'[i] = struct[i]  BY <1>1, <2>1 DEF Built
    <2>2. CASE Grows(struct[i], struct'[i])  BY <2>2 DEF Grows, Same, Built
    <2>3. QED  BY <2>1, <2>2
<1>3. Clean' => Clean  BY <1>2 DEF Clean
<1>4. ASSUME NEW i \in 1 .. n, struct[i].isChild PROVE struct[i].caller \in 1 .. n
    <2>1. struct[i].caller # 0 /\ struct[i].caller < i  BY <1>1, <1>4 DEF Called, Numbered
    <2>2. struct[i].caller \in Nat  BY <1>1, TableFacts, StructFields
    <2>3. QED  BY <1>1, <2>1, <2>2
<1>5. \A i \in 1 .. n : struct'[i].isChild => struct'[i].type \in Relations(struct'[struct'[i].caller].type)
    BY <1>1, <1>2, <1>4 DEF Chained
<1>6. ASSUME NEW q \in Proc, ask'[q] # None, ask'[q].isChild PROVE ask'[q].type \in Relations(struct'[top'[q]].type)
    <2>1. CASE q = p  BY <1>2, <1>6, <2>1
    <2>2. CASE q # p
        <3>1. ask[q] # None /\ ask[q].isChild /\ top'[q] = top[q] /\ ask'[q] = ask[q]  BY <1>6, <2>2
        <3>2. top[q] \in 1 .. n  BY <1>1, <3>1 DEF Asking, Stack, Built
        <3>3. QED  BY <1>1, <1>2, <3>1, <3>2 DEF Chained
    <2>3. QED  BY <2>1, <2>2
<1>7. \A i, j \in 1 .. n : Built(i)' /\ Built(j)' /\ struct'[i].by = struct'[j].by /\ i < j
                           => struct'[j].type \in Within[struct'[i].type]
    BY <1>1, <1>2 DEF Chained
<1>8. Chained'  BY <1>5, <1>6, <1>7 DEF Chained
<1>9. ASSUME Clean', NEW i \in 1 .. n, struct'[i].type \notin Circular PROVE Filled(struct'[i])
    <2>1. Clean /\ struct[i].type \notin Circular  BY <1>2, <1>3, <1>9
    <2>2. Filled(struct[i])  BY <2>1 DEF CInv
    <2>3. QED  BY <2>1, <2>2 DEF Grows
<1>10. \A i \in 1 .. n : Fit(struct'[i])  BY <1>2
<1>11. QED  BY <1>8, <1>9, <1>10 DEF CInv

\* A step that changes no struct.
LEMMA StillComplete ==
    ASSUME IInv, CInv, NEW p \in Proc, n' = n, struct' = struct, top' = top, overlap => overlap',
           \A q \in Proc : q # p => ask'[q] = ask[q],
           ask'[p] # None /\ ask'[p].isChild =>
               top[p] \in 1 .. n /\ ask'[p].type \in Relations(struct[top[p]].type)
    PROVE  CInv'
BY StepComplete

LEMMA GetOrNewComplete == ASSUME IInv, CInv, NEW p \in Proc, GetOrNew(p) PROVE CInv'
<1>1. PICK t \in Asked : ask' = [ask EXCEPT ![p] = NewCall(t, FALSE, FALSE)]  BY DEF GetOrNew
<1>2. t \in Type /\ TypeOK  BY TypeAssumption DEF IInv
<1>3. ~NewCall(t, FALSE, FALSE).isChild  BY <1>2, NewCallType
<1>4. ask'[p] = NewCall(t, FALSE, FALSE) /\ \A q \in Proc : q # p => ask'[q] = ask[q]  BY <1>1, <1>2 DEF TypeOK
<1>5. n' = n /\ struct' = struct /\ top' = top /\ (overlap => overlap')  BY DEF GetOrNew
<1>6. QED  BY <1>3, <1>4, <1>5, StillComplete

LEMMA MissComplete == ASSUME IInv, CInv, NEW p \in Proc, Miss(p) PROVE CInv'
<1>1. TypeOK /\ ask[p] \in Call  BY DEF IInv, Miss, TypeOK
<1> DEFINE a == [ask[p] EXCEPT !.missed = TRUE]
<1>2. ~a.isChild  BY <1>1 DEF Miss, Call
<1>3. ask' = [ask EXCEPT ![p] = a]  BY DEF Miss
<1> HIDE DEF a
<1>4. ask'[p] = a /\ \A q \in Proc : q # p => ask'[q] = ask[q]  BY <1>1, <1>3 DEF TypeOK
<1>5. n' = n /\ struct' = struct /\ top' = top /\ (overlap => overlap')  BY DEF Miss
<1>6. QED  BY <1>2, <1>4, <1>5, StillComplete

LEMMA RelateComplete == ASSUME IInv, CInv, NEW p \in Proc, Relate(p) PROVE CInv'
<1> DEFINE s == struct[top[p]]
           t == Head(s.todo)
           b == <<s.type, t>> \notin Slices /\ t \in Unnamed /\ HasKey(s)
<1>1. In(p, "relate")  BY DEF Relate
<1>2. TypeOK /\ top[p] \in 1 .. n /\ s \in Struct /\ s.phase = "relate" /\ s.type \in Type  BY <1>1, InFacts, StructFields
<1>3. s.todo # <<>> /\ ask' = [ask EXCEPT ![p] = NewCall(t, FALSE, b)]  BY DEF Relate
<1>4. t \in Type /\ t \in Fields(s.todo) /\ b \in BOOLEAN  BY <1>2, <1>3, StructFields, FieldsOf
<1>5. t \in Relations(s.type)
    <2>1. Fit(s)  BY <1>2 DEF CInv
    <2>2. QED  BY <1>2, <1>4, <2>1, ColumnFacts DEF Fit, Relations
<1>6. s = struct[top[p]]  OBVIOUS
<1> HIDE DEF s, t, b
<1>7. NewCall(t, FALSE, b).type = t  BY <1>4, NewCallType
<1>8. ask'[p] = NewCall(t, FALSE, b) /\ \A q \in Proc : q # p => ask'[q] = ask[q]  BY <1>2, <1>3 DEF TypeOK
<1>9. n' = n /\ struct' = struct /\ top' = top /\ (overlap => overlap')  BY DEF Relate
<1>10. QED  BY <1>2, <1>5, <1>6, <1>7, <1>8, <1>9, StillComplete

LEMMA EmbedComplete == ASSUME IInv, CInv, NEW p \in Proc, Embed(p) PROVE CInv'
<1> DEFINE s == struct[top[p]]
           t == Head(s.todo)
           key == IF s.type \in KeyFirst THEN "tagged" ELSE s.key
           x == [s EXCEPT !.key = key]
<1>1. In(p, "scan")  BY DEF Embed
<1>2. TypeOK /\ top[p] \in 1 .. n /\ s \in Struct /\ s.phase = "scan"  BY <1>1, InFacts
<1>3. s.todo # <<>> /\ ask' = [ask EXCEPT ![p] = NewCall(t, TRUE, FALSE)] /\ struct' = [struct EXCEPT ![top[p]] = x]
    BY DEF Embed
<1>4. t \in Type  BY <1>2, <1>3, StructFields, FieldsOf
<1>5. Fit(s)  BY <1>2 DEF CInv
<1>6. s = struct[top[p]]  OBVIOUS
<1> HIDE DEF s, t, key
<1>7. /\ Same(s, x) /\ x.type = s.type /\ x.phase = s.phase /\ x.todo = s.todo /\ x.own = s.own /\ x.rels = s.rels
      /\ x.kids = s.kids
    BY <1>2 DEF Struct, Same
<1> HIDE DEF x
<1>8. Grows(s, x)  BY <1>2, <1>5, <1>7, AsFull DEF Grows
<1>9. \A i \in 1 .. n : struct'[i] = struct[i] \/ Grows(struct[i], struct'[i])
    BY <1>2, <1>3, <1>6, <1>8, TableFacts DEF TypeOK
<1>10. ~NewCall(t, TRUE, FALSE).isChild  BY <1>4, NewCallType
<1>11. ask'[p] = NewCall(t, TRUE, FALSE) /\ \A q \in Proc : q # p => ask'[q] = ask[q]  BY <1>2, <1>3 DEF TypeOK
<1>12. n' = n /\ top' = top /\ (overlap => overlap')  BY DEF Embed
<1>13. QED  BY <1>9, <1>10, <1>11, <1>12, StepComplete

LEMMA AdoptComplete == ASSUME IInv, CInv, NEW p \in Proc, Adopt(p) PROVE CInv'
<1> DEFINE s == struct[top[p]]
<1>1. In(p, "scan")  BY DEF Adopt
<1>2. TypeOK /\ top[p] \in 1 .. n /\ s \in Struct /\ s.phase = "scan" /\ Sound(s)  BY <1>1, InFacts
<1>3. PICK t \in s.adopt : /\ struct' = [struct EXCEPT ![top[p]].adopt = @ \ {t}]
                           /\ ask' = [ask EXCEPT ![p] = NewCall(t, FALSE, TRUE)]
    BY DEF Adopt
<1> DEFINE adopt == s.adopt \ {t}
           x == [s EXCEPT !.adopt = adopt]
<1>4. struct' = [struct EXCEPT ![top[p]] = x]  BY <1>3
<1>5. Fit(s)  BY <1>2 DEF CInv
<1>6. t \in Type /\ t \in Relations(s.type)  BY <1>2, <1>3, <1>5, StructFields DEF Sound, Fit
<1>7. s = struct[top[p]]  OBVIOUS
<1> HIDE DEF s, adopt
<1>8. /\ Same(s, x) /\ x.type = s.type /\ x.phase = s.phase /\ x.todo = s.todo /\ x.own = s.own /\ x.rels = s.rels
      /\ x.kids = s.kids
    BY <1>2 DEF Struct, Same
<1> HIDE DEF x
<1>9. Grows(s, x)  BY <1>2, <1>5, <1>8, AsFull DEF Grows
<1>10. \A i \in 1 .. n : struct'[i] = struct[i] \/ Grows(struct[i], struct'[i])
    BY <1>2, <1>4, <1>7, <1>9, TableFacts DEF TypeOK
<1>11. NewCall(t, FALSE, TRUE).type = t  BY <1>6, NewCallType
<1>12. ask'[p] = NewCall(t, FALSE, TRUE) /\ \A q \in Proc : q # p => ask'[q] = ask[q]  BY <1>2, <1>3 DEF TypeOK
<1>13. n' = n /\ top' = top /\ (overlap => overlap')  BY DEF Adopt
<1>14. QED  BY <1>2, <1>6, <1>7, <1>10, <1>11, <1>12, <1>13, StepComplete

LEMMA EndScanComplete == ASSUME IInv, CInv, NEW p \in Proc, EndScan(p) PROVE CInv'
<1> DEFINE s == struct[top[p]]
           from == struct[s.caller]
           todo == Reversed(Refs[s.type])
           own == s.own \cup {s.type}
           key == KeyOf(s)
           rooted == s.rooted \/ (/\ KeyOf(s) = "none" /\ s.caller # 0 /\ ~s.isChild
                                  /\ HasKey(from) \/ from.rooted)
           x == [s EXCEPT !.phase = "relate", !.todo = todo, !.own = own, !.key = key, !.rooted = rooted]
<1>1. In(p, "scan")  BY DEF EndScan
<1>2. TypeOK /\ top[p] \in 1 .. n /\ s \in Struct /\ s.phase = "scan" /\ ask[p] = None  BY <1>1, InFacts
<1>3. s.todo = <<>> /\ struct' = [struct EXCEPT ![top[p]] = x]  BY DEF EndScan
<1>4. Fit(s)  BY <1>2 DEF CInv
<1>5. s = struct[top[p]] /\ todo = Reversed(Refs[s.type]) /\ own = s.own \cup {s.type}  OBVIOUS
<1> HIDE DEF s, from, todo, own, key, rooted
<1>6. /\ Same(s, x) /\ x.type = s.type /\ x.phase = "relate" /\ x.todo = todo /\ x.own = own /\ x.rels = s.rels
      /\ x.kids = s.kids
    BY <1>2 DEF Struct, Same
<1> HIDE DEF x
<1>7. Fit(x) /\ (Filled(s) => Filled(x))  BY <1>2, <1>3, <1>4, <1>5, <1>6, ScanFills
<1>8. Grows(s, x)  BY <1>2, <1>6, <1>7 DEF Grows, Building
<1>9. \A i \in 1 .. n : struct'[i] = struct[i] \/ Grows(struct[i], struct'[i])
    BY <1>2, <1>3, <1>5, <1>8, TableFacts DEF TypeOK
<1>10. n' = n /\ top' = top /\ ask' = ask /\ (overlap => overlap')  BY DEF EndScan
<1>11. QED  BY <1>2, <1>9, <1>10, StepComplete

LEMMA UnpublishComplete == ASSUME IInv, CInv, NEW p \in Proc, Unpublish(p) PROVE CInv'
<1> DEFINE s == struct[top[p]]
           parent == struct[s.caller]
           haskey == parent.rooted \/ (HasKey(parent) /\ ~parent.isChild)
           key == IF haskey THEN "found" ELSE "none"
           kids == parent.kids \cup {s.type}
           rels == parent.rels \cup {s.type}
           x == [s EXCEPT !.phase = "scan", !.rooted = haskey, !.key = key]
           y == [parent EXCEPT !.kids = kids, !.rels = rels]
           f == [struct EXCEPT ![top[p]] = x]
<1>1. In(p, "child")  BY DEF Unpublish
<1>2. /\ TypeOK /\ Stack /\ ask[p] = None /\ top[p] \in 1 .. n /\ Built(top[p])
      /\ s \in Struct /\ s.phase = "child" /\ Sound(s) /\ Called /\ Numbered
    BY <1>1, InFacts DEF IInv
<1>3. s.isChild  BY <1>2 DEF Sound
<1>4. s.caller # 0 /\ s.caller < top[p] /\ s.caller \in 1 .. n
    <2>1. s.caller # 0 /\ s.caller < top[p]  BY <1>2, <1>3 DEF Called, Numbered
    <2>2. s.caller \in Nat /\ n \in Nat  BY <1>2, TableFacts, StructFields
    <2>3. QED  BY <1>2, <2>1, <2>2
<1>5. parent \in Struct /\ parent.phase # "failed"  BY <1>2, <1>4, TableFacts DEF Stack, Built, Building
<1>6. struct' = [f EXCEPT ![s.caller] = y]  BY DEF Unpublish
<1>7. Fit(s) /\ Fit(parent) /\ s.type \in Relations(parent.type)  BY <1>2, <1>3, <1>4 DEF CInv, Chained
<1>8. s = struct[top[p]] /\ parent = struct[s.caller] /\ kids = parent.kids \cup {s.type} /\ rels = parent.rels \cup {s.type}
    OBVIOUS
<1> HIDE DEF s, parent, haskey, key, kids, rels
<1>9. /\ Same(s, x) /\ x.type = s.type /\ x.phase = "scan" /\ x.todo = s.todo /\ x.own = s.own /\ x.rels = s.rels
      /\ x.kids = s.kids
    BY <1>2 DEF Struct, Same
<1>10. /\ Same(parent, y) /\ y.type = parent.type /\ y.phase = parent.phase /\ y.todo = parent.todo /\ y.own = parent.own
       /\ y.rels = rels /\ y.kids = kids
    BY <1>5 DEF Struct, Same
<1> HIDE DEF x, y
<1>11. Grows(s, x)
    <2>1. Fit(x)  BY <1>7, <1>9 DEF Fit
    <2>2. Filled(s) => Filled(x)  BY <1>2, <1>9 DEF Filled
    <2>3. QED  BY <1>2, <1>9, <2>1, <2>2 DEF Grows, Building
<1>12. Grows(parent, y)
    <2>1. Fit(y)  BY <1>7, <1>8, <1>10 DEF Fit
    <2>2. Filled(parent) => Filled(y)  BY <1>8, <1>10 DEF Filled
    <2>3. QED  BY <1>5, <1>10, <2>1, <2>2 DEF Grows
<1>13. \A i \in 1 .. n : struct'[i] = struct[i] \/ Grows(struct[i], struct'[i])
    <2>1. \A i \in 1 .. n : i \in Id /\ f[i] = IF i = top[p] THEN x ELSE struct[i]  BY <1>2, TableFacts DEF TypeOK
    <2>2. DOMAIN f = Id  BY <1>2 DEF TypeOK
    <2> HIDE DEF f
    <2>3. \A i \in 1 .. n : struct'[i] = IF i = s.caller THEN y ELSE f[i]  BY <1>6, <2>1, <2>2
    <2>4. top[p] # s.caller  BY <1>4
    <2>5. QED  BY <1>8, <1>11, <1>12, <2>1, <2>3, <2>4
<1>14. n' = n /\ top' = top /\ ask' = ask /\ (overlap => overlap')  BY DEF Unpublish
<1>15. QED  BY <1>2, <1>13, <1>14, StepComplete
-----------------------------------------------------------------------------
(* What a call returns to *)

LEMMA ReturnFills ==
    ASSUME TypeOK, NEW p \in Proc, NEW c \in 1 .. n, NEW i \in 0 .. n, NEW ok \in BOOLEAN,
           NEW f, Table(f, n), Return(p, c, i, ok, f),
           f[c].phase \in {"scan", "relate"}, Sound(f[c]), Fit(f[c]),
           ok => i # 0 /\ Fit(f[i]),
           ok /\ ~Adopted(c, i, f) => f[c].todo # <<>> /\ (f[c].phase = "scan" => f[i].type = Head(f[c].todo))
    PROVE  /\ struct'[c].phase \in Building /\ Fit(struct'[c])
           /\ /\ Filled(f[c])
              /\ ok /\ f[c].phase = "scan" /\ ~Adopted(c, i, f) =>
                     f[i].type = f[c].type \/ (f[i].phase = "done" /\ Filled(f[i]))
              => Filled(struct'[c])
<1>0. n \in 0 .. MaxStruct /\ \A j \in 1 .. n : f[j] \in Struct
    BY TableFacts DEF TypeOK, Table
<1>1. CASE Adopted(c, i, f)
    <2>1. struct' = f  BY <1>1 DEF Return
    <2>2. QED  BY <2>1 DEF Building
<1>2. CASE ~Adopted(c, i, f) /\ ok
    <2> DEFINE x == Merge(c, f[c], f[i])
    <2>1. struct' = [f EXCEPT ![c] = x]  BY <1>2 DEF Return
    <2>2. i \in 1 .. n /\ f[c] \in Struct /\ f[i] \in Struct  BY <1>0, <1>2
    <2>3. f[c].todo # <<>> /\ (f[c].phase = "scan" => f[i].type = Head(f[c].todo)) /\ Fit(f[i])  BY <1>2
    <2>4. Goes(f[c], x)  BY <2>2, <2>3, MergeFacts
    <2>5. Fit(x) /\ (/\ Filled(f[c])
                     /\ f[c].phase = "scan" => f[i].type = f[c].type \/ (f[i].phase = "done" /\ Filled(f[i]))
                     => Filled(x))
        BY <2>2, <2>3, MergeFills
    <2>6. x \in Struct /\ x.phase \in Building  BY <2>4 DEF Goes, Building
    <2> HIDE DEF x
    <2>7. struct'[c] = x  BY <1>0, <2>1, <2>2, <2>6, TableSet DEF Puts
    <2>8. QED  BY <1>2, <2>5, <2>6, <2>7
<1>3. CASE ~Adopted(c, i, f) /\ ~ok
    <2> DEFINE x == [f[c] EXCEPT !.phase = "erring"]
    <2>1. struct' = [f EXCEPT ![c] = x]  BY <1>3 DEF Return
    <2>2. f[c] \in Struct  BY <1>0
    <2>3. x \in Struct  BY <2>2 DEF Struct, Phases
    <2>4. x.type = f[c].type /\ x.phase = "erring" /\ x.own = f[c].own /\ x.rels = f[c].rels /\ x.kids = f[c].kids
        BY <2>2 DEF Struct
    <2> HIDE DEF x
    <2>5. Fit(x) /\ Filled(x)  BY <2>4 DEF Fit, Filled
    <2>6. struct'[c] = x  BY <1>0, <2>1, <2>3, TableSet DEF Puts
    <2>7. QED  BY <2>4, <2>5, <2>6 DEF Building
<1>4. QED  BY <1>1, <1>2, <1>3

\* A call that is answered at once.
LEMMA AnswerComplete ==
    ASSUME IInv, CInv, NEW p \in Proc, ask[p] # None, ~ask[p].isChild, NEW i \in 0 .. n, NEW ok \in BOOLEAN,
           ok => i # 0 /\ i = map[ask[p].type],
           Return(p, top[p], i, ok, struct),
           n' = n /\ top' = top /\ overlap' = overlap
    PROVE  CInv'
<1> DEFINE c == top[p]
           s == struct[c]
<1>1. /\ TypeOK /\ Stack /\ Alone /\ Numbered /\ Waiting /\ Asking
      /\ \A j \in 1 .. n : Sound(struct[j]) /\ Fit(struct[j])
      /\ ask[p] \in Call /\ Chained
    BY DEF IInv, CInv, TypeOK
<1>2. c \in 0 .. n  BY <1>1, TableFacts DEF TypeOK, Numbered
<1>3. c # 0 => /\ c \in 1 .. n /\ Built(c) /\ s.by = p /\ s \in Struct /\ s.phase \in {"scan", "relate"}
    <2>1. SUFFICES ASSUME c # 0
                   PROVE  c \in 1 .. n /\ Built(c) /\ s.by = p /\ s \in Struct /\ s.phase \in {"scan", "relate"}
        OBVIOUS
    <2>2. Built(c) /\ s.by = p /\ c \in 1 .. n  BY <1>1, <1>2, <2>1 DEF Stack
    <2>3. Waits(c)  BY <2>2 DEF Waits
    <2>4. QED  BY <1>1, <2>2, <2>3, TableFacts DEF Waiting
<1>4. c # 0 => s.todo # <<>> /\ ask[p].type = Head(s.todo)  BY <1>1 DEF Asking, Awaits
<1>5. Table(struct, n)  BY <1>1, TableFacts
<1>6. c = top[p] /\ s = struct[c]  OBVIOUS
<1> HIDE DEF c, s
<1>7. /\ \A j \in 1 .. n : j # c => struct'[j] = struct[j]
      /\ c # 0 => Goes(s, struct'[c])
    BY <1>1, <1>2, <1>3, <1>4, <1>5, <1>6, ReturnTable
<1>8. /\ \A q \in Proc : q # p => ask'[q] = ask[q]
      /\ ask'[p] # None => c # 0 /\ s.phase = "relate" /\ ask'[p] = NewCall(Head(s.todo), FALSE, TRUE)
    <2>1. c # 0 /\ ok /\ struct[c].phase = "relate" => struct[c].todo # <<>>  BY <1>4, <1>6
    <2>2. Return(p, c, i, ok, struct)  BY <1>6
    <2>3. /\ ask' \in [Proc -> Call \cup {None}]
          /\ \A q \in Proc : q # p => ask'[q] = ask[q]
          /\ ask'[p] # None =>
               /\ c # 0 /\ ok /\ struct[c].phase = "relate" /\ struct[c].todo # <<>>
               /\ BecomesChild(c, struct[c], Head(struct[c].todo), struct[i])
               /\ ask'[p] = NewCall(Head(struct[c].todo), FALSE, TRUE)
          /\ result' \in [Proc -> 0 .. MaxStruct]
          /\ \A q \in Proc : result'[q] # result[q] => q = p /\ c = 0 /\ ok /\ result'[q] = i
          /\ map' \in [Type -> 0 .. MaxStruct]
          /\ \A t \in Type : map'[t] = map[t] \/ (map'[t] = 0 /\ t \notin Shared)
        BY <1>1, <1>2, <1>5, <2>1, <2>2, ReturnRest
    <2>4. QED  BY <1>6, <2>3
<1>9. ok => i \in 1 .. n /\ struct[i] \in Struct /\ struct[i].type = ask[p].type /\ Fit(struct[i])
    <2>1. SUFFICES ASSUME ok PROVE i \in 1 .. n /\ struct[i] \in Struct /\ struct[i].type = ask[p].type /\ Fit(struct[i])
        OBVIOUS
    <2>2. i \in 1 .. n  BY <2>1
    <2>3. ask[p].type \in Type  BY <1>1 DEF Call
    <2>4. QED  BY <1>1, <2>1, <2>2, <2>3, TableFacts DEF Numbered
<1>10. ASSUME c # 0, ok, s.phase = "scan", Clean, s.type \notin Circular
       PROVE  struct[i].type = s.type \/ (struct[i].phase = "done" /\ Filled(struct[i]))
    <2> DEFINE e == struct[i].type
    <2>1. s.type \in Type /\ e \in Fields(Embeds[s.type])
        <3>1. s \in Struct /\ Sound(s) /\ s.todo # <<>> /\ e = Head(s.todo)  BY <1>1, <1>3, <1>4, <1>6, <1>9, <1>10
        <3>2. s.type \in Type /\ e \in Fields(s.todo)  BY <3>1, StructFields, FieldsOf
        <3>3. QED  BY <1>10, <3>1, <3>2 DEF Sound
    <2>2. e \in Type /\ e \notin Circular /\ (e # s.type => s.type \notin Within[e])  BY <1>10, <2>1, NotCircular
    <2>3. CASE Built(i)
        <3>1. i \in 1 .. n /\ i \in Nat /\ n \in Nat /\ struct[i].by \in Proc
            BY <1>1, <1>9, <1>10, TableFacts, StructFields
        <3>2. i <= top[struct[i].by] /\ top[struct[i].by] \in Nat  BY <1>1, <2>3, <3>1, TableFacts DEF Stack, TypeOK
        <3>3. Busy(struct[i].by) /\ Busy(p)  BY <3>1, <3>2 DEF Busy
        <3>4. struct[i].by = p /\ i <= c /\ c \in Nat  BY <1>1, <1>6, <1>10, <3>1, <3>2, <3>3 DEF Alone, Clean
        <3>5. CASE i = c  BY <1>6, <3>5
        <3>6. CASE i < c
            <4>1. s.type \in Within[e]  BY <1>1, <1>3, <1>6, <1>10, <2>3, <3>1, <3>4, <3>6 DEF Chained
            <4>2. QED  BY <2>2, <4>1
        <3>7. QED  BY <3>1, <3>4, <3>5, <3>6
    <2>4. CASE ~Built(i)
        <3>1. struct[i].phase = "done"
            BY <1>9, <1>10, <2>4, StructFields DEF Built, Phases, Building, Clean
        <3>2. QED  BY <1>9, <1>10, <2>2, <3>1 DEF CInv
    <2>5. QED  BY <2>3, <2>4
<1>11. c # 0 => Grows(s, struct'[c])
    <2>1. SUFFICES ASSUME c # 0 PROVE Grows(s, struct'[c])  OBVIOUS
    <2>2. c \in 1 .. n /\ Sound(s) /\ Fit(s) /\ s.phase \in Building /\ s.phase # "failed"
        BY <1>1, <1>3, <1>6, <2>1 DEF Built, Building
    <2>3. /\ struct'[c].phase \in Building /\ Fit(struct'[c])
          /\ /\ Filled(s)
             /\ ok /\ s.phase = "scan" /\ ~Adopted(c, i, struct) =>
                    struct[i].type = s.type \/ (struct[i].phase = "done" /\ Filled(struct[i]))
             => Filled(struct'[c])
        BY <1>1, <1>3, <1>4, <1>5, <1>6, <1>9, <2>1, <2>2, ReturnFills
    <2>4. QED  BY <1>7, <1>10, <2>1, <2>2, <2>3 DEF Grows, Goes
<1>12. ask'[p] # None => c \in 1 .. n /\ ask'[p].type \in Relations(s.type)
    <2>1. SUFFICES ASSUME ask'[p] # None PROVE c \in 1 .. n /\ ask'[p].type \in Relations(s.type)  OBVIOUS
    <2>2. c \in 1 .. n /\ s \in Struct /\ s.todo # <<>> /\ s.phase = "relate" /\ Fit(s)
        BY <1>1, <1>3, <1>4, <1>6, <1>8, <2>1
    <2>3. Head(s.todo) \in Fields(s.todo) /\ s.type \in Type /\ Head(s.todo) \in Type  BY <2>2, StructFields, FieldsOf
    <2>4. Head(s.todo) \in Relations(s.type)  BY <2>2, <2>3, ColumnFacts DEF Fit, Relations
    <2>5. ask'[p].type = Head(s.todo)  BY <1>8, <2>1, <2>3, NewCallType
    <2>6. QED  BY <2>2, <2>4, <2>5
<1>13. \A j \in 1 .. n : struct'[j] = struct[j] \/ Grows(struct[j], struct'[j])  BY <1>6, <1>7, <1>11
<1>14. \A q \in Proc : q # p => ask'[q] = ask[q] /\ top'[q] = top[q]  BY <1>8
<1>15. QED  BY <1>6, <1>12, <1>13, <1>14, StepComplete

LEMMA HitComplete == ASSUME IInv, CInv, NEW p \in Proc, Hit(p) PROVE CInv'
<1>1. TypeOK /\ Numbered /\ ask[p] \in Call  BY DEF IInv, TypeOK, Hit
<1>2. ask[p].type \in Type  BY <1>1 DEF Call
<1>3. map[ask[p].type] \in 0 .. n /\ map[ask[p].type] # 0  BY <1>1, <1>2, TableFacts DEF Hit, TypeOK, Numbered
<1>4. QED  BY <1>3, AnswerComplete DEF Hit

LEMMA RejectComplete == ASSUME IInv, CInv, NEW p \in Proc, Reject(p) PROVE CInv'
<1>1. 0 \in 0 .. n  BY TableFacts DEF IInv
<1>2. QED  BY <1>1, AnswerComplete DEF Reject

\* A setup that is over.
LEMMA LeaveComplete ==
    ASSUME IInv, CInv, NEW p \in Proc, NEW phase, In(p, phase), NEW ok \in BOOLEAN, NEW x,
           Finished(struct[top[p]], x, ok), Leave(p, ok, x), Grows(struct[top[p]], x)
    PROVE  CInv'
<1> DEFINE i == top[p]
           c == x.caller
           f == [struct EXCEPT ![i] = x]
           s == struct[c]
<1>1. /\ TypeOK /\ Stack /\ Numbered /\ Waiting /\ Called /\ Chained
      /\ \A j \in 1 .. n : Sound(struct[j]) /\ Fit(struct[j])
    BY DEF IInv, CInv
<1>2. i # 0 /\ i \in 1 .. n /\ Built(i) /\ struct[i] \in Struct /\ struct[i].by = p
    BY InFacts
<1>3. /\ top' = [top EXCEPT ![p] = c] /\ Return(p, c, i, ok, f)
      /\ n' = n /\ overlap' = overlap
    BY DEF Leave
<1>4. n \in Nat /\ MaxStruct \in Nat /\ n \in 0 .. MaxStruct /\ Table(struct, n)  BY <1>1, TableFacts, BoundAssumption DEF TypeOK
<1>5. /\ x \in Struct /\ x.type = struct[i].type /\ x.caller = struct[i].caller
      /\ x.isChild = struct[i].isChild /\ x.phase = IF ok THEN "done" ELSE "failed"
    BY <1>2 DEF Finished, Same
<1>6. c < i /\ c \in 0 .. n /\ c # i /\ i \in Nat
    <2>1. c < i  BY <1>1, <1>2, <1>5 DEF Numbered
    <2>2. c \in 0 .. MaxStruct  BY <1>5, StructFields
    <2>3. QED  BY <1>2, <1>4, <2>1, <2>2
<1> HIDE DEF c
<1>7. c # 0 => /\ c \in 1 .. n /\ Built(c) /\ s \in Struct /\ s.phase \in {"scan", "relate"}
               /\ Awaits(s, x.type, x.isChild)
    <2>1. SUFFICES ASSUME c # 0
                   PROVE  /\ c \in 1 .. n /\ Built(c) /\ s \in Struct /\ s.phase \in {"scan", "relate"}
                          /\ Awaits(s, x.type, x.isChild)
        OBVIOUS
    <2>2. c = struct[i].caller  BY <1>5 DEF c
    <2>3. Built(c) /\ s.by = p  BY <1>1, <1>2, <2>1, <2>2 DEF Stack
    <2>4. c \in 1 .. n /\ s \in Struct  BY <1>1, <2>3, TableFacts DEF Built
    <2>5. Waits(c)  BY <1>6, <2>3 DEF Waits
    <2>6. Awaits(s, x.type, x.isChild)  BY <1>1, <1>2, <1>5, <2>1, <2>2 DEF Called
    <2>7. QED  BY <1>1, <2>3, <2>4, <2>5, <2>6 DEF Waiting
<1>8. Puts(struct, f, n, i, x)  BY <1>2, <1>4, <1>5, TableSet
<1> HIDE DEF f
<1>9. Table(f, n) /\ f[i] = x /\ (c # 0 => f[c] = s) /\ \A j \in 1 .. n : j # i => f[j] = struct[j]
    BY <1>6, <1>7, <1>8 DEF Puts
<1>10. c = x.caller /\ s = struct[c] /\ i = top[p]  BY DEF c
<1> HIDE DEF s, i
<1>11. c # 0 /\ ok /\ ~Adopted(c, i, f) => s.todo # <<>> /\ x.type = Head(s.todo)
    BY <1>2, <1>7, <1>9, <1>10 DEF Adopted, Awaits
<1>12. c # 0 /\ s.phase = "relate" => s.todo # <<>>  BY <1>7 DEF Awaits
<1>13. i \in 0 .. n /\ (ok => i # 0) /\ (c # 0 => f[c].phase \in {"scan", "relate"})
       /\ (c # 0 /\ ok /\ f[c].phase = "relate" => f[c].todo # <<>>)
    BY <1>2, <1>4, <1>7, <1>9, <1>12
<1>14. /\ \A j \in 1 .. n : j # c => struct'[j] = f[j]
       /\ c # 0 => Goes(f[c], struct'[c])
    BY <1>1, <1>3, <1>6, <1>9, <1>11, <1>13, ReturnTable
<1>15. /\ \A q \in Proc : q # p => ask'[q] = ask[q]
       /\ ask'[p] # None => c # 0 /\ s.phase = "relate" /\ ask'[p] = NewCall(Head(s.todo), FALSE, TRUE)
    <2>1. /\ ask' \in [Proc -> Call \cup {None}]
          /\ \A q \in Proc : q # p => ask'[q] = ask[q]
          /\ ask'[p] # None =>
               /\ c # 0 /\ ok /\ f[c].phase = "relate" /\ f[c].todo # <<>>
               /\ BecomesChild(c, f[c], Head(f[c].todo), f[i])
               /\ ask'[p] = NewCall(Head(f[c].todo), FALSE, TRUE)
          /\ result' \in [Proc -> 0 .. MaxStruct]
          /\ \A q \in Proc : result'[q] # result[q] => q = p /\ c = 0 /\ ok /\ result'[q] = i
          /\ map' \in [Type -> 0 .. MaxStruct]
          /\ \A t \in Type : map'[t] = map[t] \/ (map'[t] = 0 /\ t \notin Shared)
        BY <1>1, <1>3, <1>6, <1>9, <1>13, ReturnRest
    <2>2. QED  BY <1>9, <2>1
<1>16. ASSUME c # 0, ok, s.phase = "scan", Clean, s.type \notin Circular, ~Adopted(c, i, f)
       PROVE  x.phase = "done" /\ Filled(x)
    <2>1. s.type \in Type /\ x.type \in Fields(Embeds[s.type])
        <3>1. s \in Struct /\ Sound(s) /\ s.todo # <<>> /\ x.type = Head(s.todo)  BY <1>1, <1>7, <1>10, <1>11, <1>16
        <3>2. s.type \in Type /\ x.type \in Fields(s.todo)  BY <3>1, StructFields, FieldsOf
        <3>3. QED  BY <1>16, <3>1, <3>2 DEF Sound
    <2>2. x.type \notin Circular  BY <1>16, <2>1, NotCircular
    <2>3. Filled(struct[i])  BY <1>2, <1>5, <1>10, <1>16, <2>2 DEF CInv
    <2>4. QED  BY <1>5, <1>10, <1>16, <2>2, <2>3 DEF Grows
<1>17. Fit(x)  BY <1>10 DEF Grows
<1>18. c # 0 => Grows(s, struct'[c])
    <2>1. SUFFICES ASSUME c # 0 PROVE Grows(s, struct'[c])  OBVIOUS
    <2>2. c \in 1 .. n /\ Sound(s) /\ Fit(s) /\ s.phase \in Building /\ s.phase # "failed"
        BY <1>1, <1>7, <1>10, <2>1 DEF Built, Building
    <2>3. /\ struct'[c].phase \in Building /\ Fit(struct'[c])
          /\ /\ Filled(s)
             /\ ok /\ s.phase = "scan" /\ ~Adopted(c, i, f) => x.type = s.type \/ (x.phase = "done" /\ Filled(x))
             => Filled(struct'[c])
        BY <1>1, <1>3, <1>7, <1>9, <1>11, <1>13, <1>17, <2>1, <2>2, ReturnFills
    <2>4. QED  BY <1>9, <1>14, <1>16, <2>1, <2>2, <2>3 DEF Grows, Goes
<1>19. ask'[p] # None => c \in 1 .. n /\ ask'[p].type \in Relations(s.type)
    <2>1. SUFFICES ASSUME ask'[p] # None PROVE c \in 1 .. n /\ ask'[p].type \in Relations(s.type)  OBVIOUS
    <2>2. c \in 1 .. n /\ s \in Struct /\ s.todo # <<>> /\ s.phase = "relate" /\ Fit(s)
        BY <1>1, <1>7, <1>10, <1>12, <1>15, <2>1
    <2>3. Head(s.todo) \in Fields(s.todo) /\ s.type \in Type /\ Head(s.todo) \in Type  BY <2>2, StructFields, FieldsOf
    <2>4. Head(s.todo) \in Relations(s.type)  BY <2>2, <2>3, ColumnFacts DEF Fit, Relations
    <2>5. ask'[p].type = Head(s.todo)  BY <1>15, <2>1, <2>3, NewCallType
    <2>6. QED  BY <2>2, <2>4, <2>5
<1>20. \A j \in 1 .. n : struct'[j] = struct[j] \/ Grows(struct[j], struct'[j])
    BY <1>2, <1>6, <1>9, <1>10, <1>14, <1>18
<1>21. top'[p] = c /\ \A q \in Proc : q # p => top'[q] = top[q]  BY <1>1, <1>3 DEF TypeOK
<1>22. QED  BY <1>3, <1>10, <1>15, <1>19, <1>20, <1>21, StepComplete

LEMMA FinishComplete == ASSUME IInv, CInv, NEW p \in Proc, Finish(p) PROVE CInv'
<1> DEFINE s == struct[top[p]]
           bad == ~s.embedded /\ s.type \in BadIndex
           ok == ~bad
           phase == IF bad THEN "failed" ELSE "done"
           indexed == ~s.embedded /\ ~bad
           x == [s EXCEPT !.phase = phase, !.indexed = indexed]
<1>1. In(p, "relate") /\ Leave(p, ok, x) /\ s.todo = <<>>  BY DEF Finish
<1>2. s \in Struct /\ s.phase = "relate" /\ s.embedded \in BOOLEAN /\ top[p] \in 1 .. n  BY <1>1, InFacts, StructFields
<1>3. Fit(s)  BY <1>2 DEF CInv
<1>4. /\ phase = IF ok THEN "done" ELSE "failed"
      /\ ok => indexed \/ s.embedded
    OBVIOUS
<1>5. indexed \in BOOLEAN /\ ok \in BOOLEAN  BY <1>2
<1> HIDE DEF ok, phase, indexed
<1>6. phase \in Phases  BY <1>4 DEF Phases
<1>7. x \in Struct  BY <1>2, <1>5, <1>6 DEF Struct
<1>8. /\ x.type = s.type /\ x.by = s.by /\ x.caller = s.caller /\ x.embedded = s.embedded
      /\ x.isChild = s.isChild /\ x.kids = s.kids /\ x.adopt = s.adopt /\ x.key = s.key
      /\ x.phase = phase /\ x.indexed = indexed /\ x.own = s.own /\ x.rels = s.rels
    BY <1>2 DEF Struct
<1> HIDE DEF x
<1>9. Finished(s, x, ok)  BY <1>2, <1>4, <1>7, <1>8 DEF Finished, Same
<1>10. Grows(s, x)
    <2>1. x.phase \in {"done", "failed"}  BY <1>4, <1>8
    <2>2. Fit(x)  BY <1>3, <1>8, <2>1 DEF Fit
    <2>3. Fields(s.todo) = {}  BY <1>1, FieldsNone
    <2>4. Filled(s) => Filled(x)  BY <1>2, <1>8, <2>1, <2>3 DEF Filled
    <2>5. QED  BY <1>2, <1>8, <2>1, <2>2, <2>4 DEF Grows, Same, Building
<1>11. s = struct[top[p]]  OBVIOUS
<1> HIDE DEF s
<1>12. QED  BY <1>1, <1>5, <1>9, <1>10, <1>11, LeaveComplete

LEMMA FailComplete == ASSUME IInv, CInv, NEW p \in Proc, Fail(p) PROVE CInv'
<1> DEFINE s == struct[top[p]]
           x == [s EXCEPT !.phase = "failed"]
<1>1. In(p, "erring") /\ Leave(p, FALSE, x)  BY DEF Fail
<1>2. s \in Struct /\ s.phase = "erring" /\ top[p] \in 1 .. n  BY <1>1, InFacts
<1>3. Fit(s)  BY <1>2 DEF CInv
<1>4. x \in Struct  BY <1>2 DEF Struct, Phases
<1>5. /\ x.type = s.type /\ x.by = s.by /\ x.caller = s.caller /\ x.embedded = s.embedded
      /\ x.isChild = s.isChild /\ x.kids = s.kids /\ x.adopt = s.adopt /\ x.key = s.key
      /\ x.phase = "failed" /\ x.own = s.own /\ x.rels = s.rels
    BY <1>2 DEF Struct
<1> HIDE DEF x
<1>6. Finished(s, x, FALSE)  BY <1>4, <1>5 DEF Finished, Same
<1>7. Grows(s, x)  BY <1>2, <1>3, <1>5 DEF Grows, Same, Building, Fit, Filled
<1>8. s = struct[top[p]]  OBVIOUS
<1> HIDE DEF s
<1>9. QED  BY <1>1, <1>6, <1>7, <1>8, LeaveComplete
-----------------------------------------------------------------------------
(* A new struct on a stack *)

LEMMA CreateComplete == ASSUME IInv, CInv, NEW p \in Proc, Create(p) PROVE CInv'
<1> DEFINE c == top[p]
           a == ask[p]
           m == n + 1
           phase == IF a.isChild THEN "child" ELSE "scan"
           x == [type |-> a.type, phase |-> phase,
                 caller |-> c, by |-> p, embedded |-> a.embedded,
                 isChild |-> a.isChild, todo |-> Embeds[a.type], own |-> {}, rels |-> {},
                 kids |-> {}, adopt |-> {}, key |-> "none", rooted |-> FALSE,
                 indexed |-> FALSE]
<1>1. /\ TypeOK /\ Stack /\ Numbered /\ Waiting /\ Asking /\ Called /\ Chained
      /\ \A j \in 1 .. n : Sound(struct[j]) /\ Fit(struct[j])
    BY DEF IInv, CInv
<1>2. /\ n < MaxStruct /\ n' = m /\ struct' = [struct EXCEPT ![m] = x]
      /\ top' = [top EXCEPT ![p] = m] /\ ask' = [ask EXCEPT ![p] = None] /\ overlap' = overlap
    BY DEF Create
<1>3. a # None  BY DEF Create
<1>4. a \in Call /\ a.type \in Type /\ a.isChild \in BOOLEAN  BY <1>1, <1>3 DEF TypeOK, Call
<1>5. /\ n \in Nat /\ MaxStruct \in Nat /\ m \in Id /\ 1 .. n' = 1 .. n \cup {m} /\ m \notin 1 .. n /\ n < m
    BY <1>1, <1>2, TableFacts, BoundAssumption DEF Id
<1>6. c \in 0 .. n  BY <1>1, <1>5, TableFacts DEF TypeOK, Numbered
<1>7. phase \in {"child", "scan"}  OBVIOUS
<1>8. c = top[p] /\ a = ask[p]  OBVIOUS
<1> HIDE DEF a, c, m, phase
<1>9. /\ x.type = a.type /\ x.phase = phase /\ x.caller = c /\ x.by = p
      /\ x.isChild = a.isChild /\ x.todo = Embeds[a.type] /\ x.own = {} /\ x.rels = {} /\ x.kids = {}
    OBVIOUS
<1> HIDE DEF x
<1>10. struct'[m] = x /\ \A i \in Id : i # m => struct'[i] = struct[i]  BY <1>1, <1>2, <1>5 DEF TypeOK
<1>11. \A i \in 1 .. n : struct'[i] = struct[i] /\ struct[i] \in Struct /\ struct[i].type \in Type
    BY <1>1, <1>5, <1>10, TableFacts, StructFields
<1>12. top'[p] = m /\ \A q \in Proc : q # p => top'[q] = top[q]  BY <1>1, <1>2, <1>5 DEF TypeOK
<1>13. ask'[p] = None /\ \A q \in Proc : q # p => ask'[q] = ask[q]  BY <1>1, <1>2 DEF TypeOK
<1>14. Fit(x) /\ Filled(x)  BY <1>4, <1>7, <1>9, NewFills
<1>15. a.isChild => c \in 1 .. n /\ a.type \in Relations(struct[c].type)
    <2>1. a.isChild => c # 0  BY <1>1, <1>3, <1>8 DEF Asking
    <2>2. QED  BY <1>1, <1>3, <1>5, <1>6, <1>8, <2>1 DEF Chained
<1>16. ASSUME c # 0 PROVE Built(c) /\ struct[c].by = p /\ a.type \in Within[struct[c].type]
    <2>1. Built(c) /\ struct[c].by = p  BY <1>1, <1>8, <1>16 DEF Stack
    <2>2. c \in 1 .. n  BY <2>1 DEF Built
    <2> DEFINE s == struct[c]
    <2>3. s \in Struct /\ s.type \in Type /\ Sound(s) /\ Fit(s)  BY <1>1, <1>11, <2>2
    <2>4. CASE a.isChild  BY <1>15, <2>1, <2>3, <2>4, WithinFacts
    <2>5. CASE ~a.isChild
        <3>1. s.todo # <<>> /\ a.type = Head(s.todo)  BY <1>1, <1>3, <1>8, <1>16, <2>5 DEF Asking, Awaits
        <3>2. s.phase \in {"scan", "relate"}  BY <1>1, <1>3, <1>8, <2>1, <2>2 DEF Waiting, Waits
        <3>3. s.todo \in Seq(Type)  BY <2>3, StructFields
        <3> HIDE DEF s
        <3>4. a.type \in Fields(s.todo)  BY <3>1, <3>3, FieldsOf
        <3>5. a.type \in Fields(Embeds[s.type]) \/ a.type \in Fields(Refs[s.type])
            BY <2>3, <3>2, <3>4 DEF Sound, Fit
        <3>6. a.type \in Within[s.type]  BY <2>3, <3>5, WithinFacts
        <3>7. QED  BY <2>1, <3>6 DEF s
    <2>6. QED  BY <2>4, <2>5, <1>4
<1>17. \A i \in 1 .. n : struct'[i] = struct[i]  BY <1>11
<1>18. \A i \in 1 .. n : Built(i)' <=> Built(i)  BY <1>5, <1>17 DEF Built
<1>19. ASSUME NEW i \in 1 .. n', struct'[i].isChild
       PROVE  struct'[i].type \in Relations(struct'[struct'[i].caller].type)
    <2>1. CASE i = m  BY <1>9, <1>10, <1>15, <1>17, <1>19, <2>1
    <2>2. CASE i \in 1 .. n
        <3>1. struct[i].isChild /\ struct[i].caller # 0 /\ struct[i].caller < i
            BY <1>1, <1>17, <1>19, <2>2 DEF Called, Numbered
        <3>2. struct[i].caller \in Nat  BY <1>11, <2>2, StructFields
        <3>3. struct[i].caller \in 1 .. n  BY <1>5, <2>2, <3>1, <3>2
        <3>4. QED  BY <1>1, <1>17, <2>2, <3>1, <3>3 DEF Chained
    <2>3. QED  BY <1>5, <2>1, <2>2
<1>20. ASSUME NEW q \in Proc, ask'[q] # None, ask'[q].isChild
       PROVE  ask'[q].type \in Relations(struct'[top'[q]].type)
    <2>1. q # p /\ ask'[q] = ask[q] /\ top'[q] = top[q]  BY <1>12, <1>13, <1>20
    <2>2. top[q] \in 1 .. n  BY <1>1, <1>20, <2>1 DEF Asking, Stack, Built
    <2>3. QED  BY <1>1, <1>17, <1>20, <2>1, <2>2 DEF Chained
<1>21. ASSUME NEW i \in 1 .. n', NEW j \in 1 .. n', Built(i)', Built(j)', struct'[i].by = struct'[j].by, i < j
       PROVE  struct'[j].type \in Within[struct'[i].type]
    <2>1. i \in 1 .. n  BY <1>5, <1>21 DEF m
    <2>2. CASE j \in 1 .. n  BY <1>1, <1>17, <1>18, <1>21, <2>1, <2>2 DEF Chained
    <2>3. CASE j = m
        <3>1. struct'[j] = x /\ x.by = p /\ x.type = a.type  BY <1>9, <1>10, <2>3
        <3>2. Built(i) /\ struct[i].by = p  BY <1>17, <1>18, <1>21, <2>1, <3>1
        <3>3. i <= c /\ c # 0 /\ c \in 1 .. n  BY <1>1, <1>5, <1>6, <1>8, <2>1, <3>2 DEF Stack
        <3>4. Built(c) /\ struct[c].by = p /\ a.type \in Within[struct[c].type]  BY <1>16, <3>3
        <3>5. struct[c].type \in Within[struct[i].type]
            <4>1. CASE i = c  BY <1>11, <2>1, <4>1, WithinFacts
            <4>2. CASE i < c  BY <1>1, <2>1, <3>2, <3>3, <3>4, <4>2 DEF Chained
            <4>3. QED  BY <2>1, <3>3, <4>1, <4>2
        <3>6. a.type \in Within[struct[i].type]  BY <1>11, <2>1, <3>4, <3>5, WithinFacts
        <3>7. QED  BY <1>17, <2>1, <3>1, <3>6
    <2>4. QED  BY <1>5, <2>2, <2>3
<1>22. Chained'  BY <1>19, <1>20, <1>21 DEF Chained
<1>23. \A i \in 1 .. n' : Fit(struct'[i])  BY <1>1, <1>5, <1>10, <1>14, <1>17
<1>24. Clean' => Clean  BY <1>2, <1>5, <1>17 DEF Clean
<1>25. ASSUME Clean', NEW i \in 1 .. n', struct'[i].type \notin Circular PROVE Filled(struct'[i])
    <2>1. CASE i = m  BY <1>10, <1>14, <2>1
    <2>2. CASE i \in 1 .. n  BY <1>17, <1>24, <1>25, <2>2 DEF CInv
    <2>3. QED  BY <1>5, <2>1, <2>2
<1>26. QED  BY <1>22, <1>23, <1>25 DEF CInv
-----------------------------------------------------------------------------
(* Complete unless failed *)

LEMMA NextComplete == ASSUME IInv, CInv, [Next]_vars PROVE CInv'
<1>1. CASE UNCHANGED vars
    <2>1. n' = n /\ struct' = struct /\ top' = top /\ ask' = ask /\ overlap' = overlap  BY <1>1 DEF vars
    <2>2. Chained' /\ (Clean' <=> Clean)  BY <2>1 DEF CInv, Chained, Clean, Built
    <2>3. QED  BY <2>1, <2>2 DEF CInv
<1>2. CASE Next
    <2>1. PICK p \in Proc : GetOrNew(p) \/ Step(p)  BY <1>2 DEF Next
    <2>2. CASE GetOrNew(p)  BY <2>2, GetOrNewComplete
    <2>3. CASE Hit(p)  BY <2>3, HitComplete
    <2>4. CASE Reject(p)  BY <2>4, RejectComplete
    <2>5. CASE Miss(p)  BY <2>5, MissComplete
    <2>6. CASE Create(p)  BY <2>6, CreateComplete
    <2>7. CASE Unpublish(p)  BY <2>7, UnpublishComplete
    <2>8. CASE Embed(p)  BY <2>8, EmbedComplete
    <2>9. CASE Adopt(p)  BY <2>9, AdoptComplete
    <2>10. CASE EndScan(p)  BY <2>10, EndScanComplete
    <2>11. CASE Relate(p)  BY <2>11, RelateComplete
    <2>12. CASE Finish(p)  BY <2>12, FinishComplete
    <2>13. CASE Fail(p)  BY <2>13, FailComplete
    <2>14. QED
        BY <2>1, <2>2, <2>3, <2>4, <2>5, <2>6, <2>7, <2>8, <2>9, <2>10, <2>11, <2>12, <2>13 DEF Step
<1>3. QED  BY <1>1, <1>2

\* Until goroutines have met or a setup has failed, whoever asks for a struct gets one with
\* all its fields and relations, unless types embed each other's setups (getOrNew returns
\* what is in the map; setup copies the fields of an embedded struct as it finds them).
THEOREM CompleteHolds == Spec => []CompleteUnlessFailed
<1>1. Init => CInv
    <2>1. SUFFICES ASSUME Init PROVE CInv  OBVIOUS
    <2>2. n = 0 /\ 1 .. n = {} /\ \A p \in Proc : ask[p] = None  BY <2>1 DEF Init
    <2>3. QED  BY <2>2 DEF CInv, Chained
<1>2. ASSUME IInv, CInv PROVE CompleteUnlessFailed
    <2>1. SUFFICES ASSUME Clean, NEW p \in Proc, result[p] # 0, struct[result[p]].type \notin Circular
                   PROVE  LET s == struct[result[p]]
                          IN  s.phase = "done" /\ s.own = Columns(s.type) /\ s.rels = Relations(s.type)
        BY DEF CompleteUnlessFailed, Clean
    <2> DEFINE s == struct[result[p]]
    <2>2. /\ TypeOK /\ Numbered /\ HalfBuiltOnlyIfRacedOrFailed  BY <1>2 DEF IInv
    <2>3. result[p] \in 1 .. n  BY <2>1, <2>2, TableFacts DEF TypeOK, Numbered
    <2>4. s.phase = "done"  BY <2>1, <2>2, <2>3 DEF HalfBuiltOnlyIfRacedOrFailed, Clean
    <2>5. Fit(s) /\ Filled(s)  BY <1>2, <2>1, <2>3 DEF CInv
    <2>6. QED  BY <2>4, <2>5 DEF Fit, Filled
<1>3. Spec => [](IInv /\ CInv)
    <2>1. IInv /\ CInv /\ [Next]_vars => (IInv /\ CInv)'  BY NextInv, NextComplete
    <2>2. Init => IInv /\ CInv  BY <1>1, InitInv
    <2>3. QED  BY <2>1, <2>2, PTL DEF Spec
<1>4. QED  BY <1>2, <1>3, PTL
=============================================================================
