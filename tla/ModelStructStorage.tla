------------------------ MODULE ModelStructStorage ------------------------
(***************************************************************************)
(* The process-wide storage of model structs: getOrNew, the setup of a     *)
(* struct from its Go type and of the structs it refers to, by several     *)
(* goroutines.  A struct is published in the map before its setup, so that *)
(* types may refer to each other.                                          *)
(*                                                                         *)
(* A goroutine's Go stack is the chain of structs from top[p] through      *)
(* caller; ask[p] is a call of getOrNew or addChildField on top of it.     *)
(* Of a struct's fields the model keeps the types whose plain fields it    *)
(* has (its own and those it embeds) and the types it is related to.       *)
(***************************************************************************)
EXTENDS Naturals, Sequences

CONSTANTS Proc,       \* goroutines
          Type,       \* Go struct types
          Asked,      \* those that the program asks for
          Embeds,     \* Embeds[t]: types of its fields tagged EMBEDDED, in order
          Refs,       \* Refs[t]: types of its struct and slice fields, in order
          Slices,     \* <<t, r>>: the field of type r in t is a slice
          InlineFields, \* <<t, r>>: that slice is tagged INLINE on the field
          Anonymous,  \* <<t, e>>: the embedded field of type e in t has no name
          Keyed,      \* types with a primary field of their own
          Tagged,     \* those whose field is tagged PRIMARY_KEY, not just named ID
          KeyFirst,   \* those that declare it before the fields they embed
          Inline,     \* types tagged INLINE on their field "_"
          Unnamed,    \* types without a name
          Excluded,   \* ExcludeTypeForModelStruct
          BadIndex,   \* types whose index tags setupIndexes rejects
          None,       \* no call, no struct
          MaxStruct,  \* bound: structs ever created
          MaxCalls    \* bound: outermost calls of a goroutine

ASSUME TypeAssumption ==
    /\ Asked \subseteq Type \ (Unnamed \cup Inline)
    /\ Embeds \in [Type -> Seq(Type)] /\ Refs \in [Type -> Seq(Type)]
    /\ InlineFields \subseteq Slices /\ Slices \subseteq Type \X Type
    /\ Anonymous \subseteq Type \X Type
    /\ KeyFirst \subseteq Tagged /\ Tagged \subseteq Keyed
    /\ Keyed \subseteq Type /\ Inline \subseteq Type /\ Unnamed \subseteq Type
    /\ Excluded \subseteq Type /\ BadIndex \subseteq Type
ASSUME BoundAssumption == MaxStruct \in Nat /\ MaxCalls \in Nat

VARIABLES map,      \* ModelStructsMap: map[t] is a struct or 0
          n,        \* structs created so far, numbered 1 .. n
          struct,   \* struct[i]
          top,      \* top[p]: the struct p is setting up, 0 if none
          ask,      \* ask[p]: the call p is making, None if none
          result,   \* result[p]: what its last outermost call returned, 0 if nil
          calls,    \* calls[p]: outermost calls so far
          overlap   \* two goroutines have been inside the storage at a time

vars == <<map, n, struct, top, ask, result, calls, overlap>>

Id     == 1 .. MaxStruct
Phases == {"child", "scan", "relate", "erring", "done", "failed"}
Keys   == {"none", "found", "tagged"}

Struct == [type     : Type,
           phase    : Phases,
           caller   : 0 .. MaxStruct,   \* the struct whose setup asked for it
           by       : Proc,
           embedded : BOOLEAN,          \* setup(pth, embedded, from)
           isChild  : BOOLEAN,          \* made by addChildField
           todo     : Seq(Type),        \* fields not yet scanned, then related
           own      : SUBSET Type,      \* Fields: whose plain fields it has
           rels     : SUBSET Type,      \* Relationship or child of its fields
           kids     : SUBSET Type,      \* those of its fields with IsChild
           adopt    : SUBSET Type,      \* those it embeds and still makes its own
           key      : Keys,             \* PrimaryFields: none, or are they tagged
           rooted   : BOOLEAN,          \* Parent # nil and its Root has a key
           indexed  : BOOLEAN]          \* setupIndexes has run

Call == [type : Type, embedded : BOOLEAN, isChild : BOOLEAN, missed : BOOLEAN]

Building == {"child", "scan", "relate", "erring"}
Busy(p)  == top[p] # 0 \/ ask[p] # None
HasKey(s) == s.key # "none"
ASSUME NoneAssumption == None \notin Struct \cup Call

Reversed(s) == [i \in 1 .. Len(s) |-> s[Len(s) + 1 - i]]
-----------------------------------------------------------------------------
Init == /\ map = [t \in Type |-> 0]
        /\ n = 0
        /\ struct = [i \in Id |-> None]
        /\ top = [p \in Proc |-> 0]
        /\ ask = [p \in Proc |-> None]
        /\ result = [p \in Proc |-> 0]
        /\ calls = [p \in Proc |-> 0]
        /\ overlap = FALSE

\* The mark of the outer setup handed down to every call.
NewCallEmbedded(t, embedded, isChild) ==
    [type |-> t, embedded |-> TRUE, isChild |-> isChild, missed |-> FALSE]

NewCall(t, embedded, isChild) ==
    [type |-> t, embedded |-> embedded, isChild |-> isChild, missed |-> FALSE]

\* GetOrNew, called by the program (through StructOf, a scope, AutoMigrate...).
GetOrNew(p) ==
    /\ ~Busy(p)
    /\ calls[p] < MaxCalls
    /\ calls' = [calls EXCEPT ![p] = @ + 1]
    /\ \E t \in Asked : ask' = [ask EXCEPT ![p] = NewCall(t, FALSE, FALSE)]
    /\ overlap' = (overlap \/ \E q \in Proc \ {p} : Busy(q))
    /\ result' = [result EXCEPT ![p] = 0]
    /\ UNCHANGED <<map, n, struct, top>>

\* Every slice element taken out of the map.
TakenOverAlways(s, r) == <<s.type, r>> \in Slices

\* addChildSliceField takes the struct of an unnamed or INLINE slice element out
\* of the map and wants it to have a primary field.
TakenOver(s, r) == /\ <<s.type, r>> \in Slices
                   /\ r \in Unnamed \cup Inline \/ <<s.type, r>> \in InlineFields

\* A struct field whose type has no primary field becomes a child of the struct c.
BecomesChild(c, s, r, got) == /\ <<s.type, r>> \notin Slices
                              /\ ~HasKey(got)
                              /\ ~(got.isChild /\ got.caller = c)

\* A child that c has made of an embedded child field: the scan ignores its error.
Adopted(c, i, f) == /\ i # 0
                    /\ f[c].phase = "scan"
                    /\ f[i].isChild /\ f[i].caller = c

\* A copy of the plain fields of an embedded struct alone.
CopyPlain(s, got) == [s EXCEPT !.own = @ \cup got.own, !.kids = @ \cup got.kids,
                               !.key = IF got.key = "tagged" THEN "tagged" ELSE @,
                               !.todo = Tail(@)]

\* The fields of an embedded struct are copied as they are now; an anonymous one's
\* children are to be made again, for the struct that embeds it.
Copy(s, got) == [s EXCEPT !.own = @ \cup got.own, !.rels = @ \cup got.rels,
                          !.kids = @ \cup got.kids,
                          !.adopt = IF <<s.type, got.type>> \in Anonymous THEN got.kids ELSE {},
                          !.key = IF got.key = "tagged" THEN "tagged" ELSE @,
                          !.todo = Tail(@)]

\* What setup does with a struct that the call for its next field has returned: an
\* embedded one is copied, a related one is linked.
Merge(c, s, got) ==
    IF s.phase = "scan" THEN Copy(s, got)
    ELSE IF TakenOver(s, Head(s.todo)) /\ ~HasKey(got) THEN [s EXCEPT !.phase = "erring"]
    ELSE IF BecomesChild(c, s, Head(s.todo), got) THEN s
    ELSE [s EXCEPT !.rels = @ \cup {Head(s.todo)}, !.todo = Tail(@)]

\* A call of p returns the struct i, or an error, to the setup of the struct c or to
\* the program; f is the table of structs by then.
Return(p, c, i, ok, f) ==
    /\ result' = [result EXCEPT ![p] = IF c = 0 /\ ok THEN i ELSE @]
    /\ struct' = IF c = 0 \/ Adopted(c, i, f) THEN f
                 ELSE [f EXCEPT ![c] = IF ok THEN Merge(c, @, f[i]) ELSE [@ EXCEPT !.phase = "erring"]]
    /\ ask' = [ask EXCEPT ![p] =
                 IF c # 0 /\ ok /\ f[c].phase = "relate" /\ BecomesChild(c, f[c], Head(f[c].todo), f[i])
                 THEN NewCall(Head(f[c].todo), FALSE, TRUE) ELSE None]
    /\ map' = IF c # 0 /\ ok /\ f[c].phase = "relate" /\ TakenOver(f[c], Head(f[c].todo))
              THEN [map EXCEPT ![Head(f[c].todo)] = 0] ELSE map

\* The struct is in the map, complete or not.
Hit(p) ==
    /\ ask[p] # None
    /\ ~ask[p].isChild /\ ~ask[p].missed
    /\ ask[p].type \notin Excluded
    /\ map[ask[p].type] # 0
    /\ Return(p, top[p], map[ask[p].type], TRUE, struct)
    /\ UNCHANGED <<n, top, calls, overlap>>

\* No struct is made of an excluded type: "bad value type".
Reject(p) ==
    /\ ask[p] # None
    /\ ~ask[p].isChild
    /\ ask[p].type \in Excluded
    /\ Return(p, top[p], 0, FALSE, struct)
    /\ UNCHANGED <<n, top, calls, overlap>>

\* Not in the map: others may look it up too before create puts it there.
Miss(p) ==
    /\ ask[p] # None
    /\ ~ask[p].isChild /\ ~ask[p].missed
    /\ ask[p].type \notin Excluded
    /\ map[ask[p].type] = 0
    /\ ask' = [ask EXCEPT ![p].missed = TRUE]
    /\ UNCHANGED <<map, n, struct, top, result, calls, overlap>>

\* ModelStructsMap.Set, whatever is there; INLINE types are not published.
Publish(t, i) == map' = IF t \in Inline THEN map ELSE [map EXCEPT ![t] = i]

\* create, which publishes the struct before anything is known of it.
Create(p) ==
    /\ ask[p] # None
    /\ ask[p].isChild \/ ask[p].missed
    /\ n < MaxStruct
    /\ n' = n + 1
    /\ LET c == ask[p]
       IN  /\ struct' = [struct EXCEPT ![n + 1] =
                [type |-> c.type, phase |-> IF c.isChild THEN "child" ELSE "scan",
                 caller |-> top[p], by |-> p, embedded |-> c.embedded,
                 isChild |-> c.isChild, todo |-> Embeds[c.type], own |-> {}, rels |-> {},
                 kids |-> {}, adopt |-> {}, key |-> "none", rooted |-> FALSE,
                 indexed |-> FALSE]]
           /\ Publish(c.type, n + 1)
    /\ top' = [top EXCEPT ![p] = n + 1]
    /\ ask' = [ask EXCEPT ![p] = None]
    /\ UNCHANGED <<result, calls, overlap>>

\* p is running the setup of a struct in this phase, no call being on top of it.
In(p, phase) == top[p] # 0 /\ ask[p] = None /\ struct[top[p]].phase = phase

\* addChildField takes the type out of the map again, whatever is there by now, marks
\* the field, and gives the child the primary fields of its parent or the parent's root.
Unpublish(p) ==
    /\ In(p, "child")
    /\ LET s      == struct[top[p]]
           parent == struct[s.caller]
           key    == parent.rooted \/ (HasKey(parent) /\ ~parent.isChild)
       IN  /\ map' = [map EXCEPT ![s.type] = 0]
           /\ struct' = [struct EXCEPT
                  ![top[p]] = [s EXCEPT !.phase = "scan", !.rooted = key,
                                        !.key = IF key THEN "found" ELSE "none"],
                  ![s.caller] = [parent EXCEPT !.kids = @ \cup {s.type}, !.rels = @ \cup {s.type}]]
    /\ UNCHANGED <<n, top, ask, result, calls, overlap>>

\* The scan of the fields asks for the struct of each embedded one.
Embed(p) ==
    /\ In(p, "scan")
    /\ LET s == struct[top[p]]
       IN  /\ s.adopt = {} /\ s.todo # <<>>
           /\ struct' = [struct EXCEPT ![top[p]].key = IF s.type \in KeyFirst THEN "tagged" ELSE @]
           /\ ask' = [ask EXCEPT ![p] = NewCall(Head(s.todo), TRUE, FALSE)]
    /\ UNCHANGED <<map, n, top, result, calls, overlap>>

\* A child field of an anonymous embedded struct gets a child of its own.
Adopt(p) ==
    /\ In(p, "scan")
    /\ \E t \in struct[top[p]].adopt :
          /\ struct' = [struct EXCEPT ![top[p]].adopt = @ \ {t}]
          /\ ask' = [ask EXCEPT ![p] = NewCall(t, FALSE, TRUE)]
    /\ UNCHANGED <<map, n, top, result, calls, overlap>>

\* PrimaryFields after the scan: the tagged ones, those a child has been given, or
\* else the field "id", which may have come with an embedded struct.
KeyOf(s) == IF s.type \in Tagged THEN "tagged"
            ELSE IF s.key = "none" /\ (s.own \cup {s.type}) \cap Keyed # {} THEN "found" ELSE s.key

\* The scan is over: PrimaryFields, FieldsByName, Root and Parent are set, and the
\* deferred relations run, the last one first.
EndScan(p) ==
    /\ In(p, "scan")
    /\ LET s    == struct[top[p]]
           from == struct[s.caller]
       IN  /\ s.adopt = {} /\ s.todo = <<>>
           /\ struct' = [struct EXCEPT ![top[p]] =
              [s EXCEPT !.phase = "relate", !.todo = Reversed(Refs[s.type]),
                        !.own = @ \cup {s.type}, !.key = KeyOf(s),
                        !.rooted = @ \/ (/\ KeyOf(s) = "none" /\ s.caller # 0 /\ ~s.isChild
                                         /\ HasKey(from) \/ from.rooted)]]
    /\ UNCHANGED <<map, n, top, ask, result, calls, overlap>>

\* A deferred relation asks for the struct of its field; a field of an unnamed
\* struct type is a child at once if there is a primary field to give it.
Relate(p) ==
    /\ In(p, "relate")
    /\ LET s == struct[top[p]]
       IN  /\ s.todo # <<>>
           /\ ask' = [ask EXCEPT ![p] = NewCall(Head(s.todo), FALSE,
                         /\ <<s.type, Head(s.todo)>> \notin Slices
                         /\ Head(s.todo) \in Unnamed /\ HasKey(s))]
    /\ UNCHANGED <<map, n, struct, top, result, calls, overlap>>

\* setup returns to the program past the setups it was called from.
LeaveUnwound(p, ok, s) ==
    /\ top' = [top EXCEPT ![p] = 0]
    /\ Return(p, 0, top[p], ok, [struct EXCEPT ![top[p]] = s])
    /\ UNCHANGED <<n, calls, overlap>>

\* setup returns to its caller only if it has not failed.
LeaveIfOk(p, ok, s) ==
    /\ top' = [top EXCEPT ![p] = IF ok THEN s.caller ELSE @]
    /\ IF ok THEN Return(p, s.caller, top[p], ok, [struct EXCEPT ![top[p]] = s])
             ELSE struct' = [struct EXCEPT ![top[p]] = s] /\ UNCHANGED <<map, ask, result>>
    /\ UNCHANGED <<n, calls, overlap>>

\* setup returns: p goes on with the caller.
Leave(p, ok, s) ==
    /\ top' = [top EXCEPT ![p] = s.caller]
    /\ Return(p, s.caller, top[p], ok, [struct EXCEPT ![top[p]] = s])
    /\ UNCHANGED <<n, calls, overlap>>

\* The deferred setupIndexes of a struct that was not asked for as embedded.
Finish(p) ==
    /\ In(p, "relate")
    /\ LET s   == struct[top[p]]
           bad == ~s.embedded /\ s.type \in BadIndex
       IN  /\ s.todo = <<>>
           /\ Leave(p, ~bad, [s EXCEPT !.phase = IF bad THEN "failed" ELSE "done",
                                       !.indexed = ~s.embedded /\ ~bad])

\* An error skips the relations that are left; the struct stays in the map.
Fail(p) ==
    /\ In(p, "erring")
    /\ Leave(p, FALSE, [struct[top[p]] EXCEPT !.phase = "failed"])

Step(p) == \/ Hit(p) \/ Reject(p) \/ Miss(p) \/ Create(p) \/ Unpublish(p) \/ Embed(p)
           \/ Adopt(p) \/ EndScan(p) \/ Relate(p) \/ Finish(p) \/ Fail(p)

Next == \E p \in Proc : GetOrNew(p) \/ Step(p)
Spec == Init /\ [][Next]_vars
\* A goroutine in the storage goes on: the locks of the map are held for one access.
FairSpec == Spec /\ \A p \in Proc : WF_vars(Step(p))
-----------------------------------------------------------------------------
(* Correctness *)

\* Types of the variables; structs are numbered in the order of their creation.
TypeOK == /\ map \in [Type -> 0 .. MaxStruct]
          /\ n \in 0 .. MaxStruct
          /\ \A i \in Id : IF i <= n THEN struct[i] \in Struct ELSE struct[i] = None
          /\ struct \in [Id -> Struct \cup {None}]
          /\ top \in [Proc -> 0 .. MaxStruct]
          /\ ask \in [Proc -> Call \cup {None}]
          /\ result \in [Proc -> 0 .. MaxStruct]
          /\ calls \in [Proc -> 0 .. MaxCalls]
          /\ overlap \in BOOLEAN

Fields(seq) == {seq[i] : i \in 1 .. Len(seq)}

\* The types embedded in t at any depth, itself included: the least set that has t and the
\* types that its members embed.
EmbedClosed == {S \in SUBSET Type : \A t \in S : Fields(Embeds[t]) \subseteq S}
Embedded    == [t \in Type |-> {u \in Type : \A S \in EmbedClosed : t \in S => u \in S}]

\* What the struct of t should have: the plain fields and the relations of t and of
\* every type it embeds.
Columns(t)   == Embedded[t]
Relations(t) == UNION {Fields(Refs[e]) : e \in Columns(t)}

\* The types that the setup of t may come to.
SetupClosed == {S \in EmbedClosed : \A t \in S : Fields(Refs[t]) \subseteq S}
Within      == [t \in Type |-> {u \in Type : \A S \in SetupClosed : t \in S => u \in S}]

\* Types that embed one, at some depth, whose setup comes back to the type that embeds it.
\* Whichever is asked for first, one of the two is half built when the other uses it.
Circular == {t \in Type : \E e \in Columns(t) : \E x \in Columns(e) \ {e} : e \in Within[x]}

\* As long as no two goroutines have been in the storage at a time, whoever asks for a
\* struct gets one with all its fields and relations, those of the types it embeds
\* included, or one whose setup has failed before (getOrNew returns what is in the map
\* without a look at it; setup copies embedded fields as it finds them).
CompleteUnlessFailed ==
    ~overlap /\ (\A i \in 1 .. n : struct[i].phase # "failed") =>
        \A p \in Proc : result[p] # 0 =>
            LET s == struct[result[p]]
            IN  s.type \notin Circular =>
                    s.phase = "done" /\ s.own = Columns(s.type) /\ s.rels = Relations(s.type)

\* What is returned half built is being built by another goroutine, or was broken off
\* by an error that only the first to ask has seen.
HalfBuiltOnlyIfRacedOrFailed ==
    \A p \in Proc : result[p] # 0 =>
        LET s == struct[result[p]]
        IN  \/ s.phase \in {"done", "failed"}
            \/ overlap /\ s.by # p

\* Types with a key that are meant to have one struct, under their type in the map.
Shared == {t \in Keyed : /\ t \notin Inline \cup Unnamed \cup Excluded
                         /\ \A s \in Type : <<s, t>> \notin InlineFields}

HasChild(t) == \E i \in 1 .. n : struct[i].type = t /\ struct[i].isChild

\* A goroutine never sets up a shared type inside of its own setup, however types
\* refer to each other (create publishes before setup), but to make a child of it.
NoTypeTwice ==
    ~overlap => \A i, j \in 1 .. n :
        /\ struct[i].type = struct[j].type
        /\ struct[i].type \in Shared /\ ~HasChild(struct[i].type)
        /\ struct[i].phase \in Building /\ struct[j].phase \in Building
        => i = j

\* A type with a key becomes a child of another only if it embeds a type before its key
\* is known, and so was met half built, or if its setup has failed before.
OnlyKeylessBecomeChildren ==
    ~overlap => \A t \in Shared : HasChild(t) =>
        \/ t \notin KeyFirst /\ Embeds[t] # <<>>
        \/ \E i \in 1 .. n : struct[i].type = t /\ struct[i].phase = "failed"

\* Unless it becomes a child of another, a shared type has one struct for good: it is
\* never dropped from the map nor replaced, although the structs of children are.
OneStructForGood ==
    [][\A t \in Shared : map[t] # 0 /\ ~HasChild(t)' /\ ~overlap' => map'[t] = map[t]]_vars

\* A struct in use lacks its indexes only if a struct that embeds it was asked for before.
UnindexedOnlyIfEmbeddedFirst ==
    \A i \in 1 .. n : struct[i].phase = "done" /\ ~struct[i].indexed =>
        \E j \in 1 .. i - 1 : struct[i].type \in Fields(Embeds[struct[j].type])

\* Every call returns, however types refer to each other and whoever else is building
\* them, as long as types without a key, INLINE types and anonymous fields are on no cycle
\* (an anonymous struct's child that embeds it again is made a child once more, and so on).
EveryCallReturns == \A p \in Proc : Busy(p) ~> ~Busy(p)

(* The inductive invariant *)

\* Each struct that is not finished is on the stack of one goroutine, exactly once: at
\* the top, or as the caller of a single other one of the same goroutine.
StackInv ==
    /\ \A p \in Proc : top[p] # 0 => /\ top[p] <= n
                                      /\ struct[top[p]].phase \in Building
                                      /\ struct[top[p]].by = p
    /\ \A i \in 1 .. n : struct[i].caller < i
    /\ \A i \in 1 .. n : struct[i].phase \in Building =>
          /\ struct[i].caller # 0 => /\ struct[struct[i].caller].phase \in Building
                                     /\ struct[struct[i].caller].by = struct[i].by
          /\ i = top[struct[i].by] \/ \E j \in 1 .. n : struct[j].phase \in Building /\ struct[j].caller = i
    /\ \A i, j \in 1 .. n : /\ struct[i].phase \in Building /\ struct[j].phase \in Building
                            /\ struct[i].caller = struct[j].caller /\ struct[i].by = struct[j].by
                            => i = j

\* The stacks of building structs are in order, no shared type is built twice by one caller
\* alone, and an index is missing only where an embedding struct came first.
Inv == TypeOK /\ StackInv /\ NoTypeTwice /\ OnlyKeylessBecomeChildren /\ UnindexedOnlyIfEmbeddedFirst
=============================================================================
