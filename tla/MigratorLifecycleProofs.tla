---------------------- MODULE MigratorLifecycleProofs ----------------------
(***************************************************************************)
(* What MigratorLifecycle guarantees for any types with any children, any  *)
(* functions given to Migrate, any number of connections, calls and        *)
(* failures: its invariant Inv, and what success, failure and a retry of a *)
(* Migrate mean for the database.                                          *)
(***************************************************************************)
EXTENDS MigratorLifecycle, SequenceTheorems, TLAPS

Stages == {"before", "hastable", "column", "join", "create_before", "create", "create_after",
           "index", "fk", "children", "after", "end"}
Frames == [t : Type, at : Stages, made : BOOLEAN, err : BOOLEAN, kids : Seq(Type)]
Elements(s) == {s[i] : i \in 1 .. Len(s)}

\* TypeOK with everything typed; a function is left to do while its AutoMigrate is under way.
Typed == /\ TypeOK
         /\ mig \in [db : {"base", "tx", "gone"}, failed : BOOLEAN, trans : BOOLEAN, posts : Seq(Type)]
         /\ stack \in Seq(Frames) /\ asked \subseteq Type
         /\ phase \in {"begin", "run"} => todo \in Seq(Fun)
         /\ stack # <<>> => phase = "run" /\ todo # <<>>
         /\ \A i \in 1 .. Len(stack) : /\ i < Len(stack) => stack[i].at = "children"
                                       /\ Elements(stack[i].kids) \subseteq Elements(Children[stack[i].t])
         /\ phase = "posts" => todo \in Seq(Type)
         /\ aborts \in BOOLEAN /\ clash \in BOOLEAN /\ taken \in BOOLEAN

TableFits(f, os, b) ==
    /\ f.at = "column" => ~f.made /\ <<"table", f.t>> \in os
    /\ f.at \in {"create_before", "create"} => f.made
    /\ f.made /\ f.at \in {"join", "create_before", "create"} /\ ~taken /\ ~b => <<"table", f.t>> \notin os

\* What the transaction sees and the dialect finds: no column without its table, all that is
\* committed, and on the transaction's own handle unless another one was taken, so that a
\* table it is about to create is not there.
Sees == /\ \A t \in Type : /\ <<"column", t>> \in base => <<"table", t>> \in base
                           /\ <<"column", t>> \in own => <<"table", t>> \in own
        /\ tx = "open" => base \subseteq own /\ (~taken => handle = "mine")
        /\ \A i \in 1 .. Len(stack) : tx = "open" => TableFits(stack[i], own, broken)

\* A Migrator has its own transaction in its first Migrate only, and that has left nothing
\* undone and dropped no error but those noted.
Life == /\ phase # "idle" => base = was /\ out = "none" /\ mig.db # "gone"
        /\ phase = "begin" => mig.trans /\ asked = {} /\ ~lost
        /\ phase \in {"run", "posts"} => mig.db = "tx"
        /\ mig.db = "base" \/ phase = "begin" => ~errored /\ ~mig.failed /\ mig.posts = <<>>
        /\ errored /\ phase # "idle" => ~mig.trans
        /\ phase # "idle" /\ mig.trans /\ mig.failed => lost

\* The objects a type's migration makes at once, and the types that have them and a handler
\* left for their foreign keys.
Parts(t) == ({"table", "column", "index"} \X {t}) \cup ({"join"} \X Joins[t])
Made == {t \in Type : Parts(t) \subseteq own /\ t \in Elements(mig.posts)}

\* What a frame without an error has made of its own type, of the objects os and handlers ps.
HasMadeOf(f, os, ps) ==
    /\ \/ f.at \in {"create_after", "index", "fk", "children", "after", "end"}
       \/ f.at = "join" /\ ~f.made
       => {<<"table", f.t>>, <<"column", f.t>>} \subseteq os
    /\ f.at \in {"create_before", "create", "create_after", "index", "fk", "children", "after", "end"} =>
          {"join"} \X Joins[f.t] \subseteq os
    /\ f.at \in {"fk", "children", "after", "end"} => <<"index", f.t>> \in os
    /\ f.at \in {"children", "after", "end"} => f.t \in Elements(ps)
    /\ f.at = "end" \/ (f.at = "after" /\ f.made) => f.kids = <<>>
HasMade(f) == HasMadeOf(f, own, mig.posts)

\* All below t has been made.
Whole(t) == Tree(t) \subseteq Made

\* The children that are not left to do are made, but for the one that is being migrated.
KidsFit(i) == \A c \in Elements(Children[stack[i].t]) :
                 \/ c \in Elements(stack[i].kids) \/ Whole(c)
                 \/ i < Len(stack) /\ c = stack[i + 1].t

\* As long as no error was dropped, what has been asked for is made or under way.
Progress ==
    tx = "open" /\ ~lost /\ phase \in {"run", "posts"} =>
        /\ \A t \in asked : Whole(t) \/ (stack # <<>> /\ t = stack[1].t)
        /\ \A i \in 1 .. Len(stack) : KidsFit(i) /\ (~stack[i].err => HasMade(stack[i]))
        /\ phase = "posts" /\ mig.trans =>
              \A t \in Elements(mig.posts) : t \in Elements(todo) \/ <<"fk", t>> \in own

\* The inductive invariant.
IInv == Typed /\ Sees /\ Life /\ Progress /\ LeftOpenOnlyByError /\ ClashOnlyIfHandleTaken
-----------------------------------------------------------------------------
(* Types and what is below them *)

LEMMA TreeFacts ==
    ASSUME NEW t \in Type
    PROVE  /\ t \in Tree(t) /\ Tree(t) \subseteq Type /\ Closed(Tree(t))
           /\ \A S \in SUBSET Type : t \in S /\ Closed(S) => Tree(t) \subseteq S
<1>1. t \in Tree(t) /\ Tree(t) \subseteq Type  BY DEF Tree
<1>2. \A S \in SUBSET Type : t \in S /\ Closed(S) => Tree(t) \subseteq S  BY DEF Tree
<1>3. ASSUME NEW u \in Tree(t), NEW i \in 1 .. Len(Children[u]) PROVE Children[u][i] \in Tree(t)
    <2>1. u \in Type /\ Children[u][i] \in Type  BY <1>1, TypeAssumption
    <2>2. ASSUME NEW S \in SUBSET Type, t \in S, Closed(S) PROVE Children[u][i] \in S
        BY <1>2, <2>2 DEF Closed
    <2>3. QED  BY <2>1, <2>2 DEF Tree
<1>4. QED  BY <1>1, <1>2, <1>3 DEF Closed

\* A type that is made, and all of whose children are with all below them, is whole.
LEMMA WholeOf ==
    ASSUME NEW t \in Type, t \in Made, \A c \in Elements(Children[t]) : Whole(c)
    PROVE  Whole(t)
<1> DEFINE Kids == Elements(Children[t])
           S    == {t} \cup UNION {Tree(c) : c \in Kids}
<1>1. Kids \subseteq Type  BY TypeAssumption DEF Elements
<1>2. S \subseteq Type  BY <1>1, TreeFacts
<1>3. ASSUME NEW u \in S, NEW i \in 1 .. Len(Children[u]) PROVE Children[u][i] \in S
    <2>1. CASE u = t
        <3>1. Children[u][i] \in Kids  BY <2>1 DEF Elements
        <3>2. Children[u][i] \in Tree(Children[u][i])  BY <1>1, <3>1, TreeFacts
        <3>3. QED  BY <3>1, <3>2
    <2>2. CASE u # t
        <3>1. PICK c \in Kids : u \in Tree(c)  BY <2>2
        <3>2. Closed(Tree(c))  BY <1>1, <3>1, TreeFacts
        <3>3. Children[u][i] \in Tree(c)  BY <3>1, <3>2 DEF Closed
        <3>4. QED  BY <3>1, <3>3
    <2>3. QED  BY <2>1, <2>2
<1>4. Closed(S)  BY <1>3 DEF Closed
<1>5. Tree(t) \subseteq S  BY <1>2, <1>4, TreeFacts
<1>6. S \subseteq Made
    <2>1. \A c \in Kids : Tree(c) \subseteq Made  BY DEF Whole
    <2>2. QED  BY <2>1
<1>7. QED  BY <1>5, <1>6 DEF Whole

\* What is made stays made while a Migrate goes on.
Grows == own \subseteq own' /\ Elements(mig.posts) \subseteq Elements(mig'.posts)

LEMMA GrowsKeeps ==
    ASSUME Grows
    PROVE  /\ \A t \in Type : Whole(t) => Whole(t)'
           /\ \A f \in Frames : HasMade(f) => HasMadeOf(f, own', mig'.posts)
<1>1. Made \subseteq Made'  BY DEF Grows, Made, Parts
<1>2. \A t \in Type : Whole(t) => Whole(t)'  BY <1>1 DEF Whole
<1>3. \A f \in Frames : HasMade(f) => HasMadeOf(f, own', mig'.posts)  BY DEF Grows, HasMade, HasMadeOf
<1>4. QED  BY <1>2, <1>3

LEMMA AppendElements ==
    ASSUME NEW S, NEW s \in Seq(S), NEW x \in S
    PROVE  Append(s, x) \in Seq(S) /\ Elements(Append(s, x)) = Elements(s) \cup {x}
<1>1. Append(s, x) \in Seq(S) /\ Len(Append(s, x)) = Len(s) + 1 /\ Len(s) \in Nat  OBVIOUS
<1>2. Append(s, x)[Len(s) + 1] = x  OBVIOUS
<1>3. \A i \in 1 .. Len(s) : Append(s, x)[i] = s[i]  OBVIOUS
<1>4. QED  BY <1>1, <1>2, <1>3 DEF Elements

LEMMA HeadElements ==
    ASSUME NEW S, NEW s \in Seq(S), s # <<>>
    PROVE  Head(s) \in S /\ Tail(s) \in Seq(S) /\ Elements(s) = Elements(Tail(s)) \cup {Head(s)}
<1>1. Head(s) \in S /\ Tail(s) \in Seq(S) /\ Head(s) = s[1] /\ Len(s) \in Nat /\ Len(s) > 0
    OBVIOUS
<1>2. Len(Tail(s)) = Len(s) - 1 /\ \A i \in 1 .. Len(Tail(s)) : Tail(s)[i] = s[i + 1]  BY <1>1
<1>3. ASSUME NEW i \in 1 .. Len(s) PROVE s[i] \in Elements(Tail(s)) \cup {Head(s)}
    <2>1. CASE i = 1  BY <1>1, <2>1
    <2>2. CASE i # 1
        <3>1. i - 1 \in 1 .. Len(Tail(s)) /\ Tail(s)[i - 1] = s[i]  BY <1>1, <1>2, <2>2
        <3>2. QED  BY <3>1 DEF Elements
    <2>3. QED  BY <2>1, <2>2
<1>4. QED  BY <1>1, <1>2, <1>3 DEF Elements
\* Sequences with the last element replaced, added or taken off.
LEMMA LastElement ==
    ASSUME NEW S, NEW s \in Seq(S), NEW x \in S
    PROVE  /\ s # <<>> => /\ [s EXCEPT ![Len(s)] = x] \in Seq(S) /\ Len([s EXCEPT ![Len(s)] = x]) = Len(s)
                         /\ [s EXCEPT ![Len(s)] = x][Len(s)] = x
                         /\ \A i \in 1 .. Len(s) : i # Len(s) => [s EXCEPT ![Len(s)] = x][i] = s[i]
           /\ s \o <<x>> \in Seq(S) /\ Len(s \o <<x>>) = Len(s) + 1 /\ (s \o <<x>>)[Len(s) + 1] = x
           /\ \A i \in 1 .. Len(s) : (s \o <<x>>)[i] = s[i]
           /\ s # <<>> => /\ SubSeq(s, 1, Len(s) - 1) \in Seq(S) /\ Len(SubSeq(s, 1, Len(s) - 1)) = Len(s) - 1
                         /\ \A i \in 1 .. Len(s) - 1 : SubSeq(s, 1, Len(s) - 1)[i] = s[i]
<1>1. Len(s) \in Nat /\ (s # <<>> => Len(s) > 0)  OBVIOUS
<1>2. s # <<>> => /\ [s EXCEPT ![Len(s)] = x] \in Seq(S) /\ Len([s EXCEPT ![Len(s)] = x]) = Len(s)
                  /\ [s EXCEPT ![Len(s)] = x][Len(s)] = x
                  /\ \A i \in 1 .. Len(s) : i # Len(s) => [s EXCEPT ![Len(s)] = x][i] = s[i]
    BY <1>1
<1>3. /\ s \o <<x>> \in Seq(S) /\ Len(s \o <<x>>) = Len(s) + 1 /\ (s \o <<x>>)[Len(s) + 1] = x
      /\ \A i \in 1 .. Len(s) : (s \o <<x>>)[i] = s[i]
    BY <1>1
<1>4. s # <<>> => /\ SubSeq(s, 1, Len(s) - 1) \in Seq(S) /\ Len(SubSeq(s, 1, Len(s) - 1)) = Len(s) - 1
                  /\ \A i \in 1 .. Len(s) - 1 : SubSeq(s, 1, Len(s) - 1)[i] = s[i]
    <2>1. SUFFICES ASSUME s # <<>>
                   PROVE  /\ SubSeq(s, 1, Len(s) - 1) \in Seq(S) /\ Len(SubSeq(s, 1, Len(s) - 1)) = Len(s) - 1
                          /\ \A i \in 1 .. Len(s) - 1 : SubSeq(s, 1, Len(s) - 1)[i] = s[i]
        OBVIOUS
    <2> DEFINE m == Len(s) - 1
    <2>2. m \in Nat /\ 1 \in Int /\ \A i \in 1 .. m : s[i] \in S  BY <1>1, <2>1
    <2> HIDE DEF m
    <2>3. /\ SubSeq(s, 1, m) \in Seq(S) /\ Len(SubSeq(s, 1, m)) = IF 1 <= m THEN m - 1 + 1 ELSE 0
          /\ \A i \in 1 .. m - 1 + 1 : SubSeq(s, 1, m)[i] = s[1 + i - 1]
        BY <2>2, SubSeqProperties
    <2>4. m - 1 + 1 = m /\ (~ 1 <= m => m = 0) /\ \A i \in 1 .. m : 1 + i - 1 = i  BY <2>2
    <2>5. SubSeq(s, 1, m) \in Seq(S) /\ Len(SubSeq(s, 1, m)) = m /\ \A i \in 1 .. m : SubSeq(s, 1, m)[i] = s[i]
        BY <2>3, <2>4
    <2>6. QED  BY <2>5 DEF m
<1>5. QED  BY <1>2, <1>3, <1>4
-----------------------------------------------------------------------------
(* The dialect and the frames *)

\* What the dialect finds is there; on the transaction's own handle it finds all.
LEMMA SeenOwn ==
    ASSUME Typed, Sees, tx = "open"
    PROVE  Seen \subseteq own /\ (~taken /\ ~broken => Seen = own)
  BY DEF Sees, Seen, Typed, TypeOK

\* The innermost frame.
LEMMA TopFacts ==
    ASSUME Typed, stack # <<>>
    PROVE  /\ Len(stack) \in Nat /\ Len(stack) > 0 /\ Top = stack[Len(stack)] /\ Top \in Frames
           /\ Top.t \in Type /\ Top.at \in Stages /\ Top.made \in BOOLEAN /\ Top.err \in BOOLEAN
           /\ Top.kids \in Seq(Type) /\ Elements(Top.kids) \subseteq Elements(Children[Top.t])
           /\ phase = "run" /\ todo # <<>> /\ todo \in Seq(Fun)
           /\ \A i \in 1 .. Len(stack) : stack[i] \in Frames
<1>1. stack \in Seq(Frames)  BY DEF Typed
<1>2. Len(stack) \in Nat /\ Len(stack) > 0  BY <1>1
<1>3. Top = stack[Len(stack)]  BY DEF Top
<1>4. Top \in Frames  BY <1>1, <1>2, <1>3
<1>5. phase = "run" /\ todo # <<>> /\ todo \in Seq(Fun)  BY DEF Typed
<1>6. \A i \in 1 .. Len(stack) : stack[i] \in Frames  BY <1>1
<1>7. Elements(Top.kids) \subseteq Elements(Children[Top.t])  BY <1>2, <1>3 DEF Typed
<1>8. QED  BY <1>2, <1>3, <1>4, <1>5, <1>6, <1>7 DEF Frames

\* A step that puts f in the place of the innermost frame, of the same type and with the same
\* children to do.
Replaces(f) == /\ stack # <<>> /\ Put(f) /\ f \in Frames /\ f.t = Top.t /\ f.kids = Top.kids
               /\ Quiet /\ lost' = lost /\ taken' = taken
               /\ mig' \in [db : {"base", "tx", "gone"}, failed : BOOLEAN, trans : BOOLEAN, posts : Seq(Type)]
               /\ mig'.db = mig.db /\ mig'.failed = mig.failed /\ mig'.trans = mig.trans
               /\ Grows /\ own' \subseteq Objects /\ broken' \in BOOLEAN

\* What such a step owes the invariant.
Owes(f) == /\ \A t \in Type : <<"column", t>> \in own' => <<"table", t>> \in own'
           /\ clash' \in BOOLEAN /\ (clash' => taken)
           /\ tx = "open" => TableFits(f, own', broken')
           /\ tx = "open" /\ ~lost /\ ~f.err => HasMadeOf(f, own', mig'.posts)

LEMMA PutInv ==
    ASSUME IInv, NEW f, Replaces(f), Owes(f)
    PROVE  IInv'
<1> DEFINE n == Len(stack)
<1>1. /\ n \in Nat /\ n > 0 /\ Top = stack[n] /\ phase = "run" /\ todo # <<>> /\ todo \in Seq(Fun)
      /\ \A i \in 1 .. n : stack[i] \in Frames
    BY TopFacts DEF IInv, Replaces
<1>2. /\ stack' \in Seq(Frames) /\ Len(stack') = n /\ stack'[n] = f /\ stack' # <<>>
      /\ \A i \in 1 .. n : i # n => stack'[i] = stack[i]
    <2>1. stack' = [stack EXCEPT ![n] = f] /\ f \in Frames  BY DEF Replaces, Put
    <2>2. stack \in Seq(Frames)  BY DEF IInv, Typed
    <2>3. QED  BY <1>1, <2>1, <2>2
<1>3. \A i \in 1 .. n : stack'[i].t = stack[i].t /\ stack'[i].kids = stack[i].kids
    BY <1>1, <1>2 DEF Replaces
<1>4. /\ base' = base /\ tx' = tx /\ aborts' = aborts /\ handle' = handle /\ other' = other /\ leaks' = leaks
      /\ phase' = phase /\ todo' = todo /\ asked' = asked /\ out' = out /\ errored' = errored /\ was' = was
      /\ calls' = calls /\ lost' = lost /\ taken' = taken
    BY DEF Replaces, Quiet
<1>5. Typed'
    <2>1. TypeOK'
        <3>1. \A i \in 2 .. Len(stack') : \E k \in 1 .. Len(Children[stack'[i - 1].t]) :
                                            Children[stack'[i - 1].t][k] = stack'[i].t
            <4>1. ASSUME NEW i \in 2 .. n
                  PROVE  stack'[i - 1].t = stack[i - 1].t /\ stack'[i].t = stack[i].t
                BY <1>1, <1>3
            <4>2. \A i \in 2 .. n : \E k \in 1 .. Len(Children[stack[i - 1].t]) :
                                            Children[stack[i - 1].t][k] = stack[i].t
                BY DEF IInv, Typed, TypeOK
            <4>3. QED  BY <1>2, <4>1, <4>2
        <3>2. mig'.db \in {"base", "tx", "gone"}  BY DEF Replaces
        <3>3. Free' = Free  BY <1>4 DEF Free
        <3>4. QED  BY <1>1, <1>4, <3>1, <3>2, <3>3 DEF IInv, Typed, TypeOK, Replaces
    <2>2. \A i \in 1 .. n : /\ i < n => stack'[i].at = "children"
                            /\ Elements(stack'[i].kids) \subseteq Elements(Children[stack'[i].t])
        <3>1. \A i \in 1 .. n : Elements(stack[i].kids) \subseteq Elements(Children[stack[i].t])
            BY DEF IInv, Typed
        <3>2. \A i \in 1 .. n : i < n => stack[i].at = "children"  BY DEF IInv, Typed
        <3>3. QED  BY <1>1, <1>2, <1>3, <3>1, <3>2
    <2>3. QED  BY <1>1, <1>2, <1>4, <2>1, <2>2 DEF IInv, Typed, Replaces, Owes
<1>6. Sees'
    <2>1. \A t \in Type : <<"column", t>> \in base => <<"table", t>> \in base  BY DEF IInv, Sees
    <2>2. ASSUME tx = "open" PROVE base \subseteq own' /\ (~taken => handle = "mine")
        BY <2>2 DEF IInv, Sees, Replaces, Grows
    <2>3. ASSUME NEW i \in 1 .. n, tx = "open" PROVE TableFits(stack[i], own, broken)'
        <3>1. CASE i = n  BY <1>2, <1>4, <2>3, <3>1 DEF Owes, TableFits
        <3>2. CASE i # n
            <4>1. stack[i].at = "children"  BY <1>1, <3>2 DEF IInv, Typed
            <4>2. QED  BY <1>2, <3>2, <4>1 DEF TableFits
        <3>3. QED  BY <3>1, <3>2
    <2>4. QED  BY <1>2, <1>4, <2>1, <2>2, <2>3 DEF Sees, Owes
<1>7. Life'
    BY <1>1, <1>4 DEF IInv, Life, Replaces
<1>8. Progress'
    <2>1. SUFFICES ASSUME tx = "open", ~lost PROVE
              /\ \A t \in asked : Whole(t)' \/ (stack' # <<>> /\ t = stack'[1].t)
              /\ \A i \in 1 .. n : KidsFit(i)' /\ (~stack'[i].err => HasMadeOf(stack'[i], own', mig'.posts))
        BY <1>1, <1>2, <1>4 DEF Progress, HasMade
    <2>2. /\ \A t \in asked : Whole(t) \/ t = stack[1].t
          /\ \A i \in 1 .. n : KidsFit(i) /\ (~stack[i].err => HasMade(stack[i]))
        BY <1>1, <2>1 DEF IInv, Progress
    <2>3. /\ \A t \in Type : Whole(t) => Whole(t)'
          /\ \A g \in Frames : HasMade(g) => HasMadeOf(g, own', mig'.posts)
        BY GrowsKeeps DEF Replaces
    <2>4. asked \subseteq Type  BY DEF IInv, Typed
    <2>5. \A t \in asked : Whole(t)' \/ (stack' # <<>> /\ t = stack'[1].t)
        BY <1>1, <1>2, <1>3, <2>2, <2>3, <2>4
    <2>6. ASSUME NEW i \in 1 .. n PROVE KidsFit(i)'
        <3>1. \A c \in Elements(Children[stack[i].t]) :
                 c \in Elements(stack[i].kids) \/ Whole(c) \/ (i < n /\ c = stack[i + 1].t)
            BY <2>2 DEF KidsFit
        <3>2. stack[i].t \in Type  BY <1>1 DEF Frames
        <3>3. Elements(Children[stack[i].t]) \subseteq Type  BY <3>2, TypeAssumption DEF Elements
        <3>4. i < n => i + 1 \in 1 .. n  BY <1>1
        <3>5. QED  BY <1>2, <1>3, <2>3, <3>1, <3>3, <3>4 DEF KidsFit
    <2>7. ASSUME NEW i \in 1 .. n, ~stack'[i].err PROVE HasMadeOf(stack'[i], own', mig'.posts)
        <3>1. CASE i = n  BY <1>2, <2>1, <2>7, <3>1 DEF Owes
        <3>2. CASE i # n
            <4>1. HasMade(stack[i]) /\ stack[i] \in Frames /\ stack'[i] = stack[i]  BY <1>1, <1>2, <2>2, <2>7, <3>2
            <4>2. QED  BY <2>3, <4>1
        <3>3. QED  BY <3>1, <3>2
    <2>8. QED  BY <2>5, <2>6, <2>7
<1>9. LeftOpenOnlyByError' /\ ClashOnlyIfHandleTaken'
    BY <1>1, <1>4 DEF LeftOpenOnlyByError, ClashOnlyIfHandleTaken, Owes
<1>10. QED  BY <1>5, <1>6, <1>7, <1>8, <1>9 DEF IInv

-----------------------------------------------------------------------------
(* The steps of a frame *)

\* What is known of the innermost frame as long as it has no error.
LEMMA TopMade ==
    ASSUME IInv, stack # <<>>, tx = "open", ~lost
    PROVE  (~Top.err => HasMade(Top)) /\ KidsFit(Len(stack))
<1>1. Len(stack) \in 1 .. Len(stack) /\ Top = stack[Len(stack)] /\ phase = "run"
    BY TopFacts DEF IInv
<1>2. \A i \in 1 .. Len(stack) : KidsFit(i) /\ (~stack[i].err => HasMade(stack[i]))
    BY <1>1 DEF IInv, Progress
<1>3. QED  BY <1>1, <1>2

LEMMA OnwardFacts ==
    ASSUME NEW f \in Frames, f.at \notin {"hastable", "end"}
    PROVE  /\ Onward(f) \in Frames /\ Onward(f).t = f.t /\ Onward(f).kids = f.kids
           /\ Onward(f).made = f.made /\ Onward(f).err = f.err /\ Onward(f).at = Route(f)
           /\ Route(f) # "column"
<1>1. Route(f) \in Stages \ {"column"}  BY DEF Route, Frames, Stages
<1>2. Onward(f) = [f EXCEPT !.at = Route(f)]  BY DEF Onward, NextOf
<1>3. QED  BY <1>1, <1>2 DEF Frames

\* No table comes in between of what the frame has found and what it makes of it.
LEMMA OnwardFits ==
    ASSUME IInv, stack # <<>>, tx = "open", NEW f, f.at \in Stages, f.t = Top.t, f.made = Top.made, f.at = Top.at,
           f.at \notin {"hastable", "end"}, NEW os, own \subseteq os,
           f.at \in {"join", "create_before"} => (<<"table", f.t>> \in os => <<"table", f.t>> \in own),
           NEW b, ~b => ~broken, NEW g, g.t = f.t, g.made = f.made, g.at = Route(f)
    PROVE  TableFits(g, os, b)
<1>1. TableFits(Top, own, broken)  BY TopFacts DEF IInv, Sees
<1>2. g.at # "column"  BY DEF Route, Stages
<1>3. g.at \in {"join", "create_before", "create"} => f.at \in {"column", "join", "create_before"}
    BY DEF Route, Stages
<1>4. f.at = "column" => ~g.made  BY <1>1 DEF TableFits
<1>5. g.at \in {"create_before", "create"} => g.made  BY <1>1 DEF TableFits, Route, Stages
<1>6. QED  BY <1>1, <1>2, <1>3, <1>4, <1>5 DEF TableFits

LEMMA CallbacksInv == ASSUME IInv, Callbacks PROVE IInv'
<1>1. PICK bad \in BOOLEAN : May(bad) /\ Put(Onward([Top EXCEPT !.err = @ \/ bad]))
    BY DEF Callbacks
<1> DEFINE e == [Top EXCEPT !.err = @ \/ bad]
           f == Onward(e)
<1>2. Top \in Frames /\ stack # <<>> /\ Top.at \in {"before", "create_before", "create_after", "after"}
    BY TopFacts DEF Callbacks, IInv
<1>3. Top.err \/ bad \in BOOLEAN  BY <1>2 DEF Frames
<1>4. e \in Frames /\ e.t = Top.t /\ e.kids = Top.kids /\ e.at = Top.at /\ e.made = Top.made /\ e.err = (Top.err \/ bad)
    BY <1>2, <1>3 DEF Frames
<1>5. f \in Frames /\ f.t = Top.t /\ f.kids = Top.kids /\ f.made = Top.made /\ f.err = (Top.err \/ bad)
      /\ f.at = Route(e) /\ f.at # "column"
    BY <1>2, <1>4, OnwardFacts
<1>6. own' = own /\ mig' = mig /\ broken' = broken /\ clash' = clash  BY DEF Callbacks
<1>7. Replaces(f)
    BY <1>1, <1>2, <1>5, <1>6 DEF Replaces, Callbacks, IInv, Typed, TypeOK, Grows
<1>8. ASSUME tx = "open", ~lost, ~f.err PROVE HasMadeOf(f, own', mig'.posts)
    <2>1. ~Top.err /\ HasMade(Top)  BY <1>2, <1>5, <1>8, TopMade
    <2>2. f.at = Route(e) /\ ~e.err  BY <1>4, <1>5, <1>8
    <2>3. f.at = CASE Top.at = "before" -> "hastable" [] Top.at = "create_before" -> "create"
                   [] Top.at = "create_after" -> "index"
                   [] Top.at = "after" -> IF Top.made THEN "end" ELSE "children"
        BY <1>2, <1>4, <2>2 DEF Route
    <2>4. QED  BY <1>2, <1>5, <1>6, <2>1, <2>3 DEF HasMade, HasMadeOf
<1>9. tx = "open" => TableFits(f, own', broken')
    BY <1>2, <1>4, <1>5, <1>6, OnwardFits DEF Frames
<1>10. Owes(f)
    BY <1>6, <1>8, <1>9 DEF Owes, IInv, Sees, Typed, ClashOnlyIfHandleTaken
<1>11. QED  BY <1>7, <1>10, PutInv

\* A panic, or an error, ends a Migrate.
LEMMA GiveUpInv ==
    ASSUME IInv, NEW how, GiveUp(how), Typed', Sees', ClashOnlyIfHandleTaken',
           mig' \in [db : {mig.db}, failed : BOOLEAN, trans : {mig.trans}, posts : {mig.posts}],
           phase \in {"run", "posts"}
    PROVE  IInv'
<1>1. phase' = "idle" /\ errored'  BY DEF GiveUp
<1>2. mig.db = "tx" /\ mig'.db = "tx"  BY DEF IInv, Life
<1>3. Life'  BY <1>1, <1>2 DEF Life
<1>4. Progress' /\ LeftOpenOnlyByError'  BY <1>1 DEF Progress, LeftOpenOnlyByError
<1>5. QED  BY <1>3, <1>4 DEF IInv

\* What ending a Migrate keeps typed.
LEMMA GiveUpTyped ==
    ASSUME Typed, Sees, NEW how, GiveUp(how), own' \subseteq Objects, broken' \in BOOLEAN, clash' \in BOOLEAN, lost' \in BOOLEAN,
           asked' \subseteq Type, own \subseteq own', \A t \in Type : <<"column", t>> \in own' => <<"table", t>> \in own',
           mig' \in [db : {"base", "tx", "gone"}, failed : BOOLEAN, trans : BOOLEAN, posts : Seq(Type)],
           UNCHANGED <<base, tx, aborts, handle, other, leaks, was, taken>>
    PROVE  Typed' /\ Sees'
<1>1. stack' = <<>> /\ phase' = "idle" /\ errored' = TRUE /\ stack' \in Seq(Frames) /\ Len(stack') = 0
    BY DEF GiveUp
<1>2. Free' = Free  BY DEF Free
<1>3. TypeOK'  BY <1>1, <1>2 DEF Typed, TypeOK
<1>4. QED  BY <1>1, <1>3 DEF Typed, Sees

LEMMA PanicInv == ASSUME IInv, Panic, phase = "run" PROVE IInv'
<1>1. GiveUp("panic") /\ mig' = mig /\ own' = own /\ broken' = broken /\ clash' = clash /\ lost' = lost /\ asked' = asked
      /\ UNCHANGED <<base, tx, aborts, handle, other, leaks, was, taken>>
    BY DEF Panic
<1>2. Typed' /\ Sees'  BY <1>1, GiveUpTyped DEF IInv, Typed, TypeOK, Sees
<1>3. ClashOnlyIfHandleTaken'  BY <1>1 DEF IInv, ClashOnlyIfHandleTaken
<1>4. mig' \in [db : {mig.db}, failed : BOOLEAN, trans : {mig.trans}, posts : {mig.posts}]
    BY <1>1 DEF IInv, Typed
<1>5. QED  BY <1>1, <1>2, <1>3, <1>4, GiveUpInv

LEMMA HasTableInv == ASSUME IInv, HasTable PROVE IInv'
<1>1. phase = "run" /\ stack # <<>> /\ Top.at = "hastable" /\ Top \in Frames  BY TopFacts DEF HasTable, InFrame, IInv
<1>2. CASE handle = "nil"  BY <1>1, <1>2, PanicInv DEF HasTable
<1>3. CASE handle # "nil"
    <2> DEFINE made == <<"table", Top.t>> \notin Seen
               f    == [Top EXCEPT !.made = made, !.at = IF made THEN "join" ELSE "column"]
    <2>1. /\ Put(f) /\ Quiet
          /\ own' = own /\ mig' = mig /\ broken' = broken /\ clash' = clash /\ lost' = lost /\ taken' = taken
        BY <1>3 DEF HasTable
    <2>2. f \in Frames /\ f.t = Top.t /\ f.kids = Top.kids /\ f.made = made /\ f.err = Top.err
          /\ f.at = (IF made THEN "join" ELSE "column")
        BY <1>1 DEF Frames, Stages
    <2>3. Replaces(f)  BY <1>1, <2>1, <2>2 DEF Replaces, IInv, Typed, TypeOK, Grows
    <2>4. HasMadeOf(f, own', mig'.posts)
        <3>1. f.at = "column" \/ (f.at = "join" /\ f.made)
            <4>1. CASE made  BY <2>2, <4>1
            <4>2. CASE ~made  BY <2>2, <4>2
            <4>3. QED  BY <4>1, <4>2
        <3>2. QED  BY <3>1 DEF HasMadeOf
    <2>5. tx = "open" => TableFits(f, own', broken')
        <3>1. SUFFICES ASSUME tx = "open" PROVE TableFits(f, own', broken')  OBVIOUS
        <3>2. Seen \subseteq own /\ (~taken /\ ~broken => Seen = own)  BY <3>1, SeenOwn DEF IInv
        <3>3. CASE made  BY <2>1, <2>2, <3>2, <3>3 DEF TableFits
        <3>4. CASE ~made
            <4>1. f.at = "column" /\ f.made = FALSE /\ f.t = Top.t  BY <2>2, <3>4
            <4>2. <<"table", Top.t>> \in own'  BY <2>1, <3>2, <3>4
            <4>3. QED  BY <4>1, <4>2 DEF TableFits
        <3>5. QED  BY <3>3, <3>4
    <2>6. Owes(f)  BY <2>1, <2>4, <2>5 DEF Owes, IInv, Sees, Typed, ClashOnlyIfHandleTaken
    <2>7. QED  BY <2>3, <2>6, PutInv
<1>4. QED  BY <1>2, <1>3

\* A statement that adds the objects os, for the innermost frame.
LEMMA AddsInv ==
    ASSUME IInv, stack # <<>>, Top.at \in {"column", "join", "create", "index"}, NEW os, os \subseteq Objects, Adds(os, Top),
           Quiet, UNCHANGED <<mig, lost, taken>>,
           \A t \in Type : <<"column", t>> \in os /\ tx = "open" => <<"table", t>> \in os \cup own,
           tx = "open" /\ ~taken /\ ~broken => os \cap own = {} \/ os \subseteq own,
           Top.at = "join" => os \cap ({"table"} \X Type) = {},
           tx = "open" /\ ~lost /\ ~Top.err /\ HasMade(Top) /\ os \subseteq own' =>
              HasMadeOf(Onward(Top), own', mig.posts)
    PROVE  IInv'
<1>1. /\ Top \in Frames /\ phase = "run"
      /\ own \subseteq Objects /\ broken \in BOOLEAN /\ clash \in BOOLEAN /\ (clash => taken)
    BY TopFacts DEF IInv, Typed, TypeOK, ClashOnlyIfHandleTaken
<1>2. CASE (os \subseteq Seen \/ os = {} \/ Top.err) /\ Put(Onward(Top)) /\ UNCHANGED <<own, broken, clash, faults>>
    <2> DEFINE f == Onward(Top)
    <2>1. f \in Frames /\ f.t = Top.t /\ f.kids = Top.kids /\ f.made = Top.made /\ f.err = Top.err /\ f.at # "column"
        BY <1>1, OnwardFacts
    <2>2. Replaces(f)  BY <1>1, <1>2, <2>1 DEF Replaces, Grows, IInv, Typed
    <2>3. ASSUME tx = "open", ~lost, ~f.err PROVE HasMadeOf(f, own', mig'.posts)
        <3>1. HasMade(Top) /\ ~Top.err  BY <2>1, <2>3, TopMade
        <3>2. os \subseteq own'  BY <1>2, <2>3, <3>1, SeenOwn DEF IInv
        <3>3. QED  BY <2>3, <3>1, <3>2
    <2>4. tx = "open" => TableFits(f, own', broken')
        BY <1>1, <1>2, <2>1, OnwardFacts, OnwardFits DEF Frames
    <2>5. Owes(f)  BY <1>1, <1>2, <2>3, <2>4 DEF Owes, IInv, Sees
    <2>6. QED  BY <2>2, <2>5, PutInv
<1>3. CASE ~(os \subseteq Seen \/ os = {} \/ Top.err)
    <2> DEFINE must == os \cap own # {} \/ broken \/ tx # "open"
    <2>1. PICK bad \in BOOLEAN :
             /\ must => bad
             /\ Put(Onward([Top EXCEPT !.err = bad]))
             /\ own' = IF bad THEN own ELSE own \cup os
             /\ broken' = (broken \/ (bad /\ aborts))
             /\ clash' = (clash \/ (os \cap own # {} /\ ~broken /\ tx = "open"))
        BY <1>3 DEF Adds
    <2> DEFINE e == [Top EXCEPT !.err = bad]
               f == Onward(e)
    <2>2. e \in Frames /\ e.t = Top.t /\ e.kids = Top.kids /\ e.made = Top.made /\ e.err = bad /\ e.at = Top.at
        BY <1>1 DEF Frames
    <2>3. f \in Frames /\ f.t = Top.t /\ f.kids = Top.kids /\ f.made = Top.made /\ f.err = bad /\ f.at = Route(e) /\ f.at # "column"
        BY <2>2, OnwardFacts
    <2>4. own \subseteq own' /\ own' \subseteq Objects /\ broken' \in BOOLEAN /\ clash' \in BOOLEAN
        BY <1>1, <2>1
    <2>5. Replaces(f)  BY <1>1, <2>1, <2>3, <2>4 DEF Replaces, Grows, IInv, Typed
    <2>6. \A t \in Type : <<"column", t>> \in own' => <<"table", t>> \in own'
        BY <2>1 DEF IInv, Sees
    <2>7. clash' => taken
        <3>1. SUFFICES ASSUME os \cap own # {}, ~broken, tx = "open", ~taken PROVE FALSE
            BY <1>1, <2>1 DEF Typed
        <3>2. Seen = own  BY <3>1, SeenOwn DEF IInv
        <3>3. QED  BY <1>3, <3>1, <3>2 DEF IInv, Sees
    <2>8. ASSUME tx = "open", ~lost, ~f.err PROVE HasMadeOf(f, own', mig'.posts)
        <3>1. ~bad /\ ~Top.err /\ os \subseteq own'  BY <1>3, <2>1, <2>3, <2>8
        <3>2. HasMade(Top)  BY <2>8, <3>1, TopMade
        <3>3. HasMadeOf(Onward(Top), own', mig.posts)  BY <2>8, <3>1, <3>2
        <3>4. bad = Top.err  BY <1>1, <2>1, <3>1 DEF Frames
        <3>5. e = Top  BY <1>1, <3>4 DEF Frames
        <3>6. QED  BY <3>3, <3>5
    <2>9. tx = "open" => TableFits(f, own', broken')
        <3>1. Top.at = "join" => (<<"table", Top.t>> \in own' => <<"table", Top.t>> \in own)
            BY <1>1, <2>1 DEF Frames
        <3>2. Top.at # "create_before"  OBVIOUS
        <3>3. QED  BY <1>1, <2>1, <2>2, <2>3, <2>4, <3>1, <3>2, OnwardFits DEF Frames
    <2>10. Owes(f)  BY <2>4, <2>6, <2>7, <2>8, <2>9 DEF Owes
    <2>11. QED  BY <2>5, <2>10, PutInv
<1>4. QED  BY <1>2, <1>3 DEF Adds

LEMMA AddColumnInv == ASSUME IInv, AddColumn PROVE IInv'
<1> DEFINE os == {<<"column", Top.t>>}
<1>1. Top.at = "column" /\ stack # <<>> /\ Top \in Frames /\ Top.t \in Type  BY TopFacts DEF AddColumn, InFrame, IInv
<1>2. os \subseteq Objects  BY <1>1 DEF Objects
<1>3. tx = "open" => TableFits(Top, own, broken)  BY <1>1, TopFacts DEF IInv, Sees
<1>4. tx = "open" => <<"table", Top.t>> \in own /\ ~Top.made  BY <1>1, <1>3 DEF TableFits
<1>5. ASSUME tx = "open", ~Top.err, os \subseteq own', own \subseteq own' PROVE HasMadeOf(Onward(Top), own', mig.posts)
    <2>1. Onward(Top).t = Top.t /\ Onward(Top).at = "join" /\ ~Onward(Top).made
        BY <1>1, <1>4, <1>5, OnwardFacts DEF Route
    <2>2. QED  BY <1>4, <1>5, <2>1 DEF HasMadeOf
<1>6. own \subseteq own'  BY DEF AddColumn, Adds
<1>7. QED  BY <1>1, <1>2, <1>4, <1>5, <1>6, AddsInv DEF AddColumn

LEMMA CreateJoinTableInv == ASSUME IInv, CreateJoinTable PROVE IInv'
<1> DEFINE os == {<<"join", j>> : j \in Joins[Top.t]}
<1>1. Top.at = "join" /\ stack # <<>> /\ Top \in Frames /\ Top.t \in Type /\ Top.made \in BOOLEAN
    BY TopFacts DEF CreateJoinTable, InFrame, IInv
<1>2. os = {"join"} \X Joins[Top.t] /\ os \subseteq Objects  BY <1>1 DEF Objects
<1>3. os \cap own = {} \/ os \subseteq own
    <2>1. \A o, x \in os : o = x  BY <1>1, TypeAssumption
    <2>2. QED  BY <2>1
<1>4. own \subseteq own'  BY DEF CreateJoinTable, Adds
<1>5. ASSUME ~Top.err, HasMade(Top), os \subseteq own' PROVE HasMadeOf(Onward(Top), own', mig.posts)
    <2>1. Onward(Top).t = Top.t /\ Onward(Top).made = Top.made /\ Onward(Top).at = (IF Top.made THEN "create_before" ELSE "index")
        BY <1>1, <1>5, OnwardFacts DEF Route
    <2>2. QED  BY <1>1, <1>2, <1>4, <1>5, <2>1 DEF HasMade, HasMadeOf
<1>6. \A t \in Type : <<"column", t>> \notin os  BY <1>2
<1>7. os \cap ({"table"} \X Type) = {}  BY <1>2
<1>8. Adds(os, Top) /\ Quiet /\ UNCHANGED <<mig, lost, taken>>  BY DEF CreateJoinTable
<1>9. QED  BY <1>1, <1>2, <1>3, <1>5, <1>6, <1>7, <1>8, AddsInv

LEMMA CreateTableInv == ASSUME IInv, CreateTable PROVE IInv'
<1> DEFINE os == {<<"table", Top.t>>, <<"column", Top.t>>}
<1>1. Top.at = "create" /\ stack # <<>> /\ Top \in Frames /\ Top.t \in Type
    BY TopFacts DEF CreateTable, InFrame, IInv
<1>2. os \subseteq Objects  BY <1>1 DEF Objects
<1>3. ASSUME tx = "open", ~taken, ~broken PROVE os \cap own = {} \/ os \subseteq own
    <2>1. TableFits(Top, own, broken)  BY <1>1, <1>3, TopFacts DEF IInv, Sees
    <2>2. <<"column", Top.t>> \in own => <<"table", Top.t>> \in own  BY <1>1 DEF IInv, Sees
    <2>3. <<"table", Top.t>> \notin own  BY <1>1, <1>3, <2>1 DEF TableFits
    <2>4. QED  BY <2>2, <2>3
<1>4. own \subseteq own'  BY DEF CreateTable, Adds
<1>5. ASSUME ~Top.err, HasMade(Top), os \subseteq own' PROVE HasMadeOf(Onward(Top), own', mig.posts)
    <2>1. Onward(Top).t = Top.t /\ Onward(Top).at = "create_after"
        BY <1>1, <1>5, OnwardFacts DEF Route
    <2>2. QED  BY <1>1, <1>4, <1>5, <2>1 DEF HasMade, HasMadeOf
<1>6. Adds(os, Top) /\ Quiet /\ UNCHANGED <<mig, lost, taken>>  BY DEF CreateTable
<1>7. QED  BY <1>1, <1>2, <1>3, <1>5, <1>6, AddsInv

LEMMA AutoIndexInv == ASSUME IInv, AutoIndex PROVE IInv'
<1> DEFINE os == {<<"index", Top.t>>}
<1>1. Top.at = "index" /\ stack # <<>> /\ Top \in Frames /\ Top.t \in Type
    BY TopFacts DEF AutoIndex, InFrame, IInv
<1>2. os \subseteq Objects  BY <1>1 DEF Objects
<1>3. own \subseteq own'  BY DEF AutoIndex, Adds
<1>4. ASSUME ~Top.err, HasMade(Top), os \subseteq own' PROVE HasMadeOf(Onward(Top), own', mig.posts)
    <2>1. Onward(Top).t = Top.t /\ Onward(Top).at = "fk"
        BY <1>1, <1>4, OnwardFacts DEF Route
    <2>2. QED  BY <1>1, <1>3, <1>4, <2>1 DEF HasMade, HasMadeOf
<1>5. Adds(os, Top) /\ Quiet /\ UNCHANGED <<mig, lost, taken>>  BY DEF AutoIndex
<1>6. QED  BY <1>1, <1>2, <1>4, <1>5, AddsInv

LEMMA AutoForeignKeysInv == ASSUME IInv, AutoForeignKeys PROVE IInv'
<1> DEFINE f == Onward(Top)
<1>1. Top.at = "fk" /\ stack # <<>> /\ Top \in Frames /\ Top.t \in Type /\ Top.made \in BOOLEAN
    BY TopFacts DEF AutoForeignKeys, InFrame, IInv
<1>2. /\ mig' = [mig EXCEPT !.posts = Append(@, Top.t)] /\ own' = own /\ broken' = broken /\ clash' = clash
      /\ lost' = lost /\ taken' = taken /\ Put(f) /\ Quiet
    BY DEF AutoForeignKeys
<1>3. mig \in [db : {"base", "tx", "gone"}, failed : BOOLEAN, trans : BOOLEAN, posts : Seq(Type)]
    BY DEF IInv, Typed
<1>4. /\ Append(mig.posts, Top.t) \in Seq(Type)
      /\ Elements(Append(mig.posts, Top.t)) = Elements(mig.posts) \cup {Top.t}
    BY <1>1, <1>3, AppendElements
<1>5. /\ mig' \in [db : {"base", "tx", "gone"}, failed : BOOLEAN, trans : BOOLEAN, posts : Seq(Type)]
      /\ mig'.db = mig.db /\ mig'.failed = mig.failed /\ mig'.trans = mig.trans
      /\ Elements(mig'.posts) = Elements(mig.posts) \cup {Top.t}
    BY <1>2, <1>3, <1>4
<1>6. /\ f \in Frames /\ f.t = Top.t /\ f.kids = Top.kids /\ f.made = Top.made /\ f.err = Top.err /\ f.at # "column"
      /\ f.at = Route(Top) /\ f.at \in {"children", "after"} /\ (f.at = "after" => ~f.made)
    BY <1>1, OnwardFacts DEF Route
<1>7. Replaces(f)  BY <1>1, <1>2, <1>5, <1>6 DEF Replaces, Grows, IInv, Typed, TypeOK
<1>8. ASSUME tx = "open", ~lost, ~f.err PROVE HasMadeOf(f, own', mig'.posts)
    <2>1. HasMade(Top)  BY <1>1, <1>6, <1>8, TopMade
    <2>2. QED  BY <1>1, <1>2, <1>5, <1>6, <2>1 DEF HasMade, HasMadeOf
<1>9. tx = "open" => TableFits(f, own', broken')  BY <1>6 DEF TableFits
<1>10. Owes(f)  BY <1>2, <1>8, <1>9 DEF Owes, IInv, Sees, Typed, ClashOnlyIfHandleTaken
<1>11. QED  BY <1>7, <1>10, PutInv

-----------------------------------------------------------------------------
(* Frames that come and go *)

\* The types are kept when the stack is replaced.
LEMMA StackTyped ==
    ASSUME Typed, phase = "run", phase' = "run", Quiet, UNCHANGED <<own, broken, mig, taken, clash>>, lost' \in BOOLEAN,
           stack' \in Seq(Frames), stack' # <<>>,
           \A i \in 1 .. Len(stack') : /\ i < Len(stack') => stack'[i].at = "children"
                                       /\ Elements(stack'[i].kids) \subseteq Elements(Children[stack'[i].t]),
           \A i \in 2 .. Len(stack') : stack'[i].t \in Elements(Children[stack'[i - 1].t]),
           todo # <<>>
    PROVE  Typed'
<1>1. /\ base' = base /\ tx' = tx /\ aborts' = aborts /\ handle' = handle /\ other' = other /\ leaks' = leaks
      /\ todo' = todo /\ asked' = asked /\ out' = out /\ errored' = errored
    BY DEF Quiet
<1>2. Free' = Free  BY <1>1 DEF Free
<1>3. \A i \in 2 .. Len(stack') : \E k \in 1 .. Len(Children[stack'[i - 1].t]) :
                                            Children[stack'[i - 1].t][k] = stack'[i].t
    BY DEF Elements
<1>4. Len(stack') \in Nat  OBVIOUS
<1>5. TypeOK'  BY <1>1, <1>2, <1>3 DEF Typed, TypeOK
<1>6. QED  BY <1>1, <1>4, <1>5 DEF Typed

LEMMA NextChildInv == ASSUME IInv, NextChild PROVE IInv'
<1> DEFINE n == Len(stack)
<1>1. /\ Top.at = "children" /\ stack # <<>> /\ Top \in Frames /\ Top = stack[n] /\ n \in Nat /\ n > 0 /\ phase = "run"
      /\ todo # <<>> /\ \A i \in 1 .. n : stack[i] \in Frames
    BY TopFacts DEF NextChild, InFrame, IInv
<1>2. /\ own' = own /\ mig' = mig /\ broken' = broken /\ clash' = clash /\ lost' = lost /\ taken' = taken
      /\ Quiet /\ phase' = "run"
    BY <1>1 DEF NextChild, Quiet
<1>3. CASE Top.kids = <<>>
    <2> DEFINE f == Onward(Top)
    <2>1. Put(f)  BY <1>3 DEF NextChild
    <2>2. /\ f \in Frames /\ f.t = Top.t /\ f.kids = Top.kids /\ f.made = Top.made /\ f.err = Top.err /\ f.at # "column"
          /\ f.at = Route(Top) /\ f.at \in {"end", "after"}
        BY <1>1, OnwardFacts DEF Route
    <2>3. Replaces(f)  BY <1>1, <1>2, <2>1, <2>2 DEF Replaces, Grows, IInv, Typed, TypeOK
    <2>4. ASSUME tx = "open", ~lost, ~f.err PROVE HasMadeOf(f, own', mig'.posts)
        <3>1. HasMade(Top)  BY <1>1, <2>2, <2>4, TopMade
        <3>2. QED  BY <1>1, <1>2, <1>3, <2>2, <3>1 DEF HasMade, HasMadeOf
    <2>5. tx = "open" => TableFits(f, own', broken')  BY <2>2 DEF TableFits
    <2>6. Owes(f)  BY <1>2, <2>4, <2>5 DEF Owes, IInv, Sees, Typed, ClashOnlyIfHandleTaken
    <2>7. QED  BY <2>3, <2>6, PutInv
<1>4. CASE Top.kids # <<>>
    <2> DEFINE c == Head(Top.kids)
               g == Frame(c, Top.err)
               u == [stack EXCEPT ![n].kids = Tail(@)]
    <2>1. stack' = u \o <<g>>  BY <1>4 DEF NextChild
    <2>2. Top.kids \in Seq(Type) /\ Top.t \in Type /\ Top.err \in BOOLEAN  BY <1>1 DEF Frames
    <2>3. c \in Type /\ Tail(Top.kids) \in Seq(Type) /\ Elements(Top.kids) = Elements(Tail(Top.kids)) \cup {c}
        BY <1>4, <2>2, HeadElements
    <2>4. /\ g \in Frames /\ g.t = c /\ g.kids = Children[c] /\ g.at = "before" /\ g.err = Top.err
        BY <2>2, <2>3, TypeAssumption DEF Frame, Frames, Stages
    <2>5. stack \in Seq(Frames)  BY DEF IInv, Typed
    <2>6. u \in Seq(Frames) /\ Len(u) = n /\ (\A i \in 1 .. n : i # n => u[i] = stack[i])
          /\ u[n] = [stack[n] EXCEPT !.kids = Tail(@)]
        <3> DEFINE x == [stack[n] EXCEPT !.kids = Tail(@)]
        <3>1. x \in Frames  BY <1>1, <2>3 DEF Frames
        <3>2. u = [stack EXCEPT ![n] = x]  BY <1>1, <2>5
        <3> HIDE DEF x, u
        <3>3. u \in Seq(Frames) /\ Len(u) = n /\ (\A i \in 1 .. n : i # n => u[i] = stack[i]) /\ u[n] = x
            BY <1>1, <2>5, <3>1, <3>2, LastElement
        <3>4. QED  BY <3>3 DEF x
    <2>7. /\ u[n].t = Top.t /\ u[n].at = "children" /\ u[n].kids = Tail(Top.kids) /\ u[n].err = Top.err /\ u[n].made = Top.made
        BY <1>1, <2>6 DEF Frames
    <2>8. /\ stack' \in Seq(Frames) /\ Len(stack') = n + 1 /\ stack'[n + 1] = g /\ stack' # <<>>
          /\ \A i \in 1 .. n : stack'[i] = u[i]
        <3>1. u \in Seq(Frames) /\ g \in Frames /\ Len(u) = n  BY <2>4, <2>6
        <3> HIDE DEF u, g
        <3>2. QED  BY <1>1, <2>1, <3>1, LastElement
    <2>9. Len(stack') = n + 1 /\ \A i \in 1 .. n : stack'[i].t = stack[i].t /\ stack'[i].at = stack[i].at
        BY <1>1, <2>6, <2>7, <2>8
    <2> HIDE DEF u, g, c
    <2>10. Typed'
        <3>1. ASSUME NEW i \in 1 .. n + 1
              PROVE  /\ i < n + 1 => stack'[i].at = "children"
                     /\ Elements(stack'[i].kids) \subseteq Elements(Children[stack'[i].t])
            <4>1. CASE i = n + 1  BY <2>4, <2>8, <4>1
            <4>2. CASE i = n
                <5>1. stack'[i].kids = Tail(Top.kids) /\ stack'[i].t = Top.t /\ stack'[i].at = "children"
                    BY <1>1, <2>7, <2>8, <4>2
                <5>2. Elements(Top.kids) \subseteq Elements(Children[Top.t])  BY <1>1, TopFacts DEF IInv
                <5>3. QED  BY <2>3, <5>1, <5>2
            <4>3. CASE i < n
                <5>1. stack'[i] = stack[i] /\ i \in 1 .. n  BY <1>1, <2>6, <2>8, <4>3
                <5>2. QED  BY <4>3, <5>1 DEF IInv, Typed
            <4>4. QED  BY <1>1, <4>1, <4>2, <4>3
        <3>2. ASSUME NEW i \in 2 .. n + 1 PROVE stack'[i].t \in Elements(Children[stack'[i - 1].t])
            <4>1. CASE i = n + 1
                <5>1. stack'[i].t = c /\ stack'[i - 1].t = Top.t  BY <1>1, <2>4, <2>8, <2>9, <4>1
                <5>2. Elements(Top.kids) \subseteq Elements(Children[Top.t])  BY <1>1, TopFacts DEF IInv
                <5>3. QED  BY <2>3, <5>1, <5>2
            <4>2. CASE i # n + 1
                <5>1. stack'[i].t = stack[i].t /\ stack'[i - 1].t = stack[i - 1].t /\ i \in 2 .. n
                    BY <1>1, <2>9, <4>2
                <5>2. QED  BY <5>1 DEF IInv, Typed, TypeOK, Elements
            <4>3. QED  BY <4>1, <4>2
        <3>3. QED  BY <1>1, <1>2, <2>8, <3>1, <3>2, StackTyped DEF IInv, Typed, TypeOK
    <2>11. Sees'
        <3>1. \A t \in Type : /\ <<"column", t>> \in base => <<"table", t>> \in base
                              /\ <<"column", t>> \in own => <<"table", t>> \in own
            BY DEF IInv, Sees
        <3>2. tx = "open" => base \subseteq own /\ (~taken => handle = "mine")  BY DEF IInv, Sees
        <3>3. ASSUME NEW i \in 1 .. n + 1 PROVE TableFits(stack'[i], own', broken')
            <4>1. stack'[i].at \in {"children", "before"}
                <5>1. CASE i = n + 1  BY <2>4, <2>8, <5>1
                <5>2. CASE i # n + 1  BY <1>1, <2>9, <5>2 DEF IInv, Typed
                <5>3. QED  BY <5>1, <5>2
            <4>2. QED  BY <4>1 DEF TableFits
        <3>4. QED  BY <1>2, <2>8, <3>1, <3>2, <3>3 DEF Sees, Quiet, TableFits
    <2>12. Life'  BY <1>1, <1>2 DEF IInv, Life, Quiet
    <2>13. Progress'
        <3>1. SUFFICES ASSUME tx = "open", ~lost PROVE
                  /\ \A t \in asked : Whole(t)' \/ t = stack'[1].t
                  /\ \A i \in 1 .. n + 1 : KidsFit(i)' /\ (~stack'[i].err => HasMadeOf(stack'[i], own', mig'.posts))
            BY <1>1, <1>2, <2>8 DEF Progress, HasMade, Quiet
        <3>2. /\ \A t \in asked : Whole(t) \/ t = stack[1].t
              /\ \A i \in 1 .. n : KidsFit(i) /\ (~stack[i].err => HasMade(stack[i]))
            BY <1>1, <3>1 DEF IInv, Progress
        <3>3. \A t : Whole(t)' = Whole(t)  BY <1>2 DEF Whole, Made
        <3>4. \A t \in asked : Whole(t)' \/ t = stack'[1].t  BY <1>1, <2>9, <3>2, <3>3
        <3>5. ASSUME NEW i \in 1 .. n + 1 PROVE KidsFit(i)'
            <4>1. CASE i = n + 1  BY <2>4, <2>8, <4>1 DEF KidsFit
            <4>2. CASE i = n
                <5>1. \A d \in Elements(Children[Top.t]) : d \in Elements(Top.kids) \/ Whole(d)
                    BY <1>1, <3>2 DEF KidsFit
                <5>2. stack'[i].t = Top.t /\ stack'[i].kids = Tail(Top.kids) /\ stack'[i + 1].t = c /\ i < Len(stack')
                    BY <1>1, <2>4, <2>7, <2>8, <4>2
                <5>3. QED  BY <2>3, <3>3, <5>1, <5>2 DEF KidsFit
            <4>3. CASE i < n
                <5>1. stack'[i] = stack[i] /\ stack'[i + 1].t = stack[i + 1].t /\ i \in 1 .. n
                    BY <1>1, <2>6, <2>8, <2>9, <4>3
                <5>2. QED  BY <1>1, <2>8, <3>2, <3>3, <4>3, <5>1 DEF KidsFit
            <4>4. QED  BY <1>1, <4>1, <4>2, <4>3
        <3>6. ASSUME NEW i \in 1 .. n + 1, ~stack'[i].err PROVE HasMadeOf(stack'[i], own', mig'.posts)
            <4>1. CASE i = n + 1  BY <2>4, <2>8, <4>1 DEF HasMadeOf
            <4>2. CASE i = n
                <5>1. stack'[i] = u[n] /\ ~Top.err  BY <2>7, <2>8, <3>6, <4>2
                <5>2. HasMade(Top)  BY <1>1, <3>2, <5>1
                <5>3. QED  BY <1>1, <1>2, <2>7, <5>1, <5>2 DEF HasMade, HasMadeOf
            <4>3. CASE i < n
                <5>1. stack'[i] = stack[i] /\ i \in 1 .. n  BY <1>1, <2>6, <2>8, <4>3
                <5>2. QED  BY <1>2, <3>2, <3>6, <5>1 DEF HasMade
            <4>4. QED  BY <1>1, <4>1, <4>2, <4>3
        <3>7. QED  BY <3>4, <3>5, <3>6
    <2>14. LeftOpenOnlyByError' /\ ClashOnlyIfHandleTaken'
        BY <1>2 DEF IInv, LeftOpenOnlyByError, ClashOnlyIfHandleTaken
    <2>15. QED  BY <2>10, <2>11, <2>12, <2>13, <2>14 DEF IInv
<1>5. QED  BY <1>3, <1>4

\* A frame that ends without an error has made its type and all below it.
LEMMA EndWhole ==
    ASSUME IInv, stack # <<>>, Top.at = "end", tx = "open", ~lost, ~Top.err
    PROVE  Whole(Top.t)
<1>1. /\ Len(stack) \in Nat /\ Top = stack[Len(stack)] /\ Top.t \in Type
    BY TopFacts DEF IInv
<1>2. HasMade(Top) /\ KidsFit(Len(stack))  BY TopMade
<1>3. Elements(Top.kids) = {}  BY <1>2 DEF HasMade, HasMadeOf, Elements
<1>4. \A c \in Elements(Children[Top.t]) : Whole(c)  BY <1>1, <1>2, <1>3 DEF KidsFit
<1>5. Parts(Top.t) \subseteq own /\ Top.t \in Elements(mig.posts)
    BY <1>2 DEF HasMade, HasMadeOf, Parts
<1>6. QED  BY <1>1, <1>4, <1>5, WholeOf DEF Made

LEMMA EndChildInv == ASSUME IInv, EndChild PROVE IInv'
<1> DEFINE n == Len(stack)
<1>1. /\ Top.at = "end" /\ stack # <<>> /\ Top = stack[n] /\ n \in Nat /\ n > 1 /\ phase = "run" /\ todo # <<>>
      /\ \A i \in 1 .. n : stack[i] \in Frames
    BY TopFacts DEF EndChild, InFrame, IInv
<1>2. /\ own' = own /\ mig' = mig /\ broken' = broken /\ clash' = clash /\ taken' = taken
      /\ lost' = (lost \/ Top.err) /\ Quiet /\ phase' = "run"
    BY <1>1 DEF EndChild, Quiet
<1>3. /\ stack' \in Seq(Frames) /\ Len(stack') = n - 1 /\ stack' # <<>> /\ \A i \in 1 .. n - 1 : stack'[i] = stack[i]
    <2>1. stack' = SubSeq(stack, 1, Len(stack) - 1) /\ stack \in Seq(Frames)  BY DEF EndChild, IInv, Typed
    <2>2. stack' \in Seq(Frames) /\ Len(stack') = n - 1 /\ \A i \in 1 .. n - 1 : stack'[i] = stack[i]
        BY <1>1, <2>1, LastElement
    <2>3. QED  BY <1>1, <2>2
<1>4. Typed'
    <2>1. \A i \in 1 .. n - 1 : /\ i < n - 1 => stack'[i].at = "children"
                                /\ Elements(stack'[i].kids) \subseteq Elements(Children[stack'[i].t])
        <3>1. \A i \in 1 .. n : /\ i < n => stack[i].at = "children"
                                /\ Elements(stack[i].kids) \subseteq Elements(Children[stack[i].t])
            BY DEF IInv, Typed
        <3>2. \A i \in 1 .. n - 1 : i \in 1 .. n /\ i < n /\ stack'[i] = stack[i]  BY <1>1, <1>3
        <3>3. QED  BY <3>1, <3>2
    <2>2. ASSUME NEW i \in 2 .. n - 1 PROVE stack'[i].t \in Elements(Children[stack'[i - 1].t])
        <3>1. stack'[i] = stack[i] /\ stack'[i - 1] = stack[i - 1] /\ i \in 2 .. n  BY <1>1, <1>3
        <3>2. QED  BY <3>1 DEF IInv, Typed, TypeOK, Elements
    <2>3. lost' \in BOOLEAN  BY <1>2, TopFacts DEF IInv, Typed, TypeOK
    <2>4. QED  BY <1>1, <1>2, <1>3, <2>1, <2>2, <2>3, StackTyped DEF IInv
<1>5. Sees'
    <2>1. \A i \in 1 .. n - 1 : tx = "open" => TableFits(stack[i], own, broken)
        BY <1>1 DEF IInv, Sees
    <2>2. \A i \in 1 .. n - 1 : tx = "open" => TableFits(stack[i], own, broken)'
        BY <1>2, <1>3, <2>1 DEF TableFits
    <2>3. QED  BY <1>2, <1>3, <2>2 DEF IInv, Sees, Quiet
<1>6. Life'  BY <1>1, <1>2 DEF IInv, Life, Quiet
<1>7. Progress'
    <2>1. SUFFICES ASSUME tx = "open", ~lost, ~Top.err PROVE
              /\ \A t \in asked : Whole(t)' \/ t = stack'[1].t
              /\ \A i \in 1 .. n - 1 : KidsFit(i)' /\ (~stack'[i].err => HasMadeOf(stack'[i], own', mig'.posts))
        BY <1>1, <1>2, <1>3 DEF Progress, HasMade, Quiet
    <2>2. /\ \A t \in asked : Whole(t) \/ t = stack[1].t
          /\ \A i \in 1 .. n : KidsFit(i) /\ (~stack[i].err => HasMade(stack[i]))
        BY <1>1, <2>1 DEF IInv, Progress
    <2>3. \A t : Whole(t)' = Whole(t)  BY <1>2 DEF Whole, Made
    <2>4. stack'[1] = stack[1]  BY <1>1, <1>3
    <2>5. Whole(Top.t)  BY <1>1, <2>1, EndWhole
    <2>6. ASSUME NEW i \in 1 .. n - 1 PROVE KidsFit(i)'
        <3>1. KidsFit(i) /\ stack'[i] = stack[i] /\ i \in 1 .. n  BY <1>1, <1>3, <2>2
        <3>2. CASE i = n - 1  BY <1>1, <2>3, <2>5, <3>1, <3>2 DEF KidsFit
        <3>3. CASE i # n - 1
            <4>1. stack'[i + 1] = stack[i + 1] /\ i < Len(stack')  BY <1>1, <1>3, <3>3
            <4>2. QED  BY <2>3, <3>1, <4>1 DEF KidsFit
        <3>4. QED  BY <3>2, <3>3
    <2>7. ASSUME NEW i \in 1 .. n - 1, ~stack'[i].err PROVE HasMadeOf(stack'[i], own', mig'.posts)
        <3>1. stack'[i] = stack[i] /\ i \in 1 .. n  BY <1>1, <1>3
        <3>2. QED  BY <1>2, <2>2, <2>7, <3>1 DEF HasMade
    <2>8. QED  BY <2>2, <2>3, <2>4, <2>6, <2>7
<1>8. LeftOpenOnlyByError' /\ ClashOnlyIfHandleTaken'
    BY <1>2 DEF IInv, LeftOpenOnlyByError, ClashOnlyIfHandleTaken
<1>9. QED  BY <1>4, <1>5, <1>6, <1>7, <1>8 DEF IInv

LEMMA EndAutoMigrateInv == ASSUME IInv, EndAutoMigrate PROVE IInv'
<1>1. /\ Top.at = "end" /\ stack # <<>> /\ Top = stack[1] /\ Len(stack) = 1 /\ phase = "run" /\ todo # <<>>
      /\ todo \in Seq(Fun) /\ Top.err \in BOOLEAN /\ Top.t \in Type
    BY TopFacts DEF EndAutoMigrate, InFrame, IInv
<1>2. /\ base' = base /\ own' = own /\ tx' = tx /\ broken' = broken /\ aborts' = aborts /\ handle' = handle
      /\ other' = other /\ leaks' = leaks /\ asked' = asked /\ was' = was /\ taken' = taken /\ clash' = clash
      /\ lost' = (lost \/ Top.err) /\ mig' = [mig EXCEPT !.failed = @ \/ Top.err]
    BY DEF EndAutoMigrate, dbVars
<1>3. mig \in [db : {"base", "tx", "gone"}, failed : BOOLEAN, trans : BOOLEAN, posts : Seq(Type)]
    BY DEF IInv, Typed
<1>4. /\ mig' \in [db : {mig.db}, failed : BOOLEAN, trans : {mig.trans}, posts : {mig.posts}]
      /\ mig' \in [db : {"base", "tx", "gone"}, failed : BOOLEAN, trans : BOOLEAN, posts : Seq(Type)]
      /\ mig'.failed = (mig.failed \/ Top.err) /\ mig'.db = mig.db /\ mig'.trans = mig.trans /\ mig'.posts = mig.posts
    BY <1>1, <1>2, <1>3
<1>5. lost' \in BOOLEAN  BY <1>1, <1>2 DEF IInv, Typed, TypeOK
<1>6. ClashOnlyIfHandleTaken'  BY <1>2 DEF IInv, ClashOnlyIfHandleTaken
<1>7. CASE GiveUp("error")
    <2>1. Typed' /\ Sees'
        BY <1>2, <1>4, <1>5, <1>7, GiveUpTyped DEF IInv, Typed, TypeOK, Sees
    <2>2. QED  BY <1>1, <1>2, <1>4, <1>6, <1>7, <2>1, GiveUpInv
<1>8. CASE stack' = <<>> /\ todo' = Tail(todo) /\ UNCHANGED <<phase, out, errored>>
    <2>1. todo' \in Seq(Fun) /\ stack' \in Seq(Frames) /\ Len(stack') = 0  BY <1>1, <1>8, HeadElements
    <2>2. Free' = Free  BY <1>2 DEF Free
    <2>3. TypeOK'  BY <1>1, <1>2, <1>4, <1>5, <1>8, <2>1, <2>2 DEF IInv, Typed, TypeOK
    <2>4. Typed'  BY <1>1, <1>2, <1>4, <1>8, <2>1, <2>3 DEF IInv, Typed
    <2>5. Sees'  BY <1>2, <2>1 DEF IInv, Sees
    <2>6. Life'  BY <1>1, <1>2, <1>4, <1>8 DEF IInv, Life
    <2>7. Progress'
        <3>1. SUFFICES ASSUME tx = "open", ~lost, ~Top.err PROVE \A t \in asked : Whole(t)'
            <4>1. 1 .. Len(stack') = {}  BY <2>1
            <4>2. phase' = "run" /\ tx' = tx /\ (lost' => lost \/ Top.err) /\ (lost \/ Top.err => lost') /\ asked' = asked
                BY <1>1, <1>2, <1>8
            <4>3. QED  BY <1>1, <1>2, <4>1, <4>2 DEF Progress
        <3>2. \A t \in asked : Whole(t) \/ t = Top.t  BY <1>1, <3>1 DEF IInv, Progress
        <3>3. Whole(Top.t)  BY <1>1, <3>1, EndWhole
        <3>4. \A t : Whole(t)' = Whole(t)  BY <1>2, <1>4 DEF Whole, Made
        <3>5. QED  BY <3>2, <3>3, <3>4
    <2>8. LeftOpenOnlyByError'  BY <1>1, <1>8 DEF LeftOpenOnlyByError
    <2>9. QED  BY <1>6, <2>4, <2>5, <2>6, <2>7, <2>8 DEF IInv
<1>9. QED  BY <1>7, <1>8 DEF EndAutoMigrate

LEMMA NextFunctionInv == ASSUME IInv, NextFunction PROVE IInv'
<1> DEFINE f == Head(todo)
<1>1. /\ phase = "run" /\ stack = <<>> /\ todo # <<>> /\ todo \in Seq(Fun) /\ Head(todo) \in Fun /\ Head(todo).t \in Type
    <2>1. phase = "run" /\ stack = <<>> /\ todo # <<>> /\ todo \in Seq(Fun)
        BY DEF NextFunction, Running, IInv, Typed
    <2>2. Head(todo) \in Fun  BY <2>1, HeadElements
    <2>3. QED  BY <2>1, <2>2 DEF Fun
<1>2. /\ base' = base /\ own' = own /\ tx' = tx /\ broken' = broken /\ aborts' = aborts /\ handle' = handle
      /\ other' = other /\ leaks' = leaks /\ was' = was /\ taken' = taken /\ clash' = clash
      /\ lost' = lost /\ mig' = mig
    BY DEF NextFunction, dbVars
<1>3. ClashOnlyIfHandleTaken'  BY <1>2 DEF IInv, ClashOnlyIfHandleTaken
<1>4. CASE GiveUp("error") /\ UNCHANGED asked
    <2>1. Typed' /\ Sees'
        BY <1>2, <1>4, GiveUpTyped DEF IInv, Typed, TypeOK, Sees
    <2>2. mig' \in [db : {mig.db}, failed : BOOLEAN, trans : {mig.trans}, posts : {mig.posts}]
        BY <1>2 DEF IInv, Typed
    <2>3. QED  BY <1>1, <1>2, <1>3, <1>4, <2>1, <2>2, GiveUpInv
<1>5. CASE stack' = <<Frame(f.t, FALSE)>> /\ asked' = asked \cup {f.t} /\ UNCHANGED <<phase, todo, out, errored>>
    <2> DEFINE g == Frame(f.t, FALSE)
    <2>1. /\ g \in Frames /\ g.t = f.t /\ g.kids = Children[f.t] /\ g.at = "before"
        BY <1>1, TypeAssumption DEF Frame, Frames, Stages
    <2>2. stack' = <<g>>  BY <1>5
    <2> HIDE DEF g
    <2>3. stack' \in Seq(Frames) /\ Len(stack') = 1 /\ stack'[1] = g /\ stack' # <<>>  BY <2>1, <2>2
    <2>4. Free' = Free  BY <1>2 DEF Free
    <2>5. TypeOK'  BY <1>1, <1>2, <1>5, <2>3, <2>4 DEF IInv, Typed, TypeOK
    <2>6. Typed'
        <3>1. \A i \in 1 .. Len(stack') : /\ i < Len(stack') => stack'[i].at = "children"
                                          /\ Elements(stack'[i].kids) \subseteq Elements(Children[stack'[i].t])
            BY <2>1, <2>3
        <3>2. QED  BY <1>1, <1>2, <1>5, <2>3, <2>5, <3>1 DEF IInv, Typed
    <2>7. Sees'  BY <1>2, <2>1, <2>3 DEF IInv, Sees, TableFits
    <2>8. Life'  BY <1>1, <1>2, <1>5 DEF IInv, Life
    <2>9. Progress'
        <3>1. SUFFICES ASSUME tx = "open", ~lost PROVE
                  (\A t \in asked : Whole(t)') /\ KidsFit(1)' /\ HasMadeOf(g, own', mig'.posts)
            <4>0. 1 .. Len(stack') = {1}  BY <2>3
            <4>1. /\ stack'[1].t = f.t /\ stack'[1] = g /\ stack' # <<>> /\ phase' = "run"
                  /\ asked' = asked \cup {f.t} /\ tx' = tx /\ lost' = lost
                BY <1>1, <1>2, <1>5, <2>1, <2>3
            <4>2. QED  BY <4>0, <4>1 DEF Progress, HasMade
        <3>2. \A t \in asked : Whole(t)  BY <1>1, <3>1 DEF IInv, Progress
        <3>3. \A t : Whole(t)' = Whole(t)  BY <1>2 DEF Whole, Made
        <3>4. KidsFit(1)'  BY <2>1, <2>3 DEF KidsFit
        <3>5. HasMadeOf(g, own', mig'.posts)  BY <2>1 DEF HasMadeOf
        <3>6. QED  BY <3>2, <3>3, <3>4, <3>5
    <2>10. LeftOpenOnlyByError'  BY <1>1, <1>5 DEF LeftOpenOnlyByError
    <2>11. QED  BY <1>3, <2>6, <2>7, <2>8, <2>9, <2>10 DEF IInv
<1>6. QED  BY <1>4, <1>5 DEF NextFunction

-----------------------------------------------------------------------------
(* Steps without a frame *)

Migs == [db : {"base", "tx", "gone"}, failed : BOOLEAN, trans : BOOLEAN, posts : Seq(Type)]

LEMMA BeginInv == ASSUME IInv, Begin PROVE IInv'
<1>1. /\ phase = "begin" /\ Free > 0 /\ phase' = "run" /\ own' = base /\ broken' = FALSE /\ mig' = [mig EXCEPT !.db = "tx"]
      /\ UNCHANGED <<base, aborts, other, leaks, todo, stack, asked, lost, out, errored, was, taken, clash, calls>>
    BY DEF Begin
<1>2. \/ tx' = "nil" /\ handle' = "nil"
      \/ tx' = "open" /\ handle' = "mine"
    BY DEF Begin
<1>3. stack = <<>> /\ todo \in Seq(Fun) /\ 1 .. Len(stack) = {} /\ mig \in Migs  BY <1>1 DEF IInv, Typed, TypeOK, Migs
<1>4. mig' \in Migs /\ mig'.db = "tx" /\ mig'.trans = mig.trans /\ mig'.failed = mig.failed /\ mig'.posts = mig.posts
    BY <1>1, <1>3 DEF Migs
<1>5. leaks \in 0 .. MaxConns /\ leaks' = leaks /\ Free' >= 0
    <2>1. leaks \in 0 .. MaxConns /\ MaxConns \in Nat  BY BoundAssumption DEF IInv, Typed, TypeOK
    <2>2. QED  BY <1>1, <1>2, <2>1 DEF Free
<1>6. TypeOK'
    <2>1. tx' \in {"none", "open", "nil", "committed", "rolledback"} /\ handle' \in {"base", "mine", "other", "ended", "nil"}
        BY <1>2
    <2>2. mig'.db \in {"base", "tx", "gone"} /\ phase' = "run" /\ 2 .. Len(stack') = {}  BY <1>1, <1>3, <1>4
    <2>3. /\ base' \subseteq Objects /\ own' \subseteq Objects /\ broken' \in BOOLEAN /\ other' \in BOOLEAN
          /\ lost' \in BOOLEAN /\ errored' \in BOOLEAN
        BY <1>1 DEF IInv, Typed, TypeOK
    <2>4. QED  BY <1>5, <2>1, <2>2, <2>3 DEF TypeOK
<1>7. Typed'  BY <1>1, <1>3, <1>4, <1>6 DEF IInv, Typed, Migs
<1>8. Sees'  BY <1>1, <1>2, <1>3 DEF IInv, Sees
<1>9. Life'  BY <1>1, <1>4 DEF IInv, Life
<1>10. Progress'  BY <1>1, <1>3 DEF IInv, Life, Progress
<1>11. LeftOpenOnlyByError' /\ ClashOnlyIfHandleTaken'
    BY <1>1 DEF IInv, LeftOpenOnlyByError, ClashOnlyIfHandleTaken
<1>12. QED  BY <1>7, <1>8, <1>9, <1>10, <1>11 DEF IInv

LEMMA CloseInv == ASSUME IInv, Close PROVE IInv'
<1>1. /\ phase = "run" /\ stack = <<>> /\ phase' = "posts" /\ todo' = (IF mig.failed THEN <<>> ELSE mig.posts)
      /\ UNCHANGED <<base, own, tx, broken, aborts, handle, other, leaks, mig, stack, asked, lost, out, errored, was,
                     taken, clash, faults, calls>>
    BY DEF Close, Running, dbVars
<1>2. 1 .. Len(stack) = {} /\ mig \in Migs  BY <1>1 DEF IInv, Typed, Migs
<1>3. todo' \in Seq(Type)  BY <1>1, <1>2 DEF Migs
<1>4. Free' = Free  BY <1>1 DEF Free
<1>5. TypeOK'  BY <1>1, <1>2, <1>4 DEF IInv, Typed, TypeOK
<1>6. Typed'  BY <1>1, <1>2, <1>3, <1>5 DEF IInv, Typed
<1>7. Sees'  BY <1>1, <1>2 DEF IInv, Sees
<1>8. Life'  BY <1>1 DEF IInv, Life
<1>9. Progress'
    <2>1. SUFFICES ASSUME tx = "open", ~lost
                   PROVE  (\A t \in asked : Whole(t)') /\ (mig.trans => todo' = mig.posts)
        BY <1>1, <1>2 DEF Progress
    <2>2. \A t \in asked : Whole(t)  BY <1>1, <2>1 DEF IInv, Progress
    <2>3. \A t : Whole(t)' = Whole(t)  BY <1>1 DEF Whole, Made
    <2>4. mig.trans => ~mig.failed  BY <1>1, <2>1 DEF IInv, Life
    <2>5. QED  BY <1>1, <2>2, <2>3, <2>4
<1>10. LeftOpenOnlyByError' /\ ClashOnlyIfHandleTaken'
    BY <1>1 DEF IInv, LeftOpenOnlyByError, ClashOnlyIfHandleTaken
<1>11. QED  BY <1>6, <1>7, <1>8, <1>9, <1>10 DEF IInv

LEMMA PostHandlerInv == ASSUME IInv, PostHandler PROVE IInv'
<1> DEFINE o == <<"fk", Head(todo)>>
<1>1. /\ phase = "posts" /\ todo # <<>> /\ todo \in Seq(Type) /\ stack = <<>> /\ 1 .. Len(stack) = {} /\ mig \in Migs
      /\ UNCHANGED <<base, tx, aborts, handle, other, leaks, asked, lost, was, taken, calls>>
    BY DEF PostHandler, IInv, Typed, Migs
<1>2. /\ Head(todo) \in Type /\ Tail(todo) \in Seq(Type) /\ Elements(todo) = Elements(Tail(todo)) \cup {Head(todo)}
    BY <1>1, HeadElements
<1>3. o \in Objects  BY <1>2 DEF Objects
<1>4. \/ /\ UNCHANGED <<own, broken, clash, mig, phase, stack, out, errored>> /\ todo' = Tail(todo)
         /\ tx = "open" => o \in own
      \/ /\ own' = own \cup {o} /\ broken' = broken /\ (clash' => clash) /\ clash' \in BOOLEAN
         /\ todo' = Tail(todo) /\ UNCHANGED <<mig, phase, stack, out, errored>>
      \/ /\ own' = own /\ broken' = (broken \/ aborts) /\ clash' = (clash \/ (o \in own /\ ~broken /\ tx = "open"))
         /\ GiveUp("error") /\ mig' = [mig EXCEPT !.failed = TRUE] /\ o \notin Seen
    <2>1. CASE o \in Seen  BY <2>1, SeenOwn DEF PostHandler, IInv
    <2>2. CASE o \notin Seen
        <3> DEFINE must == o \in own \/ broken \/ tx # "open"
        <3>1. PICK bad \in BOOLEAN :
                 /\ must => bad
                 /\ own' = IF bad THEN own ELSE own \cup {o}
                 /\ broken' = (broken \/ (bad /\ aborts))
                 /\ clash' = (clash \/ (o \in own /\ ~broken /\ tx = "open"))
                 /\ IF bad THEN GiveUp("error") /\ mig' = [mig EXCEPT !.failed = TRUE]
                    ELSE todo' = Tail(todo) /\ UNCHANGED <<mig, phase, stack, out, errored>>
            BY <2>2 DEF PostHandler
        <3>2. broken \in BOOLEAN /\ clash \in BOOLEAN /\ aborts \in BOOLEAN  BY DEF IInv, Typed, TypeOK
        <3>3. CASE bad  BY <2>2, <3>1, <3>2, <3>3
        <3>4. CASE ~bad  BY <3>1, <3>2, <3>4
        <3>5. QED  BY <3>1, <3>3, <3>4
    <2>3. QED  BY <2>1, <2>2
<1>5. CASE GiveUp("error") /\ own' = own /\ broken' = (broken \/ aborts) /\ mig' = [mig EXCEPT !.failed = TRUE] /\ o \notin Seen
           /\ clash' = (clash \/ (o \in own /\ ~broken /\ tx = "open"))
    <2>1. /\ mig' \in [db : {mig.db}, failed : BOOLEAN, trans : {mig.trans}, posts : {mig.posts}] /\ mig' \in Migs
        BY <1>1, <1>5 DEF Migs
    <2>2. broken' \in BOOLEAN /\ clash' \in BOOLEAN  BY <1>5 DEF IInv, Typed, TypeOK
    <2>3. Typed' /\ Sees'
        BY <1>1, <1>5, <2>1, <2>2, GiveUpTyped DEF IInv, Typed, TypeOK, Sees, Migs
    <2>4. ClashOnlyIfHandleTaken'
        BY <1>1, <1>5, SeenOwn DEF IInv, ClashOnlyIfHandleTaken
    <2>5. QED  BY <1>1, <1>5, <2>1, <2>3, <2>4, GiveUpInv
<1>6. CASE /\ own \subseteq own' /\ own' \subseteq own \cup {o} /\ broken' = broken /\ (clash' => clash) /\ clash' \in BOOLEAN
           /\ todo' = Tail(todo) /\ UNCHANGED <<mig, phase, stack, out, errored>> /\ (tx = "open" => o \in own')
    <2>1. Free' = Free  BY <1>1 DEF Free
    <2>2. TypeOK'  BY <1>1, <1>3, <1>6, <2>1 DEF IInv, Typed, TypeOK
    <2>3. Typed'  BY <1>1, <1>2, <1>6, <2>2 DEF IInv, Typed
    <2>4. Sees'
        <3>1. \A t \in Type : <<"column", t>> \in own' => <<"table", t>> \in own'
            BY <1>6 DEF IInv, Sees
        <3>2. QED  BY <1>1, <1>6, <3>1 DEF IInv, Sees
    <2>5. Life'  BY <1>1, <1>6 DEF IInv, Life
    <2>6. Progress'
        <3>1. SUFFICES ASSUME tx = "open", ~lost
                       PROVE  /\ \A t \in asked : Whole(t)'
                              /\ mig.trans => \A t \in Elements(mig.posts) : t \in Elements(Tail(todo)) \/ <<"fk", t>> \in own'
            BY <1>1, <1>6 DEF Progress
        <3>2. /\ \A t \in asked : Whole(t)
              /\ mig.trans => \A t \in Elements(mig.posts) : t \in Elements(todo) \/ <<"fk", t>> \in own
            BY <1>1, <3>1 DEF IInv, Progress
        <3>3. \A t \in Type : Whole(t) => Whole(t)'  BY <1>6, GrowsKeeps DEF Grows
        <3>4. asked \subseteq Type  BY DEF IInv, Typed
        <3>5. QED  BY <1>2, <1>6, <3>1, <3>2, <3>3, <3>4
    <2>7. LeftOpenOnlyByError' /\ ClashOnlyIfHandleTaken'
        BY <1>1, <1>6 DEF IInv, LeftOpenOnlyByError, ClashOnlyIfHandleTaken
    <2>8. QED  BY <2>3, <2>4, <2>5, <2>6, <2>7 DEF IInv
<1>7. QED
    <2>1. clash \in BOOLEAN  BY DEF IInv, Typed
    <2>2. QED  BY <1>4, <1>5, <1>6, <2>1

\* What a step owes after which no Migrate runs.
LEMMA IdleInv ==
    ASSUME phase' = "idle", stack' = <<>>, base' \subseteq Objects, own' \subseteq Objects,
           tx' \in {"none", "open", "nil", "committed", "rolledback"},
           handle' \in {"base", "mine", "other", "ended", "nil"},
           broken' \in BOOLEAN, other' \in BOOLEAN, lost' \in BOOLEAN, errored' \in BOOLEAN, mig' \in Migs,
           aborts' \in BOOLEAN, clash' \in BOOLEAN, taken' \in BOOLEAN, asked' \subseteq Type,
           leaks' \in 0 .. MaxConns, Free' >= 0,
           \A t \in Type : /\ <<"column", t>> \in base' => <<"table", t>> \in base'
                           /\ <<"column", t>> \in own' => <<"table", t>> \in own',
           tx' = "open" => base' \subseteq own' /\ (~taken' => handle' = "mine"),
           mig'.db = "base" => ~errored' /\ ~mig'.failed /\ mig'.posts = <<>>,
           tx' = "open" /\ mig'.trans => errored', clash' => taken'
    PROVE  IInv'
<1>1. stack' \in Seq(Frames) /\ Len(stack') = 0 /\ 1 .. Len(stack') = {} /\ 2 .. Len(stack') = {}  OBVIOUS
<1>2. mig'.db \in {"base", "tx", "gone"}  BY DEF Migs
<1>3. TypeOK'  BY <1>1, <1>2 DEF TypeOK
<1>4. Typed'  BY <1>1, <1>3 DEF Typed, Migs
<1>5. Sees'  BY <1>1 DEF Sees
<1>6. Life' /\ Progress' /\ LeftOpenOnlyByError' /\ ClashOnlyIfHandleTaken'
    BY DEF Life, Progress, LeftOpenOnlyByError, ClashOnlyIfHandleTaken
<1>7. QED  BY <1>4, <1>5, <1>6 DEF IInv

\* What holds of every state, said once for the steps below.
LEMMA Known ==
    ASSUME IInv
    PROVE  /\ base \subseteq Objects /\ own \subseteq Objects
           /\ tx \in {"none", "open", "nil", "committed", "rolledback"}
           /\ handle \in {"base", "mine", "other", "ended", "nil"} /\ Ended \in {"base", "mine", "other", "ended", "nil"}
           /\ broken \in BOOLEAN /\ other \in BOOLEAN /\ lost \in BOOLEAN /\ errored \in BOOLEAN /\ mig \in Migs
           /\ aborts \in BOOLEAN /\ clash \in BOOLEAN /\ taken \in BOOLEAN /\ asked \subseteq Type
           /\ leaks \in 0 .. MaxConns /\ MaxConns \in Nat /\ Free >= 0 /\ Free \in Int
           /\ \A t \in Type : /\ <<"column", t>> \in base => <<"table", t>> \in base
                              /\ <<"column", t>> \in own => <<"table", t>> \in own
           /\ tx = "open" => base \subseteq own /\ (~taken => handle = "mine")
           /\ phase # "run" => stack = <<>>
<1>1. leaks \in 0 .. MaxConns /\ MaxConns \in Nat  BY BoundAssumption DEF IInv, Typed, TypeOK
<1>2. Free \in Int  BY <1>1 DEF Free
<1>3. QED  BY <1>1, <1>2 DEF IInv, Typed, TypeOK, Sees, Migs, Ended

LEMMA CommitInv == ASSUME IInv, Commit PROVE IInv'
<1>1. /\ phase = "posts" /\ stack = <<>> /\ mig.db = "tx"
      /\ UNCHANGED <<own, broken, aborts, other, leaks, asked, lost, was, taken, clash, calls>>
    BY DEF Commit, IInv, Typed, Life
<1>2. CASE /\ ~mig.trans /\ mig' = [mig EXCEPT !.db = "gone"] /\ phase' = "idle"
           /\ UNCHANGED <<base, tx, handle, stack, todo, errored>>
    <2>1. mig' \in Migs /\ mig'.db = "gone" /\ mig'.trans = mig.trans  BY <1>2, Known DEF Migs
    <2>2. Free' = Free  BY <1>1, <1>2 DEF Free
    <2>3. clash => taken  BY DEF IInv, ClashOnlyIfHandleTaken
    <2>4. QED  BY <1>1, <1>2, <2>1, <2>2, <2>3, Known, IdleInv
<1>3. CASE /\ handle' = Ended /\ tx' = "rolledback" /\ base' = base
           /\ GiveUp("error") /\ mig' = [mig EXCEPT !.failed = TRUE]
    <2>1. mig' \in Migs /\ mig'.db = "tx"  BY <1>1, <1>3, Known DEF Migs
    <2>2. Free' \in Int /\ Free' >= 0  BY <1>1, <1>3, Known DEF Free
    <2>3. clash => taken  BY DEF IInv, ClashOnlyIfHandleTaken
    <2>4. phase' = "idle" /\ stack' = <<>> /\ errored' = TRUE  BY <1>3 DEF GiveUp
    <2>5. QED  BY <1>1, <1>3, <2>1, <2>2, <2>3, <2>4, Known, IdleInv
<1>4. CASE /\ handle' = Ended /\ tx' = "committed" /\ base' = own
           /\ mig' = [mig EXCEPT !.db = "gone"] /\ phase' = "idle" /\ UNCHANGED <<stack, todo, errored>>
    <2>1. mig' \in Migs /\ mig'.db = "gone"  BY <1>1, <1>4, Known DEF Migs
    <2>2. Free' \in Int /\ Free' >= 0  BY <1>1, <1>4, Known DEF Free
    <2>3. clash => taken  BY DEF IInv, ClashOnlyIfHandleTaken
    <2>4. QED  BY <1>1, <1>4, <2>1, <2>2, <2>3, Known, IdleInv
<1>5. QED  BY <1>2, <1>3, <1>4 DEF Commit

LEMMA NewMigratorInv == ASSUME IInv, NEW given \in BOOLEAN, NewMigrator(given) PROVE IInv'
<1>1. /\ phase = "idle" /\ stack = <<>> /\ (given => Free > 0)
      /\ leaks' = (IF tx = "open" THEN leaks + 1 ELSE leaks)
      /\ mig' = [Fresh EXCEPT !.db = IF given THEN "tx" ELSE "base"]
      /\ tx' = (IF given THEN "open" ELSE "none")
      /\ own' = (IF given THEN base ELSE {}) /\ handle' = (IF given THEN "mine" ELSE Ended)
      /\ broken' = FALSE /\ taken' = FALSE /\ clash' = FALSE /\ errored' = FALSE
      /\ UNCHANGED <<base, aborts, other, phase, todo, stack, asked, lost, was, faults, calls>>
    BY Known DEF NewMigrator
<1>2. mig' \in Migs /\ ~mig'.failed /\ ~mig'.trans /\ mig'.posts = <<>>
    <2>1. <<>> \in Seq(Type)  OBVIOUS
    <2>2. Fresh \in Migs  BY <2>1 DEF Fresh, Migs
    <2>3. QED  BY <1>1, <2>2 DEF Fresh, Migs
<1>3. leaks' \in 0 .. MaxConns /\ Free' >= 0
    <2>1. leaks \in 0 .. MaxConns /\ MaxConns \in Nat /\ Free >= 0 /\ other' = other  BY <1>1, Known
    <2>2. QED  BY <1>1, <2>1 DEF Free
<1>4. tx' \in {"none", "open", "nil", "committed", "rolledback"} /\ handle' \in {"base", "mine", "other", "ended", "nil"}
    BY <1>1, Known
<1>5. /\ base' \subseteq Objects /\ own' \subseteq Objects
      /\ \A t \in Type : /\ <<"column", t>> \in base' => <<"table", t>> \in base'
                         /\ <<"column", t>> \in own' => <<"table", t>> \in own'
      /\ tx' = "open" => base' \subseteq own' /\ handle' = "mine"
    BY <1>1, Known
<1>6. QED  BY <1>1, <1>2, <1>3, <1>4, <1>5, Known, IdleInv

LEMMA EndTransactionInv == ASSUME IInv, NEW commit \in BOOLEAN, EndTransaction(commit) PROVE IInv'
<1>1. /\ phase = "idle" /\ stack = <<>> /\ tx' \in {"committed", "rolledback"} /\ base' \in {own, base} /\ handle' = Ended
      /\ UNCHANGED <<own, broken, aborts, other, leaks, mig, phase, stack, asked, lost, errored, taken, clash>>
    BY Known DEF EndTransaction, runVars
<1>2. Free' >= 0  BY <1>1, Known DEF Free
<1>3. clash => taken  BY DEF IInv, ClashOnlyIfHandleTaken
<1>4. mig.db = "base" => ~errored /\ ~mig.failed /\ mig.posts = <<>>  BY DEF IInv, Life
<1>5. QED  BY <1>1, <1>2, <1>3, <1>4, Known, IdleInv

LEMMA MigrateInv == ASSUME IInv, NEW fs \in Programs, Migrate(fs) PROVE IInv'
<1>1. /\ phase = "idle" /\ stack = <<>> /\ mig.db # "gone" /\ mig' = [mig EXCEPT !.trans = (mig.db = "base")]
      /\ phase' = (IF mig.db = "base" THEN "begin" ELSE "run")
      /\ todo' = fs /\ asked' = {} /\ lost' = FALSE /\ was' = base /\ out' = "none"
      /\ UNCHANGED <<base, own, tx, broken, aborts, handle, other, leaks, stack, errored, taken, clash>>
    BY Known DEF Migrate, dbVars
<1>2. /\ mig \in Migs /\ mig' \in Migs /\ mig'.db = mig.db /\ mig'.trans = (mig.db = "base") /\ mig'.failed = mig.failed
      /\ mig'.posts = mig.posts
    BY <1>1, Known DEF Migs
<1>3. mig.db = "base" \/ mig.db = "tx"  BY <1>1, <1>2 DEF Migs
<1>4. stack' = <<>> /\ 1 .. Len(stack') = {} /\ 2 .. Len(stack') = {} /\ stack' \in Seq(Frames) /\ fs \in Seq(Fun)
    BY <1>1, TypeAssumption
<1>5. Free' = Free  BY <1>1 DEF Free
<1>6. TypeOK'
    <2>1. phase' \in {"idle", "begin", "run", "posts"} /\ mig'.db \in {"base", "tx", "gone"}  BY <1>1, <1>2, <1>3
    <2>2. QED  BY <1>1, <1>4, <1>5, <2>1, Known DEF TypeOK
<1>7. Typed'
    <2>1. todo' \in Seq(Fun) /\ phase' # "posts"  BY <1>1, <1>4
    <2>2. QED  BY <1>1, <1>2, <1>4, <1>6, <2>1, Known DEF Typed, Migs
<1>8. Sees'  BY <1>1, <1>4, Known DEF Sees
<1>9. Life'
    <2>1. mig.db = "base" => ~errored /\ ~mig.failed /\ mig.posts = <<>>  BY DEF IInv, Life
    <2>2. QED  BY <1>1, <1>2, <1>3, <2>1 DEF Life
<1>10. Progress'  BY <1>1, <1>4 DEF Progress
<1>11. LeftOpenOnlyByError' /\ ClashOnlyIfHandleTaken'
    BY <1>1 DEF IInv, LeftOpenOnlyByError, ClashOnlyIfHandleTaken
<1>12. QED  BY <1>7, <1>8, <1>9, <1>10, <1>11 DEF IInv

\* A step that changes no more than the handle and whether another goroutine has a transaction.
LEMMA OtherInv ==
    ASSUME IInv, UNCHANGED <<base, own, tx, broken, aborts, leaks, runVars, clash>>,
           other' \in BOOLEAN, taken' \in BOOLEAN, taken => taken', handle' \in {"base", "mine", "other", "ended", "nil"},
           tx = "open" /\ ~taken' => handle' = "mine", Free' >= 0
    PROVE  IInv'
<1>1. UNCHANGED <<mig, phase, todo, stack, asked, lost, out, errored, was>>  BY DEF runVars
<1>2. TypeOK'  BY <1>1 DEF IInv, Typed, TypeOK
<1>3. Typed'  BY <1>1, <1>2 DEF IInv, Typed
<1>4. Sees'
    <2>1. \A i \in 1 .. Len(stack) : tx = "open" => TableFits(stack[i], own, broken)  BY DEF IInv, Sees
    <2>2. \A i \in 1 .. Len(stack') : tx' = "open" => TableFits(stack[i], own, broken)'
        BY <1>1, <2>1 DEF TableFits
    <2>3. QED  BY <1>1, <2>2 DEF IInv, Sees
<1>5. Life'  BY <1>1 DEF IInv, Life
<1>6. Progress'  BY <1>1 DEF IInv, Progress, KidsFit, HasMade, HasMadeOf, Whole, Made
<1>7. LeftOpenOnlyByError' /\ ClashOnlyIfHandleTaken'
    BY <1>1 DEF IInv, LeftOpenOnlyByError, ClashOnlyIfHandleTaken
<1>8. QED  BY <1>3, <1>4, <1>5, <1>6, <1>7 DEF IInv

LEMMA OtherStepInv == ASSUME IInv, OtherBegin \/ OtherEnd PROVE IInv'
<1>1. CASE OtherBegin
    <2>1. Free' >= 0  BY <1>1, Known DEF OtherBegin, Free
    <2>2. QED  BY <1>1, <2>1, OtherInv DEF OtherBegin
<1>2. CASE OtherEnd
    <2>1. Free' >= 0  BY <1>2, Known DEF OtherEnd, Free
    <2>2. tx = "open" /\ ~taken => handle = "mine"  BY Known
    <2>3. QED  BY <1>2, <2>1, <2>2, Known, OtherInv DEF OtherEnd
<1>3. QED  BY <1>1, <1>2
-----------------------------------------------------------------------------
(* The theorems *)

LEMMA InitInv == Init => IInv
<1>1. SUFFICES ASSUME Init PROVE IInv  OBVIOUS
<1>2. base \subseteq Objects /\ \A t \in Type : <<"column", t>> \in base => <<"table", t>> \in base
    BY <1>1, BaseAssumption DEF Init
<1>3. stack = <<>> /\ 1 .. Len(stack) = {} /\ 2 .. Len(stack) = {} /\ stack \in Seq(Frames)  BY <1>1 DEF Init
<1>4. mig.db = "base" /\ ~mig.failed /\ ~mig.trans /\ mig.posts = <<>> /\ mig \in Migs
    <2>1. <<>> \in Seq(Type)  OBVIOUS
    <2>2. QED  BY <1>1, <2>1 DEF Init, Fresh, Migs
<1>5. leaks \in 0 .. MaxConns /\ Free >= 0  BY <1>1, BoundAssumption DEF Init, Free
<1>6. TypeOK  BY <1>1, <1>2, <1>3, <1>4, <1>5 DEF Init, TypeOK
<1>7. Typed  BY <1>1, <1>3, <1>4, <1>6 DEF Init, Typed, Migs
<1>8. Sees  BY <1>1, <1>2, <1>3 DEF Init, Sees
<1>9. Life /\ Progress /\ LeftOpenOnlyByError /\ ClashOnlyIfHandleTaken
    BY <1>1, <1>4 DEF Init, Life, Progress, LeftOpenOnlyByError, ClashOnlyIfHandleTaken
<1>10. QED  BY <1>7, <1>8, <1>9 DEF IInv

LEMMA StepInv == IInv /\ [Next]_vars => IInv'
<1>1. SUFFICES ASSUME IInv, [Next]_vars PROVE IInv'  OBVIOUS
<1>2. CASE Step
    BY <1>1, <1>2, BeginInv, NextFunctionInv, CallbacksInv, HasTableInv, AddColumnInv, CreateJoinTableInv, CreateTableInv,
       AutoIndexInv, AutoForeignKeysInv, NextChildInv, EndChildInv, EndAutoMigrateInv, CloseInv, PostHandlerInv, CommitInv
       DEF Step
<1>3. CASE OtherBegin \/ OtherEnd  BY <1>1, <1>3, OtherStepInv
<1>4. ASSUME NEW given \in BOOLEAN, NewMigrator(given) PROVE IInv'  BY <1>1, <1>4, NewMigratorInv
<1>5. ASSUME NEW fs \in Programs, Migrate(fs) PROVE IInv'  BY <1>1, <1>5, MigrateInv
<1>6. ASSUME NEW commit \in BOOLEAN, EndTransaction(commit) PROVE IInv'  BY <1>1, <1>6, EndTransactionInv
<1>7. CASE UNCHANGED vars
    <2>1. /\ UNCHANGED <<base, own, tx, broken, aborts, handle, other, leaks, runVars, taken, clash>>
        BY <1>7 DEF vars, dbVars
    <2>2. Free' = Free
        BY <2>1 DEF Free
    <2>3. QED  BY <1>1, <2>1, <2>2, Known, OtherInv
<1>8. QED  BY <1>1, <1>2, <1>3, <1>4, <1>5, <1>6, <1>7 DEF Next

\* The inductive invariant holds of every run of a Migrator and of the goroutine beside it.
THEOREM Inductive == Spec => []IInv
<1>1. QED  BY InitInv, StepInv, PTL DEF Spec

\* Types; a transaction a Migrator has begun is left open only by a Migrate that failed; an
\* object is created twice only if the dialect had another transaction's handle.
THEOREM InvHolds == Spec => []Inv
<1>1. IInv => Inv  BY DEF IInv, Typed, Inv
<1>2. QED  BY <1>1, Inductive, PTL

\* While a Migrate is under way, the database changes only by its commit, which is of a
\* transaction of its own and reports success; success is reported at the end of Close only.
LEMMA Ends ==
    ASSUME IInv, [Next]_vars, phase # "idle"
    PROVE  /\ base' # base => Commit /\ mig.trans /\ out' = "ok"
           /\ phase = "posts" /\ out' = "ok" => Commit
<1>1. out = "none"  BY DEF IInv, Life
<1>2. CASE Commit
    <2>1. base' # base => mig.trans /\ out' = "ok"
        <3>1. CASE ~mig.trans  BY <1>2, <3>1 DEF Commit
        <3>2. CASE mig.trans
            <4>1. PICK bad \in BOOLEAN : base' = (IF bad THEN base ELSE own) /\ (~bad => out' = "ok")
                BY <1>2, <3>2 DEF Commit
            <4>2. QED  BY <3>2, <4>1
        <3>3. QED  BY <3>1, <3>2
    <2>2. QED  BY <1>2, <2>1
<1>3. CASE PostHandler
    <2>1. base' = base  BY <1>3 DEF PostHandler
    <2>2. out' = "none" \/ out' = "error"
        BY <1>1, <1>3 DEF PostHandler, GiveUp
    <2>3. QED  BY <2>1, <2>2
<1>4. CASE Begin \/ NextFunction \/ Close \/ EndAutoMigrate
    BY <1>4 DEF Begin, NextFunction, Running, Close, EndAutoMigrate, InFrame, dbVars
<1>5. CASE Callbacks \/ HasTable \/ NextChild \/ EndChild
    BY <1>5 DEF Callbacks, HasTable, InFrame, NextChild, EndChild, Quiet, Panic
<1>6. CASE AddColumn \/ CreateJoinTable \/ CreateTable \/ AutoIndex \/ AutoForeignKeys
    BY <1>6 DEF AddColumn, CreateJoinTable, CreateTable, AutoIndex, AutoForeignKeys, InFrame, Quiet
<1>7. CASE OtherBegin \/ OtherEnd \/ UNCHANGED vars
    BY <1>1, <1>7 DEF OtherBegin, OtherEnd, runVars, vars, dbVars
<1>8. ASSUME NEW given \in BOOLEAN, NewMigrator(given) PROVE FALSE  BY <1>8 DEF NewMigrator
<1>9. ASSUME NEW fs \in Programs, Migrate(fs) PROVE FALSE  BY <1>9 DEF Migrate
<1>10. ASSUME NEW commit \in BOOLEAN, EndTransaction(commit) PROVE FALSE  BY <1>10 DEF EndTransaction
<1>11. QED  BY <1>2, <1>3, <1>4, <1>5, <1>6, <1>7, <1>8, <1>9, <1>10 DEF Next, Step

\* What a commit that goes well puts into the database, if no error was dropped.
LEMMA CommitApplies ==
    ASSUME IInv, Commit, out' = "ok", mig.trans, ~lost
    PROVE  Of(asked) \subseteq base'
<1>1. tx = "open" /\ base' = own /\ phase = "posts" /\ todo = <<>> /\ stack = <<>>
    <2>1. PICK bad \in BOOLEAN : /\ broken \/ tx # "open" => bad
                                 /\ base' = (IF bad THEN base ELSE own)
                                 /\ bad => GiveUp("error")
        BY DEF Commit
    <2>2. ~bad  BY <2>1 DEF GiveUp
    <2>3. QED  BY <2>1, <2>2, Known DEF Commit
<1>2. /\ \A t \in asked : Whole(t)
      /\ \A t \in Elements(mig.posts) : t \in Elements(todo) \/ <<"fk", t>> \in own
    BY <1>1 DEF IInv, Progress
<1>3. Elements(todo) = {}  BY <1>1 DEF Elements
<1>4. ASSUME NEW t \in asked, NEW u \in Tree(t)
      PROVE  ({"table", "column", "index", "fk"} \X {u}) \cup ({"join"} \X Joins[u]) \subseteq own
    <2>1. u \in Made  BY <1>2 DEF Whole
    <2>2. Parts(u) \subseteq own /\ <<"fk", u>> \in own  BY <1>2, <1>3, <2>1 DEF Made
    <2>3. QED  BY <2>2 DEF Parts
<1>5. QED  BY <1>1, <1>4 DEF Of

\* Success of a Migrate of its own transaction means that the tables, columns, join tables,
\* indexes and foreign keys of all asked for and all below it are in the database, whatever
\* they are, unless an error was dropped on the way.
THEOREM SuccessHolds == Spec => SuccessMeansApplied
<1>1. IInv /\ [Next]_vars =>
         [phase = "posts" /\ out' = "ok" /\ mig.trans => lost \/ Of(asked) \subseteq base']_vars
    BY Ends, CommitApplies
<1>2. QED  BY <1>1, Inductive, PTL DEF Spec, SuccessMeansApplied

\* An error or a panic of a Migrate leaves the database as it was when it began.
THEOREM FailureHolds == Spec => FailureAppliesNothing
<1>1. IInv /\ [Next]_vars => [phase # "idle" /\ out' \in {"error", "panic"} => base' = was]_vars
    BY Ends DEF IInv, Life
<1>2. QED  BY <1>1, Inductive, PTL DEF Spec, FailureAppliesNothing

\* No Migrate of a Migrator that has failed before changes the database.
THEOREM RetryHolds == Spec => RetryCommitsNothing
<1>1. IInv /\ [Next]_vars => [errored /\ phase # "idle" => base' = base]_vars
    BY Ends DEF IInv, Life
<1>2. QED  BY <1>1, Inductive, PTL DEF Spec, RetryCommitsNothing
=============================================================================
