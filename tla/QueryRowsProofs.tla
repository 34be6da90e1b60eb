--------------------------- MODULE QueryRowsProofs ---------------------------
(***************************************************************************)
(* What QueryRows guarantees for any number of goroutines, calls,          *)
(* connections and rows and any nesting: its invariant Inv, that no error  *)
(* is lost but where nothing reads it, and when a call panics.             *)
(***************************************************************************)
EXTENDS QueryRows, FiniteSetTheorems, SequenceTheorems, TLAPS

ShortPath  == {<<r>> : r \in Many \cup M2M}
OpenPlaces == {"rows", "scanned", "again"}
LongIn(s)  == \E i \in 1 .. Len(s) : Len(s[i]) > 1

\* The rows are open in the loop over them alone; what it has counted and what is left are
\* not more than the result has; only elements have a record without a query.
RowsFit(f) == /\ f.open <=> f.at \in OpenPlaces
              /\ f.left + f.got <= MaxRows
              /\ f.at = "query" \/ (f.at = "build" /\ f.call # "elem") => f.left = 0 /\ f.got = 0
              /\ f.call = "elem" => f.at # "query" /\ f.at \notin OpenPlaces

\* A path in work has a field at the level.
PathFits(f) == IF f.paths = <<>> THEN f.level = 0 ELSE f.level < Len(Head(f.paths))

FrameFits(f) == f \in Frame /\ RowsFit(f) /\ PathFits(f)

\* A frame that has made a call.
Caller(f) == /\ f.at \in {"rows", "again", "preload", "return"}
             /\ f.at = "preload" => f.paths # <<>>

\* A frame that is not the program's call: preloads are of one field.
Nested(f) == f.inline = <<>> /\ f.paths \in Seq(ShortPath) /\ f.call \in {"find", "m2m", "elem"}

FitsAt(f, i, d) == /\ FrameFits(f)
                   /\ i < d => Caller(f)
                   /\ i > 1 => Nested(f)
                   /\ f.call = "m2m" => i < MaxDepth
StackFits(s) == \A i \in 1 .. Len(s) : FitsAt(s[i], i, Len(s))

\* An error in a call has its origin in a failure, in a path of several fields or in the
\* outermost frame itself.
Explained(p) == \A i \in 1 .. Depth(p) : stack[p][i].err # "no" =>
                   \/ faults[p] > 0
                   \/ LongIn(stack[p][1].paths) \/ LongIn(stack[p][1].inline)
                   \/ stack[p][1].err # "no"

\* A failure is an error of some frame until an error is recorded where nothing reads it.
Kept(p) == Busy(p) => /\ out[p] = "none"
                      /\ faults[p] > 0 /\ ~lost[p] => \E i \in 1 .. Depth(p) : stack[p][i].err # "no"

CallFits(p) == StackFits(stack[p]) /\ Depth(p) <= MaxDepth /\ Explained(p) /\ Kept(p)

Typed == /\ stack \in [Proc -> Seq(Frame)]
         /\ inTx \in [Proc -> BOOLEAN] /\ lost \in [Proc -> BOOLEAN]
         /\ free \in 0 .. MaxConns
         /\ out \in [Proc -> {"none", "ok", "notfound", "error", "panic"}]
         /\ faults \in [Proc -> 0 .. MaxFaults] /\ calls \in [Proc -> 0 .. MaxCalls]

\* The inductive invariant.
IInv == Typed /\ (\A p \in Proc : CallFits(p)) /\ ConnectionsReturned /\ NoErrorLost
-----------------------------------------------------------------------------
(* Stacks *)

LEMMA TopFacts ==
    ASSUME stack \in [Proc -> Seq(Frame)], NEW p \in Proc, Busy(p)
    PROVE  /\ Depth(p) \in Nat /\ Depth(p) > 0 /\ stack[p] \in Seq(Frame)
           /\ DOMAIN stack[p] = 1 .. Depth(p)
           /\ Top(p) = stack[p][Depth(p)] /\ Top(p) \in Frame
<1>1. stack[p] \in Seq(Frame) /\ stack[p] # <<>>  BY DEF Busy
<1>2. QED  BY <1>1 DEF Top, Depth

\* Only the stack of p changes, from its k-th frame on.
Changes(p, k) == /\ stack' \in [Proc -> Seq(Frame)]
                 /\ \A q \in Proc \ {p} : stack'[q] = stack[q]
                 /\ \A i \in 1 .. k - 1 : stack'[p][i] = stack[p][i]

LEMMA PutFacts ==
    ASSUME stack \in [Proc -> Seq(Frame)], NEW p \in Proc, Busy(p), NEW f \in Frame, Put(p, f)
    PROVE  Changes(p, Depth(p)) /\ Len(stack'[p]) = Depth(p) /\ stack'[p][Depth(p)] = f
<1>1. /\ Depth(p) \in 1 .. Len(stack[p]) /\ stack[p] \in Seq(Frame)
      /\ Len(stack[p]) = Depth(p)
    BY TopFacts DEF Depth
<1> DEFINE s == [stack[p] EXCEPT ![Depth(p)] = f]
<1>2. s \in Seq(Frame) /\ Len(s) = Depth(p) /\ s[Depth(p)] = f /\ \A i \in 1 .. Depth(p) - 1 : s[i] = stack[p][i]
    BY <1>1, ExceptSeq
<1>3. stack' = [stack EXCEPT ![p] = s]  BY DEF Put
<1> HIDE DEF s
<1>4. QED  BY <1>2, <1>3 DEF Changes

LEMMA PushFacts ==
    ASSUME stack \in [Proc -> Seq(Frame)], NEW p \in Proc, Busy(p), NEW f \in Frame, NEW g \in Frame,
           Push(p, f, g)
    PROVE  /\ Changes(p, Depth(p)) /\ Len(stack'[p]) = Depth(p) + 1
           /\ stack'[p][Depth(p)] = f /\ stack'[p][Depth(p) + 1] = g
<1>1. Depth(p) \in Nat /\ Depth(p) > 0 /\ stack[p] \in Seq(Frame) /\ Len(stack[p]) = Depth(p)
    BY TopFacts DEF Depth
<1> DEFINE b == SubSeq(stack[p], 1, Depth(p) - 1)
           s == b \o <<f, g>>
<1>2. b \in Seq(Frame) /\ Len(b) = Depth(p) - 1 /\ \A i \in 1 .. Depth(p) - 1 : b[i] = stack[p][i]
    BY <1>1, SubSeqProperties
<1>3. stack' = [stack EXCEPT ![p] = s]  BY DEF Push
<1> HIDE DEF b
<1>4. /\ s \in Seq(Frame) /\ Len(s) = Depth(p) + 1 /\ s[Depth(p)] = f /\ s[Depth(p) + 1] = g
      /\ \A i \in 1 .. Depth(p) - 1 : s[i] = b[i]
    BY <1>1, <1>2
<1> HIDE DEF s
<1>5. QED  BY <1>2, <1>3, <1>4 DEF Changes

\* The innermost frame of p is over, h takes the place of the one below.
Pop(p, h) == stack' = [stack EXCEPT ![p] = Append(SubSeq(@, 1, Depth(p) - 2), h)]

LEMMA PopFacts ==
    ASSUME stack \in [Proc -> Seq(Frame)], NEW p \in Proc, Busy(p), Depth(p) # 1, NEW h \in Frame, Pop(p, h)
    PROVE  Changes(p, Depth(p) - 1) /\ Len(stack'[p]) = Depth(p) - 1 /\ stack'[p][Depth(p) - 1] = h
<1>0. Len(stack[p]) = Depth(p)  BY DEF Depth
<1>1. Depth(p) \in Nat /\ Depth(p) > 1 /\ stack[p] \in Seq(Frame) /\ Len(stack[p]) = Depth(p)
    BY <1>0, TopFacts
<1> DEFINE b == SubSeq(stack[p], 1, Depth(p) - 2)
           s == Append(b, h)
<1>2. b \in Seq(Frame) /\ Len(b) = Depth(p) - 2 /\ \A i \in 1 .. Depth(p) - 2 : b[i] = stack[p][i]
    BY <1>1, SubSeqProperties
<1>3. stack' = [stack EXCEPT ![p] = s]  BY DEF Pop
<1> HIDE DEF b
<1>4. /\ s \in Seq(Frame) /\ Len(s) = Depth(p) - 1 /\ s[Depth(p) - 1] = h
      /\ \A i \in 1 .. Depth(p) - 2 : s[i] = b[i]
    BY <1>1, <1>2
<1> HIDE DEF s
<1>5. QED  BY <1>1, <1>2, <1>3, <1>4 DEF Changes
-----------------------------------------------------------------------------
(* Calls *)

\* The frame e takes the place of f: of its paths it may have dealt with the first.
Follows(f, e) == /\ FrameFits(e) /\ e.call = f.call /\ e.inline = f.inline
                 /\ e.paths = f.paths \/ (f.paths # <<>> /\ e.paths = Tail(f.paths))

LEMMA FollowsNested ==
    ASSUME NEW f, NEW e, Follows(f, e), Nested(f) PROVE Nested(e)
<1>1. f.paths # <<>> /\ f.paths \in Seq(ShortPath) => Tail(f.paths) \in Seq(ShortPath)
    BY HeadTailProperties
<1>2. QED  BY <1>1 DEF Follows, Nested

LEMMA NestedShort ==
    ASSUME NEW f, Nested(f) PROVE ~LongIn(f.paths)
<1> SUFFICES ASSUME NEW i \in 1 .. Len(f.paths), Len(f.paths[i]) > 1 PROVE FALSE
    BY DEF LongIn
<1>1. f.paths \in Seq(ShortPath)  BY DEF Nested
<1>2. f.paths[i] \in ShortPath  BY <1>1, ElementOfSeq
<1>3. PICK r : f.paths[i] = <<r>>  BY <1>2 DEF ShortPath
<1>4. QED  BY <1>3

\* The errors of the call of p go on as they should when e takes the place of its frame k.
ErrorsKept(p, k, e) == /\ stack[p][k].err # "no" => e.err # "no"
                       /\ e.err # "no" => stack[p][k].err # "no" \/ faults'[p] > 0 \/ k = 1
                       /\ faults'[p] \in Nat /\ faults'[p] >= faults[p]
                       /\ faults'[p] = faults[p] \/ e.err # "no" \/ lost'[p]
                       /\ lost[p] => lost'[p]
                       /\ out'[p] = out[p]

LEMMA OthersFit ==
    ASSUME NEW p \in Proc, \A q \in Proc : CallFits(q), CallFits(p)',
           \A q \in Proc \ {p} : /\ stack'[q] = stack[q] /\ faults'[q] = faults[q]
                                 /\ lost'[q] = lost[q] /\ out'[q] = out[q]
    PROVE  \A q \in Proc : CallFits(q)'
<1>1. ASSUME NEW q \in Proc \ {p} PROVE CallFits(q)'
    BY <1>1 DEF CallFits, Depth, Explained, Kept, Busy
<1>2. QED  BY <1>1

LEMMA IdleFits ==
    ASSUME NEW p \in Proc, stack'[p] = <<>>
    PROVE  CallFits(p)'
<1>1. MaxDepth >= 0  BY BoundAssumption
<1>2. QED  BY <1>1 DEF CallFits, StackFits, Depth, Explained, Kept, Busy

\* The innermost frame is followed by e.
LEMMA PutFits ==
    ASSUME Typed, NEW p \in Proc, Busy(p), CallFits(p),
           NEW e, Put(p, e), Follows(Top(p), e), ErrorsKept(p, Depth(p), e)
    PROVE  CallFits(p)'
<1> DEFINE d == Depth(p)
<1>1. /\ d \in Nat /\ d > 0 /\ Top(p) = stack[p][d] /\ Len(stack[p]) = d
      /\ stack \in [Proc -> Seq(Frame)]
    BY TopFacts DEF Typed, Depth
<1>2. e \in Frame  BY DEF Follows, FrameFits
<1>3. /\ Len(stack'[p]) = d /\ stack'[p][d] = e /\ \A i \in 1 .. d - 1 : stack'[p][i] = stack[p][i]
    BY <1>1, <1>2, PutFacts DEF Changes
<1>4. Depth(p)' = d  BY <1>3 DEF Depth
<1>0. d = Depth(p)  OBVIOUS
<1> HIDE DEF d
<1>5. StackFits(stack'[p])
    <2>1. ASSUME NEW i \in 1 .. d
          PROVE  FitsAt(stack'[p][i], i, d)
        <3>0. FitsAt(stack[p][i], i, d)
            BY <1>1 DEF CallFits, StackFits
        <3>1. CASE i = d  BY <1>1, <1>3, <3>0, <3>1, FollowsNested DEF Follows, FitsAt
        <3>2. CASE i # d  BY <1>1, <1>3, <3>0, <3>2
        <3>3. QED  BY <3>1, <3>2
    <2>2. QED  BY <1>3, <2>1 DEF StackFits
<1>6. Explained(p)'
    <2> SUFFICES ASSUME NEW i \in 1 .. d, stack'[p][i].err # "no",
                        ~(faults'[p] > 0), stack'[p][1].err = "no"
                 PROVE  LongIn(stack'[p][1].paths) \/ LongIn(stack'[p][1].inline)
        BY <1>4 DEF Explained
    <2>1. i # 1  OBVIOUS
    <2>2. stack'[p][1] = stack[p][1] /\ d # 1  BY <1>1, <1>3, <2>1
    <2>3. stack[p][i].err # "no"
        <3>1. CASE i = d
            <4>1. e.err # "no"  BY <1>3, <3>1
            <4>2. QED  BY <1>0, <2>2, <3>1, <4>1 DEF ErrorsKept
        <3>2. CASE i # d  BY <1>1, <1>3, <3>2
        <3>3. QED  BY <3>1, <3>2
    <2>4. ~(faults[p] > 0)  BY DEF ErrorsKept, Typed
    <2>5. QED  BY <1>1, <2>2, <2>3, <2>4 DEF CallFits, Explained, Depth
<1>7. Kept(p)'
    <2>1. out'[p] = "none"  BY DEF ErrorsKept, CallFits, Kept
    <2>2. ASSUME faults'[p] > 0, ~lost'[p] PROVE \E i \in 1 .. d : stack'[p][i].err # "no"
        <3>1. CASE e.err # "no"  BY <1>1, <1>3, <3>1
        <3>2. CASE e.err = "no"
            <4>1. faults[p] > 0 /\ ~lost[p] /\ stack[p][d].err = "no"
                BY <1>0, <2>2, <3>2 DEF ErrorsKept
            <4>2. PICK i \in 1 .. d : stack[p][i].err # "no"  BY <1>1, <4>1 DEF CallFits, Kept, Depth
            <4>3. i # d  BY <1>1, <4>1, <4>2
            <4>4. QED  BY <1>1, <1>3, <4>2, <4>3
        <3>3. QED  BY <3>1, <3>2
    <2>3. QED  BY <1>4, <2>1, <2>2 DEF Kept
<1>8. d <= MaxDepth  BY <1>1 DEF CallFits, Depth
<1>9. QED  BY <1>4, <1>5, <1>6, <1>7, <1>8 DEF CallFits

\* The innermost frame, followed by e, makes a call g.
LEMMA PushFits ==
    ASSUME Typed, NEW p \in Proc, Busy(p), CallFits(p), Depth(p) < MaxDepth,
           NEW e, NEW g, Push(p, e, g), Follows(Top(p), e), Caller(e), ErrorsKept(p, Depth(p), e),
           FrameFits(g), Nested(g), g.call = "m2m" => Depth(p) + 1 < MaxDepth,
           g.err # "no" => e.err # "no" \/ LongIn(e.paths)
    PROVE  CallFits(p)'
<1> DEFINE d == Depth(p)
<1>1. /\ d \in Nat /\ d > 0 /\ Top(p) = stack[p][d] /\ Len(stack[p]) = d
      /\ stack \in [Proc -> Seq(Frame)]
    BY TopFacts DEF Typed, Depth
<1>2. e \in Frame /\ g \in Frame  BY DEF Follows, FrameFits
<1>3. /\ Len(stack'[p]) = d + 1 /\ stack'[p][d] = e /\ stack'[p][d + 1] = g
      /\ \A i \in 1 .. d - 1 : stack'[p][i] = stack[p][i]
    BY <1>1, <1>2, PushFacts DEF Changes
<1>4. Depth(p)' = d + 1  BY <1>3 DEF Depth
<1>0. d = Depth(p) /\ d < MaxDepth  OBVIOUS
<1> HIDE DEF d
<1>e. ASSUME d # 1, LongIn(e.paths) PROVE FALSE
    <2>1. Nested(stack[p][d])  BY <1>1, <1>e DEF CallFits, StackFits, FitsAt
    <2>2. Nested(e)  BY <1>1, <2>1, FollowsNested
    <2>3. QED  BY <1>e, <2>2, NestedShort
<1>5. StackFits(stack'[p])
    <2>1. ASSUME NEW i \in 1 .. d + 1 PROVE FitsAt(stack'[p][i], i, d + 1)
        <3>1. CASE i = d + 1  BY <1>0, <1>1, <1>3, <3>1 DEF FitsAt
        <3>2. CASE i # d + 1
            <4>1. FitsAt(stack[p][i], i, d)  BY <1>1, <3>2 DEF CallFits, StackFits
            <4>2. CASE i = d  BY <1>1, <1>3, <4>1, <4>2, FollowsNested DEF Follows, FitsAt
            <4>3. CASE i # d
                <5>1. stack'[p][i] = stack[p][i] /\ i < d  BY <1>1, <1>3, <3>2, <4>3
                <5>2. QED  BY <4>1, <5>1 DEF FitsAt
            <4>4. QED  BY <4>2, <4>3
        <3>3. QED  BY <3>1, <3>2
    <2>2. QED  BY <1>3, <2>1 DEF StackFits
<1>6. Explained(p)'
    <2> SUFFICES ASSUME NEW i \in 1 .. d + 1, stack'[p][i].err # "no",
                        ~(faults'[p] > 0), stack'[p][1].err = "no"
                 PROVE  LongIn(stack'[p][1].paths) \/ LongIn(stack'[p][1].inline)
        BY <1>4 DEF Explained
    <2>1. CASE d = 1
        <3>1. stack'[p][1] = e /\ i = d + 1  BY <1>1, <1>3, <2>1
        <3>2. QED  BY <1>3, <3>1
    <2>2. CASE d # 1
        <3>0. 1 \in 1 .. d - 1  BY <1>1, <2>2
        <3>1. stack'[p][1] = stack[p][1]  BY <1>3, <3>0
        <3>2. g.err # "no" => e.err # "no"  BY <1>e, <2>2
        <3>3. e.err # "no" => stack[p][d].err # "no"  BY <1>0, <2>2 DEF ErrorsKept
        <3>4. \E k \in 1 .. d : stack[p][k].err # "no"
            <4>1. CASE i \in {d, d + 1}  BY <1>1, <1>3, <3>2, <3>3, <4>1
            <4>2. CASE i \in 1 .. d - 1  BY <1>1, <1>3, <4>2
            <4>3. QED  BY <1>1, <4>1, <4>2
        <3>5. ~(faults[p] > 0)  BY DEF ErrorsKept, Typed
        <3>6. QED  BY <1>1, <3>1, <3>4, <3>5 DEF CallFits, Explained, Depth
    <2>3. QED  BY <2>1, <2>2
<1>7. Kept(p)'
    <2>1. out'[p] = "none"  BY DEF ErrorsKept, CallFits, Kept
    <2>2. ASSUME faults'[p] > 0, ~lost'[p] PROVE \E i \in 1 .. d + 1 : stack'[p][i].err # "no"
        <3>1. CASE e.err # "no"  BY <1>1, <1>3, <3>1
        <3>2. CASE e.err = "no"
            <4>1. faults[p] > 0 /\ ~lost[p] /\ stack[p][d].err = "no"
                BY <1>0, <2>2, <3>2 DEF ErrorsKept
            <4>2. PICK i \in 1 .. d : stack[p][i].err # "no"  BY <1>1, <4>1 DEF CallFits, Kept, Depth
            <4>3. i \in 1 .. d - 1 /\ i \in 1 .. d + 1  BY <1>1, <4>1, <4>2
            <4>4. QED  BY <1>3, <4>2, <4>3
        <3>3. QED  BY <3>1, <3>2
    <2>3. QED  BY <1>4, <2>1, <2>2 DEF Kept
<1>8. d + 1 <= MaxDepth  BY <1>0, <1>1, BoundAssumption
<1>9. QED  BY <1>4, <1>5, <1>6, <1>7, <1>8 DEF CallFits

\* The innermost frame is over and the one that made the call is followed by h.
LEMMA PopFits ==
    ASSUME Typed, NEW p \in Proc, Busy(p), CallFits(p), Depth(p) # 1,
           NEW h, Pop(p, h),
           Follows(stack[p][Depth(p) - 1], h),
           stack[p][Depth(p) - 1].err # "no" => h.err # "no",
           h.err # "no" => stack[p][Depth(p) - 1].err # "no" \/ Top(p).err # "no",
           Top(p).err # "no" => h.err # "no" \/ lost'[p],
           lost[p] => lost'[p], UNCHANGED <<out, faults>>
    PROVE  CallFits(p)'
<1> DEFINE d == Depth(p) - 1
<1>t. stack \in [Proc -> Seq(Frame)] /\ Len(stack[p]) = Depth(p)  BY DEF Typed, Depth
<1>0. d = Depth(p) - 1 /\ Depth(p) = d + 1  BY <1>t, TopFacts
<1>f. /\ Follows(stack[p][d], h)
      /\ stack[p][d].err # "no" => h.err # "no"
      /\ h.err # "no" => stack[p][d].err # "no" \/ stack[p][Depth(p)].err # "no"
      /\ stack[p][Depth(p)].err # "no" => h.err # "no" \/ lost'[p]
    BY TopFacts, <1>t
<1>1. d \in Nat /\ d > 0 /\ Top(p) = stack[p][d + 1] /\ Len(stack[p]) = d + 1
    BY <1>0, <1>t, TopFacts
<1>2. h \in Frame  BY DEF Follows, FrameFits
<1>3. /\ Len(stack'[p]) = d /\ stack'[p][d] = h /\ \A i \in 1 .. d - 1 : stack'[p][i] = stack[p][i]
    BY <1>2, <1>t, PopFacts DEF Changes
<1>4. Depth(p)' = d  BY <1>3 DEF Depth
<1> HIDE DEF d
<1>5. StackFits(stack'[p])
    <2>1. ASSUME NEW i \in 1 .. d PROVE FitsAt(stack'[p][i], i, d)
        <3>1. FitsAt(stack[p][i], i, d + 1)  BY <1>1 DEF CallFits, StackFits
        <3>2. CASE i = d  BY <1>f, <1>1, <1>3, <3>1, <3>2, FollowsNested DEF Follows, FitsAt
        <3>3. CASE i # d
            <4>1. stack'[p][i] = stack[p][i] /\ i < d /\ i < d + 1  BY <1>1, <1>3, <3>3
            <4>2. QED  BY <3>1, <4>1 DEF FitsAt
        <3>4. QED  BY <3>2, <3>3
    <2>2. QED  BY <1>3, <2>1 DEF StackFits
<1>6. Explained(p)'
    <2> SUFFICES ASSUME NEW i \in 1 .. d, stack'[p][i].err # "no",
                        ~(faults'[p] > 0), stack'[p][1].err = "no"
                 PROVE  LongIn(stack'[p][1].paths) \/ LongIn(stack'[p][1].inline)
        BY <1>4 DEF Explained
    <2>1. i # 1  OBVIOUS
    <2>2. stack'[p][1] = stack[p][1] /\ d # 1  BY <1>1, <1>3, <2>1
    <2>3. \E k \in 1 .. d + 1 : stack[p][k].err # "no"
        <3>1. CASE i = d
            <4>1. stack[p][d].err # "no" \/ stack[p][Depth(p)].err # "no"  BY <1>3, <1>f, <3>1
            <4>2. QED  BY <1>0, <1>1, <4>1
        <3>2. CASE i # d
            <4>1. stack'[p][i] = stack[p][i] /\ i \in 1 .. d + 1  BY <1>1, <1>3, <3>2
            <4>2. QED  BY <4>1
        <3>3. QED  BY <3>1, <3>2
    <2>4. ~(faults[p] > 0)  OBVIOUS
    <2>5. QED  BY <1>1, <2>2, <2>3, <2>4 DEF CallFits, Explained, Depth
<1>7. Kept(p)'
    <2>1. out'[p] = "none"  BY DEF CallFits, Kept
    <2>2. ASSUME faults'[p] > 0, ~lost'[p] PROVE \E i \in 1 .. d : stack'[p][i].err # "no"
        <3>1. PICK k \in 1 .. d + 1 : stack[p][k].err # "no"
            BY <1>1, <2>2 DEF CallFits, Kept, Depth
        <3>2. CASE k \in {d, d + 1}
            <4>1. h.err # "no"  BY <1>0, <1>f, <2>2, <3>1, <3>2
            <4>2. QED  BY <1>1, <1>3, <4>1
        <3>3. CASE k \notin {d, d + 1}  BY <1>1, <1>3, <3>1, <3>3
        <3>4. QED  BY <3>2, <3>3
    <2>3. QED  BY <1>4, <2>1, <2>2 DEF Kept
<1>8. d <= MaxDepth
    <2>1. Depth(p) <= MaxDepth  BY DEF CallFits
    <2>2. QED  BY <1>0, <1>1, <2>1, BoundAssumption
<1>9. QED  BY <1>4, <1>5, <1>6, <1>7, <1>8 DEF CallFits
-----------------------------------------------------------------------------
(* Connections *)

HeldSet == {h \in Proc \X (0 .. MaxDepth) : HeldAt(h[1], h[2])}

LEMMA SlotsFinite == IsFiniteSet(Proc \X (0 .. MaxDepth))
<1>1. IsFiniteSet(0 .. MaxDepth)  BY BoundAssumption, FS_Interval
<1>2. QED  BY <1>1, OpAssumption, FS_Product

LEMMA HeldFinite == IsFiniteSet(HeldSet) /\ Held = Cardinality(HeldSet) /\ Held \in Nat
<1>1. IsFiniteSet(Proc \X (0 .. MaxDepth))  BY SlotsFinite
<1>2. HeldSet \in SUBSET (Proc \X (0 .. MaxDepth))  BY DEF HeldSet
<1>3. QED  BY <1>1, <1>2, FS_Subset, FS_CardinalityType DEF Held, HeldSet

LEMMA HeldFinitePrime == IsFiniteSet(HeldSet') /\ Held' = Cardinality(HeldSet') /\ Held' \in Nat
<1>1. IsFiniteSet(Proc \X (0 .. MaxDepth))  BY SlotsFinite
<1>2. HeldSet' \in SUBSET (Proc \X (0 .. MaxDepth))  BY DEF HeldSet
<1>3. QED  BY <1>1, <1>2, FS_Subset, FS_CardinalityType DEF Held, HeldSet

LEMMA HeldSame ==
    ASSUME \A q \in Proc : \A i \in 0 .. MaxDepth : HeldAt(q, i)' <=> HeldAt(q, i)
    PROVE  Held' = Held
<1>1. \A h : h \in HeldSet' <=> h \in HeldSet  BY DEF HeldSet
<1>2. HeldSet' = HeldSet  BY <1>1
<1>3. QED  BY <1>2, HeldFinite, HeldFinitePrime

LEMMA HeldOneMore ==
    ASSUME NEW p \in Proc, NEW k \in 0 .. MaxDepth, ~HeldAt(p, k), HeldAt(p, k)',
           \A q \in Proc : \A i \in 0 .. MaxDepth : (q = p /\ i = k) \/ (HeldAt(q, i)' <=> HeldAt(q, i))
    PROVE  Held' = Held + 1
<1>1. \A h \in Proc \X (0 .. MaxDepth) : h[1] = p /\ h[2] = k => h = <<p, k>>  OBVIOUS
<1>2. <<p, k>> \in Proc \X (0 .. MaxDepth) /\ <<p, k>>[1] = p /\ <<p, k>>[2] = k  OBVIOUS
<1>3. \A h : h \in HeldSet' <=> h \in HeldSet \cup {<<p, k>>}  BY <1>1, <1>2 DEF HeldSet
<1>4. HeldSet' = HeldSet \cup {<<p, k>>} /\ <<p, k>> \notin HeldSet  BY <1>2, <1>3 DEF HeldSet
<1>5. QED  BY <1>4, HeldFinite, HeldFinitePrime, FS_AddElement

LEMMA HeldOneLess ==
    ASSUME NEW p \in Proc, NEW k \in 0 .. MaxDepth, HeldAt(p, k), ~HeldAt(p, k)',
           \A q \in Proc : \A i \in 0 .. MaxDepth : (q = p /\ i = k) \/ (HeldAt(q, i)' <=> HeldAt(q, i))
    PROVE  Held' = Held - 1
<1>1. \A h \in Proc \X (0 .. MaxDepth) : h[1] = p /\ h[2] = k => h = <<p, k>>  OBVIOUS
<1>2. <<p, k>> \in Proc \X (0 .. MaxDepth) /\ <<p, k>>[1] = p /\ <<p, k>>[2] = k  OBVIOUS
<1>3. \A h : h \in HeldSet' <=> h \in HeldSet \ {<<p, k>>}  BY <1>1, <1>2 DEF HeldSet
<1>4. HeldSet' = HeldSet \ {<<p, k>>} /\ <<p, k>> \in HeldSet  BY <1>2, <1>3 DEF HeldSet
<1>5. QED  BY <1>4, HeldFinite, HeldFinitePrime, FS_RemoveElement

\* A panic gives back what the frames of p hold.
LEMMA HeldUnwound ==
    ASSUME Typed, NEW p \in Proc, ~inTx[p], Depth(p) <= MaxDepth,
           stack' = [stack EXCEPT ![p] = <<>>], inTx' = inTx
    PROVE  Held = Held' + Opened(p) /\ Opened(p) \in Nat
<1> DEFINE I == {i \in 1 .. Depth(p) : stack[p][i].open}
           P == {h \in HeldSet : h[1] = p}
           f == [i \in I |-> <<p, i>>]
<1>1. Depth(p) \in Nat /\ stack \in [Proc -> Seq(Frame)]  BY LenProperties DEF Typed, Depth
<1>2. IsFiniteSet(I) /\ Cardinality(I) \in Nat
    <2>1. IsFiniteSet(1 .. Depth(p)) /\ I \in SUBSET (1 .. Depth(p))  BY <1>1, FS_Interval
    <2>2. QED  BY <2>1, FS_Subset, FS_CardinalityType
<1>3. \A h : h \in P <=> \E i \in I : h = <<p, i>>
    <2>1. ASSUME NEW h \in P PROVE \E i \in I : h = <<p, i>>
        <3>1. h \in Proc \X (0 .. MaxDepth) /\ HeldAt(p, h[2]) /\ h[1] = p  BY DEF HeldSet
        <3>2. h[2] \in I  BY <3>1 DEF HeldAt
        <3>3. h = <<p, h[2]>>  BY <3>1
        <3>4. QED  BY <3>2, <3>3
    <2>2. ASSUME NEW i \in I PROVE <<p, i>> \in P
        <3>1. <<p, i>> \in Proc \X (0 .. MaxDepth) /\ <<p, i>>[1] = p /\ <<p, i>>[2] = i
            BY <1>1, BoundAssumption
        <3>2. HeldAt(p, i)  BY DEF HeldAt
        <3>3. QED  BY <3>1, <3>2 DEF HeldSet
    <2>3. QED  BY <2>1, <2>2
<1>4. Cardinality(P) = Cardinality(I)
    <2>1. f \in [I -> P]  BY <1>3
    <2>2. \A i, j \in I : f[i] = f[j] => i = j  OBVIOUS
    <2>3. \A h \in P : \E i \in I : f[i] = h  BY <1>3
    <2> HIDE DEF f, I, P
    <2>4. f \in Bijection(I, P)  BY <2>1, <2>2, <2>3 DEF Bijection, Injection, Surjection, IsInjective
    <2>5. QED  BY <1>2, <2>4, FS_Bijection DEF ExistsBijection
<1>5. \A h : h \in HeldSet' <=> h \in HeldSet \ P
    <2>1. ASSUME NEW h \in Proc \X (0 .. MaxDepth)
          PROVE  HeldAt(h[1], h[2])' <=> HeldAt(h[1], h[2]) /\ h[1] # p
        <3>1. CASE h[1] = p
            <4>1. stack'[p] = <<>> /\ ~inTx'[p]  BY <1>1
            <4>2. QED  BY <3>1, <4>1 DEF HeldAt, Depth
        <3>2. CASE h[1] # p  BY <1>1, <3>2 DEF HeldAt, Depth
        <3>3. QED  BY <3>1, <3>2
    <2>2. QED  BY <2>1 DEF HeldSet
<1>6. HeldSet' = HeldSet \ P /\ P = HeldSet \cap P  BY <1>5
<1> HIDE DEF P
<1>7. Cardinality(HeldSet') = Cardinality(HeldSet) - Cardinality(P)  
    <2>1. Cardinality(HeldSet \ P) = Cardinality(HeldSet) - Cardinality(HeldSet \cap P)
        BY HeldFinite, FS_Difference
    <2>2. QED  BY <1>6, <2>1
<1>8. Opened(p) = Cardinality(I)  BY DEF Opened
<1> HIDE DEF I
<1>9. QED  BY <1>2, <1>4, <1>7, <1>8, HeldFinite, HeldFinitePrime

\* What the frame in the place of the innermost one holds.
LEMMA PutHolds ==
    ASSUME Typed, NEW p \in Proc, Busy(p), Depth(p) <= MaxDepth, NEW e \in Frame, Put(p, e), inTx' = inTx
    PROVE  /\ inTx[p] \/ (e.open <=> Top(p).open) => Held' = Held
           /\ ~inTx[p] /\ e.open /\ ~Top(p).open => Held' = Held + 1
           /\ ~inTx[p] /\ ~e.open /\ Top(p).open => Held' = Held - 1
<1>t. stack \in [Proc -> Seq(Frame)] /\ Len(stack[p]) = Depth(p)  BY DEF Typed, Depth
<1>0. PICK d \in Nat : d = Depth(p)  BY <1>t, TopFacts
<1>1. d > 0 /\ Top(p) = stack[p][d] /\ Len(stack[p]) = d  BY <1>0, <1>t, TopFacts
<1>2. /\ Len(stack'[p]) = d /\ stack'[p][d] = e /\ \A i \in 1 .. d - 1 : stack'[p][i] = stack[p][i]
      /\ \A q \in Proc \ {p} : stack'[q] = stack[q]
    BY <1>0, <1>t, PutFacts DEF Changes
<1>3. d \in 0 .. MaxDepth  BY <1>0, BoundAssumption
<1>4. \A q \in Proc \ {p} : \A i \in 0 .. MaxDepth : HeldAt(q, i)' <=> HeldAt(q, i)
    BY <1>2 DEF HeldAt, Depth
<1>5. \A i \in 0 .. MaxDepth : i = d \/ inTx[p] \/ (HeldAt(p, i)' <=> HeldAt(p, i))
    BY <1>1, <1>2 DEF HeldAt, Depth
<1>6. ASSUME ~inTx[p] PROVE (HeldAt(p, d) <=> Top(p).open) /\ (HeldAt(p, d)' <=> e.open)
    <2>1. d \in 1 .. Depth(p) /\ d \in 1 .. Depth(p)'  BY <1>1, <1>2 DEF Depth
    <2>2. HeldAt(p, d) <=> stack[p][d].open  BY <1>6, <2>1 DEF HeldAt
    <2>3. HeldAt(p, d)' <=> stack'[p][d].open  BY <1>6, <2>1 DEF HeldAt
    <2>4. QED  BY <1>1, <1>2, <2>2, <2>3
<1>7. CASE inTx[p] \/ (e.open <=> Top(p).open)
    <2>1. inTx[p] => (HeldAt(p, d)' <=> HeldAt(p, d))  BY DEF HeldAt
    <2>2. HeldAt(p, d)' <=> HeldAt(p, d)  BY <1>6, <1>7, <2>1
    <2>3. \A i \in 0 .. MaxDepth : HeldAt(p, i)' <=> HeldAt(p, i)
        <3>1. inTx[p] => \A i \in 0 .. MaxDepth : HeldAt(p, i)' <=> HeldAt(p, i)  BY DEF HeldAt
        <3>2. QED  BY <1>5, <2>2, <3>1
    <2>4. Held' = Held  BY <1>4, <2>3, HeldSame
    <2>5. QED  BY <1>7, <2>4
<1>8. CASE ~inTx[p] /\ e.open /\ ~Top(p).open
    <2>1. (HeldAt(p, d) <=> Top(p).open) /\ (HeldAt(p, d)' <=> e.open)  BY <1>6, <1>8
    <2>2. \A q \in Proc : \A i \in 0 .. MaxDepth : (q = p /\ i = d) \/ (HeldAt(q, i)' <=> HeldAt(q, i))
        BY <1>4, <1>5, <1>8
    <2>3. Held' = Held + 1  BY <1>3, <1>8, <2>1, <2>2, HeldOneMore
    <2>4. QED  BY <1>8, <2>3
<1>9. CASE ~inTx[p] /\ ~e.open /\ Top(p).open
    <2>1. (HeldAt(p, d) <=> Top(p).open) /\ (HeldAt(p, d)' <=> e.open)  BY <1>6, <1>9
    <2>2. \A q \in Proc : \A i \in 0 .. MaxDepth : (q = p /\ i = d) \/ (HeldAt(q, i)' <=> HeldAt(q, i))
        BY <1>4, <1>5, <1>9
    <2>3. Held' = Held - 1  BY <1>3, <1>9, <2>1, <2>2, HeldOneLess
    <2>4. QED  BY <1>9, <2>3
<1>10. QED  BY <1>7, <1>8, <1>9

\* A call that begins holds nothing, one that is over no longer does.
LEMMA PushHolds ==
    ASSUME Typed, NEW p \in Proc, Busy(p), NEW e \in Frame, NEW g \in Frame, Push(p, e, g), inTx' = inTx,
           e.open <=> Top(p).open, ~g.open
    PROVE  Held' = Held
<1> DEFINE d == Depth(p)
<1>1. /\ d \in Nat /\ d > 0 /\ Top(p) = stack[p][d] /\ Len(stack[p]) = d
      /\ stack \in [Proc -> Seq(Frame)]
    BY TopFacts DEF Typed, Depth
<1>2. /\ Len(stack'[p]) = d + 1 /\ stack'[p][d] = e /\ stack'[p][d + 1] = g
      /\ \A i \in 1 .. d - 1 : stack'[p][i] = stack[p][i]
      /\ \A q \in Proc \ {p} : stack'[q] = stack[q]
    BY <1>1, PushFacts DEF Changes
<1> HIDE DEF d
<1>3. ASSUME NEW i \in 0 .. MaxDepth PROVE HeldAt(p, i)' <=> HeldAt(p, i)
    <2>1. CASE inTx[p]  BY <2>1 DEF HeldAt
    <2>2. CASE ~inTx[p] /\ i \in {d, d + 1}  BY <1>1, <1>2, <2>2 DEF HeldAt, Depth
    <2>3. CASE ~inTx[p] /\ i \notin {d, d + 1}  BY <1>1, <1>2, <2>3 DEF HeldAt, Depth
    <2>4. QED  BY <2>1, <2>2, <2>3
<1>4. \A q \in Proc \ {p} : \A i \in 0 .. MaxDepth : HeldAt(q, i)' <=> HeldAt(q, i)
    BY <1>2 DEF HeldAt, Depth
<1>5. QED  BY <1>3, <1>4, HeldSame

LEMMA PopHolds ==
    ASSUME Typed, NEW p \in Proc, Busy(p), Depth(p) # 1, NEW h \in Frame, Pop(p, h), inTx' = inTx,
           h.open <=> stack[p][Depth(p) - 1].open, ~Top(p).open
    PROVE  Held' = Held
<1> DEFINE d == Depth(p) - 1
<1>t. stack \in [Proc -> Seq(Frame)] /\ Len(stack[p]) = Depth(p)  BY DEF Typed, Depth
<1>0. d = Depth(p) - 1 /\ Depth(p) = d + 1  BY <1>t, TopFacts
<1>1. d \in Nat /\ d > 0 /\ ~stack[p][d + 1].open /\ Len(stack[p]) = d + 1 /\ (h.open <=> stack[p][d].open)
    BY <1>0, <1>t, TopFacts
<1>2. /\ Len(stack'[p]) = d /\ stack'[p][d] = h /\ \A i \in 1 .. d - 1 : stack'[p][i] = stack[p][i]
      /\ \A q \in Proc \ {p} : stack'[q] = stack[q]
    BY <1>t, PopFacts DEF Changes
<1> HIDE DEF d
<1>3. ASSUME NEW i \in 0 .. MaxDepth PROVE HeldAt(p, i)' <=> HeldAt(p, i)
    <2>1. CASE inTx[p]  BY <2>1 DEF HeldAt
    <2>2. CASE ~inTx[p] /\ i \in {d, d + 1}  BY <1>1, <1>2, <2>2 DEF HeldAt, Depth
    <2>3. CASE ~inTx[p] /\ i \notin {d, d + 1}  BY <1>1, <1>2, <2>3 DEF HeldAt, Depth
    <2>4. QED  BY <2>1, <2>2, <2>3
<1>4. \A q \in Proc \ {p} : \A i \in 0 .. MaxDepth : HeldAt(q, i)' <=> HeldAt(q, i)
    BY <1>2 DEF HeldAt, Depth
<1>5. QED  BY <1>3, <1>4, HeldSame

\* A goroutine that is in no call before or after holds what its transaction does.
LEMMA IdleHolds ==
    ASSUME NEW p \in Proc, \A i \in 1 .. Depth(p) : ~stack[p][i].open, inTx' = inTx,
           \A i \in 1 .. Depth(p)' : ~stack'[p][i].open, \A q \in Proc \ {p} : stack'[q] = stack[q]
    PROVE  Held' = Held
<1>1. \A q \in Proc : \A i \in 0 .. MaxDepth : HeldAt(q, i)' <=> HeldAt(q, i)
    BY DEF HeldAt, Depth
<1>2. QED  BY <1>1, HeldSame
-----------------------------------------------------------------------------
(* Frames *)

Calls == {"find", "one", "pluck", "pluckFirst", "count", "exists", "m2m", "elem"}

LEMMA ShortIsPath == Seq(ShortPath) \subseteq Paths
<1>1. ShortPath \subseteq Seq(STRING) \ {<<>>}
    <2>1. ASSUME NEW S, NEW r \in S PROVE <<r>> \in Seq(S) \ {<<>>}  OBVIOUS
    <2>2. \A r \in Many \cup M2M : r \in STRING  BY OpAssumption, Zenon
    <2>3. \A r \in Many \cup M2M : <<r>> \in Seq(STRING) \ {<<>>}  BY <2>1, <2>2
    <2>4. QED  BY <2>3, Zenon DEF ShortPath
<1>2. QED  BY <1>1 DEF Paths

LEMMA AutoShort == AutoPaths \in Seq(ShortPath) /\ <<>> \in Seq(ShortPath)
BY OpAssumption DEF ShortPath

\* A path has a first field.
LEMMA PathHead ==
    ASSUME NEW paths \in Paths, paths # <<>>
    PROVE  /\ Head(paths) \in Seq(STRING) /\ Len(Head(paths)) \in Nat /\ Len(Head(paths)) > 0
           /\ Tail(paths) \in Paths /\ Head(paths) = paths[1] /\ Len(paths) \in Nat /\ Len(paths) > 0
<1>1. Head(paths) \in Seq(STRING) \ {<<>>} /\ Tail(paths) \in Paths
    BY HeadTailProperties DEF Paths
<1>2. Len(Head(paths)) \in Nat /\ Len(Head(paths)) # 0  BY <1>1, EmptySeq
<1>3. Len(paths) \in Nat /\ Len(paths) # 0 /\ Head(paths) = paths[1]  BY DEF Paths
<1>4. QED  BY <1>1, <1>2, <1>3

LEMMA NewFrameFits ==
    ASSUME NEW call \in Calls, NEW err \in Errors, NEW auto \in BOOLEAN,
           NEW paths \in Paths, NEW inline \in Paths, call = "elem" => MaxRows > 0
    PROVE  LET g == NewFrame(call, err, auto, paths, inline)
           IN  FrameFits(g) /\ g.call = call /\ g.err = err /\ g.paths = paths /\ g.inline = inline /\ ~g.open
<1> DEFINE g == NewFrame(call, err, auto, paths, inline)
<1>1. 0 \in 0 .. MaxRows /\ (call = "elem" => 1 \in 0 .. MaxRows) /\ MaxRows \in Nat  BY BoundAssumption
<1>2. /\ g.call = call /\ g.err = err /\ g.paths = paths /\ g.inline = inline /\ g.open = FALSE
      /\ g.at = "build" /\ g.left = 0 /\ g.got \in {0, 1} /\ (g.got = 1 <=> call = "elem") /\ g.level = 0
    BY DEF NewFrame
<1>3. g \in Frame
    <2>1. (IF call = "elem" THEN 1 ELSE 0) \in 0 .. MaxRows  BY <1>1
    <2>2. QED  BY <1>1, <2>1 DEF NewFrame, Frame, Calls, Errors
<1>4. RowsFit(g)  BY <1>1, <1>2 DEF RowsFit, OpenPlaces
<1>5. PathFits(g)  BY <1>2, PathHead DEF PathFits
<1>6. QED  BY <1>2, <1>3, <1>4, <1>5 DEF FrameFits

LEMMA NestedFrameFits ==
    ASSUME NEW call \in {"find", "m2m", "elem"}, NEW err \in Errors, NEW auto \in BOOLEAN,
           NEW paths \in Seq(ShortPath), call = "elem" => MaxRows > 0
    PROVE  LET g == NewFrame(call, err, auto, paths, <<>>)
           IN  FrameFits(g) /\ Nested(g) /\ g.call = call /\ g.err = err /\ ~g.open
<1>1. <<>> \in Paths /\ paths \in Paths /\ call \in Calls  BY ShortIsPath, AutoShort DEF Calls
<1>2. QED  BY <1>1, NewFrameFits DEF Nested

\* Before the statement.
Built(f, err, at) == [f EXCEPT !.err = err, !.at = at]

LEMMA BuiltFits ==
    ASSUME NEW f, FrameFits(f), f.at = "build", NEW err \in Errors,
           NEW at \in {"return", "preload", "query"}, at = "query" => f.call # "elem",
           NEW e, e = Built(f, err, at)
    PROVE  Follows(f, e) /\ e.err = err /\ (e.open <=> f.open)
<1>1. e \in Frame  BY DEF Built, FrameFits, Frame
<1>2. /\ e.call = f.call /\ e.at = at /\ e.err = err /\ e.left = f.left /\ e.got = f.got /\ e.open = f.open
      /\ e.inline = f.inline /\ e.paths = f.paths /\ e.level = f.level
    BY DEF Built, FrameFits, Frame
<1>3. RowsFit(e)  BY <1>2 DEF FrameFits, RowsFit, OpenPlaces
<1>4. PathFits(e)  BY <1>2 DEF FrameFits, PathFits
<1>5. Follows(f, e)  BY <1>1, <1>2, <1>3, <1>4 DEF Follows, FrameFits
<1>6. QED  BY <1>2, <1>3, <1>5

\* The statement opens rows, or fails.
LEMMA OpenedFits ==
    ASSUME NEW f, FrameFits(f), f.at = "query", NEW n \in 0 .. MaxRows
    PROVE  LET e == [f EXCEPT !.left = n, !.open = TRUE, !.at = "rows"]
           IN  Follows(f, e) /\ e.err = f.err /\ e.open /\ ~f.open
<1> DEFINE e == [f EXCEPT !.left = n, !.open = TRUE, !.at = "rows"]
<1>1. e \in Frame  BY DEF FrameFits, Frame
<1>2. /\ e.call = f.call /\ e.at = "rows" /\ e.err = f.err /\ e.left = n /\ e.got = f.got /\ e.open = TRUE
      /\ e.inline = f.inline /\ e.paths = f.paths /\ e.level = f.level
    BY DEF FrameFits, Frame
<1> HIDE DEF e
<1>3. RowsFit(e) /\ ~f.open  BY <1>2 DEF FrameFits, RowsFit, OpenPlaces, Frame
<1>4. PathFits(e)  BY <1>2 DEF FrameFits, PathFits
<1>5. Follows(f, e)  BY <1>1, <1>2, <1>3, <1>4 DEF Follows, FrameFits
<1>6. QED  BY <1>2, <1>3, <1>5 DEF e

\* A frame breaks off, its rows being closed.
LEMMA FailedFits ==
    ASSUME NEW f, FrameFits(f), f.at \in {"query", "preload"}
    PROVE  LET e == [f EXCEPT !.err = "error", !.at = "return"]
           IN  Follows(f, e) /\ e.err # "no" /\ (e.open <=> f.open)
<1> DEFINE e == [f EXCEPT !.err = "error", !.at = "return"]
<1>1. e \in Frame  BY DEF FrameFits, Frame, Errors
<1>2. /\ e.call = f.call /\ e.at = "return" /\ e.err = "error" /\ e.left = f.left /\ e.got = f.got
      /\ e.open = f.open /\ e.inline = f.inline /\ e.paths = f.paths /\ e.level = f.level
    BY DEF FrameFits, Frame
<1> HIDE DEF e
<1>3. RowsFit(e)  BY <1>2 DEF FrameFits, RowsFit, OpenPlaces
<1>4. PathFits(e)  BY <1>2 DEF FrameFits, PathFits
<1>5. Follows(f, e)  BY <1>1, <1>2, <1>3, <1>4 DEF Follows, FrameFits
<1>6. QED  BY <1>2, <1>3, <1>5 DEF e

\* A row is read.
LEMMA ScannedFits ==
    ASSUME NEW f, FrameFits(f), f.at = "rows", f.left > 0, NEW err \in Errors, NEW at \in OpenPlaces
    PROVE  LET e == [f EXCEPT !.left = f.left - 1, !.got = f.got + 1, !.err = err, !.at = at]
           IN  Follows(f, e) /\ e.err = err /\ e.at = at /\ (e.open <=> f.open)
<1> DEFINE e == [f EXCEPT !.left = f.left - 1, !.got = f.got + 1, !.err = err, !.at = at]
<1>1. f.left - 1 \in 0 .. MaxRows /\ f.got + 1 \in 0 .. MaxRows /\ MaxRows \in Nat
    BY BoundAssumption DEF FrameFits, RowsFit, Frame
<1>2. e \in Frame  BY <1>1 DEF FrameFits, Frame, OpenPlaces
<1>3. /\ e.call = f.call /\ e.at = at /\ e.err = err /\ e.left = f.left - 1 /\ e.got = f.got + 1
      /\ e.open = f.open /\ e.inline = f.inline /\ e.paths = f.paths /\ e.level = f.level
    BY DEF FrameFits, Frame
<1> HIDE DEF e
<1>4. RowsFit(e)  BY <1>1, <1>3 DEF FrameFits, RowsFit, OpenPlaces, Frame
<1>5. PathFits(e)  BY <1>3 DEF FrameFits, PathFits
<1>6. Follows(f, e)  BY <1>2, <1>3, <1>4, <1>5 DEF Follows, FrameFits
<1>7. QED  BY <1>3, <1>6 DEF e

\* The rows are closed.
Closed(f, err, at) == [f EXCEPT !.open = FALSE, !.err = err, !.at = at]

LEMMA ClosedFits ==
    ASSUME NEW f, FrameFits(f), f.at = "rows", NEW err \in Errors, NEW at \in {"preload", "return"},
           NEW e, e = Closed(f, err, at)
    PROVE  Follows(f, e) /\ e.err = err /\ ~e.open /\ f.open
<1>1. e \in Frame  BY DEF FrameFits, Frame, Closed
<1>2. /\ e.call = f.call /\ e.at = at /\ e.err = err /\ e.left = f.left /\ e.got = f.got
      /\ e.open = FALSE /\ e.inline = f.inline /\ e.paths = f.paths /\ e.level = f.level
    BY DEF FrameFits, Frame, Closed
<1>3. RowsFit(e) /\ f.open  BY <1>2 DEF FrameFits, RowsFit, OpenPlaces, Frame
<1>4. PathFits(e)  BY <1>2 DEF FrameFits, PathFits
<1>5. Follows(f, e)  BY <1>1, <1>2, <1>3, <1>4 DEF Follows, FrameFits
<1>6. QED  BY <1>2, <1>3, <1>5

\* A method has run, or the preloads are over.
Goes(from, to) == \/ from \in {"scanned", "again"} /\ to \in {"rows", "again"}
                  \/ from \in {"after", "preload"} /\ to \in {"after", "return"}

LEMMA OnwardFits ==
    ASSUME NEW f, FrameFits(f), NEW err \in Errors,
           NEW at \in {"rows", "again", "after", "return"}, Goes(f.at, at),
           NEW e, e = [f EXCEPT !.err = err, !.at = at]
    PROVE  Follows(f, e)
<1>1. e \in Frame  BY DEF FrameFits, Frame, Goes
<1>2. /\ e.call = f.call /\ e.at = at /\ e.err = err /\ e.left = f.left /\ e.got = f.got
      /\ e.open = f.open /\ e.inline = f.inline /\ e.paths = f.paths /\ e.level = f.level
    BY DEF FrameFits, Frame
<1>3. RowsFit(e)  BY <1>2 DEF FrameFits, RowsFit, OpenPlaces, Goes
<1>4. PathFits(e)  BY <1>2 DEF FrameFits, PathFits
<1>5. QED  BY <1>1, <1>2, <1>3, <1>4 DEF Follows, FrameFits

\* The next field of the path, or the next path.
LEMMA AdvanceFits ==
    ASSUME NEW f, FrameFits(f), f.at = "preload", f.paths # <<>>
    PROVE  Follows(f, Advance(f)) /\ Advance(f).err = f.err /\ (Advance(f).open <=> f.open)
<1> DEFINE path == Head(f.paths)
           c == [f EXCEPT !.level = @ + 1, !.done = @ \cup {Prefix(path, f.level + 1)},
                          !.sub = IF f.level = 0 THEN f.err ELSE @]
           t == [f EXCEPT !.level = 0, !.done = @ \cup {path}, !.paths = Tail(@), !.sub = "no"]
<1>0. f \in Frame /\ f.paths \in Paths /\ f.level \in Nat /\ f.done \subseteq Seq(STRING)
    BY DEF FrameFits, Frame
<1>1. /\ path \in Seq(STRING) /\ Len(path) \in Nat /\ Len(path) > 0 /\ Tail(f.paths) \in Paths
      /\ f.level < Len(path)
    BY <1>0, PathHead DEF FrameFits, PathFits
<1>2. CASE f.level + 1 < Len(path)
    <2>1. Prefix(path, f.level + 1) \in Seq(STRING)
        BY <1>0, <1>1, <1>2, SubSeqProperties DEF Prefix
    <2>2. c \in Frame
        <3>1. f.done \cup {Prefix(path, f.level + 1)} \in SUBSET Seq(STRING)  BY <1>0, <2>1
        <3>2. (IF f.level = 0 THEN f.err ELSE f.sub) \in Errors /\ f.level + 1 \in Nat  BY <1>0 DEF Frame
        <3>3. QED  BY <1>0, <3>1, <3>2 DEF Frame
    <2>3. /\ c.call = f.call /\ c.at = f.at /\ c.err = f.err /\ c.left = f.left /\ c.got = f.got
          /\ c.open = f.open /\ c.inline = f.inline /\ c.paths = f.paths /\ c.level = f.level + 1
        BY <1>0 DEF Frame
    <2>4. Advance(f) = c  BY <1>2 DEF Advance
    <2> HIDE DEF c
    <2>5. RowsFit(c)  BY <2>3 DEF FrameFits, RowsFit, OpenPlaces
    <2>6. PathFits(c)  BY <1>2, <2>3 DEF PathFits
    <2>7. Follows(f, c)  BY <2>2, <2>3, <2>5, <2>6 DEF Follows, FrameFits
    <2>8. QED  BY <2>3, <2>4, <2>7
<1>3. CASE ~(f.level + 1 < Len(path))
    <2>2. t \in Frame
        <3>1. f.done \cup {path} \in SUBSET Seq(STRING)  BY <1>0, <1>1
        <3>2. QED  BY <1>0, <1>1, <3>1 DEF Frame, Errors
    <2>3. /\ t.call = f.call /\ t.at = f.at /\ t.err = f.err /\ t.left = f.left /\ t.got = f.got
          /\ t.open = f.open /\ t.inline = f.inline /\ t.paths = Tail(f.paths) /\ t.level = 0
        BY <1>0 DEF Frame
    <2>4. Advance(f) = t  BY <1>3 DEF Advance
    <2> HIDE DEF t
    <2>5. RowsFit(t)  BY <2>3 DEF FrameFits, RowsFit, OpenPlaces
    <2>6. PathFits(t)  BY <1>1, <2>3, PathHead DEF PathFits
    <2>7. Follows(f, t)  BY <2>2, <2>3, <2>5, <2>6 DEF Follows, FrameFits
    <2>8. QED  BY <2>3, <2>4, <2>7
<1>4. QED  BY <1>2, <1>3

\* A frame with another error.
LEMMA ErrFits ==
    ASSUME NEW f, FrameFits(f), NEW err \in Errors
    PROVE  LET e == [f EXCEPT !.err = err]
           IN  /\ Follows(f, e) /\ e.err = err /\ (e.open <=> f.open) /\ e.at = f.at
               /\ e.paths = f.paths /\ e.level = f.level
<1> DEFINE e == [f EXCEPT !.err = err]
<1>1. e \in Frame  BY DEF FrameFits, Frame
<1>2. /\ e.call = f.call /\ e.at = f.at /\ e.err = err /\ e.left = f.left /\ e.got = f.got
      /\ e.open = f.open /\ e.inline = f.inline /\ e.paths = f.paths /\ e.level = f.level
    BY DEF FrameFits, Frame
<1> HIDE DEF e
<1>3. RowsFit(e)  BY <1>2 DEF FrameFits, RowsFit, OpenPlaces
<1>4. PathFits(e)  BY <1>2 DEF FrameFits, PathFits
<1>5. Follows(f, e)  BY <1>1, <1>2, <1>3, <1>4 DEF Follows, FrameFits
<1>6. QED  BY <1>2, <1>5 DEF e

LEMMA SubFits ==
    ASSUME NEW f, FrameFits(f), NEW err \in Errors
    PROVE  LET e == [f EXCEPT !.sub = err]
           IN  /\ Follows(f, e) /\ e.err = f.err /\ (e.open <=> f.open) /\ e.at = f.at
               /\ e.paths = f.paths /\ e.level = f.level
<1> DEFINE e == [f EXCEPT !.sub = err]
<1>1. e \in Frame  BY DEF FrameFits, Frame
<1>2. /\ e.call = f.call /\ e.at = f.at /\ e.err = f.err /\ e.left = f.left /\ e.got = f.got
      /\ e.open = f.open /\ e.inline = f.inline /\ e.paths = f.paths /\ e.level = f.level
    BY DEF FrameFits, Frame
<1> HIDE DEF e
<1>3. RowsFit(e)  BY <1>2 DEF FrameFits, RowsFit, OpenPlaces
<1>4. PathFits(e)  BY <1>2 DEF FrameFits, PathFits
<1>5. Follows(f, e)  BY <1>1, <1>2, <1>3, <1>4 DEF Follows, FrameFits
<1>6. QED  BY <1>2, <1>5 DEF e

LEMMA FollowsTwice ==
    ASSUME NEW f, NEW e, NEW h, Follows(f, e), e.paths = f.paths, Follows(e, h)
    PROVE  Follows(f, h)
BY DEF Follows

\* What a caller makes of the error of the call it has made.
LEMMA MergedFits ==
    ASSUME NEW g, FrameFits(g), Caller(g), NEW c, NEW err \in Errors
    PROVE  LET h == Merged(g, c, err)
           IN  /\ Follows(g, h) /\ (h.open <=> g.open)
               /\ g.err # "no" => h.err # "no"
               /\ h.err # "no" => g.err # "no" \/ err # "no"
               /\ err # "no" => h.err # "no" \/ c = "elem" \/ (g.at = "preload" /\ g.level > 0)
<1>0. g \in Frame /\ g.err \in Errors /\ g.sub \in Errors /\ g.level \in Nat  BY DEF FrameFits, Frame
<1>1. CASE c = "elem"
    <2>1. Merged(g, c, err) = g /\ Follows(g, g)  BY <1>1 DEF Merged, Follows
    <2>2. QED  BY <1>1, <2>1
<1> DEFINE x == IF err # "no" THEN err ELSE g.err
           e == [g EXCEPT !.err = x]
           y == IF err # "no" THEN err ELSE g.sub
           u == [g EXCEPT !.sub = y]
<1>2. x \in Errors /\ (x # "no" <=> g.err # "no" \/ err # "no") /\ y \in Errors  BY <1>0 DEF Errors
<1> HIDE DEF x, y
<1>3. /\ Follows(g, e) /\ e.err = x /\ (e.open <=> g.open) /\ e.at = g.at /\ e.paths = g.paths
      /\ e.level = g.level
    BY <1>2, ErrFits
<1>4. /\ Follows(g, u) /\ u.err = g.err /\ (u.open <=> g.open) /\ u.at = g.at /\ u.paths = g.paths
      /\ u.level = g.level
    BY <1>2, SubFits
<1>5. CASE c # "elem" /\ g.at # "preload"
    <2>1. Merged(g, c, err) = e  BY <1>5 DEF Merged, x
    <2> HIDE DEF e
    <2>2. QED  BY <1>2, <1>3, <2>1
<1>6. CASE c # "elem" /\ g.at = "preload" /\ g.level = 0
    <2>1. Merged(g, c, err) = Advance(e)  BY <1>6 DEF Merged, x
    <2> HIDE DEF e
    <2>2. FrameFits(e) /\ e.paths # <<>>  BY <1>3, <1>6 DEF Follows, Caller
    <2>3. Follows(e, Advance(e)) /\ Advance(e).err = x /\ (Advance(e).open <=> g.open)
        BY <1>3, <1>6, <2>2, AdvanceFits
    <2>4. Follows(g, Advance(e))  BY <1>3, <2>3, FollowsTwice
    <2>5. QED  BY <1>2, <2>1, <2>3, <2>4
<1>7. CASE c # "elem" /\ g.at = "preload" /\ g.level # 0
    <2>1. Merged(g, c, err) = Advance(u) /\ g.level > 0  BY <1>0, <1>7 DEF Merged, y
    <2> HIDE DEF u
    <2>2. FrameFits(u) /\ u.paths # <<>>  BY <1>4, <1>7 DEF Follows, Caller
    <2>3. Follows(u, Advance(u)) /\ Advance(u).err = g.err /\ (Advance(u).open <=> g.open)
        BY <1>4, <1>7, <2>2, AdvanceFits
    <2>4. Follows(g, Advance(u))  BY <1>4, <2>3, FollowsTwice
    <2>5. QED  BY <1>7, <2>1, <2>3, <2>4
<1>8. QED  BY <1>1, <1>5, <1>6, <1>7
-----------------------------------------------------------------------------
(* Steps *)

Reported(p) == out[p] = "ok" /\ faults[p] > 0 => lost[p]
Outs == {"none", "ok", "notfound", "error", "panic"}

\* A step of p leaves the other goroutines alone, p's call in order, and connections accounted for.
StepFits(p) == /\ stack' \in [Proc -> Seq(Frame)] /\ inTx' \in [Proc -> BOOLEAN] /\ lost' \in [Proc -> BOOLEAN]
               /\ out' \in [Proc -> Outs]
               /\ faults' \in [Proc -> 0 .. MaxFaults] /\ calls' \in [Proc -> 0 .. MaxCalls]
               /\ \A q \in Proc \ {p} : /\ stack'[q] = stack[q] /\ faults'[q] = faults[q]
                                        /\ lost'[q] = lost[q] /\ out'[q] = out[q]
               /\ CallFits(p)' /\ Reported(p)'
               /\ free' \in Nat /\ free' + Held' = free + Held

LEMMA StepKeepsIInv ==
    ASSUME IInv, NEW p \in Proc, StepFits(p)
    PROVE  IInv'
<1>1. \A q \in Proc : CallFits(q)'  BY OthersFit DEF IInv, StepFits
<1>2. free' \in Nat /\ free' + Held' = MaxConns /\ Held' \in Nat /\ MaxConns \in Nat
    BY HeldFinitePrime, OpAssumption DEF IInv, StepFits, ConnectionsReturned
<1>3. Typed'  BY <1>2 DEF StepFits, Typed, Outs
<1>4. NoErrorLost'
    <2>1. ASSUME NEW q \in Proc, q # p PROVE Reported(q)'
        BY <2>1 DEF StepFits, Reported, IInv, NoErrorLost
    <2>2. QED  BY <2>1 DEF StepFits, Reported, NoErrorLost
<1>5. QED  BY <1>1, <1>2, <1>3, <1>4 DEF IInv, ConnectionsReturned

\* What may fail.
LEMMA MayFacts ==
    ASSUME Typed, NEW p \in Proc, NEW failed \in BOOLEAN, May(p, failed)
    PROVE  /\ faults' \in [Proc -> 0 .. MaxFaults] /\ \A q \in Proc \ {p} : faults'[q] = faults[q]
           /\ faults[p] \in Nat /\ faults'[p] \in Nat /\ faults'[p] >= faults[p]
           /\ failed => faults'[p] > 0
           /\ ~failed => faults' = faults
<1>1. faults[p] \in 0 .. MaxFaults /\ MaxFaults \in Nat  BY BoundAssumption DEF Typed
<1>2. CASE failed
    <2>1. faults' = [faults EXCEPT ![p] = faults[p] + 1] /\ faults[p] < MaxFaults  BY <1>2 DEF May
    <2>2. faults[p] + 1 \in 0 .. MaxFaults  BY <1>1, <2>1
    <2>3. QED  BY <1>1, <1>2, <2>1, <2>2 DEF Typed
<1>3. CASE ~failed
    <2>1. faults' = [faults EXCEPT ![p] = faults[p]]  BY <1>3 DEF May
    <2>2. faults' = faults  BY <2>1 DEF Typed
    <2>3. QED  BY <1>1, <1>3, <2>2 DEF Typed
<1>4. QED  BY <1>2, <1>3

\* Nothing fails.
LEMMA SameFaults ==
    ASSUME Typed, NEW p \in Proc, UNCHANGED faults
    PROVE  /\ faults' \in [Proc -> 0 .. MaxFaults] /\ \A q \in Proc \ {p} : faults'[q] = faults[q]
           /\ faults[p] \in Nat /\ faults'[p] \in Nat /\ faults'[p] >= faults[p]
BY DEF Typed

\* A call that is over in p, its connections given back.
LEMMA PanicStep ==
    ASSUME IInv, NEW p \in Proc, Panic(p), UNCHANGED <<inTx, calls>>,
           faults' \in [Proc -> 0 .. MaxFaults], \A q \in Proc \ {p} : faults'[q] = faults[q],
           lost' \in [Proc -> BOOLEAN], \A q \in Proc \ {p} : lost'[q] = lost[q]
    PROVE  StepFits(p)
<1>1. stack' = [stack EXCEPT ![p] = <<>>] /\ out' = [out EXCEPT ![p] = "panic"]  BY DEF Panic
<1>2. stack' \in [Proc -> Seq(Frame)] /\ out' \in [Proc -> Outs]
    <2>1. <<>> \in Seq(Frame)  OBVIOUS
    <2>2. QED  BY <1>1, <2>1 DEF IInv, Typed, Outs
<1>3. /\ stack'[p] = <<>> /\ out'[p] = "panic"
      /\ \A q \in Proc \ {p} : stack'[q] = stack[q] /\ out'[q] = out[q]
    BY <1>1 DEF IInv, Typed
<1>4. CallFits(p)' /\ Reported(p)'  BY <1>3, IdleFits DEF Reported
<1>5. free \in Nat /\ Held \in Nat /\ Held' \in Nat  BY HeldFinite, HeldFinitePrime DEF IInv, Typed
<1>6. free' \in Nat /\ free' + Held' = free + Held
    <2>1. CASE inTx[p]
        <3>1. \A q \in Proc : \A i \in 0 .. MaxDepth : HeldAt(q, i)' <=> HeldAt(q, i)
            BY <1>3, <2>1 DEF HeldAt, Depth
        <3>2. Held' = Held  BY <3>1, HeldSame
        <3>3. QED  BY <1>5, <2>1, <3>2 DEF Panic
    <2>2. CASE ~inTx[p]
        <3>1. Held = Held' + Opened(p) /\ Opened(p) \in Nat
            BY <1>1, <2>2, HeldUnwound DEF IInv, CallFits
        <3>2. free' = free + Opened(p)  BY <2>2 DEF Panic
        <3>3. QED  BY <1>5, <3>1, <3>2
    <2>3. QED  BY <2>1, <2>2
<1>7. QED  BY <1>2, <1>3, <1>4, <1>6 DEF StepFits, IInv, Typed

\* The frame e in the place of p's innermost one.
LEMMA PutStep ==
    ASSUME IInv, NEW p \in Proc, Busy(p), NEW e, Put(p, e), Follows(Top(p), e), ErrorsKept(p, Depth(p), e),
           UNCHANGED <<inTx, out, calls>>,
           faults' \in [Proc -> 0 .. MaxFaults], \A q \in Proc \ {p} : faults'[q] = faults[q],
           lost' \in [Proc -> BOOLEAN], \A q \in Proc \ {p} : lost'[q] = lost[q],
           \/ UNCHANGED free /\ (inTx[p] \/ (e.open <=> Top(p).open))
           \/ ~inTx[p] /\ free > 0 /\ free' = free - 1 /\ e.open /\ ~Top(p).open
           \/ ~inTx[p] /\ free' = free + 1 /\ ~e.open /\ Top(p).open
    PROVE  StepFits(p)
<1>1. Typed /\ CallFits(p) /\ e \in Frame  BY DEF IInv, Follows, FrameFits
<1>2. CallFits(p)'  BY <1>1, PutFits
<1>3. stack' \in [Proc -> Seq(Frame)] /\ \A q \in Proc \ {p} : stack'[q] = stack[q]
    BY <1>1, PutFacts DEF Changes, Typed
<1>4. free \in Nat /\ Held \in Nat  BY HeldFinite DEF IInv, Typed
<1>5. Depth(p) <= MaxDepth  BY <1>1 DEF CallFits
<1>6. /\ inTx[p] \/ (e.open <=> Top(p).open) => Held' = Held
      /\ ~inTx[p] /\ e.open /\ ~Top(p).open => Held' = Held + 1
      /\ ~inTx[p] /\ ~e.open /\ Top(p).open => Held' = Held - 1
    BY <1>1, <1>5, PutHolds
<1>7. free' \in Nat /\ free' + Held' = free + Held  BY <1>4, <1>6
<1>8. Reported(p)'  BY <1>1 DEF Reported, ErrorsKept, CallFits, Kept
<1>9. QED  BY <1>1, <1>2, <1>3, <1>7, <1>8 DEF StepFits, Typed, Outs

\* p's innermost frame, e now, makes a call.
LEMMA PushStep ==
    ASSUME IInv, NEW p \in Proc, Busy(p), Depth(p) < MaxDepth,
           NEW e, NEW g, Push(p, e, g), Follows(Top(p), e), Caller(e), ErrorsKept(p, Depth(p), e),
           FrameFits(g), Nested(g), g.call = "m2m" => Depth(p) + 1 < MaxDepth,
           g.err # "no" => e.err # "no" \/ LongIn(e.paths),
           e.open <=> Top(p).open, ~g.open, UNCHANGED <<inTx, free, out, lost, calls>>,
           faults' \in [Proc -> 0 .. MaxFaults], \A q \in Proc \ {p} : faults'[q] = faults[q]
    PROVE  StepFits(p)
<1>1. Typed /\ CallFits(p) /\ e \in Frame /\ g \in Frame  BY DEF IInv, Follows, FrameFits
<1>2. CallFits(p)'  BY <1>1, PushFits
<1>3. stack' \in [Proc -> Seq(Frame)] /\ \A q \in Proc \ {p} : stack'[q] = stack[q]
    BY <1>1, PushFacts DEF Changes, Typed
<1>4. free \in Nat  BY DEF IInv, Typed
<1>5. Held' = Held  BY <1>1, PushHolds
<1>6. Reported(p)'  BY <1>1 DEF Reported, ErrorsKept, CallFits, Kept
<1>7. QED  BY <1>1, <1>2, <1>3, <1>4, <1>5, <1>6 DEF StepFits, Typed, Outs

LEMMA TopFits ==
    ASSUME IInv, NEW p \in Proc, Busy(p)
    PROVE  /\ Typed /\ CallFits(p) /\ Depth(p) \in Nat /\ Depth(p) > 0 /\ Depth(p) <= MaxDepth
           /\ Top(p) = stack[p][Depth(p)] /\ FrameFits(Top(p)) /\ Top(p).err \in Errors
           /\ Depth(p) # 1 => Nested(Top(p))
           /\ Top(p).call = "m2m" => Depth(p) < MaxDepth
           /\ lost \in [Proc -> BOOLEAN]
<1>1. Typed /\ CallFits(p) /\ Len(stack[p]) = Depth(p)  BY DEF IInv, Depth
<1>2. Depth(p) \in Nat /\ Depth(p) > 0 /\ Top(p) = stack[p][Depth(p)]  BY <1>1, TopFacts DEF Typed
<1>3. FitsAt(Top(p), Depth(p), Depth(p)) /\ Depth(p) <= MaxDepth  BY <1>1, <1>2 DEF CallFits, StackFits
<1>4. FrameFits(Top(p)) /\ Top(p).call = "m2m" => Depth(p) < MaxDepth  BY <1>3 DEF FitsAt
<1>5. Depth(p) # 1 => Nested(Top(p))  BY <1>2, <1>3 DEF FitsAt
<1>6. FrameFits(Top(p)) /\ Top(p).err \in Errors  BY <1>3 DEF FitsAt, FrameFits, Frame
<1>7. QED  BY <1>1, <1>2, <1>3, <1>4, <1>5, <1>6 DEF Typed

LEMMA BuildStep ==
    ASSUME IInv, NEW p \in Proc, Build(p) PROVE StepFits(p)
<1>1. Busy(p) /\ Top(p).at = "build" /\ UNCHANGED <<inTx, calls>>  BY DEF Build, At
<1> DEFINE f == Top(p)
           bad == IF f.err = "no" THEN Inlined(f.inline) ELSE "no"
           Err(failed) == IF failed \/ (bad = "error" /\ f.call # "find") THEN "error" ELSE f.err
<1>2. PICK failed \in BOOLEAN :
         /\ May(p, failed)
         /\ lost' = [lost EXCEPT ![p] = @ \/ (bad = "error" /\ f.call = "find")]
         /\ IF bad = "panic" \/ (Err(failed) # "no" /\ f.call \in {"pluck", "pluckFirst", "count", "m2m"})
            THEN Panic(p)
            ELSE /\ Put(p, [f EXCEPT !.err = Err(failed),
                                     !.at = IF Err(failed) # "no" THEN "return"
                                            ELSE IF f.call = "elem" THEN "preload" ELSE "query"])
                 /\ UNCHANGED <<free, out>>
    <2>1. f \in Frame  BY <1>1, TopFits DEF FrameFits
    <2>2. \A x, y : [[f EXCEPT !.err = x] EXCEPT !.at = y] = [f EXCEPT !.err = x, !.at = y]  OBVIOUS
    <2>3. \A x : [f EXCEPT !.err = x].err = x  BY <2>1 DEF Frame
    <2>4. QED  BY <2>2, <2>3 DEF Build
<1>3. PICK b \in BOOLEAN : lost' = [lost EXCEPT ![p] = b] /\ (lost[p] => b)
    <2>1. (lost[p] \/ (bad = "error" /\ f.call = "find")) \in BOOLEAN  BY Zenon
    <2>2. QED  BY <1>2, <2>1
<1>4. /\ faults' \in [Proc -> 0 .. MaxFaults] /\ \A q \in Proc \ {p} : faults'[q] = faults[q]
      /\ faults[p] \in Nat /\ faults'[p] \in Nat /\ faults'[p] >= faults[p]
      /\ failed => faults'[p] > 0
      /\ ~failed => faults' = faults
    BY <1>1, <1>2, TopFits, MayFacts
<1>5. /\ lost' \in [Proc -> BOOLEAN] /\ \A q \in Proc \ {p} : lost'[q] = lost[q]
      /\ lost[p] => lost'[p]
    BY <1>1, <1>3, TopFits
<1>6. CASE Panic(p)  BY <1>1, <1>4, <1>5, <1>6, PanicStep
<1>7. CASE ~Panic(p)
    <2> DEFINE x == Err(failed)
               y == IF x # "no" THEN "return" ELSE IF f.call = "elem" THEN "preload" ELSE "query"
               e == [f EXCEPT !.err = x, !.at = y]
    <2>1. Put(p, e) /\ UNCHANGED <<free, out>>  BY <1>2, <1>7
    <2>2. f.err \in Errors /\ FrameFits(f) /\ stack[p][Depth(p)] = f  BY <1>1, TopFits
    <2>3. /\ x \in Errors
          /\ f.err # "no" => x # "no"
          /\ failed => x # "no"
          /\ x # "no" => f.err # "no" \/ failed \/ bad = "error"
        BY <2>2 DEF Errors
    <2>4. bad = "error" => Depth(p) = 1
        <3>1. Inlined(<<>>) = "no"  BY DEF Inlined
        <3>2. QED  BY <1>1, <3>1, TopFits DEF Nested
    <2>5. y \in {"return", "preload", "query"} /\ (y = "query" => f.call # "elem")  OBVIOUS
    <2>6. f.at = "build"  BY <1>1
    <2>7. e = Built(f, x, y)  BY DEF Built
    <2> HIDE DEF x, y, bad, f, e
    <2>8. /\ FrameFits(f) /\ f.at = "build" /\ x \in Errors /\ y \in {"return", "preload", "query"}
          /\ y = "query" => f.call # "elem"
          /\ e = Built(f, x, y)
        BY <2>2, <2>3, <2>5, <2>6, <2>7
    <2>9. Follows(f, e) /\ e.err = x /\ (e.open <=> f.open)
        BY <2>8, BuiltFits
    <2>10. e.err = x /\ e.open = f.open  BY <2>8 DEF Built, FrameFits, Frame
    <2>11. ErrorsKept(p, Depth(p), e)  BY <1>4, <1>5, <2>1, <2>2, <2>3, <2>4, <2>10 DEF ErrorsKept
    <2>12. QED  BY <1>1, <1>4, <1>5, <2>1, <2>9, <2>10, <2>11, PutStep DEF f
<1>8. QED  BY <1>6, <1>7

LEMMA StatementStep ==
    ASSUME IInv, NEW p \in Proc, Statement(p) PROVE StepFits(p)
<1>1. Busy(p) /\ Top(p).at = "query" /\ UNCHANGED <<inTx, out, lost, calls>>  BY DEF Statement, At
<1> DEFINE f == Top(p)
<1>2. PICK failed \in BOOLEAN, n \in 0 .. MaxRows :
          /\ May(p, failed)
          /\ Put(p, IF failed THEN [f EXCEPT !.err = "error", !.at = "return"]
                    ELSE [f EXCEPT !.left = n, !.open = TRUE, !.at = "rows"])
          /\ free' = IF failed \/ inTx[p] THEN free ELSE free - 1
          /\ inTx[p] \/ free > 0
    BY DEF Statement
<1>3. /\ faults' \in [Proc -> 0 .. MaxFaults] /\ \A q \in Proc \ {p} : faults'[q] = faults[q]
      /\ faults[p] \in Nat /\ faults'[p] \in Nat /\ faults'[p] >= faults[p]
      /\ failed => faults'[p] > 0
      /\ ~failed => faults' = faults
    BY <1>1, <1>2, TopFits, MayFacts
<1>4. FrameFits(f) /\ f = stack[p][Depth(p)] /\ lost \in [Proc -> BOOLEAN]  BY <1>1, TopFits
<1>5. CASE failed
    <2> DEFINE e == [f EXCEPT !.err = "error", !.at = "return"]
    <2>1. Put(p, e) /\ UNCHANGED free  BY <1>2, <1>5
    <2>2. Follows(f, e) /\ e.err # "no" /\ (e.open <=> f.open)  BY <1>1, <1>4, FailedFits
    <2> HIDE DEF e
    <2>3. ErrorsKept(p, Depth(p), e)  BY <1>1, <1>3, <1>4, <1>5, <2>2 DEF ErrorsKept
    <2>4. QED  BY <1>1, <1>3, <1>4, <2>1, <2>2, <2>3, PutStep
<1>6. CASE ~failed
    <2> DEFINE e == [f EXCEPT !.left = n, !.open = TRUE, !.at = "rows"]
    <2>1. Put(p, e) /\ free' = IF inTx[p] THEN free ELSE free - 1  BY <1>2, <1>6
    <2>2. Follows(f, e) /\ e.err = f.err /\ e.open /\ ~f.open  BY <1>1, <1>4, OpenedFits
    <2> HIDE DEF e
    <2>3. ErrorsKept(p, Depth(p), e)  BY <1>1, <1>3, <1>4, <1>6, <2>2 DEF ErrorsKept
    <2>4. \/ UNCHANGED free /\ inTx[p]
          \/ ~inTx[p] /\ free > 0 /\ free' = free - 1
        BY <1>2, <2>1
    <2>5. QED  BY <1>1, <1>3, <1>4, <2>1, <2>2, <2>3, <2>4, PutStep
<1>7. QED  BY <1>5, <1>6

LEMMA ScanStep ==
    ASSUME IInv, NEW p \in Proc, Scan(p) PROVE StepFits(p)
<1>1. Busy(p) /\ Top(p).at = "rows" /\ Top(p).left > 0 /\ UNCHANGED <<inTx, free, out, lost, calls>>
    BY SMTT(30) DEF Scan, At
<1> DEFINE f == Top(p)
           row(err) == [f EXCEPT !.left = @ - 1, !.got = @ + 1, !.err = err]
<1>2. PICK failed \in BOOLEAN :
          /\ May(p, failed)
          /\ LET e == row(IF failed THEN "error" ELSE f.err)
             IN  IF e.call = "m2m"
                 THEN Push(p, e, NewFrame("elem", e.err, e.auto,
                                    IF e.auto /\ Depth(p) + 1 < MaxDepth THEN AutoPaths ELSE <<>>, <<>>))
                 ELSE Put(p, [e EXCEPT !.at = IF e.call \in {"find", "one"} /\ ~failed THEN "scanned" ELSE "rows"])
    BY DEF Scan
<1>3. /\ faults' \in [Proc -> 0 .. MaxFaults] /\ \A q \in Proc \ {p} : faults'[q] = faults[q]
      /\ faults[p] \in Nat /\ faults'[p] \in Nat /\ faults'[p] >= faults[p]
      /\ failed => faults'[p] > 0
      /\ ~failed => faults' = faults
    BY <1>1, <1>2, TopFits, MayFacts
<1>4. /\ FrameFits(f) /\ f = stack[p][Depth(p)] /\ lost \in [Proc -> BOOLEAN] /\ f.err \in Errors
      /\ f \in Frame
    BY <1>1, TopFits DEF FrameFits
<1> DEFINE x == IF failed THEN "error" ELSE f.err
<1>5. x \in Errors /\ (f.err # "no" => x # "no") /\ (x # "no" => f.err # "no" \/ failed) /\ (failed => x # "no")
    BY <1>4 DEF Errors
<1>6. ASSUME NEW y \in OpenPlaces
      PROVE  LET e == [f EXCEPT !.left = f.left - 1, !.got = f.got + 1, !.err = x, !.at = y]
             IN  Follows(f, e) /\ e.err = x /\ e.at = y /\ (e.open <=> f.open)
    <2> HIDE DEF x
    <2>1. QED  BY <1>1, <1>4, <1>5, ScannedFits
<1>7. CASE f.call = "m2m"
    <2> DEFINE e == row(x)
               paths == IF e.auto /\ Depth(p) + 1 < MaxDepth THEN AutoPaths ELSE <<>>
               g == NewFrame("elem", e.err, e.auto, paths, <<>>)
    <2>1. e.call = f.call /\ e.err = x /\ e.auto \in BOOLEAN  BY <1>4 DEF Frame
    <2>2. Push(p, e, g)  BY <1>2, <1>7, <2>1
    <2>3. e = [f EXCEPT !.left = f.left - 1, !.got = f.got + 1, !.err = x, !.at = "rows"]
        <3>1. f.at = "rows" /\ f = [f EXCEPT !.at = "rows"]  BY <1>1, <1>4 DEF Frame
        <3>2. QED  BY <1>4, <3>1 DEF Frame
    <2>4. Follows(f, e) /\ e.at = "rows" /\ (e.open <=> f.open)  BY <1>6, <2>3 DEF OpenPlaces
    <2>5. MaxRows > 0  BY <1>1, <1>4, BoundAssumption DEF Frame
    <2>6. paths \in Seq(ShortPath)  BY AutoShort
    <2>7. FrameFits(g) /\ Nested(g) /\ g.call = "elem" /\ g.err = e.err /\ ~g.open
        <3>1. e.err \in Errors /\ e.auto \in BOOLEAN /\ paths \in Seq(ShortPath)  BY <1>5, <2>1, <2>6
        <3> HIDE DEF e, paths
        <3>2. QED  BY <2>5, <3>1, NestedFrameFits
    <2> HIDE DEF e, g, x
    <2>8. ErrorsKept(p, Depth(p), e)  BY <1>1, <1>3, <1>4, <1>5, <2>1 DEF ErrorsKept
    <2>9. Caller(e)  BY <2>4 DEF Caller
    <2>10. Depth(p) < MaxDepth  BY <1>1, <1>7, TopFits
    <2>11. QED  BY <1>1, <1>3, <2>2, <2>4, <2>7, <2>8, <2>9, <2>10, PushStep
<1>8. CASE f.call # "m2m"
    <2> DEFINE y == IF f.call \in {"find", "one"} /\ ~failed THEN "scanned" ELSE "rows"
               e == [f EXCEPT !.left = f.left - 1, !.got = f.got + 1, !.err = x, !.at = y]
    <2>1. row(x).call = f.call  BY <1>4 DEF Frame
    <2>2. Put(p, e)  BY <1>2, <1>8, <2>1
    <2>3. y \in OpenPlaces  BY DEF OpenPlaces
    <2> HIDE DEF y
    <2>4. Follows(f, e) /\ e.err = x /\ (e.open <=> f.open)  BY <1>6, <2>3
    <2> HIDE DEF e, x
    <2>5. ErrorsKept(p, Depth(p), e)  BY <1>1, <1>3, <1>4, <1>5, <2>4 DEF ErrorsKept
    <2>6. QED  BY <1>1, <1>3, <1>4, <2>2, <2>4, <2>5, PutStep
<1>9. QED  BY <1>7, <1>8

LEMMA EndRowsStep ==
    ASSUME IInv, NEW p \in Proc, EndRows(p) PROVE StepFits(p)
<1>1. Busy(p) /\ Top(p).at = "rows" /\ UNCHANGED <<inTx, out, calls>>  BY DEF EndRows, At
<1> DEFINE f == Top(p)
           Unread(failed) == failed /\ f.call = "pluckFirst"
           Err(failed) == IF failed /\ ~Unread(failed) THEN "error" ELSE Found(f)
<1>2. PICK failed \in BOOLEAN :
          /\ May(p, failed)
          /\ lost' = [lost EXCEPT ![p] = @ \/ (Unread(failed) /\ f.got > 0)]
          /\ LET e == [f EXCEPT !.open = FALSE, !.err = Err(failed)]
             IN  Put(p, [e EXCEPT !.at = IF f.call \in {"find", "one"} THEN After(e, "preload") ELSE "return"])
    BY <1>1 DEF EndRows
<1>3. /\ faults' \in [Proc -> 0 .. MaxFaults] /\ \A q \in Proc \ {p} : faults'[q] = faults[q]
      /\ faults[p] \in Nat /\ faults'[p] \in Nat /\ faults'[p] >= faults[p]
      /\ failed => faults'[p] > 0
      /\ ~failed => faults' = faults
    BY <1>1, <1>2, TopFits, MayFacts
<1>4. /\ FrameFits(f) /\ f = stack[p][Depth(p)] /\ lost \in [Proc -> BOOLEAN] /\ f.err \in Errors
      /\ f.call \in {"one", "pluckFirst", "count"} => Depth(p) = 1
      /\ f.got \in Nat
    <2>1. FrameFits(f)  BY <1>1, TopFits
    <2>2. f.got \in Nat  BY <2>1, BoundAssumption DEF FrameFits, Frame
    <2>3. QED  BY <1>1, <2>1, <2>2, TopFits DEF Nested
<1>14. /\ lost' \in [Proc -> BOOLEAN] /\ \A q \in Proc \ {p} : lost'[q] = lost[q]
       /\ lost[p] => lost'[p]
       /\ Unread(failed) /\ f.got > 0 => lost'[p]
    <2> DEFINE b == lost[p] \/ (Unread(failed) /\ f.got > 0)
    <2>1. b \in BOOLEAN /\ (lost[p] => b) /\ (Unread(failed) /\ f.got > 0 => b)  BY Zenon
    <2>2. lost' = [lost EXCEPT ![p] = b]  BY <1>2
    <2> HIDE DEF b
    <2>3. lost'[p] = b  BY <1>4, <2>2
    <2>4. QED  BY <1>4, <2>1, <2>2, <2>3
<1> DEFINE x == Err(failed)
           w == [f EXCEPT !.open = FALSE, !.err = x]
           y == IF f.call \in {"find", "one"} THEN After(w, "preload") ELSE "return"
           e == [w EXCEPT !.at = y]
<1>5. /\ x \in Errors
      /\ f.err # "no" => x # "no"
      /\ failed => x # "no" \/ lost'[p]
      /\ x # "no" => f.err # "no" \/ failed \/ Depth(p) = 1
    <2>1. CASE failed /\ ~Unread(failed)  BY <2>1 DEF Errors
    <2>2. CASE ~(failed /\ ~Unread(failed)) /\ f.got > 0  BY <1>4, <1>14, <2>2 DEF Errors, Found
    <2>3. CASE ~(failed /\ ~Unread(failed)) /\ ~(f.got > 0)  BY <1>4, <2>3 DEF Errors, Found
    <2>4. QED  BY <2>1, <2>2, <2>3
<1>6. y \in {"preload", "return"}  BY DEF After
<1>7. Put(p, e)  BY <1>2
<1>8. free' = IF inTx[p] THEN free ELSE free + 1  BY DEF EndRows
<1> HIDE DEF x, y
<1>9. e = Closed(f, x, y)  BY SMTT(30) DEF Closed
<1> HIDE DEF e
<1>10. Follows(f, e) /\ e.err = x /\ ~e.open /\ f.open
    <2>1. FrameFits(f) /\ f.at = "rows" /\ x \in Errors /\ y \in {"preload", "return"}
        BY <1>1, <1>4, <1>5, <1>6
    <2> HIDE DEF f
    <2>2. QED  BY <1>9, <2>1, ClosedFits
<1>11. ErrorsKept(p, Depth(p), e)  BY <1>1, <1>3, <1>4, <1>5, <1>10, <1>14 DEF ErrorsKept
<1>12. \/ UNCHANGED free /\ inTx[p]
       \/ ~inTx[p] /\ free' = free + 1
    BY <1>8
<1>13. QED  BY <1>1, <1>3, <1>4, <1>7, <1>10, <1>11, <1>12, <1>14, PutStep

LEMMA MethodStep ==
    ASSUME IInv, NEW p \in Proc, Method(p) PROVE StepFits(p)
<1> DEFINE f == Top(p)
           y == Onward(f)
<1>1. Busy(p) /\ f.at \in {"scanned", "again", "after"} /\ UNCHANGED <<inTx, free, out, lost, calls>>
    BY DEF Method
<1>2. /\ Typed /\ FrameFits(f) /\ f = stack[p][Depth(p)] /\ lost \in [Proc -> BOOLEAN] /\ f.err \in Errors
      /\ f \in Frame
    BY <1>1, TopFits DEF FrameFits
<1>3. ASSUME NEW failed \in BOOLEAN, May(p, failed),
             LET e == [f EXCEPT !.err = IF failed THEN "error" ELSE @] IN Put(p, [e EXCEPT !.at = Onward(e)])
      PROVE  StepFits(p)
    <2> DEFINE x == IF failed THEN "error" ELSE f.err
               w == [f EXCEPT !.err = x]
               z == Onward(w)
               e == [w EXCEPT !.at = z]
    <2>1. /\ faults' \in [Proc -> 0 .. MaxFaults] /\ \A q \in Proc \ {p} : faults'[q] = faults[q]
          /\ faults[p] \in Nat /\ faults'[p] \in Nat /\ faults'[p] >= faults[p]
          /\ failed => faults'[p] > 0
          /\ ~failed => faults' = faults
        BY <1>2, <1>3, MayFacts
    <2>2. /\ x \in Errors
          /\ f.err # "no" => x # "no"
          /\ failed => x # "no"
          /\ x # "no" => f.err # "no" \/ failed
        BY <1>2 DEF Errors
    <2>3. Goes(f.at, z) /\ z \in {"rows", "again", "after", "return"}
        <3>1. w.at = f.at  BY <1>2 DEF Frame
        <3> HIDE DEF w
        <3>2. QED  BY <1>1, <3>1 DEF Onward, Goes
    <2>4. Put(p, e)  BY <1>3
    <2> HIDE DEF x, z
    <2>5. e = [f EXCEPT !.err = x, !.at = z]  OBVIOUS
    <2>6. Follows(f, e) /\ e.err = x /\ (e.open <=> f.open)
        <3> HIDE DEF e, f
        <3>0. /\ FrameFits(f) /\ x \in Errors /\ z \in {"rows", "again", "after", "return"} /\ Goes(f.at, z)
              /\ e = [f EXCEPT !.err = x, !.at = z]
            BY <1>2, <2>2, <2>3, <2>5
        <3>1. Follows(f, e)  BY <3>0, OnwardFits
        <3>2. e.err = x /\ e.open = f.open  BY <1>2, <2>5 DEF Frame
        <3>3. QED  BY <3>1, <3>2
    <2> HIDE DEF e
    <2>7. ErrorsKept(p, Depth(p), e)  BY <1>1, <1>2, <2>1, <2>2, <2>6 DEF ErrorsKept
    <2>8. QED  BY <1>1, <1>2, <2>1, <2>4, <2>6, <2>7, PutStep
<1>4. ASSUME Depth(p) < MaxDepth, UNCHANGED faults,
             Push(p, [f EXCEPT !.at = y], NewFrame("find", f.err, f.auto, <<>>, <<>>))
      PROVE  StepFits(p)
    <2> DEFINE e == [f EXCEPT !.at = y]
               paths == <<>>
               g == NewFrame("find", f.err, f.auto, paths, <<>>)
    <2>1. /\ faults' \in [Proc -> 0 .. MaxFaults] /\ \A q \in Proc \ {p} : faults'[q] = faults[q]
          /\ faults[p] \in Nat /\ faults'[p] \in Nat /\ faults'[p] >= faults[p]
        BY <1>2, <1>4, SameFaults
    <2>2. y \in {"rows", "again", "return"} /\ Goes(f.at, y) /\ y \in {"rows", "again", "after", "return"}
        BY <1>1 DEF Onward, Goes
    <2> HIDE DEF y
    <2>3. e = [f EXCEPT !.err = f.err, !.at = y]  BY <1>2 DEF Frame
    <2> HIDE DEF e
    <2>4. Follows(f, e) /\ e.err = f.err /\ e.at = y /\ (e.open <=> f.open)
        <3> HIDE DEF f
        <3>0. /\ FrameFits(f) /\ f.err \in Errors /\ y \in {"rows", "again", "after", "return"} /\ Goes(f.at, y)
              /\ e = [f EXCEPT !.err = f.err, !.at = y]
            BY <1>2, <2>2, <2>3
        <3>1. Follows(f, e)  BY <3>0, OnwardFits
        <3>2. e.err = f.err /\ e.at = y /\ e.open = f.open  BY <1>2, <2>3 DEF Frame
        <3>3. QED  BY <3>1, <3>2
    <2>5. f.auto \in BOOLEAN /\ paths \in Seq(ShortPath)  BY <1>2, AutoShort DEF Frame
    <2>6. Push(p, e, g)  BY <1>4 DEF e
    <2> HIDE DEF paths
    <2>7. FrameFits(g) /\ Nested(g) /\ g.call = "find" /\ g.err = f.err /\ ~g.open
        BY <1>2, <2>5, NestedFrameFits
    <2> HIDE DEF g
    <2>8. ErrorsKept(p, Depth(p), e)  BY <1>1, <1>2, <1>4, <2>1, <2>4 DEF ErrorsKept
    <2>9. Caller(e)  BY <2>2, <2>4 DEF Caller
    <2>10. QED  BY <1>1, <1>4, <2>1, <2>4, <2>6, <2>7, <2>8, <2>9, PushStep
<1>5. QED  BY <1>3, <1>4 DEF Method

\* Preloads.
LEMMA InPreloadFacts ==
    ASSUME IInv, NEW p \in Proc, NEW done, InPreload(p, done) \/ (At(p, "preload") /\ Top(p).paths # <<>>)
    PROVE  /\ Busy(p) /\ Top(p).at = "preload" /\ Top(p).paths # <<>> /\ Top(p).paths \in Paths
           /\ Top(p).level \in Nat /\ Top(p).level < Len(Head(Top(p).paths))
           /\ Len(Head(Top(p).paths)) \in Nat
           /\ Len(Head(Top(p).paths)) > 1 => LongIn(Top(p).paths) /\ Depth(p) = 1
           /\ Depth(p) # 1 => Relation(Top(p)) \in Many \cup M2M
<1>1. Busy(p) /\ Top(p).at = "preload" /\ Top(p).paths # <<>>  BY DEF InPreload, At
<1>2. FrameFits(Top(p)) /\ (Depth(p) # 1 => Nested(Top(p)))  BY <1>1, TopFits
<1>3. /\ Top(p).paths \in Paths /\ Top(p).level \in Nat
      /\ Top(p).level < Len(Head(Top(p).paths))
    BY <1>1, <1>2 DEF FrameFits, Frame, PathFits
<1>4. /\ Len(Head(Top(p).paths)) \in Nat /\ Head(Top(p).paths) = Top(p).paths[1]
      /\ 1 \in 1 .. Len(Top(p).paths)
    BY <1>1, <1>3, PathHead
<1>5. Len(Head(Top(p).paths)) > 1 => LongIn(Top(p).paths) /\ Depth(p) = 1
    BY <1>2, <1>4, NestedShort DEF LongIn
<1>6. ASSUME Depth(p) # 1 PROVE Relation(Top(p)) \in Many \cup M2M
    <2>1. Top(p).paths \in Seq(ShortPath)  BY <1>2, <1>6 DEF Nested
    <2>2. Top(p).paths[1] \in ShortPath  BY <1>4, <2>1, ElementOfSeq
    <2>3. PICK r \in Many \cup M2M : Head(Top(p).paths) = <<r>>  BY <1>4, <2>2 DEF ShortPath
    <2>4. Len(<<r>>) = 1  OBVIOUS
    <2>5. Top(p).level = 0
        <3> DEFINE l == Top(p).level
                   h == Head(Top(p).paths)
        <3>1. l \in Nat /\ l < Len(h) /\ h = <<r>>  BY <1>3, <2>3
        <3> HIDE DEF l, h
        <3>2. l < 1  BY <2>4, <3>1
        <3>3. l = 0  BY <3>1, <3>2
        <3>4. QED  BY <3>3 DEF l
    <2>6. QED  BY <2>3, <2>5 DEF Relation
<1>7. QED  BY <1>1, <1>3, <1>4, <1>5, <1>6

LEMMA PreloadNothingStep ==
    ASSUME IInv, NEW p \in Proc, PreloadNothing(p) PROVE StepFits(p)
<1> DEFINE f == Top(p)
           e == Advance(f)
<1>1. /\ InPreload(p, TRUE) \/ InPreload(p, FALSE)
      /\ Put(p, e) /\ UNCHANGED <<inTx, free, out, faults, lost, calls>>
    BY DEF PreloadNothing
<1>2. Busy(p) /\ f.at = "preload" /\ f.paths # <<>>  BY <1>1, InPreloadFacts
<1>3. /\ Typed /\ FrameFits(f) /\ f = stack[p][Depth(p)] /\ lost \in [Proc -> BOOLEAN]  BY <1>2, TopFits
<1>4. Follows(f, e) /\ e.err = f.err /\ (e.open <=> f.open)  BY <1>2, <1>3, AdvanceFits
<1>5. /\ faults' \in [Proc -> 0 .. MaxFaults] /\ \A q \in Proc \ {p} : faults'[q] = faults[q]
      /\ faults[p] \in Nat /\ faults'[p] \in Nat /\ faults'[p] >= faults[p]
    BY <1>1, <1>3, SameFaults
<1> HIDE DEF e
<1>6. ErrorsKept(p, Depth(p), e)  BY <1>1, <1>3, <1>4, <1>5 DEF ErrorsKept
<1>7. QED  BY <1>1, <1>2, <1>3, <1>4, <1>5, <1>6, PutStep

LEMMA PreloadUnknownStep ==
    ASSUME IInv, NEW p \in Proc, PreloadUnknown(p) PROVE StepFits(p)
<1> DEFINE f == Top(p)
           e == [f EXCEPT !.err = "error", !.at = "return"]
<1>1. /\ InPreload(p, FALSE) /\ Relation(f) \notin Many \cup M2M
      /\ Put(p, e) /\ UNCHANGED <<inTx, free, out, faults, lost, calls>>
    BY DEF PreloadUnknown
<1>2. Busy(p) /\ f.at = "preload" /\ Depth(p) = 1  BY <1>1, InPreloadFacts
<1>3. /\ Typed /\ FrameFits(f) /\ f = stack[p][Depth(p)] /\ lost \in [Proc -> BOOLEAN]  BY <1>2, TopFits
<1>4. Follows(f, e) /\ e.err # "no" /\ (e.open <=> f.open)  BY <1>2, <1>3, FailedFits
<1>5. /\ faults' \in [Proc -> 0 .. MaxFaults] /\ \A q \in Proc \ {p} : faults'[q] = faults[q]
      /\ faults[p] \in Nat /\ faults'[p] \in Nat /\ faults'[p] >= faults[p]
    BY <1>1, <1>3, SameFaults
<1> HIDE DEF e
<1>6. ErrorsKept(p, Depth(p), e)  BY <1>1, <1>2, <1>3, <1>4, <1>5 DEF ErrorsKept
<1>7. QED  BY <1>1, <1>2, <1>3, <1>4, <1>5, <1>6, PutStep

LEMMA PreloadEndStep ==
    ASSUME IInv, NEW p \in Proc, PreloadEnd(p) PROVE StepFits(p)
<1> DEFINE f == Top(p)
           y == After(f, "after")
           e == [f EXCEPT !.at = y]
<1>1. Busy(p) /\ f.at = "preload" /\ Put(p, e) /\ UNCHANGED <<inTx, free, out, faults, lost, calls>>
    BY DEF PreloadEnd, At
<1>2. /\ Typed /\ FrameFits(f) /\ f = stack[p][Depth(p)] /\ lost \in [Proc -> BOOLEAN]
      /\ f.err \in Errors /\ f \in Frame
    BY <1>1, TopFits DEF FrameFits
<1>3. Goes(f.at, y) /\ y \in {"rows", "again", "after", "return"}  BY <1>1 DEF After, Goes
<1> HIDE DEF y
<1>4. e = [f EXCEPT !.err = f.err, !.at = y]  BY <1>2 DEF Frame
<1>5. Follows(f, e) /\ e.err = f.err /\ (e.open <=> f.open)
    <2> HIDE DEF e, f
    <2>0. /\ FrameFits(f) /\ f.err \in Errors /\ y \in {"rows", "again", "after", "return"} /\ Goes(f.at, y)
          /\ e = [f EXCEPT !.err = f.err, !.at = y]
        BY <1>2, <1>3, <1>4
    <2>1. Follows(f, e)  BY <2>0, OnwardFits
    <2>2. e.err = f.err /\ e.open = f.open  BY <1>2, <1>4 DEF Frame
    <2>3. QED  BY <2>1, <2>2
<1>6. /\ faults' \in [Proc -> 0 .. MaxFaults] /\ \A q \in Proc \ {p} : faults'[q] = faults[q]
      /\ faults[p] \in Nat /\ faults'[p] \in Nat /\ faults'[p] >= faults[p]
    BY <1>1, <1>2, SameFaults
<1> HIDE DEF e
<1>7. ErrorsKept(p, Depth(p), e)  BY <1>1, <1>2, <1>5, <1>6 DEF ErrorsKept
<1>8. QED  BY <1>1, <1>2, <1>5, <1>6, <1>7, PutStep

LEMMA PreloadWithoutOptionsStep ==
    ASSUME IInv, NEW p \in Proc, PreloadWithoutOptions(p) PROVE StepFits(p)
<1>1. Panic(p) /\ UNCHANGED <<inTx, faults, lost, calls>>  BY DEF PreloadWithoutOptions
<1>2. Typed  BY DEF IInv
<1>3. QED  BY <1>1, <1>2, PanicStep DEF Typed

LEMMA PreloadFieldStep ==
    ASSUME IInv, NEW p \in Proc, PreloadField(p) PROVE StepFits(p)
<1> DEFINE f == Top(p)
           call == IF Relation(f) \in M2M THEN "m2m" ELSE "find"
           err == IF f.level = 0 THEN f.err ELSE f.sub
           paths == IF f.auto /\ Depth(p) + 1 < MaxDepth THEN AutoPaths ELSE <<>>
           g == NewFrame(call, err, f.auto, paths, <<>>)
<1>1. /\ InPreload(p, FALSE) /\ Depth(p) + (IF Relation(f) \in M2M THEN 1 ELSE 0) < MaxDepth
      /\ Push(p, f, g) /\ UNCHANGED <<inTx, free, out, faults, lost, calls>>
    BY DEF PreloadField
<1>2. /\ Busy(p) /\ f.at = "preload" /\ f.paths # <<>> /\ f.level \in Nat
      /\ f.level < Len(Head(f.paths)) /\ Len(Head(f.paths)) \in Nat
      /\ Len(Head(f.paths)) > 1 => LongIn(f.paths)
    BY <1>1, InPreloadFacts
<1>3. /\ Typed /\ FrameFits(f) /\ f = stack[p][Depth(p)] /\ f \in Frame /\ Depth(p) \in Nat
    BY <1>2, TopFits DEF FrameFits
<1>4. err \in Errors /\ f.auto \in BOOLEAN /\ call \in {"find", "m2m", "elem"} /\ call # "elem"
    BY <1>3 DEF Frame
<1>5. paths \in Seq(ShortPath)  BY AutoShort
<1>6. err # "no" => f.err # "no" \/ LongIn(f.paths)
    <2>1. f.level # 0 => LongIn(f.paths)  BY <1>2
    <2>2. QED  BY <2>1
<1>7. Depth(p) < MaxDepth /\ (call = "m2m" => Depth(p) + 1 < MaxDepth)  BY <1>1, <1>3, BoundAssumption
<1> HIDE DEF call, err, paths
<1>8. FrameFits(g) /\ Nested(g) /\ g.call = call /\ g.err = err /\ ~g.open
    BY <1>4, <1>5, NestedFrameFits
<1>9. Follows(f, f) /\ Caller(f)  BY <1>2, <1>3 DEF Follows, Caller
<1>10. /\ faults' \in [Proc -> 0 .. MaxFaults] /\ \A q \in Proc \ {p} : faults'[q] = faults[q]
       /\ faults[p] \in Nat /\ faults'[p] \in Nat /\ faults'[p] >= faults[p]
    BY <1>1, <1>3, SameFaults
<1>11. ErrorsKept(p, Depth(p), f)  BY <1>1, <1>3, <1>10 DEF ErrorsKept
<1> HIDE DEF g
<1>12. QED  BY <1>1, <1>2, <1>6, <1>7, <1>8, <1>9, <1>10, <1>11, PushStep

\* The outermost call ends: what it reports is its error.
LEMMA ReturnLast ==
    ASSUME IInv, NEW p \in Proc, Return(p), Depth(p) = 1 PROVE StepFits(p)
<1> DEFINE f == Top(p)
           r == IF f.err = "no" THEN "ok" ELSE f.err
<1>1. Busy(p) /\ f.at = "return" /\ UNCHANGED <<inTx, free, faults, calls>>  BY DEF Return, At
<1>2. stack' = [stack EXCEPT ![p] = <<>>] /\ out' = [out EXCEPT ![p] = r] /\ UNCHANGED lost
    BY DEF Return
<1>3. /\ Typed /\ CallFits(p) /\ FrameFits(f) /\ f = stack[p][1] /\ f.err \in Errors
    BY <1>1, TopFits
<1>4. r \in Outs /\ (r = "ok" => f.err = "no")  BY <1>3 DEF Outs, Errors
<1> HIDE DEF r
<1>5. /\ stack' \in [Proc -> Seq(Frame)] /\ out' \in [Proc -> Outs] /\ stack'[p] = <<>> /\ out'[p] = r
      /\ \A q \in Proc \ {p} : stack'[q] = stack[q] /\ out'[q] = out[q]
    <2>1. <<>> \in Seq(Frame)  OBVIOUS
    <2>2. QED  BY <1>2, <1>3, <1>4, <2>1 DEF Typed, Outs
<1>6. CallFits(p)'  BY <1>5, IdleFits
<1>7. Reported(p)'
    <2> SUFFICES ASSUME r = "ok", faults[p] > 0 PROVE lost[p]
        BY <1>1, <1>2, <1>5 DEF Reported
    <2>1. \A i \in 1 .. 1 : stack[p][i].err = "no"  BY <1>3, <1>4
    <2>2. QED  BY <1>1, <1>3, <2>1 DEF CallFits, Kept
<1>8. Held' = Held
    <2>1. ~f.open  BY <1>1, <1>3 DEF FrameFits, RowsFit, OpenPlaces
    <2>2. \A i \in 1 .. Depth(p) : ~stack[p][i].open  BY <1>3, <2>1
    <2>3. \A i \in 1 .. Depth(p)' : ~stack'[p][i].open  BY <1>5 DEF Depth
    <2>4. QED  BY <1>1, <1>5, <2>2, <2>3, IdleHolds
<1>9. free \in Nat  BY <1>3 DEF Typed
<1>10. QED  BY <1>1, <1>2, <1>3, <1>5, <1>6, <1>7, <1>8, <1>9 DEF StepFits, Typed

\* A nested call ends: the frame below takes its error, or nothing reads it.
LEMMA ReturnNested ==
    ASSUME IInv, NEW p \in Proc, Return(p), Depth(p) # 1 PROVE StepFits(p)
<1> DEFINE f == Top(p)
           n == Depth(p)
           g == stack[p][n - 1]
           h == Merged(g, f.call, f.err)
           quiet == f.call = "elem" \/ (g.at = "preload" /\ g.level > 0)
<1>1. Busy(p) /\ f.at = "return" /\ UNCHANGED <<inTx, free, out, faults, calls>>  BY DEF Return, At
<1>2. Pop(p, h) /\ lost' = [lost EXCEPT ![p] = @ \/ (f.err # "no" /\ quiet)]  BY DEF Return, Pop
<1>3. /\ Typed /\ CallFits(p) /\ n \in Nat /\ n > 1 /\ Len(stack[p]) = n /\ FrameFits(f) /\ f.err \in Errors
      /\ lost \in [Proc -> BOOLEAN]
    <2>1. Len(stack[p]) = n  BY DEF Depth
    <2>2. QED  BY <1>1, <2>1, TopFits
<1>4. FitsAt(g, n - 1, n) /\ n - 1 < n  BY <1>3 DEF CallFits, StackFits
<1>5. FrameFits(g) /\ Caller(g)  BY <1>4 DEF FitsAt
<1>6. /\ Follows(g, h) /\ (h.open <=> g.open)
      /\ g.err # "no" => h.err # "no"
      /\ h.err # "no" => g.err # "no" \/ f.err # "no"
      /\ f.err # "no" => h.err # "no" \/ quiet
    BY <1>3, <1>5, MergedFits
<1>7. PICK b \in BOOLEAN :
          lost' = [lost EXCEPT ![p] = b] /\ (lost[p] => b) /\ (f.err # "no" /\ quiet => b)
    <2>1. (lost[p] \/ (f.err # "no" /\ quiet)) \in BOOLEAN  BY Zenon
    <2>2. QED  BY <1>2, <2>1
<1> HIDE DEF h, quiet
<1>8. /\ lost' \in [Proc -> BOOLEAN] /\ \A q \in Proc \ {p} : lost'[q] = lost[q]
      /\ lost[p] => lost'[p]
      /\ f.err # "no" => h.err # "no" \/ lost'[p]
    <2>0. lost' = [lost EXCEPT ![p] = b] /\ lost \in [Proc -> BOOLEAN] /\ b \in BOOLEAN  BY <1>3, <1>7
    <2>1. /\ lost' \in [Proc -> BOOLEAN] /\ lost'[p] = b
          /\ \A q \in Proc \ {p} : lost'[q] = lost[q]
        BY <2>0
    <2>2. ASSUME f.err # "no", h.err = "no" PROVE b
        <3>1. quiet  BY <1>6, <2>2
        <3>2. QED  BY <1>7, <2>2, <3>1
    <2>3. lost[p] => b  BY <1>7
    <2>4. QED  BY <2>1, <2>2, <2>3
<1>9. CallFits(p)'  BY <1>1, <1>2, <1>3, <1>6, <1>8, PopFits
<1>10. h \in Frame  BY <1>6 DEF Follows, FrameFits
<1>11. stack' \in [Proc -> Seq(Frame)] /\ \A q \in Proc \ {p} : stack'[q] = stack[q]
    BY <1>1, <1>2, <1>3, <1>10, PopFacts DEF Changes, Typed
<1>12. Held' = Held
    <2>1. ~f.open  BY <1>1, <1>3 DEF FrameFits, RowsFit, OpenPlaces
    <2>2. QED  BY <1>1, <1>2, <1>3, <1>6, <1>10, <2>1, PopHolds
<1>13. Reported(p)'  BY <1>1, <1>3 DEF Reported, CallFits, Kept
<1>14. free \in Nat  BY <1>3 DEF Typed
<1>15. QED  BY <1>1, <1>3, <1>8, <1>9, <1>11, <1>12, <1>13, <1>14 DEF StepFits, Typed, Outs

\* A call of the program.
LEMMA QueryStep ==
    ASSUME IInv, NEW p \in Proc, NEW op \in Op[p], Query(p, op) PROVE StepFits(p)
<1> DEFINE g == NewFrame(op.call, "no", op.auto, op.paths, op.inline)
<1>1. /\ stack[p] = <<>> /\ calls[p] < MaxCalls /\ calls' = [calls EXCEPT ![p] = calls[p] + 1]
      /\ stack' = [stack EXCEPT ![p] = <<g>>] /\ out' = [out EXCEPT ![p] = "none"]
      /\ faults' = [faults EXCEPT ![p] = 0] /\ lost' = [lost EXCEPT ![p] = FALSE]
      /\ UNCHANGED <<inTx, free>>
    BY DEF Query, Busy
<1>2. Typed  BY DEF IInv
<1>3. op \in Ops  BY OpAssumption
<1>4. /\ op.call \in Calls /\ op.call \notin {"elem", "m2m"} /\ op.auto \in BOOLEAN
      /\ op.paths \in Paths /\ op.inline \in Paths /\ "no" \in Errors
    BY <1>3 DEF Ops, Calls, Errors
<1>5. FrameFits(g) /\ g.call = op.call /\ g.err = "no" /\ ~g.open  BY <1>4, NewFrameFits
<1> HIDE DEF g
<1>6. g \in Frame /\ <<g>> \in Seq(Frame)  BY <1>5 DEF FrameFits
<1>7. /\ stack' \in [Proc -> Seq(Frame)] /\ stack'[p] = <<g>>
      /\ out' \in [Proc -> Outs] /\ out'[p] = "none"
      /\ lost' \in [Proc -> BOOLEAN] /\ \A q \in Proc \ {p} : lost'[q] = lost[q]
      /\ \A q \in Proc \ {p} : stack'[q] = stack[q] /\ out'[q] = out[q]
    BY <1>1, <1>2, <1>6 DEF Typed, Outs
<1>8. /\ faults' \in [Proc -> 0 .. MaxFaults] /\ faults'[p] = 0 /\ \A q \in Proc \ {p} : faults'[q] = faults[q]
      /\ calls' \in [Proc -> 0 .. MaxCalls]
    <2>1. 0 \in 0 .. MaxFaults  BY BoundAssumption
    <2>2. calls[p] + 1 \in 0 .. MaxCalls  BY <1>1, <1>2, BoundAssumption DEF Typed
    <2>3. QED  BY <1>1, <1>2, <2>1, <2>2 DEF Typed
<1>9. Len(stack'[p]) = 1 /\ stack'[p][1] = g  BY <1>7
<1>10. CallFits(p)'
    <2>1. StackFits(stack'[p])  BY <1>4, <1>5, <1>9 DEF StackFits, FitsAt
    <2>2. 1 <= MaxDepth  BY BoundAssumption
    <2>3. Explained(p)'  BY <1>5, <1>9 DEF Explained, Depth
    <2>4. Kept(p)'  BY <1>7, <1>8 DEF Kept
    <2>5. QED  BY <1>9, <2>1, <2>2, <2>3, <2>4 DEF CallFits, Depth
<1>11. Reported(p)'  BY <1>7 DEF Reported
<1>12. Held' = Held
    <2>1. \A i \in 1 .. Depth(p) : ~stack[p][i].open  BY <1>1 DEF Depth
    <2>2. \A i \in 1 .. Depth(p)' : ~stack'[p][i].open  BY <1>5, <1>9 DEF Depth
    <2>3. QED  BY <1>1, <1>7, <2>1, <2>2, IdleHolds
<1>13. free \in Nat /\ inTx' \in [Proc -> BOOLEAN]  BY <1>1, <1>2 DEF Typed
<1>14. QED  BY <1>1, <1>7, <1>8, <1>10, <1>11, <1>12, <1>13 DEF StepFits

\* The program's transactions.
LEMMA BeginStep ==
    ASSUME IInv, NEW p \in Proc, Begin(p) PROVE StepFits(p)
<1>1. /\ stack[p] = <<>> /\ ~inTx[p] /\ free > 0 /\ inTx' = [inTx EXCEPT ![p] = TRUE] /\ free' = free - 1
      /\ UNCHANGED <<stack, out, faults, lost, calls>>
    BY DEF Begin, Busy
<1>2. Typed /\ CallFits(p) /\ Reported(p)  BY DEF IInv, NoErrorLost, Reported
<1>3. /\ inTx' \in [Proc -> BOOLEAN] /\ inTx'[p] /\ \A q \in Proc \ {p} : inTx'[q] = inTx[q]
      /\ free \in Nat
    BY <1>1, <1>2 DEF Typed
<1>4. CallFits(p)' /\ Reported(p)'
    BY <1>1, <1>2 DEF CallFits, Explained, Kept, Depth, Busy, Reported
<1>5. Held' = Held + 1
    <2>1. \A q \in Proc \ {p} : \A i \in 0 .. MaxDepth : HeldAt(q, i)' <=> HeldAt(q, i)
        BY <1>1, <1>3 DEF HeldAt, Depth
    <2>2. \A i \in 0 .. MaxDepth : ~HeldAt(p, i)  BY <1>1 DEF HeldAt, Depth
    <2>3. \A i \in 0 .. MaxDepth : HeldAt(p, i)' <=> i = 0  BY <1>3 DEF HeldAt
    <2>4. 0 \in 0 .. MaxDepth  BY BoundAssumption
    <2>5. \A q \in Proc : \A i \in 0 .. MaxDepth : (q = p /\ i = 0) \/ (HeldAt(q, i)' <=> HeldAt(q, i))
        BY <2>1, <2>2, <2>3
    <2>6. ~HeldAt(p, 0) /\ HeldAt(p, 0)'  BY <2>2, <2>3, <2>4
    <2>7. QED  BY <2>4, <2>5, <2>6, HeldOneMore
<1>6. free' \in Nat /\ free' + Held' = free + Held  BY <1>1, <1>3, <1>5, HeldFinite
<1>7. QED  BY <1>1, <1>2, <1>3, <1>4, <1>6 DEF StepFits, Typed, Outs

LEMMA EndStep ==
    ASSUME IInv, NEW p \in Proc, End(p) PROVE StepFits(p)
<1>1. /\ stack[p] = <<>> /\ inTx[p] /\ inTx' = [inTx EXCEPT ![p] = FALSE] /\ free' = free + 1
      /\ UNCHANGED <<stack, out, faults, lost, calls>>
    BY DEF End, Busy
<1>2. Typed /\ CallFits(p) /\ Reported(p)  BY DEF IInv, NoErrorLost, Reported
<1>3. /\ inTx' \in [Proc -> BOOLEAN] /\ ~inTx'[p] /\ \A q \in Proc \ {p} : inTx'[q] = inTx[q]
      /\ free \in Nat
    BY <1>1, <1>2 DEF Typed
<1>4. CallFits(p)' /\ Reported(p)'
    BY <1>1, <1>2 DEF CallFits, Explained, Kept, Depth, Busy, Reported
<1>5. Held' = Held - 1
    <2>1. \A q \in Proc \ {p} : \A i \in 0 .. MaxDepth : HeldAt(q, i)' <=> HeldAt(q, i)
        BY <1>1, <1>3 DEF HeldAt, Depth
    <2>2. \A i \in 0 .. MaxDepth : ~HeldAt(p, i)'  BY <1>1, <1>3 DEF HeldAt, Depth
    <2>3. \A i \in 0 .. MaxDepth : HeldAt(p, i) <=> i = 0  BY <1>1 DEF HeldAt
    <2>4. 0 \in 0 .. MaxDepth  BY BoundAssumption
    <2>5. \A q \in Proc : \A i \in 0 .. MaxDepth : (q = p /\ i = 0) \/ (HeldAt(q, i)' <=> HeldAt(q, i))
        BY <2>1, <2>2, <2>3
    <2>6. HeldAt(p, 0) /\ ~HeldAt(p, 0)'  BY <2>2, <2>3, <2>4
    <2>7. QED  BY <2>4, <2>5, <2>6, HeldOneLess
<1>6. free' \in Nat /\ free' + Held' = free + Held  BY <1>1, <1>3, <1>5, HeldFinite
<1>7. QED  BY <1>1, <1>2, <1>3, <1>4, <1>6 DEF StepFits, Typed, Outs
-----------------------------------------------------------------------------
(* Theorems *)

LEMMA InitIInv == Init => IInv
<1> SUFFICES ASSUME Init PROVE IInv  OBVIOUS
<1>1. \A p \in Proc : stack[p] = <<>> /\ ~inTx[p] /\ out[p] = "none"  BY DEF Init
<1>2. Typed
    <2>1. <<>> \in Seq(Frame)  OBVIOUS
    <2>2. 0 \in 0 .. MaxFaults /\ 0 \in 0 .. MaxCalls /\ MaxConns \in 0 .. MaxConns
        BY BoundAssumption, OpAssumption
    <2>3. QED  BY <2>1, <2>2 DEF Init, Typed
<1>3. ASSUME NEW p \in Proc PROVE CallFits(p)
    <2>1. Len(stack[p]) = 0 /\ 0 <= MaxDepth  BY <1>1, BoundAssumption
    <2>2. QED  BY <1>1, <2>1 DEF CallFits, StackFits, Depth, Explained, Kept, Busy
<1>4. Held = 0
    <2>1. \A p \in Proc : \A i : ~HeldAt(p, i)  BY <1>1 DEF HeldAt, Depth
    <2>2. HeldSet = {}  BY <2>1 DEF HeldSet
    <2>3. QED  BY <2>2, HeldFinite, FS_EmptySet
<1>5. ConnectionsReturned  BY <1>4, OpAssumption DEF ConnectionsReturned, Init
<1>6. NoErrorLost  BY <1>1 DEF NoErrorLost
<1>7. QED  BY <1>2, <1>3, <1>5, <1>6 DEF IInv

LEMMA StepOfCallFits ==
    ASSUME IInv, NEW p \in Proc, Step(p) PROVE StepFits(p)
<1>1. CASE Build(p)  BY <1>1, BuildStep
<1>2. CASE Statement(p)  BY <1>2, StatementStep
<1>3. CASE Scan(p)  BY <1>3, ScanStep
<1>4. CASE EndRows(p)  BY <1>4, EndRowsStep
<1>5. CASE Method(p)  BY <1>5, MethodStep
<1>6. CASE PreloadNothing(p)  BY <1>6, PreloadNothingStep
<1>7. CASE PreloadUnknown(p)  BY <1>7, PreloadUnknownStep
<1>8. CASE PreloadWithoutOptions(p)  BY <1>8, PreloadWithoutOptionsStep
<1>9. CASE PreloadField(p)  BY <1>9, PreloadFieldStep
<1>10. CASE PreloadEnd(p)  BY <1>10, PreloadEndStep
<1>11. CASE Return(p)  BY <1>11, ReturnLast, ReturnNested
<1>12. QED
    BY <1>1, <1>2, <1>3, <1>4, <1>5, <1>6, <1>7, <1>8, <1>9, <1>10, <1>11 DEF Step

LEMMA NextIInv == IInv /\ [Next]_vars => IInv'
<1> SUFFICES ASSUME IInv, [Next]_vars PROVE IInv'  OBVIOUS
<1>1. ASSUME NEW p \in Proc, Begin(p) PROVE IInv'  BY <1>1, BeginStep, StepKeepsIInv
<1>2. ASSUME NEW p \in Proc, End(p) PROVE IInv'  BY <1>2, EndStep, StepKeepsIInv
<1>3. ASSUME NEW p \in Proc, NEW op \in Op[p], Query(p, op) PROVE IInv'
    BY <1>3, QueryStep, StepKeepsIInv
<1>4. ASSUME NEW p \in Proc, Step(p) PROVE IInv'  BY <1>4, StepOfCallFits, StepKeepsIInv
<1>5. CASE UNCHANGED vars
    <2>1. UNCHANGED <<stack, inTx, free, out, faults, lost, calls>>  BY <1>5 DEF vars
    <2>2. Typed'  BY <2>1 DEF IInv, Typed
    <2>3. \A p \in Proc : CallFits(p)'  BY <2>1 DEF IInv, CallFits, Explained, Kept, Depth, Busy
    <2>4. \A q \in Proc : \A i \in 0 .. MaxDepth : HeldAt(q, i)' <=> HeldAt(q, i)  BY <2>1 DEF HeldAt, Depth
    <2>5. ConnectionsReturned'  BY <2>1, <2>4, HeldSame DEF IInv, ConnectionsReturned
    <2>6. NoErrorLost'  BY <2>1 DEF IInv, NoErrorLost
    <2>7. QED  BY <2>2, <2>3, <2>5, <2>6 DEF IInv
<1>6. QED  BY <1>1, <1>2, <1>3, <1>4, <1>5 DEF Next

LEMMA Inductive == Spec => []IInv
BY InitIInv, NextIInv, PTL DEF Spec

LEMMA PathWithNext ==
    ASSUME NEW paths \in Paths, paths # <<>>
    PROVE  Head(paths \o <<<<"">>>>) = Head(paths)
<1>1. Len(paths) \in Nat /\ Len(paths) > 0 /\ Head(paths) = paths[1]  BY PathHead
<1>2. ASSUME NEW S, NEW t \in S, NEW s \in Seq(S), Len(s) > 0
      PROVE  s \o <<t>> \in Seq(S) /\ (s \o <<t>>)[1] = s[1] /\ s \o <<t>> # <<>>
    <2>1. <<t>> \in Seq(S) /\ Len(<<t>>) = 1  OBVIOUS
    <2>2. /\ s \o <<t>> \in Seq(S) /\ Len(s \o <<t>>) = Len(s) + 1
          /\ \A i \in 1 .. Len(s) : (s \o <<t>>)[i] = s[i]
        BY <2>1, ConcatProperties
    <2>3. Len(s) \in Nat  OBVIOUS
    <2>4. QED  BY <1>2, <2>2, <2>3
<1> DEFINE E == <<"">>
<1> HIDE DEF E
<1>3. paths \in Seq(Seq(STRING) \cup {E})
    <2>1. paths \in Seq(Seq(STRING))  BY DEF Paths
    <2>2. ASSUME NEW A, NEW x, NEW s \in Seq(A) PROVE s \in Seq(A \cup {x})  OBVIOUS
    <2>3. QED  BY <2>1, <2>2
<1> DEFINE w == paths \o <<E>>
<1>4. w \in Seq(Seq(STRING) \cup {E}) /\ w[1] = paths[1] /\ w # <<>>  BY <1>1, <1>2, <1>3
<1> HIDE DEF w
<1>5. Head(w) = w[1]  BY <1>4
<1>6. QED  BY <1>1, <1>4, <1>5 DEF w, E

\* Every connection is accounted for at all times, and who waits for one holds another
\* only inside a loop over rows, for any number of goroutines and any nesting of calls
\* (queryCallback, preloadCallback and the methods they call).
THEOREM InvHolds == Spec => []Inv
<1>1. IInv => TypeOK
    <2> SUFFICES ASSUME IInv PROVE TypeOK  OBVIOUS
    <2>1. Typed  BY DEF IInv
    <2>2. ASSUME NEW p \in Proc, NEW i \in 1 .. Depth(p)
          PROVE  /\ [stack[p][i] EXCEPT !.done = {}] \in Frame
                 /\ stack[p][i].level < Len(Head(stack[p][i].paths \o <<<<"">>>>))
        <3> DEFINE f == stack[p][i]
        <3>1. FrameFits(f)  BY DEF IInv, CallFits, StackFits, FitsAt, Depth
        <3> HIDE DEF f
        <3>2. f \in Frame /\ f.paths \in Paths /\ PathFits(f)  BY <3>1 DEF FrameFits, Frame
        <3>3. [f EXCEPT !.done = {}] \in Frame  BY <3>2 DEF Frame
        <3>4. f.level < Len(Head(f.paths \o <<<<"">>>>))
            <4>1. CASE f.paths = <<>>  BY <3>2, <4>1 DEF PathFits
            <4>2. CASE f.paths # <<>>  BY <3>2, <4>2, PathWithNext DEF PathFits
            <4>3. QED  BY <4>1, <4>2
        <3>5. QED  BY <3>3, <3>4 DEF f
    <2>3. \A p \in Proc : Depth(p) <= MaxDepth  BY DEF IInv, CallFits
    <2>4. DOMAIN stack = Proc  BY <2>1 DEF Typed
    <2>5. QED  BY <2>1, <2>2, <2>3, <2>4 DEF TypeOK, Typed
<1>2. IInv => WaitsHoldingInLoopsOnly
    <2> SUFFICES ASSUME IInv, NEW p \in Proc, Waiting(p), NEW i \in 1 .. Depth(p), stack[p][i].open
                 PROVE  i < Depth(p) /\ stack[p][i].at \in {"again", "rows"}
        BY DEF WaitsHoldingInLoopsOnly
    <2>1. Busy(p) /\ Top(p).at = "query"  BY DEF Waiting, At
    <2>2. Top(p) = stack[p][Depth(p)] /\ Depth(p) \in Nat /\ CallFits(p)  BY <2>1, TopFits
    <2>3. FitsAt(stack[p][i], i, Depth(p))  BY <2>2 DEF CallFits, StackFits, Depth
    <2>4. stack[p][i].at \in OpenPlaces  BY <2>3 DEF FitsAt, FrameFits, RowsFit
    <2>5. i # Depth(p)  BY <2>1, <2>2, <2>4 DEF OpenPlaces
    <2>6. i < Depth(p)  BY <2>2, <2>5
    <2>7. QED  BY <2>3, <2>4, <2>6 DEF FitsAt, Caller, OpenPlaces
<1>3. IInv => Inv  BY <1>1, <1>2 DEF Inv, IInv
<1>4. QED  BY <1>3, Inductive, PTL

\* A call that reports success has met no failure, but for the errors recorded in scopes
\* nobody reads (the elements of a many-to-many preload, the fields below the first of a
\* path, inline preloads of a slice) and one that ends the rows of PluckFirst, however
\* deeply calls are nested.
THEOREM NoErrorLostHolds == Spec => []NoErrorLost
<1>1. IInv => NoErrorLost  BY DEF IInv
<1>2. QED  BY <1>1, Inductive, PTL

LEMMA LongInBoth ==
    ASSUME NEW a \in Paths, NEW b \in Paths, LongIn(a) \/ LongIn(b)
    PROVE  \E i \in 1 .. Len(a \o b) : Len((a \o b)[i]) > 1
<1>1. a \in Seq(Seq(STRING)) /\ b \in Seq(Seq(STRING)) /\ Len(a) \in Nat /\ Len(b) \in Nat  BY DEF Paths
<1>2. /\ Len(a \o b) = Len(a) + Len(b)
      /\ \A i \in 1 .. Len(a) : (a \o b)[i] = a[i]
      /\ \A i \in 1 .. Len(b) : (a \o b)[Len(a) + i] = b[i]
    BY <1>1
<1>3. CASE LongIn(a)
    <2>1. PICK i \in 1 .. Len(a) : Len(a[i]) > 1  BY <1>3 DEF LongIn
    <2>2. i \in 1 .. Len(a \o b) /\ Len((a \o b)[i]) > 1  BY <1>1, <1>2, <2>1
    <2>3. QED  BY <2>2
<1>4. CASE LongIn(b)
    <2>1. PICK i \in 1 .. Len(b) : Len(b[i]) > 1  BY <1>4 DEF LongIn
    <2>2. Len(a) + i \in 1 .. Len(a \o b) /\ Len((a \o b)[Len(a) + i]) > 1  BY <1>1, <1>2, <2>1
    <2>3. QED  BY <2>2
<1>5. QED  BY <1>3, <1>4

\* What a panic of the call of p must have met.
Excused(p) == \/ faults'[p] > 0
              \/ LongIn(stack[p][1].paths) \/ LongIn(stack[p][1].inline)
              \/ stack[p][1].err # "no"

LEMMA LongInline == \A s : Inlined(s) # "no" => LongIn(s)
BY DEF Inlined, LongIn

LEMMA BuildPanics ==
    ASSUME IInv, NEW p \in Proc, Build(p), out'[p] = "panic" PROVE Excused(p)
<1> DEFINE f == Top(p)
           bad == IF f.err = "no" THEN Inlined(f.inline) ELSE "no"
           Err(failed) == IF failed \/ (bad = "error" /\ f.call # "find") THEN "error" ELSE f.err
<1>1. Busy(p)  BY DEF Build, At
<1>2. /\ Typed /\ CallFits(p) /\ Depth(p) \in Nat /\ Depth(p) > 0 /\ f = stack[p][Depth(p)] /\ f \in Frame
      /\ Depth(p) # 1 => f.inline = <<>>
    BY <1>1, TopFits DEF FrameFits, Nested
<1>3. PICK failed \in BOOLEAN :
         /\ May(p, failed)
         /\ \/ bad = "panic" \/ (Err(failed) # "no" /\ f.call \in {"pluck", "pluckFirst", "count", "m2m"})
            \/ UNCHANGED out
    <2>1. \A x : [f EXCEPT !.err = x].err = x  BY <1>2 DEF Frame
    <2>2. QED  BY <2>1 DEF Build
<1>4. out[p] = "none"  BY <1>1, <1>2 DEF CallFits, Kept
<1>5. bad = "panic" \/ Err(failed) # "no"  BY <1>3, <1>4
<1>6. faults'[p] \in Nat /\ faults[p] \in Nat /\ faults'[p] >= faults[p] /\ (failed => faults'[p] > 0)
    BY <1>2, <1>3, MayFacts
<1>7. CASE bad \in {"panic", "error"}
    <2>1. LongIn(f.inline)  BY <1>7, LongInline
    <2>2. ~LongIn(<<>>)  BY DEF LongIn
    <2>3. Depth(p) = 1  BY <1>2, <2>1, <2>2
    <2>4. QED  BY <1>2, <2>1, <2>3 DEF Excused
<1>8. CASE failed  BY <1>6, <1>8 DEF Excused
<1>9. CASE f.err # "no"
    <2>1. Depth(p) \in 1 .. Depth(p) /\ stack[p][Depth(p)].err # "no"  BY <1>2, <1>9
    <2>2. \/ faults[p] > 0
          \/ LongIn(stack[p][1].paths) \/ LongIn(stack[p][1].inline)
          \/ stack[p][1].err # "no"
        BY <1>2, <2>1 DEF CallFits, Explained
    <2>3. QED  BY <1>6, <2>2 DEF Excused
<1>10. QED  BY <1>5, <1>7, <1>8, <1>9

LEMMA PreloadPanics ==
    ASSUME IInv, NEW p \in Proc, PreloadWithoutOptions(p) PROVE Excused(p)
<1> DEFINE f == Top(p)
<1>1. InPreload(p, FALSE) /\ f.level + 1 # Len(Head(f.paths))  BY DEF PreloadWithoutOptions, Last
<1>2. /\ Busy(p) /\ f.level \in Nat /\ f.level < Len(Head(f.paths)) /\ Len(Head(f.paths)) \in Nat
      /\ Len(Head(f.paths)) > 1 => LongIn(f.paths) /\ Depth(p) = 1
    BY <1>1, InPreloadFacts
<1>3. f = stack[p][Depth(p)]  BY <1>2, TopFits
<1>4. Len(Head(f.paths)) > 1  BY <1>1, <1>2
<1>5. LongIn(f.paths) /\ f = stack[p][1]  BY <1>2, <1>3, <1>4
<1>6. QED  BY <1>5 DEF Excused

LEMMA PanicExcused ==
    ASSUME IInv, [Next]_vars, NEW p \in Proc, out'[p] = "panic", Busy(p) PROVE Excused(p)
<1>1. CallFits(p) /\ out[p] = "none" /\ Top(p).err \in Errors /\ Typed  BY TopFits DEF CallFits, Kept
<1>2. ~ UNCHANGED out  BY <1>1
<1>3. PICK q \in Proc : Begin(q) \/ End(q) \/ (\E op \in Op[q] : Query(q, op)) \/ Step(q)
    BY <1>2 DEF Next, vars
<1>4. StepFits(q)  BY <1>3, BeginStep, EndStep, QueryStep, StepOfCallFits
<1>5. q = p  BY <1>1, <1>4 DEF StepFits
<1>6. Step(p)  BY <1>3, <1>5 DEF Begin, End, Query
<1>7. CASE Build(p)  BY <1>7, BuildPanics
<1>8. CASE PreloadWithoutOptions(p)  BY <1>8, PreloadPanics
<1>9. CASE Return(p)
    <2>1. PICK r \in {"ok"} \cup Errors : UNCHANGED out \/ out' = [out EXCEPT ![p] = r]
        BY <1>1, <1>9 DEF Return
    <2>2. r # "panic"  BY <2>1 DEF Errors
    <2>3. QED  BY <1>1, <1>2, <2>1, <2>2 DEF Typed
<1>10. Build(p) \/ PreloadWithoutOptions(p) \/ Return(p) \/ UNCHANGED out
    BY <1>6 DEF Step, Statement, Scan, EndRows, Method, PreloadNothing, PreloadUnknown, PreloadField, PreloadEnd
<1>11. QED  BY <1>2, <1>7, <1>8, <1>9, <1>10

\* A call panics only if something has failed in it (the rows of a scope with an error are
\* nil) or a path of several fields was asked for (the options of the fields before the
\* last are nil), at any depth of the calls it makes.
THEOREM PanicHolds == Spec => PanicsOnlyOnFailureOrPath
<1>1. ASSUME IInv, [Next]_vars, NEW p \in Proc, out'[p] = "panic", Busy(p)
      PROVE  \/ faults'[p] > 0
             \/ \E i \in 1 .. Len(stack[p][1].paths \o stack[p][1].inline) :
                   Len((stack[p][1].paths \o stack[p][1].inline)[i]) > 1
             \/ stack[p][1].err # "no"
    <2>1. Excused(p)  BY <1>1, PanicExcused
    <2>2. /\ CallFits(p) /\ Depth(p) \in Nat /\ Depth(p) > 0  BY <1>1, TopFits
    <2>3. FrameFits(stack[p][1])  BY <2>2 DEF CallFits, StackFits, FitsAt, Depth
    <2>4. stack[p][1].paths \in Paths /\ stack[p][1].inline \in Paths  BY <2>3 DEF FrameFits, Frame
    <2>5. QED  BY <2>1, <2>4, LongInBoth DEF Excused
<1>2. IInv /\ [Next]_vars =>
        [\A p \in Proc : out'[p] = "panic" /\ Busy(p) =>
            \/ faults'[p] > 0
            \/ \E i \in 1 .. Len(stack[p][1].paths \o stack[p][1].inline) :
                  Len((stack[p][1].paths \o stack[p][1].inline)[i]) > 1
            \/ stack[p][1].err # "no"]_vars
    BY <1>1
<1>3. QED  BY <1>2, Inductive, PTL DEF Spec, PanicsOnlyOnFailureOrPath
=============================================================================
