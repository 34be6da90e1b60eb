------------------------ MODULE CallbackLocksProofs ------------------------
(***************************************************************************)
(* What CallbackLocks guarantees for any number of goroutines, models,     *)
(* callbacks, registrations and saves one inside the other: its invariant  *)
(* Inv, and that goroutines hang only if a callback turns back in the      *)
(* order of the models.                                                    *)
(***************************************************************************)
EXTENDS CallbackLocks, FiniteSetTheorems, SequenceTheorems, WellFoundedInduction, TLAPS

Positions == {"before", "after"}
Stages    == {"start", "queued", "walk", "callback", "method"}
Kids      == UNION {ToSet(Children[m]) : m \in Models}

\* A callMethod; the registrators it has to visit are its model's own or those of children.
FrameSet == [m : Models, pos : Positions, st : Stages, todo : Seq(Models), left : Nat,
             ok : BOOLEAN, acted : BOOLEAN, second : BOOLEAN, early : BOOLEAN, err : BOOLEAN, late : Nat]
VisitsKids(f) == ToSet(f.todo) \subseteq {f.m} \cup Kids

\* A Call that is not ok has nothing left.  Before X there is no error but the one the scope came
\* with, or the Call is over; what has begun late before the next callback are methods.
LateOnce(f) == /\ f.ok \/ (f.st = "walk" /\ f.left = 0 /\ f.todo = <<>>)
               /\ f.early => f.err
               /\ f.pos = "before" /\ f.ok /\ ~f.second => (f.err => f.early)
               /\ ~f.err => f.late = 0
               /\ f.pos = "before" /\ f.st # "method" => ~f.second
               /\ f.pos = "before" /\ (f.st \in {"start", "queued"} \/ (f.st = "walk" /\ f.ok)) => f.late = 0
               /\ f.st \in {"start", "queued", "method"} \/ (f.st = "walk" /\ f.ok) => f.late <= LateMethods(f)
               /\ f.st = "method" => f.pos = "before"
               /\ f.late <= 1 + LateMethods(f)

RegSet == [st : {"idle", "want", "wait", "write"}, m : Models \cup {1}, pos : Positions]

\* The variables' types, with the frames and what goes with the locks.
Typed == /\ cbs \in [Models -> [Positions -> Nat]]
         /\ readers \in [Models -> [Goroutine -> Nat]]
         /\ writer \in [Models -> Goroutine \cup {None}]
         /\ stack \in [Goroutine -> Seq(FrameSet)]
         /\ reg \in [Goroutine -> RegSet]
         /\ \A g \in Goroutine : reg[g].st # "idle" => reg[g].m \in Models
         /\ \A g \in Goroutine : Len(stack[g]) <= MaxDepth[g]
         /\ regs \in 0 .. MaxRegs /\ raced \subseteq Models

\* The writer of a model is the one that has announced itself; one that writes has it alone.
WritersFit == /\ \A m \in Models : writer[m] # None => reg[writer[m]].m = m /\ reg[writer[m]].st \in {"wait", "write"}
              /\ \A g \in Goroutine : reg[g].st \in {"wait", "write"} => writer[reg[g].m] = g
              /\ \A g \in Goroutine : reg[g].st = "write" => \A h \in Goroutine : readers[reg[g].m][h] = 0

\* The callMethods of g, those below the innermost in a callback or method; a Register in progress
\* was made by the program itself, or by a callback or method.
Fits(g) == /\ \A i \in 1 .. Len(stack[g]) :
                 /\ VisitsKids(stack[g][i]) /\ LateOnce(stack[g][i])
                 /\ i < Len(stack[g]) => stack[g][i].st \in {"callback", "method"}
           /\ reg[g].st # "idle" /\ Busy(g) => Top(g).st \in {"callback", "method"}

\* The Calls of g that hold the read lock of m: the read locks g holds are theirs.
Holding(g, m) == {i \in DOMAIN stack[g] : stack[g][i].m = m /\ stack[g][i].st \in {"walk", "callback"}}
Counts(g)     == \A m \in Models : readers[m][g] = Cardinality(Holding(g, m))

\* All stacks are in order.
InOrder == /\ stack \in [Goroutine -> Seq(FrameSet)]
           /\ \A g \in Goroutine : Len(stack[g]) <= MaxDepth[g] /\ Fits(g) /\ Counts(g)

\* The inductive invariant.
IInv == Typed /\ InOrder /\ WritersFit /\ RacesOnlyOnChildren
-----------------------------------------------------------------------------
(* Frames *)

LEMMA FrameFits ==
    ASSUME NEW m \in Models, NEW b \in BOOLEAN
    PROVE  /\ Frame(m, b) \in FrameSet /\ VisitsKids(Frame(m, b)) /\ LateOnce(Frame(m, b))
           /\ Frame(m, b).st = "start"
<1>1. Frame(m, b) \in FrameSet  BY DEF Frame, FrameSet, Positions, Stages
<1>2. VisitsKids(Frame(m, b))  BY DEF Frame, VisitsKids, ToSet
<1>3. LateOnce(Frame(m, b))  BY DEF Frame, LateOnce, LateMethods
<1>4. QED  BY <1>1, <1>2, <1>3 DEF Frame

\* What the actions make of a frame.
LEMMA ActedFits ==
    ASSUME NEW f \in FrameSet, VisitsKids(f), LateOnce(f)
    PROVE  LET e == [f EXCEPT !.acted = TRUE]
           IN  e \in FrameSet /\ VisitsKids(e) /\ LateOnce(e) /\ e.m = f.m /\ e.st = f.st
BY DEF FrameSet, VisitsKids, LateOnce, LateMethods

LEMMA WalkFits ==
    ASSUME NEW f \in FrameSet, LateOnce(f), f.st \in {"start", "queued"}
    PROVE  LET e == [f EXCEPT !.st = "walk", !.todo = <<f.m>>]
           IN  e \in FrameSet /\ VisitsKids(e) /\ LateOnce(e) /\ e.m = f.m /\ e.st = "walk"
<1> DEFINE e == [f EXCEPT !.st = "walk", !.todo = <<f.m>>]
<1>1. <<f.m>> \in Seq(Models)  BY DEF FrameSet
<1>2. e \in FrameSet  BY <1>1 DEF FrameSet, Stages
<1>3. e.m = f.m /\ e.st = "walk" /\ e.todo = <<f.m>>  BY DEF FrameSet
<1>4. VisitsKids(e)  BY <1>3 DEF VisitsKids, ToSet
<1>5. LateOnce(e)  BY DEF FrameSet, LateOnce, LateMethods
<1>6. QED  BY <1>2, <1>3, <1>4, <1>5

LEMMA QueuedFits ==
    ASSUME NEW f \in FrameSet, VisitsKids(f), LateOnce(f), f.st = "start"
    PROVE  LET e == [f EXCEPT !.st = "queued"]
           IN  e \in FrameSet /\ VisitsKids(e) /\ LateOnce(e) /\ e.m = f.m /\ e.st = "queued"
BY DEF FrameSet, VisitsKids, LateOnce, LateMethods, Stages

\* What a concatenation has is what its parts have.
LEMMA ToSetConcat ==
    ASSUME NEW S, NEW s \in Seq(S), NEW t \in Seq(S)
    PROVE  ToSet(s \o t) \subseteq ToSet(s) \cup ToSet(t)
<1>1. /\ Len(s) \in Nat /\ Len(t) \in Nat /\ DOMAIN s = 1 .. Len(s) /\ DOMAIN t = 1 .. Len(t)
      /\ DOMAIN (s \o t) = 1 .. Len(s) + Len(t)
    BY ConcatProperties, LenProperties
<1>2. \A i \in 1 .. Len(s) + Len(t) : (s \o t)[i] = IF i <= Len(s) THEN s[i] ELSE t[i - Len(s)]
    BY ConcatProperties
<1> DEFINE u == s \o t
<1> HIDE DEF u
<1>3. ASSUME NEW i \in 1 .. Len(s) + Len(t) PROVE u[i] \in ToSet(s) \cup ToSet(t)
    <2>1. CASE i <= Len(s)
        <3>1. i \in 1 .. Len(s)  BY <1>1, <2>1
        <3>2. u[i] = s[i]  BY <1>2, <2>1 DEF u
        <3>3. QED  BY <1>1, <3>1, <3>2 DEF ToSet
    <2>2. CASE ~(i <= Len(s))
        <3>1. i - Len(s) \in 1 .. Len(t)  BY <1>1, <2>2
        <3>2. u[i] = t[i - Len(s)]  BY <1>2, <2>2 DEF u
        <3>3. QED  BY <1>1, <3>1, <3>2 DEF ToSet
    <2>3. QED  BY <2>1, <2>2
<1>4. QED  BY <1>1, <1>3 DEF ToSet, u

\* Visiting a registrator adds its children to those to visit.
LEMMA VisitFits ==
    ASSUME NEW f \in FrameSet, VisitsKids(f), LateOnce(f), f.st = "walk", f.todo # <<>>, NEW n \in Nat
    PROVE  LET e == [f EXCEPT !.todo = Children[Head(f.todo)] \o Tail(@), !.left = n]
           IN  e \in FrameSet /\ VisitsKids(e) /\ LateOnce(e) /\ e.m = f.m /\ e.st = "walk"
<1> DEFINE c == Head(f.todo)
           t == Children[c] \o Tail(f.todo)
           e == [f EXCEPT !.todo = t, !.left = n]
<1>1. f.todo \in Seq(Models) /\ c \in Models /\ Tail(f.todo) \in Seq(Models)  BY DEF FrameSet
<1>2. Children[c] \in Seq(Models)  BY <1>1, LocksAssumption
<1>3. t \in Seq(Models)  BY <1>1, <1>2
<1>4. ToSet(t) \subseteq ToSet(Children[c]) \cup ToSet(f.todo)
    <2>1. ToSet(t) \subseteq ToSet(Children[c]) \cup ToSet(Tail(f.todo))  BY <1>1, <1>2, ToSetConcat
    <2>2. ToSet(Tail(f.todo)) \subseteq ToSet(f.todo)  BY <1>1 DEF ToSet
    <2>3. QED  BY <2>1, <2>2
<1>5. ToSet(Children[c]) \subseteq Kids  BY <1>1 DEF Kids
<1> HIDE DEF t, c
<1>6. e \in FrameSet /\ e.m = f.m /\ e.st = "walk" /\ e.todo = t  BY <1>3 DEF FrameSet
<1>7. VisitsKids(e)  BY <1>4, <1>5, <1>6 DEF VisitsKids
<1>8. /\ f.ok /\ e.ok = f.ok /\ e.pos = f.pos /\ e.err = f.err
      /\ e.second = f.second /\ e.early = f.early /\ e.late = f.late
  BY DEF FrameSet, LateOnce, LateMethods
<1>9. LateOnce(e)  BY <1>6, <1>8 DEF LateOnce, LateMethods
<1>10. QED  BY <1>6, <1>7, <1>9 DEF t, c

LEMMA NilFits ==
    ASSUME NEW f \in FrameSet, VisitsKids(f), LateOnce(f), f.st = "walk", f.todo # <<>>
    PROVE  LET e == [f EXCEPT !.todo = Tail(@)]
           IN  e \in FrameSet /\ VisitsKids(e) /\ LateOnce(e) /\ e.m = f.m /\ e.st = "walk"
<1> DEFINE t == Tail(f.todo)
           e == [f EXCEPT !.todo = t]
<1>1. t \in Seq(Models) /\ ToSet(t) \subseteq ToSet(f.todo)  BY DEF FrameSet, ToSet
<1> HIDE DEF t
<1>2. e \in FrameSet /\ e.m = f.m /\ e.st = "walk" /\ e.todo = t  BY <1>1 DEF FrameSet
<1>3. VisitsKids(e)  BY <1>1, <1>2 DEF VisitsKids
<1>4. /\ f.ok /\ e.ok = f.ok /\ e.pos = f.pos /\ e.err = f.err
      /\ e.second = f.second /\ e.early = f.early /\ e.late = f.late
  BY DEF FrameSet, LateOnce, LateMethods
<1>5. LateOnce(e)  BY <1>2, <1>4 DEF LateOnce, LateMethods
<1>6. QED  BY <1>2, <1>3, <1>5 DEF t

\* A callback begins: late if there is an error.
LEMMA CallbackFits ==
    ASSUME NEW f \in FrameSet, VisitsKids(f), LateOnce(f), f.st = "walk", f.left > 0
    PROVE  LET e == [f EXCEPT !.st = "callback", !.left = @ - 1, !.late = @ + Late(f)]
           IN  e \in FrameSet /\ VisitsKids(e) /\ LateOnce(e) /\ e.m = f.m /\ e.st = "callback"
<1> DEFINE n == f.left - 1
           l == f.late + Late(f)
           e == [f EXCEPT !.st = "callback", !.left = n, !.late = l]
<1>1. n \in Nat /\ l \in Nat  BY DEF FrameSet, Late
<1>2. f.ok /\ l <= 1 + LateMethods(f) /\ (f.err \/ l = 0)
    BY DEF FrameSet, LateOnce, LateMethods, Late
<1> HIDE DEF n, l
<1>3. e \in FrameSet /\ e.m = f.m /\ e.st = "callback"  BY <1>1 DEF FrameSet, Stages
<1>4. /\ e.todo = f.todo /\ e.ok = f.ok /\ e.pos = f.pos /\ e.err = f.err
      /\ e.second = f.second /\ e.early = f.early /\ e.late = l
  BY DEF FrameSet
<1>5. VisitsKids(e)  BY <1>3, <1>4 DEF VisitsKids
<1>6. LateOnce(e)  BY <1>2, <1>3, <1>4 DEF LateOnce, LateMethods
<1>7. QED  BY <1>3, <1>5, <1>6 DEF n, l

\* X begins, with an error only if the scope came with it.
LEMMA MethodFits ==
    ASSUME NEW f \in FrameSet, VisitsKids(f), LateOnce(f), f.st = "walk", f.ok, f.pos = "before"
    PROVE  LET e == [f EXCEPT !.st = "method", !.late = @ + Late(f)]
           IN  e \in FrameSet /\ VisitsKids(e) /\ LateOnce(e) /\ e.m = f.m /\ e.st = "method"
<1> DEFINE l == f.late + Late(f)
           e == [f EXCEPT !.st = "method", !.late = l]
<1>1. l \in Nat /\ l <= LateMethods(f) /\ (f.err \/ l = 0)  BY DEF FrameSet, LateOnce, LateMethods, Late
<1> HIDE DEF l
<1>2. e \in FrameSet /\ e.m = f.m /\ e.st = "method"  BY <1>1 DEF FrameSet, Stages
<1>3. /\ e.todo = f.todo /\ e.ok = f.ok /\ e.pos = f.pos /\ e.err = f.err
      /\ e.second = f.second /\ e.early = f.early /\ e.late = l
  BY DEF FrameSet
<1>4. VisitsKids(e)  BY <1>2, <1>3 DEF VisitsKids
<1>5. LateOnce(e)  BY <1>1, <1>2, <1>3 DEF LateOnce, LateMethods
<1>6. QED  BY <1>2, <1>4, <1>5 DEF l

\* A callback returns, perhaps with an error: that ends the Call.
LEMMA CallbackDoneFits ==
    ASSUME NEW f \in FrameSet, VisitsKids(f), LateOnce(f), f.st = "callback", NEW b \in BOOLEAN
    PROVE  LET d == [f EXCEPT !.st = "walk", !.acted = FALSE, !.err = @ \/ b]
               e == IF d.err THEN [d EXCEPT !.ok = FALSE, !.left = 0, !.todo = <<>>] ELSE d
           IN  e \in FrameSet /\ VisitsKids(e) /\ LateOnce(e) /\ e.m = f.m /\ e.st = "walk"
<1> DEFINE err == f.err \/ b
           d == [f EXCEPT !.st = "walk", !.acted = FALSE, !.err = err]
           e == IF d.err THEN [d EXCEPT !.ok = FALSE, !.left = 0, !.todo = <<>>] ELSE d
<1>1. err \in BOOLEAN /\ (f.err => err)  OBVIOUS
<1> HIDE DEF err
<1>2. /\ d \in FrameSet /\ d.m = f.m /\ d.st = "walk" /\ d.err = err
      /\ d.ok = f.ok /\ d.pos = f.pos /\ d.late = f.late /\ d.todo = f.todo
      /\ d.second = f.second /\ d.early = f.early
    BY <1>1 DEF FrameSet, Stages
<1> HIDE DEF d
<1>3. CASE err
    <2>1. <<>> \in Seq(Models)  OBVIOUS
    <2>2. /\ e \in FrameSet /\ e.m = f.m /\ e.st = "walk" /\ e.left = 0 /\ e.todo = <<>>
          /\ ~e.ok /\ e.late = f.late /\ e.pos = f.pos /\ e.err /\ e.second = f.second /\ e.early = f.early
        BY <1>2, <1>3, <2>1 DEF FrameSet
    <2>3. VisitsKids(e)  BY <2>2 DEF VisitsKids, ToSet
    <2>4. LateOnce(e)  BY <2>2 DEF LateOnce, LateMethods
    <2>5. QED  BY <2>2, <2>3, <2>4 DEF d, err
<1>4. CASE ~err
    <2>1. e = d /\ ~f.err  BY <1>1, <1>2, <1>4
    <2>2. VisitsKids(d)  BY <1>2 DEF VisitsKids
    <2>3. LateOnce(d)  BY <1>2, <1>4, <2>1 DEF LateOnce, LateMethods
    <2>4. QED  BY <1>2, <2>1, <2>2, <2>3 DEF d, err
<1>5. QED  BY <1>3, <1>4

\* X or AormX returns, perhaps with an error: After is called.
LEMMA AfterFits ==
    ASSUME NEW f \in FrameSet, VisitsKids(f), LateOnce(f), f.st = "method", NEW b \in BOOLEAN
    PROVE  LET e == [f EXCEPT !.acted = FALSE, !.err = @ \/ b, !.st = "start", !.pos = "after"]
           IN  e \in FrameSet /\ VisitsKids(e) /\ LateOnce(e) /\ e.m = f.m /\ e.st = "start"
<1> DEFINE err == f.err \/ b
           e == [f EXCEPT !.acted = FALSE, !.err = err, !.st = "start", !.pos = "after"]
<1>1. err \in BOOLEAN /\ (f.err => err)  OBVIOUS
<1>2. f.ok /\ f.late <= LateMethods(f) /\ (f.early => f.err) /\ (~f.err => f.late = 0)  BY DEF LateOnce
<1> HIDE DEF err
<1>3. /\ e \in FrameSet /\ e.m = f.m /\ e.st = "start" /\ e.err = err /\ e.second = f.second
      /\ e.ok = f.ok /\ e.pos = "after" /\ e.late = f.late /\ e.todo = f.todo /\ e.early = f.early
    BY <1>1 DEF FrameSet, Stages, Positions
<1>4. VisitsKids(e)  BY <1>3 DEF VisitsKids
<1>5. f.late \in Nat  BY DEF FrameSet
<1>6. LateOnce(e)  BY <1>1, <1>2, <1>3, <1>5 DEF LateOnce, LateMethods
<1>7. QED  BY <1>3, <1>4, <1>6 DEF err

\* X returns and AormX begins, also when X has failed.
LEMMA SecondFits ==
    ASSUME NEW f \in FrameSet, VisitsKids(f), LateOnce(f), f.st = "method", ~f.second, NEW b \in BOOLEAN
    PROVE  LET d == [f EXCEPT !.acted = FALSE, !.err = @ \/ b]
               e == [d EXCEPT !.second = TRUE, !.late = @ + Late(d)]
           IN  e \in FrameSet /\ VisitsKids(e) /\ LateOnce(e) /\ e.m = f.m /\ e.st = "method"
<1> DEFINE err == f.err \/ b
           d == [f EXCEPT !.acted = FALSE, !.err = err]
           l == d.late + Late(d)
           e == [d EXCEPT !.second = TRUE, !.late = l]
<1>1. err \in BOOLEAN /\ (f.err => err)  OBVIOUS
<1>2. f.ok /\ f.pos = "before" /\ f.late <= LateMethods(f) /\ (f.early => f.err) /\ (~f.err => f.late = 0)
    BY DEF LateOnce
<1> HIDE DEF err
<1>3. /\ d \in FrameSet /\ d.m = f.m /\ d.st = "method" /\ d.err = err /\ d.ok = f.ok /\ d.pos = f.pos
      /\ d.late = f.late /\ d.todo = f.todo /\ d.second = f.second /\ d.early = f.early
    BY <1>1 DEF FrameSet
<1> HIDE DEF d
<1>4. f.late \in Nat  BY DEF FrameSet
<1>5. l \in Nat /\ l <= LateMethods(f) + 1 /\ (~err => l = 0)
    BY <1>1, <1>2, <1>3, <1>4 DEF Late, LateMethods
<1> HIDE DEF l
<1>6. /\ e \in FrameSet /\ e.m = f.m /\ e.st = "method" /\ e.err = err /\ e.ok = f.ok /\ e.pos = "before"
      /\ e.late = l /\ e.todo = f.todo /\ e.second /\ e.early = f.early
    BY <1>2, <1>3, <1>5 DEF FrameSet
<1>7. VisitsKids(e)  BY <1>6 DEF VisitsKids
<1>8. LateMethods(e) = LateMethods(f) + 1 /\ LateMethods(f) \in Nat  BY <1>6 DEF LateMethods
<1>9. LateOnce(e)
    <2> HIDE DEF e
    <2>1. e.late <= LateMethods(e) /\ LateMethods(e) \in Nat /\ e.late \in Nat  BY <1>5, <1>6, <1>8
    <2>2. e.early => e.err  BY <1>1, <1>2, <1>6
    <2>3. ~e.err => e.late = 0  BY <1>5, <1>6
    <2>4. e.late <= 1 + LateMethods(e)  BY <2>1
    <2>5. QED  BY <1>2, <1>6, <2>1, <2>2, <2>3, <2>4 DEF LateOnce
<1>10. QED  BY <1>6, <1>7, <1>9 DEF d, l, err
-----------------------------------------------------------------------------
(* Stacks *)

\* The innermost callMethod.
LEMMA TopFacts ==
    ASSUME Typed, NEW g \in Goroutine, Busy(g)
    PROVE  /\ Len(stack[g]) \in Nat /\ Len(stack[g]) > 0 /\ Len(stack[g]) \in 1 .. Len(stack[g])
           /\ DOMAIN stack[g] = 1 .. Len(stack[g])
           /\ Top(g) = stack[g][Len(stack[g])] /\ Top(g) \in FrameSet
<1>1. stack[g] \in Seq(FrameSet) /\ stack[g] # <<>>  BY DEF Typed, Busy
<1>2. QED  BY <1>1 DEF Top, Last

\* f takes the place of the innermost callMethod of g.
Becomes(g, f) == stack'[g] = [stack[g] EXCEPT ![Len(stack[g])] = f]

LEMMA BecomesTyped ==
    ASSUME Typed, NEW g \in Goroutine, Busy(g), NEW f \in FrameSet, Becomes(g, f)
    PROVE  /\ stack'[g] \in Seq(FrameSet) /\ Len(stack'[g]) = Len(stack[g])
           /\ DOMAIN stack'[g] = 1 .. Len(stack[g])
           /\ stack'[g][Len(stack[g])] = f /\ Top(g)' = f /\ Busy(g)'
           /\ \A i \in 1 .. Len(stack[g]) : i # Len(stack[g]) => stack'[g][i] = stack[g][i]
<1>1. stack[g] \in Seq(FrameSet) /\ Len(stack[g]) \in 1 .. Len(stack[g])  BY TopFacts DEF Typed
<1>2. /\ stack'[g] \in Seq(FrameSet) /\ Len(stack'[g]) = Len(stack[g])
      /\ \A i \in 1 .. Len(stack[g]) : stack'[g][i] = IF i = Len(stack[g]) THEN f ELSE stack[g][i]
    BY <1>1, ExceptSeq DEF Becomes
<1>3. Busy(g)'
    <2>1. Len(stack'[g]) > 0  BY <1>2, TopFacts
    <2>2. QED  BY <2>1, EmptySeq DEF Busy
<1>4. DOMAIN stack'[g] = 1 .. Len(stack[g])  BY <1>2
<1>5. QED  BY <1>1, <1>2, <1>3, <1>4 DEF Top, Last

LEMMA BecomesFits ==
    ASSUME Typed, NEW g \in Goroutine, Busy(g), Fits(g),
           NEW f \in FrameSet, VisitsKids(f), LateOnce(f), Becomes(g, f),
           reg'[g].st # "idle" => f.st \in {"callback", "method"}
    PROVE  Fits(g)'
<1>1. ASSUME NEW i \in 1 .. Len(stack'[g])
      PROVE  /\ VisitsKids(stack'[g][i]) /\ LateOnce(stack'[g][i])
             /\ i < Len(stack'[g]) => stack'[g][i].st \in {"callback", "method"}
    BY BecomesTyped DEF Fits
<1>2. QED  BY <1>1, BecomesTyped DEF Fits

\* A Call that holds the lock.
Holds(f)  == f.st \in {"walk", "callback"}

LEMMA HoldingFinite ==
    ASSUME Typed, NEW g \in Goroutine, NEW m
    PROVE  IsFiniteSet(Holding(g, m)) /\ Cardinality(Holding(g, m)) \in Nat
<1>1. stack[g] \in Seq(FrameSet)  BY DEF Typed
<1>2. Len(stack[g]) \in Nat /\ DOMAIN stack[g] = 1 .. Len(stack[g])  BY <1>1
<1>3. IsFiniteSet(1 .. Len(stack[g]))  BY <1>2, FS_Interval
<1>4. Holding(g, m) \subseteq 1 .. Len(stack[g])  BY <1>2 DEF Holding
<1>5. QED  BY <1>3, <1>4, FS_Subset, FS_CardinalityType

\* A Call that goes on keeps its lock, one that begins takes one more, one that ends gives it back.
LEMMA BecomesCounts ==
    ASSUME Typed, NEW g \in Goroutine, Busy(g), Counts(g),
           NEW f \in FrameSet, Becomes(g, f), f.m = Top(g).m,
           \A m \in Models : readers'[m][g] = IF m # f.m \/ (Holds(f) <=> Holds(Top(g))) THEN readers[m][g]
                                              ELSE IF Holds(f) THEN readers[m][g] + 1 ELSE readers[m][g] - 1
    PROVE  Counts(g)'
<1> DEFINE n == Len(stack[g])
<1> SUFFICES ASSUME NEW m \in Models PROVE readers'[m][g] = Cardinality(Holding(g, m)')
    BY DEF Counts
<1>1. IsFiniteSet(Holding(g, m)) /\ Cardinality(Holding(g, m)) \in Nat  BY HoldingFinite
<1>2. readers[m][g] = Cardinality(Holding(g, m))  BY DEF Counts
<1>3. n \in Holding(g, m) <=> Top(g).m = m /\ Holds(Top(g))  BY TopFacts DEF Holding, Holds
<1>4. n \in Holding(g, m)' <=> f.m = m /\ Holds(f)  BY TopFacts, BecomesTyped DEF Holding, Holds
<1>5. \A i : i # n => (i \in Holding(g, m)' <=> i \in Holding(g, m))
    BY TopFacts, BecomesTyped DEF Holding
<1> HIDE DEF n
<1>6. CASE m # f.m \/ (Holds(f) <=> Holds(Top(g)))
    <2>1. Holding(g, m)' = Holding(g, m)  BY <1>3, <1>4, <1>5, <1>6
    <2>2. QED  BY <1>2, <1>6, <2>1
<1>7. CASE m = f.m /\ Holds(f) /\ ~Holds(Top(g))
    <2>1. Holding(g, m)' = Holding(g, m) \cup {n} /\ n \notin Holding(g, m)
        BY <1>3, <1>4, <1>5, <1>7
    <2>2. Cardinality(Holding(g, m)') = Cardinality(Holding(g, m)) + 1  BY <1>1, <2>1, FS_AddElement
    <2>3. QED  BY <1>2, <1>7, <2>2
<1>8. CASE m = f.m /\ ~Holds(f) /\ Holds(Top(g))
    <2>1. Holding(g, m)' = Holding(g, m) \ {n} /\ n \in Holding(g, m)
        BY <1>3, <1>4, <1>5, <1>8
    <2>2. Cardinality(Holding(g, m)') = Cardinality(Holding(g, m)) - 1  BY <1>1, <2>1, FS_RemoveElement
    <2>3. QED  BY <1>2, <1>8, <2>2
<1>9. QED  BY <1>6, <1>7, <1>8

LEMMA SameStack ==
    ASSUME NEW h \in Goroutine, Fits(h), Counts(h), stack'[h] = stack[h], reg'[h] = reg[h],
           \A m \in Models : readers'[m][h] = readers[m][h]
    PROVE  Fits(h)' /\ Counts(h)'
<1>1. Fits(h)'  BY DEF Fits, Busy, Top
<1>2. \A m \in Models : Holding(h, m)' = Holding(h, m)  BY DEF Holding
<1>3. Counts(h)'  BY <1>2 DEF Counts
<1>4. QED  BY <1>1, <1>3

\* A step that changes the innermost callMethod of one goroutine keeps them in order.
LEMMA OnTopInOrder ==
    ASSUME Typed, InOrder, NEW g \in Goroutine, Busy(g),
           NEW f \in FrameSet, VisitsKids(f), LateOnce(f), f.m = Top(g).m,
           stack' = OnTop(g, f),
           reg'[g].st # "idle" => f.st \in {"callback", "method"},
           \A h \in Goroutine \ {g} : reg'[h] = reg[h],
           \A m \in Models, h \in Goroutine :
              readers'[m][h] = IF h # g \/ m # f.m \/ (Holds(f) <=> Holds(Top(g))) THEN readers[m][h]
                               ELSE IF Holds(f) THEN readers[m][h] + 1 ELSE readers[m][h] - 1
    PROVE  InOrder'
<1>1. stack' = [stack EXCEPT ![g] = [stack[g] EXCEPT ![Len(stack[g])] = f]] /\ stack \in [Goroutine -> Seq(FrameSet)]
    BY DEF OnTop, Typed
<1>2. Becomes(g, f) /\ \A h \in Goroutine \ {g} : stack'[h] = stack[h]  BY <1>1 DEF Becomes
<1>3. stack'[g] \in Seq(FrameSet) /\ Len(stack'[g]) = Len(stack[g])  BY <1>2, BecomesTyped
<1>4. stack' \in [Goroutine -> Seq(FrameSet)]  BY <1>1, <1>2, <1>3
<1>5. Fits(g)'  BY <1>2, BecomesFits DEF InOrder
<1>6. Counts(g)'  BY <1>2, BecomesCounts DEF InOrder
<1>7. \A h \in Goroutine \ {g} : Fits(h)' /\ Counts(h)'  BY <1>2, SameStack DEF InOrder
<1>8. QED  BY <1>2, <1>3, <1>4, <1>5, <1>6, <1>7 DEF InOrder

LEMMA SaveInOrder ==
    ASSUME Typed, InOrder, NEW g \in Goroutine, NEW m \in Models, Save(g, m)
    PROVE  InOrder'
<1>0. PICK b \in BOOLEAN : stack' = [stack EXCEPT ![g] = <<Frame(m, b)>>]  BY DEF Save
<1> DEFINE f == Frame(m, b)
<1>1. /\ stack' = [stack EXCEPT ![g] = <<f>>] /\ stack[g] = <<>> /\ reg[g].st = "idle"
      /\ UNCHANGED <<readers, reg>>
    BY <1>0 DEF Save, Busy
<1>2. f \in FrameSet /\ VisitsKids(f) /\ LateOnce(f) /\ ~Holds(f)
    BY FrameFits DEF Holds
<1> HIDE DEF f
<1>3. stack'[g] = <<f>> /\ \A h \in Goroutine \ {g} : stack'[h] = stack[h]
    BY <1>1 DEF Typed
<1>4. stack' \in [Goroutine -> Seq(FrameSet)]  BY <1>1, <1>2 DEF Typed
<1>5. Len(stack'[g]) = 1 /\ DOMAIN stack'[g] = {1} /\ stack'[g][1] = f  BY <1>3
<1>6. 1 <= MaxDepth[g]  BY LocksAssumption
<1>7. Fits(g)'
    <2>1. ASSUME NEW i \in 1 .. Len(stack'[g])
          PROVE  /\ VisitsKids(stack'[g][i]) /\ LateOnce(stack'[g][i])
                 /\ i < Len(stack'[g]) => stack'[g][i].st \in {"callback", "method"}
        <3>1. i = 1  BY <1>5
        <3>2. QED  BY <1>2, <1>5, <3>1
    <2>2. QED  BY <1>1, <2>1 DEF Fits
<1>8. Counts(g)'
    <2>1. \A k \in Models : Holding(g, k) = {} /\ Holding(g, k)' = {}
        BY <1>1, <1>2, <1>5 DEF Holding, Holds
    <2>2. QED  BY <1>1, <2>1 DEF InOrder, Counts
<1>9. \A h \in Goroutine \ {g} : Fits(h)' /\ Counts(h)'  BY <1>1, <1>3, SameStack DEF InOrder
<1>10. QED  BY <1>3, <1>4, <1>5, <1>6, <1>7, <1>8, <1>9 DEF InOrder

LEMMA NestedInOrder ==
    ASSUME Typed, InOrder, NEW g \in Goroutine, NEW m \in Models, Nested(g, m)
    PROVE  InOrder'
<1> DEFINE n == Len(stack[g])
           f == [Top(g) EXCEPT !.acted = TRUE]
           s == [stack[g] EXCEPT ![n] = f]
<1>0. PICK b \in BOOLEAN : stack' = [stack EXCEPT ![g] = Append(OnTop(g, f)[g], Frame(m, b))]
    BY DEF Nested
<1> DEFINE new == Frame(m, b)
<1>1. /\ Busy(g) /\ reg[g].st = "idle" /\ Top(g).st \in {"callback", "method"} /\ n < MaxDepth[g]
      /\ stack' = [stack EXCEPT ![g] = Append(OnTop(g, f)[g], new)]
      /\ UNCHANGED <<readers, reg>>
    BY <1>0 DEF Nested, Acting, At
<1>2. n \in Nat /\ n > 0 /\ n \in 1 .. n /\ DOMAIN stack[g] = 1 .. n /\ Top(g) = stack[g][n] /\ Top(g) \in FrameSet
    BY <1>1, TopFacts
<1>3. f \in FrameSet /\ VisitsKids(f) /\ LateOnce(f) /\ f.m = Top(g).m /\ f.st = Top(g).st
    BY <1>2, ActedFits DEF InOrder, Fits
<1>4. new \in FrameSet /\ VisitsKids(new) /\ LateOnce(new) /\ new.st = "start"
    BY FrameFits
<1> HIDE DEF new
<1>5. OnTop(g, f)[g] = s  BY DEF OnTop, Typed
<1>6. stack[g] \in Seq(FrameSet)  BY DEF Typed
<1> HIDE DEF f
<1>7. /\ s \in Seq(FrameSet) /\ Len(s) = n
      /\ \A i \in 1 .. n : s[i] = IF i = n THEN f ELSE stack[g][i]
    BY <1>2, <1>3, <1>6, ExceptSeq
<1> HIDE DEF s
<1>8. stack'[g] = Append(s, new) /\ \A h \in Goroutine \ {g} : stack'[h] = stack[h]
    BY <1>1, <1>5 DEF Typed
<1>9. /\ stack'[g] \in Seq(FrameSet) /\ Len(stack'[g]) = n + 1 /\ DOMAIN stack'[g] = 1 .. n + 1
      /\ stack'[g][n + 1] = new /\ \A i \in 1 .. n : stack'[g][i] = s[i]
    BY <1>4, <1>7, <1>8
<1>10. stack' \in [Goroutine -> Seq(FrameSet)]  BY <1>1, <1>8, <1>9 DEF Typed
<1>11. Fits(g)'
    <2>1. ASSUME NEW i \in 1 .. n + 1
          PROVE  /\ VisitsKids(stack'[g][i]) /\ LateOnce(stack'[g][i])
                 /\ i < n + 1 => stack'[g][i].st \in {"callback", "method"}
        <3>1. CASE i = n + 1  BY <1>2, <1>4, <1>9, <3>1
        <3>2. CASE i = n  BY <1>1, <1>2, <1>3, <1>7, <1>9, <3>2
        <3>3. CASE i \in 1 .. n /\ i # n
            <4>1. stack'[g][i] = stack[g][i] /\ i < n  BY <1>2, <1>7, <1>9, <3>3
            <4>2. QED  BY <3>3, <4>1 DEF InOrder, Fits
        <3>4. QED  BY <1>2, <3>1, <3>2, <3>3
    <2>2. QED  BY <1>1, <1>9, <2>1 DEF Fits
<1>12. Counts(g)'
    <2>1. ASSUME NEW k \in Models PROVE Holding(g, k)' = Holding(g, k)
        <3>1. n + 1 \notin Holding(g, k)' /\ n + 1 \notin Holding(g, k)
            BY <1>2, <1>4, <1>9 DEF Holding
        <3>2. \A i \in 1 .. n : stack'[g][i].m = stack[g][i].m /\ stack'[g][i].st = stack[g][i].st
            BY <1>2, <1>3, <1>7, <1>9
        <3>3. \A i \in 1 .. n : i \in Holding(g, k)' <=> i \in Holding(g, k)
            BY <1>2, <1>9, <3>2 DEF Holding
        <3>4. Holding(g, k) \subseteq 1 .. n + 1 /\ Holding(g, k)' \subseteq 1 .. n + 1
            BY <1>2, <1>9 DEF Holding
        <3>5. ASSUME NEW i PROVE i \in Holding(g, k)' <=> i \in Holding(g, k)
            <4>1. CASE i \in 1 .. n  BY <3>3, <4>1
            <4>2. CASE i = n + 1  BY <3>1, <4>2
            <4>3. CASE i \notin 1 .. n + 1  BY <3>4, <4>3
            <4>4. i \in 1 .. n + 1 => i \in 1 .. n \/ i = n + 1  BY <1>2
            <4>5. QED  BY <4>1, <4>2, <4>3, <4>4
        <3>6. QED  BY <3>5
    <2>2. QED  BY <1>1, <2>1 DEF InOrder, Counts
<1>13. \A h \in Goroutine \ {g} : Fits(h)' /\ Counts(h)'  BY <1>1, <1>8, SameStack DEF InOrder
<1>14. n + 1 <= MaxDepth[g]  BY <1>1, <1>2, LocksAssumption
<1>15. QED  BY <1>8, <1>9, <1>10, <1>11, <1>12, <1>13, <1>14 DEF InOrder

\* A Call that ends gives its lock back; a Before that is ok is followed by the method.
LEMMA RUnlockInOrder ==
    ASSUME Typed, InOrder, NEW g \in Goroutine, RUnlock(g)
    PROVE  InOrder' /\ readers' \in [Models -> [Goroutine -> Nat]]
<1> DEFINE n == Len(stack[g])
           f == Top(g)
<1>1. /\ Busy(g) /\ reg[g].st = "idle" /\ f.st = "walk" /\ f.left = 0 /\ f.todo = <<>>
      /\ readers' = [readers EXCEPT ![f.m][g] = @ - 1]
      /\ UNCHANGED reg
    BY DEF RUnlock, At
<1>2. n \in Nat /\ n > 0 /\ n \in 1 .. n /\ DOMAIN stack[g] = 1 .. n /\ f = stack[g][n] /\ f \in FrameSet
    BY <1>1, TopFacts
<1>3. VisitsKids(f) /\ LateOnce(f) /\ f.m \in Models  BY <1>2 DEF InOrder, Fits, FrameSet
<1>4. n \in Holding(g, f.m)  BY <1>1, <1>2 DEF Holding
<1>5. readers[f.m][g] \in Nat /\ readers[f.m][g] > 0
    <2>1. Cardinality(Holding(g, f.m)) # 0  BY <1>4, HoldingFinite, FS_EmptySet
    <2>2. QED  BY <1>3, <2>1, HoldingFinite DEF InOrder, Counts
<1>6. readers' \in [Models -> [Goroutine -> Nat]]  BY <1>1, <1>3, <1>5 DEF Typed
<1>7. \A m \in Models, h \in Goroutine :
         readers'[m][h] = IF h # g \/ m # f.m THEN readers[m][h] ELSE readers[m][h] - 1
    BY <1>1, <1>3 DEF Typed
<1>8. CASE f.ok /\ f.pos = "before"
    <2> DEFINE e == [f EXCEPT !.st = "method", !.late = @ + Late(f)]
    <2>1. stack' = OnTop(g, e)  BY <1>8 DEF RUnlock
    <2>2. e \in FrameSet /\ VisitsKids(e) /\ LateOnce(e) /\ e.m = f.m /\ e.st = "method"
        BY <1>1, <1>2, <1>3, <1>8, MethodFits
    <2> HIDE DEF e
    <2>3. ~Holds(e) /\ Holds(f)  BY <1>1, <2>2 DEF Holds
    <2> HIDE DEF f
    <2>4. f = Top(g)  BY DEF f
    <2>5. InOrder'  BY <1>1, <1>7, <2>1, <2>2, <2>3, <2>4, OnTopInOrder
    <2>6. QED  BY <1>6, <2>5
<1>9. CASE ~(f.ok /\ f.pos = "before")
    <2>1. stack' = [stack EXCEPT ![g] = Front(@)]  BY <1>9 DEF RUnlock
    <2>2. stack'[g] = Front(stack[g]) /\ \A h \in Goroutine \ {g} : stack'[h] = stack[h]
        BY <2>1 DEF Typed
    <2>3. stack[g] \in Seq(FrameSet) /\ Front(stack[g]) = SubSeq(stack[g], 1, n - 1)  BY DEF Typed, Front
    <2> HIDE DEF n, f
    <2>4. \A i \in 1 .. n : stack[g][i] \in FrameSet  BY <1>2, <2>3 DEF n
    <2>5. \A i \in 1 .. n - 1 : stack[g][i] \in FrameSet  BY <1>2, <2>4
    <2>6. /\ stack'[g] \in Seq(FrameSet) /\ Len(stack'[g]) = n - 1
          /\ \A i \in 1 .. n - 1 : stack'[g][i] = stack[g][i]
        <3>1. /\ SubSeq(stack[g], 1, n - 1) \in Seq(FrameSet)
              /\ Len(SubSeq(stack[g], 1, n - 1)) = IF 1 <= n - 1 THEN (n - 1) - 1 + 1 ELSE 0
              /\ \A i \in 1 .. (n - 1) - 1 + 1 : SubSeq(stack[g], 1, n - 1)[i] = stack[g][1 + i - 1]
            <4>1. n - 1 \in Int  BY <1>2
            <4>2. QED  BY <2>5, <4>1, SubSeqProperties
        <3>2. \A i \in 1 .. n - 1 : 1 + i - 1 = i /\ i \in 1 .. (n - 1) - 1 + 1  BY <1>2
        <3>3. (IF 1 <= n - 1 THEN (n - 1) - 1 + 1 ELSE 0) = n - 1  BY <1>2
        <3>4. QED  BY <2>2, <2>3, <3>1, <3>2, <3>3
    <2>7. DOMAIN stack'[g] = 1 .. n - 1  BY <2>6, LenProperties
    <2>8. stack' \in [Goroutine -> Seq(FrameSet)]  BY <2>1, <2>2, <2>6 DEF Typed
    <2>9. Fits(g)'
        <3>1. ASSUME NEW i \in 1 .. n - 1
              PROVE  /\ VisitsKids(stack'[g][i]) /\ LateOnce(stack'[g][i])
                     /\ stack'[g][i].st \in {"callback", "method"}
            <4>1. i \in 1 .. n /\ i < n  BY <1>2
            <4>2. QED  BY <2>6, <4>1 DEF InOrder, Fits, n
        <3>2. QED  BY <1>1, <2>6, <3>1 DEF Fits
    <2>10. Counts(g)'
        <3> SUFFICES ASSUME NEW m \in Models PROVE readers'[m][g] = Cardinality(Holding(g, m)')
            BY DEF Counts
        <3>1. IsFiniteSet(Holding(g, m)) /\ readers[m][g] = Cardinality(Holding(g, m))
            BY HoldingFinite DEF InOrder, Counts
        <3>2. Holding(g, m)' = Holding(g, m) \ {n}
            <4>1. ASSUME NEW i PROVE i \in Holding(g, m)' <=> i \in Holding(g, m) /\ i # n
                <5>1. i \in 1 .. n - 1 <=> i \in 1 .. n /\ i # n  BY <1>2
                <5>2. QED  BY <1>2, <2>6, <2>7, <5>1 DEF Holding
            <4>2. QED  BY <4>1
        <3>3. n \in Holding(g, m) <=> m = f.m  BY <1>1, <1>2 DEF Holding
        <3>4. CASE m = f.m
            <4>1. Cardinality(Holding(g, m)') = Cardinality(Holding(g, m)) - 1
                BY <3>1, <3>2, <3>3, <3>4, FS_RemoveElement
            <4>2. QED  BY <1>7, <3>1, <3>4, <4>1
        <3>5. CASE m # f.m
            <4>1. Holding(g, m)' = Holding(g, m)  BY <3>2, <3>3, <3>5
            <4>2. QED  BY <1>7, <3>1, <3>5, <4>1
        <3>6. QED  BY <3>4, <3>5
    <2>11. \A h \in Goroutine \ {g} : Fits(h)' /\ Counts(h)'  BY <1>1, <1>7, <2>2, SameStack DEF InOrder
    <2>12. n - 1 <= MaxDepth[g]
        <3>1. n <= MaxDepth[g] /\ MaxDepth[g] \in Nat  BY LocksAssumption DEF InOrder, n
        <3>2. QED  BY <1>2, <3>1
    <2>13. InOrder'  BY <2>2, <2>6, <2>8, <2>9, <2>10, <2>11, <2>12 DEF InOrder
    <2>14. QED  BY <1>6, <2>13
<1>10. QED  BY <1>8, <1>9

LEMMA RLockInOrder ==
    ASSUME Typed, InOrder, NEW g \in Goroutine, RLock(g)
    PROVE  InOrder' /\ readers' \in [Models -> [Goroutine -> Nat]]
<1> DEFINE f == Top(g)
<1>1. Busy(g) /\ reg[g].st = "idle" /\ f.st = "start" /\ UNCHANGED reg  BY DEF RLock, At
<1>2. f \in FrameSet /\ VisitsKids(f) /\ LateOnce(f) /\ f.m \in Models
    BY <1>1, TopFacts DEF InOrder, Fits, FrameSet
<1>3. CASE writer[f.m] = None
    <2> DEFINE e == [f EXCEPT !.st = "walk", !.todo = <<f.m>>]
    <2>1. readers' = [readers EXCEPT ![f.m][g] = @ + 1] /\ stack' = OnTop(g, e)  BY <1>3 DEF RLock
    <2>2. e \in FrameSet /\ VisitsKids(e) /\ LateOnce(e) /\ e.m = f.m /\ e.st = "walk"
        BY <1>1, <1>2, WalkFits
    <2> HIDE DEF e
    <2>3. Holds(e) /\ ~Holds(f)  BY <1>1, <2>2 DEF Holds
    <2> HIDE DEF f
    <2>4. f = Top(g)  BY DEF f
    <2>5. \A m \in Models, h \in Goroutine :
             readers'[m][h] = IF h # g \/ m # f.m THEN readers[m][h] ELSE readers[m][h] + 1
        BY <1>2, <2>1 DEF Typed
    <2>6. InOrder'  BY <1>1, <2>1, <2>2, <2>3, <2>4, <2>5, OnTopInOrder
    <2>7. readers[f.m][g] + 1 \in Nat  BY <1>2 DEF Typed
    <2>8. QED  BY <2>1, <2>6, <2>7 DEF Typed
<1>4. CASE writer[f.m] # None
    <2> DEFINE e == [f EXCEPT !.st = "queued"]
    <2>1. UNCHANGED readers /\ stack' = OnTop(g, e)  BY <1>4 DEF RLock
    <2>2. e \in FrameSet /\ VisitsKids(e) /\ LateOnce(e) /\ e.m = f.m /\ e.st = "queued"
        BY <1>1, <1>2, QueuedFits
    <2> HIDE DEF e
    <2>3. ~Holds(e) /\ ~Holds(f)  BY <1>1, <2>2 DEF Holds
    <2> HIDE DEF f
    <2>4. f = Top(g)  BY DEF f
    <2>5. InOrder'  BY <1>1, <2>1, <2>2, <2>3, <2>4, OnTopInOrder
    <2>6. QED  BY <2>1, <2>5 DEF Typed
<1>5. QED  BY <1>3, <1>4

\* Steps of a callMethod that neither take nor give back a lock.
LEMMA CallInOrder ==
    ASSUME Typed, InOrder, NEW g \in Goroutine,
           Visit(g) \/ Callback(g) \/ CallbackDone(g) \/ MethodDone(g)
    PROVE  InOrder'
<1> DEFINE f == Top(g)
<1>1. /\ Busy(g) /\ reg[g].st = "idle" /\ UNCHANGED <<readers, reg>>
      /\ f.st \in {"walk", "callback", "method"}
    BY DEF Visit, Callback, CallbackDone, MethodDone, At
<1>2. f \in FrameSet /\ VisitsKids(f) /\ LateOnce(f) /\ f.m \in Models
    BY <1>1, TopFacts DEF InOrder, Fits, FrameSet
<1>3. ASSUME NEW e \in FrameSet, VisitsKids(e), LateOnce(e), e.m = f.m, Holds(e) <=> Holds(f), stack' = OnTop(g, e)
      PROVE  InOrder'
    BY <1>1, <1>3, OnTopInOrder
<1>4. CASE Visit(g)
    <2>1. f.st = "walk" /\ f.todo # <<>> /\ Holds(f)  BY <1>4 DEF Visit, At, Holds
    <2>2. Head(f.todo) \in Models  BY <1>2, <2>1 DEF FrameSet
    <2>3. f.pos \in Positions  BY <1>2 DEF FrameSet
    <2>4. cbs[Head(f.todo)][f.pos] \in Nat  BY <2>2, <2>3 DEF Typed
    <2>5. \/ stack' = OnTop(g, [f EXCEPT !.todo = Children[Head(f.todo)] \o Tail(@), !.left = cbs[Head(f.todo)][f.pos]])
          \/ stack' = OnTop(g, [f EXCEPT !.todo = Tail(@)])
        BY <1>4 DEF Visit
    <2>6. CASE stack' = OnTop(g, [f EXCEPT !.todo = Children[Head(f.todo)] \o Tail(@), !.left = cbs[Head(f.todo)][f.pos]])
        <3> DEFINE e == [f EXCEPT !.todo = Children[Head(f.todo)] \o Tail(@), !.left = cbs[Head(f.todo)][f.pos]]
        <3>1. e \in FrameSet /\ VisitsKids(e) /\ LateOnce(e) /\ e.m = f.m /\ e.st = "walk"
            BY <1>2, <2>1, <2>4, VisitFits
        <3>2. Holds(e)  BY <3>1 DEF Holds
        <3> HIDE DEF e
        <3>3. stack' = OnTop(g, e)  BY <2>6 DEF e
        <3>4. QED  BY <1>3, <2>1, <3>1, <3>2, <3>3
    <2>7. CASE stack' = OnTop(g, [f EXCEPT !.todo = Tail(@)])
        <3> DEFINE e == [f EXCEPT !.todo = Tail(@)]
        <3>1. e \in FrameSet /\ VisitsKids(e) /\ LateOnce(e) /\ e.m = f.m /\ e.st = "walk"
            BY <1>2, <2>1, NilFits
        <3>2. Holds(e)  BY <3>1 DEF Holds
        <3> HIDE DEF e
        <3>3. stack' = OnTop(g, e)  BY <2>7 DEF e
        <3>4. QED  BY <1>3, <2>1, <3>1, <3>2, <3>3
    <2>8. QED  BY <2>5, <2>6, <2>7
<1>5. CASE Callback(g)
    <2> DEFINE e == [f EXCEPT !.st = "callback", !.left = @ - 1, !.late = @ + Late(f)]
    <2>1. f.st = "walk" /\ f.left > 0 /\ stack' = OnTop(g, e) /\ Holds(f)  BY <1>5 DEF Callback, At, Holds
    <2>2. e \in FrameSet /\ VisitsKids(e) /\ LateOnce(e) /\ e.m = f.m /\ e.st = "callback"
        BY <1>2, <2>1, CallbackFits
    <2> HIDE DEF e
    <2>3. Holds(e)  BY <2>2 DEF Holds
    <2>4. QED  BY <1>3, <2>1, <2>2, <2>3
<1>6. CASE CallbackDone(g)
    <2>1. PICK b \in BOOLEAN :
             LET d == [f EXCEPT !.st = "walk", !.acted = FALSE, !.err = @ \/ b]
             IN  stack' = OnTop(g, IF d.err THEN [d EXCEPT !.ok = FALSE, !.left = 0, !.todo = <<>>] ELSE d)
        BY <1>6 DEF CallbackDone
    <2> DEFINE d == [f EXCEPT !.st = "walk", !.acted = FALSE, !.err = @ \/ b]
               e == IF d.err THEN [d EXCEPT !.ok = FALSE, !.left = 0, !.todo = <<>>] ELSE d
    <2>2. f.st = "callback" /\ Holds(f)  BY <1>6 DEF CallbackDone, At, Holds
    <2>3. stack' = OnTop(g, e)  BY <2>1
    <2>4. e \in FrameSet /\ VisitsKids(e) /\ LateOnce(e) /\ e.m = f.m /\ e.st = "walk"
        BY <1>2, <2>2, CallbackDoneFits
    <2> HIDE DEF e
    <2>5. Holds(e)  BY <2>4 DEF Holds
    <2>6. QED  BY <1>3, <2>2, <2>3, <2>4, <2>5
<1>7. CASE MethodDone(g)
    <2>1. PICK b \in BOOLEAN :
             LET d == [f EXCEPT !.acted = FALSE, !.err = @ \/ b]
             IN  \/ stack' = OnTop(g, [d EXCEPT !.st = "start", !.pos = "after"])
                 \/ ~d.second /\ stack' = OnTop(g, [d EXCEPT !.second = TRUE, !.late = @ + Late(d)])
        BY <1>7 DEF MethodDone
    <2> DEFINE d == [f EXCEPT !.acted = FALSE, !.err = @ \/ b]
    <2>2. f.st = "method" /\ ~Holds(f) /\ d.second = f.second  BY <1>2, <1>7 DEF MethodDone, At, Holds, FrameSet
    <2>3. CASE stack' = OnTop(g, [d EXCEPT !.st = "start", !.pos = "after"])
        <3> DEFINE e == [f EXCEPT !.acted = FALSE, !.err = @ \/ b, !.st = "start", !.pos = "after"]
        <3>1. e \in FrameSet /\ VisitsKids(e) /\ LateOnce(e) /\ e.m = f.m /\ e.st = "start"
            BY <1>2, <2>2, AfterFits
        <3>2. stack' = OnTop(g, e)
            <4>1. [d EXCEPT !.st = "start", !.pos = "after"] = e  BY <1>2 DEF FrameSet
            <4>2. QED  BY <2>3, <4>1
        <3> HIDE DEF e
        <3>3. ~Holds(e)  BY <3>1 DEF Holds
        <3>4. QED  BY <1>3, <2>2, <3>1, <3>2, <3>3
    <2>4. CASE ~d.second /\ stack' = OnTop(g, [d EXCEPT !.second = TRUE, !.late = @ + Late(d)])
        <3> DEFINE e == [d EXCEPT !.second = TRUE, !.late = @ + Late(d)]
        <3>1. e \in FrameSet /\ VisitsKids(e) /\ LateOnce(e) /\ e.m = f.m /\ e.st = "method"
            BY <1>2, <2>2, <2>4, SecondFits
        <3>2. stack' = OnTop(g, e)  BY <2>4
        <3> HIDE DEF e
        <3>3. ~Holds(e)  BY <3>1 DEF Holds
        <3>4. QED  BY <1>3, <2>2, <3>1, <3>2, <3>3
    <2>5. QED  BY <2>1, <2>3, <2>4, SMTT(30)
<1>8. QED  BY <1>4, <1>5, <1>6, <1>7, SMTT(30)

\* Registers of the program, of callbacks and of methods, and their locks.
LEMMA RegisterInOrder ==
    ASSUME Typed, InOrder, NEW g \in Goroutine, NEW m, NEW pos, Register(g, m, pos)
    PROVE  InOrder'
<1>1. /\ reg' = [reg EXCEPT ![g] = [st |-> "want", m |-> m, pos |-> pos]]
      /\ UNCHANGED readers
    BY DEF Register
<1>2. \A h \in Goroutine \ {g} : reg'[h] = reg[h]  BY <1>1 DEF Typed
<1>3. CASE ~Busy(g) /\ UNCHANGED stack
    <2>1. ~Busy(g)'  BY <1>3 DEF Busy
    <2>2. Fits(g)'  BY <1>3, <2>1 DEF InOrder, Fits
    <2>3. \A k \in Models : Holding(g, k)' = Holding(g, k)  BY <1>3 DEF Holding
    <2>4. Counts(g)'  BY <1>1, <2>3 DEF InOrder, Counts
    <2>5. QED  BY <1>1, <1>2, <1>3, <2>2, <2>4, SameStack DEF InOrder
<1>4. CASE Acting(g) /\ stack' = OnTop(g, [Top(g) EXCEPT !.acted = TRUE])
    <2> DEFINE f == Top(g)
               e == [f EXCEPT !.acted = TRUE]
    <2>1. Busy(g) /\ f.st \in {"callback", "method"}  BY <1>4 DEF Acting, At
    <2>2. f \in FrameSet /\ VisitsKids(f) /\ LateOnce(f)  BY <2>1, TopFacts DEF InOrder, Fits
    <2>3. e \in FrameSet /\ VisitsKids(e) /\ LateOnce(e) /\ e.m = f.m /\ e.st = f.st
        BY <2>2, ActedFits
    <2> HIDE DEF e
    <2>4. stack' = OnTop(g, e)  BY <1>4 DEF e
    <2>5. Holds(e) <=> Holds(f)  BY <2>3 DEF Holds
    <2>6. QED  BY <1>1, <1>2, <2>1, <2>3, <2>4, <2>5, OnTopInOrder
<1>5. QED  BY <1>3, <1>4 DEF Register

\* Announcing and writing leave the Calls and their locks alone.
LEMMA WriterInOrder ==
    ASSUME Typed, InOrder, NEW g \in Goroutine, Announce(g) \/ Write(g)
    PROVE  InOrder'
<1>1. /\ UNCHANGED <<stack, readers>> /\ reg[g].st # "idle"
      /\ \A h \in Goroutine \ {g} : reg'[h] = reg[h]
    BY DEF Announce, Write, Typed
<1>2. Fits(g)'  BY <1>1 DEF InOrder, Fits, Busy, Top
<1>3. \A k \in Models : Holding(g, k)' = Holding(g, k)  BY <1>1 DEF Holding
<1>4. Counts(g)'  BY <1>1, <1>3 DEF InOrder, Counts
<1>5. QED  BY <1>1, <1>2, <1>4, SameStack DEF InOrder

\* The end of a Register admits those that wait: they hold the lock from then on.
LEMMA UnlockInOrder ==
    ASSUME Typed, InOrder, NEW g \in Goroutine, Unlock(g)
    PROVE  InOrder' /\ readers' \in [Models -> [Goroutine -> Nat]]
<1> DEFINE m == reg[g].m
           Q == {h \in Goroutine : Busy(h) /\ Top(h).st = "queued" /\ Top(h).m = m}
           e(h) == [Top(h) EXCEPT !.st = "walk", !.todo = <<m>>]
<1>1. /\ readers' = [readers EXCEPT ![m] = [h \in Goroutine |-> @[h] + IF h \in Q THEN 1 ELSE 0]]
      /\ stack' = [h \in Goroutine |-> IF h \in Q THEN OnTop(h, e(h))[h] ELSE stack[h]]
      /\ reg' = [reg EXCEPT ![g] = NoReg]
    BY DEF Unlock
<1>2. m \in Models  BY DEF Unlock, Typed
<1>3. /\ \A h \in Goroutine : OnTop(h, e(h))[h] = [stack[h] EXCEPT ![Len(stack[h])] = e(h)]
    BY DEF OnTop, Typed
<1>4. /\ \A h \in Goroutine \ {g} : reg'[h] = reg[h]
      /\ reg'[g].st = "idle"
    BY <1>1 DEF NoReg, Typed
<1>5. ASSUME NEW h \in Goroutine, h \in Q
      PROVE  /\ e(h) \in FrameSet /\ VisitsKids(e(h)) /\ LateOnce(e(h)) /\ e(h).m = Top(h).m /\ e(h).m = m
             /\ Holds(e(h)) /\ ~Holds(Top(h)) /\ Busy(h) /\ reg[h].st = "idle"
    <2>1. Busy(h) /\ Top(h).st = "queued" /\ Top(h).m = m  BY <1>5
    <2>2. Top(h) \in FrameSet /\ LateOnce(Top(h))  BY <2>1, TopFacts DEF InOrder, Fits
    <2>3. /\ e(h) \in FrameSet /\ VisitsKids(e(h)) /\ LateOnce(e(h)) /\ e(h).m = Top(h).m
          /\ e(h).st = "walk"
        BY <2>1, <2>2, WalkFits
    <2>4. Holds(e(h)) /\ ~Holds(Top(h))  BY <2>1, <2>3 DEF Holds
    <2>5. reg[h].st = "idle"  BY <2>1 DEF InOrder, Fits
    <2>6. QED  BY <2>1, <2>3, <2>4, <2>5
<1> HIDE DEF e, Q, m
<1>6. readers' \in [Models -> [Goroutine -> Nat]]
    <2>1. \A h \in Goroutine : readers[m][h] + (IF h \in Q THEN 1 ELSE 0) \in Nat  BY <1>2 DEF Typed
    <2>2. [h \in Goroutine |-> readers[m][h] + IF h \in Q THEN 1 ELSE 0] \in [Goroutine -> Nat]  BY <2>1
    <2>3. QED  BY <1>1, <1>2, <2>2 DEF Typed
<1>7. \A k \in Models, h \in Goroutine :
         readers'[k][h] = IF k # m \/ h \notin Q THEN readers[k][h] ELSE readers[k][h] + 1
    BY <1>1, <1>2 DEF Typed
<1>8. ASSUME NEW h \in Goroutine
      PROVE  stack'[h] \in Seq(FrameSet) /\ Len(stack'[h]) <= MaxDepth[h] /\ Fits(h)' /\ Counts(h)'
    <2>1. CASE h \in Q
        <3>1. Becomes(h, e(h))  BY <1>1, <1>3, <2>1 DEF Becomes
        <3>2. reg'[h].st = "idle"  BY <1>4, <1>5, <2>1
        <3>3. stack'[h] \in Seq(FrameSet) /\ Len(stack'[h]) = Len(stack[h])
            BY <1>5, <2>1, <3>1, BecomesTyped
        <3>4. Fits(h)'  BY <1>5, <2>1, <3>1, <3>2, BecomesFits DEF InOrder
        <3>5. Counts(h)'  BY <1>5, <1>7, <2>1, <3>1, BecomesCounts DEF InOrder
        <3>6. QED  BY <3>3, <3>4, <3>5 DEF InOrder
    <2>2. CASE h \notin Q
        <3>1. stack'[h] = stack[h] /\ \A k \in Models : readers'[k][h] = readers[k][h]
            BY <1>1, <1>7, <2>2
        <3>2. \A k \in Models : Holding(h, k)' = Holding(h, k)  BY <3>1 DEF Holding
        <3>3. Counts(h)'  BY <3>1, <3>2 DEF InOrder, Counts
        <3>4. Fits(h)'  BY <1>4, <3>1 DEF InOrder, Fits, Busy, Top
        <3>5. QED  BY <3>1, <3>3, <3>4 DEF InOrder
    <2>3. QED  BY <2>1, <2>2
<1>9. stack' \in [Goroutine -> Seq(FrameSet)]  BY <1>1, <1>8
<1>10. QED  BY <1>6, <1>8, <1>9 DEF InOrder
-----------------------------------------------------------------------------
(* The invariant *)

LEMMA InitIInv == Init => IInv
<1> SUFFICES ASSUME Init PROVE IInv  OBVIOUS
<1> USE DEF Init
<1>1. \A g \in Goroutine : stack[g] = <<>> /\ Len(stack[g]) = 0 /\ reg[g] = NoReg /\ MaxDepth[g] \in Nat
    BY LocksAssumption
<1>2. NoReg \in RegSet /\ NoReg.st = "idle"  BY DEF NoReg, RegSet, Positions
<1>3. Typed
    <2>1. cbs \in [Models -> [Positions -> Nat]]  BY LocksAssumption DEF Positions
    <2>2. stack \in [Goroutine -> Seq(FrameSet)] /\ reg \in [Goroutine -> RegSet]  BY <1>2
    <2>3. QED  BY <1>1, <1>2, <2>1, <2>2, LocksAssumption DEF Typed
<1>4. \A g \in Goroutine : Fits(g)  BY <1>1, <1>2 DEF Fits
<1>5. \A g \in Goroutine : Counts(g)
    <2>1. \A g \in Goroutine, m \in Models : Holding(g, m) = {}  BY <1>1 DEF Holding
    <2>2. QED  BY <2>1, FS_EmptySet DEF Counts
<1>6. InOrder  BY <1>1, <1>3, <1>4, <1>5 DEF InOrder, Typed
<1>7. WritersFit  BY <1>1, <1>2 DEF WritersFit
<1>8. QED  BY <1>3, <1>6, <1>7 DEF IInv, RacesOnlyOnChildren

LEMMA TypedStep ==
    ASSUME Typed, InOrder, [Next]_vars
    PROVE  Typed' /\ InOrder'
<1> SUFFICES Typed' /\ InOrder'  OBVIOUS
<1>0. /\ regs \in 0 .. MaxRegs /\ MaxRegs \in Nat /\ Models \subseteq Nat
    BY LocksAssumption, FS_CardinalityType DEF Typed
<1>1. CASE UNCHANGED vars
    <2>1. \A h \in Goroutine : Fits(h)' /\ Counts(h)'  BY <1>1, SameStack DEF vars, InOrder
    <2>2. QED  BY <1>1, <2>1 DEF vars, Typed, InOrder
<1>2. ASSUME NEW g \in Goroutine, NEW m \in Models, Save(g, m) \/ Nested(g, m)
      PROVE  Typed' /\ InOrder'
    <2>1. InOrder'  BY <1>2, SaveInOrder, NestedInOrder
    <2>2. QED  BY <1>2, <2>1 DEF Save, Nested, Typed, InOrder
<1>3. ASSUME NEW g \in Goroutine, RLock(g) \/ RUnlock(g) PROVE Typed' /\ InOrder'
    <2>1. InOrder' /\ readers' \in [Models -> [Goroutine -> Nat]]  BY <1>3, RLockInOrder, RUnlockInOrder
    <2>2. QED  BY <1>3, <2>1 DEF RLock, RUnlock, Typed, InOrder
<1>4. ASSUME NEW g \in Goroutine, Visit(g) \/ Callback(g) \/ CallbackDone(g) \/ MethodDone(g)
      PROVE  Typed' /\ InOrder'
    <2>1. InOrder'  BY <1>4, CallInOrder
    <2>2. raced' \subseteq Models
        <3>1. CASE Visit(g)
            <4>1. Top(g) \in FrameSet /\ Top(g).todo # <<>>  BY <3>1, TopFacts DEF Visit, At
            <4>2. Head(Top(g).todo) \in Models  BY <4>1, SMTT(30) DEF FrameSet
            <4>3. QED  BY <3>1, <4>2 DEF Visit, Typed
        <3>2. CASE ~Visit(g)  BY <1>4, <3>2 DEF Callback, CallbackDone, MethodDone, Typed
        <3>3. QED  BY <3>1, <3>2
    <2>3. QED  BY <1>4, <2>1, <2>2 DEF Visit, Callback, CallbackDone, MethodDone, Typed, InOrder
<1>5. ASSUME NEW g \in Goroutine, NEW m \in Models, NEW pos \in Positions, Register(g, m, pos)
      PROVE  Typed' /\ InOrder'
    <2>1. InOrder'  BY <1>5, RegisterInOrder
    <2>2. [st |-> "want", m |-> m, pos |-> pos] \in RegSet  BY DEF RegSet
    <2>3. regs' \in 0 .. MaxRegs  BY <1>0, <1>5 DEF Register
    <2>4. reg' = [reg EXCEPT ![g] = [st |-> "want", m |-> m, pos |-> pos]]  BY <1>5 DEF Register
    <2>5. reg' \in [Goroutine -> RegSet] /\ \A h \in Goroutine : reg'[h].st # "idle" => reg'[h].m \in Models
        BY <2>2, <2>4 DEF Typed
    <2>6. QED  BY <1>5, <2>1, <2>3, <2>5 DEF Register, Typed, InOrder
<1>6. ASSUME NEW g \in Goroutine, Announce(g) \/ Write(g) PROVE Typed' /\ InOrder'
    <2>1. InOrder'  BY <1>6, WriterInOrder
    <2>2. reg[g].st # "idle"  BY <1>6 DEF Announce, Write
    <2>3. reg' \in [Goroutine -> RegSet] /\ \A h \in Goroutine : reg'[h].st # "idle" => reg'[h].m \in Models
        <3>1. PICK x \in {"wait", "write"} : reg' = [reg EXCEPT ![g].st = x]  BY <1>6 DEF Announce, Write
        <3>2. QED  BY <2>2, <3>1 DEF Typed, RegSet
    <2>4. writer' \in [Models -> Goroutine \cup {None}]  BY <1>6, <2>2 DEF Announce, Write, Typed
    <2>5. QED  BY <1>6, <2>1, <2>3, <2>4 DEF Announce, Write, Typed, InOrder
<1>7. ASSUME NEW g \in Goroutine, Unlock(g) PROVE Typed' /\ InOrder'
    <2>1. InOrder' /\ readers' \in [Models -> [Goroutine -> Nat]]  BY <1>7, UnlockInOrder
    <2>2. reg[g].st # "idle" /\ reg[g].m \in Models /\ reg[g].pos \in Positions
        BY <1>7 DEF Unlock, Typed, RegSet
    <2>3. NoReg \in RegSet /\ NoReg.st = "idle"  BY DEF NoReg, RegSet, Positions
    <2>4. reg' = [reg EXCEPT ![g] = NoReg]  BY <1>7 DEF Unlock
    <2>5. reg' \in [Goroutine -> RegSet] /\ \A h \in Goroutine : reg'[h].st # "idle" => reg'[h].m \in Models
        BY <2>3, <2>4 DEF Typed
    <2>6. writer' \in [Models -> Goroutine \cup {None}]  BY <1>7, <2>2 DEF Unlock, Typed
    <2>7. cbs' \in [Models -> [Positions -> Nat]]
        <3>1. cbs[reg[g].m][reg[g].pos] + 1 \in Nat  BY <2>2 DEF Typed
        <3>2. cbs' = [cbs EXCEPT ![reg[g].m][reg[g].pos] = @ + 1]  BY <1>7 DEF Unlock
        <3>3. QED  BY <2>2, <3>1, <3>2 DEF Typed
    <2>8. QED  BY <1>7, <2>1, <2>5, <2>6, <2>7 DEF Unlock, Typed, InOrder
<1>8. QED  BY <1>1, <1>2, <1>3, <1>4, <1>5, <1>6, <1>7 DEF Next, Step, Positions

\* A Call that holds the lock keeps writers out.
LEMMA HeldNotWritten ==
    ASSUME Typed, InOrder, WritersFit, NEW g \in Goroutine, Busy(g), Holds(Top(g))
    PROVE  readers[Top(g).m][g] > 0 /\ ~Writing(Top(g).m)
<1>1. Top(g).m \in Models  BY TopFacts DEF FrameSet
<1>2. Len(stack[g]) \in Holding(g, Top(g).m)  BY TopFacts DEF Holding, Holds
<1>3. Cardinality(Holding(g, Top(g).m)) # 0  BY <1>2, HoldingFinite, FS_EmptySet
<1>4. readers[Top(g).m][g] \in Nat /\ readers[Top(g).m][g] # 0  BY <1>1, <1>3 DEF InOrder, Counts, Typed
<1>5. ~Writing(Top(g).m)
    <2> SUFFICES ASSUME Writing(Top(g).m) PROVE FALSE  OBVIOUS
    <2>1. writer[Top(g).m] \in Goroutine /\ reg[writer[Top(g).m]].st = "write"
        BY <1>1 DEF Writing, Typed
    <2>2. reg[writer[Top(g).m]].m = Top(g).m  BY <1>1 DEF Writing, WritersFit
    <2>3. QED  BY <1>4, <2>1, <2>2 DEF WritersFit
<1>6. QED  BY <1>4, <1>5

LEMMA WritersStep ==
    ASSUME Typed, InOrder, WritersFit, [Next]_vars
    PROVE  WritersFit'
<1> USE DEF WritersFit
<1>0. None \notin Goroutine  BY LocksAssumption
<1>1. CASE UNCHANGED vars  BY <1>1 DEF vars
<1>2. ASSUME NEW g \in Goroutine,
             \/ \E m \in Models : Save(g, m) \/ Nested(g, m)
             \/ Visit(g) \/ Callback(g) \/ CallbackDone(g) \/ MethodDone(g)
      PROVE  WritersFit'
    <2>1. UNCHANGED <<reg, writer, readers>>
        BY <1>2 DEF Save, Nested, Visit, Callback, CallbackDone, MethodDone
    <2>2. QED  BY <2>1, SMTT(30)
<1>3. ASSUME NEW g \in Goroutine, RLock(g) PROVE WritersFit'
    <2>1. UNCHANGED <<reg, writer>>  BY <1>3 DEF RLock
    <2>2. Top(g).m \in Models  BY <1>3, TopFacts DEF RLock, At, FrameSet
    <2>3. \A m \in Models, h \in Goroutine : readers'[m][h] = readers[m][h] \/ (m = Top(g).m /\ writer[m] = None)
        <3>1. CASE writer[Top(g).m] = None
            <4>1. readers' = [readers EXCEPT ![Top(g).m][g] = @ + 1]  BY <1>3, <3>1 DEF RLock
            <4>2. readers \in [Models -> [Goroutine -> Nat]]  BY DEF Typed
            <4> HIDE DEF Top
            <4>3. \A m \in Models : m = Top(g).m \/ readers'[m] = readers[m]  BY <4>1, <4>2
            <4>4. QED  BY <3>1, <4>3
        <3>2. CASE writer[Top(g).m] # None  BY <1>3, <3>2 DEF RLock
        <3>3. QED  BY <3>1, <3>2
    <2>4. ASSUME NEW k \in Goroutine, reg[k].st = "write", NEW h \in Goroutine
          PROVE  readers'[reg[k].m][h] = 0
        <3>1. reg[k].m \in Models /\ writer[reg[k].m] = k  BY <2>4 DEF Typed
        <3>2. QED  BY <1>0, <2>3, <2>4, <3>1
    <2>5. QED  BY <2>1, <2>4
<1>4. ASSUME NEW g \in Goroutine, RUnlock(g) PROVE WritersFit'
    <2>1. UNCHANGED <<reg, writer>> /\ Busy(g) /\ Holds(Top(g))  BY <1>4 DEF RUnlock, At, Holds
    <2>2. Top(g).m \in Models /\ ~Writing(Top(g).m)  BY <2>1, TopFacts, HeldNotWritten DEF FrameSet
    <2>3. \A m \in Models, h \in Goroutine : m # Top(g).m => readers'[m][h] = readers[m][h]
        BY <1>4, <2>2 DEF RUnlock, Typed
    <2>4. ASSUME NEW k \in Goroutine, reg[k].st = "write", NEW h \in Goroutine
          PROVE  readers'[reg[k].m][h] = 0
        <3>1. reg[k].m \in Models /\ writer[reg[k].m] = k  BY <2>4 DEF Typed
        <3>2. reg[k].m # Top(g).m  BY <1>0, <2>2, <2>4, <3>1 DEF Writing
        <3>3. QED  BY <2>3, <2>4, <3>1, <3>2
    <2>5. QED  BY <2>1, <2>4
<1>5. ASSUME NEW g \in Goroutine, NEW m \in Models, NEW pos \in Positions, Register(g, m, pos)
      PROVE  WritersFit'
    <2>1. /\ reg[g].st = "idle" /\ UNCHANGED <<writer, readers>>
          /\ reg'[g].st = "want" /\ \A h \in Goroutine \ {g} : reg'[h] = reg[h]
        BY <1>5 DEF Register, Typed
    <2>2. \A k \in Models : writer[k] # None => writer[k] \in Goroutine \ {g}
        <3>1. \A k \in Models : writer[k] # None => writer[k] \in Goroutine  BY DEF Typed
        <3>2. \A k \in Models : writer[k] # None => reg[writer[k]].st # "idle"  OBVIOUS
        <3>3. QED  BY <2>1, <3>1, <3>2
    <2>3. QED  BY <2>1, <2>2
<1>6. ASSUME NEW g \in Goroutine, Announce(g) PROVE WritersFit'
    <2>1. reg[g].st = "want" /\ reg[g].m \in Models /\ writer[reg[g].m] = None /\ UNCHANGED readers
        BY <1>6 DEF Announce, Typed
    <2>2. /\ reg'[g].st = "wait" /\ reg'[g].m = reg[g].m /\ \A h \in Goroutine \ {g} : reg'[h] = reg[h]
          /\ writer'[reg[g].m] = g /\ \A m \in Models \ {reg[g].m} : writer'[m] = writer[m]
        BY <1>6, <2>1 DEF Announce, Typed, RegSet
    <2>3. ASSUME NEW m \in Models, writer'[m] # None
          PROVE  reg'[writer'[m]].m = m /\ reg'[writer'[m]].st \in {"wait", "write"}
        <3>1. CASE m = reg[g].m  BY <2>2, <3>1
        <3>2. CASE m # reg[g].m
            <4>1. writer'[m] = writer[m] /\ writer[m] \in Goroutine \ {g}
                BY <2>1, <2>2, <2>3, <3>2 DEF Typed
            <4>2. QED  BY <2>2, <2>3, <4>1
        <3>3. QED  BY <3>1, <3>2
    <2>4. ASSUME NEW h \in Goroutine \ {g}, reg[h].st \in {"wait", "write"} PROVE writer'[reg[h].m] = h
        <3>1. reg[h].m \in Models /\ writer[reg[h].m] = h  BY <2>4 DEF Typed
        <3>2. QED  BY <1>0, <2>1, <2>2, <3>1
    <2>5. QED  BY <2>1, <2>2, <2>3, <2>4
<1>7. ASSUME NEW g \in Goroutine, Write(g) PROVE WritersFit'
    <2>1. /\ reg[g].st = "wait" /\ UNCHANGED <<writer, readers>>
          /\ \A h \in Goroutine : readers[reg[g].m][h] = 0
        BY <1>7 DEF Write
    <2>2. reg'[g].st = "write" /\ reg'[g].m = reg[g].m /\ \A h \in Goroutine \ {g} : reg'[h] = reg[h]
        BY <1>7 DEF Write, Typed, RegSet
    <2>3. \A h \in Goroutine : reg'[h].m = reg[h].m  BY <2>2
    <2>4. ASSUME NEW m \in Models, writer[m] # None
          PROVE  reg'[writer[m]].m = m /\ reg'[writer[m]].st \in {"wait", "write"}
        <3>1. writer[m] \in Goroutine /\ reg[writer[m]].m = m /\ reg[writer[m]].st \in {"wait", "write"}
            BY <2>4 DEF Typed
        <3>2. QED  BY <2>2, <2>3, <3>1
    <2>5. ASSUME NEW h \in Goroutine, reg'[h].st \in {"wait", "write"} PROVE writer[reg'[h].m] = h
        <3>1. reg[h].st \in {"wait", "write"}  BY <2>1, <2>2, <2>5
        <3>2. QED  BY <2>3, <3>1
    <2>6. ASSUME NEW h \in Goroutine, reg'[h].st = "write", NEW k \in Goroutine PROVE readers[reg'[h].m][k] = 0
        BY <2>1, <2>2, <2>3, <2>6
    <2>7. QED  BY <2>1, <2>4, <2>5, <2>6
<1>8. ASSUME NEW g \in Goroutine, Unlock(g) PROVE WritersFit'
    <2>1. reg[g].st = "write" /\ reg[g].m \in Models /\ writer[reg[g].m] = g  BY <1>8 DEF Unlock, Typed
    <2>2. /\ reg'[g].st = "idle" /\ \A h \in Goroutine \ {g} : reg'[h] = reg[h]
          /\ writer'[reg[g].m] = None /\ \A m \in Models \ {reg[g].m} : writer'[m] = writer[m]
        <3>1. reg' = [reg EXCEPT ![g] = NoReg] /\ writer' = [writer EXCEPT ![reg[g].m] = None]
            BY <1>8 DEF Unlock
        <3>2. NoReg.st = "idle"  BY DEF NoReg
        <3>3. QED  BY <2>1, <3>1, <3>2 DEF Typed
    <2>3. \A m \in Models \ {reg[g].m}, h \in Goroutine : readers'[m][h] = readers[m][h]
        <3>1. PICK r : readers' = [readers EXCEPT ![reg[g].m] = r]  BY <1>8 DEF Unlock
        <3>2. QED  BY <2>1, <3>1 DEF Typed
    <2>4. ASSUME NEW m \in Models, writer'[m] # None
          PROVE  reg'[writer'[m]].m = m /\ reg'[writer'[m]].st \in {"wait", "write"}
        <3>1. m # reg[g].m /\ writer'[m] = writer[m] /\ writer[m] \in Goroutine  BY <2>2, <2>4 DEF Typed
        <3>2. reg[writer[m]].m = m  BY <2>4, <3>1
        <3>3. writer[m] # g  BY <3>1, <3>2
        <3>4. QED  BY <2>2, <2>4, <3>1, <3>3
    <2>5. ASSUME NEW h \in Goroutine \ {g}, reg[h].st \in {"wait", "write"}
          PROVE  reg[h].m \in Models \ {reg[g].m} /\ writer'[reg[h].m] = h
        <3>1. reg[h].m \in Models /\ writer[reg[h].m] = h  BY <2>5 DEF Typed
        <3>2. QED  BY <2>1, <2>2, <3>1
    <2>6. QED  BY <2>2, <2>3, <2>4, <2>5
<1>9. CASE Next
    <2>1. PICK g \in Goroutine :
             \/ Step(g)
             \/ \E m \in Models : \/ Save(g, m) \/ Nested(g, m)
                                  \/ \E pos \in Positions : Register(g, m, pos)
        BY <1>9 DEF Next, Positions
    <2>2. CASE Step(g)  BY <1>2, <1>3, <1>4, <1>6, <1>7, <1>8, <2>2, SMTT(30) DEF Step
    <2>3. QED  BY <1>2, <1>5, <2>1, <2>2
<1>10. QED  BY <1>1, <1>9

\* Only Visit reads a map, its own model's under the lock.
LEMMA RacesStep ==
    ASSUME Typed, InOrder, WritersFit, RacesOnlyOnChildren, [Next]_vars
    PROVE  RacesOnlyOnChildren'
<1> USE DEF RacesOnlyOnChildren
<1>1. ASSUME NEW g \in Goroutine, Visit(g) PROVE RacesOnlyOnChildren'
    <2>1. Busy(g) /\ Top(g).st = "walk" /\ Holds(Top(g)) /\ Top(g).todo # <<>>
        BY <1>1 DEF Visit, At, Holds
    <2>2. Top(g) \in FrameSet /\ VisitsKids(Top(g))  BY <2>1, TopFacts DEF InOrder, Fits
    <2>3. Head(Top(g).todo) \in ToSet(Top(g).todo)  BY <2>1, <2>2 DEF FrameSet, ToSet
    <2>4. ~Writing(Top(g).m)  BY <2>1, HeldNotWritten
    <2>5. Writing(Head(Top(g).todo)) => Head(Top(g).todo) \in Kids
        BY <2>2, <2>3, <2>4 DEF VisitsKids
    <2>6. raced' = raced \/ (Writing(Head(Top(g).todo)) /\ raced' = raced \cup {Head(Top(g).todo)})
        BY <1>1 DEF Visit
    <2>7. QED  BY <2>5, <2>6 DEF Kids
<1>2. CASE UNCHANGED raced  BY <1>2
<1>3. QED
    BY <1>1, <1>2 DEF Next, Step, vars, Save, Nested, Register, RLock, Callback, CallbackDone, RUnlock,
                      MethodDone, Announce, Write, Unlock

\* The inductive invariant holds in every state.
LEMMA Inductive == Spec => []IInv
<1>1. Init => IInv  BY InitIInv
<1>2. IInv /\ [Next]_vars => IInv'  BY TypedStep, WritersStep, RacesStep DEF IInv
<1>3. QED  BY <1>1, <1>2, PTL DEF Spec

\* Call, Register: the read locks held are those of the Calls in progress, only children's maps are
\* read while they are written; callMethod: on a scope that has an error at most one callback, AormX
\* after X and X of a later element of a slice begin.
THEOREM InvHolds == Spec => []Inv
<1>1. IInv => Inv
    <2> SUFFICES ASSUME IInv PROVE Inv  OBVIOUS
    <2> USE DEF IInv
    <2>1. \A m \in Models, pos \in {"before", "after"} : cbs[m][pos] \in Nat  BY DEF Typed, Positions
    <2>2. \A m \in Models, g \in Goroutine :
             readers[m][g] = Cardinality({i \in DOMAIN stack[g] : stack[g][i].m = m /\ stack[g][i].st \in {"walk", "callback"}})
        BY DEF InOrder, Counts, Holding
    <2>3. TypeOK  BY <2>1, <2>2 DEF TypeOK, Typed, WritersFit
    <2>4. ASSUME NEW g \in Goroutine, NEW f \in Frames(g) PROVE f.late <= 1 + LateMethods(f)
        <3>1. stack[g] \in Seq(FrameSet)  BY DEF Typed
        <3>2. PICK i \in 1 .. Len(stack[g]) : f = stack[g][i]  BY <3>1 DEF Frames, ToSet
        <3>3. QED  BY <3>2 DEF InOrder, Fits, LateOnce
    <2>5. QED  BY <2>3, <2>4 DEF Inv, LittleRunsAfterError
<1>2. QED  BY <1>1, Inductive, PTL
-----------------------------------------------------------------------------
(* Deadlock *)

\* The model whose lock a goroutine waits for.
Wanted(g) == IF reg[g].st = "idle" THEN Top(g).m ELSE reg[g].m

\* Goroutines that wait for each other wait for the readers of the model the last in the order of
\* those they wait for: one of them holds that lock and waits for a model not after it.
LEMMA HangTurnsBack ==
    ASSUME IInv, NEW S \in SUBSET Goroutine, S # {}, \A g \in S : \E h \in S : WaitsFor(g, h)
    PROVE  \E g \in Goroutine : TurnsBack(g)
<1> USE DEF IInv
<1>1. ASSUME NEW g \in S
      PROVE  /\ Wanted(g) \in Models
             /\ \/ Busy(g) /\ Top(g).st = "queued" /\ reg[g].st = "idle"
                \/ reg[g].st \in {"want", "wait"}
             /\ reg[g].st # "wait" => \E h \in S : writer[Wanted(g)] = h
             /\ reg[g].st = "wait" => \E h \in S : readers[Wanted(g)][h] > 0
    <2>1. PICK h \in S : WaitsFor(g, h)  OBVIOUS
    <2>2. CASE Busy(g) /\ Top(g).st = "queued" /\ writer[Top(g).m] = h
        <3>1. reg[g].st = "idle"  BY <2>2 DEF InOrder, Fits
        <3>2. Top(g).m \in Models  BY <2>2, TopFacts DEF FrameSet
        <3>3. QED  BY <2>2, <3>1, <3>2 DEF Wanted
    <2>3. CASE reg[g].st = "want" /\ writer[reg[g].m] = h  BY <2>3 DEF Wanted, Typed
    <2>4. CASE reg[g].st = "wait" /\ readers[reg[g].m][h] > 0  BY <2>4 DEF Wanted, Typed
    <2>5. QED  BY <2>1, <2>2, <2>3, <2>4 DEF WaitsFor
\* The last in the order of the models they wait for.
<1>2. PICK last \in S : \A g \in S : Wanted(g) <= Wanted(last)
    <2> DEFINE N == Cardinality(Models)
               T == {N - Wanted(g) : g \in S}
    <2>1. N \in Nat /\ Models = 1 .. N  BY LocksAssumption, FS_CardinalityType
    <2> HIDE DEF N
    <2>2. \A g \in S : Wanted(g) \in 1 .. N /\ N - Wanted(g) \in Nat  BY <1>1, <2>1
    <2>3. T \subseteq Nat /\ T # {}  BY <2>2
    <2>4. PICK x \in T : \A y \in T : ~(<<y, x>> \in OpToRel(<, Nat))
        BY <2>3, NatLessThanWellFounded, WFMin
    <2>5. \A y \in T : ~(y < x)  BY <2>3, <2>4 DEF OpToRel
    <2>6. PICK g \in S : x = N - Wanted(g)  OBVIOUS
    <2>7. ASSUME NEW h \in S PROVE Wanted(h) <= Wanted(g)
        <3>1. ~(N - Wanted(h) < N - Wanted(g))  BY <2>5, <2>6
        <3>2. QED  BY <2>1, <2>2, <3>1
    <2>8. QED  BY <2>7
\* One of them reads it.
<1>3. PICK k \in S : readers[Wanted(last)][k] > 0
    <2>1. CASE reg[last].st = "wait"  BY <1>1, <2>1
    <2>2. CASE reg[last].st # "wait"
        <3>1. PICK h \in S : writer[Wanted(last)] = h  BY <1>1, <2>2
        <3>2. h \in Goroutine /\ h # None  BY LocksAssumption
        <3>3. reg[h].m = Wanted(last) /\ reg[h].st \in {"wait", "write"}
            BY <1>1, <3>1, <3>2 DEF WritersFit
        <3>4. reg[h].st = "wait"  BY <1>1, <3>3
        <3>5. Wanted(h) = Wanted(last)  BY <3>3 DEF Wanted
        <3>6. QED  BY <1>1, <3>4, <3>5
    <2>3. QED  BY <2>1, <2>2
<1>4. k \in Goroutine /\ Wanted(last) \in Models /\ Wanted(k) <= Wanted(last)  BY <1>1, <1>2
<1>5. PICK i \in DOMAIN stack[k] : stack[k][i].m = Wanted(last) /\ stack[k][i].st \in {"walk", "callback"}
    <2>1. readers[Wanted(last)][k] = Cardinality(Holding(k, Wanted(last)))  BY <1>4 DEF InOrder, Counts
    <2>2. Holding(k, Wanted(last)) # {}  BY <1>3, <2>1, FS_EmptySet
    <2>3. QED  BY <2>2 DEF Holding
<1>6. stack[k] \in Seq(FrameSet) /\ i \in 1 .. Len(stack[k]) /\ Len(stack[k]) \in Nat /\ Busy(k)
    <2>1. stack[k] \in Seq(FrameSet)  BY <1>4 DEF Typed
    <2>2. i \in 1 .. Len(stack[k]) /\ Len(stack[k]) \in Nat  BY <1>5, <2>1, LenProperties
    <2>3. stack[k] # <<>>  BY <2>2
    <2>4. QED  BY <2>1, <2>2, <2>3 DEF Busy
<1>7. CASE Busy(k) /\ Top(k).st = "queued" /\ reg[k].st = "idle"
    <2>1. Top(k) = stack[k][Len(stack[k])] /\ Wanted(k) = Top(k).m  BY <1>4, <1>7, TopFacts DEF Wanted
    <2>2. i # Len(stack[k])  BY <1>5, <1>7, <2>1
    <2>3. stack[k][i].st = "callback"
        <3>1. i < Len(stack[k])  BY <1>6, <2>2
        <3>2. stack[k][i].st \in {"callback", "method"}  BY <1>4, <1>6, <3>1 DEF InOrder, Fits
        <3>3. QED  BY <1>5, <3>2
    <2>4. Len(stack[k]) \in i + 1 .. Len(stack[k])  BY <1>6, <2>2
    <2>5. stack[k][Len(stack[k])].m <= stack[k][i].m  BY <1>4, <1>5, <2>1
    <2>6. QED  BY <1>4, <1>5, <2>3, <2>4, <2>5 DEF TurnsBack
<1>8. CASE reg[k].st \in {"want", "wait"}
    <2>1. Top(k) = stack[k][Len(stack[k])] /\ Top(k).st \in {"callback", "method"} /\ Wanted(k) = reg[k].m
        BY <1>4, <1>6, <1>8, TopFacts DEF InOrder, Fits, Wanted
    <2>2. stack[k][i].st = "callback"
        <3>1. i = Len(stack[k]) \/ i < Len(stack[k])  BY <1>6
        <3>2. stack[k][i].st \in {"callback", "method"}  BY <1>4, <1>6, <2>1, <3>1 DEF InOrder, Fits
        <3>3. QED  BY <1>5, <3>2
    <2>3. QED  BY <1>4, <1>5, <1>8, <2>1, <2>2 DEF TurnsBack
<1>9. QED  BY <1>1, <1>7, <1>8

\* Call and Register: goroutines wait for each other for ever only if a callback saves, or registers
\* on, a model not after its own in the order of the models, whatever methods do.
THEOREM HangHolds == Spec => []HangsOnlyIfTurnedBack
<1>1. IInv => HangsOnlyIfTurnedBack
    <2> SUFFICES ASSUME IInv, Deadlocked # {} PROVE \E g \in Goroutine : TurnsBack(g)
        BY DEF HangsOnlyIfTurnedBack
    <2>1. PICK S \in SUBSET Goroutine : S # {} /\ \A g \in S : \E h \in S : WaitsFor(g, h)
        BY DEF Deadlocked
    <2>2. QED  BY <2>1, HangTurnsBack
<1>2. QED  BY <1>1, Inductive, PTL
=============================================================================
