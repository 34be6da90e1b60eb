--------------------------- MODULE CallbackLocks ---------------------------
(***************************************************************************)
(* Callbacks registered on a model struct (modelstruct_callbacks.go), run  *)
(* by Scope.callMethod around the methods X and AormX of the record: Call  *)
(* holds the read lock of the model's registrator while the callbacks of   *)
(* the model, and those of its children, run; Register takes the write     *)
(* lock.  A sync.RWMutex with a writer waiting admits no new reader.       *)
(*                                                                         *)
(* One name X.  What a callback or a method does is the program's: it may  *)
(* fail, save another record or register a callback.                       *)
(***************************************************************************)
EXTENDS Naturals, Sequences, FiniteSets, SequencesExt

CONSTANTS Goroutine,
          Models,    \* 1 .. n: an order of the models
          Children,  \* Children[m]: models of m's children and virtual fields
          Given,     \* callbacks each registrator has to begin with: Given[m][pos]
          None,      \* no goroutine
          MaxDepth,  \* bound: MaxDepth[g] saves one inside the other
          MaxRegs    \* bound: registrations

ASSUME LocksAssumption == /\ IsFiniteSet(Models) /\ Models = 1 .. Cardinality(Models)
                          /\ None \notin Goroutine
                          /\ Children \in [Models -> Seq(Models)]
                          /\ Given \in [Models -> [{"before", "after"} -> Nat]]
                          /\ MaxDepth \in [Goroutine -> Nat \ {0}] /\ MaxRegs \in Nat

VARIABLES cbs,     \* cbs[m][pos]: number of callbacks
          readers, \* readers[m][g]: read locks g holds
          writer,  \* writer[m]: who waits for m's readers to leave, or writes
          stack,   \* stack[g]: callMethods, innermost last
          reg,     \* reg[g]: a Register in progress
          regs,    \* registrations so far
          raced    \* models whose map was read while it was written

vars == <<cbs, readers, writer, stack, reg, regs, raced>>

NoReg  == [st |-> "idle", m |-> 1, pos |-> "before"]
\* st: start, queued, walk, callback, method; acted: the callback or method has saved or
\* registered; todo: registrators to visit; left: callbacks of the one visited; second: it is
\* the turn of AormX; early: the scope came with an error; late: callbacks and methods begun
\* although it had one.
Frame(m, early) == [m |-> m, pos |-> "before", st |-> "start", todo |-> <<>>, left |-> 0, ok |-> TRUE,
                    acted |-> FALSE, second |-> FALSE, early |-> early, err |-> early, late |-> 0]

Init == /\ cbs = Given
        /\ readers = [m \in Models |-> [g \in Goroutine |-> 0]]
        /\ writer = [m \in Models |-> None]
        /\ stack = [g \in Goroutine |-> <<>>]
        /\ reg = [g \in Goroutine |-> NoReg]
        /\ regs = 0 /\ raced = {}

Busy(g)   == stack[g] # <<>>
Top(g)    == Last(stack[g])
At(g, st) == Busy(g) /\ reg[g].st = "idle" /\ Top(g).st = st
OnTop(g, f) == [stack EXCEPT ![g][Len(stack[g])] = f]
Late(f)   == IF f.err THEN 1 ELSE 0
-----------------------------------------------------------------------------
(* Scope.callMethod *)

\* The program saves a record of m.  CallMethod runs a slice's elements one after the other,
\* the next one also when one has failed.
Save(g, m) == /\ ~Busy(g) /\ reg[g].st = "idle"
              /\ \E early \in BOOLEAN : stack' = [stack EXCEPT ![g] = <<Frame(m, early)>>]
              /\ UNCHANGED <<cbs, readers, writer, reg, regs, raced>>

\* A callback or a method does so.
Acting(g) == (At(g, "callback") \/ At(g, "method")) /\ ~Top(g).acted
Nested(g, m) == /\ Acting(g) /\ Len(stack[g]) < MaxDepth[g]
                /\ \E early \in BOOLEAN :
                      stack' = [stack EXCEPT ![g] = Append(OnTop(g, [Top(g) EXCEPT !.acted = TRUE])[g], Frame(m, early))]
                /\ UNCHANGED <<cbs, readers, writer, reg, regs, raced>>

\* RLock in Call.
RLockFree(g) == /\ At(g, "start")
            /\ LET f == Top(g)
               IN  /\ readers' = [readers EXCEPT ![f.m][g] = @ + 1]
                   /\ stack' = OnTop(g, [f EXCEPT !.st = "walk", !.todo = <<f.m>>])
            /\ UNCHANGED <<cbs, writer, reg, regs, raced>>
RLock(g) == /\ At(g, "start")
            /\ LET f == Top(g)
               IN  IF writer[f.m] = None
                   THEN /\ readers' = [readers EXCEPT ![f.m][g] = @ + 1]
                        /\ stack' = OnTop(g, [f EXCEPT !.st = "walk", !.todo = <<f.m>>])
                   ELSE stack' = OnTop(g, [f EXCEPT !.st = "queued"]) /\ UNCHANGED readers
            /\ UNCHANGED <<cbs, writer, reg, regs, raced>>

Writing(m) == writer[m] # None /\ reg[writer[m]].st = "write"

\* The callbacks of the next registrator, whose own lock only Call takes; or its value is nil.
Visit(g) == /\ At(g, "walk") /\ Top(g).left = 0 /\ Top(g).todo # <<>>
            /\ LET f == Top(g)
                   c == Head(f.todo)
               IN  \/ /\ stack' = OnTop(g, [f EXCEPT !.todo = Children[c] \o Tail(@), !.left = cbs[c][f.pos]])
                      /\ raced' = IF Writing(c) THEN raced \cup {c} ELSE raced
                   \/ /\ c # f.m
                      /\ stack' = OnTop(g, [f EXCEPT !.todo = Tail(@)])
                      /\ UNCHANGED raced
            /\ UNCHANGED <<cbs, readers, writer, reg, regs>>

Callback(g) == /\ At(g, "walk") /\ Top(g).left > 0
               /\ stack' = OnTop(g, [Top(g) EXCEPT !.st = "callback", !.left = @ - 1, !.late = @ + Late(Top(g))])
               /\ UNCHANGED <<cbs, readers, writer, reg, regs, raced>>

\* Whatever the callback has done, an error of the scope ends the Call.
CallbackDone(g) ==
    /\ At(g, "callback")
    /\ \E failed \in BOOLEAN :
          LET f == [Top(g) EXCEPT !.st = "walk", !.acted = FALSE, !.err = @ \/ failed]
          IN  stack' = OnTop(g, IF f.err THEN [f EXCEPT !.ok = FALSE, !.left = 0, !.todo = <<>>] ELSE f)
    /\ UNCHANGED <<cbs, readers, writer, reg, regs, raced>>

\* All read locks of the model given back at once, unless the method runs.
RUnlockAfter(g) == /\ At(g, "walk") /\ Top(g).left = 0 /\ Top(g).todo = <<>>
              /\ LET f == Top(g)
                 IN  /\ readers' = [readers EXCEPT ![f.m][g] = IF f.ok /\ f.pos = "before" THEN @ ELSE 0]
                     /\ stack' = IF f.ok /\ f.pos = "before" THEN OnTop(g, [f EXCEPT !.st = "method"])
                                 ELSE [stack EXCEPT ![g] = Front(@)]
              /\ UNCHANGED <<cbs, writer, reg, regs, raced>>

\* The deferred RUnlock; a Before that is not ok ends callMethod.
RUnlock(g) == /\ At(g, "walk") /\ Top(g).left = 0 /\ Top(g).todo = <<>>
              /\ LET f == Top(g)
                 IN  /\ readers' = [readers EXCEPT ![f.m][g] = @ - 1]
                     /\ stack' = IF f.ok /\ f.pos = "before"
                                 THEN OnTop(g, [f EXCEPT !.st = "method", !.late = @ + Late(f)])
                                 ELSE [stack EXCEPT ![g] = Front(@)]
              /\ UNCHANGED <<cbs, writer, reg, regs, raced>>

\* X returns, then AormX if the record has it, then After is called, whatever has failed.
MethodDone(g) ==
    /\ At(g, "method")
    /\ \E failed \in BOOLEAN :
          LET f == [Top(g) EXCEPT !.acted = FALSE, !.err = @ \/ failed]
          IN  \/ stack' = OnTop(g, [f EXCEPT !.st = "start", !.pos = "after"])
              \/ /\ ~f.second
                 /\ stack' = OnTop(g, [f EXCEPT !.second = TRUE, !.late = @ + Late(f)])
    /\ UNCHANGED <<cbs, readers, writer, reg, regs, raced>>
-----------------------------------------------------------------------------
(* Register *)

\* By the program itself, or by a callback or a method.
Register(g, m, pos) ==
    /\ reg[g].st = "idle" /\ regs < MaxRegs
    /\ \/ ~Busy(g) /\ UNCHANGED stack
       \/ Acting(g) /\ stack' = OnTop(g, [Top(g) EXCEPT !.acted = TRUE])
    /\ reg' = [reg EXCEPT ![g] = [st |-> "want", m |-> m, pos |-> pos]]
    /\ regs' = regs + 1
    /\ UNCHANGED <<cbs, readers, writer, raced>>

\* Lock: from here on no reader is admitted.
Announce(g) == /\ reg[g].st = "want" /\ writer[reg[g].m] = None
               /\ writer' = [writer EXCEPT ![reg[g].m] = g]
               /\ reg' = [reg EXCEPT ![g].st = "wait"]
               /\ UNCHANGED <<cbs, readers, stack, regs, raced>>

\* The readers have left.
Write(g) == /\ reg[g].st = "wait" /\ \A h \in Goroutine : readers[reg[g].m][h] = 0
            /\ reg' = [reg EXCEPT ![g].st = "write"]
            /\ UNCHANGED <<cbs, readers, writer, stack, regs, raced>>

\* Unlock admits the readers that have come in the meantime.
Unlock(g) ==
    /\ reg[g].st = "write"
    /\ LET m == reg[g].m
           queued == {h \in Goroutine : Busy(h) /\ Top(h).st = "queued" /\ Top(h).m = m}
       IN  /\ cbs' = [cbs EXCEPT ![m][reg[g].pos] = @ + 1]
           /\ writer' = [writer EXCEPT ![m] = None]
           /\ readers' = [readers EXCEPT ![m] = [h \in Goroutine |-> @[h] + IF h \in queued THEN 1 ELSE 0]]
           /\ stack' = [h \in Goroutine |-> IF h \in queued THEN OnTop(h, [Top(h) EXCEPT !.st = "walk", !.todo = <<m>>])[h]
                                            ELSE stack[h]]
    /\ reg' = [reg EXCEPT ![g] = NoReg]
    /\ UNCHANGED <<regs, raced>>
-----------------------------------------------------------------------------
Step(g) == \/ RLock(g) \/ Visit(g) \/ Callback(g) \/ CallbackDone(g) \/ RUnlock(g) \/ MethodDone(g)
           \/ Announce(g) \/ Write(g) \/ Unlock(g)

Next == \E g \in Goroutine : \/ Step(g)
                             \/ \E m \in Models : \/ Save(g, m) \/ Nested(g, m)
                                                  \/ \E pos \in {"before", "after"} : Register(g, m, pos)

Spec == Init /\ [][Next]_vars
-----------------------------------------------------------------------------
(* Correctness *)

Frames(g) == ToSet(stack[g])

\* Types of the variables; the read locks held are those of the Calls in progress.
TypeOK == /\ \A m \in Models, pos \in {"before", "after"} : cbs[m][pos] \in Nat
          /\ \A m \in Models : /\ writer[m] \in Goroutine \cup {None}
                               /\ writer[m] # None => reg[writer[m]].m = m /\ reg[writer[m]].st \in {"wait", "write"}
          /\ \A m \in Models, g \in Goroutine :
                readers[m][g] = Cardinality({i \in DOMAIN stack[g] : stack[g][i].m = m /\ stack[g][i].st \in {"walk", "callback"}})
          /\ \A g \in Goroutine : Len(stack[g]) <= MaxDepth[g]
          /\ regs \in 0 .. MaxRegs /\ raced \subseteq Models

\* callChild reads the registrator of a child without its lock: Register on it meanwhile is a
\* data race.  No other map is read while it is written.
RacesOnlyOnChildren == raced \subseteq UNION {ToSet(Children[m]) : m \in Models}

WaitsFor(g, h) ==
    \/ Busy(g) /\ Top(g).st = "queued" /\ writer[Top(g).m] = h
    \/ reg[g].st = "want" /\ writer[reg[g].m] = h
    \/ reg[g].st = "wait" /\ readers[reg[g].m][h] > 0

\* Goroutines each of which waits for one of them, for ever.
Deadlocked == UNION {S \in SUBSET Goroutine : \A g \in S : \E h \in S : WaitsFor(g, h)}

\* A callback that runs (and the lock with it) saves, or registers on, a model that does not
\* come after its own in the order of the models.
TurnsBack(g) == \E i \in DOMAIN stack[g] :
                   /\ stack[g][i].st = "callback"
                   /\ \/ \E j \in i + 1 .. Len(stack[g]) : stack[g][j].m <= stack[g][i].m
                      \/ reg[g].st # "idle" /\ reg[g].m <= stack[g][i].m

\* Goroutines hang only if some callback turns back: a nested Call waits behind the writer
\* that waits for the outer one.  What methods do hangs nobody, they run without the lock.
HangsOnlyIfTurnedBack == Deadlocked # {} => \E g \in Goroutine : TurnsBack(g)

\* What a callMethod may begin late: X if the scope came with its error, AormX after an X.
LateMethods(f) == (IF f.early THEN 1 ELSE 0) + (IF f.second THEN 1 ELSE 0)

\* On a scope that has an error callMethod begins one callback at most, AormX after an X
\* that failed, and X itself only if an earlier element of the slice has failed the scope: a
\* Before that fails keeps the methods from running, a failed method all callbacks after the first.
LittleRunsAfterError == \A g \in Goroutine : \A f \in Frames(g) : f.late <= 1 + LateMethods(f)

\* The locks are those of the Calls in progress, what they guard is read unlocked only for
\* children, and little begins on a scope that has an error.
Inv == TypeOK /\ RacesOnlyOnChildren /\ LittleRunsAfterError
=============================================================================
