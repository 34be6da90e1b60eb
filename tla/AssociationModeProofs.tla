----------------------- MODULE AssociationModeProofs -----------------------
(***************************************************************************)
(* What AssociationMode guarantees for any number of handles, objects,     *)
(* arguments, calls and failing statements: its invariant Inv, that a      *)
(* Replace leaves the links of its field, that an object passed by pointer *)
(* is stored at most once and which join rows can dangle.                  *)
(***************************************************************************)
EXTENDS AssociationMode, FiniteSetTheorems, TLAPS

\* A call in progress.
Work == [call : Changing \cup {"none"}, todo : Seq(Obj), cur : 0 .. MaxKey, some : BOOLEAN]

\* TypeOK with the calls typed; the value just saved is the first of those to do.
Typed == /\ TypeOK /\ work \in [Handle -> Work]
         /\ \A h \in Handle : /\ work[h].call = "none" => work[h] = Idle
                              /\ work[h].cur # 0 => Todo(h) # <<>> /\ work[h].cur \in DOMAIN row

\* Where keys come from: an object's key is that of a row or of an INSERT rolled back, and the
\* row of an object passed by pointer is the one of its key.
KeysAreRows == /\ \A o \in Obj : key[o] \in DOMAIN row \cup burnt \cup {0}
               /\ \A k \in DOMAIN row : row[k] \notin ByValue => key[row[k]] = k

\* Errors stick to an Association, the scope's and that of a field that is no relation too.
ErrorsStick == \A h \in Handle : (dbErr[h] => err[h]) /\ (assoc[h] = "bad" => err[h])

\* A Replace of nothing has emptied the field and has nothing to do.
ClearsAll == \A h \in Handle : work[h].call = "replace" /\ ~work[h].some => Todo(h) = <<>> /\ field[h] = {}

\* A Replace no other call overlaps links all its field has, until it meets an error.
ReplaceLinks == /\ \A h \in Handle : alone[h] => \A g \in Handle \ {h} : ~Busy(g)
                /\ \A h \in Handle : Busy(h) => ~swept[h]
                /\ \A h \in Handle : work[h].call = "replace" /\ alone[h] /\ ~err[h] => field[h] \subseteq joined

\* The inductive invariant.
IInv == /\ Typed /\ KeysAreRows /\ DanglingOnlyIfRolledBack
        /\ ErrorsStick /\ PanicsOnlyAfterError
        /\ ClearsAll /\ FieldIsLinked /\ ReplaceLinks /\ ReplaceLeavesItsField
-----------------------------------------------------------------------------
LEMMA InitIInv == Init => IInv
<1> SUFFICES ASSUME Init PROVE IInv  OBVIOUS
<1> USE DEF Init
<1>1. \A k \in Old : row[k] \in Obj /\ KeyOf[row[k]] = k  BY DEF Old
<1>2. DOMAIN row = Old /\ 0 \notin Old /\ Old \subseteq 1 .. next - 1
    BY ObjAssumption, BoundAssumption DEF Old, Keys
<1>3. \A o \in Obj : KeyOf[o] \in Old \cup {0}  BY DEF Old
<1>4. Idle \in Work /\ \A h \in Handle : work[h] = Idle
    BY BoundAssumption DEF Work, Idle, Changing
<1>5. Typed
    <2>1. key \in [Obj -> 0 .. next - 1]  BY <1>2, <1>3, ObjAssumption, BoundAssumption
    <2>2. Range(row) \subseteq Obj  BY <1>1, <1>2 DEF Range
    <2>3. \A h \in Handle : Range(Todo(h)) \subseteq Own[h]  BY <1>4 DEF Todo, Idle, Range
    <2>4. calls \in [Handle -> Nat] /\ \A h \in Handle : calls[h] <= MaxCalls[h]  BY BoundAssumption
    <2>5. TypeOK  BY <1>2, <2>1, <2>2, <2>3, <2>4, ObjAssumption, BoundAssumption DEF TypeOK, Keys
    <2>6. QED  BY <1>4, <2>5 DEF Typed, Idle
<1>6. KeysAreRows /\ DanglingOnlyIfRolledBack
    BY <1>1, <1>2, <1>3, ObjAssumption DEF KeysAreRows, DanglingOnlyIfRolledBack
<1>7. ErrorsStick /\ PanicsOnlyAfterError  BY DEF ErrorsStick, PanicsOnlyAfterError
<1>8. ClearsAll /\ FieldIsLinked  BY <1>4 DEF ClearsAll, FieldIsLinked, Todo, Idle
<1>9. ReplaceLinks /\ ReplaceLeavesItsField  BY <1>4 DEF ReplaceLinks, ReplaceLeavesItsField, Busy
<1>10. QED  BY <1>5, <1>6, <1>7, <1>8, <1>9 DEF IInv

\* The arguments of a call are a sequence of objects of the handle.
LEMMA ArgsTyped ==
    ASSUME NEW h \in Handle, NEW os \in Args(h)
    PROVE  os \in Seq(Obj) /\ Range(os) \subseteq Own[h]
<1>1. PICK n \in 0 .. MaxArgs : os \in [1 .. n -> Own[h]]  BY DEF Args
<1>2. Own[h] \subseteq Obj  BY ObjAssumption
<1>3. n \in Nat  BY <1>1
<1>4. QED  BY <1>1, <1>2, <1>3 DEF Range

\* What is done of the values is taken off the front.
LEMMA TailTyped ==
    ASSUME NEW h \in Handle, Typed, Todo(h) # <<>>
    PROVE  /\ Tail(Todo(h)) \in Seq(Obj) /\ Range(Tail(Todo(h))) \subseteq Own[h]
           /\ Head(Todo(h)) \in Own[h] /\ Head(Todo(h)) \in Obj
<1>1. Todo(h) \in Seq(Obj) /\ Range(Todo(h)) \subseteq Own[h] /\ Own[h] \subseteq Obj
    BY ObjAssumption DEF Typed, TypeOK, Work, Todo
<1>2. Head(Todo(h)) \in Range(Todo(h))  BY <1>1 DEF Range
<1>3. Range(Tail(Todo(h))) \subseteq Range(Todo(h))  BY <1>1 DEF Range
<1>4. QED  BY <1>1, <1>2, <1>3

\* Skip, for a value there is, and Return keep the calls typed; nobody else's changes.
LEMMA SkipTyped ==
    ASSUME NEW h \in Handle, Typed, Todo(h) # <<>>, Skip(h)
    PROVE  /\ work' \in [Handle -> Work]
           /\ \A g \in Handle \ {h} : work'[g] = work[g]
           /\ work'[h].call = work[h].call /\ work'[h].some = work[h].some
           /\ work'[h].todo = Tail(Todo(h)) /\ work'[h].cur = 0
           /\ \A g \in Handle : Range(Todo(g)') \subseteq Own[g]
<1>1. work' = [work EXCEPT ![h].todo = Tail(@), ![h].cur = 0] /\ work \in [Handle -> Work]
    BY DEF Skip, Typed
<1>2. Tail(work[h].todo) \in Seq(Obj) /\ 0 \in 0 .. MaxKey  BY TailTyped, BoundAssumption DEF Todo
<1>3. work' \in [Handle -> Work]  BY <1>1, <1>2 DEF Work
<1>4. \A g \in Handle \ {h} : work'[g] = work[g]  BY <1>1
<1>5. /\ work'[h].call = work[h].call /\ work'[h].some = work[h].some
      /\ work'[h].todo = Tail(Todo(h)) /\ work'[h].cur = 0
    BY <1>1 DEF Work, Todo
<1>6. QED  BY <1>3, <1>4, <1>5, TailTyped DEF Typed, TypeOK, Todo

LEMMA ReturnTyped ==
    ASSUME NEW h \in Handle, Typed, Return(h), err' \in [Handle -> BOOLEAN]
    PROVE  /\ work' \in [Handle -> Work] /\ work'[h] = Idle
           /\ \A g \in Handle \ {h} : work'[g] = work[g]
           /\ \A g \in Handle : Range(Todo(g)') \subseteq Own[g]
           /\ out' = [out EXCEPT ![h] = IF err'[h] THEN "error" ELSE "ok"]
           /\ out' \in [Handle -> {"none", "ok", "error", "ignored", "panic", "uncounted"}]
<1>1. Idle \in Work  BY BoundAssumption DEF Work, Idle, Changing
<1>2. work' = [work EXCEPT ![h] = Idle]  BY DEF Return
<1>3. work' \in [Handle -> Work] /\ work'[h] = Idle /\ \A g \in Handle \ {h} : work'[g] = work[g]
    BY <1>1, <1>2 DEF Typed
<1>4. Range(Idle.todo) = {}  BY DEF Range, Idle
<1>5. \A g \in Handle : Range(Todo(g)') \subseteq Own[g]
    BY <1>3, <1>4 DEF Typed, TypeOK, Todo
<1>6. QED  BY <1>3, <1>5 DEF Return, Typed, TypeOK

\* A call that begins is typed, counted and known to the others.
LEMMA EnterTyped ==
    ASSUME NEW h \in Handle, Typed, calls[h] < MaxCalls[h], NEW w \in Work, Range(w.todo) \subseteq Own[h],
           Enter(h, w)
    PROVE  /\ work' \in [Handle -> Work] /\ work'[h] = w
           /\ \A g \in Handle \ {h} : work'[g] = work[g]
           /\ \A g \in Handle : Range(Todo(g)') \subseteq Own[g]
           /\ calls' \in [Handle -> Nat] /\ \A g \in Handle : calls'[g] <= MaxCalls[g]
           /\ swept' \in [Handle -> BOOLEAN] /\ alone' \in [Handle -> BOOLEAN]
           /\ out' \in [Handle -> {"none", "ok", "error", "ignored", "panic", "uncounted"}]
<1>1. work' = [work EXCEPT ![h] = w] /\ work \in [Handle -> Work]  BY DEF Enter, Typed
<1>2. calls \in [Handle -> Nat] /\ \A g \in Handle : calls[g] <= MaxCalls[g] /\ MaxCalls[g] \in Nat
    BY BoundAssumption DEF Typed, TypeOK
<1>3. calls' = [calls EXCEPT ![h] = @ + 1]  BY DEF Enter
<1>4. calls' \in [Handle -> Nat] /\ \A g \in Handle : calls'[g] <= MaxCalls[g]  BY <1>2, <1>3
<1>5. alone' \in [Handle -> BOOLEAN]  BY Zenon DEF Enter
<1>6. swept' \in [Handle -> BOOLEAN]  BY DEF Enter, Typed, TypeOK
<1>7. QED  BY <1>1, <1>4, <1>5, <1>6 DEF Enter, Typed, TypeOK, Todo

\* What is unlinked is keys.
LEMMA UnlinkTyped ==
    ASSUME NEW h \in Handle, Typed, NEW ks, Unlink(h, ks)
    PROVE  joined' \subseteq Keys /\ lost' \in [Handle -> SUBSET Keys]
<1>1. joined \subseteq Keys /\ lost \in [Handle -> SUBSET Keys]  BY DEF Typed, TypeOK
<1>2. \A g \in Handle : lost[g] \cup (joined \cap ks) \in SUBSET Keys  BY <1>1
<1>3. QED  BY <1>1, <1>2 DEF Unlink

\* A call that only looks at the relation, or does nothing, is counted.
LEMMA DoneTyped ==
    ASSUME NEW h \in Handle, Typed, calls[h] < MaxCalls[h], Done(h)
    PROVE  /\ calls' \in [Handle -> Nat] /\ \A g \in Handle : calls'[g] <= MaxCalls[g]
           /\ swept' \in [Handle -> BOOLEAN]
<1>1. calls \in [Handle -> Nat] /\ \A g \in Handle : calls[g] <= MaxCalls[g] /\ MaxCalls[g] \in Nat
    BY BoundAssumption DEF Typed, TypeOK
<1>2. calls' = [calls EXCEPT ![h] = @ + 1]  BY DEF Done
<1>3. QED  BY <1>1, <1>2 DEF Done, Typed, TypeOK

\* A failing statement is counted and met by the Association.
LEMMA FailTyped ==
    ASSUME NEW h \in Handle, Typed, Fail(h) \/ Pass
    PROVE  /\ err' \in [Handle -> BOOLEAN] /\ errors' \in 0 .. MaxErrors
           /\ \A g \in Handle : err[g] => err'[g]
           /\ \A g \in Handle \ {h} : err'[g] = err[g]
<1>1. err \in [Handle -> BOOLEAN] /\ errors \in 0 .. MaxErrors /\ MaxErrors \in Nat
    BY BoundAssumption DEF Typed, TypeOK
<1>2. CASE Fail(h)  BY <1>1, <1>2 DEF Fail
<1>3. CASE Pass  BY <1>1, <1>3 DEF Pass
<1>4. QED  BY <1>2, <1>3

\* A step that changes one call at most and takes no row away keeps the calls typed.
LEMMA CallsTyped ==
    ASSUME Typed, TypeOK', work' \in [Handle -> Work], DOMAIN row \subseteq DOMAIN row',
           NEW h \in Handle, \A g \in Handle \ {h} : work'[g] = work[g],
           work'[h].call = "none" => work'[h] = Idle,
           work'[h].cur # 0 => work'[h].todo # <<>> /\ work'[h].cur \in DOMAIN row'
    PROVE  Typed'
BY DEF Typed, Todo

\* What is linked is a key: that of the row just made, or one the object has.
LEMMA LinkedKey ==
    ASSUME NEW h \in Handle, Typed, Link(h)
    PROVE  /\ ValueKey(h) \in Keys /\ Head(Todo(h)) \in Obj
           /\ ValueKey(h) \in DOMAIN row \/ ValueKey(h) = key[Head(Todo(h))]
<1>1. Todo(h) # <<>>  BY DEF Link, Saving
<1>2. Head(Todo(h)) \in Obj  BY <1>1, TailTyped
<1>3. key[Head(Todo(h))] \in 0 .. next - 1 /\ next \in 1 .. MaxKey + 1 /\ MaxKey \in Nat
    BY <1>2, BoundAssumption DEF Typed, TypeOK
<1>4. work[h].cur # 0 => work[h].cur \in DOMAIN row /\ work[h].cur \in 1 .. next - 1
    BY DEF Typed, TypeOK
<1>5. work[h].cur = 0 => key[Head(Todo(h))] # 0  BY DEF Link, NeedsSave
<1>6. QED  BY <1>2, <1>3, <1>4, <1>5 DEF ValueKey, Keys

LEMMA TypedStep == Typed /\ [Next]_vars => Typed'
<1> SUFFICES ASSUME Typed, [Next]_vars PROVE Typed'  OBVIOUS
<1> USE DEF Typed
<1>0. /\ \A h \in Handle : calls[h] \in Nat /\ MaxCalls[h] \in Nat
      /\ errors \in 0 .. MaxErrors /\ MaxErrors \in Nat /\ MaxKey \in Nat /\ next \in 1 .. MaxKey + 1
    BY BoundAssumption DEF TypeOK
<1>1. ASSUME NEW h \in Handle, NEW a \in {"ok", "bad"}, Association(h, a) PROVE Typed'
    <2>1. (a = "bad") \in BOOLEAN  OBVIOUS
    <2>2. err' \in [Handle -> BOOLEAN] /\ dbErr' \in [Handle -> BOOLEAN]
        BY <1>1, <2>1 DEF Association, TypeOK
    <2>3. QED  BY <1>1, <2>2 DEF Association, TypeOK, links, Todo
<1>2. ASSUME NEW h \in Handle, NEW call \in Changing, NEW os \in Args(h), Start(h, call, os) PROVE Typed'
    <2> DEFINE w == [call |-> call, todo |-> os, cur |-> 0, some |-> os # <<>>]
    <2>1. w \in Work /\ Range(w.todo) \subseteq Own[h]
        <3>1. (os # <<>>) \in BOOLEAN  OBVIOUS
        <3>2. QED  BY <1>0, <3>1, ArgsTyped DEF Work
    <2>2. Enter(h, w) /\ calls[h] < MaxCalls[h]  BY <1>2 DEF Start
    <2>3. w.call # "none" /\ w.cur = 0  BY DEF Changing
    <2>4. /\ field' = IF call = "replace" THEN [field EXCEPT ![h] = {}] ELSE field
          /\ UNCHANGED <<row, next, joined, key, assoc, err, errors, dbErr, failed, lost, burnt>>
        BY <1>2 DEF Start
    <2> HIDE DEF w
    <2>5. field' \in [Handle -> SUBSET Keys]  BY <2>4 DEF TypeOK
    <2>6. TypeOK'  BY <2>1, <2>2, <2>4, <2>5, EnterTyped DEF TypeOK
    <2>7. QED  BY <2>1, <2>2, <2>3, <2>4, <2>6, EnterTyped, CallsTyped
<1>3. ASSUME NEW h \in Handle, Ignored(h) PROVE Typed'
    BY <1>3, DoneTyped DEF Ignored, Reads, Done, links, TypeOK, Todo
<1>4. ASSUME NEW h \in Handle, RejectValue(h) PROVE Typed'
    <2>1. Todo(h) # <<>> /\ Skip(h) /\ Fail(h)  BY <1>4 DEF RejectValue, Saving
    <2>2. TypeOK'  BY <1>4, <2>1, SkipTyped, FailTyped DEF RejectValue, links, TypeOK
    <2>3. QED  BY <1>4, <2>1, <2>2, SkipTyped, CallsTyped DEF RejectValue, links, Saving
<1>5. ASSUME NEW h \in Handle, SaveValue(h) PROVE Typed'
    <2> DEFINE o == Head(Todo(h))
    <2>1. /\ Todo(h) # <<>> /\ work[h].cur = 0 /\ work[h].call # "none"
          /\ UNCHANGED <<joined, field, assoc, dbErr, out, swept, alone, failed, lost, calls>>
        BY <1>5 DEF SaveValue, Saving
    <2>2. o \in Obj  BY <2>1, TailTyped
    <2>3. \A k \in 0 .. next : (IF o \in ByValue THEN key ELSE [key EXCEPT ![o] = k]) \in [Obj -> 0 .. next]
        BY <2>2, <1>0 DEF TypeOK
    <2>4. ASSUME next \in Keys,
                 row' = [k \in DOMAIN row \cup {next} |-> IF k = next THEN o ELSE row[k]],
                 next' = next + 1, key' = IF o \in ByValue THEN key ELSE [key EXCEPT ![o] = next],
                 work' = [work EXCEPT ![h].cur = next], Pass, UNCHANGED burnt
          PROVE  Typed'
        <3>1. next \in 0 .. next /\ next \in 0 .. MaxKey /\ next \notin DOMAIN row /\ next \notin burnt
            BY <1>0, <2>4 DEF TypeOK, Keys
        <3>2. key' \in [Obj -> 0 .. next' - 1]  BY <2>3, <2>4, <3>1, <1>0
        <3>3. DOMAIN row' = DOMAIN row \cup {next} /\ Range(row') \subseteq Obj
            <4>1. \A k \in DOMAIN row : row[k] \in Obj  BY DEF TypeOK, Range
            <4>2. DOMAIN row' = DOMAIN row \cup {next}  BY <2>4
            <4>3. \A k \in DOMAIN row' : row'[k] = IF k = next THEN o ELSE row[k]  BY <2>4
            <4>4. \A k \in DOMAIN row' : k # next => k \in DOMAIN row  BY <4>2
            <4>5. \A k \in DOMAIN row' : row'[k] \in Obj  BY <2>2, <4>1, <4>3, <4>4
            <4>6. QED  BY <4>2, <4>5 DEF Range
        <3>4. /\ work' \in [Handle -> Work] /\ \A g \in Handle \ {h} : work'[g] = work[g]
              /\ work'[h].todo = Todo(h) /\ work'[h].cur = next /\ work'[h].call = work[h].call
            BY <2>4, <3>1 DEF Work, Todo
        <3>5. next' \in 1 .. MaxKey + 1 /\ DOMAIN row' \subseteq 1 .. next' - 1 /\ burnt \subseteq 1 .. next' - 1
            BY <1>0, <2>4, <3>3 DEF TypeOK, Keys
        <3>6. \A g \in Handle : Range(Todo(g)') \subseteq Own[g]  BY <3>4 DEF TypeOK, Todo
        <3>7. DOMAIN work' = Handle /\ burnt' \cap DOMAIN row' = {}
            BY <2>4, <3>1, <3>3, <3>4 DEF TypeOK
        <3>8. UNCHANGED <<joined, field, assoc, dbErr, out, swept, alone, failed, lost, calls, err, errors, burnt>>
            BY <2>1, <2>4 DEF Pass
        <3> HIDE DEF o
        <3>9. TypeOK'  BY <3>2, <3>3, <3>5, <3>6, <3>7, <3>8 DEF TypeOK
        <3>10. QED  BY <2>1, <3>3, <3>4, <3>9, CallsTyped
    <2>5. ASSUME next \in Keys, next' = next + 1, burnt' = burnt \cup {next},
                 key' = IF o \in ByValue THEN key ELSE [key EXCEPT ![o] = next],
                 Skip(h), Fail(h), UNCHANGED row
          PROVE  Typed'
        <3>1. next \in 0 .. next /\ next \notin DOMAIN row  BY <1>0, <2>5 DEF TypeOK, Keys
        <3>2. key' \in [Obj -> 0 .. next' - 1]  BY <2>3, <2>5, <3>1, <1>0
        <3>3. next' \in 1 .. MaxKey + 1 /\ next \in 1 .. next' - 1 /\ 1 .. next - 1 \subseteq 1 .. next' - 1
            BY <1>0, <2>5 DEF Keys
        <3>4. /\ DOMAIN row' \subseteq 1 .. next' - 1 /\ burnt' \subseteq 1 .. next' - 1
              /\ burnt' \cap DOMAIN row' = {} /\ Range(row') \subseteq Obj
            BY <2>5, <3>1, <3>3 DEF TypeOK
        <3>5. /\ err' \in [Handle -> BOOLEAN] /\ errors' \in 0 .. MaxErrors /\ DOMAIN work' = Handle
              /\ \A g \in Handle : Range(Todo(g)') \subseteq Own[g]
            BY <2>1, <2>5, SkipTyped, FailTyped
        <3> HIDE DEF o
        <3>6. TypeOK'  BY <2>1, <3>2, <3>3, <3>4, <3>5 DEF TypeOK
        <3>7. QED  BY <2>1, <2>5, <3>6, SkipTyped, CallsTyped
    <2>6. ASSUME Skip(h), Fail(h), UNCHANGED <<row, next, key, burnt>> PROVE Typed'
        <3>1. TypeOK'  BY <2>1, <2>6, SkipTyped, FailTyped DEF TypeOK
        <3>2. QED  BY <2>1, <2>6, <3>1, SkipTyped, CallsTyped
    <2>7. QED  BY <1>5, <2>4, <2>5, <2>6 DEF SaveValue
<1>6. ASSUME NEW h \in Handle, Link(h) PROVE Typed'
    <2>1. /\ Todo(h) # <<>> /\ Skip(h) /\ (Fail(h) \/ Pass) /\ work[h].call # "none"
          /\ UNCHANGED <<row, next, key, assoc, dbErr, out, swept, alone, lost, burnt, calls>>
        BY <1>6 DEF Link, Saving
    <2>2. ValueKey(h) \in Keys  BY <1>6, LinkedKey
    <2>3. field' \in [Handle -> SUBSET Keys] /\ failed' \in [Handle -> SUBSET Keys] /\ joined' \subseteq Keys
        <3>1. PICK k \in Keys : /\ field' = [field EXCEPT ![h] = @ \cup {k}]
                                /\ \/ joined' = joined \cup {k} /\ UNCHANGED failed
                                   \/ failed' = [failed EXCEPT ![h] = @ \cup {k}] /\ UNCHANGED joined
            BY <1>6, <2>2 DEF Link
        <3>2. \A g \in Handle : field[g] \cup {k} \in SUBSET Keys /\ failed[g] \cup {k} \in SUBSET Keys
            BY DEF TypeOK
        <3>3. field' \in [Handle -> SUBSET Keys]  BY <3>1, <3>2 DEF TypeOK
        <3>4. joined' \subseteq Keys  BY <3>1 DEF TypeOK
        <3>5. failed' \in [Handle -> SUBSET Keys]
            <4>1. failed' = [failed EXCEPT ![h] = @ \cup {k}] \/ failed' = failed  BY <3>1
            <4>2. failed \in [Handle -> SUBSET Keys]  BY DEF TypeOK
            <4>3. QED  BY <4>1, <4>2, <3>2
        <3>6. QED  BY <3>3, <3>4, <3>5
    <2>4. TypeOK'  BY <2>1, <2>3, SkipTyped, FailTyped DEF TypeOK
    <2>5. QED  BY <2>1, <2>4, SkipTyped, CallsTyped
<1>7. ASSUME NEW h \in Handle, AppendEnd(h) PROVE Typed'
    <2>1. /\ Return(h) /\ err' = err
          /\ UNCHANGED <<links, assoc, errors, dbErr, swept, alone, failed, lost, burnt, calls>>
        BY <1>7 DEF AppendEnd
    <2>2. err' \in [Handle -> BOOLEAN] /\ UNCHANGED <<row, next, joined, field, key>>
        BY <2>1 DEF links, TypeOK
    <2>3. TypeOK'  BY <2>1, <2>2, ReturnTyped DEF TypeOK
    <2>4. QED  BY <2>1, <2>2, <2>3, ReturnTyped, CallsTyped DEF Idle
<1>8. ASSUME NEW h \in Handle, ReplaceEnd(h) PROVE Typed'
    <2>1. /\ Return(h) /\ (Fail(h) \/ Pass)
          /\ UNCHANGED <<row, next, field, key, assoc, dbErr, alone, failed, burnt, calls>>
        BY <1>8 DEF ReplaceEnd
    <2>2. joined' \subseteq Keys /\ lost' \in [Handle -> SUBSET Keys] /\ swept' \in [Handle -> BOOLEAN]
        BY <1>8, UnlinkTyped DEF ReplaceEnd, TypeOK
    <2>3. TypeOK'  BY <2>1, <2>2, ReturnTyped, FailTyped DEF TypeOK
    <2>4. QED  BY <2>1, <2>3, ReturnTyped, FailTyped, CallsTyped DEF Idle
<1>9. ASSUME NEW h \in Handle, Delete(h) PROVE Typed'
    <2>1. /\ Return(h) /\ (Fail(h) \/ Pass)
          /\ UNCHANGED <<row, next, key, assoc, dbErr, swept, alone, failed, burnt, calls>>
        BY <1>9 DEF Delete
    <2>2. joined' \subseteq Keys /\ lost' \in [Handle -> SUBSET Keys]
        BY <1>9, UnlinkTyped DEF Delete, TypeOK
    <2> DEFINE ks == {key[o] : o \in Range(Todo(h))} \ {0}
    <2>3. field' = [field EXCEPT ![h] = @ \ ks] \/ UNCHANGED field  BY <1>9 DEF Delete
    <2> HIDE DEF ks
    <2>4. field' \in [Handle -> SUBSET Keys]
        <3>1. field \in [Handle -> SUBSET Keys] /\ \A g \in Handle : field[g] \ ks \in SUBSET Keys
            BY DEF TypeOK
        <3>2. QED  BY <2>3, <3>1
    <2>5. TypeOK'  BY <2>1, <2>2, <2>4, ReturnTyped, FailTyped DEF TypeOK
    <2>6. QED  BY <2>1, <2>5, ReturnTyped, FailTyped, CallsTyped DEF Idle
<1>10. ASSUME NEW h \in Handle, Find(h) PROVE Typed'
    <2>1. PICK bad \in BOOLEAN : Met(bad) /\
             IF assoc[h] = "bad"
             THEN out' = [out EXCEPT ![h] = "panic"] /\ UNCHANGED <<err, dbErr>>
             ELSE /\ dbErr' = [dbErr EXCEPT ![h] = @ \/ bad]
                  /\ err' = [err EXCEPT ![h] = @ \/ dbErr'[h]]
                  /\ out' = [out EXCEPT ![h] = IF err'[h] THEN "error" ELSE "ok"]
        BY <1>10 DEF Find
    <2>2. errors' \in 0 .. MaxErrors  BY <1>0, <2>1 DEF Met
    <2>3. \A b, c : (b \/ c) \in BOOLEAN  BY Zenon
    <2>4. err' \in [Handle -> BOOLEAN] /\ dbErr' \in [Handle -> BOOLEAN]
        <3>1. err \in [Handle -> BOOLEAN] /\ dbErr \in [Handle -> BOOLEAN]  BY DEF TypeOK
        <3>2. dbErr' \in [Handle -> BOOLEAN]  BY <2>1, <2>3, <3>1
        <3>3. err' \in [Handle -> BOOLEAN]  BY <2>1, <2>3, <3>1
        <3>4. QED  BY <3>2, <3>3
    <2>5. out' \in [Handle -> {"none", "ok", "error", "ignored", "panic", "uncounted"}]
        BY <2>1 DEF TypeOK
    <2>6. Done(h) /\ calls[h] < MaxCalls[h]  BY <1>10 DEF Find, Reads
    <2>7. QED  BY <2>2, <2>4, <2>5, <2>6, DoneTyped DEF Done, links, TypeOK, Todo
<1>11. ASSUME NEW h \in Handle, Count(h) PROVE Typed'
    <2>1. PICK bad \in BOOLEAN : Met(bad) /\
             out' = [out EXCEPT ![h] = IF assoc[h] = "bad" \/ dbErr[h] THEN "panic"
                                       ELSE IF bad THEN "uncounted" ELSE "ok"]
        BY <1>11 DEF Count
    <2>2. errors' \in 0 .. MaxErrors  BY <1>0, <2>1 DEF Met
    <2>3. out' \in [Handle -> {"none", "ok", "error", "ignored", "panic", "uncounted"}]
        BY <2>1 DEF TypeOK
    <2>4. Done(h) /\ calls[h] < MaxCalls[h] /\ UNCHANGED <<err, dbErr>>  BY <1>11 DEF Count, Reads
    <2>5. QED  BY <2>2, <2>3, <2>4, DoneTyped DEF Done, links, TypeOK, Todo
<1>12. CASE UNCHANGED vars  BY <1>12 DEF vars, links, TypeOK, Todo
<1>13. QED
    BY <1>1, <1>2, <1>3, <1>4, <1>5, <1>6, <1>7, <1>8, <1>9, <1>10, <1>11, <1>12 DEF Next
-----------------------------------------------------------------------------
(* Keys, rows and links *)

\* Only SaveValue makes rows and gives keys; only Link adds join rows.
LEMMA KeysKept ==
    ASSUME NEW h \in Handle,
           \/ \E a \in {"ok", "bad"} : Association(h, a)
           \/ \E call \in Changing, os \in Args(h) : Start(h, call, os)
           \/ Ignored(h) \/ RejectValue(h) \/ Link(h)
           \/ AppendEnd(h) \/ ReplaceEnd(h) \/ Delete(h) \/ Find(h) \/ Count(h)
    PROVE  UNCHANGED <<row, key, burnt>>
BY DEF Association, Start, Ignored, RejectValue, Link, AppendEnd, ReplaceEnd, Delete, Find, Count, Done, links

LEMMA LinksKept ==
    ASSUME NEW h \in Handle,
           \/ \E a \in {"ok", "bad"} : Association(h, a)
           \/ \E call \in Changing, os \in Args(h) : Start(h, call, os)
           \/ Ignored(h) \/ RejectValue(h) \/ SaveValue(h)
           \/ AppendEnd(h) \/ ReplaceEnd(h) \/ Delete(h) \/ Find(h) \/ Count(h)
    PROVE  joined' \subseteq joined
<1>1. CASE ReplaceEnd(h) \/ Delete(h)
    BY <1>1 DEF ReplaceEnd, Delete, Unlink
<1>2. CASE ~(ReplaceEnd(h) \/ Delete(h))
    BY <1>2 DEF Association, Start, Ignored, RejectValue, SaveValue, AppendEnd, Find, Count, Done, links
<1>3. QED  BY <1>1, <1>2

\* An INSERT gives its key to an object that had none: no row was made of that one before.
LEMMA SaveKeys ==
    ASSUME NEW h \in Handle, Typed, KeysAreRows, SaveValue(h)
    PROVE  KeysAreRows' /\ DOMAIN row \cup burnt \subseteq DOMAIN row' \cup burnt'
<1> DEFINE o == Head(Todo(h))
<1>1. Todo(h) # <<>> /\ key[o] = 0  BY DEF SaveValue, Saving, NeedsSave
<1>2. o \in Obj  BY <1>1, TailTyped
<1>3. key \in [Obj -> 0 .. next - 1] /\ next \notin DOMAIN row /\ next \in 1 .. MaxKey + 1 /\ 0 \notin DOMAIN row
    BY BoundAssumption DEF Typed, TypeOK
<1>4. \A k \in DOMAIN row : row[k] \notin ByValue => row[k] # o
    BY <1>1, <1>3 DEF KeysAreRows
<1>5. \A k \in DOMAIN row : row[k] \in Obj  BY DEF Typed, TypeOK, Range
<1>6. \/ /\ row' = [k \in DOMAIN row \cup {next} |-> IF k = next THEN o ELSE row[k]]
         /\ key' = IF o \in ByValue THEN key ELSE [key EXCEPT ![o] = next]
         /\ UNCHANGED burnt
      \/ /\ burnt' = burnt \cup {next}
         /\ key' = IF o \in ByValue THEN key ELSE [key EXCEPT ![o] = next]
         /\ UNCHANGED row
      \/ UNCHANGED <<row, key, burnt>>
    BY DEF SaveValue
<1> HIDE DEF o
<1>7. DOMAIN row \cup burnt \subseteq DOMAIN row' \cup burnt'  BY <1>6
<1>8. \A p \in Obj : key'[p] = key[p] \/ (key'[p] = next /\ next \in DOMAIN row' \cup burnt')
    BY <1>2, <1>3, <1>6
<1>9. \A p \in Obj : key'[p] \in DOMAIN row' \cup burnt' \cup {0}
    BY <1>7, <1>8 DEF KeysAreRows
<1>10. ASSUME NEW k \in DOMAIN row', row'[k] \notin ByValue PROVE key'[row'[k]] = k
    <2>1. CASE k \in DOMAIN row
        <3>1. row'[k] = row[k] /\ row[k] # o  BY <1>3, <1>4, <1>6, <1>10, <2>1
        <3>2. key'[row[k]] = key[row[k]]  BY <1>2, <1>3, <1>5, <1>6, <2>1, <3>1
        <3>3. QED  BY <1>10, <2>1, <3>1, <3>2 DEF KeysAreRows
    <2>2. CASE k \notin DOMAIN row
        <3>1. /\ k = next /\ row'[k] = o
              /\ key' = IF o \in ByValue THEN key ELSE [key EXCEPT ![o] = next]
            BY <1>6, <1>10, <2>2
        <3>2. QED  BY <1>2, <1>3, <1>10, <3>1
    <2>3. QED  BY <2>1, <2>2
<1>11. QED  BY <1>7, <1>9, <1>10 DEF KeysAreRows

LEMMA KeysStep ==
    ASSUME Typed, KeysAreRows, DanglingOnlyIfRolledBack, [Next]_vars
    PROVE  KeysAreRows' /\ DanglingOnlyIfRolledBack'
<1> USE DEF DanglingOnlyIfRolledBack
<1>1. CASE UNCHANGED vars  BY <1>1 DEF vars, links, KeysAreRows
<1>2. ASSUME NEW h \in Handle, SaveValue(h) PROVE KeysAreRows' /\ DanglingOnlyIfRolledBack'
    BY <1>2, SaveKeys, LinksKept
<1>3. ASSUME NEW h \in Handle, Link(h) PROVE KeysAreRows' /\ DanglingOnlyIfRolledBack'
    <2>1. UNCHANGED <<row, key, burnt>>  BY <1>3, KeysKept
    <2>2. ValueKey(h) \in DOMAIN row \cup burnt
        <3>1. ValueKey(h) # 0  BY <1>3, LinkedKey DEF Keys
        <3>2. QED  BY <1>3, <3>1, LinkedKey DEF KeysAreRows
    <2>3. joined' \subseteq joined \cup {ValueKey(h)}  BY <1>3 DEF Link
    <2>4. QED  BY <2>1, <2>2, <2>3 DEF KeysAreRows
<1>4. ASSUME NEW h \in Handle, 
             \/ \E a \in {"ok", "bad"} : Association(h, a)
             \/ \E call \in Changing, os \in Args(h) : Start(h, call, os)
             \/ Ignored(h) \/ RejectValue(h)
             \/ AppendEnd(h) \/ ReplaceEnd(h) \/ Delete(h) \/ Find(h) \/ Count(h)
      PROVE  KeysAreRows' /\ DanglingOnlyIfRolledBack'
    <2>1. UNCHANGED <<row, key, burnt>>  BY <1>4, KeysKept
    <2>2. joined' \subseteq joined  BY <1>4, LinksKept
    <2>3. QED  BY <2>1, <2>2 DEF KeysAreRows
<1>5. QED  BY <1>1, <1>2, <1>3, <1>4 DEF Next
-----------------------------------------------------------------------------
(* Errors *)

LEMMA ErrorsStep ==
    ASSUME Typed, ErrorsStick, PanicsOnlyAfterError, [Next]_vars
    PROVE  ErrorsStick' /\ PanicsOnlyAfterError'
<1> USE DEF ErrorsStick, PanicsOnlyAfterError
<1>0. TypeOK  BY DEF Typed
<1>1. CASE UNCHANGED vars  BY <1>1 DEF vars
<1>2. ASSUME NEW h \in Handle, NEW a \in {"ok", "bad"}, Association(h, a)
      PROVE  ErrorsStick' /\ PanicsOnlyAfterError'
    BY <1>0, <1>2 DEF Association, TypeOK
<1>3. ASSUME NEW h \in Handle, NEW call \in Changing, NEW os \in Args(h), Start(h, call, os)
      PROVE  ErrorsStick' /\ PanicsOnlyAfterError'
    BY <1>0, <1>3 DEF Start, Enter, TypeOK
<1>4. ASSUME NEW h \in Handle, Ignored(h) PROVE ErrorsStick' /\ PanicsOnlyAfterError'
    BY <1>0, <1>4 DEF Ignored, Done, TypeOK
<1>5. ASSUME NEW h \in Handle, RejectValue(h) \/ SaveValue(h) \/ Link(h)
      PROVE  ErrorsStick' /\ PanicsOnlyAfterError'
    <2>1. (Fail(h) \/ Pass) /\ UNCHANGED <<assoc, dbErr, out>>
        BY <1>5 DEF RejectValue, SaveValue, Link
    <2>2. QED  BY <2>1, FailTyped
<1>6. ASSUME NEW h \in Handle, AppendEnd(h) \/ ReplaceEnd(h) \/ Delete(h)
      PROVE  ErrorsStick' /\ PanicsOnlyAfterError'
    <2>1. (Fail(h) \/ Pass) /\ UNCHANGED <<assoc, dbErr>> /\ Return(h)
        BY <1>6 DEF AppendEnd, ReplaceEnd, Delete, Pass
    <2>2. \A g \in Handle : out'[g] = "panic" => out[g] = "panic"
        BY <1>0, <2>1 DEF Return, TypeOK
    <2>3. QED  BY <2>1, <2>2, FailTyped
<1>7. ASSUME NEW h \in Handle, Find(h) PROVE ErrorsStick' /\ PanicsOnlyAfterError'
    <2>1. PICK bad \in BOOLEAN :
             IF assoc[h] = "bad"
             THEN out' = [out EXCEPT ![h] = "panic"] /\ UNCHANGED <<err, dbErr>>
             ELSE /\ dbErr' = [dbErr EXCEPT ![h] = @ \/ bad]
                  /\ err' = [err EXCEPT ![h] = @ \/ dbErr'[h]]
                  /\ out' = [out EXCEPT ![h] = IF err'[h] THEN "error" ELSE "ok"]
        BY <1>7 DEF Find
    <2>2. UNCHANGED assoc  BY <1>7 DEF Find, Done
    <2>3. CASE assoc[h] = "bad"  BY <1>0, <2>1, <2>2, <2>3 DEF TypeOK
    <2>4. CASE assoc[h] # "bad"
        <3>1. \A g \in Handle : err[g] => err'[g]  BY <1>0, <2>1, <2>4 DEF TypeOK
        <3>2. \A g \in Handle : dbErr'[g] => err'[g]  BY <1>0, <2>1, <2>4 DEF TypeOK
        <3>3. \A g \in Handle : out'[g] = "panic" => out[g] = "panic"
            BY <1>0, <2>1, <2>4 DEF TypeOK
        <3>4. QED  BY <2>2, <3>1, <3>2, <3>3
    <2>5. QED  BY <2>3, <2>4
<1>8. ASSUME NEW h \in Handle, Count(h) PROVE ErrorsStick' /\ PanicsOnlyAfterError'
    BY <1>0, <1>8 DEF Count, Done, TypeOK
<1>9. QED  BY <1>1, <1>2, <1>3, <1>4, <1>5, <1>6, <1>7, <1>8 DEF Next
-----------------------------------------------------------------------------
(* The field *)

\* A call is in progress if it has a name.
LEMMA BusyCalls == ASSUME Typed, NEW h \in Handle PROVE Busy(h) <=> work[h].call # "none"
BY DEF Typed, Busy, Idle

\* What Unlink takes from the others is lost to them.
LEMMA UnlinkedIsLost ==
    ASSUME Typed, NEW h \in Handle, NEW ks, Unlink(h, ks)
    PROVE  /\ joined' = joined \ ks
           /\ \A g \in Handle \ {h} : joined \cup lost[g] \subseteq joined' \cup lost'[g]
           /\ lost'[h] = lost[h]
BY DEF Unlink, Typed, TypeOK

LEMMA FieldStep ==
    ASSUME Typed, ClearsAll, FieldIsLinked, [Next]_vars
    PROVE  ClearsAll' /\ FieldIsLinked'
<1> USE DEF ClearsAll, FieldIsLinked
<1>0. TypeOK  BY DEF Typed
<1>1. CASE UNCHANGED vars  BY <1>1 DEF vars, links, Todo
<1>2. ASSUME NEW h \in Handle, NEW a \in {"ok", "bad"}, Association(h, a)
      PROVE  ClearsAll' /\ FieldIsLinked'
    BY <1>2 DEF Association, links, Todo
<1>3. ASSUME NEW h \in Handle, NEW call \in Changing, NEW os \in Args(h), Start(h, call, os)
      PROVE  ClearsAll' /\ FieldIsLinked'
    <2>1. work' = [work EXCEPT ![h] = [call |-> call, todo |-> os, cur |-> 0, some |-> os # <<>>]]
        BY <1>3 DEF Start, Enter
    <2>2. /\ field' = IF call = "replace" THEN [field EXCEPT ![h] = {}] ELSE field
          /\ UNCHANGED <<joined, failed, lost>>
        BY <1>3 DEF Start
    <2>3. FieldIsLinked'  BY <1>0, <2>2 DEF TypeOK
    <2>4. \A g \in Handle \ {h} : work'[g] = work[g] /\ field'[g] = field[g]
        BY <1>0, <2>1, <2>2 DEF TypeOK
    <2>5. work'[h] = [call |-> call, todo |-> os, cur |-> 0, some |-> os # <<>>]
        BY <2>1 DEF Typed
    <2>6. call = "replace" => field'[h] = {}  BY <1>0, <2>2 DEF TypeOK
    <2>7. ~work'[h].some => work'[h].todo = <<>>
        <3> DEFINE some == os # <<>>
        <3>1. work'[h] = [call |-> call, todo |-> os, cur |-> 0, some |-> some] /\ (some \/ os = <<>>)
            BY <2>5
        <3> HIDE DEF some
        <3>2. QED  BY <3>1
    <2>8. work'[h].call = call  BY <2>5
    <2>9. ClearsAll'  BY <2>4, <2>6, <2>7, <2>8 DEF Todo
    <2>10. QED  BY <2>3, <2>9
<1>4. ASSUME NEW h \in Handle, Ignored(h) \/ Find(h) \/ Count(h) PROVE ClearsAll' /\ FieldIsLinked'
    BY <1>4 DEF Ignored, Find, Count, Done, links, Todo
<1>5. ASSUME NEW h \in Handle, RejectValue(h) \/ SaveValue(h) PROVE ClearsAll' /\ FieldIsLinked'
    <2>1. UNCHANGED <<field, joined, failed, lost>> /\ Todo(h) # <<>>
        BY <1>5 DEF RejectValue, SaveValue, links, Saving
    <2>2. Skip(h) \/ work' = [work EXCEPT ![h].cur = next]  BY <1>5 DEF RejectValue, SaveValue
    <2>3. /\ \A g \in Handle \ {h} : work'[g] = work[g]
          /\ work'[h].some = work[h].some /\ work'[h].call = work[h].call
        <3>1. CASE Skip(h)  BY <2>1, <3>1, SkipTyped
        <3>2. CASE work' = [work EXCEPT ![h].cur = next]  BY <3>2 DEF Typed, Work
        <3>3. QED  BY <2>2, <3>1, <3>2
    <2>4. QED  BY <2>1, <2>3 DEF Todo
<1>6. ASSUME NEW h \in Handle, Link(h) PROVE ClearsAll' /\ FieldIsLinked'
    <2>1. PICK k : /\ field' = [field EXCEPT ![h] = @ \cup {k}]
                   /\ \/ joined' = joined \cup {k} /\ UNCHANGED failed
                      \/ failed' = [failed EXCEPT ![h] = @ \cup {k}] /\ UNCHANGED joined
        BY <1>6 DEF Link
    <2>2. Todo(h) # <<>> /\ Skip(h) /\ UNCHANGED lost  BY <1>6 DEF Link, Saving
    <2>3. FieldIsLinked'
        <3>1. /\ field'[h] = field[h] \cup {k}
              /\ \A g \in Handle \ {h} : field'[g] = field[g]
              /\ \A g \in Handle : joined \cup failed[g] \subseteq joined' \cup failed'[g]
            BY <1>0, <2>1 DEF TypeOK
        <3>2. k \in joined' \cup failed'[h]
            <4>1. failed \in [Handle -> SUBSET Keys]  BY <1>0 DEF TypeOK
            <4>2. CASE joined' = joined \cup {k}  BY <4>2
            <4>3. CASE failed' = [failed EXCEPT ![h] = @ \cup {k}]  BY <4>1, <4>3
            <4>4. QED  BY <2>1, <4>2, <4>3
        <3>3. QED  BY <2>2, <3>1, <3>2
    <2>4. ClearsAll'
        <3>1. /\ \A g \in Handle \ {h} : work'[g] = work[g] /\ field'[g] = field[g]
              /\ work'[h].some = work[h].some /\ work'[h].call = work[h].call
            BY <1>0, <2>1, <2>2, SkipTyped DEF TypeOK
        <3>2. QED  BY <2>2, <3>1 DEF Todo
    <2>5. QED  BY <2>3, <2>4
<1>7. ASSUME NEW h \in Handle, AppendEnd(h) \/ ReplaceEnd(h) \/ Delete(h)
      PROVE  ClearsAll' /\ FieldIsLinked'
    <2>1. /\ \A g \in Handle \ {h} : work'[g] = work[g] /\ field'[g] = field[g]
          /\ work'[h].call = "none"
        BY <1>0, <1>7 DEF AppendEnd, ReplaceEnd, Delete, Return, TypeOK, links, Idle
    <2>2. ClearsAll'  BY <2>1 DEF Todo
    <2>3. failed' = failed  BY <1>7 DEF AppendEnd, ReplaceEnd, Delete
    <2>4. CASE UNCHANGED <<joined, field, lost>>  BY <2>2, <2>3, <2>4
    <2>5. CASE ReplaceEnd(h) /\ Unlink(h, joined \ Spare(h))
        <3>1. field[h] \subseteq Spare(h)  BY <2>5 DEF ReplaceEnd, Spare, Todo
        <3>2. joined' = joined \ (joined \ Spare(h)) /\ lost'[h] = lost[h] /\ UNCHANGED field
            BY <2>5, UnlinkedIsLost DEF ReplaceEnd
        <3>3. field'[h] \subseteq joined' \cup failed'[h] \cup lost'[h]  BY <2>3, <3>1, <3>2
        <3>4. QED  BY <2>1, <2>2, <2>3, <2>5, <3>3, UnlinkedIsLost
    <2>6. ASSUME NEW ks, Unlink(h, ks), field' = [field EXCEPT ![h] = @ \ ks]
          PROVE  ClearsAll' /\ FieldIsLinked'
        <3>1. field'[h] = field[h] \ ks  BY <1>0, <2>6 DEF TypeOK
        <3>2. QED  BY <2>1, <2>2, <2>3, <2>6, <3>1, UnlinkedIsLost
    <2>7. QED  BY <1>7, <2>4, <2>5, <2>6 DEF AppendEnd, ReplaceEnd, Delete, links
<1>8. QED  BY <1>1, <1>2, <1>3, <1>4, <1>5, <1>6, <1>7 DEF Next
-----------------------------------------------------------------------------
(* Replace *)

\* While a call is in progress no other Association is alone.
LEMMA NotAlone ==
    ASSUME Typed, ReplaceLinks, NEW h \in Handle, Busy(h)
    PROVE  \A g \in Handle \ {h} : ~alone[g]
BY DEF ReplaceLinks

LEMMA ReplaceStep ==
    ASSUME Typed, ClearsAll, ReplaceLinks, ReplaceLeavesItsField, [Next]_vars
    PROVE  ReplaceLinks' /\ ReplaceLeavesItsField'
<1>0. TypeOK  BY DEF Typed
<1>1. CASE UNCHANGED vars  BY <1>1 DEF vars, links, ReplaceLinks, ReplaceLeavesItsField, Busy
<1>2. ASSUME NEW h \in Handle, NEW a \in {"ok", "bad"}, Association(h, a)
      PROVE  ReplaceLinks' /\ ReplaceLeavesItsField'
    <2>1. UNCHANGED <<joined, field, work, swept, alone>> /\ work[h].call = "none"
        BY <1>2, BusyCalls DEF Association, links
    <2>2. /\ \A g \in Handle \ {h} : err'[g] = err[g] /\ out'[g] = out[g]
          /\ out'[h] = "none"
        BY <1>0, <1>2 DEF Association, TypeOK
    <2>3. ReplaceLinks'  BY <2>1, <2>2 DEF ReplaceLinks, Busy
    <2>4. ReplaceLeavesItsField'  BY <2>1, <2>2 DEF ReplaceLeavesItsField, Busy
    <2>5. QED  BY <2>3, <2>4
<1>3. ASSUME NEW h \in Handle, NEW call \in Changing, NEW os \in Args(h), Start(h, call, os)
      PROVE  ReplaceLinks' /\ ReplaceLeavesItsField'
    <2> DEFINE w == [call |-> call, todo |-> os, cur |-> 0, some |-> os # <<>>]
    <2>1. Enter(h, w) /\ UNCHANGED <<joined, err>>  BY <1>3 DEF Start
    <2>2. call = "replace" => field'[h] = {}  BY <1>0, <1>3 DEF Start, TypeOK
    <2>3. w.call = call /\ call # "none"  BY DEF Changing
    <2> HIDE DEF w
    <2>4. /\ \A g \in Handle \ {h} : work'[g] = work[g] /\ ~alone'[g] /\ swept'[g] = swept[g]
          /\ work'[h] = w /\ ~swept'[h]
          /\ alone'[h] => \A f \in Handle \ {h} : ~Busy(f)
        BY <1>0, <2>1 DEF Enter, TypeOK
    <2>5. Busy(h)'  BY <2>3, <2>4 DEF Busy, Idle
    <2>6. ReplaceLinks'  BY <2>1, <2>2, <2>3, <2>4 DEF ReplaceLinks, Busy
    <2>7. ReplaceLeavesItsField'  BY <2>4, <2>5 DEF ReplaceLeavesItsField
    <2>8. QED  BY <2>6, <2>7
<1>4. ASSUME NEW h \in Handle, Ignored(h) \/ Find(h) \/ Count(h)
      PROVE  ReplaceLinks' /\ ReplaceLeavesItsField'
    <2>1. UNCHANGED <<joined, field, work, alone>>
        BY <1>4 DEF Ignored, Find, Count, Done, links
    <2>2. /\ ~swept'[h] /\ \A g \in Handle \ {h} : swept'[g] = swept[g]
          /\ \A g \in Handle \ {h} : out'[g] = out[g]
        BY <1>0, <1>4 DEF Ignored, Find, Count, Done, TypeOK
    <2>3. \A g \in Handle : err[g] => err'[g]
        <3>1. err' = err \/ \E b : err' = [err EXCEPT ![h] = @ \/ b]
            BY <1>4 DEF Ignored, Find, Count
        <3>2. QED  BY <1>0, <3>1 DEF TypeOK
    <2>4. ReplaceLinks'  BY <2>1, <2>2, <2>3 DEF ReplaceLinks, Busy
    <2>5. ReplaceLeavesItsField'  BY <2>1, <2>2 DEF ReplaceLeavesItsField, Busy
    <2>6. QED  BY <2>4, <2>5
<1>5. ASSUME NEW h \in Handle, RejectValue(h) \/ SaveValue(h) \/ Link(h)
      PROVE  ReplaceLinks' /\ ReplaceLeavesItsField'
    <2>1. UNCHANGED <<alone, swept>> /\ (Fail(h) \/ Pass) /\ Todo(h) # <<>> /\ work[h].call # "none"
        BY <1>5 DEF RejectValue, SaveValue, Link, Saving
    <2>2. Skip(h) \/ work' = [work EXCEPT ![h].cur = next]  BY <1>5 DEF RejectValue, SaveValue, Link
    <2>3. /\ \A g \in Handle \ {h} : work'[g] = work[g]
          /\ work'[h].call = work[h].call
        <3>1. CASE Skip(h)  BY <2>1, <3>1, SkipTyped
        <3>2. CASE work' = [work EXCEPT ![h].cur = next]  BY <3>2 DEF Typed, Work
        <3>3. QED  BY <2>2, <3>1, <3>2
    <2>4. Busy(h) /\ Busy(h)'  BY <2>1, <2>3, BusyCalls DEF Busy, Idle
    <2>5. \A g \in Handle \ {h} : ~alone'[g]  BY <2>1, <2>4, NotAlone
    <2>6. ~err'[h] => ~err[h] /\ (field[h] \subseteq joined => field'[h] \subseteq joined')
        <3>1. CASE Link(h)
            <4>1. PICK k : /\ field' = [field EXCEPT ![h] = @ \cup {k}]
                           /\ joined' = joined \cup {k} \/ Fail(h)
                BY <3>1 DEF Link
            <4>2. field'[h] = field[h] \cup {k}  BY <1>0, <4>1 DEF TypeOK
            <4>3. Fail(h) => err'[h]  BY <1>0 DEF Fail, TypeOK
            <4>4. QED  BY <2>1, <4>1, <4>2, <4>3, FailTyped
        <3>2. CASE RejectValue(h) \/ SaveValue(h)
            <4>1. UNCHANGED <<field, joined>>  BY <3>2 DEF RejectValue, SaveValue, links
            <4>2. QED  BY <2>1, <4>1, FailTyped
        <3>3. QED  BY <1>5, <3>1, <3>2
    <2>7. ReplaceLinks'
        <3>1. \A g \in Handle : Busy(g)' <=> Busy(g)  BY <2>3, <2>4 DEF Busy
        <3>2. QED  BY <2>1, <2>3, <2>5, <2>6, <3>1 DEF ReplaceLinks
    <2>8. ReplaceLeavesItsField'  BY <2>4, <2>5 DEF ReplaceLeavesItsField
    <2>9. QED  BY <2>7, <2>8
<1>6. ASSUME NEW h \in Handle, AppendEnd(h) \/ ReplaceEnd(h) \/ Delete(h)
      PROVE  ReplaceLinks' /\ ReplaceLeavesItsField'
    <2>1. UNCHANGED alone /\ Return(h) /\ work[h].call # "none" /\ (Fail(h) \/ Pass)
        BY <1>6 DEF AppendEnd, ReplaceEnd, Delete, Pass
    <2>2. Busy(h) /\ ~swept[h]  BY <2>1, BusyCalls DEF ReplaceLinks
    <2>3. \A g \in Handle \ {h} : ~alone'[g]  BY <2>1, <2>2, NotAlone
    <2>4. /\ \A g \in Handle \ {h} : work'[g] = work[g] /\ swept'[g] = swept[g]
          /\ work'[h] = Idle
          /\ out'[h] = IF err'[h] THEN "error" ELSE "ok"
        BY <1>0, <1>6, <2>1 DEF AppendEnd, ReplaceEnd, Delete, Return, TypeOK
    <2>5. ~Busy(h)' /\ work'[h].call = "none" /\ \A g \in Handle \ {h} : Busy(g)' <=> Busy(g)
        BY <2>4 DEF Busy, Idle
    <2>6. ReplaceLinks'  BY <2>1, <2>3, <2>4, <2>5 DEF ReplaceLinks
    <2>7. ReplaceLeavesItsField'
        <3>1. SUFFICES ASSUME alone'[h], swept'[h]
                       PROVE  joined' \subseteq field'[h] /\ (~err'[h] => joined' = field'[h])
            BY <2>3, <2>4 DEF ReplaceLeavesItsField
        <3>2. ReplaceEnd(h) /\ Unlink(h, joined \ Spare(h)) /\ Pass
            BY <1>6, <2>2, <3>1 DEF AppendEnd, ReplaceEnd, Delete
        <3>3. joined' = joined \ (joined \ Spare(h)) /\ field' = field
            BY <3>2, UnlinkedIsLost DEF ReplaceEnd
        <3>4. Spare(h) = field[h]  BY <3>2 DEF ReplaceEnd, ClearsAll, Spare
        <3>5. ~err'[h] => field[h] \subseteq joined
            BY <2>1, <3>1, <3>2 DEF ReplaceLinks, ReplaceEnd, Pass
        <3>6. QED  BY <3>3, <3>4, <3>5
    <2>8. QED  BY <2>6, <2>7
<1>7. QED  BY <1>1, <1>2, <1>3, <1>4, <1>5, <1>6 DEF Next
-----------------------------------------------------------------------------
\* The inductive invariant holds in every state.
LEMMA Inductive == Spec => []IInv
<1>1. Init => IInv  BY InitIInv
<1>2. IInv /\ [Next]_vars => IInv'
    BY TypedStep, KeysStep, ErrorsStep, FieldStep, ReplaceStep DEF IInv
<1>3. QED  BY <1>1, <1>2, PTL DEF Spec

\* Source fields and join table agree but for join rows that could not be added and those another
\* handle has unlinked, and Find and Count panic only where the program can have seen an error.
THEOREM InvHolds == Spec => []Inv
<1>1. IInv => Inv  BY DEF IInv, Inv, Typed
<1>2. QED  BY <1>1, Inductive, PTL

\* Replace: one no other call overlaps leaves exactly the links of its field, or none but those
\* if it reports an error after unlinking.
THEOREM ReplaceHolds == Spec => []ReplaceLeavesItsField
<1>1. IInv => ReplaceLeavesItsField  BY DEF IInv
<1>2. QED  BY <1>1, Inductive, PTL

\* saveAssociations and Save: an object passed by pointer is stored at most once, however calls
\* fail and are repeated; the rows made of it are all the row of its key.
THEOREM StoredOnceHolds == Spec => []StoredOnce
<1>1. IInv => StoredOnce
    <2> SUFFICES ASSUME IInv, NEW o \in Obj \ ByValue
                 PROVE  Cardinality({k \in DOMAIN row : row[k] = o}) <= 1
        BY DEF StoredOnce
    <2>1. {k \in DOMAIN row : row[k] = o} \subseteq {key[o]}  BY DEF IInv, KeysAreRows
    <2>2. IsFiniteSet({key[o]}) /\ Cardinality({key[o]}) = 1  BY FS_Singleton
    <2>3. Cardinality({k \in DOMAIN row : row[k] = o}) <= Cardinality({key[o]})
        BY <2>1, <2>2, FS_Subset
    <2>4. QED  BY <2>2, <2>3
<1>2. QED  BY <1>1, Inductive, PTL

\* JoinTableHandler.Add: a join row has its row at the other end, or is one whose value's INSERT
\* was rolled back after the object had got its key.
THEOREM DanglingHolds == Spec => []DanglingOnlyIfRolledBack
<1>1. IInv => DanglingOnlyIfRolledBack  BY DEF IInv
<1>2. QED  BY <1>1, Inductive, PTL
=============================================================================
