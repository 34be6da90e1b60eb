----------------------- MODULE UserTransactionProofs -----------------------
(***************************************************************************)
(* What UserTransaction guarantees for any number of sessions, calls and   *)
(* levels: its types, that no transaction outlives the outermost call that *)
(* began it, that nothing is seen of a rehearsal and that each call whose  *)
(* function neither nests nor only sets errors is all or nothing.          *)
(***************************************************************************)
EXTENDS UserTransaction, TLAPS

\* DBOf is typed, and the level a session is on is a level.
LEMMA CurrentDB ==
    ASSUME TypeOK, NEW s \in Session
    PROVE  /\ level[s] \in Nat /\ level[s] <= MaxLevel /\ MaxLevel \in Nat
           /\ calls[s] \in Nat /\ calls[s] <= MaxCalls /\ MaxCalls \in Nat
           /\ DBOf(s) \in DB
           /\ level[s] > 0 => DBOf(s) = db[s][level[s]] /\ level[s] \in 1 .. MaxLevel
<1>1. level[s] \in 0 .. MaxLevel /\ calls[s] \in 0 .. MaxCalls /\ MaxLevel \in Nat /\ MaxCalls \in Nat
    BY LimitAssumption DEF TypeOK
<1>2. db[s] \in [1 .. MaxLevel -> DB]  BY DEF TypeOK
<1>3. Root \in DB  BY DEF Root, DB, Handles
<1>4. level[s] > 0 => level[s] \in 1 .. MaxLevel  BY <1>1
<1>5. QED  BY <1>1, <1>2, <1>3, <1>4 DEF DBOf

\* Entering a level keeps level and db typed.
LEMMA EnterTyped ==
    ASSUME TypeOK, NEW s \in Session, NEW h \in Handles, NEW e \in BOOLEAN,
           level[s] < MaxLevel, Enter(s, h, e)
    PROVE  level' \in [Session -> 0 .. MaxLevel] /\ db' \in [Session -> [1 .. MaxLevel -> DB]]
<1>1. level[s] + 1 \in 1 .. MaxLevel /\ level[s] + 1 \in 0 .. MaxLevel  BY CurrentDB
<1>2. [handle |-> h, err |-> e] \in DB  BY DEF DB
<1>3. level' \in [Session -> 0 .. MaxLevel]  BY <1>1 DEF Enter, TypeOK
<1>4. db[s] \in [1 .. MaxLevel -> DB] /\ db \in [Session -> [1 .. MaxLevel -> DB]]  BY DEF TypeOK
<1>5. [db[s] EXCEPT ![level[s] + 1] = [handle |-> h, err |-> e]] \in [1 .. MaxLevel -> DB]
    BY <1>1, <1>2, <1>4
<1>6. db' = [db EXCEPT ![s] = [db[s] EXCEPT ![level[s] + 1] = [handle |-> h, err |-> e]]]
    BY <1>4 DEF Enter
<1>7. QED  BY <1>3, <1>4, <1>5, <1>6

\* What an outermost call changes is typed.
LEMMA CallTyped ==
    ASSUME TypeOK, NEW s \in Session, Call(s)
    PROVE  /\ calls' \in [Session -> 0 .. MaxCalls]
           /\ <<s, calls[s] + 1>> \in Unit
           /\ st' \in [Unit -> Outcomes]
           /\ rehearse' \in [Session -> BOOLEAN]
           /\ level[s] < MaxLevel
<1>1. calls[s] + 1 \in 1 .. MaxCalls /\ calls[s] + 1 \in 0 .. MaxCalls  BY CurrentDB DEF Call
<1>2. <<s, calls[s] + 1>> \in Unit  BY <1>1 DEF Unit
<1>3. calls' \in [Session -> 0 .. MaxCalls]  BY <1>1 DEF Call, TypeOK
<1>4. "running" \in Outcomes  BY DEF Outcomes
<1>5. st' \in [Unit -> Outcomes]  BY <1>2, <1>4 DEF Call, TypeOK
<1>6. rehearse' \in [Session -> BOOLEAN]  BY DEF Call, TypeOK
<1>7. level[s] < MaxLevel  BY LimitAssumption DEF Call
<1>8. QED  BY <1>2, <1>3, <1>5, <1>6, <1>7

\* End keeps the server typed.
LEMMA EndTyped ==
    ASSUME TypeOK, NEW s \in Session, NEW e, NEW f \in BOOLEAN, End(s, e, f)
    PROVE  /\ visible' \in [Unit -> BOOLEAN]
           /\ txst' \in [Tx -> {"unused", "open", "committed", "rolledback"}]
           /\ txUnit' \in [Tx -> Unit \cup {None}]
           /\ pend' \in [Tx -> BOOLEAN]
<1> DEFINE t == DBOf(s).handle
           done == Commits(s, e) /\ ~f
<1>1. CASE t \in OpenTx
    <2>1. /\ txst' = [txst EXCEPT ![t] = IF done THEN "committed" ELSE "rolledback"]
          /\ visible' = [visible EXCEPT ![txUnit[t]] = @ \/ (done /\ pend[t])]
          /\ pend' = [pend EXCEPT ![t] = @ /\ ~done]
          /\ UNCHANGED txUnit
        BY <1>1 DEF End
    <2> HIDE DEF t, done
    <2>2. visible' \in [Unit -> BOOLEAN]
        <3>1. PICK v : visible' = [visible EXCEPT ![txUnit[t]] = visible[txUnit[t]] \/ v]  BY <2>1
        <3>2. \A u \in Unit : (visible[u] \/ v) \in BOOLEAN  BY Zenon
        <3>3. QED  BY <3>1, <3>2 DEF TypeOK
    <2>3. pend' \in [Tx -> BOOLEAN]
        <3>1. PICK v : pend' = [pend EXCEPT ![t] = pend[t] /\ v]  BY <2>1
        <3>2. \A x \in Tx : (pend[x] /\ v) \in BOOLEAN  BY Zenon
        <3>3. QED  BY <3>1, <3>2 DEF TypeOK
    <2>4. QED  BY <2>1, <2>2, <2>3 DEF TypeOK
<1>2. CASE t \notin OpenTx  BY <1>2 DEF End, server, TypeOK
<1>3. QED  BY <1>1, <1>2

LEMMA TypeInit == Init => TypeOK
<1> SUFFICES ASSUME Init PROVE TypeOK  OBVIOUS
<1>1. Root \in DB  BY DEF Root, DB, Handles
<1>2. QED  BY <1>1, LimitAssumption DEF Init, TypeOK, Outcomes, Handles

LEMMA TypeStep == TypeOK /\ [Next]_vars => TypeOK'
<1> SUFFICES ASSUME TypeOK, [Next]_vars PROVE TypeOK'  OBVIOUS
<1>1. ASSUME NEW s \in Session, Begin(s) PROVE TypeOK'
    <2>1. PICK t \in Tx : /\ txst' = [txst EXCEPT ![t] = "open"]
                          /\ txUnit' = [txUnit EXCEPT ![t] = <<s, calls[s] + 1>>]
                          /\ Enter(s, t, FALSE)
                          /\ dialect' = t
        BY <1>1 DEF Begin
    <2>2. Call(s) /\ UNCHANGED <<unwind, mixed, visible, pend>>  BY <1>1 DEF Begin
    <2>3. t \in Handles  BY DEF Handles
    <2>4. level' \in [Session -> 0 .. MaxLevel] /\ db' \in [Session -> [1 .. MaxLevel -> DB]]
        BY <2>1, <2>2, <2>3, CallTyped, EnterTyped
    <2>5. QED  BY <2>1, <2>2, <2>3, <2>4, CallTyped DEF TypeOK
<1>2. ASSUME NEW s \in Session, BeginFails(s) PROVE TypeOK'
    <2>1. Call(s) /\ Enter(s, NilTx, TRUE) /\ dialect' = NilTx /\ UNCHANGED <<unwind, mixed, server>>
        BY <1>2 DEF BeginFails
    <2>2. NilTx \in Handles  BY DEF Handles
    <2>3. level' \in [Session -> 0 .. MaxLevel] /\ db' \in [Session -> [1 .. MaxLevel -> DB]]
        BY <2>1, <2>2, CallTyped, EnterTyped
    <2>4. QED  BY <2>1, <2>2, <2>3, CallTyped DEF TypeOK, server
<1>3. ASSUME NEW s \in Session, BeginNested(s) PROVE TypeOK'
    <2>1. DBOf(s).handle \in Handles  BY CurrentDB DEF DB
    <2>2. level[s] < MaxLevel  BY <1>3, CurrentDB DEF BeginNested
    <2>3. level' \in [Session -> 0 .. MaxLevel] /\ db' \in [Session -> [1 .. MaxLevel -> DB]]
        BY <1>3, <2>1, <2>2, EnterTyped DEF BeginNested
    <2>4. QED  BY <1>3, <2>3 DEF BeginNested, TypeOK, server
<1>4. ASSUME NEW s \in Session, Exec(s) PROVE TypeOK'
    BY <1>4 DEF Exec, TypeOK, session
<1>5. ASSUME NEW s \in Session, Return(s) PROVE TypeOK'
    <2>1. PICK e \in Ends, f \in BOOLEAN :
             /\ IF unwind[s] = "no" THEN e \in Faults \cup {"nil"} ELSE e = unwind[s]
             /\ End(s, e, f)
             /\ unwind' = [unwind EXCEPT ![s] = Goes(s, e)]
             /\ st' = IF level[s] = 1 THEN [st EXCEPT ![Current(s)] = Result(s, e, f)] ELSE st
        BY <1>5 DEF Return, May
    <2>2. /\ level[s] > 0
          /\ level' = [level EXCEPT ![s] = @ - 1]
          /\ db' = [db EXCEPT ![s][level[s]] = Root]
          /\ UNCHANGED <<calls, rehearse, mixed, dialect>>
        BY <1>5 DEF Return
    <2>3. level[s] \in 1 .. MaxLevel /\ level[s] - 1 \in 0 .. MaxLevel  BY <2>2, CurrentDB
    <2>4. level' \in [Session -> 0 .. MaxLevel]  BY <2>2, <2>3 DEF TypeOK
    <2>5. db' \in [Session -> [1 .. MaxLevel -> DB]]
        <3>1. Root \in DB  BY DEF Root, DB, Handles
        <3>2. QED  BY <2>2, <2>3, <3>1 DEF TypeOK
    <2>6. Goes(s, e) \in {"no", "panic", "goexit"}  BY DEF Goes, Ends
    <2>7. unwind' \in [Session -> {"no", "panic", "goexit"}]  BY <2>1, <2>6 DEF TypeOK
    <2>8. Result(s, e, f) \in Outcomes  BY DEF Result, Outcomes, Ends
    <2>9. st' \in [Unit -> Outcomes]  BY <2>1, <2>8 DEF TypeOK
    <2>10. QED  BY <2>1, <2>2, <2>4, <2>5, <2>7, <2>9, EndTyped DEF TypeOK
<1>6. ASSUME NEW s \in Session, AddError(s) PROVE TypeOK'
    <2>1. db' = [db EXCEPT ![s][level[s]] = [handle |-> @.handle, err |-> TRUE]]  BY <1>6 DEF AddError
    <2>2. level[s] \in 1 .. MaxLevel  BY <1>6, CurrentDB DEF AddError
    <2>3. db[s] \in [1 .. MaxLevel -> DB] /\ db[s][level[s]] \in DB  BY <2>2 DEF TypeOK
    <2>4. [handle |-> db[s][level[s]].handle, err |-> TRUE] \in DB  BY <2>3 DEF DB
    <2>5. [db[s] EXCEPT ![level[s]] = [handle |-> db[s][level[s]].handle, err |-> TRUE]] \in [1 .. MaxLevel -> DB]
        BY <2>2, <2>3, <2>4
    <2>6. db' \in [Session -> [1 .. MaxLevel -> DB]]  BY <2>1, <2>5 DEF TypeOK
    <2>7. QED  BY <1>6, <2>6 DEF AddError, TypeOK, server
<1>7. ASSUME UNCHANGED vars PROVE TypeOK'
    BY <1>7 DEF vars, session, server, TypeOK
<1>8. QED  BY <1>1, <1>2, <1>3, <1>4, <1>5, <1>6, <1>7 DEF Next, Step

\* Every reachable state is well typed: in particular the levels of a session never
\* exceed their bound and only panics of an error and Goexit unwind.
THEOREM UserTypeCorrect == Spec => []TypeOK
BY TypeInit, TypeStep, PTL DEF Spec
-----------------------------------------------------------------------------
(* The invariant, one lemma per action *)

LEMMA InvInit == Init => IInv
<1> SUFFICES ASSUME Init PROVE IInv  OBVIOUS
<1>1. TypeOK  BY TypeInit
<1>2. \A u \in Unit : Fresh(u)  BY NoUnitAssumption DEF Init, Fresh
<1>3. \A s \in Session, k \in 1 .. MaxCalls : <<s, k>> \in Unit  BY DEF Unit
<1>4. TxInv
    <2>1. \A t \in Tx : txst[t] = "unused" /\ txUnit[t] = None /\ ~pend[t]  BY DEF Init
    <2>2. QED  BY <2>1 DEF TxInv
<1>5. LevelInv /\ OpenInv /\ RehearsalStaysHidden
    BY DEF Init, LevelInv, OpenInv, OpenTx, RehearsalStaysHidden
<1>6. UnitInv
    <2>1. \A s \in Session, k \in 1 .. MaxCalls :
             st[<<s, k>>] = "idle" /\ Fresh(<<s, k>>) /\ level[s] = 0
        BY <1>2, <1>3 DEF Init
    <2>2. "idle" \notin {"running", "ok", "rehearsed"} /\ ~(0 > 0)  OBVIOUS
    <2>3. QED  BY <2>1, <2>2, Zenon DEF UnitInv
<1>7. QED  BY <1>1, <1>4, <1>5, <1>6 DEF IInv

\* A call starts with a unit of its own, of which nothing has been seen.
LEMMA CallFresh ==
    ASSUME IInv, NEW s \in Session, Call(s)
    PROVE  LET u == <<s, calls[s] + 1>>
           IN  /\ u \in Unit /\ Fresh(u) /\ u # None
               /\ level[s] = 0
               /\ calls' = [calls EXCEPT ![s] = calls[s] + 1]
               /\ calls[s] + 1 \in 1 .. MaxCalls
               /\ \A p \in Session : p # s => Current(p)' = Current(p)
               /\ Current(s)' = u
               /\ st' = [st EXCEPT ![u] = "running"]
<1>1. TypeOK  BY DEF IInv
<1>2. calls[s] + 1 \in 1 .. MaxCalls /\ calls[s] \in Nat  BY <1>1, CurrentDB DEF Call
<1>3. Fresh(<<s, calls[s] + 1>>)  BY <1>2 DEF IInv, UnitInv
<1>4. <<s, calls[s] + 1>> \in Unit  BY <1>2 DEF Unit
<1>5. calls' = [calls EXCEPT ![s] = calls[s] + 1] /\ calls \in [Session -> 0 .. MaxCalls]
    BY <1>1 DEF Call, TypeOK
<1>6. QED  BY <1>2, <1>3, <1>4, <1>5, NoUnitAssumption DEF Call, Current

LEMMA InvBegin == ASSUME IInv, NEW s \in Session, Begin(s), TypeOK' PROVE IInv'
<1> DEFINE u == <<s, calls[s] + 1>>
<1>1. Call(s) /\ UNCHANGED <<unwind, visible, pend>>  BY DEF Begin
<1>2. PICK t \in Tx : /\ txst[t] = "unused"
                      /\ txst' = [txst EXCEPT ![t] = "open"]
                      /\ txUnit' = [txUnit EXCEPT ![t] = u]
                      /\ Enter(s, t, FALSE)
    BY DEF Begin
<1>3. /\ u \in Unit /\ Fresh(u) /\ u # None /\ level[s] = 0
      /\ calls' = [calls EXCEPT ![s] = calls[s] + 1]
      /\ calls[s] + 1 \in 1 .. MaxCalls
      /\ \A p \in Session : p # s => Current(p)' = Current(p)
      /\ Current(s)' = u
      /\ st' = [st EXCEPT ![u] = "running"]
    BY <1>1, CallFresh
<1>4. TypeOK /\ TxInv /\ LevelInv /\ OpenInv /\ UnitInv /\ RehearsalStaysHidden  BY DEF IInv
<1>5. /\ level' = [level EXCEPT ![s] = 1] /\ level'[s] = 1
      /\ db'[s][1].handle = t
      /\ \A p \in Session : p # s => level'[p] = level[p] /\ db'[p] = db[p] /\ calls'[p] = calls[p]
    <2>1. 1 \in 1 .. MaxLevel  BY LimitAssumption
    <2>2. QED  BY <1>2, <1>3, <1>4, <2>1 DEF Enter, TypeOK
<1> HIDE DEF u
<1>6. \A x \in Unit : x # u => (Fresh(x) => Fresh(x)')
    BY <1>1, <1>2, <1>4 DEF Fresh, TypeOK
<1>7. TxInv'
    <2>1. ~pend[t] /\ txUnit[t] = None  BY <1>2, <1>4 DEF TxInv
    <2>2. ~visible[u] /\ \A x \in Tx : txUnit[x] # u  BY <1>3 DEF Fresh
    <2>3. txst'[t] = "open" /\ txUnit'[t] = u /\ \A x \in Tx : x # t => txst'[x] = txst[x] /\ txUnit'[x] = txUnit[x]
        BY <1>2, <1>4 DEF TypeOK
    <2>4. visible' = visible /\ pend' = pend  BY <1>1
    <2>5. QED  BY <1>3, <1>4, <2>1, <2>2, <2>3, <2>4 DEF TxInv
<1>8. LevelInv'
    <2> SUFFICES ASSUME NEW p \in Session, level'[p] > 0
                 PROVE  /\ calls'[p] > 0
                        /\ \A l \in 1 .. level'[p] : db'[p][l].handle = db'[p][1].handle
                        /\ \/ db'[p][1].handle \in Tx /\ txUnit'[db'[p][1].handle] = Current(p)'
                           \/ db'[p][1].handle = NilTx /\ Fresh(Current(p))' /\ db'[p][1].err
        BY DEF LevelInv
    <2>1. CASE p = s
        <3>1. calls'[s] > 0  BY <1>3, <1>4 DEF TypeOK
        <3>2. txUnit'[t] = u  BY <1>2, <1>4 DEF TypeOK
        <3>3. QED  BY <1>3, <1>5, <2>1, <3>1, <3>2
    <2>2. CASE p # s
        <3>1. level[p] > 0 /\ calls[p] \in 0 .. MaxCalls  BY <1>4, <1>5, <2>2 DEF TypeOK
        <3>2. Current(p) # u /\ Current(p) \in Unit
            BY <2>2, <3>1, <1>4 DEF Current, u, Unit, LevelInv
        <3>3. txUnit[t] # Current(p)
            <4>1. txUnit[t] = None  BY <1>2, <1>4 DEF TxInv
            <4>2. QED  BY <3>2, <4>1, NoUnitAssumption
        <3>4. Current(p)' = Current(p)  BY <1>3, <2>2
        <3>5. Fresh(Current(p)) => Fresh(Current(p))'  BY <1>6, <3>2, <3>4 DEF Fresh
        <3>6. db[p][1].handle \in Tx /\ txUnit[db[p][1].handle] = Current(p)
                 => txUnit'[db[p][1].handle] = Current(p)
            BY <1>2, <1>4, <3>3 DEF TypeOK
        <3>7. QED  BY <1>4, <1>5, <2>2, <3>1, <3>4, <3>5, <3>6 DEF LevelInv
    <2>3. QED  BY <2>1, <2>2
<1>9. OpenInv'
    <2> SUFFICES ASSUME NEW x \in Tx, txst'[x] = "open"
                 PROVE  \E p \in Session : level'[p] > 0 /\ txUnit'[x] = Current(p)' /\ db'[p][1].handle = x
        BY DEF OpenInv, OpenTx
    <2>1. CASE x = t  BY <1>2, <1>3, <1>4, <1>5, <2>1 DEF TypeOK
    <2>2. CASE x # t
        <3>1. txst[x] = "open" /\ txUnit'[x] = txUnit[x]  BY <1>2, <1>4, <2>2 DEF TypeOK
        <3>2. PICK p \in Session : level[p] > 0 /\ txUnit[x] = Current(p) /\ db[p][1].handle = x
            BY <1>4, <3>1 DEF OpenInv, OpenTx
        <3>3. p # s  BY <1>3, <3>2
        <3>4. QED  BY <1>3, <1>5, <3>1, <3>2, <3>3
    <2>3. QED  BY <2>1, <2>2
<1>10. UnitInv'
    <2> SUFFICES ASSUME NEW p \in Session, NEW k \in 1 .. MaxCalls
                 PROVE  /\ k > calls'[p] => Fresh(<<p, k>>)' /\ st'[<<p, k>>] = "idle"
                        /\ st'[<<p, k>>] = "running" => level'[p] > 0 /\ k = calls'[p]
                        /\ level'[p] > 0 /\ k = calls'[p] => st'[<<p, k>>] = "running"
                        /\ st'[<<p, k>>] = "ok" =>
                              \A x \in Tx : txUnit'[x] = <<p, k>> => txst'[x] = "committed"
                        /\ st'[<<p, k>>] = "rehearsed" => ~visible'[<<p, k>>]
        BY DEF UnitInv
    <2>1. <<p, k>> \in Unit /\ calls[p] \in Nat  BY <1>4 DEF Unit, TypeOK
    <2>2. CASE <<p, k>> = u
        <3>1. p = s /\ k = calls[s] + 1  BY <2>2 DEF u
        <3>2. st'[<<p, k>>] = "running" /\ calls'[p] = k
            <4>1. st'[u] = "running"  BY <1>3, <1>4 DEF TypeOK
            <4>2. calls'[s] = calls[s] + 1  BY <1>3, <1>4 DEF TypeOK
            <4>3. QED  BY <2>2, <3>1, <4>1, <4>2
        <3>3. QED  BY <1>5, <2>1, <3>1, <3>2
    <2>3. CASE <<p, k>> # u
        <3>1. st'[<<p, k>>] = st[<<p, k>>]  BY <1>3, <1>4, <2>1, <2>3 DEF TypeOK
        <3>2. Fresh(<<p, k>>) => Fresh(<<p, k>>)'  BY <1>6, <2>1, <2>3 DEF Fresh
        <3>3. \A x \in Tx : txUnit'[x] = <<p, k>> => txUnit[x] = <<p, k>> /\ txst'[x] = txst[x]
            BY <1>2, <1>4, <2>3 DEF TypeOK
        <3>4. p = s => k # calls'[s] /\ (k > calls'[s] => k > calls[s]) /\ calls'[s] = calls[s] + 1
            BY <1>3, <1>4, <2>3 DEF TypeOK, u
        <3>5. p = s => st[<<p, k>>] # "running"  BY <1>3, <1>4 DEF UnitInv
        <3>6. visible' = visible  BY <1>1
        <3>7. QED  BY <1>4, <1>5, <2>1, <3>1, <3>2, <3>3, <3>4, <3>5, <3>6 DEF UnitInv
    <2>4. QED  BY <2>2, <2>3
<1>11. RehearsalStaysHidden'
    <2> SUFFICES ASSUME NEW p \in Session, calls'[p] > 0, rehearse'[p]
                 PROVE  ~visible'[Current(p)']
        BY DEF RehearsalStaysHidden
    <2>1. visible' = visible  BY <1>1
    <2>2. CASE p = s  BY <1>3, <2>1, <2>2 DEF Fresh
    <2>3. CASE p # s
        <3>1. rehearse'[p] = rehearse[p]  BY <1>1, <1>4, <2>3 DEF Call, TypeOK
        <3>2. QED  BY <1>3, <1>4, <1>5, <2>1, <2>3, <3>1 DEF RehearsalStaysHidden
    <2>4. QED  BY <2>2, <2>3
<1>12. QED  BY <1>7, <1>8, <1>9, <1>10, <1>11 DEF IInv

LEMMA InvBeginFails == ASSUME IInv, NEW s \in Session, BeginFails(s), TypeOK' PROVE IInv'
<1> DEFINE u == <<s, calls[s] + 1>>
<1>1. Call(s) /\ Enter(s, NilTx, TRUE) /\ UNCHANGED <<unwind, visible, txst, txUnit, pend>>
    BY DEF BeginFails, server
<1>2. /\ u \in Unit /\ Fresh(u) /\ u # None /\ level[s] = 0
      /\ calls' = [calls EXCEPT ![s] = calls[s] + 1]
      /\ calls[s] + 1 \in 1 .. MaxCalls
      /\ \A p \in Session : p # s => Current(p)' = Current(p)
      /\ Current(s)' = u
      /\ st' = [st EXCEPT ![u] = "running"]
    BY <1>1, CallFresh
<1>3. TypeOK /\ TxInv /\ LevelInv /\ OpenInv /\ UnitInv /\ RehearsalStaysHidden  BY DEF IInv
<1>4. /\ level'[s] = 1 /\ calls'[s] = calls[s] + 1 /\ calls[s] \in Nat
      /\ db'[s][1].handle = NilTx /\ db'[s][1].err = TRUE
      /\ \A p \in Session : p # s => level'[p] = level[p] /\ db'[p] = db[p] /\ calls'[p] = calls[p]
    <2>1. 1 \in 1 .. MaxLevel  BY LimitAssumption
    <2>2. QED  BY <1>1, <1>2, <1>3, <2>1 DEF Enter, TypeOK
<1> HIDE DEF u
<1>5. \A x \in Unit : Fresh(x)' <=> Fresh(x)  BY <1>1 DEF Fresh
<1>6. TxInv'  BY <1>1, <1>3 DEF TxInv
<1>7. LevelInv'
    <2> SUFFICES ASSUME NEW p \in Session, level'[p] > 0
                 PROVE  /\ calls'[p] > 0
                        /\ \A l \in 1 .. level'[p] : db'[p][l].handle = db'[p][1].handle
                        /\ \/ db'[p][1].handle \in Tx /\ txUnit'[db'[p][1].handle] = Current(p)'
                           \/ db'[p][1].handle = NilTx /\ Fresh(Current(p))' /\ db'[p][1].err
        BY DEF LevelInv
    <2>1. CASE p = s
        <3>1. Fresh(Current(s))'  BY <1>1, <1>2 DEF Fresh
        <3>2. \A l \in 1 .. level'[s] : l = 1  BY <1>4
        <3>3. QED  BY <1>4, <2>1, <3>1, <3>2
    <2>2. CASE p # s
        <3>1. Fresh(Current(p)) => Fresh(Current(p))'  BY <1>1, <1>2, <2>2 DEF Fresh
        <3>2. QED  BY <1>1, <1>2, <1>3, <1>4, <2>2, <3>1 DEF LevelInv
    <2>3. QED  BY <2>1, <2>2
<1>8. OpenInv'
    <2> SUFFICES ASSUME NEW x \in Tx, txst[x] = "open"
                 PROVE  \E p \in Session : level'[p] > 0 /\ txUnit'[x] = Current(p)' /\ db'[p][1].handle = x
        BY <1>1 DEF OpenInv, OpenTx
    <2>1. PICK p \in Session : level[p] > 0 /\ txUnit[x] = Current(p) /\ db[p][1].handle = x
        BY <1>3 DEF OpenInv, OpenTx
    <2>2. p # s  BY <1>2, <2>1
    <2>3. QED  BY <1>1, <1>2, <1>4, <2>1, <2>2
<1>9. UnitInv'
    <2> SUFFICES ASSUME NEW p \in Session, NEW k \in 1 .. MaxCalls
                 PROVE  /\ k > calls'[p] => Fresh(<<p, k>>)' /\ st'[<<p, k>>] = "idle"
                        /\ st'[<<p, k>>] = "running" => level'[p] > 0 /\ k = calls'[p]
                        /\ level'[p] > 0 /\ k = calls'[p] => st'[<<p, k>>] = "running"
                        /\ st'[<<p, k>>] = "ok" =>
                              \A x \in Tx : txUnit'[x] = <<p, k>> => txst'[x] = "committed"
                        /\ st'[<<p, k>>] = "rehearsed" => ~visible'[<<p, k>>]
        BY DEF UnitInv
    <2>1. <<p, k>> \in Unit /\ calls[p] \in Nat  BY <1>3 DEF Unit, TypeOK
    <2>2. CASE <<p, k>> = u
        <3>1. p = s /\ k = calls'[s]  BY <1>4, <2>2 DEF u
        <3>6. st'[u] = "running"  BY <1>2, <1>3 DEF TypeOK
        <3>2. st'[<<p, k>>] = "running"  BY <2>2, <3>6
        <3>4. calls'[s] \in Nat /\ ~(calls'[s] > calls'[s])  BY <1>4, <2>1, <3>1
        <3>5. level'[s] > 0  BY <1>4
        <3>3. QED  BY <3>1, <3>2, <3>4, <3>5
    <2>3. CASE <<p, k>> # u
        <3>1. st'[<<p, k>>] = st[<<p, k>>]  BY <1>2, <1>3, <2>1, <2>3 DEF TypeOK
        <3>2. Fresh(<<p, k>>)' <=> Fresh(<<p, k>>)  BY <1>1 DEF Fresh
        <3>3. p = s => k # calls'[s] /\ (k > calls'[s] => k > calls[s])
            BY <1>4, <2>3 DEF u
        <3>4. p = s => st[<<p, k>>] # "running"  BY <1>2, <1>3 DEF UnitInv
        <3>5. QED  BY <1>1, <1>3, <1>4, <2>1, <3>1, <3>2, <3>3, <3>4 DEF UnitInv
    <2>4. QED  BY <2>2, <2>3
<1>10. RehearsalStaysHidden'
    <2> SUFFICES ASSUME NEW p \in Session, calls'[p] > 0, rehearse'[p]
                 PROVE  ~visible'[Current(p)']
        BY DEF RehearsalStaysHidden
    <2>1. CASE p = s  BY <1>1, <1>2, <2>1 DEF Fresh
    <2>2. CASE p # s
        <3>1. rehearse'[p] = rehearse[p]  BY <1>1, <1>3, <2>2 DEF Call, TypeOK
        <3>2. QED  BY <1>1, <1>2, <1>3, <1>4, <2>2, <3>1 DEF RehearsalStaysHidden
    <2>3. QED  BY <2>1, <2>2
<1>11. QED  BY <1>6, <1>7, <1>8, <1>9, <1>10 DEF IInv

LEMMA InvBeginNested == ASSUME IInv, NEW s \in Session, BeginNested(s), TypeOK' PROVE IInv'
<1>1. /\ level[s] \in 1 .. MaxLevel - 1
      /\ Enter(s, DBOf(s).handle, TRUE)
      /\ UNCHANGED <<calls, rehearse, unwind, dialect, st, visible, txst, txUnit, pend>>
    BY DEF BeginNested, server
<1>2. TypeOK /\ TxInv /\ LevelInv /\ OpenInv /\ UnitInv /\ RehearsalStaysHidden  BY DEF IInv
<1>3. DBOf(s).handle = db[s][1].handle
    <2>1. level[s] > 0  BY <1>1
    <2>2. DBOf(s) = db[s][level[s]] /\ level[s] \in 1 .. level[s]  BY <1>2, <2>1, CurrentDB
    <2>3. QED  BY <1>2, <2>1, <2>2 DEF LevelInv
<1>4. /\ level'[s] = level[s] + 1
      /\ db'[s][level[s] + 1].handle = db[s][1].handle
      /\ \A l \in 1 .. level[s] : db'[s][l] = db[s][l]
      /\ \A p \in Session : p # s => level'[p] = level[p] /\ db'[p] = db[p]
    <2>1. level[s] + 1 \in 1 .. MaxLevel /\ \A l \in 1 .. level[s] : l \in 1 .. MaxLevel /\ l # level[s] + 1
        BY <1>1, LimitAssumption
    <2>2. level' = [level EXCEPT ![s] = level[s] + 1]  BY <1>1 DEF Enter
    <2>3. db' = [db EXCEPT ![s] = [db[s] EXCEPT ![level[s] + 1] = [handle |-> db[s][1].handle, err |-> TRUE]]]
        BY <1>1, <1>3 DEF Enter
    <2>4. QED  BY <1>2, <2>1, <2>2, <2>3 DEF TypeOK
<1>5. \A p \in Session : /\ Current(p)' = Current(p)
                         /\ level'[p] > 0 <=> level[p] > 0
                         /\ level[p] > 0 => db'[p][1] = db[p][1]
    <2>1. \A p \in Session : Current(p)' = Current(p)  BY <1>1 DEF Current
    <2>2. 1 \in 1 .. level[s] /\ level[s] > 0 /\ level'[s] > 0  BY <1>1, <1>4
    <2>3. QED  BY <1>4, <2>1, <2>2
<1>6. TxInv'  BY <1>1, <1>2 DEF TxInv
<1>7. LevelInv'
    <2> SUFFICES ASSUME NEW p \in Session, level'[p] > 0
                 PROVE  /\ calls'[p] > 0
                        /\ \A l \in 1 .. level'[p] : db'[p][l].handle = db'[p][1].handle
                        /\ \/ db'[p][1].handle \in Tx /\ txUnit'[db'[p][1].handle] = Current(p)'
                           \/ db'[p][1].handle = NilTx /\ Fresh(Current(p))' /\ db'[p][1].err
        BY DEF LevelInv
    <2>1. level[p] > 0 /\ db'[p][1] = db[p][1] /\ Current(p)' = Current(p)  BY <1>5
    <2>2. Fresh(Current(p)) => Fresh(Current(p))'  BY <1>1, <2>1 DEF Fresh
    <2>3. \A l \in 1 .. level'[p] : db'[p][l].handle = db'[p][1].handle
        <3>1. CASE p = s
            <4>1. \A l \in 1 .. level'[s] : l \in 1 .. level[s] \/ l = level[s] + 1  BY <1>1, <1>4
            <4>2. \A l \in 1 .. level[s] : db[s][l].handle = db[s][1].handle  BY <1>2, <2>1, <3>1 DEF LevelInv
            <4>3. QED  BY <1>4, <2>1, <3>1, <4>1, <4>2
        <3>2. CASE p # s  BY <1>2, <1>4, <2>1, <3>2 DEF LevelInv
        <3>3. QED  BY <3>1, <3>2
    <2>4. QED  BY <1>1, <1>2, <2>1, <2>2, <2>3 DEF LevelInv
<1>8. OpenInv'  BY <1>1, <1>2, <1>5 DEF OpenInv, OpenTx
<1>9. UnitInv'
    <2>1. \A p \in Session, k \in 1 .. MaxCalls : Fresh(<<p, k>>)' <=> Fresh(<<p, k>>)  BY <1>1 DEF Fresh
    <2>2. UNCHANGED <<calls, st, visible, txst, txUnit>>  BY <1>1
    <2>3. \A p \in Session : level'[p] > 0 <=> level[p] > 0  BY <1>5
    <2>4. QED  BY <1>2, <2>1, <2>2, <2>3 DEF UnitInv
<1>10. RehearsalStaysHidden'  BY <1>1, <1>2, <1>5 DEF RehearsalStaysHidden
<1>11. QED  BY <1>6, <1>7, <1>8, <1>9, <1>10 DEF IInv

LEMMA InvExec == ASSUME IInv, NEW s \in Session, Exec(s), TypeOK' PROVE IInv'
<1> DEFINE t == DBOf(s).handle
<1>1. /\ t \in Tx /\ txst[t] = "open"
      /\ pend' = [pend EXCEPT ![t] = TRUE]
      /\ UNCHANGED <<calls, level, db, rehearse, unwind, dialect, st, visible, txst, txUnit>>
    BY DEF Exec, session, OpenTx
<1> HIDE DEF t
<1>2. TypeOK /\ TxInv /\ LevelInv /\ OpenInv /\ UnitInv /\ RehearsalStaysHidden  BY DEF IInv
<1>3. TxInv'
    <2>1. \A x \in Tx : pend'[x] => pend[x] \/ x = t  BY <1>1, <1>2 DEF TypeOK
    <2>2. QED  BY <1>1, <1>2, <2>1 DEF TxInv
<1>4. \A p \in Session : Current(p)' = Current(p)  BY <1>1 DEF Current
<1>5. LevelInv'
    <2>1. \A p \in Session : Fresh(Current(p))' <=> Fresh(Current(p))  BY <1>1, <1>4 DEF Fresh
    <2>2. QED  BY <1>1, <1>2, <1>4, <2>1 DEF LevelInv
<1>6. OpenInv'  BY <1>1, <1>2, <1>4 DEF OpenInv, OpenTx
<1>7. UnitInv'
    <2>1. \A p \in Session, k \in 1 .. MaxCalls : Fresh(<<p, k>>)' <=> Fresh(<<p, k>>)  BY <1>1 DEF Fresh
    <2>2. QED  BY <1>1, <1>2, <2>1 DEF UnitInv
<1>8. RehearsalStaysHidden'  BY <1>1, <1>2, <1>4 DEF RehearsalStaysHidden
<1>9. QED  BY <1>3, <1>5, <1>6, <1>7, <1>8 DEF IInv

LEMMA InvAddError == ASSUME IInv, NEW s \in Session, AddError(s), TypeOK' PROVE IInv'
<1>1. /\ level[s] > 0
      /\ db' = [db EXCEPT ![s][level[s]] = [handle |-> @.handle, err |-> TRUE]]
      /\ UNCHANGED <<calls, level, rehearse, unwind, dialect, st, visible, txst, txUnit, pend>>
    BY DEF AddError, server
<1>2. TypeOK /\ TxInv /\ LevelInv /\ OpenInv /\ UnitInv /\ RehearsalStaysHidden  BY DEF IInv
<1>3. \A p \in Session, l \in 1 .. MaxLevel :
         db'[p][l].handle = db[p][l].handle /\ (db[p][l].err => db'[p][l].err)
    <2>1. db \in [Session -> [1 .. MaxLevel -> DB]] /\ level[s] \in 1 .. MaxLevel
        BY <1>1, <1>2, CurrentDB DEF TypeOK
    <2>2. db' = [db EXCEPT ![s] = [db[s] EXCEPT ![level[s]] = [handle |-> db[s][level[s]].handle, err |-> TRUE]]]
        BY <1>1, <2>1
    <2>3. QED  BY <2>1, <2>2
<1>4. \A p \in Session : Current(p)' = Current(p)  BY <1>1 DEF Current
<1>5. 1 \in 1 .. MaxLevel  BY LimitAssumption
<1>6. LevelInv'
    <2>1. \A p \in Session : Fresh(Current(p))' <=> Fresh(Current(p))  BY <1>1, <1>4 DEF Fresh
    <2>2. \A p \in Session : \A l \in 1 .. level[p] : l \in 1 .. MaxLevel  BY <1>2, LimitAssumption DEF TypeOK
    <2>3. QED  BY <1>1, <1>2, <1>3, <1>4, <1>5, <2>1, <2>2 DEF LevelInv
<1>7. TxInv' /\ OpenInv'  BY <1>1, <1>2, <1>3, <1>4, <1>5 DEF TxInv, OpenInv, OpenTx
<1>8. UnitInv'
    <2>1. \A p \in Session, k \in 1 .. MaxCalls : Fresh(<<p, k>>)' <=> Fresh(<<p, k>>)  BY <1>1 DEF Fresh
    <2>2. QED  BY <1>1, <1>2, <2>1 DEF UnitInv
<1>9. RehearsalStaysHidden'  BY <1>1, <1>2, <1>4 DEF RehearsalStaysHidden
<1>10. QED  BY <1>6, <1>7, <1>8, <1>9 DEF IInv

\* Where a session is inside of Transaction, its handle is the one of its first level;
\* when that is open it is the transaction of the session's unit.
LEMMA HandleOfUnit ==
    ASSUME IInv, NEW s \in Session, level[s] > 0
    PROVE  /\ DBOf(s).handle = db[s][1].handle
           /\ Current(s) \in Unit
           /\ DBOf(s).handle \in OpenTx => txUnit[DBOf(s).handle] = Current(s)
<1>1. TypeOK /\ LevelInv  BY DEF IInv
<1>2. DBOf(s) = db[s][level[s]] /\ level[s] \in 1 .. level[s]  BY <1>1, CurrentDB
<1>3. DBOf(s).handle = db[s][1].handle  BY <1>1, <1>2 DEF LevelInv
<1>4. calls[s] \in 1 .. MaxCalls
    <2>1. calls[s] > 0  BY <1>1 DEF LevelInv
    <2>2. QED  BY <1>1, <2>1, CurrentDB
<1>5. Current(s) \in Unit  BY <1>4 DEF Current, Unit
<1>6. OpenTx \subseteq Tx /\ NilTx \notin Tx  BY HandleAssumption DEF OpenTx
<1>7. QED  BY <1>1, <1>3, <1>5, <1>6 DEF LevelInv

\* What Commit or Rollback changes: the open transaction of the unit ends, and its
\* statements become visible only when it is committed.
LEMMA EndEffect ==
    ASSUME IInv, NEW s \in Session, level[s] > 0, NEW e, NEW f \in BOOLEAN, End(s, e, f)
    PROVE  LET t    == DBOf(s).handle
               done == Commits(s, e) /\ ~f
           IN  /\ txUnit' = txUnit
               /\ \A x \in Tx : x # t => txst'[x] = txst[x] /\ pend'[x] = pend[x]
               /\ \A v \in Unit : v # Current(s) => visible'[v] = visible[v]
               /\ t \notin OpenTx => txst' = txst /\ visible' = visible /\ pend' = pend
               /\ t \in OpenTx /\ done => txst'[t] = "committed" /\ ~pend'[t]
               /\ t \in OpenTx /\ ~done =>
                     txst'[t] = "rolledback" /\ visible'[Current(s)] = visible[Current(s)]
<1> DEFINE t == DBOf(s).handle
           done == Commits(s, e) /\ ~f
<1>1. TypeOK  BY DEF IInv
<1>2. Current(s) \in Unit /\ (t \in OpenTx => txUnit[t] = Current(s))  BY HandleOfUnit
<1>3. CASE t \in OpenTx
    <2>1. /\ txst' = [txst EXCEPT ![t] = IF done THEN "committed" ELSE "rolledback"]
          /\ visible' = [visible EXCEPT ![txUnit[t]] = @ \/ (done /\ pend[t])]
          /\ pend' = [pend EXCEPT ![t] = @ /\ ~done]
          /\ txUnit' = txUnit
        BY <1>3 DEF End
    <2>2. t \in Tx /\ txUnit[t] = Current(s)  BY <1>2, <1>3 DEF OpenTx
    <2> HIDE DEF t, done
    <2>3. \A x \in Tx : x # t => txst'[x] = txst[x]  BY <1>1, <2>1 DEF TypeOK
    <2>4. \A x \in Tx : x # t => pend'[x] = pend[x]
        <3>1. PICK v : pend' = [pend EXCEPT ![t] = v]  BY <2>1
        <3>2. QED  BY <1>1, <3>1 DEF TypeOK
    <2>5. \A v \in Unit : v # Current(s) => visible'[v] = visible[v]
        <3>1. PICK w : visible' = [visible EXCEPT ![Current(s)] = w]  BY <2>1, <2>2
        <3>2. QED  BY <1>1, <3>1 DEF TypeOK
    <2>6. ASSUME done PROVE txst'[t] = "committed" /\ ~pend'[t]
        <3>1. txst' = [txst EXCEPT ![t] = "committed"]  BY <2>1, <2>6
        <3>2. pend' = [pend EXCEPT ![t] = FALSE]
            <4>1. (pend[t] /\ ~done) = FALSE  BY <2>6, Zenon
            <4>2. QED  BY <2>1, <4>1
        <3>3. QED  BY <1>1, <2>2, <3>1, <3>2 DEF TypeOK
    <2>7. ASSUME ~done PROVE txst'[t] = "rolledback" /\ visible'[Current(s)] = visible[Current(s)]
        <3>1. txst' = [txst EXCEPT ![t] = "rolledback"]  BY <2>1, <2>7
        <3>2. visible[Current(s)] \in BOOLEAN  BY <1>1, <1>2 DEF TypeOK
        <3>3. (visible[Current(s)] \/ (done /\ pend[t])) = visible[Current(s)]  BY <2>7, <3>2, Zenon
        <3>4. visible' = [visible EXCEPT ![Current(s)] = visible[Current(s)] \/ (done /\ pend[t])]
            BY <2>1, <2>2
        <3>5. visible' = [visible EXCEPT ![Current(s)] = visible[Current(s)]]  BY <3>3, <3>4
        <3>6. QED  BY <1>1, <1>2, <2>2, <3>1, <3>5 DEF TypeOK
    <2>8. QED  BY <1>3, <2>1, <2>3, <2>4, <2>5, <2>6, <2>7 DEF t, done
<1>4. CASE t \notin OpenTx  BY <1>4 DEF End, server
<1>5. QED  BY <1>3, <1>4

LEMMA InvReturn == ASSUME IInv, NEW s \in Session, Return(s), TypeOK' PROVE IInv'
<1> DEFINE t == DBOf(s).handle
           c == Current(s)
<1>1. PICK e \in Ends, f \in BOOLEAN :
         /\ End(s, e, f)
         /\ st' = IF level[s] = 1 THEN [st EXCEPT ![c] = Result(s, e, f)] ELSE st
    BY DEF Return, May
<1>2. /\ level[s] > 0
      /\ level' = [level EXCEPT ![s] = @ - 1]
      /\ db' = [db EXCEPT ![s][level[s]] = Root]
      /\ UNCHANGED <<calls, rehearse, dialect>>
    BY DEF Return
<1> DEFINE done == Commits(s, e) /\ ~f
<1>3. TypeOK /\ TxInv /\ LevelInv /\ OpenInv /\ UnitInv /\ RehearsalStaysHidden  BY DEF IInv
<1>4. /\ txUnit' = txUnit
      /\ \A x \in Tx : x # t => txst'[x] = txst[x] /\ pend'[x] = pend[x]
      /\ \A v \in Unit : v # c => visible'[v] = visible[v]
      /\ t \notin OpenTx => txst' = txst /\ visible' = visible /\ pend' = pend
      /\ t \in OpenTx /\ done => txst'[t] = "committed" /\ ~pend'[t]
      /\ t \in OpenTx /\ ~done => txst'[t] = "rolledback" /\ visible'[c] = visible[c]
    BY <1>1, <1>2, EndEffect
<1>5. t = db[s][1].handle /\ c \in Unit /\ (t \in OpenTx => txUnit[t] = c)  BY <1>2, HandleOfUnit
<1>6. \A p \in Session : Current(p)' = Current(p)  BY <1>2 DEF Current
<1>7. /\ level'[s] = level[s] - 1 /\ level[s] \in Nat
      /\ \A l \in 1 .. level'[s] : l \in 1 .. level[s] /\ db'[s][l] = db[s][l]
      /\ \A p \in Session : p # s => level'[p] = level[p] /\ db'[p] = db[p]
    <2>1. level[s] \in 1 .. MaxLevel /\ level[s] \in Nat /\ MaxLevel \in Nat  BY <1>2, <1>3, CurrentDB
    <2>2. level'[s] = level[s] - 1  BY <1>2, <1>3 DEF TypeOK
    <2>3. \A l \in 1 .. level[s] - 1 : l \in 1 .. level[s] /\ l \in 1 .. MaxLevel /\ l # level[s]
        BY <2>1
    <2>4. QED  BY <1>2, <1>3, <2>1, <2>2, <2>3 DEF TypeOK
<1>8. rehearse[s] => ~done  BY DEF Commits
<1>9. \A p \in Session : level[p] > 0 => Current(p) \in Unit  BY <1>3, HandleOfUnit
<1>10. \A p \in Session : p # s => Current(p) # c  BY DEF Current
<1> HIDE DEF t, c, done
<1>11. TxInv'
    <2>1. CASE t \in OpenTx
        <3>1. t \in Tx /\ txst[t] = "open" /\ txUnit[t] = c  BY <1>5, <2>1 DEF OpenTx
        <3>2. \A x \in Tx : x # t => txUnit[x] # c
            BY <1>3, <1>5, <3>1, NoUnitAssumption DEF TxInv
        <3>3. \A x \in Tx : x # t /\ txst[x] \in {"open", "rolledback"} => txUnit[x] \in Unit
            BY <1>3 DEF TxInv, TypeOK
        <3>4. ~visible[c]  BY <1>3, <3>1 DEF TxInv
        <3>5. txst'[t] \in {"committed", "rolledback"}  BY <1>4, <2>1
        <3>6. pend'[t] => txst'[t] = "rolledback"  BY <1>4, <2>1
        <3>7. txst'[t] = "rolledback" => ~visible'[c]  BY <1>4, <2>1, <3>4
        <3>8. \A x \in Tx : (txst'[x] = "unused") <=> (txUnit'[x] = None)
            BY <1>3, <1>4, <3>1, <3>5 DEF TxInv
        <3>9. \A x \in Tx : pend'[x] => txst'[x] \in {"open", "rolledback"}
            BY <1>3, <1>4, <3>6 DEF TxInv
        <3>10. \A x \in Tx : txst'[x] \in {"open", "rolledback"} => ~visible'[txUnit'[x]]
            BY <1>3, <1>4, <3>1, <3>2, <3>3, <3>5, <3>7 DEF TxInv
        <3>11. QED  BY <1>3, <1>4, <3>8, <3>9, <3>10 DEF TxInv
    <2>2. CASE t \notin OpenTx  BY <1>3, <1>4, <2>2 DEF TxInv
    <2>3. QED  BY <2>1, <2>2
<1>12. \A v \in Unit : Fresh(v) => Fresh(v)'
    <2> SUFFICES ASSUME NEW v \in Unit, Fresh(v) PROVE Fresh(v)'  OBVIOUS
    <2>1. \A x \in Tx : txUnit'[x] # v  BY <1>4 DEF Fresh
    <2>2. visible'[v] = visible[v]
        <3>1. CASE t \in OpenTx
            <4>1. v # c  BY <1>5, <3>1 DEF Fresh, OpenTx
            <4>2. QED  BY <1>4, <4>1
        <3>2. CASE t \notin OpenTx  BY <1>4, <3>2
        <3>3. QED  BY <3>1, <3>2
    <2>3. QED  BY <2>1, <2>2 DEF Fresh
<1>13. LevelInv'
    <2> SUFFICES ASSUME NEW p \in Session, level'[p] > 0
                 PROVE  /\ calls'[p] > 0
                        /\ \A l \in 1 .. level'[p] : db'[p][l].handle = db'[p][1].handle
                        /\ \/ db'[p][1].handle \in Tx /\ txUnit'[db'[p][1].handle] = Current(p)'
                           \/ db'[p][1].handle = NilTx /\ Fresh(Current(p))' /\ db'[p][1].err
        BY DEF LevelInv
    <2>1. level[p] > 0 /\ level'[p] \in Nat
        <3>1. level[p] \in Nat /\ level'[p] \in Nat  BY <1>3, <1>7, CurrentDB
        <3>2. QED  BY <1>7, <3>1
    <2>2. \A l \in 1 .. level'[p] : l \in 1 .. level[p] /\ db'[p][l] = db[p][l]
        BY <1>7, <2>1
    <2>3. 1 \in 1 .. level'[p]  BY <2>1
    <2>4. Fresh(Current(p)) => Fresh(Current(p))'
        <3>1. Current(p) \in Unit /\ Current(p)' = Current(p)  BY <1>6, <1>9, <2>1
        <3>2. QED  BY <1>12, <3>1 DEF Fresh
    <2>5. QED  BY <1>2, <1>3, <1>4, <1>6, <2>1, <2>2, <2>3, <2>4 DEF LevelInv
<1>14. OpenInv'
    <2> SUFFICES ASSUME NEW x \in Tx, txst'[x] = "open"
                 PROVE  \E p \in Session : level'[p] > 0 /\ txUnit'[x] = Current(p)' /\ db'[p][1].handle = x
        BY DEF OpenInv, OpenTx
    <2>1. x # t /\ txst[x] = "open"  BY <1>4 DEF OpenTx
    <2>2. PICK p \in Session : level[p] > 0 /\ txUnit[x] = Current(p) /\ db[p][1].handle = x
        BY <1>3, <2>1 DEF OpenInv, OpenTx
    <2>3. p # s  BY <1>5, <2>1, <2>2
    <2>4. QED  BY <1>4, <1>6, <1>7, <2>2, <2>3
<1>15. UnitInv'
    <2> SUFFICES ASSUME NEW p \in Session, NEW k \in 1 .. MaxCalls
                 PROVE  /\ k > calls'[p] => Fresh(<<p, k>>)' /\ st'[<<p, k>>] = "idle"
                        /\ st'[<<p, k>>] = "running" => level'[p] > 0 /\ k = calls'[p]
                        /\ level'[p] > 0 /\ k = calls'[p] => st'[<<p, k>>] = "running"
                        /\ st'[<<p, k>>] = "ok" =>
                              \A x \in Tx : txUnit'[x] = <<p, k>> => txst'[x] = "committed"
                        /\ st'[<<p, k>>] = "rehearsed" => ~visible'[<<p, k>>]
        BY DEF UnitInv
    <2>1. <<p, k>> \in Unit  BY DEF Unit
    <2>2. calls[p] \in Nat /\ calls'[p] = calls[p]  BY <1>2, <1>3, CurrentDB
    <2>3. CASE <<p, k>> = c
        <3>1. p = s /\ k = calls[s]  BY <2>3 DEF c, Current
        <3>2. st[c] = "running"  BY <1>2, <1>3, <2>3, <3>1 DEF UnitInv
        <3>3. CASE level[s] = 1
            <4>1. st'[c] = Result(s, e, f)  BY <1>1, <1>3, <1>5, <3>3 DEF TypeOK
            <4>2. level'[s] = 0  BY <1>7, <3>3
            <4>3. Result(s, e, f) \in {"failed", "exited", "ok", "rehearsed"}  BY DEF Result, Ends
            <4>4. Result(s, e, f) = "ok" => t \in OpenTx /\ done
                BY DEF Result, Ends, Commits, t, done
            <4>5. Result(s, e, f) = "rehearsed" => rehearse[s]  BY DEF Result, Ends
            <4>6. st'[c] = "ok" => \A x \in Tx : txUnit'[x] = c => txst'[x] = "committed"
                <5> SUFFICES ASSUME st'[c] = "ok", NEW x \in Tx, txUnit'[x] = c
                             PROVE  txst'[x] = "committed"
                    OBVIOUS
                <5>1. t \in OpenTx /\ done  BY <4>1, <4>4
                <5>2. x = t
                    BY <1>3, <1>4, <1>5, <5>1, NoUnitAssumption DEF TxInv, OpenTx
                <5>3. QED  BY <1>4, <5>1, <5>2
            <4>7. st'[c] = "rehearsed" => ~visible'[c]
                <5> SUFFICES ASSUME st'[c] = "rehearsed" PROVE ~visible'[c]  OBVIOUS
                <5>1. rehearse[s] /\ ~done  BY <1>8, <4>1, <4>5
                <5>2. calls[s] > 0  BY <1>2, <1>3 DEF LevelInv
                <5>3. ~visible[c]  BY <1>3, <5>1, <5>2 DEF RehearsalStaysHidden, c
                <5>4. QED  BY <1>4, <5>1, <5>3
            <4>8. ~(k > calls'[p]) /\ ~(level'[p] > 0)  BY <2>2, <3>1, <4>2
            <4>9. st'[<<p, k>>] # "running"  BY <2>3, <4>1, <4>3
            <4>10. QED  BY <2>3, <4>6, <4>7, <4>8, <4>9
        <3>4. CASE level[s] # 1
            <4>1. st' = st  BY <1>1, <3>4
            <4>2. level'[s] > 0  BY <1>2, <1>7, <3>4
            <4>3. QED  BY <2>2, <2>3, <3>1, <3>2, <4>1, <4>2
        <3>5. QED  BY <3>3, <3>4
    <2>4. CASE <<p, k>> # c
        <3>1. st'[<<p, k>>] = st[<<p, k>>]  BY <1>1, <1>3, <2>1, <2>4 DEF TypeOK
        <3>2. Fresh(<<p, k>>) => Fresh(<<p, k>>)'  BY <1>12, <2>1 DEF Fresh
        <3>3. \A x \in Tx : txUnit'[x] = <<p, k>> => txUnit[x] = <<p, k>> /\ txst'[x] = txst[x]
            <4> SUFFICES ASSUME NEW x \in Tx, txUnit'[x] = <<p, k>>
                         PROVE  txUnit[x] = <<p, k>> /\ txst'[x] = txst[x]
                OBVIOUS
            <4>1. CASE t \in OpenTx  BY <1>4, <1>5, <2>4, <4>1
            <4>2. CASE t \notin OpenTx  BY <1>4, <4>2
            <4>3. QED  BY <4>1, <4>2
        <3>4. visible'[<<p, k>>] = visible[<<p, k>>]  BY <1>4, <2>1, <2>4
        <3>5. p = s => k # calls[s]  BY <2>4 DEF c, Current
        <3>6. p = s => st[<<p, k>>] # "running"  BY <1>3, <3>5 DEF UnitInv
        <3>7. p # s => level'[p] = level[p]  BY <1>7
        <3>8. QED  BY <1>3, <2>2, <3>1, <3>2, <3>3, <3>4, <3>5, <3>6, <3>7 DEF UnitInv
    <2>5. QED  BY <2>3, <2>4
<1>16. RehearsalStaysHidden'
    <2> SUFFICES ASSUME NEW p \in Session, calls'[p] > 0, rehearse'[p]
                 PROVE  ~visible'[Current(p)']
        BY DEF RehearsalStaysHidden
    <2>1. calls[p] > 0 /\ rehearse[p] /\ ~visible[Current(p)]
        BY <1>2, <1>3 DEF RehearsalStaysHidden
    <2>2. CASE p = s
        <3>1. ~done /\ Current(p) = c  BY <1>8, <2>1, <2>2 DEF c
        <3>2. visible'[c] = visible[c]  BY <1>4, <3>1
        <3>3. QED  BY <1>6, <2>1, <3>1, <3>2
    <2>3. CASE p # s
        <3>1. Current(p) \in Unit
            <4>1. calls[p] \in 1 .. MaxCalls  BY <1>3, <2>1, CurrentDB
            <4>2. QED  BY <4>1 DEF Current, Unit
        <3>2. QED  BY <1>4, <1>6, <1>10, <2>1, <2>3, <3>1
    <2>4. QED  BY <2>2, <2>3
<1>17. QED  BY <1>11, <1>13, <1>14, <1>15, <1>16 DEF IInv

LEMMA InvStep == IInv /\ [Next]_vars => IInv'
<1> SUFFICES ASSUME IInv, [Next]_vars PROVE IInv'  OBVIOUS
<1>1. TypeOK'
    <2>1. TypeOK  BY DEF IInv
    <2>2. QED  BY <2>1, TypeStep
<1>2. ASSUME NEW s \in Session, Step(s) PROVE IInv'
    BY <1>1, <1>2, InvBegin, InvBeginFails, InvBeginNested, InvExec, InvAddError, InvReturn DEF Step
<1>3. ASSUME UNCHANGED vars PROVE IInv'
    <2>1. /\ UNCHANGED <<calls, level, db, rehearse, unwind, dialect>>
          /\ UNCHANGED <<st, visible, txst, txUnit, pend>>
        BY <1>3 DEF vars, session, server
    <2>2. \A p \in Session : Current(p)' = Current(p)  BY <2>1 DEF Current
    <2>3. TxInv' /\ OpenInv'  BY <2>1, <2>2 DEF IInv, TxInv, OpenInv, OpenTx
    <2>4. \A p \in Session : Fresh(Current(p))' <=> Fresh(Current(p))  BY <2>1, <2>2 DEF Fresh
    <2>5. LevelInv'  BY <2>1, <2>2, <2>4 DEF IInv, LevelInv
    <2>6. \A p \in Session, k \in 1 .. MaxCalls : Fresh(<<p, k>>)' <=> Fresh(<<p, k>>)  BY <2>1 DEF Fresh
    <2>7. UnitInv'  BY <2>1, <2>6 DEF IInv, UnitInv
    <2>8. RehearsalStaysHidden'  BY <2>1, <2>2 DEF IInv, RehearsalStaysHidden
    <2>9. QED  BY <1>1, <2>3, <2>5, <2>7, <2>8 DEF IInv
<1>4. QED  BY <1>2, <1>3 DEF Next

\* The invariant behind the rest, however deep calls of Transaction are nested and
\* however their functions end: all levels of a session work on the one transaction
\* that its outermost call began.
THEOREM UserInductive == Spec => []IInv
BY InvInit, InvStep, PTL DEF Spec

\* No connection is kept by a Transaction that has been left, with an error, a panic,
\* a panic with a value that is no error or Goexit, nested ones included.
THEOREM NothingLeftOpenHolds == Spec => []NothingLeftOpen
<1>1. IInv => NothingLeftOpen  BY DEF IInv, OpenInv, NothingLeftOpen, Current
<1>2. QED  BY <1>1, UserInductive, PTL

\* Nothing is ever seen of a call whose settings hold OptKeyCommitDisabled.
THEOREM RehearsalHolds == Spec => []RehearsalStaysHidden
<1>1. IInv => RehearsalStaysHidden  BY DEF IInv
<1>2. QED  BY <1>1, UserInductive, PTL
-----------------------------------------------------------------------------
(* Functions that neither nest nor set an error only *)

\* What only marks the unit of s and changes nothing but the levels of s keeps FlatInv.
LEMMA MixedFlat ==
    ASSUME TypeOK, FlatInv, NEW s \in Session, Current(s) \in Unit,
           mixed' = [mixed EXCEPT ![Current(s)] = TRUE],
           \A p \in Session : p # s => level'[p] = level[p] /\ db'[p] = db[p],
           UNCHANGED <<calls, st, visible, txst>>
    PROVE  FlatInv'
<1>1. \A p \in Session : Current(p)' = Current(p)  BY DEF Current
<1>2. mixed'[Current(s)]  BY DEF TypeOK
<1>3. \A u \in Unit : ~mixed'[u] => ~mixed[u]  BY DEF TypeOK
<1>4. ASSUME NEW p \in Session, level'[p] > 0, ~mixed'[Current(p)']
      PROVE  level'[p] = 1 /\ (db'[p][1].handle \in Tx =>
                txst'[db'[p][1].handle] = "open" /\ ~db'[p][1].err)
    <2>1. p # s  BY <1>1, <1>2, <1>4
    <2>2. Current(p)' = Current(p) /\ Current(p) # Current(s)  BY <1>1, <2>1 DEF Current
    <2>3. ~mixed[Current(p)]  BY <1>4, <2>2 DEF TypeOK
    <2>4. QED  BY <1>4, <2>1, <2>3 DEF FlatInv
<1>5. QED  BY <1>3, <1>4 DEF FlatInv

\* The first level of a session that is on none.
LEMMA EnterFirst ==
    ASSUME TypeOK, NEW s \in Session, level[s] = 0, NEW h, NEW e, Enter(s, h, e)
    PROVE  /\ level'[s] = 1
           /\ db'[s][1] = [handle |-> h, err |-> e]
           /\ \A p \in Session : p # s => level'[p] = level[p] /\ db'[p] = db[p]
<1> DEFINE d == [handle |-> h, err |-> e]
<1>1. 1 \in 1 .. MaxLevel  BY LimitAssumption
<1>2. /\ level \in [Session -> 0 .. MaxLevel] /\ db[s] \in [1 .. MaxLevel -> DB]
      /\ db \in [Session -> [1 .. MaxLevel -> DB]]
    BY DEF TypeOK
<1>3. level' = [level EXCEPT ![s] = 1] /\ db' = [db EXCEPT ![s] = [db[s] EXCEPT ![1] = d]]
    BY <1>2 DEF Enter
<1> HIDE DEF d
<1>4. db'[s][1] = d  BY <1>1, <1>2, <1>3
<1>5. \A p \in Session : p # s => level'[p] = level[p] /\ db'[p] = db[p]  BY <1>2, <1>3
<1>6. level'[s] = 1  BY <1>2, <1>3
<1>7. QED  BY <1>4, <1>5, <1>6 DEF d

LEMMA FlatStep ==
    ASSUME IInv, FlatInv, [Next]_vars
    PROVE  FlatInv'
<1>1. TypeOK /\ TxInv /\ LevelInv /\ OpenInv /\ UnitInv  BY DEF IInv
<1>2. ASSUME NEW s \in Session, Begin(s) PROVE FlatInv'
    <2>1. Call(s) /\ visible' = visible  BY <1>2 DEF Begin
    <2>2. PICK t \in Tx : /\ txst[t] = "unused"
                          /\ txst' = [txst EXCEPT ![t] = "open"]
                          /\ Enter(s, t, FALSE)
        BY <1>2 DEF Begin
    <2>3. /\ st' = [st EXCEPT ![<<s, calls[s] + 1>>] = "running"]
          /\ level[s] = 0
        BY <2>1 DEF Call
    <2>5. /\ db'[s][1] = [handle |-> t, err |-> FALSE]
          /\ \A p \in Session : p # s => level'[p] = level[p] /\ db'[p] = db[p]
        BY <1>1, <2>2, <2>3, EnterFirst
    <2>6. txst'[t] = "open" /\ \A x \in Tx : x # t => txst'[x] = txst[x]  BY <1>1, <2>2 DEF TypeOK
    <2>7. ASSUME NEW p \in Session, level'[p] > 0, ~mixed'[Current(p)']
          PROVE  level'[p] = 1 /\ (db'[p][1].handle \in Tx =>
                    txst'[db'[p][1].handle] = "open" /\ ~db'[p][1].err)
        <3>1. CASE p = s
            <4>1. level'[s] = 1  BY <1>1, <2>2, <2>3, EnterFirst
            <4>2. QED  BY <2>5, <2>6, <3>1, <4>1
        <3>2. CASE p # s
            <4>1. Current(p)' = Current(p) /\ mixed' = mixed
                BY <1>1, <1>2, <2>1, <3>2 DEF Begin, Call, Current, TypeOK
            <4>2. QED  BY <2>2, <2>5, <2>6, <2>7, <3>2, <4>1 DEF FlatInv
        <3>3. QED  BY <3>1, <3>2
    <2>8. mixed' = mixed /\ \A u \in Unit : st'[u] = "failed" => st[u] = "failed"
        BY <1>1, <1>2, <2>3 DEF Begin, TypeOK
    <2>9. QED  BY <2>1, <2>7, <2>8 DEF FlatInv
<1>3. ASSUME NEW s \in Session, BeginFails(s) PROVE FlatInv'
    <2>1. Call(s) /\ Enter(s, NilTx, TRUE) /\ visible' = visible /\ txst' = txst
        BY <1>3 DEF BeginFails, server
    <2>2. /\ st' = [st EXCEPT ![<<s, calls[s] + 1>>] = "running"]
          /\ level[s] = 0
        BY <2>1 DEF Call
    <2>3. /\ db'[s][1] = [handle |-> NilTx, err |-> TRUE]
          /\ \A p \in Session : p # s => level'[p] = level[p] /\ db'[p] = db[p]
        BY <1>1, <2>1, <2>2, EnterFirst
    <2>4. /\ db'[s][1].handle = NilTx
          /\ \A p \in Session : p # s => level'[p] = level[p] /\ db'[p] = db[p]
        BY <2>3
    <2>5. ASSUME NEW p \in Session, level'[p] > 0, ~mixed'[Current(p)']
          PROVE  level'[p] = 1 /\ (db'[p][1].handle \in Tx =>
                    txst'[db'[p][1].handle] = "open" /\ ~db'[p][1].err)
        <3>1. CASE p = s
            <4>1. level'[s] = 1  BY <1>1, <2>1, <2>2, EnterFirst
            <4>2. QED  BY <2>4, <3>1, <4>1, HandleAssumption
        <3>2. CASE p # s
            <4>1. Current(p)' = Current(p) /\ mixed' = mixed
                BY <1>1, <1>3, <2>1, <3>2 DEF BeginFails, Call, Current, TypeOK
            <4>2. QED  BY <2>1, <2>4, <2>5, <3>2, <4>1 DEF FlatInv
        <3>3. QED  BY <3>1, <3>2
    <2>6. mixed' = mixed /\ \A u \in Unit : st'[u] = "failed" => st[u] = "failed"
        BY <1>1, <1>3, <2>2 DEF BeginFails, TypeOK
    <2>7. QED  BY <2>1, <2>5, <2>6 DEF FlatInv
<1>4. ASSUME NEW s \in Session, BeginNested(s) PROVE FlatInv'
    <2>1. /\ mixed' = [mixed EXCEPT ![Current(s)] = TRUE]
          /\ Enter(s, DBOf(s).handle, TRUE)
          /\ level[s] \in 1 .. MaxLevel - 1
          /\ UNCHANGED <<calls, st, visible, txst>>
        BY <1>4 DEF BeginNested, server
    <2>5. level[s] > 0  BY <1>1, <2>1, CurrentDB
    <2>2. Current(s) \in Unit  BY <2>5, HandleOfUnit
    <2>3. \A p \in Session : p # s => level'[p] = level[p] /\ db'[p] = db[p]
        BY <1>1, <2>1 DEF Enter, TypeOK
    <2>4. QED  BY <1>1, <2>1, <2>2, <2>3, MixedFlat
<1>5. ASSUME NEW s \in Session, Exec(s) PROVE FlatInv'
    BY <1>5 DEF Exec, session, FlatInv, Current
<1>6. ASSUME NEW s \in Session, Return(s) PROVE FlatInv'
    <2> DEFINE t == DBOf(s).handle
               c == Current(s)
    <2>1. PICK e \in Ends, f \in BOOLEAN :
             /\ End(s, e, f)
             /\ st' = IF level[s] = 1 THEN [st EXCEPT ![c] = Result(s, e, f)] ELSE st
        BY <1>6 DEF Return, May
    <2>2. /\ level[s] > 0
          /\ level' = [level EXCEPT ![s] = @ - 1]
          /\ db' = [db EXCEPT ![s][level[s]] = Root]
          /\ UNCHANGED <<calls, mixed>>
        BY <1>6 DEF Return
    <2> DEFINE done == Commits(s, e) /\ ~f
    <2>3. \A p \in Session : Current(p)' = Current(p)  BY <2>2 DEF Current
    <2>4. level'[s] = level[s] - 1 /\ \A p \in Session : p # s => level'[p] = level[p] /\ db'[p] = db[p]
        BY <1>1, <2>2 DEF TypeOK
    <2>5. /\ \A x \in Tx : x # t => txst'[x] = txst[x]
          /\ \A v \in Unit : v # c => visible'[v] = visible[v]
          /\ t \notin OpenTx => txst' = txst /\ visible' = visible
          /\ t \in OpenTx /\ ~done => visible'[c] = visible[c]
        BY <2>1, <2>2, EndEffect
    <2>6. t = db[s][1].handle /\ c \in Unit /\ (t \in OpenTx => txUnit[t] = c)  BY <2>2, HandleOfUnit
    <2>7. ASSUME NEW p \in Session, level'[p] > 0, ~mixed'[Current(p)']
          PROVE  level'[p] = 1 /\ (db'[p][1].handle \in Tx =>
                    txst'[db'[p][1].handle] = "open" /\ ~db'[p][1].err)
        <3>0. ~mixed[Current(p)]  BY <2>2, <2>3, <2>7
        <3>1. p # s
            <4> SUFFICES ASSUME p = s PROVE FALSE  OBVIOUS
            <4>1. level[s] = 1  BY <2>2, <3>0 DEF FlatInv
            <4>2. QED  BY <2>4, <2>7, <4>1
        <3>2. level[p] > 0 /\ db'[p] = db[p] /\ level'[p] = level[p]  BY <2>4, <2>7, <3>1
        <3>8. SUFFICES ASSUME db'[p][1].handle \in Tx
                       PROVE  txst'[db'[p][1].handle] = "open" /\ ~db'[p][1].err
            BY <3>0, <3>2 DEF FlatInv
        <3>3. txUnit[db[p][1].handle] = Current(p)
            BY <1>1, <3>2, <3>8, HandleAssumption DEF LevelInv
        <3>4. Current(p) # c  BY <3>1 DEF Current
        <3>5. CASE t \in OpenTx
            <4>1. db[p][1].handle # t  BY <2>6, <3>3, <3>4, <3>5
            <4>2. QED  BY <2>5, <3>0, <3>2, <3>8, <4>1 DEF FlatInv
        <3>6. CASE t \notin OpenTx  BY <2>5, <3>0, <3>2, <3>6, <3>8 DEF FlatInv
        <3>7. QED  BY <3>5, <3>6
    <2>8. ASSUME NEW u \in Unit, st'[u] = "failed", ~mixed'[u] PROVE ~visible'[u]
        <3>1. CASE u = c
            <4>0. ~mixed[c] /\ level[s] = 1  BY <2>2, <2>8, <3>1 DEF FlatInv
            <4>1. Result(s, e, f) = "failed"  BY <1>1, <2>1, <2>6, <2>8, <3>1, <4>0 DEF TypeOK
            <4>2. ~visible[c]
                <5>1. CASE t \in Tx
                    <6>1. txst[t] = "open" /\ txUnit[t] = c  BY <2>2, <2>6, <4>0, <5>1 DEF FlatInv, OpenTx
                    <6>2. QED  BY <1>1, <5>1, <6>1 DEF TxInv
                <5>2. CASE t \notin Tx  BY <1>1, <2>2, <2>6, <5>2 DEF LevelInv, Fresh
                <5>3. QED  BY <5>1, <5>2
            <4>3. t \in OpenTx => ~done
                <5> SUFFICES ASSUME t \in OpenTx PROVE ~done  OBVIOUS
                <5>1. ~DBOf(s).err
                    <6>1. DBOf(s) = db[s][1]  BY <1>1, <4>0, CurrentDB
                    <6>2. QED  BY <2>2, <2>6, <4>0, <6>1 DEF FlatInv, OpenTx
                <5>2. e # "nil" \/ f  BY <4>1, <5>1 DEF Result
                <5>3. e = "goexit" => Result(s, e, f) = "exited"  BY DEF Result
                <5>4. QED  BY <4>1, <5>2, <5>3 DEF Commits
            <4>4. QED  BY <2>5, <3>1, <4>2, <4>3
        <3>2. CASE u # c
            <4>1. st'[u] = st[u]  BY <1>1, <2>1, <3>2 DEF TypeOK
            <4>2. QED  BY <2>2, <2>5, <2>8, <3>2, <4>1 DEF FlatInv
        <3>3. QED  BY <3>1, <3>2
    <2>9. QED  BY <2>7, <2>8 DEF FlatInv
<1>7. ASSUME UNCHANGED vars PROVE FlatInv'
    BY <1>7 DEF vars, session, server, FlatInv, Current
<1>9. ASSUME NEW s \in Session, AddError(s) PROVE FlatInv'
    <2>1. /\ mixed' = [mixed EXCEPT ![Current(s)] = TRUE]
          /\ db' = [db EXCEPT ![s][level[s]] = [handle |-> @.handle, err |-> TRUE]]
          /\ level[s] > 0
          /\ UNCHANGED <<calls, level, st, visible, txst>>
        BY <1>9 DEF AddError, server
    <2>2. Current(s) \in Unit  BY <2>1, HandleOfUnit
    <2>3. \A p \in Session : p # s => level'[p] = level[p] /\ db'[p] = db[p]
        BY <1>1, <2>1 DEF TypeOK
    <2>4. QED  BY <1>1, <2>1, <2>2, <2>3, MixedFlat
<1>8. QED  BY <1>2, <1>3, <1>4, <1>5, <1>6, <1>7, <1>9 DEF Next, Step

\* Each Transaction is all or nothing: seen entirely when nil is returned, not at all
\* when commit is disabled, nor when an error or a panic comes back from a function
\* that neither nests nor only sets errors; without any assumption on the constants.
THEOREM TransactionAllOrNothing == Spec => []AllOrNothing
<1>1. Init => FlatInv  BY DEF Init, FlatInv, Current
<1>2. IInv /\ FlatInv /\ [Next]_vars => FlatInv'  BY FlatStep
<1>3. IInv /\ FlatInv => AllOrNothing
    <2> SUFFICES ASSUME IInv, FlatInv, NEW u \in Unit
                 PROVE  /\ ~(visible[u] /\ Hidden(u))
                        /\ st[u] = "ok" => ~Hidden(u)
                        /\ st[u] = "rehearsed" => ~visible[u]
                        /\ st[u] = "failed" /\ ~mixed[u] => ~visible[u]
        BY DEF AllOrNothing
    <2>1. TxInv /\ UnitInv  BY DEF IInv
    <2>2. PICK s \in Session, k \in 1 .. MaxCalls : u = <<s, k>>  BY DEF Unit
    <2>3. ~(visible[u] /\ Hidden(u))  BY <2>1 DEF TxInv, Hidden
    <2>4. st[u] = "ok" => ~Hidden(u)
        <3>1. st[u] = "ok" => \A t \in Tx : txUnit[t] = u => txst[t] = "committed"
            BY <2>1, <2>2 DEF UnitInv
        <3>2. QED  BY <2>1, <3>1 DEF TxInv, Hidden
    <2>5. st[u] = "rehearsed" => ~visible[u]  BY <2>1, <2>2 DEF UnitInv
    <2>6. QED  BY <2>3, <2>4, <2>5 DEF FlatInv
<1>4. QED  BY <1>1, <1>2, <1>3, UserInductive, PTL DEF Spec
=============================================================================
