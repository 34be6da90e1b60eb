------------------------ MODULE ScopePipelineProofs ------------------------
(***************************************************************************)
(* Proofs about ScopePipeline for any number of calls, transactions and    *)
(* connections and any nesting depth, in three parts:                      *)
(*   its types and what each step does to the stack of scopes;             *)
(*   with every fault, a failing Begin included: what has failed in a unit *)
(*   is on the error of a scope that runs no callback any more, breaks off *)
(*   whatever is opened on it, and reaches the caller (ErrInv); what is    *)
(*   opened on a scope with a transaction stays on it without a mark, so   *)
(*   that the scope that began a transaction ends it, and ends it alone    *)
(*   (StarterInv);                                                         *)
(*   if Begin does not fail: a chain is all or nothing (IInv of            *)
(*   ScopePipeline, one lemma per action), and refines AtomicUnits.        *)
(***************************************************************************)
EXTENDS ScopePipeline, TLAPS

-----------------------------------------------------------------------------
(* The operators on scopes *)

\* The next callback of either chain is a place, and never its first one.
LEMMA NextCallbackType ==
    ASSUME NEW f \in Frame, f.cb \in Callbacks
    PROVE  /\ NextCallback(f) \in Places \ {"begin", "lookup", "link"}
           /\ f.cb # "finish" => NextCallback(f) # "end"
  BY DEF NextCallback, Places, Callbacks, Loops

\* callCallbacks changes nothing of a scope but the callback it is at.
LEMMA AdvanceFacts ==
    ASSUME NEW f \in Frame, f.cb \in Callbacks
    PROVE  /\ Advance(f) \in Frame
           /\ Advance(f).handle = f.handle
           /\ Advance(f).began = f.began
           /\ Advance(f).err = f.err
           /\ Advance(f).skip = f.skip
           /\ Advance(f).noTx = f.noTx
           /\ Advance(f).chain = f.chain
           /\ Advance(f).ret = f.ret
           /\ Advance(f).cb \notin {"begin", "lookup", "link"}
           /\ f.err \/ f.skip => Advance(f).cb = "end"
           /\ ~(f.err \/ f.skip) /\ f.cb # "finish" => Advance(f).cb # "end"
  BY NextCallbackType DEF Advance, Frame, Places

LEMMA NoFrameType == NoFrame \in Frame
  BY BoundAssumption DEF NoFrame, Frame, Chains, Places, Returns

\* What NewScope takes over from a DB has the types a scope needs.
LEMMA DbFacts ==
    ASSUME NEW db \in Frame
    PROVE  /\ db.err \in BOOLEAN
           /\ db.noTx \in BOOLEAN
           /\ db.handle \in Tx \cup {Pool}
           /\ db.rows \in 0 .. 2
           /\ FirstCallback(db.err) \in Places
           /\ 0 \in 0 .. MaxNested
<1>1. FirstCallback(db.err) \in Places
  BY DEF FirstCallback, Places, Callbacks
<1>2. 0 \in 0 .. MaxNested
  BY BoundAssumption
<1>3. QED
  BY <1>1, <1>2 DEF Frame

\* The first scope of a call is on the pool and has no mark and no error.
LEMMA CallFacts ==
    ASSUME NEW k \in AllKinds,
           NEW g, g = NewScope(FirstChain(k), NoFrame, FALSE,
                               IF k = "Save" THEN "save" ELSE "plain", "api")
    PROVE  /\ g \in Frame
           /\ g.handle = Pool
           /\ g.cb = "begin"
           /\ ~g.noTx /\ ~g.began /\ ~g.skip /\ ~g.err
<1>1. FirstChain(k) \in Chains
  BY DEF FirstChain, Chains, AllKinds
<1>2. CASE k = "Save"
  BY <1>1, <1>2, DbFacts, NoFrameType DEF NewScope, NoFrame, Frame, Returns, FirstCallback
<1>3. CASE k # "Save"
  BY <1>1, <1>3, DbFacts, NoFrameType DEF NewScope, NoFrame, Frame, Returns, FirstCallback
<1>4. QED
  BY <1>2, <1>3

\* What the loops of a scope open runs on its handle, has its error and no mark.
LEMMA NestedFacts ==
    ASSUME NEW f \in Frame, f.cb \in Loops, NEW g \in NestedOf(f)
    PROVE  /\ g \in Frame /\ g.handle = f.handle /\ ~g.began
           /\ g.err = f.err /\ (g.err => g.cb = "end")
<1>1. ASSUME NEW rets \in SUBSET Returns, NEW h \in SavesOf(f, rets)
      PROVE  /\ h \in Frame /\ h.handle = f.handle /\ ~h.began
             /\ h.err = f.err /\ (h.err => h.cb = "end")
  <2>1. PICK chain \in {"create", "update"}, ret \in rets :
              h = NewScope(chain, f, f.noTx, "save", ret)
    BY <1>1 DEF SavesOf
  <2>2. chain \in Chains /\ ret \in Returns
    BY DEF Chains
  <2>3. NewScope(chain, f, f.noTx, "save", ret) \in Frame
    BY <2>2, DbFacts DEF NewScope, Frame
  <2>4. QED
    BY <2>1, <2>3 DEF NewScope, FirstCallback
<1>2. CASE f.cb = "saveBefore"
  <2>1. {"next"} \in SUBSET Returns
    BY DEF Returns
  <2>2. g \in SavesOf(f, {"next"})
    BY <1>2 DEF NestedOf
  <2>3. QED
    BY <2>1, <2>2, <1>1
<1>3. CASE f.cb = "saveAfter"
  <2>1. {"next", "stop", "link", "stopOrLink"} \in SUBSET Returns
    BY DEF Returns
  <2>2. g \in SavesOf(f, {"next", "stop", "link", "stopOrLink"})
    BY <1>3 DEF NestedOf
  <2>3. QED
    BY <2>1, <2>2, <1>1
<1>4. CASE f.cb = "children"
  <2>1. g \in ChildrenOf(f)
    BY <1>4 DEF NestedOf
  <2>2. \/ g = NewScope("create", f, f.noTx, "plain", "stop")
        \/ g = NewScope("update", f, TRUE, "child", "stop")
        \/ g = NewScope("delete", f, f.noTx, "plain", "next")
    BY <2>1 DEF ChildrenOf
  <2>3. CASE g = NewScope("create", f, f.noTx, "plain", "stop")
    BY <2>3, DbFacts DEF NewScope, FirstCallback, Frame, Chains, Returns
  <2>4. CASE g = NewScope("update", f, TRUE, "child", "stop")
    BY <2>4, DbFacts DEF NewScope, FirstCallback, Frame, Chains, Returns
  <2>5. CASE g = NewScope("delete", f, f.noTx, "plain", "next")
    BY <2>5, DbFacts DEF NewScope, FirstCallback, Frame, Chains, Returns
  <2>6. QED
    BY <2>2, <2>3, <2>4, <2>5
<1>5. QED
  BY <1>2, <1>3, <1>4 DEF Loops

\* A scope resumed after a nested one stays in its loop, adds a join row, or is
\* broken off with an error.
LEMMA ResumeFacts ==
    ASSUME NEW p \in Frame, NEW f \in Frame, NEW linked \in BOOLEAN, p.cb \in Loops
    PROVE  /\ Resume(p, f, linked) \in Frame
           /\ Resume(p, f, linked).handle = p.handle
           /\ Resume(p, f, linked).began = p.began
           /\ Resume(p, f, linked).noTx = p.noTx
           /\ Resume(p, f, linked).chain = p.chain
           /\ Resume(p, f, linked).ret = p.ret
           /\ Resume(p, f, linked).skip = p.skip
           /\ Resume(p, f, linked).err = (p.err \/ f.err)
           /\ Resume(p, f, linked).cb \in Loops \cup {"link", "end"}
           /\ Resume(p, f, linked).cb = "end" => Resume(p, f, linked).err
<1> DEFINE r == [p EXCEPT !.err = p.err \/ f.err]
           q == [r EXCEPT !.cb = "link", !.linkErr = p.err]
<1>1. p.err \in BOOLEAN /\ (p.err \/ f.err) \in BOOLEAN
  BY DEF Frame
<1>2. r \in Frame /\ r.cb = p.cb /\ r.cb \in Callbacks /\ r.handle = p.handle
      /\ r.began = p.began /\ r.noTx = p.noTx /\ r.chain = p.chain /\ r.skip = p.skip /\ r.ret = p.ret
      /\ r.err = (p.err \/ f.err)
  BY <1>1 DEF Frame, Callbacks
<1>3. \/ (f.err /\ f.ret \in {"stop", "stopOrLink"}) /\ Resume(p, f, linked) = Advance(r)
      \/ Resume(p, f, linked) = q
      \/ Resume(p, f, linked) = r
  BY DEF Resume
<1> HIDE DEF r
<1>4. CASE (f.err /\ f.ret \in {"stop", "stopOrLink"}) /\ Resume(p, f, linked) = Advance(r)
  <2>1. r.err
    BY <1>2, <1>4
  <2>2. QED
    BY <1>2, <1>4, <2>1, AdvanceFacts
<1>5. CASE Resume(p, f, linked) = q
  <2>1. /\ q \in Frame /\ q.cb = "link" /\ q.handle = r.handle /\ q.began = r.began
        /\ q.noTx = r.noTx /\ q.chain = r.chain /\ q.skip = r.skip /\ q.ret = r.ret
        /\ q.err = r.err
    BY <1>1, <1>2 DEF Frame, Places
  <2>2. QED
    BY <1>2, <1>5, <2>1
<1>6. CASE Resume(p, f, linked) = r
  BY <1>2, <1>6 DEF Loops
<1>7. QED
  BY <1>3, <1>4, <1>5, <1>6
-----------------------------------------------------------------------------
(* The stack of scopes *)

\* The innermost scope of a call, and the DB it was opened on, are frames.
LEMMA TopFacts ==
    ASSUME TypeOK, NEW o \in Op, Busy(o)
    PROVE  /\ depth[o] \in 1 .. MaxDepth
           /\ Top(o) \in Frame
           /\ Base(o) \in Frame
           /\ \A d \in 1 .. MaxDepth : frame[o][d] \in Frame
<1>1. depth[o] \in 1 .. MaxDepth
  BY BoundAssumption DEF TypeOK, Busy
<1>2. \A d \in 1 .. MaxDepth : frame[o][d] \in Frame
  BY DEF TypeOK
<1>3. depth[o] # 1 => depth[o] - 1 \in 1 .. MaxDepth
  BY <1>1, BoundAssumption
<1>4. QED
  BY <1>1, <1>2, <1>3, NoFrameType DEF Top, Base

\* SetTop changes the innermost scope of one call and nothing else.
LEMMA SetTopFacts ==
    ASSUME TypeOK, NEW o \in Op, Busy(o), NEW g \in Frame, SetTop(o, g)
    PROVE  /\ frame' \in [Op -> [1 .. MaxDepth -> Frame]]
           /\ frame'[o][depth[o]] = g
           /\ \A d \in 1 .. MaxDepth : d # depth[o] => frame'[o][d] = frame[o][d]
           /\ \A p \in Op : p # o => frame'[p] = frame[p]
<1>1. depth[o] \in 1 .. MaxDepth
  BY TopFacts
<1>2. frame \in [Op -> [1 .. MaxDepth -> Frame]]
  BY DEF TypeOK
<1>3. frame[o] \in [1 .. MaxDepth -> Frame]
  BY <1>2
<1>4. [frame[o] EXCEPT ![depth[o]] = g] \in [1 .. MaxDepth -> Frame]
  BY <1>1, <1>3
<1>5. frame' = [frame EXCEPT ![o] = [frame[o] EXCEPT ![depth[o]] = g]]
  BY DEF SetTop
<1>6. QED
  BY <1>1, <1>2, <1>3, <1>4, <1>5

\* The scopes below the innermost one do not move with it.
LEMMA SetTopStack ==
    ASSUME TypeOK, StackInv, NEW o \in Op, Busy(o), NEW g \in Frame, SetTop(o, g),
           depth' = depth, \A p \in Op : Busy(p) => turn'[p] > 0
    PROVE  StackInv'
<1>1. depth \in [Op -> 0 .. MaxDepth] /\ MaxDepth \in Nat
  BY BoundAssumption DEF TypeOK
<1>2. ASSUME NEW p \in Op, depth'[p] > 0, NEW d \in 1 .. depth'[p] - 1
      PROVE  frame'[p][d].cb \in Loops
  <2>1. d \in 1 .. MaxDepth /\ d # depth[p] /\ depth[p] > 0 /\ d \in 1 .. depth[p] - 1
    BY <1>1, <1>2
  <2>2. frame[p][d].cb \in Loops
    BY <2>1 DEF StackInv, Busy
  <2>3. frame'[p][d] = frame[p][d]
    BY <2>1, SetTopFacts
  <2>4. QED
    BY <2>2, <2>3
<1>3. QED
  BY <1>2 DEF StackInv, Busy
-----------------------------------------------------------------------------
(* What one callback does to its scope *)

\* The scope f goes on as g in its transaction, or is broken off.
Moved(f, g) == /\ g.handle = f.handle
               /\ g.began = f.began
               /\ g.noTx = f.noTx
               /\ g.chain = f.chain
               /\ g.cb \in (Callbacks \ {"begin"}) \cup {"link", "end"}
               /\ g.cb = "end" /\ f.cb # "finish" => g.err \/ g.skip
               /\ g.cb # "end" /\ g.skip => f.skip

\* Advancing a scope that keeps its transaction is such a move.
LEMMA AdvanceMoves ==
    ASSUME NEW f \in Frame, NEW h \in Frame, f.cb \in Callbacks, h.cb = f.cb,
           h.handle = f.handle, h.began = f.began, h.noTx = f.noTx, h.chain = f.chain
    PROVE  Advance(h) \in Frame /\ Moved(f, Advance(h))
<1>1. Advance(h).cb \in Places
  BY AdvanceFacts DEF Frame
<1>2. QED
  BY <1>1, AdvanceFacts DEF Moved, Places

LEMMA NoTransactionMoves ==
    ASSUME TypeOK, NEW o \in Op, NoTransaction(o)
    PROVE  \E g \in Frame : SetTop(o, g) /\ Moved(Top(o), g)
<1>1. Top(o) \in Frame /\ Top(o).cb \in Callbacks
  BY TopFacts DEF NoTransaction, At, Callbacks
<1>2. QED
  BY <1>1, AdvanceMoves DEF NoTransaction

LEMMA BeginFailsMoves ==
    ASSUME TypeOK, NEW o \in Op, BeginFails(o)
    PROVE  \E g \in Frame : SetTop(o, g) /\ Moved(Top(o), g)
<1>1. Top(o) \in Frame /\ Top(o).cb \in Callbacks
  BY TopFacts DEF BeginFails, At, Callbacks
<1>2. QED
  BY <1>1, AdvanceMoves DEF BeginFails

LEMMA BeforeMoves ==
    ASSUME TypeOK, NEW o \in Op, Before(o)
    PROVE  \E g \in Frame : SetTop(o, g) /\ Moved(Top(o), g)
<1>1. Top(o) \in Frame /\ Top(o).cb \in Callbacks
  BY TopFacts DEF Before, At, Callbacks
<1>2. PICK err \in BOOLEAN, skip \in BOOLEAN :
            SetTop(o, Advance([Top(o) EXCEPT !.err = err, !.skip = skip]))
  BY DEF Before, May
<1> DEFINE h == [Top(o) EXCEPT !.err = err, !.skip = skip]
<1>3. (~err) \in BOOLEAN
  OBVIOUS
<1>4. /\ h \in Frame /\ h.cb = Top(o).cb /\ h.handle = Top(o).handle /\ h.began = Top(o).began
      /\ h.noTx = Top(o).noTx /\ h.chain = Top(o).chain
  BY <1>1, <1>3 DEF Frame
<1> HIDE DEF h
<1>5. SetTop(o, Advance(h))
  BY <1>2 DEF h
<1>6. QED
  BY <1>1, <1>4, <1>5, AdvanceMoves

LEMMA AfterMoves ==
    ASSUME TypeOK, NEW o \in Op, After(o)
    PROVE  \E g \in Frame : SetTop(o, g) /\ Moved(Top(o), g)
<1>1. Top(o) \in Frame /\ Top(o).cb \in Callbacks
  BY TopFacts DEF After, At, Callbacks
<1>2. PICK err \in BOOLEAN, skip \in BOOLEAN :
            SetTop(o, Advance([Top(o) EXCEPT !.err = err, !.skip = skip]))
  BY DEF After, May
<1> DEFINE h == [Top(o) EXCEPT !.err = err, !.skip = skip]
<1>3. /\ h \in Frame /\ h.cb = Top(o).cb /\ h.handle = Top(o).handle /\ h.began = Top(o).began
      /\ h.noTx = Top(o).noTx /\ h.chain = Top(o).chain
  BY <1>1 DEF Frame
<1> HIDE DEF h
<1>4. SetTop(o, Advance(h))
  BY <1>2 DEF h
<1>5. QED
  BY <1>1, <1>3, <1>4, AdvanceMoves

LEMMA OutcomeType ==
    ASSUME NEW out \in Outcome
    PROVE  out.done \in BOOLEAN /\ out.err \in BOOLEAN
<1>1. \/ out = [done |-> TRUE, err |-> FALSE]
      \/ out \in [done : BOOLEAN, err : {TRUE}]
  BY DEF Outcome
<1>2. CASE out = [done |-> TRUE, err |-> FALSE]
  BY <1>2
<1>3. CASE out \in [done : BOOLEAN, err : {TRUE}]
  BY <1>3
<1>4. QED
  BY <1>1, <1>2, <1>3

LEMMA ExecMoves ==
    ASSUME TypeOK, NEW o \in Op, Exec(o)
    PROVE  \E g \in Frame : SetTop(o, g) /\ Moved(Top(o), g)
<1>1. Top(o) \in Frame /\ Top(o).cb \in Callbacks
  BY TopFacts, SMTT(30) DEF Exec, At, Callbacks
<1>2. PICK out \in Outcome, rows \in 0 .. 2 :
            SetTop(o, Advance([Top(o) EXCEPT !.err = out.err,
                                             !.rows = IF out.err THEN @ ELSE rows]))
  BY DEF Exec
<1>3. out.err \in BOOLEAN
  BY OutcomeType
<1> DEFINE n == IF out.err THEN Top(o).rows ELSE rows
           h == [Top(o) EXCEPT !.err = out.err, !.rows = n]
<1>4. n \in 0 .. 2
  BY <1>1 DEF Frame
<1>5. SetTop(o, Advance(h))
  BY <1>2
<1> HIDE DEF n
<1>6. /\ h \in Frame /\ h.cb = Top(o).cb /\ h.handle = Top(o).handle /\ h.began = Top(o).began
      /\ h.noTx = Top(o).noTx /\ h.chain = Top(o).chain
  BY <1>1, <1>3, <1>4 DEF Frame
<1> HIDE DEF h
<1>7. QED
  BY <1>1, <1>5, <1>6, AdvanceMoves

LEMMA NoColumnsMoves ==
    ASSUME TypeOK, NEW o \in Op, NoColumns(o)
    PROVE  \E g \in Frame : SetTop(o, g) /\ Moved(Top(o), g)
<1>1. Top(o) \in Frame /\ Top(o).cb \in Callbacks
  BY TopFacts DEF NoColumns, At, Callbacks
<1>2. QED
  BY <1>1, AdvanceMoves DEF NoColumns

LEMMA SetColumnFailsMoves ==
    ASSUME TypeOK, NEW o \in Op, SetColumnFails(o)
    PROVE  \E g \in Frame : SetTop(o, g) /\ Moved(Top(o), g)
<1>1. Top(o) \in Frame /\ Top(o).cb \in Loops
  BY TopFacts DEF SetColumnFails, Loops
<1> DEFINE g == [Top(o) EXCEPT !.err = TRUE]
<1>2. /\ g \in Frame /\ g.cb = Top(o).cb /\ g.handle = Top(o).handle /\ g.began = Top(o).began
      /\ g.noTx = Top(o).noTx /\ g.chain = Top(o).chain /\ g.skip = Top(o).skip
  BY <1>1 DEF Frame
<1>3. SetTop(o, g)
  BY DEF SetColumnFails
<1> HIDE DEF g
<1>4. QED
  BY <1>1, <1>2, <1>3 DEF Moved, Callbacks, Loops

LEMMA LeaveLoopMoves ==
    ASSUME TypeOK, NEW o \in Op, LeaveLoop(o)
    PROVE  \E g \in Frame : SetTop(o, g) /\ Moved(Top(o), g)
<1>1. Top(o) \in Frame /\ Top(o).cb \in Callbacks
  BY TopFacts DEF LeaveLoop, Callbacks
<1>2. QED
  BY <1>1, AdvanceMoves DEF LeaveLoop

LEMMA LinkExistingMoves ==
    ASSUME TypeOK, NEW o \in Op, LinkExisting(o)
    PROVE  \E g \in Frame : SetTop(o, g) /\ Moved(Top(o), g)
<1>1. Top(o) \in Frame /\ Busy(o)
  BY TopFacts DEF LinkExisting, At
<1>2. Top(o).n + 1 \in 0 .. MaxNested
  BY <1>1, BoundAssumption DEF LinkExisting, Frame
<1> DEFINE g == [Top(o) EXCEPT !.cb = "link", !.linkErr = Top(o).err, !.n = @ + 1]
<1>3. /\ g \in Frame /\ g.cb = "link" /\ g.handle = Top(o).handle /\ g.began = Top(o).began
      /\ g.noTx = Top(o).noTx /\ g.chain = Top(o).chain /\ g.skip = Top(o).skip
  BY <1>1, <1>2 DEF Frame, Places
<1>4. SetTop(o, g)
  BY DEF LinkExisting
<1> HIDE DEF g
<1>5. QED
  BY <1>3, <1>4 DEF Moved

LEMMA LinkMoves ==
    ASSUME TypeOK, NEW o \in Op, Link(o)
    PROVE  \E g \in Frame : SetTop(o, g) /\ Moved(Top(o), g)
<1> DEFINE f == [Top(o) EXCEPT !.cb = "saveAfter", !.linkErr = FALSE]
<1>1. Top(o) \in Frame /\ Busy(o) /\ Top(o).cb = "link"
  BY TopFacts DEF Link, At
<1>2. /\ f \in Frame /\ f.cb = "saveAfter" /\ f.handle = Top(o).handle /\ f.began = Top(o).began
      /\ f.noTx = Top(o).noTx /\ f.chain = Top(o).chain /\ f.skip = Top(o).skip
  BY <1>1 DEF Frame, Places, Callbacks, Loops
<1>3. \/ SetTop(o, f)
      \/ \E out \in Outcome : SetTop(o, [f EXCEPT !.err = @ \/ out.err])
  BY DEF Link
<1> HIDE DEF f
<1>4. CASE SetTop(o, f)
  BY <1>2, <1>4 DEF Moved, Callbacks, Loops
<1>5. CASE \E out \in Outcome : SetTop(o, [f EXCEPT !.err = @ \/ out.err])
  <2>1. PICK out \in Outcome : SetTop(o, [f EXCEPT !.err = @ \/ out.err])
    BY <1>5
  <2> DEFINE e == f.err \/ out.err
             g == [f EXCEPT !.err = e]
  <2>2. e \in BOOLEAN
    OBVIOUS
  <2>3. SetTop(o, g)
    BY <2>1
  <2> HIDE DEF e
  <2>4. /\ g \in Frame /\ g.cb = "saveAfter" /\ g.handle = f.handle /\ g.began = f.began
        /\ g.noTx = f.noTx /\ g.chain = f.chain /\ g.skip = f.skip
    BY <1>2, <2>2 DEF Frame
  <2> HIDE DEF g
  <2>5. QED
    BY <1>2, <2>3, <2>4 DEF Moved, Callbacks, Loops
<1>6. QED
  BY <1>3, <1>4, <1>5
-----------------------------------------------------------------------------
(* Type correctness *)

\* The unit a call is running.
LEMMA CurrentFacts ==
    ASSUME TypeOK, StackInv, NEW o \in Op, Busy(o)
    PROVE  turn[o] \in {1, 2} /\ Current(o) = <<o, turn[o]>> /\ Current(o) \in Unit
<1>1. turn[o] \in {1, 2}
  BY DEF TypeOK, StackInv
<1>2. QED
  BY <1>1 DEF Current, Unit

LEMMA FailingType ==
    ASSUME TypeOK, NEW o \in Op, NEW err \in BOOLEAN, Failing(o, err)
    PROVE  failed' \in [Unit -> BOOLEAN]
<1>1. (failed[Current(o)] \/ err) \in BOOLEAN
  OBVIOUS
<1>2. failed' = [failed EXCEPT ![Current(o)] = failed[Current(o)] \/ err]
  BY DEF Failing
<1>3. QED
  BY <1>1, <1>2 DEF TypeOK

LEMMA WroteType ==
    ASSUME TypeOK, NEW o \in Op, NEW h \in Tx \cup {Pool}, NEW done \in BOOLEAN,
           Wrote(o, h, done)
    PROVE  visible' \in [Unit -> BOOLEAN] /\ pend' \in [Tx -> BOOLEAN]
<1>1. CASE h = Pool
  <2>1. (visible[Current(o)] \/ done) \in BOOLEAN
    OBVIOUS
  <2>2. visible' = [visible EXCEPT ![Current(o)] = visible[Current(o)] \/ done] /\ pend' = pend
    BY <1>1 DEF Wrote
  <2>3. QED
    BY <2>1, <2>2 DEF TypeOK
<1>2. CASE h # Pool
  <2>1. (pend[h] \/ done) \in BOOLEAN
    OBVIOUS
  <2>2. pend' = [pend EXCEPT ![h] = pend[h] \/ done] /\ visible' = visible
    BY <1>2 DEF Wrote
  <2>3. QED
    BY <2>1, <2>2 DEF TypeOK
<1>3. QED
  BY <1>1, <1>2

\* A step of the innermost scope that leaves the transactions alone.
LEMMA MoveType ==
    ASSUME TypeOK, StackInv, NEW o \in Op, Busy(o),
           \E g \in Frame : SetTop(o, g),
           UNCHANGED <<call, txst, txUnit>>,
           failed' \in [Unit -> BOOLEAN],
           visible' \in [Unit -> BOOLEAN],
           pend' \in [Tx -> BOOLEAN]
    PROVE  TypeOK' /\ StackInv'
<1>1. PICK g \in Frame : SetTop(o, g)
  OBVIOUS
<1>2. kind' = kind /\ depth' = depth /\ turn' = turn /\ st' = st
  BY DEF call
<1>3. frame' \in [Op -> [1 .. MaxDepth -> Frame]]
  BY <1>1, SetTopFacts
<1>4. StackInv'
  BY <1>1, <1>2, SetTopStack DEF StackInv
<1>5. QED
  BY <1>2, <1>3, <1>4 DEF TypeOK

\* The plain steps of a scope: its callbacks, but for begin, finish and fallback.
Plain(o) == \/ NoTransaction(o) \/ Before(o) \/ After(o) \/ Exec(o) \/ NoColumns(o)
            \/ SetColumnFails(o) \/ LeaveLoop(o) \/ LinkExisting(o) \/ Link(o)

LEMMA PlainMoves ==
    ASSUME TypeOK, NEW o \in Op, Plain(o)
    PROVE  \E g \in Frame : SetTop(o, g) /\ Moved(Top(o), g)
  BY NoTransactionMoves, BeforeMoves, AfterMoves, ExecMoves, NoColumnsMoves, SetColumnFailsMoves,
     LeaveLoopMoves, LinkExistingMoves, LinkMoves DEF Plain

LEMMA PlainType ==
    ASSUME TypeOK, StackInv, NEW o \in Op, Plain(o)
    PROVE  TypeOK' /\ StackInv'
<1>1. Busy(o) /\ UNCHANGED <<call, txst, txUnit>>
  BY DEF Plain, NoTransaction, Before, After, Exec, NoColumns, SetColumnFails, LeaveLoop, LinkExisting, Link,
         At, database
<1>2. Top(o).handle \in Tx \cup {Pool}
  BY <1>1, TopFacts DEF Frame
<1>3. \E g \in Frame : SetTop(o, g)
  BY PlainMoves
<1>4. failed' \in [Unit -> BOOLEAN] /\ visible' \in [Unit -> BOOLEAN] /\ pend' \in [Tx -> BOOLEAN]
  <2>1. CASE NoTransaction(o) \/ NoColumns(o) \/ LeaveLoop(o) \/ LinkExisting(o)
    BY <2>1 DEF TypeOK, NoTransaction, NoColumns, LeaveLoop, LinkExisting, database
  <2>2. CASE Before(o) \/ After(o) \/ SetColumnFails(o)
    <3>1. visible' = visible /\ pend' = pend /\ \E err \in BOOLEAN : Failing(o, err)
      BY <2>2 DEF Before, After, SetColumnFails, May, database
    <3>2. QED
      BY <3>1, FailingType DEF TypeOK
  <2>3. CASE Exec(o)
    <3>1. PICK out \in Outcome : Wrote(o, Top(o).handle, out.done) /\ Failing(o, out.err)
      BY <2>3 DEF Exec
    <3>2. QED
      BY <1>2, <3>1, OutcomeType, FailingType, WroteType
  <2>4. CASE Link(o)
    <3>1. CASE failed' = failed /\ visible' = visible /\ pend' = pend
      BY <3>1 DEF TypeOK
    <3>2. CASE \E out \in Outcome : Wrote(o, Top(o).handle, out.done) /\ Failing(o, out.err)
      BY <1>2, <3>2, OutcomeType, FailingType, WroteType
    <3>3. [Top(o) EXCEPT !.cb = "saveAfter", !.linkErr = FALSE].handle = Top(o).handle
      BY <1>1, TopFacts DEF Frame
    <3>4. QED
      BY <2>4, <3>1, <3>2, <3>3 DEF Link, effects
  <2>5. QED
    BY <2>1, <2>2, <2>3, <2>4 DEF Plain
<1>5. QED
  BY <1>1, <1>3, <1>4, MoveType, SMTT(30)

\* Call pushes the first scope of an API call.
LEMMA CallFrame ==
    ASSUME TypeOK, NEW o \in Op, Call(o)
    PROVE  /\ kind' \in [Op -> AllKinds]
           /\ \E g \in Frame : /\ frame' = [frame EXCEPT ![o][1] = g]
                               /\ frame'[o][1] = g
                               /\ g.handle = Pool /\ g.cb = "begin"
                               /\ ~g.noTx /\ ~g.began /\ ~g.skip /\ ~g.err
           /\ frame' \in [Op -> [1 .. MaxDepth -> Frame]]
           /\ \A p \in Op : p # o => frame'[p] = frame[p]
<1>1. PICK k \in Kinds :
           /\ kind' = [kind EXCEPT ![o] = k]
           /\ frame' = [frame EXCEPT ![o][1] =
                 NewScope(FirstChain(k), NoFrame, FALSE, IF k = "Save" THEN "save" ELSE "plain", "api")]
  BY DEF Call
<1>2. k \in AllKinds
  BY KindAssumption
<1> DEFINE g == NewScope(FirstChain(k), NoFrame, FALSE, IF k = "Save" THEN "save" ELSE "plain", "api")
<1>3. frame' = [frame EXCEPT ![o][1] = g]
  BY <1>1
<1>4. g \in Frame /\ g.handle = Pool /\ g.cb = "begin" /\ ~g.noTx /\ ~g.began /\ ~g.skip /\ ~g.err
  BY <1>2, CallFacts
<1> HIDE DEF g
<1>5. 1 \in 1 .. MaxDepth
  BY BoundAssumption
<1>6. frame \in [Op -> [1 .. MaxDepth -> Frame]] /\ frame[o] \in [1 .. MaxDepth -> Frame]
  BY DEF TypeOK
<1>7. /\ [frame[o] EXCEPT ![1] = g] \in [1 .. MaxDepth -> Frame]
      /\ [frame[o] EXCEPT ![1] = g][1] = g
  BY <1>4, <1>5, <1>6
<1>8. frame' = [frame EXCEPT ![o] = [frame[o] EXCEPT ![1] = g]]
  BY <1>3
<1>9. /\ frame' \in [Op -> [1 .. MaxDepth -> Frame]] /\ frame'[o][1] = g
      /\ \A p \in Op : p # o => frame'[p] = frame[p]
  BY <1>6, <1>7, <1>8
<1>10. kind' \in [Op -> AllKinds]
  BY <1>1, <1>2 DEF TypeOK
<1>11. QED
  BY <1>3, <1>4, <1>9, <1>10

LEMMA CallType ==
    ASSUME TypeOK, StackInv, NEW o \in Op, Call(o)
    PROVE  TypeOK' /\ StackInv'
<1>1. kind' \in [Op -> AllKinds] /\ frame' \in [Op -> [1 .. MaxDepth -> Frame]]
  BY CallFrame
<1>2. depth' \in [Op -> 0 .. MaxDepth] /\ turn' \in [Op -> 0 .. 2]
  BY BoundAssumption DEF TypeOK, Call
<1>3. st' \in [Unit -> {"idle", "running", "ok", "skipped", "failed"}]
  BY DEF TypeOK, Call
<1>4. TypeOK'
  BY <1>1, <1>2, <1>3 DEF TypeOK, Call, database
<1>5. StackInv'
  <2>1. SUFFICES ASSUME NEW p \in Op, Busy(p)'
                 PROVE  turn'[p] > 0 /\ \A d \in 1 .. depth'[p] - 1 : frame'[p][d].cb \in Loops
    BY DEF StackInv
  <2>2. CASE p = o
    <3>1. depth' = [depth EXCEPT ![o] = 1] /\ turn' = [turn EXCEPT ![o] = 1]
      BY DEF Call
    <3>2. depth'[p] = 1 /\ turn'[p] = 1
      BY <2>2, <3>1 DEF TypeOK
    <3>3. QED
      BY <3>2
  <2>3. CASE p # o
    <3>1. depth'[p] = depth[p] /\ turn'[p] = turn[p]
      <4>1. depth' = [depth EXCEPT ![o] = 1] /\ turn' = [turn EXCEPT ![o] = 1]
        BY DEF Call
      <4>2. QED
        BY <2>3, <4>1 DEF TypeOK
    <3>2. frame'[p] = frame[p]
      BY <2>3, CallFrame
    <3>3. QED
      BY <2>1, <3>1, <3>2 DEF StackInv, Busy
  <2>4. QED
    BY <2>2, <2>3
<1>6. QED
  BY <1>4, <1>5

\* The scope that begins owns an unused transaction from then on.
LEMMA BeginFrame ==
    ASSUME TypeOK, NEW o \in Op, BeginTransaction(o)
    PROVE  \E t \in Tx, g \in Frame :
             /\ txst[t] = "unused"
             /\ txst' = [txst EXCEPT ![t] = "open"]
             /\ txUnit' = [txUnit EXCEPT ![t] = Current(o)]
             /\ SetTop(o, g)
             /\ g.handle = t /\ g.began /\ g.noTx = Top(o).noTx /\ g.chain = Top(o).chain
             /\ g.cb \in (Callbacks \ {"begin"}) \cup {"end"}
             /\ g.cb = "end" => g.err \/ g.skip
             /\ g.cb # "end" => ~g.skip
<1>1. Top(o) \in Frame /\ Top(o).cb = "begin"
  BY TopFacts DEF BeginTransaction, At
<1>2. PICK t \in Tx : /\ txst[t] = "unused"
                      /\ txst' = [txst EXCEPT ![t] = "open"]
                      /\ txUnit' = [txUnit EXCEPT ![t] = Current(o)]
                      /\ SetTop(o, Advance([Top(o) EXCEPT !.handle = t, !.began = TRUE]))
  BY DEF BeginTransaction
<1> DEFINE h == [Top(o) EXCEPT !.handle = t, !.began = TRUE]
<1>3. /\ h \in Frame /\ h.cb = "begin" /\ h.handle = t /\ h.began
      /\ h.noTx = Top(o).noTx /\ h.chain = Top(o).chain
  BY <1>1 DEF Frame
<1>4. SetTop(o, Advance(h))
  BY <1>2
<1> HIDE DEF h
<1>5. h.cb \in Callbacks
  BY <1>3 DEF Callbacks
<1> DEFINE g == Advance(h)
<1>6. /\ g \in Frame
      /\ g.handle = t /\ g.began /\ g.noTx = Top(o).noTx /\ g.chain = Top(o).chain
      /\ g.cb \notin {"begin", "lookup", "link"}
      /\ g.cb = "end" => g.err \/ g.skip
      /\ g.cb # "end" => ~g.skip
  BY <1>3, <1>5, AdvanceFacts
<1>7. g.cb \in (Callbacks \ {"begin"}) \cup {"end"}
  BY <1>6 DEF Frame, Places
<1>8. SetTop(o, g)
  BY <1>4
<1> HIDE DEF g
<1>9. QED
  BY <1>2, <1>6, <1>7, <1>8

LEMMA BeginType ==
    ASSUME TypeOK, StackInv, NEW o \in Op, BeginTransaction(o)
    PROVE  TypeOK' /\ StackInv'
<1>1. PICK t \in Tx, g \in Frame : /\ txst' = [txst EXCEPT ![t] = "open"]
                                   /\ txUnit' = [txUnit EXCEPT ![t] = Current(o)]
                                   /\ SetTop(o, g)
  BY BeginFrame
<1>2. Busy(o) /\ UNCHANGED <<kind, depth, turn, st, failed, visible, pend>>
  BY DEF BeginTransaction, At, call, effects
<1>3. Current(o) \in Unit
  BY <1>2, CurrentFacts
<1>4. frame' \in [Op -> [1 .. MaxDepth -> Frame]]
  BY <1>1, <1>2, SetTopFacts
<1>5. TypeOK'
  BY <1>1, <1>2, <1>3, <1>4 DEF TypeOK
<1>6. StackInv'
  BY <1>1, <1>2, SetTopStack DEF StackInv
<1>7. QED
  BY <1>5, <1>6

LEMMA BeginFailsType ==
    ASSUME TypeOK, StackInv, NEW o \in Op, BeginFails(o)
    PROVE  TypeOK' /\ StackInv'
<1>1. Busy(o) /\ UNCHANGED <<call, failed, visible, txst, txUnit, pend>>
  BY DEF BeginFails, At, database
<1>2. \E g \in Frame : SetTop(o, g)
  BY BeginFailsMoves
<1>3. UNCHANGED <<call, txst, txUnit>>
  BY <1>1
<1>4. failed' \in [Unit -> BOOLEAN] /\ visible' \in [Unit -> BOOLEAN] /\ pend' \in [Tx -> BOOLEAN]
  BY <1>1 DEF TypeOK
<1>5. QED
  BY <1>1, <1>2, <1>3, <1>4, MoveType

\* A nested scope is pushed with the error its caller had; the caller counts it, and may
\* have failed to set a key on what a nested scope saves that has no error itself.
LEMMA OpenNestedFrame ==
    ASSUME TypeOK, NEW o \in Op, OpenNested(o)
    PROVE  \E p \in Frame, g \in Frame, err \in BOOLEAN :
             /\ frame' \in [Op -> [1 .. MaxDepth -> Frame]]
             /\ frame'[o][depth[o]] = p
             /\ frame'[o][depth[o] + 1] = g
             /\ \A d \in 1 .. MaxDepth : d \notin {depth[o], depth[o] + 1} => frame'[o][d] = frame[o][d]
             /\ \A q \in Op : q # o => frame'[q] = frame[q]
             /\ p.handle = Top(o).handle /\ p.began = Top(o).began /\ p.noTx = Top(o).noTx
             /\ p.chain = Top(o).chain /\ p.cb = Top(o).cb /\ p.skip = Top(o).skip /\ p.ret = Top(o).ret
             /\ (p.err <=> Top(o).err \/ err) /\ Failing(o, err)
             /\ err => p.cb = "saveAfter" /\ g.ret \in {"next", "stop"}
             /\ g.handle = Top(o).handle /\ ~g.began
             /\ g.err = Top(o).err /\ (g.err => g.cb = "end")
<1>1. /\ Busy(o) /\ Top(o).cb \in Loops /\ depth[o] < MaxDepth /\ Top(o).n < MaxNested
  BY DEF OpenNested
<1>2. Top(o) \in Frame /\ depth[o] \in 1 .. MaxDepth /\ depth[o] + 1 \in 1 .. MaxDepth
  BY <1>1, TopFacts, BoundAssumption
<1>3. PICK g \in NestedOf(Top(o)), err \in BOOLEAN :
            /\ err => SavedOnOldDB(Top(o), g)
            /\ frame' = [frame EXCEPT ![o][depth[o]] = [Top(o) EXCEPT !.n = @ + 1, !.err = @ \/ err],
                                      ![o][depth[o] + 1] = g]
            /\ Failing(o, err)
  BY DEF OpenNested, May
<1>4. /\ g \in Frame /\ g.handle = Top(o).handle /\ ~g.began
      /\ g.err = Top(o).err /\ (g.err => g.cb = "end")
  BY <1>1, <1>2, NestedFacts
<1>5. Top(o).n + 1 \in 0 .. MaxNested
  BY <1>1, <1>2, BoundAssumption DEF Frame
<1> DEFINE e == Top(o).err \/ err
           p == [Top(o) EXCEPT !.n = Top(o).n + 1, !.err = e]
           s == [[frame[o] EXCEPT ![depth[o]] = p] EXCEPT ![depth[o] + 1] = g]
<1>6. frame \in [Op -> [1 .. MaxDepth -> Frame]] /\ frame[o] \in [1 .. MaxDepth -> Frame]
  BY DEF TypeOK
<1>7. frame' = [frame EXCEPT ![o][depth[o]] = p, ![o][depth[o] + 1] = g]
  BY <1>3
<1>8. e \in BOOLEAN /\ (e <=> Top(o).err \/ err)
  OBVIOUS
<1> HIDE DEF e
<1>9. /\ p \in Frame
      /\ p.handle = Top(o).handle /\ p.began = Top(o).began /\ p.noTx = Top(o).noTx
      /\ p.chain = Top(o).chain /\ p.cb = Top(o).cb /\ p.skip = Top(o).skip /\ p.ret = Top(o).ret
      /\ p.err = e
  BY <1>2, <1>5, <1>8 DEF Frame
<1> HIDE DEF p
<1>10. frame' = [frame EXCEPT ![o] = s]
  BY <1>2, <1>6, <1>7
<1>11. /\ s \in [1 .. MaxDepth -> Frame]
       /\ s[depth[o]] = p
       /\ s[depth[o] + 1] = g
       /\ \A d \in 1 .. MaxDepth : d \notin {depth[o], depth[o] + 1} => s[d] = frame[o][d]
  BY <1>2, <1>4, <1>6, <1>9
<1> HIDE DEF s
<1>12. /\ frame' \in [Op -> [1 .. MaxDepth -> Frame]]
       /\ frame'[o] = s
       /\ \A q \in Op : q # o => frame'[q] = frame[q]
  BY <1>6, <1>10, <1>11
<1>13. err => p.cb = "saveAfter" /\ g.ret \in {"next", "stop"}
  BY <1>3, <1>9 DEF SavedOnOldDB
<1>14. p.err <=> Top(o).err \/ err
  BY <1>8, <1>9
<1>15. p \in Frame /\ g \in Frame /\ err \in BOOLEAN
  BY <1>4, <1>9
<1> USE <1>15
<1>16. WITNESS p \in Frame, g \in Frame, err \in BOOLEAN
<1>17. QED
  BY <1>3, <1>4, <1>9, <1>11, <1>12, <1>13, <1>14

LEMMA OpenNestedType ==
    ASSUME TypeOK, StackInv, NEW o \in Op, OpenNested(o)
    PROVE  TypeOK' /\ StackInv'
<1>1. /\ Busy(o) /\ Top(o).cb \in Loops /\ depth[o] < MaxDepth
      /\ depth' = [depth EXCEPT ![o] = @ + 1]
      /\ UNCHANGED <<kind, turn, st, visible, txst, txUnit, pend>>
  BY DEF OpenNested, database
<1>2. depth \in [Op -> 0 .. MaxDepth] /\ MaxDepth \in Nat
  BY BoundAssumption DEF TypeOK
<1>3. depth' \in [Op -> 0 .. MaxDepth]
  BY <1>1, <1>2
<1>4. frame' \in [Op -> [1 .. MaxDepth -> Frame]] /\ failed' \in [Unit -> BOOLEAN]
  BY OpenNestedFrame, FailingType
<1>5. TypeOK'
  BY <1>1, <1>3, <1>4 DEF TypeOK
<1>6. StackInv'
  <2>1. SUFFICES ASSUME NEW q \in Op, Busy(q)'
                 PROVE  turn'[q] > 0 /\ \A d \in 1 .. depth'[q] - 1 : frame'[q][d].cb \in Loops
    BY DEF StackInv
  <2>2. CASE q = o
    <3>1. turn'[q] > 0
      BY <1>1, <2>2 DEF StackInv
    <3>2. depth'[q] = depth[o] + 1 /\ depth[o] \in Nat
      BY <1>1, <1>2, <2>2
    <3>3. frame'[o][depth[o]].cb \in Loops
      BY <1>1, OpenNestedFrame
    <3>4. ASSUME NEW d \in 1 .. depth[o] - 1
          PROVE  frame'[o][d].cb \in Loops
      <4>1. d \in 1 .. MaxDepth /\ d \notin {depth[o], depth[o] + 1}
        BY <1>2, <3>2
      <4>2. frame'[o][d] = frame[o][d]
        BY <4>1, OpenNestedFrame
      <4>3. QED
        BY <1>1, <4>2 DEF StackInv
    <3>5. QED
      BY <2>2, <3>1, <3>2, <3>3, <3>4
  <2>3. CASE q # o
    <3>1. depth'[q] = depth[q]
      BY <1>1, <1>2, <2>3
    <3>2. frame'[q] = frame[q]
      BY <2>3, OpenNestedFrame
    <3>3. QED
      BY <1>1, <2>1, <3>1, <3>2 DEF StackInv, Busy
  <2>4. QED
    BY <2>2, <2>3
<1>7. QED
  BY <1>5, <1>6

\* The scope whose chain finishes: without a transaction, or having ended it.
LEMMA EndFrame ==
    ASSUME TypeOK, NEW o \in Op, EndTransaction(o)
    PROVE  \/ /\ ~Top(o).began
              /\ \E g \in Frame : SetTop(o, g) /\ Moved(Top(o), g)
              /\ UNCHANGED <<txst, visible, pend, failed>>
           \/ /\ Top(o).began
              /\ \E fails \in BOOLEAN, g \in Frame :
                    LET t == Top(o).handle
                        commits == ~Top(o).err /\ ~fails
                    IN  /\ txst' = [txst EXCEPT ![t] = IF commits THEN "committed" ELSE "rolledback"]
                        /\ visible' = [visible EXCEPT ![Current(o)] = @ \/ (commits /\ pend[t])]
                        /\ pend' = [pend EXCEPT ![t] = @ /\ ~commits]
                        /\ Failing(o, fails)
                        /\ SetTop(o, g)
                        /\ g.handle = Pool /\ g.noTx = Top(o).noTx /\ g.chain = Top(o).chain
                        /\ g.skip = Top(o).skip /\ g.cb = "end"
                        /\ g.err = (Top(o).err \/ fails)
<1>1. Top(o) \in Frame /\ Top(o).cb = "finish"
  BY TopFacts DEF EndTransaction, At
<1>2. Top(o).cb \in Callbacks
  BY <1>1 DEF Callbacks
<1>3. CASE ~Top(o).began
  BY <1>1, <1>2, <1>3, AdvanceMoves DEF EndTransaction
<1>4. CASE Top(o).began
  <2>1. PICK fails \in BOOLEAN :
              LET t == Top(o).handle
                  commits == ~Top(o).err /\ ~fails
              IN  /\ txst' = [txst EXCEPT ![t] = IF commits THEN "committed" ELSE "rolledback"]
                  /\ visible' = [visible EXCEPT ![Current(o)] = @ \/ (commits /\ pend[t])]
                  /\ pend' = [pend EXCEPT ![t] = @ /\ ~commits]
                  /\ SetTop(o, Advance([Top(o) EXCEPT !.err = @ \/ fails, !.handle = Pool]))
                  /\ Failing(o, fails)
    BY <1>4 DEF EndTransaction, May
  <2> DEFINE e == Top(o).err \/ fails
             h == [Top(o) EXCEPT !.err = e, !.handle = Pool]
             g == Advance(h)
  <2>2. e \in BOOLEAN
    OBVIOUS
  <2>3. SetTop(o, g)
    BY <2>1
  <2>4. e = (Top(o).err \/ fails)
    OBVIOUS
  <2> HIDE DEF e
  <2>5. /\ h \in Frame /\ h.cb = "finish" /\ h.handle = Pool /\ h.err = e
        /\ h.noTx = Top(o).noTx /\ h.chain = Top(o).chain /\ h.skip = Top(o).skip
    BY <1>1, <2>2 DEF Frame
  <2> HIDE DEF h
  <2>6. h.cb \in Callbacks
    BY <2>5 DEF Callbacks
  <2>7. g.cb = "end"
    BY <2>5 DEF Advance, NextCallback, Frame
  <2>8. /\ g \in Frame /\ g.handle = Pool /\ g.noTx = Top(o).noTx /\ g.chain = Top(o).chain
        /\ g.skip = Top(o).skip /\ g.err = e
    BY <2>5, <2>6, AdvanceFacts
  <2> HIDE DEF g
  <2>9. QED
    BY <1>4, <2>1, <2>3, <2>4, <2>7, <2>8
<1>5. QED
  BY <1>3, <1>4

LEMMA EndType ==
    ASSUME TypeOK, StackInv, NEW o \in Op, EndTransaction(o)
    PROVE  TypeOK' /\ StackInv'
<1>1. Busy(o) /\ UNCHANGED <<kind, depth, turn, st, txUnit>>
  BY DEF EndTransaction, At, call
<1>2. PICK g \in Frame : SetTop(o, g)
  BY EndFrame
<1>3. frame' \in [Op -> [1 .. MaxDepth -> Frame]]
  BY <1>1, <1>2, SetTopFacts
<1>4. StackInv'
  BY <1>1, <1>2, SetTopStack DEF StackInv
<1>5. /\ txst' \in [Tx -> {"unused", "open", "committed", "rolledback"}]
      /\ visible' \in [Unit -> BOOLEAN]
      /\ pend' \in [Tx -> BOOLEAN]
      /\ failed' \in [Unit -> BOOLEAN]
  <2>1. CASE UNCHANGED <<txst, visible, pend, failed>>
    BY <2>1 DEF TypeOK
  <2>2. ASSUME NEW fails \in BOOLEAN, NEW commits \in BOOLEAN, NEW t,
               txst' = [txst EXCEPT ![t] = IF commits THEN "committed" ELSE "rolledback"],
               visible' = [visible EXCEPT ![Current(o)] = @ \/ (commits /\ pend[t])],
               pend' = [pend EXCEPT ![t] = @ /\ ~commits],
               Failing(o, fails)
        PROVE  /\ txst' \in [Tx -> {"unused", "open", "committed", "rolledback"}]
               /\ visible' \in [Unit -> BOOLEAN]
               /\ pend' \in [Tx -> BOOLEAN]
               /\ failed' \in [Unit -> BOOLEAN]
    <3>1. failed' \in [Unit -> BOOLEAN]
      BY <2>2, FailingType
    <3>2. txst' \in [Tx -> {"unused", "open", "committed", "rolledback"}]
      BY <2>2 DEF TypeOK
    <3>3. visible' \in [Unit -> BOOLEAN]
      <4>1. (visible[Current(o)] \/ (commits /\ pend[t])) \in BOOLEAN
        OBVIOUS
      <4>2. QED
        BY <2>2, <4>1 DEF TypeOK
    <3>4. pend' \in [Tx -> BOOLEAN]
      <4>1. (pend[t] /\ ~commits) \in BOOLEAN
        OBVIOUS
      <4>2. QED
        BY <2>2, <4>1 DEF TypeOK
    <3>5. QED
      BY <3>1, <3>2, <3>3, <3>4
  <2>3. CASE ~UNCHANGED <<txst, visible, pend, failed>>
    <3> DEFINE t == Top(o).handle
               commits(fails) == ~Top(o).err /\ ~fails
    <3>1. PICK fails \in BOOLEAN :
            /\ txst' = [txst EXCEPT ![t] = IF commits(fails) THEN "committed" ELSE "rolledback"]
            /\ visible' = [visible EXCEPT ![Current(o)] = @ \/ (commits(fails) /\ pend[t])]
            /\ pend' = [pend EXCEPT ![t] = @ /\ ~commits(fails)]
            /\ Failing(o, fails)
      BY <2>3, EndFrame
    <3>2. commits(fails) \in BOOLEAN
      OBVIOUS
    <3> HIDE DEF commits, t
    <3>3. QED
      BY <2>2, <3>1, <3>2
  <2>4. QED
    BY <2>1, <2>3
<1>6. TypeOK'
  BY <1>1, <1>3, <1>5 DEF TypeOK
<1>7. QED
  BY <1>4, <1>6

\* A fallback replaces the innermost scope by one on the DB it was opened on, without an
\* error.
LEMMA FallBackFrame ==
    ASSUME TypeOK, NEW o \in Op, FallBack(o)
    PROVE  \E g \in Frame : /\ SetTop(o, g)
                            /\ g.handle = Base(o).handle /\ g.cb = "lookup"
                            /\ g.noTx = Top(o).noTx /\ g.chain = "create"
                            /\ ~g.err /\ g.ret = Top(o).ret /\ ~g.began /\ ~g.skip
<1> DEFINE base == [Base(o) EXCEPT !.err = FALSE]
           f == Top(o)
           g == [NewScope("create", base, f.noTx, f.mode, f.ret) EXCEPT !.cb = "lookup"]
<1>1. f \in Frame /\ base \in Frame /\ base.handle = Base(o).handle /\ ~base.err
  <2>1. f \in Frame /\ Base(o) \in Frame
    BY TopFacts DEF FallBack, At
  <2>2. QED
    BY <2>1 DEF Frame
<1>2. SetTop(o, g)
  BY DEF FallBack
<1> HIDE DEF base, f
<1>3. /\ g \in Frame /\ g.handle = base.handle /\ g.cb = "lookup" /\ g.noTx = f.noTx
      /\ g.chain = "create" /\ g.err = base.err /\ g.ret = f.ret /\ ~g.began /\ ~g.skip
  <2>1. f.noTx \in BOOLEAN /\ f.mode \in {"plain", "save", "child"} /\ f.ret \in Returns
    BY <1>1 DEF Frame
  <2>2. FirstCallback(base.err) \in Places /\ 0 \in 0 .. MaxNested /\ base.err \in BOOLEAN
        /\ base.handle \in Tx \cup {Pool} /\ base.rows \in 0 .. 2
    BY <1>1, DbFacts
  <2>3. "create" \in Chains /\ "lookup" \in Places
    BY DEF Chains, Places, Callbacks
  <2> DEFINE s == NewScope("create", base, f.noTx, f.mode, f.ret)
  <2>4. /\ s \in Frame /\ s.handle = base.handle /\ s.noTx = f.noTx
        /\ s.chain = "create" /\ s.err = base.err /\ s.ret = f.ret /\ ~s.began /\ ~s.skip
    BY <2>1, <2>2, <2>3 DEF NewScope, Frame
  <2>5. g = [s EXCEPT !.cb = "lookup"]
    OBVIOUS
  <2> HIDE DEF s, g
  <2>6. QED
    BY <2>3, <2>4, <2>5 DEF Frame
<1> HIDE DEF g
<1>4. QED
  BY <1>1, <1>2, <1>3 DEF f

LEMMA FallBackType ==
    ASSUME TypeOK, StackInv, NEW o \in Op, FallBack(o)
    PROVE  TypeOK' /\ StackInv'
<1>1. Busy(o) /\ UNCHANGED <<kind, depth, failed, visible, txst, txUnit, pend>>
  BY DEF FallBack, At, database
<1>2. PICK g \in Frame : SetTop(o, g)
  BY FallBackFrame
<1>3. frame' \in [Op -> [1 .. MaxDepth -> Frame]]
  BY <1>1, <1>2, SetTopFacts
<1>4. Verdict(Top(o)) \in {"failed", "skipped", "ok"}
  BY DEF Verdict
<1>5. /\ turn' \in [Op -> 0 .. 2]
      /\ st' \in [Unit -> {"idle", "running", "ok", "skipped", "failed"}]
      /\ \A p \in Op : Busy(p) => turn'[p] > 0
  <2>1. CASE turn' = turn /\ st' = st
    BY <2>1 DEF TypeOK, StackInv
  <2>2. CASE turn' = [turn EXCEPT ![o] = 2] /\ st' = [st EXCEPT ![Current(o)] = Verdict(Top(o))]
    <3>1. st' \in [Unit -> {"idle", "running", "ok", "skipped", "failed"}]
      BY <2>2, <1>4 DEF TypeOK
    <3>2. turn' \in [Op -> 0 .. 2] /\ \A p \in Op : turn'[p] = IF p = o THEN 2 ELSE turn[p]
      BY <2>2 DEF TypeOK
    <3>3. QED
      BY <3>1, <3>2 DEF StackInv
  <2>3. QED
    BY <2>1, <2>2 DEF FallBack
<1>6. StackInv'
  BY <1>1, <1>2, <1>5, SetTopStack
<1>7. QED
  BY <1>1, <1>3, <1>5, <1>6 DEF TypeOK

\* The lookup of a fallback is followed by the create or by the scope's end.
LEMMA LookupFrame ==
    ASSUME TypeOK, NEW o \in Op, Lookup(o)
    PROVE  \E g \in Frame : /\ SetTop(o, g)
                            /\ g.handle = Top(o).handle /\ g.began = Top(o).began
                            /\ g.noTx = Top(o).noTx /\ g.chain = Top(o).chain
                            /\ g.skip = Top(o).skip
                            /\ g.cb \in {"begin", "end"}
<1>1. Top(o) \in Frame
  BY TopFacts DEF Lookup, At
<1> DEFINE f == [Top(o) EXCEPT !.mode = "plain"]
           r == IF Top(o).mode = "child" THEN "next" ELSE f.ret
<1>2. /\ f \in Frame /\ f.handle = Top(o).handle /\ f.began = Top(o).began
      /\ f.noTx = Top(o).noTx /\ f.chain = Top(o).chain /\ f.skip = Top(o).skip
  BY <1>1 DEF Frame
<1>3. \/ SetTop(o, [f EXCEPT !.cb = "end"])
      \/ SetTop(o, [f EXCEPT !.cb = "begin"])
      \/ SetTop(o, [f EXCEPT !.cb = "end", !.err = TRUE, !.ret = r])
  BY DEF Lookup
<1>4. r \in Returns
  BY <1>2 DEF Frame, Returns
<1> HIDE DEF f, r
<1>5. /\ [f EXCEPT !.cb = "end"] \in Frame
      /\ [f EXCEPT !.cb = "begin"] \in Frame
      /\ [f EXCEPT !.cb = "end", !.err = TRUE, !.ret = r] \in Frame
  BY <1>2, <1>4 DEF Frame, Places, Callbacks
<1>6. ASSUME NEW g \in Frame, SetTop(o, g),
             \/ g = [f EXCEPT !.cb = "end"]
             \/ g = [f EXCEPT !.cb = "begin"]
             \/ g = [f EXCEPT !.cb = "end", !.err = TRUE, !.ret = r]
      PROVE  /\ g.handle = Top(o).handle /\ g.began = Top(o).began
             /\ g.noTx = Top(o).noTx /\ g.chain = Top(o).chain /\ g.skip = Top(o).skip
             /\ g.cb \in {"begin", "end"}
  BY <1>2, <1>6 DEF Frame
<1>7. QED
  BY <1>3, <1>5, <1>6

LEMMA LookupType ==
    ASSUME TypeOK, StackInv, NEW o \in Op, Lookup(o)
    PROVE  TypeOK' /\ StackInv'
<1>1. Busy(o) /\ UNCHANGED <<kind, depth, turn, visible, txst, txUnit, pend>>
  BY DEF Lookup, At, database
<1>2. PICK g \in Frame : SetTop(o, g)
  BY LookupFrame
<1>3. frame' \in [Op -> [1 .. MaxDepth -> Frame]]
  BY <1>1, <1>2, SetTopFacts
<1>4. StackInv'
  BY <1>1, <1>2, SetTopStack DEF StackInv
<1>5. st' \in [Unit -> {"idle", "running", "ok", "skipped", "failed"}]
  BY DEF Lookup, TypeOK
<1>6. failed' \in [Unit -> BOOLEAN]
  <2>1. failed' = failed \/ Failing(o, TRUE)
    BY DEF Lookup
  <2>2. QED
    BY <2>1, FailingType DEF TypeOK
<1>7. QED
  BY <1>1, <1>3, <1>4, <1>5, <1>6 DEF TypeOK

\* The outer scope goes on in its loop, adds a join row, or is broken off.
LEMMA ReturnNestedFrame ==
    ASSUME TypeOK, StackInv, NEW o \in Op, ReturnNested(o)
    PROVE  \E p \in Frame :
             /\ frame' \in [Op -> [1 .. MaxDepth -> Frame]]
             /\ frame'[o][depth[o] - 1] = p
             /\ frame'[o][depth[o]] = NoFrame
             /\ \A d \in 1 .. MaxDepth : d \notin {depth[o] - 1, depth[o]} => frame'[o][d] = frame[o][d]
             /\ \A q \in Op : q # o => frame'[q] = frame[q]
             /\ p.handle = Base(o).handle /\ p.began = Base(o).began /\ p.noTx = Base(o).noTx
             /\ p.chain = Base(o).chain /\ p.skip = Base(o).skip /\ p.ret = Base(o).ret
             /\ p.cb \in Loops \cup {"link", "end"}
             /\ p.cb = "end" => p.err
             /\ p.err = (Base(o).err \/ Top(o).err)
<1>1. Busy(o) /\ depth[o] > 1
  BY DEF ReturnNested, At
<1>2. /\ Top(o) \in Frame /\ depth[o] \in 1 .. MaxDepth /\ depth[o] - 1 \in 1 .. MaxDepth
      /\ depth[o] - 1 # depth[o]
  BY <1>1, TopFacts, BoundAssumption
<1>3. Base(o) = frame[o][depth[o] - 1] /\ Base(o) \in Frame
  BY <1>1, TopFacts DEF Base
<1>4. Base(o).cb \in Loops
  BY <1>1, <1>2, <1>3 DEF StackInv
<1>5. PICK linked \in BOOLEAN :
         frame' = [frame EXCEPT ![o][depth[o] - 1] = Resume(@, Top(o), linked),
                                ![o][depth[o]] = NoFrame]
  BY DEF ReturnNested
<1> DEFINE p == Resume(Base(o), Top(o), linked)
           s == [[frame[o] EXCEPT ![depth[o] - 1] = p] EXCEPT ![depth[o]] = NoFrame]
<1>6. /\ p \in Frame
      /\ p.handle = Base(o).handle /\ p.began = Base(o).began /\ p.noTx = Base(o).noTx
      /\ p.chain = Base(o).chain /\ p.skip = Base(o).skip /\ p.ret = Base(o).ret
      /\ p.cb \in Loops \cup {"link", "end"}
      /\ p.cb = "end" => p.err
      /\ p.err = (Base(o).err \/ Top(o).err)
  <2>1. Base(o) \in Frame /\ Top(o) \in Frame /\ linked \in BOOLEAN /\ Base(o).cb \in Loops
    BY <1>2, <1>3, <1>4
  <2>2. QED
    BY ONLY <2>1, ResumeFacts, SMTT(60)
<1>7. frame \in [Op -> [1 .. MaxDepth -> Frame]] /\ frame[o] \in [1 .. MaxDepth -> Frame]
  BY DEF TypeOK
<1>8. frame' = [frame EXCEPT ![o] = s]
  BY <1>2, <1>3, <1>5, <1>7
<1> HIDE DEF p
<1>9. /\ s \in [1 .. MaxDepth -> Frame]
      /\ s[depth[o] - 1] = p
      /\ s[depth[o]] = NoFrame
      /\ \A d \in 1 .. MaxDepth : d \notin {depth[o] - 1, depth[o]} => s[d] = frame[o][d]
  BY <1>2, <1>6, <1>7, NoFrameType
<1> HIDE DEF s
<1>10. /\ frame' \in [Op -> [1 .. MaxDepth -> Frame]]
       /\ frame'[o] = s
       /\ \A q \in Op : q # o => frame'[q] = frame[q]
  BY <1>7, <1>8, <1>9
<1>11. QED
  BY <1>6, <1>9, <1>10

LEMMA ReturnNestedType ==
    ASSUME TypeOK, StackInv, NEW o \in Op, ReturnNested(o)
    PROVE  TypeOK' /\ StackInv'
<1>1. /\ Busy(o) /\ depth[o] > 1
      /\ depth' = [depth EXCEPT ![o] = @ - 1]
      /\ UNCHANGED <<kind, turn, st, failed, visible, txst, txUnit, pend>>
  BY DEF ReturnNested, At, database
<1>2. depth \in [Op -> 0 .. MaxDepth] /\ MaxDepth \in Nat
  BY BoundAssumption DEF TypeOK
<1>3. depth' \in [Op -> 0 .. MaxDepth]
  BY <1>1, <1>2
<1>4. frame' \in [Op -> [1 .. MaxDepth -> Frame]]
  BY ReturnNestedFrame
<1>5. TypeOK'
  BY <1>1, <1>3, <1>4 DEF TypeOK
<1>6. StackInv'
  <2>1. SUFFICES ASSUME NEW q \in Op, Busy(q)'
                 PROVE  turn'[q] > 0 /\ \A d \in 1 .. depth'[q] - 1 : frame'[q][d].cb \in Loops
    BY DEF StackInv
  <2>2. CASE q = o
    <3>1. turn'[q] > 0
      BY <1>1, <2>2 DEF StackInv
    <3>2. depth'[q] = depth[o] - 1 /\ depth[o] \in Nat
      BY <1>1, <1>2, <2>2
    <3>3. ASSUME NEW d \in 1 .. depth[o] - 2
          PROVE  frame'[o][d].cb \in Loops
      <4>1. d \in 1 .. MaxDepth /\ d \notin {depth[o] - 1, depth[o]} /\ d \in 1 .. depth[o] - 1
        BY <1>2, <3>2
      <4>2. frame'[o][d] = frame[o][d]
        BY <4>1, ReturnNestedFrame
      <4>3. QED
        BY <1>1, <4>1, <4>2 DEF StackInv
    <3>4. QED
      BY <2>2, <3>1, <3>2, <3>3
  <2>3. CASE q # o
    <3>1. depth'[q] = depth[q]
      BY <1>1, <1>2, <2>3
    <3>2. frame'[q] = frame[q]
      BY <2>3, ReturnNestedFrame
    <3>3. QED
      BY <1>1, <2>1, <3>1, <3>2 DEF StackInv, Busy
  <2>4. QED
    BY <2>2, <2>3
<1>7. QED
  BY <1>5, <1>6

LEMMA ReturnToCallerType ==
    ASSUME TypeOK, StackInv, NEW o \in Op, ReturnToCaller(o)
    PROVE  TypeOK' /\ StackInv'
<1>1. /\ Busy(o) /\ depth[o] = 1 /\ depth' = [depth EXCEPT ![o] = 0] /\ SetTop(o, NoFrame)
      /\ st' = [st EXCEPT ![Current(o)] = Verdict(Top(o))]
      /\ UNCHANGED <<kind, turn, failed, visible, txst, txUnit, pend>>
  BY DEF ReturnToCaller, At, database
<1>2. /\ frame' \in [Op -> [1 .. MaxDepth -> Frame]]
      /\ \A p \in Op : p # o => frame'[p] = frame[p]
  BY <1>1, NoFrameType, SetTopFacts
<1>3. st' \in [Unit -> {"idle", "running", "ok", "skipped", "failed"}]
  <2>1. Verdict(Top(o)) \in {"failed", "skipped", "ok"}
    BY DEF Verdict
  <2>2. QED
    BY <1>1, <2>1 DEF TypeOK
<1>4. depth' \in [Op -> 0 .. MaxDepth] /\ \A p \in Op : depth'[p] = IF p = o THEN 0 ELSE depth[p]
  BY <1>1, BoundAssumption DEF TypeOK
<1>5. TypeOK'
  BY <1>1, <1>2, <1>3, <1>4 DEF TypeOK
<1>6. StackInv'
  BY <1>1, <1>2, <1>4 DEF StackInv, Busy
<1>7. QED
  BY <1>5, <1>6

LEMMA TypeInit == Init => TypeOK /\ StackInv
<1> SUFFICES ASSUME Init PROVE TypeOK /\ StackInv
  OBVIOUS
<1>1. frame \in [Op -> [1 .. MaxDepth -> Frame]]
  BY NoFrameType DEF Init
<1>2. depth \in [Op -> 0 .. MaxDepth] /\ kind \in [Op -> AllKinds] /\ turn \in [Op -> 0 .. 2]
  BY BoundAssumption DEF Init, AllKinds
<1>3. TypeOK
  BY <1>1, <1>2 DEF Init, TypeOK
<1>4. StackInv
  BY DEF Init, StackInv, Busy
<1>5. QED
  BY <1>3, <1>4

LEMMA TypeStep == TypeOK /\ StackInv /\ [Next]_vars => TypeOK' /\ StackInv'
<1> SUFFICES ASSUME TypeOK, StackInv, [Next]_vars PROVE TypeOK' /\ StackInv'
  OBVIOUS
<1>1. CASE UNCHANGED vars
  BY <1>1 DEF vars, TypeOK, StackInv, Busy
<1>2. ASSUME NEW o \in Op, Call(o) \/ Step(o) PROVE TypeOK' /\ StackInv'
  BY <1>2, CallType, PlainType, BeginType, BeginFailsType, OpenNestedType, EndType,
     FallBackType, LookupType, ReturnNestedType, ReturnToCallerType DEF Step, Plain
<1>3. QED
  BY <1>1, <1>2 DEF Next

\* Type correctness: whatever the number of calls, transactions, connections and
\* nested scopes and whatever fails, every variable keeps its type.
THEOREM TypeCorrect == Spec => []TypeOK
<1>1. Spec => [](TypeOK /\ StackInv)
  BY TypeInit, TypeStep, PTL DEF Spec
<1>2. QED
  BY <1>1, PTL
-----------------------------------------------------------------------------
(* With every fault: the invariant ErrInv *)

\* The d-th scope waits for a nested one: having an error it waits for one that was opened
\* with it and returns at once, or for the Save of a has_many element.
Waits(o, d) == \/ d + 1 = depth[o] /\ Top(o).err /\ Top(o).cb = "end"
               \/ frame[o][d].cb = "saveAfter" /\ frame[o][d + 1].ret \in {"next", "stop"}

\* A failure of the unit is the error of one of its scopes; the innermost scope goes on with
\* no callback when it has one, and those below it only wait.
ErrFacts(o) ==
    Busy(o) => /\ st[Current(o)] \in {"idle", "running"}
               /\ failed[Current(o)] => \E d \in 1 .. depth[o] : frame[o][d].err
               /\ Top(o).err => Top(o).cb \in Loops \cup {"link", "end"}
               /\ \A d \in 1 .. depth[o] - 1 : frame[o][d].err => Waits(o, d)
               /\ turn[o] = 2 => frame[o][1].chain = "create"

\* A unit that has not begun has not failed, nor has one that was successful.
LostFacts(o) ==
    \A k \in {1, 2} : /\ k > turn[o] => ~failed[<<o, k>>] /\ st[<<o, k>>] = "idle"
                      /\ st[<<o, k>>] \in {"ok", "skipped"} => ~failed[<<o, k>>]

ErrInv == TypeOK /\ StackInv /\ \A o \in Op : ErrFacts(o) /\ LostFacts(o)
-----------------------------------------------------------------------------
(* Steps that replace the innermost scope *)

\* What a goroutine does to its own frames leaves the facts of the others alone.
LEMMA OthersKeepErr ==
    ASSUME NEW p \in Op, ErrFacts(p), LostFacts(p), frame'[p] = frame[p], depth'[p] = depth[p],
           turn'[p] = turn[p],
           \A k \in {1, 2} : st'[<<p, k>>] = st[<<p, k>>] /\ failed'[<<p, k>>] = failed[<<p, k>>],
           Busy(p) => turn[p] \in {1, 2}
    PROVE  ErrFacts(p)' /\ LostFacts(p)'
<1>1. Busy(p)' = Busy(p) /\ Top(p)' = Top(p) /\ Current(p)' = Current(p) /\ Current(p) = <<p, turn[p]>>
  BY DEF Busy, Top, Current
<1>2. LostFacts(p)'
  BY DEF LostFacts
<1>3. ErrFacts(p)'
  BY <1>1 DEF ErrFacts, Waits
<1>4. QED
  BY <1>2, <1>3

LEMMA FailingFacts ==
    ASSUME TypeOK, StackInv, NEW o \in Op, Busy(o), NEW e \in BOOLEAN, Failing(o, e)
    PROVE  /\ failed'[Current(o)] => failed[Current(o)] \/ e
           /\ \A u \in Unit : u # Current(o) => failed'[u] = failed[u]
  BY CurrentFacts DEF Failing, TypeOK

\* The innermost scope of o becomes g, which keeps its error and with an error goes on with no
\* callback; what has failed is on g's error.
Onwards(o, g) ==
    /\ SetTop(o, g)
    /\ Top(o).err => g.err /\ Top(o).cb # "end"
    /\ g.ret \in {Top(o).ret, "next"}
    /\ g.err => g.cb \in Loops \cup {"link", "end"}
    /\ depth[o] = 1 => g.chain = Top(o).chain \/ g.chain = "create"
    /\ failed'[Current(o)] => failed[Current(o)] \/ g.err
    /\ \A u \in Unit : u # Current(o) => failed'[u] = failed[u]

LEMMA OnwardsInv ==
    ASSUME ErrInv, TypeOK', StackInv', NEW o \in Op, Busy(o), NEW g \in Frame, Onwards(o, g),
           UNCHANGED <<depth, turn>>,
           st'[Current(o)] \in {"idle", "running"},
           \A u \in Unit : u # Current(o) => st'[u] = st[u]
    PROVE  ErrInv'
<1>1. /\ depth[o] \in 1 .. MaxDepth /\ turn[o] \in {1, 2}
      /\ Current(o) = <<o, turn[o]>> /\ Current(o) \in Unit
      /\ Current(o)' = Current(o) /\ Busy(o)' /\ Top(o) = frame[o][depth[o]]
  BY TopFacts, CurrentFacts DEF ErrInv, Current, Busy, Top
<1>2. /\ frame'[o][depth[o]] = g
      /\ \A d \in 1 .. MaxDepth : d # depth[o] => frame'[o][d] = frame[o][d]
      /\ \A p \in Op : p # o => frame'[p] = frame[p]
  BY SetTopFacts DEF ErrInv, Onwards
<1>3. Top(o)' = g
  BY <1>2 DEF Top
<1>4. ErrFacts(o) /\ LostFacts(o)
  BY DEF ErrInv
<1>5. ErrFacts(o)'
  <2>1. failed'[Current(o)] => \E d \in 1 .. depth[o] : frame'[o][d].err
    <3>1. g.err => \E d \in 1 .. depth[o] : frame'[o][d].err
      BY <1>1, <1>2
    <3>2. ASSUME failed[Current(o)] PROVE \E d \in 1 .. depth[o] : frame'[o][d].err
      <4>1. PICK d \in 1 .. depth[o] : frame[o][d].err
        BY <1>1, <1>4, <3>2 DEF ErrFacts
      <4>2. d \in 1 .. MaxDepth
        BY <1>1, BoundAssumption
      <4>3. CASE d = depth[o]
        BY <1>1, <3>1, <4>1, <4>3 DEF Onwards
      <4>4. CASE d # depth[o]
        BY <1>2, <4>1, <4>2, <4>4
      <4>5. QED
        BY <4>3, <4>4
    <3>3. QED
      BY <3>1, <3>2 DEF Onwards
  <2>2. \A d \in 1 .. depth[o] - 1 : frame'[o][d].err => Waits(o, d)'
    <3> SUFFICES ASSUME NEW d \in 1 .. depth[o] - 1, frame'[o][d].err PROVE Waits(o, d)'
      OBVIOUS
    <3>1. d \in 1 .. MaxDepth /\ d # depth[o] /\ d + 1 \in 1 .. MaxDepth
      BY <1>1, BoundAssumption
    <3>2. frame'[o][d] = frame[o][d] /\ Waits(o, d)
      BY <1>1, <1>2, <1>4, <3>1 DEF ErrFacts
    <3>3. frame[o][d].cb = "saveAfter" /\ frame[o][d + 1].ret \in {"next", "stop"}
      BY <3>2 DEF Waits, Onwards
    <3>4. CASE d + 1 = depth[o]
      BY <1>1, <1>2, <3>2, <3>3, <3>4 DEF Waits, Onwards
    <3>5. CASE d + 1 # depth[o]
      BY <1>2, <3>1, <3>2, <3>3, <3>5 DEF Waits
    <3>6. QED
      BY <3>4, <3>5
  <2>3. turn[o] = 2 => frame'[o][1].chain = "create"
    <3>1. CASE depth[o] = 1
      BY <1>1, <1>2, <1>4, <3>1 DEF ErrFacts, Onwards
    <3>2. CASE depth[o] # 1
      <4>1. 1 \in 1 .. MaxDepth
        BY BoundAssumption
      <4>2. frame'[o][1] = frame[o][1]
        BY <1>2, <3>2, <4>1
      <4>3. QED
        BY <1>4, <4>2 DEF ErrFacts
    <3>3. QED
      BY <3>1, <3>2
  <2>4. QED
    BY <1>1, <1>3, <2>1, <2>2, <2>3 DEF ErrFacts, Onwards
<1>6. LostFacts(o)'
  <2> SUFFICES ASSUME NEW k \in {1, 2}
               PROVE  /\ k > turn[o] => ~failed'[<<o, k>>] /\ st'[<<o, k>>] = "idle"
                      /\ st'[<<o, k>>] \in {"ok", "skipped"} => ~failed'[<<o, k>>]
    BY DEF LostFacts
  <2>1. CASE k = turn[o]
    BY <1>1, <2>1
  <2>2. CASE k # turn[o]
    <3>1. <<o, k>> \in Unit /\ <<o, k>> # Current(o)
      BY <1>1, <2>2 DEF Unit
    <3>2. QED
      BY <1>4, <3>1 DEF LostFacts, Onwards
  <2>3. QED
    BY <2>1, <2>2
<1>7. ASSUME NEW p \in Op, p # o PROVE ErrFacts(p)' /\ LostFacts(p)'
  <2>1. \A k \in {1, 2} : <<p, k>> \in Unit /\ <<p, k>> # Current(o)
    BY <1>1, <1>7 DEF Unit
  <2>2. \A k \in {1, 2} : st'[<<p, k>>] = st[<<p, k>>] /\ failed'[<<p, k>>] = failed[<<p, k>>]
    BY <2>1 DEF Onwards
  <2>3. QED
    BY <1>2, <1>7, <2>2, CurrentFacts, OthersKeepErr DEF ErrInv
<1>8. QED
  BY <1>5, <1>6, <1>7 DEF ErrInv
-----------------------------------------------------------------------------
(* The callbacks of one scope *)

\* At a callback that is no loop the scope has no error.
LEMMA NoErrorAt ==
    ASSUME ErrInv, NEW o \in Op, Busy(o), Top(o).cb \notin Loops \cup {"link", "end"}
    PROVE  ~Top(o).err
  BY DEF ErrInv, ErrFacts

\* A scope whose callback has run goes on, or is broken off by its error.
LEMMA AdvanceOnwards ==
    ASSUME TypeOK, StackInv, NEW o \in Op, Busy(o), NEW h \in Frame, h.cb \in Callbacks,
           SetTop(o, Advance(h)), Top(o).err => h.err, h.chain = Top(o).chain, h.ret = Top(o).ret,
           Top(o).cb \in Callbacks,
           failed'[Current(o)] => failed[Current(o)] \/ h.err,
           \A u \in Unit : u # Current(o) => failed'[u] = failed[u]
    PROVE  \E g \in Frame : Onwards(o, g)
<1>1. Advance(h) \in Frame /\ Onwards(o, Advance(h))
  BY AdvanceFacts DEF Onwards, Callbacks, Loops
<1>2. QED
  BY <1>1

LEMMA NoTransactionOnwards ==
    ASSUME ErrInv, NEW o \in Op, NoTransaction(o) \/ BeginFails(o) \/ NoColumns(o) \/ LeaveLoop(o)
    PROVE  \E g \in Frame : Onwards(o, g)
<1>1. /\ Busy(o) /\ Top(o) \in Frame /\ Top(o).cb \in Callbacks
      /\ SetTop(o, Advance(Top(o))) /\ failed' = failed
  BY TopFacts DEF ErrInv, NoTransaction, BeginFails, NoColumns, LeaveLoop, At, Callbacks
<1>2. QED
  BY <1>1, AdvanceOnwards DEF ErrInv

LEMMA BeginOnwards ==
    ASSUME ErrInv, NEW o \in Op, BeginTransaction(o)
    PROVE  \E g \in Frame : Onwards(o, g)
<1>1. /\ Busy(o) /\ Top(o) \in Frame /\ Top(o).cb \in Callbacks /\ failed' = failed
  BY TopFacts DEF ErrInv, BeginTransaction, At, Callbacks
<1>2. PICK t \in Tx : SetTop(o, Advance([Top(o) EXCEPT !.handle = t, !.began = TRUE]))
  BY DEF BeginTransaction
<1> DEFINE h == [Top(o) EXCEPT !.handle = t, !.began = TRUE]
<1>3. h \in Frame /\ h.cb = Top(o).cb /\ h.err = Top(o).err /\ h.chain = Top(o).chain /\ h.ret = Top(o).ret
  BY <1>1 DEF Frame
<1>4. SetTop(o, Advance(h))
  BY <1>2
<1> HIDE DEF h
<1>5. QED
  BY <1>1, <1>3, <1>4, AdvanceOnwards DEF ErrInv

\* The model's methods: the scope has the error of the one that failed.
LEMMA MethodOnwards ==
    ASSUME ErrInv, NEW o \in Op, Before(o) \/ After(o)
    PROVE  \E g \in Frame : Onwards(o, g)
<1>1. /\ Busy(o) /\ Top(o) \in Frame /\ Top(o).cb \in Callbacks
      /\ Top(o).cb \notin Loops \cup {"link", "end"}
  BY TopFacts DEF ErrInv, Before, After, At, Callbacks, Loops
<1>2. PICK err \in BOOLEAN, skip \in BOOLEAN :
        /\ SetTop(o, Advance([Top(o) EXCEPT !.err = err, !.skip = skip]))
        /\ Failing(o, err)
  BY DEF Before, After, May
<1> DEFINE h == [Top(o) EXCEPT !.err = err, !.skip = skip]
<1>3. h \in Frame /\ h.cb = Top(o).cb /\ h.err = err /\ h.chain = Top(o).chain /\ h.ret = Top(o).ret
  BY <1>1 DEF Frame
<1>4. SetTop(o, Advance(h))
  BY <1>2
<1> HIDE DEF h
<1>5. QED
  BY <1>1, <1>2, <1>3, <1>4, NoErrorAt, FailingFacts, AdvanceOnwards DEF ErrInv

LEMMA ExecOnwards ==
    ASSUME ErrInv, NEW o \in Op, Exec(o)
    PROVE  \E g \in Frame : Onwards(o, g)
<1>1. /\ Busy(o) /\ Top(o) \in Frame /\ Top(o).cb \in Callbacks
      /\ Top(o).cb \notin Loops \cup {"link", "end"}
  BY TopFacts DEF ErrInv, Exec, At, Callbacks, Loops
<1>2. PICK out \in Outcome, rows \in 0 .. 2 :
        /\ SetTop(o, Advance([Top(o) EXCEPT !.err = out.err,
                                            !.rows = IF out.err THEN @ ELSE rows]))
        /\ Failing(o, out.err)
  BY DEF Exec
<1>3. out.err \in BOOLEAN
  BY OutcomeType
<1> DEFINE n == IF out.err THEN Top(o).rows ELSE rows
           h == [Top(o) EXCEPT !.err = out.err, !.rows = n]
<1>4. n \in 0 .. 2
  BY <1>1 DEF Frame
<1>5. SetTop(o, Advance(h))
  BY <1>2
<1> HIDE DEF n
<1>6. h \in Frame /\ h.cb = Top(o).cb /\ h.err = out.err /\ h.chain = Top(o).chain /\ h.ret = Top(o).ret
  BY <1>1, <1>3, <1>4 DEF Frame
<1> HIDE DEF h
<1>7. QED
  BY <1>1, <1>2, <1>3, <1>5, <1>6, NoErrorAt, FailingFacts, AdvanceOnwards DEF ErrInv

LEMMA SetColumnFailsOnwards ==
    ASSUME ErrInv, NEW o \in Op, SetColumnFails(o)
    PROVE  \E g \in Frame : Onwards(o, g)
<1>1. Busy(o) /\ Top(o) \in Frame /\ Top(o).cb \in Loops /\ Failing(o, TRUE)
  BY TopFacts DEF ErrInv, SetColumnFails, Loops
<1> DEFINE g == [Top(o) EXCEPT !.err = TRUE]
<1>2. g \in Frame /\ g.cb = Top(o).cb /\ g.err /\ g.chain = Top(o).chain /\ g.ret = Top(o).ret
  BY <1>1 DEF Frame
<1>3. SetTop(o, g)
  BY DEF SetColumnFails
<1> HIDE DEF g
<1>4. QED
  BY <1>1, <1>2, <1>3, FailingFacts DEF ErrInv, Onwards, Loops

LEMMA LinkExistingOnwards ==
    ASSUME ErrInv, NEW o \in Op, LinkExisting(o)
    PROVE  \E g \in Frame : Onwards(o, g)
<1>1. Busy(o) /\ Top(o) \in Frame /\ failed' = failed /\ Top(o).cb # "end"
  BY TopFacts DEF ErrInv, LinkExisting, At
<1>2. Top(o).n + 1 \in 0 .. MaxNested
  BY <1>1, BoundAssumption DEF LinkExisting, Frame
<1> DEFINE g == [Top(o) EXCEPT !.cb = "link", !.linkErr = Top(o).err, !.n = @ + 1]
<1>3. g \in Frame /\ g.cb = "link" /\ g.err = Top(o).err /\ g.chain = Top(o).chain /\ g.ret = Top(o).ret
  BY <1>1, <1>2 DEF Frame, Places
<1>4. SetTop(o, g)
  BY DEF LinkExisting
<1> HIDE DEF g
<1>5. QED
  BY <1>1, <1>3, <1>4 DEF Onwards

LEMMA LinkOnwards ==
    ASSUME ErrInv, NEW o \in Op, Link(o)
    PROVE  \E g \in Frame : Onwards(o, g)
<1> DEFINE f == [Top(o) EXCEPT !.cb = "saveAfter", !.linkErr = FALSE]
<1>1. Busy(o) /\ Top(o) \in Frame /\ Top(o).cb # "end"
  BY TopFacts DEF ErrInv, Link, At
<1>2. f \in Frame /\ f.cb = "saveAfter" /\ f.err = Top(o).err /\ f.chain = Top(o).chain /\ f.ret = Top(o).ret
  BY <1>1 DEF Frame, Places, Callbacks, Loops
<1>3. \/ SetTop(o, f) /\ failed' = failed
      \/ \E out \in Outcome : SetTop(o, [f EXCEPT !.err = @ \/ out.err]) /\ Failing(o, out.err)
  BY DEF Link
<1> HIDE DEF f
<1>4. CASE SetTop(o, f) /\ failed' = failed
  BY <1>1, <1>2, <1>4 DEF Onwards, Loops
<1>5. CASE \E out \in Outcome : SetTop(o, [f EXCEPT !.err = @ \/ out.err]) /\ Failing(o, out.err)
  <2>1. PICK out \in Outcome : /\ SetTop(o, [f EXCEPT !.err = @ \/ out.err])
                               /\ Failing(o, out.err)
    BY <1>5
  <2> DEFINE e == f.err \/ out.err
             g == [f EXCEPT !.err = e]
  <2>2. e \in BOOLEAN /\ (f.err => e) /\ (out.err => e)
    OBVIOUS
  <2>3. SetTop(o, g)
    BY <2>1
  <2> HIDE DEF e
  <2>4. g \in Frame /\ g.cb = "saveAfter" /\ g.err = e /\ g.chain = f.chain /\ g.ret = f.ret
    BY <1>2, <2>2 DEF Frame
  <2> HIDE DEF g
  <2>5. failed'[Current(o)] => failed[Current(o)] \/ g.err
    BY <1>1, <2>1, <2>2, <2>4, OutcomeType, FailingFacts DEF ErrInv
  <2>6. QED
    BY <1>1, <1>2, <2>1, <2>2, <2>3, <2>4, <2>5, OutcomeType, FailingFacts DEF ErrInv, Onwards, Loops
<1>6. QED
  BY <1>3, <1>4, <1>5

\* A commit that fails, by the scope that began.
LEMMA EndOnwards ==
    ASSUME ErrInv, NEW o \in Op, EndTransaction(o)
    PROVE  \E g \in Frame : Onwards(o, g)
<1>1. /\ Busy(o) /\ Top(o) \in Frame /\ Top(o).cb \in Callbacks
  BY TopFacts DEF ErrInv, EndTransaction, At, Callbacks
<1>2. CASE ~Top(o).began
  BY <1>1, <1>2, AdvanceOnwards DEF ErrInv, EndTransaction
<1>3. CASE Top(o).began
  <2>1. PICK fails \in BOOLEAN :
          /\ SetTop(o, Advance([Top(o) EXCEPT !.err = @ \/ fails, !.handle = Pool]))
          /\ Failing(o, fails)
    BY <1>3 DEF EndTransaction, May
  <2> DEFINE e == Top(o).err \/ fails
             h == [Top(o) EXCEPT !.err = e, !.handle = Pool]
  <2>2. e \in BOOLEAN /\ (Top(o).err => e) /\ (fails => e)
    OBVIOUS
  <2>3. SetTop(o, Advance(h))
    BY <2>1
  <2> HIDE DEF e
  <2>4. h \in Frame /\ h.cb = Top(o).cb /\ h.err = e /\ h.chain = Top(o).chain /\ h.ret = Top(o).ret
    BY <1>1, <2>2 DEF Frame
  <2> HIDE DEF h
  <2>5. failed'[Current(o)] => failed[Current(o)] \/ h.err
    BY <1>1, <2>1, <2>2, <2>4, FailingFacts DEF ErrInv
  <2>6. QED
    BY <1>1, <2>1, <2>2, <2>3, <2>4, <2>5, FailingFacts, AdvanceOnwards DEF ErrInv
<1>4. QED
  BY <1>2, <1>3

\* The lookup of a fallback: its error ends the scope.
LEMMA LookupOnwards ==
    ASSUME ErrInv, NEW o \in Op, Lookup(o)
    PROVE  \E g \in Frame : Onwards(o, g)
<1>1. Busy(o) /\ Top(o) \in Frame /\ Top(o).cb \notin Loops \cup {"link", "end"}
  BY TopFacts DEF ErrInv, Lookup, At, Loops
<1>2. ~Top(o).err
  BY <1>1, NoErrorAt
<1> DEFINE f == [Top(o) EXCEPT !.mode = "plain"]
           r == IF Top(o).mode = "child" THEN "next" ELSE f.ret
<1>3. /\ f \in Frame /\ f.err = Top(o).err /\ f.chain = Top(o).chain /\ f.ret = Top(o).ret
      /\ r \in Returns /\ r \in {Top(o).ret, "next"}
  BY <1>1 DEF Frame, Returns
<1>4. \/ SetTop(o, [f EXCEPT !.cb = "end"]) /\ failed' = failed
      \/ SetTop(o, [f EXCEPT !.cb = "begin"]) /\ failed' = failed
      \/ SetTop(o, [f EXCEPT !.cb = "end", !.err = TRUE, !.ret = r]) /\ Failing(o, TRUE)
  BY DEF Lookup
<1> HIDE DEF f, r
<1>5. /\ [f EXCEPT !.cb = "end"] \in Frame
      /\ [f EXCEPT !.cb = "begin"] \in Frame
      /\ [f EXCEPT !.cb = "end", !.err = TRUE, !.ret = r] \in Frame
  BY <1>3 DEF Frame, Places, Callbacks
<1>6. CASE SetTop(o, [f EXCEPT !.cb = "end"]) /\ failed' = failed
  BY <1>2, <1>3, <1>5, <1>6 DEF Onwards, Frame
<1>7. CASE SetTop(o, [f EXCEPT !.cb = "begin"]) /\ failed' = failed
  BY <1>2, <1>3, <1>5, <1>7 DEF Onwards, Frame
<1>8. CASE SetTop(o, [f EXCEPT !.cb = "end", !.err = TRUE, !.ret = r]) /\ Failing(o, TRUE)
  <2> DEFINE g == [f EXCEPT !.cb = "end", !.err = TRUE, !.ret = r]
  <2>1. g \in Frame /\ g.cb = "end" /\ g.err /\ g.chain = Top(o).chain /\ g.ret \in {Top(o).ret, "next"}
    BY <1>3, <1>5 DEF Frame
  <2>2. SetTop(o, g)
    BY <1>8
  <2> HIDE DEF g
  <2>3. QED
    BY <1>1, <1>2, <1>8, <2>1, <2>2, FailingFacts DEF ErrInv, Onwards
<1>9. QED
  BY <1>4, <1>6, <1>7, <1>8

\* The fallback of a nested scope goes on without an error.
LEMMA NestedFallBackOnwards ==
    ASSUME ErrInv, NEW o \in Op, FallBack(o), depth[o] # 1
    PROVE  \E g \in Frame : Onwards(o, g)
<1>1. Busy(o) /\ ~Top(o).err /\ failed' = failed
  BY DEF FallBack, FallsBack, At
<1>2. PICK g \in Frame : SetTop(o, g) /\ g.chain = "create" /\ ~g.err /\ g.ret = Top(o).ret
  BY FallBackFrame DEF ErrInv
<1>3. QED
  BY <1>1, <1>2 DEF Onwards

\* The steps that replace the innermost scope keep the invariant.
LEMMA InPlaceInv ==
    ASSUME ErrInv, TypeOK', StackInv', NEW o \in Op,
           \/ NoTransaction(o) \/ BeginTransaction(o) \/ BeginFails(o) \/ Before(o) \/ After(o)
           \/ Exec(o) \/ NoColumns(o) \/ SetColumnFails(o) \/ LeaveLoop(o) \/ LinkExisting(o)
           \/ Link(o) \/ EndTransaction(o) \/ Lookup(o) \/ (FallBack(o) /\ depth[o] # 1)
    PROVE  ErrInv'
<1>1. \E g \in Frame : Onwards(o, g)
  BY NoTransactionOnwards, BeginOnwards, MethodOnwards, ExecOnwards, SetColumnFailsOnwards,
     LinkExistingOnwards, LinkOnwards, EndOnwards, LookupOnwards, NestedFallBackOnwards,
     SMTT(30)
<1>2. Busy(o) /\ UNCHANGED <<depth, turn>>
  BY DEF NoTransaction, BeginTransaction, BeginFails, Before, After, Exec, NoColumns, SetColumnFails,
         LeaveLoop, LinkExisting, Link, EndTransaction, Lookup, FallBack, At, call
<1>3. Current(o) \in Unit /\ st[Current(o)] \in {"idle", "running"}
  BY <1>2, CurrentFacts, SMTT(30) DEF ErrInv, ErrFacts
<1>4. \/ st' = st
      \/ st' = [st EXCEPT ![Current(o)] = "running"]
  BY DEF NoTransaction, BeginTransaction, BeginFails, Before, After, Exec, NoColumns, SetColumnFails,
         LeaveLoop, LinkExisting, Link, EndTransaction, Lookup, FallBack, call
<1>5. /\ st'[Current(o)] \in {"idle", "running"}
      /\ \A u \in Unit : u # Current(o) => st'[u] = st[u]
  BY <1>3, <1>4 DEF ErrInv, TypeOK
<1>6. QED
  BY <1>1, <1>2, <1>5, OnwardsInv
-----------------------------------------------------------------------------
(* Calls, nested scopes and returns *)

\* What the others know after a step of o that leaves their frames and units alone.
LEMMA OthersInv ==
    ASSUME ErrInv, NEW o \in Op, NEW p \in Op, p # o,
           frame'[p] = frame[p], depth'[p] = depth[p], turn'[p] = turn[p],
           \A k \in {1, 2} : st'[<<p, k>>] = st[<<p, k>>] /\ failed'[<<p, k>>] = failed[<<p, k>>]
    PROVE  ErrFacts(p)' /\ LostFacts(p)'
<1>1. Busy(p) => turn[p] \in {1, 2}
  BY CurrentFacts DEF ErrInv
<1>2. QED
  BY <1>1, OthersKeepErr DEF ErrInv

\* A call that starts has no error, and neither of its units has failed.
LEMMA CallErrInv ==
    ASSUME ErrInv, TypeOK', StackInv', NEW o \in Op, Call(o)
    PROVE  ErrInv'
<1>1. /\ turn[o] = 0 /\ depth' = [depth EXCEPT ![o] = 1] /\ turn' = [turn EXCEPT ![o] = 1]
      /\ st' = [st EXCEPT ![<<o, 1>>] = "running"] /\ failed' = failed
      /\ TypeOK
  BY DEF Call, ErrInv
<1>2. PICK g \in Frame : frame'[o][1] = g /\ g.cb = "begin" /\ ~g.err
  BY <1>1, CallFrame
<1>3. \A k \in {1, 2} : ~failed[<<o, k>>] /\ st[<<o, k>>] = "idle"
  <2>1. \A k \in {1, 2} : k > turn[o]
    BY <1>1
  <2>2. QED
    BY <2>1 DEF ErrInv, LostFacts
<1>4. depth'[o] = 1 /\ turn'[o] = 1
  BY <1>1 DEF TypeOK
<1>5. \A k \in {1, 2} : <<o, k>> \in Unit
  BY DEF Unit
<1>6. st'[<<o, 1>>] = "running" /\ st'[<<o, 2>>] = "idle"
  BY <1>1, <1>3, <1>5 DEF TypeOK
<1>7. ErrFacts(o)'
  <2>1. Current(o)' = <<o, 1>> /\ Top(o)' = g
    BY <1>2, <1>4 DEF Current, Top
  <2>2. QED
    BY <1>1, <1>2, <1>3, <1>4, <1>6, <2>1 DEF ErrFacts
<1>8. LostFacts(o)'
  BY <1>1, <1>3, <1>4, <1>6 DEF LostFacts
<1>9. ASSUME NEW p \in Op, p # o PROVE ErrFacts(p)' /\ LostFacts(p)'
  <2>1. depth'[p] = depth[p] /\ turn'[p] = turn[p]
    BY <1>1, <1>9 DEF TypeOK
  <2>2. frame'[p] = frame[p]
    BY <1>1, <1>9, CallFrame
  <2>3. \A k \in {1, 2} : st'[<<p, k>>] = st[<<p, k>>]
    BY <1>1, <1>9 DEF TypeOK, Unit
  <2>4. QED
    BY <1>1, <1>9, <2>1, <2>2, <2>3, OthersInv
<1>10. QED
  BY <1>7, <1>8, <1>9 DEF ErrInv

\* Save goes on with its second unit, which has not failed, when the first has no error.
LEMMA OuterFallBackInv ==
    ASSUME ErrInv, TypeOK', StackInv', NEW o \in Op, FallBack(o), depth[o] = 1
    PROVE  ErrInv'
<1>1. /\ Busy(o) /\ ~Top(o).err /\ Top(o).chain = "update" /\ failed' = failed
      /\ depth' = depth /\ turn' = [turn EXCEPT ![o] = 2]
      /\ st' = [st EXCEPT ![Current(o)] = Verdict(Top(o))] /\ TypeOK /\ StackInv
  BY DEF FallBack, FallsBack, At, ErrInv
<1>2. PICK g \in Frame : SetTop(o, g) /\ g.chain = "create" /\ ~g.err /\ g.cb = "lookup"
  BY <1>1, FallBackFrame
<1>3. ~g.err
  BY <1>2
<1>4. turn[o] = 1
  <2>1. turn[o] \in {1, 2}
    BY <1>1, CurrentFacts
  <2>2. turn[o] = 2 => Top(o).chain = "create"
    BY <1>1 DEF ErrInv, ErrFacts, Top
  <2>3. QED
    BY <1>1, <2>1, <2>2
<1>5. Current(o) = <<o, 1>> /\ \A k \in {1, 2} : <<o, k>> \in Unit
  BY <1>4 DEF Current, Unit
<1>6. ~failed[<<o, 1>>] /\ ~failed[<<o, 2>>] /\ st[<<o, 2>>] = "idle"
  <2>1. ~failed[Current(o)]
    BY <1>1 DEF ErrInv, ErrFacts, Top
  <2>2. QED
    BY <1>4, <1>5, <2>1 DEF ErrInv, LostFacts
<1>7. turn'[o] = 2 /\ st'[<<o, 2>>] = "idle"
  BY <1>1, <1>5, <1>6 DEF TypeOK
<1>8. frame'[o][1] = g /\ \A p \in Op : p # o => frame'[p] = frame[p]
  BY <1>1, <1>2, SetTopFacts
<1>9. ErrFacts(o)'
  <2>1. Current(o)' = <<o, 2>> /\ Top(o)' = g
    BY <1>1, <1>7, <1>8 DEF Current, Top
  <2>2. QED
    BY <1>1, <1>2, <1>3, <1>6, <1>7, <1>8, <2>1 DEF ErrFacts
<1>10. LostFacts(o)'
  BY <1>1, <1>6, <1>7 DEF LostFacts
<1>11. ASSUME NEW p \in Op, p # o PROVE ErrFacts(p)' /\ LostFacts(p)'
  <2>1. turn'[p] = turn[p]
    BY <1>1, <1>11 DEF TypeOK
  <2>2. \A k \in {1, 2} : st'[<<p, k>>] = st[<<p, k>>]
    BY <1>1, <1>5, <1>11 DEF TypeOK, Unit
  <2>3. QED
    BY <1>1, <1>8, <1>11, <2>1, <2>2, OthersInv
<1>12. QED
  BY <1>9, <1>10, <1>11 DEF ErrInv

\* A nested scope starts with the error of its caller, and then ends at once; the error its
\* caller has from setting a key on what is saved then, it has not.
LEMMA OpenNestedErrInv ==
    ASSUME ErrInv, TypeOK', StackInv', NEW o \in Op, OpenNested(o)
    PROVE  ErrInv'
<1>1. /\ Busy(o) /\ depth[o] \in 1 .. MaxDepth /\ depth[o] + 1 \in 1 .. MaxDepth
      /\ depth' = [depth EXCEPT ![o] = @ + 1] /\ UNCHANGED <<turn, st>>
      /\ Top(o).cb # "end" /\ TypeOK /\ StackInv
  BY TopFacts, BoundAssumption DEF OpenNested, ErrInv, Loops
<1>2. PICK p \in Frame, g \in Frame, err \in BOOLEAN :
        /\ frame'[o][depth[o]] = p
        /\ frame'[o][depth[o] + 1] = g
        /\ \A d \in 1 .. MaxDepth : d \notin {depth[o], depth[o] + 1} => frame'[o][d] = frame[o][d]
        /\ \A q \in Op : q # o => frame'[q] = frame[q]
        /\ p.chain = Top(o).chain /\ p.cb = Top(o).cb /\ p.ret = Top(o).ret
        /\ (p.err <=> Top(o).err \/ err) /\ Failing(o, err)
        /\ err => p.cb = "saveAfter" /\ g.ret \in {"next", "stop"}
        /\ g.err = Top(o).err /\ (g.err => g.cb = "end")
  BY <1>1, OpenNestedFrame
<1>3. depth'[o] = depth[o] + 1 /\ \A q \in Op : q # o => depth'[q] = depth[q]
  BY <1>1 DEF TypeOK
<1>4. /\ Top(o)' = g /\ Current(o)' = Current(o) /\ Top(o) = frame[o][depth[o]]
      /\ turn[o] \in {1, 2} /\ Current(o) = <<o, turn[o]>> /\ Current(o) \in Unit
  BY <1>1, <1>2, <1>3, CurrentFacts DEF Top, Current
<1>5. ErrFacts(o) /\ LostFacts(o)
  BY DEF ErrInv
<1>6. \A d \in 1 .. depth[o] : frame'[o][d].err => Waits(o, d)'
  <2> SUFFICES ASSUME NEW d \in 1 .. depth[o], frame'[o][d].err PROVE Waits(o, d)'
    OBVIOUS
  <2>1. CASE d = depth[o]
    <3>1. p.err
      BY <1>2, <2>1
    <3>2. CASE Top(o).err
      BY <1>2, <1>3, <1>4, <2>1, <3>2 DEF Waits
    <3>3. CASE err
      BY <1>2, <2>1, <3>3 DEF Waits
    <3>4. QED
      BY <1>2, <3>1, <3>2, <3>3
  <2>2. CASE d # depth[o]
    <3>1. /\ d \in 1 .. depth[o] - 1 /\ d \in 1 .. MaxDepth /\ d + 1 \in 1 .. MaxDepth
          /\ d \notin {depth[o], depth[o] + 1} /\ d + 1 # depth[o] + 1
      BY <1>1, <2>2, BoundAssumption
    <3>2. frame'[o][d] = frame[o][d] /\ Waits(o, d)
      BY <1>1, <1>2, <1>5, <3>1 DEF ErrFacts
    <3>3. frame[o][d].cb = "saveAfter" /\ frame[o][d + 1].ret \in {"next", "stop"}
      BY <1>1, <3>2 DEF Waits
    <3>4. CASE d + 1 = depth[o]
      BY <1>2, <1>4, <3>2, <3>3, <3>4 DEF Waits
    <3>5. CASE d + 1 # depth[o]
      BY <1>2, <3>1, <3>2, <3>3, <3>5 DEF Waits
    <3>6. QED
      BY <3>4, <3>5
  <2>3. QED
    BY <2>1, <2>2
<1>7. failed'[Current(o)] => \E d \in 1 .. depth[o] + 1 : frame'[o][d].err
  <2>1. CASE err
    <3>1. frame'[o][depth[o]].err /\ depth[o] \in 1 .. depth[o] + 1
      BY <1>1, <1>2, <2>1
    <3>2. QED
      BY <3>1
  <2>2. CASE ~err
    <3>1. failed'[Current(o)] => failed[Current(o)]
      BY <1>1, <1>2, <2>2, FailingFacts
    <3>2. ASSUME failed[Current(o)] PROVE \E d \in 1 .. depth[o] + 1 : frame'[o][d].err
      <4>1. PICK d \in 1 .. depth[o] : frame[o][d].err
        BY <1>1, <1>5, <3>2 DEF ErrFacts
      <4>2. d \in 1 .. MaxDepth /\ d # depth[o] + 1 /\ d \in 1 .. depth[o] + 1
        BY <1>1, BoundAssumption
      <4>3. CASE d = depth[o]
        BY <1>2, <1>4, <4>1, <4>2, <4>3
      <4>4. CASE d # depth[o]
        BY <1>2, <4>1, <4>2, <4>4
      <4>5. QED
        BY <4>3, <4>4
    <3>3. QED
      BY <3>1, <3>2
  <2>3. QED
    BY <2>1, <2>2
<1>8. turn[o] = 2 => frame'[o][1].chain = "create"
  <2>1. CASE depth[o] = 1
    BY <1>1, <1>2, <1>4, <1>5, <2>1 DEF ErrFacts
  <2>2. CASE depth[o] # 1
    <3>1. 1 \in 1 .. MaxDepth /\ 1 \notin {depth[o], depth[o] + 1}
      BY <1>1, <2>2, BoundAssumption
    <3>2. frame'[o][1] = frame[o][1]
      BY <1>2, <3>1
    <3>3. QED
      BY <1>1, <1>5, <3>2 DEF ErrFacts
  <2>3. QED
    BY <2>1, <2>2
<1>9. \A u \in Unit : u # Current(o) => failed'[u] = failed[u]
  BY <1>1, <1>2, FailingFacts
<1>10. ErrFacts(o)'
  <2>1. depth'[o] - 1 = depth[o] /\ st[Current(o)] \in {"idle", "running"}
    BY <1>1, <1>3, <1>5 DEF ErrFacts
  <2>2. QED
    BY <1>1, <1>2, <1>3, <1>4, <1>6, <1>7, <1>8, <2>1 DEF ErrFacts
<1>11. LostFacts(o)'
  <2> SUFFICES ASSUME NEW k \in {1, 2}
               PROVE  /\ k > turn[o] => ~failed'[<<o, k>>] /\ st[<<o, k>>] = "idle"
                      /\ st[<<o, k>>] \in {"ok", "skipped"} => ~failed'[<<o, k>>]
    BY <1>1 DEF LostFacts
  <2>1. CASE k = turn[o]
    BY <1>1, <1>4, <1>5, <2>1 DEF ErrFacts
  <2>2. CASE k # turn[o]
    <3>1. <<o, k>> \in Unit /\ <<o, k>> # Current(o)
      BY <1>4, <2>2 DEF Unit
    <3>2. QED
      BY <1>5, <1>9, <3>1 DEF LostFacts
  <2>3. QED
    BY <2>1, <2>2
<1>12. ASSUME NEW q \in Op, q # o PROVE ErrFacts(q)' /\ LostFacts(q)'
  <2>1. \A k \in {1, 2} : <<q, k>> \in Unit /\ <<q, k>> # Current(o)
    BY <1>4, <1>12 DEF Unit
  <2>2. QED
    BY <1>1, <1>2, <1>3, <1>9, <1>12, <2>1, OthersInv
<1>13. QED
  BY <1>10, <1>11, <1>12 DEF ErrInv

\* A loop takes over the error of every nested scope it survives.
LEMMA ReturnNestedErrInv ==
    ASSUME ErrInv, TypeOK', StackInv', NEW o \in Op, ReturnNested(o)
    PROVE  ErrInv'
<1>1. /\ Busy(o) /\ depth[o] > 1 /\ depth[o] \in 1 .. MaxDepth
      /\ depth' = [depth EXCEPT ![o] = @ - 1] /\ UNCHANGED <<turn, st, failed>>
      /\ TypeOK /\ StackInv
  BY TopFacts DEF ReturnNested, At, ErrInv
<1>2. /\ depth[o] - 1 \in 1 .. MaxDepth /\ depth[o] - 1 # depth[o]
      /\ Base(o) = frame[o][depth[o] - 1] /\ Top(o) = frame[o][depth[o]]
  BY <1>1, BoundAssumption DEF Base, Top
<1>3. PICK p \in Frame :
        /\ frame'[o][depth[o] - 1] = p
        /\ \A d \in 1 .. MaxDepth : d \notin {depth[o] - 1, depth[o]} => frame'[o][d] = frame[o][d]
        /\ \A q \in Op : q # o => frame'[q] = frame[q]
        /\ p.chain = Base(o).chain /\ p.ret = Base(o).ret
        /\ p.cb \in Loops \cup {"link", "end"}
        /\ p.err = (Base(o).err \/ Top(o).err)
  BY <1>1, ReturnNestedFrame
<1>4. depth'[o] = depth[o] - 1 /\ \A q \in Op : q # o => depth'[q] = depth[q]
  BY <1>1 DEF TypeOK
<1>5. Top(o)' = p /\ Current(o)' = Current(o)
  BY <1>1, <1>3, <1>4 DEF Top, Current
<1>6. ErrFacts(o) /\ LostFacts(o)
  BY DEF ErrInv
<1>7. failed[Current(o)] => \E d \in 1 .. depth[o] - 1 : frame'[o][d].err
  <2> SUFFICES ASSUME failed[Current(o)] PROVE \E d \in 1 .. depth[o] - 1 : frame'[o][d].err
    OBVIOUS
  <2>1. PICK d \in 1 .. depth[o] : frame[o][d].err
    BY <1>1, <1>6 DEF ErrFacts
  <2>2. CASE d \in {depth[o] - 1, depth[o]}
    <3>1. Base(o).err \/ Top(o).err
      BY <1>2, <2>1, <2>2
    <3>2. frame'[o][depth[o] - 1].err
      BY <1>3, <3>1
    <3>3. depth[o] - 1 \in 1 .. depth[o] - 1
      BY <1>1
    <3>4. QED
      BY <3>2, <3>3
  <2>3. CASE d \notin {depth[o] - 1, depth[o]}
    <3>1. d \in 1 .. MaxDepth /\ d \in 1 .. depth[o] - 1
      BY <1>1, <2>3, BoundAssumption
    <3>2. QED
      BY <1>3, <2>1, <2>3, <3>1
  <2>4. QED
    BY <2>2, <2>3
<1>8. \A d \in 1 .. depth[o] - 2 : frame'[o][d].err => Waits(o, d)'
  <2> SUFFICES ASSUME NEW d \in 1 .. depth[o] - 2, frame'[o][d].err PROVE Waits(o, d)'
    OBVIOUS
  <2>1. /\ d \in 1 .. depth[o] - 1 /\ d \in 1 .. MaxDepth /\ d + 1 \in 1 .. MaxDepth
        /\ d \notin {depth[o] - 1, depth[o]} /\ d + 1 # depth[o]
    BY <1>1, BoundAssumption
  <2>2. frame'[o][d] = frame[o][d] /\ Waits(o, d)
    BY <1>1, <1>3, <1>6, <2>1 DEF ErrFacts
  <2>3. frame[o][d].cb = "saveAfter" /\ frame[o][d + 1].ret \in {"next", "stop"}
    BY <2>1, <2>2 DEF Waits
  <2>4. CASE d + 1 = depth[o] - 1
    BY <1>2, <1>3, <2>2, <2>3, <2>4 DEF Waits
  <2>5. CASE d + 1 # depth[o] - 1
    BY <1>3, <2>1, <2>2, <2>3, <2>5 DEF Waits
  <2>6. QED
    BY <2>4, <2>5
<1>9. turn[o] = 2 => frame'[o][1].chain = "create"
  <2>1. turn[o] = 2 => frame[o][1].chain = "create"
    BY <1>1, <1>6 DEF ErrFacts
  <2>2. CASE depth[o] = 2
    BY <1>2, <1>3, <2>1, <2>2
  <2>3. CASE depth[o] # 2
    <3>1. 1 \in 1 .. MaxDepth /\ 1 \notin {depth[o] - 1, depth[o]}
      BY <1>1, <2>3, BoundAssumption
    <3>2. QED
      BY <1>3, <2>1, <3>1
  <2>4. QED
    BY <2>2, <2>3
<1>10. ErrFacts(o)'
  <2>1. depth'[o] - 1 = depth[o] - 2 /\ st[Current(o)] \in {"idle", "running"}
    BY <1>1, <1>4, <1>6 DEF ErrFacts
  <2>2. QED
    BY <1>1, <1>3, <1>4, <1>5, <1>7, <1>8, <1>9, <2>1 DEF ErrFacts
<1>11. LostFacts(o)'
  BY <1>1, <1>6 DEF LostFacts
<1>12. ASSUME NEW q \in Op, q # o PROVE ErrFacts(q)' /\ LostFacts(q)'
  BY <1>1, <1>3, <1>4, <1>12, OthersInv
<1>13. QED
  BY <1>10, <1>11, <1>12 DEF ErrInv

\* A call whose outermost scope has no error is successful, and then nothing has failed.
LEMMA ReturnToCallerErrInv ==
    ASSUME ErrInv, TypeOK', StackInv', NEW o \in Op, ReturnToCaller(o)
    PROVE  ErrInv'
<1>1. /\ Busy(o) /\ depth[o] = 1 /\ depth' = [depth EXCEPT ![o] = 0] /\ SetTop(o, NoFrame)
      /\ st' = [st EXCEPT ![Current(o)] = Verdict(Top(o))] /\ UNCHANGED <<turn, failed>>
      /\ TypeOK /\ StackInv
  BY DEF ReturnToCaller, At, ErrInv
<1>2. /\ turn[o] \in {1, 2} /\ Current(o) = <<o, turn[o]>> /\ Current(o) \in Unit
      /\ \A q \in Op : q # o => frame'[q] = frame[q]
  BY <1>1, CurrentFacts, SetTopFacts, NoFrameType
<1>3. depth'[o] = 0 /\ \A q \in Op : q # o => depth'[q] = depth[q]
  BY <1>1 DEF TypeOK
<1>4. ErrFacts(o)'
  BY <1>3 DEF ErrFacts, Busy
<1>5. failed[Current(o)] => st'[Current(o)] = "failed"
  <2>1. failed[Current(o)] => Top(o).err
    BY <1>1 DEF ErrInv, ErrFacts, Top
  <2>2. QED
    BY <1>1, <1>2, <2>1 DEF Verdict, TypeOK
<1>6. \A u \in Unit : u # Current(o) => st'[u] = st[u]
  BY <1>1 DEF TypeOK
<1>7. LostFacts(o)'
  <2> SUFFICES ASSUME NEW k \in {1, 2}
               PROVE  /\ k > turn[o] => ~failed[<<o, k>>] /\ st'[<<o, k>>] = "idle"
                      /\ st'[<<o, k>>] \in {"ok", "skipped"} => ~failed[<<o, k>>]
    BY <1>1 DEF LostFacts
  <2>1. CASE k = turn[o]
    BY <1>2, <1>5, <2>1
  <2>2. CASE k # turn[o]
    <3>1. <<o, k>> \in Unit /\ <<o, k>> # Current(o)
      BY <1>2, <2>2 DEF Unit
    <3>2. QED
      BY <1>6, <3>1 DEF ErrInv, LostFacts
  <2>3. QED
    BY <2>1, <2>2
<1>8. ASSUME NEW q \in Op, q # o PROVE ErrFacts(q)' /\ LostFacts(q)'
  <2>1. \A k \in {1, 2} : st'[<<q, k>>] = st[<<q, k>>]
    BY <1>2, <1>6, <1>8 DEF Unit
  <2>2. QED
    BY <1>1, <1>2, <1>3, <1>8, <2>1, OthersInv
<1>9. QED
  BY <1>4, <1>7, <1>8 DEF ErrInv
-----------------------------------------------------------------------------
(* The theorems that hold with every fault *)

LEMMA ErrInit == Init => ErrInv
<1> SUFFICES ASSUME Init PROVE ErrInv
  OBVIOUS
<1>1. TypeOK /\ StackInv
  BY TypeInit
<1>2. \A o \in Op, k \in {1, 2} : st[<<o, k>>] = "idle" /\ ~failed[<<o, k>>]
  BY DEF Init, Unit
<1>3. ASSUME NEW o \in Op PROVE ErrFacts(o) /\ LostFacts(o)
  <2>1. ~Busy(o)
    BY DEF Init, Busy
  <2>2. QED
    BY <1>2, <2>1 DEF ErrFacts, LostFacts
<1>4. QED
  BY <1>1, <1>3 DEF ErrInv

LEMMA ErrStep == ErrInv /\ [Next]_vars => ErrInv'
<1> SUFFICES ASSUME ErrInv, [Next]_vars PROVE ErrInv'
  OBVIOUS
<1>1. TypeOK' /\ StackInv'
  BY TypeStep DEF ErrInv
<1>2. CASE UNCHANGED vars
  <2>1. ASSUME NEW o \in Op PROVE ErrFacts(o)' /\ LostFacts(o)'
    BY <1>2, CurrentFacts, OthersKeepErr DEF vars, ErrInv
  <2>2. QED
    BY <1>1, <2>1 DEF ErrInv
<1>3. ASSUME NEW o \in Op, Call(o) \/ Step(o) PROVE ErrInv'
  <2>1. CASE Call(o)
    BY <1>1, <2>1, CallErrInv
  <2>2. CASE OpenNested(o)
    BY <1>1, <2>2, OpenNestedErrInv
  <2>3. CASE FallBack(o) /\ depth[o] = 1
    BY <1>1, <2>3, OuterFallBackInv
  <2>4. CASE ReturnNested(o)
    BY <1>1, <2>4, ReturnNestedErrInv
  <2>5. CASE ReturnToCaller(o)
    BY <1>1, <2>5, ReturnToCallerErrInv
  <2>6. QED
    BY <1>1, <1>3, <2>1, <2>2, <2>3, <2>4, <2>5, InPlaceInv DEF Step
<1>4. QED
  BY <1>2, <1>3 DEF Next

LEMMA ErrInvHolds == Spec => []ErrInv
  BY ErrInit, ErrStep, PTL DEF Spec

\* Whatever fails, Begin included, and however deep the scopes nest: a call that reports no
\* error had none, neither of its own statements and methods nor of a nested save, child or
\* join row (scope.Err around every nested call).
THEOREM NoLostErrorHolds == Spec => []NoLostError
<1>1. ErrInv => NoLostError
  <2> SUFFICES ASSUME ErrInv, NEW u \in Unit, st[u] \in {"ok", "skipped"} PROVE ~failed[u]
    BY DEF NoLostError
  <2>1. PICK o \in Op, k \in {1, 2} : u = <<o, k>>
    BY DEF Unit
  <2>2. QED
    BY <2>1 DEF ErrInv, LostFacts
<1>2. QED
  BY <1>1, ErrInvHolds, PTL

\* Once something of a unit has failed, its loops unwind and nothing else runs but rows added
\* to a join table and what is nested in the Save of a has_many element whose foreign key
\* could not be set (callCallbacks; NewScope on a DB with an error; callback_save.go, where
\* newDB is made before SetColumn can fail).
THEOREM BrokenOffHolds == Spec => []BrokenOffByFailure
<1>1. ErrInv => BrokenOffByFailure
  <2> SUFFICES ASSUME ErrInv, NEW o \in Op, Busy(o), failed[Current(o)],
                      Top(o).cb \notin Loops \cup {"link", "end"}
               PROVE  /\ ~Top(o).err
                      /\ \E d \in 1 .. depth[o] - 1 : frame[o][d].err
                      /\ \A d \in 1 .. depth[o] - 1 : frame[o][d].err =>
                            /\ frame[o][d].cb = "saveAfter"
                            /\ frame[o][d + 1].ret \in {"next", "stop"}
    BY DEF BrokenOffByFailure
  <2>1. ~Top(o).err /\ ErrFacts(o) /\ depth[o] \in 1 .. MaxDepth /\ Top(o) = frame[o][depth[o]]
    BY NoErrorAt, TopFacts DEF ErrInv, Top
  <2>2. PICK d \in 1 .. depth[o] : frame[o][d].err
    BY <2>1 DEF ErrFacts
  <2>3. d \in 1 .. depth[o] - 1
    BY <2>1, <2>2, BoundAssumption
  <2>4. ASSUME NEW e \in 1 .. depth[o] - 1, frame[o][e].err
        PROVE  frame[o][e].cb = "saveAfter" /\ frame[o][e + 1].ret \in {"next", "stop"}
    BY <2>1, <2>4 DEF ErrFacts, Waits
  <2>5. QED
    BY <2>1, <2>2, <2>3, <2>4
<1>2. QED
  BY <1>1, ErrInvHolds, PTL
-----------------------------------------------------------------------------
(* With every fault: the invariant StarterInv *)

\* A scope on a transaction is of the unit that began it.
Owned(o, f) == f.handle \in Tx => txst[f.handle] # "unused" /\ txUnit[f.handle] = Current(o)

\* What is opened on a scope that has a transaction stays on it and never begins another one;
\* after a failed Begin each scope nested in the pool may still begin its own.
StarterFacts(o) ==
    /\ \A d \in 1 .. depth[o] : Owned(o, frame[o][d])
    /\ \A d \in 1 .. depth[o] : \A e \in 1 .. d - 1 :
          frame[o][e].handle \in Tx => frame[o][d].handle = frame[o][e].handle /\ ~frame[o][d].began

StarterInv == TypeOK /\ StackInv /\ \A o \in Op : StarterFacts(o)

\* A transaction that somebody has begun stays theirs.
OwnersStay == \A t \in Tx : txst[t] # "unused" => txst'[t] # "unused" /\ txUnit'[t] = txUnit[t]

LEMMA OthersKeepStarter ==
    ASSUME NEW p \in Op, StarterFacts(p), OwnersStay,
           frame'[p] = frame[p], depth'[p] = depth[p], turn'[p] = turn[p]
    PROVE  StarterFacts(p)'
  BY DEF StarterFacts, Owned, OwnersStay, Current

\* A call with one scope, which is on the pool, or with none.
LEMMA PoolStarter ==
    ASSUME NEW o \in Op, depth'[o] = 0 \/ (depth'[o] = 1 /\ frame'[o][1].handle = Pool)
    PROVE  StarterFacts(o)'
  BY HandleAssumption DEF StarterFacts, Owned

\* The innermost scope becomes g.
LEMMA TopStarter ==
    ASSUME StarterInv, NEW o \in Op, Busy(o), NEW g \in Frame, SetTop(o, g), OwnersStay,
           depth'[o] = depth[o], turn'[o] = turn[o],
           g.handle \in Tx => txst'[g.handle] # "unused" /\ txUnit'[g.handle] = Current(o),
           \A e \in 1 .. depth[o] - 1 :
              frame[o][e].handle \in Tx => g.handle = frame[o][e].handle /\ ~g.began
    PROVE  StarterFacts(o)'
<1>1. depth[o] \in 1 .. MaxDepth /\ MaxDepth \in Nat /\ TypeOK /\ StarterFacts(o)
  BY TopFacts, BoundAssumption DEF StarterInv
<1>2. frame'[o][depth[o]] = g /\ \A d \in 1 .. MaxDepth : d # depth[o] => frame'[o][d] = frame[o][d]
  BY <1>1, SetTopFacts
<1>3. Current(o)' = Current(o)
  BY DEF Current
<1>4. ASSUME NEW d \in 1 .. depth[o] PROVE Owned(o, frame[o][d])'
  <2>1. CASE d = depth[o]
    BY <1>2, <1>3, <2>1 DEF Owned
  <2>2. CASE d # depth[o]
    <3>1. frame'[o][d] = frame[o][d] /\ Owned(o, frame[o][d])
      BY <1>1, <1>2, <2>2 DEF StarterFacts
    <3>2. QED
      BY <1>3, <3>1 DEF Owned, OwnersStay
  <2>3. QED
    BY <2>1, <2>2
<1>5. ASSUME NEW d \in 1 .. depth[o], NEW e \in 1 .. d - 1, frame'[o][e].handle \in Tx
      PROVE  frame'[o][d].handle = frame'[o][e].handle /\ ~frame'[o][d].began
  <2>1. e \in 1 .. depth[o] - 1 /\ frame'[o][e] = frame[o][e]
    BY <1>1, <1>2
  <2>2. CASE d = depth[o]
    BY <1>2, <1>5, <2>1, <2>2
  <2>3. CASE d # depth[o]
    <3>1. frame'[o][d] = frame[o][d]
      BY <1>1, <1>2, <2>3
    <3>2. QED
      BY <1>1, <1>5, <2>1, <3>1 DEF StarterFacts
  <2>4. QED
    BY <2>2, <2>3
<1>6. QED
  BY <1>4, <1>5 DEF StarterFacts

\* It keeps its handle and its mark.
LEMMA KeptStarter ==
    ASSUME StarterInv, NEW o \in Op, Busy(o), NEW g \in Frame, SetTop(o, g), OwnersStay,
           depth'[o] = depth[o], turn'[o] = turn[o],
           g.handle = Top(o).handle, g.began = Top(o).began
    PROVE  StarterFacts(o)'
<1>1. depth[o] \in 1 .. depth[o] /\ StarterFacts(o) /\ Top(o) = frame[o][depth[o]]
  BY TopFacts DEF StarterInv, Top
<1>2. g.handle \in Tx => txst'[g.handle] # "unused" /\ txUnit'[g.handle] = Current(o)
  BY <1>1 DEF StarterFacts, Owned, OwnersStay
<1>3. \A e \in 1 .. depth[o] - 1 :
         frame[o][e].handle \in Tx => g.handle = frame[o][e].handle /\ ~g.began
  BY <1>1 DEF StarterFacts
<1>4. QED
  BY <1>2, <1>3, TopStarter

\* A step of o that keeps the other goroutines' scopes and the owners of transactions.
LEMMA StarterFrom ==
    ASSUME StarterInv, TypeOK', StackInv', NEW o \in Op, StarterFacts(o)', OwnersStay,
           \A p \in Op : p # o => frame'[p] = frame[p] /\ depth'[p] = depth[p] /\ turn'[p] = turn[p]
    PROVE  StarterInv'
<1>1. ASSUME NEW p \in Op, p # o PROVE StarterFacts(p)'
  BY <1>1, OthersKeepStarter DEF StarterInv
<1>2. QED
  BY <1>1 DEF StarterInv

LEMMA PlainStarter ==
    ASSUME StarterInv, TypeOK', StackInv', NEW o \in Op, Plain(o) \/ BeginFails(o) \/ Lookup(o)
    PROVE  StarterInv'
<1>1. Busy(o) /\ depth' = depth /\ turn' = turn /\ txst' = txst /\ txUnit' = txUnit
  <2>1. CASE Plain(o)
    <3>1. Busy(o) /\ UNCHANGED <<call, txst, txUnit>>
      BY <2>1 DEF Plain, NoTransaction, Before, After, Exec, NoColumns, SetColumnFails, LeaveLoop,
         LinkExisting, Link, At, database
    <3>2. QED
      BY <3>1, SMTT(30) DEF call
  <2>2. CASE BeginFails(o)
    BY <2>2 DEF BeginFails, At, call, database
  <2>3. CASE Lookup(o)
    BY <2>3 DEF Lookup, At, database
  <2>4. QED
    BY <2>1, <2>2, <2>3
<1>2. PICK g \in Frame : SetTop(o, g) /\ g.handle = Top(o).handle /\ g.began = Top(o).began
  <2>1. CASE Plain(o) \/ BeginFails(o)
    BY <2>1, PlainMoves, BeginFailsMoves DEF Moved, StarterInv
  <2>2. CASE Lookup(o)
    BY <2>2, LookupFrame DEF StarterInv
  <2>3. QED
    BY <2>1, <2>2
<1>3. OwnersStay
  BY <1>1 DEF OwnersStay
<1>4. StarterFacts(o)'
  BY <1>1, <1>2, <1>3, KeptStarter
<1>5. \A p \in Op : p # o => frame'[p] = frame[p]
  BY <1>1, <1>2, SetTopFacts DEF StarterInv
<1>6. QED
  BY <1>1, <1>3, <1>4, <1>5, StarterFrom

\* A scope begins only on the pool, and so with all scopes below it there too.
LEMMA BeginStarter ==
    ASSUME StarterInv, TypeOK', StackInv', NEW o \in Op, BeginTransaction(o)
    PROVE  StarterInv'
<1>1. Busy(o) /\ depth' = depth /\ turn' = turn /\ Top(o).handle = Pool
  BY DEF BeginTransaction, Begins, At, call
<1>2. PICK t \in Tx, g \in Frame :
           /\ txst[t] = "unused" /\ txst' = [txst EXCEPT ![t] = "open"]
           /\ txUnit' = [txUnit EXCEPT ![t] = Current(o)]
           /\ SetTop(o, g) /\ g.handle = t
  BY BeginFrame DEF StarterInv
<1>3. txst'[t] = "open" /\ txUnit'[t] = Current(o) /\ OwnersStay
  BY <1>2 DEF OwnersStay, StarterInv, TypeOK
<1>4. ASSUME NEW e \in 1 .. depth[o] - 1 PROVE frame[o][e].handle \notin Tx
  <2>1. depth[o] \in 1 .. depth[o] /\ StarterFacts(o) /\ Top(o) = frame[o][depth[o]]
    BY <1>1, TopFacts DEF StarterInv, Top
  <2>2. QED
    BY <1>1, <2>1, HandleAssumption DEF StarterFacts
<1>5. StarterFacts(o)'
  BY <1>1, <1>2, <1>3, <1>4, TopStarter
<1>6. \A p \in Op : p # o => frame'[p] = frame[p]
  BY <1>1, <1>2, SetTopFacts DEF StarterInv
<1>7. QED
  BY <1>1, <1>3, <1>5, <1>6, StarterFrom

LEMMA EndStarter ==
    ASSUME StarterInv, TypeOK', StackInv', NEW o \in Op, EndTransaction(o)
    PROVE  StarterInv'
<1>1. Busy(o) /\ depth' = depth /\ turn' = turn /\ txUnit' = txUnit
  <2>1. Busy(o) /\ UNCHANGED <<call, txUnit>>
    BY DEF EndTransaction, At
  <2>2. QED
    BY <2>1 DEF call
<1>2. OwnersStay
  <2>1. txst' = txst \/ \E t \in Tx, x \in {"committed", "rolledback"} : txst' = [txst EXCEPT ![t] = x]
    <3>1. TypeOK /\ Top(o).handle \in Tx \cup {Pool}
      BY <1>1, TopFacts DEF StarterInv, Frame
    <3>2. CASE ~Top(o).began
      BY <3>1, <3>2, EndFrame
    <3>3. CASE Top(o).began
      <4>1. PICK x \in {"committed", "rolledback"} : txst' = [txst EXCEPT ![Top(o).handle] = x]
        BY <3>1, <3>3, EndFrame
      <4>2. CASE Top(o).handle \in Tx
        BY <4>1, <4>2
      <4>3. CASE Top(o).handle = Pool
        <5>1. DOMAIN txst = Tx /\ Pool \notin Tx
          BY <3>1, HandleAssumption DEF TypeOK
        <5>2. QED
          BY <3>1, <4>1, <4>3, <5>1 DEF TypeOK
      <4>4. QED
        BY <3>1, <4>2, <4>3
    <3>4. QED
      BY <3>2, <3>3
  <2>2. QED
    BY <1>1, <2>1 DEF OwnersStay, StarterInv, TypeOK
<1>3. PICK g \in Frame : /\ SetTop(o, g)
                         /\ \/ g.handle = Top(o).handle /\ g.began = Top(o).began
                            \/ Top(o).began /\ g.handle = Pool
  BY EndFrame DEF Moved, StarterInv
<1>4. StarterFacts(o)'
  <2>1. CASE g.handle = Top(o).handle /\ g.began = Top(o).began
    BY <1>1, <1>2, <1>3, <2>1, KeptStarter
  <2>2. CASE Top(o).began /\ g.handle = Pool
    <3>1. depth[o] \in 1 .. depth[o] /\ StarterFacts(o) /\ Top(o) = frame[o][depth[o]]
      BY <1>1, TopFacts DEF StarterInv, Top
    <3>2. \A e \in 1 .. depth[o] - 1 : frame[o][e].handle \notin Tx
      BY <2>2, <3>1 DEF StarterFacts
    <3>3. QED
      BY <1>1, <1>2, <1>3, <2>2, <3>2, TopStarter, HandleAssumption
  <2>3. QED
    BY <1>3, <2>1, <2>2
<1>5. \A p \in Op : p # o => frame'[p] = frame[p]
  BY <1>1, <1>3, SetTopFacts DEF StarterInv
<1>6. QED
  BY <1>1, <1>2, <1>4, <1>5, StarterFrom

LEMMA OpenNestedStarter ==
    ASSUME StarterInv, TypeOK', StackInv', NEW o \in Op, OpenNested(o)
    PROVE  StarterInv'
<1> DEFINE n == depth[o]
<1>1. Busy(o) /\ n < MaxDepth /\ depth' = [depth EXCEPT ![o] = n + 1] /\ UNCHANGED <<turn, txst, txUnit>>
  BY DEF OpenNested, database
<1>2. n \in 1 .. MaxDepth /\ MaxDepth \in Nat /\ TypeOK /\ StarterFacts(o) /\ Top(o) = frame[o][n]
  BY <1>1, TopFacts, BoundAssumption DEF StarterInv, Top
<1>3. depth'[o] = n + 1 /\ \A p \in Op : p # o => depth'[p] = depth[p]
  BY <1>1, <1>2 DEF TypeOK
<1>4. PICK f \in Frame, g \in Frame :
           /\ frame'[o][n] = f /\ frame'[o][n + 1] = g
           /\ \A d \in 1 .. MaxDepth : d \notin {n, n + 1} => frame'[o][d] = frame[o][d]
           /\ \A q \in Op : q # o => frame'[q] = frame[q]
           /\ f.handle = Top(o).handle /\ f.began = Top(o).began
           /\ g.handle = Top(o).handle /\ ~g.began
  BY <1>2, OpenNestedFrame
<1> HIDE DEF n
<1>5. ASSUME NEW d \in 1 .. n
      PROVE  frame'[o][d].handle = frame[o][d].handle /\ frame'[o][d].began = frame[o][d].began
  <2>1. CASE d = n
    BY <1>2, <1>4, <2>1
  <2>2. CASE d # n
    BY <1>2, <1>4, <2>2
  <2>3. QED
    BY <2>1, <2>2
<1>6. Current(o)' = Current(o) /\ OwnersStay
  BY <1>1 DEF Current, OwnersStay
<1>7. \A d \in 1 .. n + 1 : d \in 1 .. n \/ d = n + 1
  BY <1>2
<1>8. \A d \in 1 .. n : Owned(o, frame[o][d])
  BY <1>2 DEF StarterFacts, n
<1>9. ASSUME NEW d \in 1 .. n + 1 PROVE Owned(o, frame[o][d])'
  <2>1. CASE d \in 1 .. n
    BY <1>1, <1>5, <1>6, <1>8, <2>1 DEF Owned
  <2>2. CASE d = n + 1
    <3>1. Owned(o, frame[o][n])
      BY <1>2, <1>8
    <3>2. QED
      BY <1>1, <1>2, <1>4, <1>6, <2>2, <3>1 DEF Owned
  <2>3. QED
    BY <1>7, <2>1, <2>2
<1>10. ASSUME NEW d \in 1 .. n, NEW e \in 1 .. d - 1, frame[o][e].handle \in Tx
       PROVE  frame[o][d].handle = frame[o][e].handle /\ ~frame[o][d].began
  BY <1>2, <1>10 DEF StarterFacts, n
<1>11. ASSUME NEW d \in 1 .. n + 1, NEW e \in 1 .. d - 1, frame'[o][e].handle \in Tx
       PROVE  frame'[o][d].handle = frame'[o][e].handle /\ ~frame'[o][d].began
  <2>1. e \in 1 .. n /\ frame[o][e].handle \in Tx
    BY <1>2, <1>5, <1>11
  <2>2. CASE d \in 1 .. n
    BY <1>5, <1>10, <1>11, <2>1, <2>2
  <2>3. CASE d = n + 1 /\ e = n
    BY <1>2, <1>4, <2>3
  <2>4. CASE d = n + 1 /\ e # n
    <3>1. n \in 1 .. n /\ e \in 1 .. n - 1
      BY <1>2, <2>1, <2>4
    <3>2. frame[o][n].handle = frame[o][e].handle
      BY <1>10, <2>1, <3>1
    <3>3. QED
      BY <1>2, <1>4, <1>5, <2>1, <2>4, <3>2
  <2>5. QED
    BY <1>7, <2>2, <2>3, <2>4
<1>12. StarterFacts(o)'
  BY <1>3, <1>9, <1>11 DEF StarterFacts
<1>13. \A p \in Op : p # o => frame'[p] = frame[p] /\ depth'[p] = depth[p] /\ turn'[p] = turn[p]
  BY <1>1, <1>3, <1>4
<1>14. QED
  BY <1>6, <1>12, <1>13, StarterFrom

\* The scope that falls back is replaced by one on the DB below, without a mark.
LEMMA FallBackStarter ==
    ASSUME StarterInv, TypeOK', StackInv', NEW o \in Op, FallBack(o)
    PROVE  StarterInv'
<1>1. /\ Busy(o) /\ depth' = depth /\ UNCHANGED <<txst, txUnit>>
      /\ (turn' = turn \/ (depth[o] = 1 /\ turn' = [turn EXCEPT ![o] = 2]))
  BY DEF FallBack, At, database
<1>2. depth[o] \in 1 .. MaxDepth /\ MaxDepth \in Nat /\ TypeOK /\ StarterFacts(o)
  BY <1>1, TopFacts, BoundAssumption DEF StarterInv
<1>3. PICK g \in Frame : SetTop(o, g) /\ g.handle = Base(o).handle /\ ~g.began
  BY <1>2, FallBackFrame
<1>4. OwnersStay
  BY <1>1 DEF OwnersStay
<1>5. /\ frame'[o][depth[o]] = g
      /\ \A p \in Op : p # o => frame'[p] = frame[p] /\ depth'[p] = depth[p] /\ turn'[p] = turn[p]
  <2>1. \A p \in Op : p # o => turn'[p] = turn[p]
    BY <1>1, <1>2 DEF TypeOK
  <2>2. QED
    BY <1>1, <1>2, <1>3, <2>1, SetTopFacts
<1>6. StarterFacts(o)'
  <2>1. CASE depth[o] = 1
    <3>1. g.handle = Pool
      BY <1>3, <2>1 DEF Base, NoFrame
    <3>2. QED
      BY <1>1, <1>5, <2>1, <3>1, PoolStarter
  <2>2. CASE depth[o] # 1
    <3>1. depth[o] - 1 \in 1 .. depth[o] /\ Base(o) = frame[o][depth[o] - 1] /\ turn'[o] = turn[o]
      BY <1>1, <1>2, <2>2 DEF Base
    <3>2. g.handle \in Tx => txst'[g.handle] # "unused" /\ txUnit'[g.handle] = Current(o)
      <4>1. Owned(o, Base(o))
        BY <1>2, <3>1 DEF StarterFacts
      <4>2. QED
        BY <1>1, <1>3, <4>1 DEF Owned
    <3>3. ASSUME NEW e \in 1 .. depth[o] - 1, frame[o][e].handle \in Tx
          PROVE  g.handle = frame[o][e].handle /\ ~g.began
      <4>1. CASE e = depth[o] - 1
        BY <1>3, <3>1, <4>1
      <4>2. CASE e # depth[o] - 1
        <5>1. e \in 1 .. (depth[o] - 1) - 1
          BY <1>2, <4>2
        <5>2. frame[o][depth[o] - 1].handle = frame[o][e].handle
          BY <1>2, <3>1, <3>3, <5>1 DEF StarterFacts
        <5>3. QED
          BY <1>3, <3>1, <5>2
      <4>3. QED
        BY <4>1, <4>2
    <3>4. QED
      BY <1>1, <1>3, <1>4, <3>1, <3>2, <3>3, TopStarter
  <2>3. QED
    BY <2>1, <2>2
<1>7. QED
  BY <1>4, <1>5, <1>6, StarterFrom

LEMMA ReturnNestedStarter ==
    ASSUME StarterInv, TypeOK', StackInv', NEW o \in Op, ReturnNested(o)
    PROVE  StarterInv'
<1> DEFINE n == depth[o] - 1
<1>1. Busy(o) /\ depth[o] > 1 /\ depth' = [depth EXCEPT ![o] = n] /\ UNCHANGED <<turn, txst, txUnit>>
  BY DEF ReturnNested, At, database
<1>2. /\ depth[o] \in 1 .. MaxDepth /\ MaxDepth \in Nat /\ n \in 1 .. MaxDepth /\ n < depth[o]
      /\ TypeOK /\ StackInv /\ StarterFacts(o) /\ Base(o) = frame[o][n]
  BY <1>1, TopFacts, BoundAssumption DEF StarterInv, Base
<1>3. depth'[o] = n /\ \A p \in Op : p # o => depth'[p] = depth[p]
  BY <1>1, <1>2 DEF TypeOK
<1>4. PICK f \in Frame :
           /\ frame'[o][n] = f
           /\ \A d \in 1 .. MaxDepth : d \notin {n, depth[o]} => frame'[o][d] = frame[o][d]
           /\ \A q \in Op : q # o => frame'[q] = frame[q]
           /\ f.handle = Base(o).handle /\ f.began = Base(o).began
  BY <1>2, ReturnNestedFrame
<1> HIDE DEF n
<1>5. ASSUME NEW d \in 1 .. n
      PROVE  /\ d \in 1 .. depth[o]
             /\ frame'[o][d].handle = frame[o][d].handle /\ frame'[o][d].began = frame[o][d].began
  <2>1. d \in 1 .. depth[o] /\ d \in 1 .. MaxDepth /\ d # depth[o]
    BY <1>2
  <2>2. CASE d = n
    BY <1>2, <1>4, <2>1, <2>2
  <2>3. CASE d # n
    BY <1>4, <2>1, <2>3
  <2>4. QED
    BY <2>1, <2>2, <2>3
<1>6. Current(o)' = Current(o) /\ OwnersStay
  BY <1>1 DEF Current, OwnersStay
<1>7. ASSUME NEW d \in 1 .. n PROVE Owned(o, frame[o][d])'
  <2>1. Owned(o, frame[o][d])
    BY <1>2, <1>5 DEF StarterFacts
  <2>2. QED
    BY <1>1, <1>5, <1>6, <2>1 DEF Owned
<1>8. ASSUME NEW d \in 1 .. n, NEW e \in 1 .. d - 1, frame'[o][e].handle \in Tx
      PROVE  frame'[o][d].handle = frame'[o][e].handle /\ ~frame'[o][d].began
  <2>1. e \in 1 .. n
    BY <1>2
  <2>2. frame[o][e].handle \in Tx /\ d \in 1 .. depth[o]
    BY <1>5, <1>8, <2>1
  <2>3. frame[o][d].handle = frame[o][e].handle /\ ~frame[o][d].began
    BY <1>2, <2>2 DEF StarterFacts
  <2>4. QED
    BY <1>5, <2>1, <2>3
<1>9. StarterFacts(o)'
  BY <1>3, <1>7, <1>8 DEF StarterFacts
<1>10. \A p \in Op : p # o => frame'[p] = frame[p] /\ depth'[p] = depth[p] /\ turn'[p] = turn[p]
  BY <1>1, <1>3, <1>4
<1>11. QED
  BY <1>6, <1>9, <1>10, StarterFrom

\* The first scope of a call is pushed, or the last one is gone.
LEMMA EdgeStarter ==
    ASSUME StarterInv, TypeOK', StackInv', NEW o \in Op, Call(o) \/ ReturnToCaller(o)
    PROVE  StarterInv'
<1>1. /\ UNCHANGED <<txst, txUnit>>
      /\ turn' = turn \/ turn' = [turn EXCEPT ![o] = 1]
      /\ depth' = [depth EXCEPT ![o] = 0] \/ (Call(o) /\ depth' = [depth EXCEPT ![o] = 1])
  BY DEF Call, ReturnToCaller, database
<1>2. Call(o) => frame'[o][1].handle = Pool
  BY CallFrame DEF StarterInv
<1>3. \A p \in Op : p # o => frame'[p] = frame[p]
  <2>1. CASE Call(o)
    BY <2>1, CallFrame DEF StarterInv
  <2>2. CASE ReturnToCaller(o)
    BY <2>2, NoFrameType, SetTopFacts DEF ReturnToCaller, At, StarterInv
  <2>3. QED
    BY <2>1, <2>2
<1>4. /\ depth'[o] = 0 \/ (Call(o) /\ depth'[o] = 1)
      /\ \A p \in Op : p # o => depth'[p] = depth[p] /\ turn'[p] = turn[p]
  BY <1>1 DEF StarterInv, TypeOK
<1>5. StarterFacts(o)'
  BY <1>2, <1>4, PoolStarter
<1>6. OwnersStay
  BY <1>1 DEF OwnersStay
<1>7. QED
  BY <1>3, <1>4, <1>5, <1>6, StarterFrom

LEMMA StarterHolds == Spec => []StarterInv
<1>1. Init => StarterInv
  <2> SUFFICES ASSUME Init PROVE StarterInv
    OBVIOUS
  <2>1. \A o \in Op : depth[o] = 0
    BY DEF Init
  <2>2. QED
    BY <2>1, TypeInit DEF StarterInv, StarterFacts
<1>2. StarterInv /\ [Next]_vars => StarterInv'
  <2> SUFFICES ASSUME StarterInv, [Next]_vars PROVE StarterInv'
    OBVIOUS
  <2>1. TypeOK' /\ StackInv'
    BY TypeStep DEF StarterInv
  <2>2. CASE UNCHANGED vars
    <3>1. \A o \in Op : StarterFacts(o)'
      BY <2>2, OthersKeepStarter DEF StarterInv, OwnersStay, vars
    <3>2. QED
      BY <2>1, <3>1 DEF StarterInv
  <2>3. ASSUME NEW o \in Op, Call(o) \/ Step(o) PROVE StarterInv'
    BY <2>1, <2>3, PlainStarter, BeginStarter, EndStarter, OpenNestedStarter, FallBackStarter,
       ReturnNestedStarter, EdgeStarter DEF Step, Plain
  <2>4. QED
    BY <2>2, <2>3 DEF Next
<1>3. QED
  BY <1>1, <1>2, PTL DEF Spec

LEMMA OpenStays ==
    ASSUME TypeOK, NEW o \in Op, Call(o) \/ Step(o), ~EndTransaction(o), NEW t \in Tx, txst[t] = "open"
    PROVE  txst'[t] = "open"
<1>1. CASE BeginTransaction(o)
  BY <1>1, SMTT(30) DEF BeginTransaction, TypeOK
<1>2. CASE Plain(o)
  BY <1>2 DEF Plain, NoTransaction, Before, After, Exec, NoColumns, SetColumnFails, LeaveLoop,
     LinkExisting, Link, database
<1>3. CASE Call(o) \/ BeginFails(o) \/ OpenNested(o) \/ ReturnNested(o) \/ ReturnToCaller(o)
  BY <1>3 DEF Call, BeginFails, OpenNested, ReturnNested, ReturnToCaller, database
<1>4. CASE FallBack(o) \/ Lookup(o)
  BY <1>4 DEF FallBack, Lookup, database
<1>5. QED
  BY <1>1, <1>2, <1>3, <1>4 DEF Step, Plain

\* Whoever else is on a transaction is of its unit, and above the scope that began it.
LEMMA EndsAlone ==
    ASSUME StarterInv, NEW o \in Op, EndTransaction(o), NEW t \in Tx, txst[t] = "open", txst'[t] # "open"
    PROVE  /\ At(o, "finish")
           /\ txUnit[t] = Current(o)
           /\ \A p \in Op : \A d \in 1 .. depth[p] : frame[p][d].handle = t => p = o /\ d = depth[o]
<1>1. At(o, "finish") /\ Busy(o) /\ Top(o).began /\ t = Top(o).handle
  BY DEF EndTransaction, At, StarterInv, TypeOK
<1>2. /\ depth[o] \in 1 .. depth[o] /\ depth[o] \in Nat /\ StarterFacts(o) /\ Top(o) = frame[o][depth[o]]
  BY <1>1, TopFacts DEF StarterInv, Top
<1>3. txUnit[t] = Current(o)
  BY <1>1, <1>2 DEF StarterFacts, Owned
<1>4. ASSUME NEW p \in Op, NEW d \in 1 .. depth[p], frame[p][d].handle = t
      PROVE  p = o /\ d = depth[o]
  <2>1. txUnit[t] = Current(p)
    BY <1>4 DEF StarterInv, StarterFacts, Owned
  <2>2. p = o
    BY <1>3, <2>1 DEF Current
  <2>3. d # depth[o] => d \in 1 .. depth[o] - 1
    BY <1>2, <1>4, <2>2
  <2>4. QED
    BY <1>1, <1>2, <1>4, <2>2, <2>3 DEF StarterFacts
<1>5. QED
  BY <1>1, <1>3, <1>4

\* Whatever fails, Begin included, and however deep the scopes nest: a transaction is ended by
\* the scope that began it, when no other scope is on it any more (CommitOrRollback; NewDB hands
\* on the handle, InstanceSet keeps the mark).
THEOREM EndedByStarterHolds == Spec => EndedByStarter
<1> DEFINE A == \A t \in Tx : (txst[t] = "open" /\ txst'[t] # "open") =>
                  \E o \in Op : /\ At(o, "finish")
                                /\ txUnit[t] = Current(o)
                                /\ \A p \in Op : \A d \in 1 .. depth[p] :
                                     frame[p][d].handle = t => p = o /\ d = depth[o]
<1>1. StarterInv /\ [Next]_vars => [A]_vars
  <2> SUFFICES ASSUME StarterInv, Next, NEW t \in Tx, txst[t] = "open", txst'[t] # "open"
               PROVE  \E o \in Op : /\ At(o, "finish")
                                    /\ txUnit[t] = Current(o)
                                    /\ \A p \in Op : \A d \in 1 .. depth[p] :
                                         frame[p][d].handle = t => p = o /\ d = depth[o]
    OBVIOUS
  <2>1. PICK o \in Op : Call(o) \/ Step(o)
    BY DEF Next, vars
  <2>2. EndTransaction(o)
    BY <2>1, OpenStays DEF StarterInv
  <2>3. QED
    BY <2>2, EndsAlone
<1>2. QED
  BY <1>1, StarterHolds, PTL DEF Spec, EndedByStarter
-----------------------------------------------------------------------------
(* If Begin does not fail: facts shared by the actions *)

\* What another goroutine does to its own scopes and unit is no concern of p.
LEMMA OthersKeep ==
    ASSUME IInv, NEW p \in Op,
           depth'[p] = depth[p], turn'[p] = turn[p], frame'[p] = frame[p],
           \A k \in {1, 2} : /\ st'[<<p, k>>] = st[<<p, k>>]
                             /\ visible'[<<p, k>>] = visible[<<p, k>>],
           \A t \in Tx, k \in {1, 2} : /\ txUnit'[t] = <<p, k>> => txUnit[t] = <<p, k>>
                                       /\ txUnit[t] = <<p, k>> => txUnit'[t] = <<p, k>> /\ txst'[t] = txst[t]
    PROVE  (\A k \in {1, 2} : UnitFacts(p, k)') /\ (Busy(p)' => ScopeFacts(p)')
<1>1. Busy(p)' = Busy(p) /\ Top(p)' = Top(p)
  BY DEF Busy, Top
<1>2. \A k \in {1, 2} : Fresh(<<p, k>>) => Fresh(<<p, k>>)'
  BY DEF Fresh
<1>3. \A k \in {1, 2} : /\ Published(<<p, k>>) => Published(<<p, k>>)'
                        /\ Ended(<<p, k>>) => Ended(<<p, k>>)'
  BY DEF Published, Ended
<1>4. ASSUME NEW k \in {1, 2} PROVE UnitFacts(p, k)'
  <2>1. UnitFacts(p, k)
    BY DEF IInv, UnitInv
  <2>2. At(p, "lookup")' = At(p, "lookup")
    BY <1>1 DEF At
  <2>3. QED
    BY <1>1, <1>2, <1>3, <2>1, <2>2 DEF UnitFacts
<1>5. ASSUME Busy(p) PROVE ScopeFacts(p)'
  <2>1. ScopeFacts(p)
    BY <1>5 DEF IInv, ScopeInv
  <2>2. turn[p] \in {1, 2} /\ Current(p) = <<p, turn[p]>> /\ Current(p)' = Current(p)
    BY <1>5, CurrentFacts DEF IInv, Current
  <2>3. OuterInv(p, frame[p][1], Current(p))'
    BY <1>2, <1>3, <2>1, <2>2 DEF ScopeFacts, OuterInv
  <2>4. NestedInv(p)'
    BY <2>1 DEF ScopeFacts, NestedInv
  <2>5. QED
    BY <2>1, <2>2, <2>3, <2>4 DEF ScopeFacts
<1>6. QED
  BY <1>1, <1>4, <1>5

\* The scopes of a call past its Begin share the open transaction of its unit.
LEMMA TopHandle ==
    ASSUME IInv, NEW o \in Op, Busy(o),
           depth[o] = 1 => Top(o).cb \in (Callbacks \ {"begin"}) \cup {"link"}
    PROVE  /\ Top(o).handle \in Tx
           /\ frame[o][1].handle = Top(o).handle
           /\ frame[o][1].began
           /\ txst[Top(o).handle] = "open"
           /\ txUnit[Top(o).handle] = Current(o)
           /\ depth[o] > 1 => ~Top(o).began
           /\ st[Current(o)] = "running"
<1>1. /\ ScopeFacts(o) /\ OuterInv(o, frame[o][1], Current(o)) /\ NestedInv(o)
      /\ turn[o] \in {1, 2} /\ Current(o) = <<o, turn[o]>>
      /\ depth[o] \in 1 .. MaxDepth
  BY CurrentFacts, TopFacts DEF IInv, ScopeInv, ScopeFacts
<1>2. depth[o] > 1 => frame[o][1].cb \in Loops
  BY <1>1, BoundAssumption DEF IInv, StackInv
<1>3. frame[o][1].cb \in (Callbacks \ {"begin"}) \cup {"link"}
  BY <1>1, <1>2 DEF Top, Callbacks, Loops
<1>4. frame[o][1].handle \in Tx
  BY <1>1, <1>3 DEF OuterInv
<1>5. Top(o).handle = frame[o][1].handle /\ (depth[o] > 1 => ~Top(o).began)
  BY <1>1, BoundAssumption DEF NestedInv, Top
<1>6. /\ frame[o][1].began /\ txst[frame[o][1].handle] = "open"
      /\ txUnit[frame[o][1].handle] = Current(o)
  BY <1>1, <1>4 DEF OuterInv
<1>7. st[Current(o)] = "running"
  <2>1. ~(At(o, "lookup") /\ depth[o] = 1)
    BY DEF At, Callbacks, Loops
  <2>2. UnitFacts(o, turn[o])
    BY <1>1 DEF IInv, UnitInv
  <2>3. QED
    BY <1>1, <2>1, <2>2 DEF UnitFacts, ScopeFacts
<1>8. QED
  BY <1>4, <1>5, <1>6, <1>7

\* The parts of IInv put together again.
LEMMA IInvFrom ==
    ASSUME TypeOK', StackInv', TxInv', NEW o \in Op,
           \A k \in {1, 2} : UnitFacts(o, k)',
           Busy(o)' => ScopeFacts(o)',
           \A p \in Op : p # o => /\ \A k \in {1, 2} : UnitFacts(p, k)'
                                  /\ Busy(p)' => ScopeFacts(p)'
    PROVE  IInv'
<1>1. UnitInv'
  BY DEF UnitInv
<1>2. ScopeInv'
  BY DEF ScopeInv
<1>3. QED
  BY <1>1, <1>2 DEF IInv

\* Statements of a scope stay in the transaction it is on.
LEMMA TxKeeps ==
    ASSUME IInv, UNCHANGED <<visible, txst, txUnit>>,
           \A t \in Tx : pend'[t] => pend[t] \/ txst[t] = "open"
    PROVE  TxInv'
  BY DEF IInv, TxInv
-----------------------------------------------------------------------------
(* Plain steps *)

\* A plain step writes nowhere but in the open transaction of its call.
LEMMA PlainWrites ==
    ASSUME IInv, NEW o \in Op, Plain(o)
    PROVE  /\ Busy(o)
           /\ Top(o).handle \in Tx
           /\ frame[o][1].handle = Top(o).handle
           /\ txst[Top(o).handle] = "open"
           /\ txUnit[Top(o).handle] = Current(o)
           /\ depth[o] > 1 => ~Top(o).began
           /\ st[Current(o)] = "running"
           /\ UNCHANGED <<kind, depth, turn, st, visible, txst, txUnit>>
           /\ \A t \in Tx : /\ t # Top(o).handle => pend'[t] = pend[t]
                            /\ pend[t] => pend'[t]
<1>1. Busy(o) /\ UNCHANGED <<kind, depth, turn, st, txst, txUnit>>
  BY DEF Plain, NoTransaction, Before, After, Exec, NoColumns, SetColumnFails, LeaveLoop, LinkExisting, Link,
         At, database, call
<1>2. depth[o] = 1 => Top(o).cb \in (Callbacks \ {"begin"}) \cup {"link"}
  <2>1. CASE NoTransaction(o)
    <3>1. Top(o).noTx \/ Top(o).handle # Pool
      BY <2>1 DEF NoTransaction, Begins
    <3>2. ASSUME depth[o] = 1 PROVE FALSE
      <4>1. OuterInv(o, Top(o), Current(o)) /\ Top(o).cb = "begin"
        BY <1>1, <2>1, <3>2, SMTT(30) DEF IInv, ScopeInv, ScopeFacts, Top, NoTransaction, At
      <4>2. QED
        BY <3>1, <4>1 DEF OuterInv
    <3>3. QED
      BY <3>2
  <2>2. CASE ~NoTransaction(o)
    BY <2>2 DEF Plain, Before, After, Exec, NoColumns, SetColumnFails, LeaveLoop, LinkExisting, Link, At,
                Callbacks, Loops
  <2>3. QED
    BY <2>1, <2>2
<1>3. /\ Top(o).handle \in Tx
      /\ frame[o][1].handle = Top(o).handle
      /\ txst[Top(o).handle] = "open"
      /\ txUnit[Top(o).handle] = Current(o)
      /\ depth[o] > 1 => ~Top(o).began
      /\ st[Current(o)] = "running"
  BY <1>1, <1>2, TopHandle
<1>4. ASSUME NEW done, Wrote(o, Top(o).handle, done)
      PROVE  /\ visible' = visible
             /\ \A t \in Tx : (t # Top(o).handle => pend'[t] = pend[t]) /\ (pend[t] => pend'[t])
  <2>1. Top(o).handle # Pool
    BY <1>3, HandleAssumption
  <2>2. /\ visible' = visible
        /\ pend' = [pend EXCEPT ![Top(o).handle] = pend[Top(o).handle] \/ done]
    BY <1>4, <2>1 DEF Wrote
  <2>3. QED
    BY <2>2 DEF IInv, TypeOK
<1>5. /\ visible' = visible
      /\ \A t \in Tx : (t # Top(o).handle => pend'[t] = pend[t]) /\ (pend[t] => pend'[t])
  <2>1. CASE \/ NoTransaction(o) \/ Before(o) \/ After(o) \/ NoColumns(o) \/ SetColumnFails(o)
             \/ LeaveLoop(o) \/ LinkExisting(o)
    BY <2>1 DEF NoTransaction, Before, After, NoColumns, SetColumnFails, LeaveLoop, LinkExisting, database
  <2>2. CASE Exec(o)
    BY <1>4, <2>2 DEF Exec
  <2>3. CASE Link(o)
    <3>1. Top(o) \in Frame
      BY <1>1, TopFacts DEF IInv
    <3>2. [Top(o) EXCEPT !.cb = "saveAfter", !.linkErr = FALSE].handle = Top(o).handle
      BY <3>1 DEF Frame
    <3>3. \/ visible' = visible /\ pend' = pend
          \/ \E out \in Outcome : Wrote(o, Top(o).handle, out.done)
      BY <2>3, <3>2 DEF Link, effects
    <3>4. QED
      BY <1>4, <3>3
  <2>4. QED
    BY <2>1, <2>2, <2>3 DEF Plain
<1>6. QED
  BY <1>1, <1>3, <1>5, SMTT(30)

LEMMA PlainInv ==
    ASSUME IInv, NEW o \in Op, Plain(o)
    PROVE  IInv'
<1>1. TypeOK' /\ StackInv'
  BY PlainType DEF IInv
<1>2. PICK g \in Frame : SetTop(o, g) /\ Moved(Top(o), g)
  BY PlainMoves DEF IInv
<1>3. /\ Busy(o)
      /\ Top(o).handle \in Tx
      /\ frame[o][1].handle = Top(o).handle
      /\ txst[Top(o).handle] = "open"
      /\ txUnit[Top(o).handle] = Current(o)
      /\ depth[o] > 1 => ~Top(o).began
      /\ st[Current(o)] = "running"
      /\ UNCHANGED <<kind, depth, turn, st, visible, txst, txUnit>>
      /\ \A t \in Tx : t # Top(o).handle => pend'[t] = pend[t]
  BY PlainWrites
<1>4. /\ depth[o] \in 1 .. MaxDepth /\ turn[o] \in {1, 2} /\ Current(o) = <<o, turn[o]>>
      /\ Current(o)' = Current(o) /\ Busy(o)'
  BY <1>3, TopFacts, CurrentFacts DEF IInv, Current, Busy
<1>5. /\ frame'[o][depth[o]] = g
      /\ \A d \in 1 .. MaxDepth : d # depth[o] => frame'[o][d] = frame[o][d]
      /\ \A p \in Op : p # o => frame'[p] = frame[p]
  BY <1>2, <1>3, SetTopFacts DEF IInv
<1>6. TxInv'
  BY <1>3, TxKeeps
<1>7. ASSUME NEW k \in {1, 2} PROVE UnitFacts(o, k)'
  <2>1. UnitFacts(o, k)
    BY DEF IInv, UnitInv
  <2>2. /\ (Fresh(<<o, k>>) => Fresh(<<o, k>>)')
        /\ (Published(<<o, k>>) => Published(<<o, k>>)')
        /\ (Ended(<<o, k>>) => Ended(<<o, k>>)')
    BY <1>3 DEF Fresh, Published, Ended
  <2>3. QED
    BY <1>3, <1>4, <2>1, <2>2 DEF UnitFacts
<1>8. ScopeFacts(o)'
  <2>1. ScopeFacts(o)
    BY <1>3 DEF IInv, ScopeInv
  <2>2. NestedInv(o)'
    BY <1>2, <1>3, <1>4, <1>5, <2>1, BoundAssumption DEF ScopeFacts, NestedInv, Moved, Top
  <2>3. CASE depth[o] = 1
    <3>1. Top(o) = frame[o][1] /\ frame'[o][1] = g
      BY <1>5, <2>3 DEF Top
    <3>2. OuterInv(o, frame[o][1], Current(o))
      BY <2>1 DEF ScopeFacts
    <3>3. Pool \notin Tx
      BY HandleAssumption
    <3>4. /\ g.handle = Top(o).handle /\ g.began /\ ~g.noTx /\ (turn[o] = 2 => g.chain = "create")
          /\ g.cb = "end" => g.err \/ g.skip
          /\ g.cb \notin {"begin", "lookup"}
          /\ g.cb # "end" => ~g.skip
      <4>1. /\ Top(o).began /\ ~Top(o).noTx /\ (turn[o] = 2 => Top(o).chain = "create")
            /\ (Top(o).skip => Top(o).cb = "end")
        BY <1>3, <3>1, <3>2, SMTT(30) DEF OuterInv
      <4>2. Top(o).cb \notin {"finish", "end"}
        BY DEF Plain, NoTransaction, Before, After, Exec, NoColumns, SetColumnFails, LeaveLoop,
               LinkExisting, Link, At, Loops
      <4>3. QED
        BY <1>2, <1>3, <4>1, <4>2 DEF Moved, Callbacks, Loops
    <3>5. OuterInv(o, g, Current(o))'
      BY <1>3, <1>4, <3>3, <3>4 DEF OuterInv
    <3>6. QED
      BY <1>3, <1>4, <2>1, <2>2, <3>1, <3>5 DEF ScopeFacts
  <2>4. CASE depth[o] # 1
    <3>1. frame'[o][1] = frame[o][1]
      BY <1>4, <1>5, <2>4, BoundAssumption
    <3>2. /\ (Fresh(Current(o)) => Fresh(Current(o))')
          /\ (Published(Current(o)) => Published(Current(o))')
          /\ (Ended(Current(o)) => Ended(Current(o))')
      BY <1>3, <1>4 DEF Fresh, Published, Ended
    <3>3. OuterInv(o, frame[o][1], Current(o))'
      BY <1>3, <1>4, <2>1, <3>1, <3>2 DEF ScopeFacts, OuterInv
    <3>4. QED
      BY <1>3, <1>4, <2>1, <2>2, <3>3 DEF ScopeFacts
  <2>5. QED
    BY <2>3, <2>4
<1>9. ASSUME NEW p \in Op, p # o
      PROVE  (\A k \in {1, 2} : UnitFacts(p, k)') /\ (Busy(p)' => ScopeFacts(p)')
  BY <1>3, <1>5, <1>9, OthersKeep
<1>10. QED
  BY <1>1, <1>6, <1>7, <1>8, <1>9, IInvFrom
-----------------------------------------------------------------------------
(* Steps that start, begin, nest, finish and return *)

LEMMA CallInv ==
    ASSUME IInv, NEW o \in Op, Call(o)
    PROVE  IInv'
<1>1. TypeOK' /\ StackInv'
  BY CallType DEF IInv
<1>2. PICK g \in Frame : /\ frame'[o][1] = g
                         /\ g.handle = Pool /\ g.cb = "begin"
                         /\ ~g.noTx /\ ~g.began /\ ~g.skip /\ ~g.err
  BY CallFrame DEF IInv
<1>3. \A p \in Op : p # o => frame'[p] = frame[p]
  BY CallFrame DEF IInv
<1>4. /\ turn[o] = 0
      /\ depth' = [depth EXCEPT ![o] = 1] /\ turn' = [turn EXCEPT ![o] = 1]
      /\ st' = [st EXCEPT ![<<o, 1>>] = "running"]
      /\ UNCHANGED <<visible, failed, txst, txUnit, pend>>
  BY DEF Call, database
<1>5. /\ depth'[o] = 1 /\ turn'[o] = 1
      /\ \A p \in Op : p # o => depth'[p] = depth[p] /\ turn'[p] = turn[p]
  BY <1>4 DEF IInv, TypeOK
<1>6. /\ st'[<<o, 1>>] = "running" /\ st'[<<o, 2>>] = st[<<o, 2>>]
      /\ \A p \in Op, k \in {1, 2} : p # o => st'[<<p, k>>] = st[<<p, k>>]
  BY <1>4 DEF IInv, TypeOK, Unit
<1>7. /\ \A k \in {1, 2} : st[<<o, k>>] = "idle"
      /\ \A k \in {1, 2} : Fresh(<<o, k>>)
  BY <1>4 DEF IInv, UnitInv, UnitFacts
<1>8. \A k \in {1, 2} : Fresh(<<o, k>>)'
  BY <1>4, <1>7 DEF Fresh
<1>9. TxInv'
  BY <1>4, TxKeeps
<1>10. Busy(o)' /\ Current(o)' = <<o, 1>>
  BY <1>5 DEF Busy, Current
<1>11. ASSUME NEW k \in {1, 2} PROVE UnitFacts(o, k)'
  BY <1>5, <1>6, <1>7, <1>8, <1>10 DEF UnitFacts
<1>12. ScopeFacts(o)'
  <2>1. OuterInv(o, g, <<o, 1>>)'
    BY <1>2, <1>5, <1>8, HandleAssumption DEF OuterInv, Callbacks, Loops
  <2>2. NestedInv(o)'
    BY <1>5 DEF NestedInv
  <2>3. QED
    BY <1>2, <1>6, <1>10, <2>1, <2>2 DEF ScopeFacts
<1>13. ASSUME NEW p \in Op, p # o
       PROVE  (\A k \in {1, 2} : UnitFacts(p, k)') /\ (Busy(p)' => ScopeFacts(p)')
  BY <1>3, <1>4, <1>5, <1>6, <1>13, OthersKeep
<1>14. QED
  BY <1>1, <1>9, <1>11, <1>12, <1>13, IInvFrom

\* Only the outermost scope begins, and its unit has no transaction yet.
LEMMA BeginInv ==
    ASSUME IInv, NEW o \in Op, BeginTransaction(o)
    PROVE  IInv'
<1>1. TypeOK' /\ StackInv'
  BY BeginType DEF IInv
<1>2. PICK t \in Tx, g \in Frame :
             /\ txst[t] = "unused"
             /\ txst' = [txst EXCEPT ![t] = "open"]
             /\ txUnit' = [txUnit EXCEPT ![t] = Current(o)]
             /\ SetTop(o, g)
             /\ g.handle = t /\ g.began /\ g.noTx = Top(o).noTx /\ g.chain = Top(o).chain
             /\ g.cb \in (Callbacks \ {"begin"}) \cup {"end"}
             /\ g.cb = "end" => g.err \/ g.skip
             /\ g.cb # "end" => ~g.skip
  BY BeginFrame DEF IInv
<1>3. /\ Busy(o) /\ Top(o).cb = "begin" /\ Top(o).handle = Pool /\ ~Top(o).noTx
      /\ UNCHANGED <<depth, turn, st, visible, pend>>
  BY DEF BeginTransaction, At, Begins, call, effects
<1>4. /\ depth[o] \in 1 .. MaxDepth /\ turn[o] \in {1, 2} /\ Current(o) = <<o, turn[o]>>
      /\ Current(o) \in Unit /\ Current(o)' = Current(o) /\ Busy(o)'
  BY <1>3, TopFacts, CurrentFacts DEF IInv, Current, Busy
<1>5. ScopeFacts(o)
  BY <1>3 DEF IInv, ScopeInv
<1>6. depth[o] = 1
  BY <1>3, HandleAssumption, TopHandle
<1>7. Top(o) = frame[o][1]
  BY <1>6 DEF Top
<1>8. Fresh(Current(o)) /\ (turn[o] = 2 => Top(o).chain = "create")
  BY <1>3, <1>5, <1>7 DEF ScopeFacts, OuterInv
<1>9. /\ frame'[o][1] = g
      /\ \A p \in Op : p # o => frame'[p] = frame[p]
  BY <1>2, <1>3, <1>6, SetTopFacts DEF IInv
<1>10. /\ txst'[t] = "open" /\ txUnit'[t] = Current(o)
       /\ \A x \in Tx : x # t => txst'[x] = txst[x] /\ txUnit'[x] = txUnit[x]
  BY <1>2 DEF IInv, TypeOK
<1>11. Current(o) # None /\ ~visible[Current(o)] /\ (\A x \in Tx : txUnit[x] # Current(o)) /\ ~pend[t]
  <2>1. Current(o) # None
    BY <1>4, UnitAssumption DEF Unit
  <2>2. ~pend[t]
    BY <1>2 DEF IInv, TxInv
  <2>3. QED
    BY <1>8, <2>1, <2>2 DEF Fresh
<1>12. TxInv'
  BY <1>3, <1>10, <1>11 DEF IInv, TxInv
<1>13. st[Current(o)] = "running"
  <2>1. UnitFacts(o, turn[o])
    BY <1>4 DEF IInv, UnitInv
  <2>2. ~At(o, "lookup")
    BY <1>3 DEF At
  <2>3. QED
    BY <1>4, <1>5, <2>1, <2>2 DEF UnitFacts, ScopeFacts
<1>14. ASSUME NEW k \in {1, 2} PROVE UnitFacts(o, k)'
  <2>1. UnitFacts(o, k)
    BY DEF IInv, UnitInv
  <2>2. CASE k = turn[o]
    BY <1>3, <1>4, <1>13, <2>1, <2>2 DEF UnitFacts
  <2>3. CASE k # turn[o]
    <3>1. <<o, k>> # Current(o)
      BY <1>4, <2>3
    <3>2. /\ (Fresh(<<o, k>>) => Fresh(<<o, k>>)')
          /\ (Published(<<o, k>>) => Published(<<o, k>>)')
          /\ (Ended(<<o, k>>) => Ended(<<o, k>>)')
      BY <1>3, <1>10, <3>1 DEF Fresh, Published, Ended
    <3>3. QED
      BY <1>3, <1>4, <2>1, <2>3, <3>2 DEF UnitFacts
  <2>4. QED
    BY <2>2, <2>3
<1>15. ScopeFacts(o)'
  <2>1. OuterInv(o, g, Current(o))'
    BY <1>2, <1>3, <1>4, <1>8, <1>10, HandleAssumption DEF OuterInv, Callbacks, Loops
  <2>2. NestedInv(o)'
    BY <1>3, <1>6 DEF NestedInv
  <2>3. QED
    BY <1>3, <1>4, <1>5, <1>9, <2>1, <2>2 DEF ScopeFacts
<1>16. ASSUME NEW p \in Op, p # o
       PROVE  (\A k \in {1, 2} : UnitFacts(p, k)') /\ (Busy(p)' => ScopeFacts(p)')
  <2>1. ASSUME NEW x \in Tx, NEW k \in {1, 2}
        PROVE  /\ txUnit'[x] = <<p, k>> => txUnit[x] = <<p, k>>
               /\ txUnit[x] = <<p, k>> => txUnit'[x] = <<p, k>> /\ txst'[x] = txst[x]
    <3>1. <<p, k>> # Current(o) /\ <<p, k>> \in Unit
      BY <1>4, <1>16 DEF Unit
    <3>2. txUnit[t] = None
      BY <1>2 DEF IInv, TxInv
    <3>3. <<p, k>> # None
      BY <3>1, UnitAssumption DEF Unit
    <3>4. QED
      BY <1>10, <3>1, <3>2, <3>3
  <2>2. QED
    BY <1>3, <1>9, <1>16, <2>1, OthersKeep
<1>17. QED
  BY <1>1, <1>12, <1>14, <1>15, <1>16, IInvFrom

LEMMA OpenNestedInv ==
    ASSUME IInv, NEW o \in Op, OpenNested(o)
    PROVE  IInv'
<1>1. TypeOK' /\ StackInv'
  BY OpenNestedType DEF IInv
<1>2. PICK f \in Frame, g \in Frame :
             /\ frame'[o][depth[o]] = f
             /\ frame'[o][depth[o] + 1] = g
             /\ \A d \in 1 .. MaxDepth : d \notin {depth[o], depth[o] + 1} => frame'[o][d] = frame[o][d]
             /\ \A q \in Op : q # o => frame'[q] = frame[q]
             /\ f.handle = Top(o).handle /\ f.began = Top(o).began /\ f.noTx = Top(o).noTx
             /\ f.chain = Top(o).chain /\ f.cb = Top(o).cb /\ f.skip = Top(o).skip
             /\ g.handle = Top(o).handle /\ ~g.began
  BY OpenNestedFrame DEF IInv
<1>3. /\ Busy(o) /\ Top(o).cb \in Loops /\ depth[o] < MaxDepth
      /\ depth' = [depth EXCEPT ![o] = @ + 1]
      /\ UNCHANGED <<turn, st, visible, txst, txUnit, pend>>
  BY DEF OpenNested, database
<1>4. /\ depth[o] \in 1 .. MaxDepth /\ turn[o] \in {1, 2} /\ Current(o) = <<o, turn[o]>>
      /\ Current(o)' = Current(o)
  BY <1>3, TopFacts, CurrentFacts DEF IInv, Current
<1>5. /\ depth'[o] = depth[o] + 1
      /\ \A p \in Op : p # o => depth'[p] = depth[p]
  BY <1>3 DEF IInv, TypeOK
<1>6. /\ ScopeFacts(o) /\ frame[o][1].handle = Top(o).handle /\ st[Current(o)] = "running"
      /\ (depth[o] > 1 => ~Top(o).began)
  BY <1>3, TopHandle DEF IInv, ScopeInv, Callbacks, Loops
<1>7. TxInv'
  BY <1>3, TxKeeps
<1>8. \A k \in {1, 2} : /\ Fresh(<<o, k>>) => Fresh(<<o, k>>)'
                        /\ Published(<<o, k>>) => Published(<<o, k>>)'
                        /\ Ended(<<o, k>>) => Ended(<<o, k>>)'
  BY <1>3 DEF Fresh, Published, Ended
<1>9. Busy(o)'
  BY <1>4, <1>5 DEF Busy
<1>10. ASSUME NEW k \in {1, 2} PROVE UnitFacts(o, k)'
  <2>1. UnitFacts(o, k)
    BY DEF IInv, UnitInv
  <2>2. QED
    BY <1>3, <1>4, <1>6, <1>8, <1>9, <2>1 DEF UnitFacts
<1>11. ScopeFacts(o)'
  <2>1. frame'[o][1].handle = frame[o][1].handle
    BY <1>2, <1>4, <1>6, BoundAssumption
  <2>2. NestedInv(o)'
    <3>1. SUFFICES ASSUME NEW d \in 2 .. depth[o] + 1
                   PROVE  frame'[o][d].handle = frame'[o][1].handle /\ ~frame'[o][d].began
      BY <1>5 DEF NestedInv
    <3>2. d \in 1 .. MaxDepth
      BY <1>3, <1>4, BoundAssumption
    <3>3. CASE d = depth[o] + 1
      BY <1>2, <1>6, <2>1, <3>3
    <3>4. CASE d = depth[o]
      BY <1>2, <1>4, <1>6, <2>1, <3>4, BoundAssumption
    <3>5. CASE d \notin {depth[o], depth[o] + 1}
      <4>1. d \in 2 .. depth[o] /\ frame'[o][d] = frame[o][d]
        BY <1>2, <1>4, <3>2, <3>5, BoundAssumption
      <4>2. QED
        BY <1>6, <2>1, <4>1 DEF ScopeFacts, NestedInv
    <3>6. QED
      BY <3>3, <3>4, <3>5
  <2>3. OuterInv(o, frame[o][1], Current(o))
    BY <1>6 DEF ScopeFacts
  <2>4. OuterInv(o, frame[o][1], Current(o))'
    <3>1. \/ depth[o] = 1 /\ frame'[o][1] = f /\ frame[o][1] = Top(o)
          \/ depth[o] > 1 /\ frame'[o][1] = frame[o][1]
      BY <1>2, <1>4, BoundAssumption DEF Top
    <3>2. CASE depth[o] = 1 /\ frame'[o][1] = f /\ frame[o][1] = Top(o)
      BY <1>2, <1>3, <1>4, <1>8, <2>3, <3>2 DEF OuterInv, Loops
    <3>3. CASE depth[o] > 1 /\ frame'[o][1] = frame[o][1]
      BY <1>3, <1>4, <1>8, <2>3, <3>3 DEF OuterInv
    <3>4. QED
      BY <3>1, <3>2, <3>3
  <2>5. QED
    BY <1>3, <1>4, <1>6, <2>2, <2>4 DEF ScopeFacts
<1>12. ASSUME NEW p \in Op, p # o
       PROVE  (\A k \in {1, 2} : UnitFacts(p, k)') /\ (Busy(p)' => ScopeFacts(p)')
  BY <1>2, <1>3, <1>5, <1>12, OthersKeep
<1>13. QED
  BY <1>1, <1>7, <1>10, <1>11, <1>12, IInvFrom

\* A nested scope reaches its finish without a mark and leaves the rest alone.
LEMMA EndNestedInv ==
    ASSUME IInv, NEW o \in Op, EndTransaction(o), ~Top(o).began
    PROVE  IInv'
<1>1. TypeOK' /\ StackInv'
  BY EndType DEF IInv
<1>2. /\ Busy(o) /\ Top(o).cb = "finish"
      /\ UNCHANGED <<kind, depth, turn, st, txUnit>>
  BY DEF EndTransaction, At, call
<1>3. PICK g \in Frame : SetTop(o, g) /\ Moved(Top(o), g) /\ UNCHANGED <<txst, visible, pend>>
  BY EndFrame DEF IInv
<1>4. /\ depth[o] \in 1 .. MaxDepth /\ turn[o] \in {1, 2} /\ Current(o) = <<o, turn[o]>>
      /\ Current(o)' = Current(o) /\ Busy(o)'
  BY <1>2, TopFacts, CurrentFacts DEF IInv, Current, Busy
<1>5. /\ Top(o).handle \in Tx /\ frame[o][1].handle = Top(o).handle /\ frame[o][1].began
      /\ st[Current(o)] = "running"
  BY <1>2, TopHandle DEF Callbacks
<1>6. depth[o] > 1
  BY <1>4, <1>5, BoundAssumption DEF Top
<1>7. /\ frame'[o][depth[o]] = g
      /\ \A d \in 1 .. MaxDepth : d # depth[o] => frame'[o][d] = frame[o][d]
      /\ \A p \in Op : p # o => frame'[p] = frame[p]
  BY <1>2, <1>3, SetTopFacts DEF IInv
<1>8. TxInv'
  BY <1>2, <1>3, TxKeeps
<1>9. \A k \in {1, 2} : /\ Fresh(<<o, k>>) => Fresh(<<o, k>>)'
                        /\ Published(<<o, k>>) => Published(<<o, k>>)'
                        /\ Ended(<<o, k>>) => Ended(<<o, k>>)'
  BY <1>2, <1>3 DEF Fresh, Published, Ended
<1>10. ASSUME NEW k \in {1, 2} PROVE UnitFacts(o, k)'
  <2>1. UnitFacts(o, k)
    BY DEF IInv, UnitInv
  <2>2. QED
    BY <1>2, <1>3, <1>4, <1>5, <1>9, <2>1 DEF UnitFacts
<1>11. ScopeFacts(o)'
  <2>1. ScopeFacts(o)
    BY <1>2 DEF IInv, ScopeInv
  <2>2. frame'[o][1] = frame[o][1]
    BY <1>4, <1>6, <1>7, BoundAssumption
  <2>3. NestedInv(o)'
    BY <1>2, <1>3, <1>4, <1>5, <1>7, <2>1, <2>2, BoundAssumption
       DEF ScopeFacts, NestedInv, Moved, Top
  <2>4. OuterInv(o, frame[o][1], Current(o))'
    BY <1>2, <1>3, <1>4, <1>9, <2>1, <2>2 DEF ScopeFacts, OuterInv
  <2>5. QED
    BY <1>2, <1>4, <2>1, <2>3, <2>4 DEF ScopeFacts
<1>12. ASSUME NEW p \in Op, p # o
       PROVE  (\A k \in {1, 2} : UnitFacts(p, k)') /\ (Busy(p)' => ScopeFacts(p)')
  BY <1>2, <1>3, <1>7, <1>12, OthersKeep
<1>13. QED
  BY <1>1, <1>8, <1>10, <1>11, <1>12, IInvFrom

\* The outermost scope publishes all of its transaction, or nothing of it.
LEMMA EndOuterInv ==
    ASSUME IInv, NEW o \in Op, EndTransaction(o), Top(o).began
    PROVE  IInv'
<1>1. TypeOK' /\ StackInv'
  BY EndType DEF IInv
<1>2. /\ Busy(o) /\ Top(o).cb = "finish"
      /\ UNCHANGED <<kind, depth, turn, st, txUnit>>
  BY DEF EndTransaction, At, call
<1> DEFINE t == Top(o).handle
           u == Current(o)
<1>3. /\ depth[o] \in 1 .. MaxDepth /\ turn[o] \in {1, 2} /\ u = <<o, turn[o]>> /\ u \in Unit
      /\ Current(o)' = u /\ Busy(o)'
  BY <1>2, TopFacts, CurrentFacts DEF IInv, Current, Busy
<1>4. /\ t \in Tx /\ txst[t] = "open" /\ txUnit[t] = u /\ st[u] = "running"
      /\ depth[o] > 1 => ~Top(o).began
  BY <1>2, TopHandle DEF Callbacks
<1>5. depth[o] = 1 /\ Top(o) = frame[o][1]
  BY <1>3, <1>4, BoundAssumption DEF Top
<1>6. PICK fails \in BOOLEAN, g \in Frame :
        LET commits == ~Top(o).err /\ ~fails
        IN  /\ txst' = [txst EXCEPT ![t] = IF commits THEN "committed" ELSE "rolledback"]
            /\ visible' = [visible EXCEPT ![u] = @ \/ (commits /\ pend[t])]
            /\ pend' = [pend EXCEPT ![t] = @ /\ ~commits]
            /\ SetTop(o, g)
            /\ g.handle = Pool /\ g.noTx = Top(o).noTx /\ g.chain = Top(o).chain
            /\ g.skip = Top(o).skip /\ g.cb = "end"
            /\ g.err = (Top(o).err \/ fails)
  BY EndFrame DEF IInv
<1> DEFINE commits == ~Top(o).err /\ ~fails
<1>7. /\ frame'[o][1] = g
      /\ \A p \in Op : p # o => frame'[p] = frame[p]
  BY <1>2, <1>5, <1>6, SetTopFacts DEF IInv
<1>8. /\ txst'[t] = (IF commits THEN "committed" ELSE "rolledback")
      /\ \A x \in Tx : x # t => txst'[x] = txst[x] /\ pend'[x] = pend[x]
  BY <1>4, <1>6 DEF IInv, TypeOK
<1>9. pend'[t] => ~commits
  BY <1>4, <1>6 DEF IInv, TypeOK
<1>10. (~commits => visible' = visible) /\ (\A v \in Unit : v # u => visible'[v] = visible[v])
  BY <1>6 DEF IInv, TypeOK
<1>11. ~visible[u] /\ (\A x \in Tx : txUnit[x] = u => x = t) /\ u # None
  BY <1>3, <1>4, UnitAssumption DEF IInv, TxInv, Unit
<1>12. g.err = ~commits /\ g.handle = Pool /\ g.cb = "end" /\ g.noTx = Top(o).noTx
       /\ g.chain = Top(o).chain /\ g.skip = Top(o).skip
  BY <1>6
<1> HIDE DEF t, u, commits
<1>13. TxInv'
  <2>1. (\A x \in Tx : (txst'[x] = "unused") <=> (txUnit'[x] = None))
        /\ (\A x, y \in Tx : txUnit'[x] = txUnit'[y] /\ txUnit'[x] # None => x = y)
    BY <1>2, <1>4, <1>8 DEF IInv, TxInv
  <2>2. \A x \in Tx : pend'[x] => txst'[x] \in {"open", "rolledback"}
    BY <1>8, <1>9 DEF IInv, TxInv
  <2>3. ASSUME NEW x \in Tx, txst'[x] \in {"open", "rolledback"}
        PROVE  ~visible'[txUnit'[x]]
    <3>1. CASE x = t
      BY <1>2, <1>4, <1>8, <1>10, <1>11, <2>3, <3>1
    <3>2. CASE x # t
      <4>1. txst[x] \in {"open", "rolledback"} /\ txUnit[x] # u
        BY <1>8, <1>11, <2>3, <3>2
      <4>2. txUnit[x] \in Unit /\ ~visible[txUnit[x]]
        BY <4>1 DEF IInv, TxInv, TypeOK
      <4>3. QED
        BY <1>2, <1>10, <4>1, <4>2
    <3>3. QED
      BY <3>1, <3>2
  <2>4. QED
    BY <2>1, <2>2, <2>3 DEF TxInv
<1>14. ASSUME NEW k \in {1, 2} PROVE UnitFacts(o, k)'
  <2>1. UnitFacts(o, k) /\ <<o, k>> \in Unit
    BY DEF IInv, UnitInv, Unit
  <2>2. CASE k = turn[o]
    BY <1>2, <1>3, <1>4, <2>1, <2>2 DEF UnitFacts
  <2>3. CASE k # turn[o]
    <3>1. <<o, k>> # u
      BY <1>3, <2>3
    <3>2. \A x \in Tx : txUnit[x] = <<o, k>> => txst'[x] = txst[x]
      BY <1>4, <1>8, <3>1
    <3>3. /\ visible'[<<o, k>>] = visible[<<o, k>>]
          /\ Fresh(<<o, k>>) => Fresh(<<o, k>>)'
          /\ Published(<<o, k>>) => Published(<<o, k>>)'
          /\ Ended(<<o, k>>) => Ended(<<o, k>>)'
      BY <1>2, <1>10, <2>1, <3>1, <3>2 DEF Fresh, Published, Ended
    <3>4. QED
      BY <1>2, <1>3, <2>1, <2>3, <3>3 DEF UnitFacts
  <2>4. QED
    BY <2>2, <2>3
<1>15. ScopeFacts(o)'
  <2>1. ScopeFacts(o)
    BY <1>2 DEF IInv, ScopeInv
  <2>2. ~Top(o).skip /\ ~Top(o).noTx /\ (turn[o] = 2 => Top(o).chain = "create")
    BY <1>2, <1>5, <2>1 DEF ScopeFacts, OuterInv
  <2>3. ~commits => ~visible'[u]
    BY <1>10, <1>11
  <2>4. \A x \in Tx : txUnit'[x] = u => txst'[x] = IF commits THEN "committed" ELSE "rolledback"
    BY <1>2, <1>8, <1>11
  <2>5. OuterInv(o, g, Current(o))'
    BY <1>2, <1>3, <1>12, <2>2, <2>3, <2>4, HandleAssumption DEF OuterInv, Published, Ended, Callbacks, Loops
  <2>6. NestedInv(o)'
    BY <1>2, <1>5 DEF NestedInv
  <2>7. st'[u] \in {"idle", "running"}
    BY <1>2, <1>4
  <2>8. QED
    BY <1>3, <1>7, <2>5, <2>6, <2>7 DEF ScopeFacts
<1>16. ASSUME NEW p \in Op, p # o
       PROVE  (\A k \in {1, 2} : UnitFacts(p, k)') /\ (Busy(p)' => ScopeFacts(p)')
  <2>1. \A k \in {1, 2} : <<p, k>> # u /\ <<p, k>> \in Unit
    BY <1>3, <1>16 DEF Unit
  <2>2. \A k \in {1, 2} : st'[<<p, k>>] = st[<<p, k>>] /\ visible'[<<p, k>>] = visible[<<p, k>>]
    BY <1>2, <1>10, <2>1
  <2>3. \A x \in Tx, k \in {1, 2} : txUnit[x] = <<p, k>> => txst'[x] = txst[x]
    BY <1>4, <1>8, <2>1
  <2>4. QED
    BY <1>2, <1>7, <1>16, <2>2, <2>3, OthersKeep
<1>17. QED
  BY <1>1, <1>13, <1>14, <1>15, <1>16, IInvFrom

\* The verdict on a unit whose outermost scope is at its end.
LEMMA VerdictFacts ==
    ASSUME IInv, NEW o \in Op, At(o, "end"), depth[o] = 1
    PROVE  /\ Verdict(Top(o)) \in {"ok", "skipped", "failed"}
           /\ Verdict(Top(o)) = "ok" => Published(Current(o))
           /\ Verdict(Top(o)) \in {"failed", "skipped"} => ~visible[Current(o)]
           /\ st[Current(o)] = "running"
<1>1. /\ Busy(o) /\ Top(o).cb = "end" /\ Top(o) = frame[o][1]
      /\ turn[o] \in {1, 2} /\ Current(o) = <<o, turn[o]>> /\ Top(o) \in Frame
  BY TopFacts, CurrentFacts DEF IInv, At, Top
<1>2. OuterInv(o, Top(o), Current(o)) /\ st[Current(o)] \in {"idle", "running"}
  BY <1>1 DEF IInv, ScopeInv, ScopeFacts
<1>3. /\ Top(o).handle \in Tx \cup {Pool}
      /\ Top(o).handle \in Tx => ~visible[Current(o)] /\ (Top(o).err \/ Top(o).skip)
      /\ Top(o).handle = Pool =>
            (Top(o).err /\ ~visible[Current(o)]) \/ (~Top(o).err /\ ~Top(o).skip /\ Published(Current(o)))
  <2>1. Top(o).handle \in Tx => txst[Top(o).handle] = "open" /\ txUnit[Top(o).handle] = Current(o)
    BY <1>2 DEF OuterInv
  <2>2. Top(o).handle \in Tx => ~visible[Current(o)]
    BY <2>1 DEF IInv, TxInv
  <2>3. QED
    BY <1>1, <1>2, <2>2 DEF OuterInv, Frame
<1>4. st[Current(o)] # "idle"
  <2>1. UnitFacts(o, turn[o])
    BY <1>1 DEF IInv, UnitInv
  <2>2. QED
    BY <1>1, <2>1 DEF UnitFacts, At
<1>5. CASE Top(o).err
  BY <1>2, <1>3, <1>4, <1>5 DEF Verdict
<1>6. CASE ~Top(o).err /\ Top(o).skip
  BY <1>2, <1>3, <1>4, <1>6 DEF Verdict
<1>7. CASE ~Top(o).err /\ ~Top(o).skip
  BY <1>2, <1>3, <1>4, <1>7 DEF Verdict
<1>8. QED
  BY <1>5, <1>6, <1>7

\* The fallback of a call's own Save is a unit of its own, not started yet.
LEMMA FallBackOuterInv ==
    ASSUME IInv, NEW o \in Op, FallBack(o), depth[o] = 1
    PROVE  IInv'
<1>1. TypeOK' /\ StackInv'
  BY FallBackType DEF IInv
<1>2. PICK g \in Frame : /\ SetTop(o, g)
                         /\ g.handle = Base(o).handle /\ g.cb = "lookup"
                         /\ g.noTx = Top(o).noTx /\ g.chain = "create"
                         /\ ~g.err /\ ~g.began /\ ~g.skip
  BY FallBackFrame DEF IInv
<1>3. /\ Busy(o) /\ At(o, "end") /\ Top(o).chain = "update"
      /\ st' = [st EXCEPT ![Current(o)] = Verdict(Top(o))]
      /\ turn' = [turn EXCEPT ![o] = 2]
      /\ UNCHANGED <<depth, visible, txst, txUnit, pend>>
  BY DEF FallBack, FallsBack, At, database
<1>4. turn[o] \in {1, 2} /\ Current(o) = <<o, turn[o]>> /\ Current(o) \in Unit
  BY <1>3, CurrentFacts DEF IInv
<1>5. OuterInv(o, Top(o), Current(o)) /\ Top(o) = frame[o][1]
  BY <1>3 DEF IInv, ScopeInv, ScopeFacts, Top
<1>6. turn[o] = 1 /\ ~Top(o).noTx
  BY <1>3, <1>4, <1>5 DEF OuterInv
<1>7. /\ turn'[o] = 2 /\ \A p \in Op : p # o => turn'[p] = turn[p]
      /\ Current(o)' = <<o, 2>> /\ Busy(o)'
  BY <1>3 DEF IInv, TypeOK, Current, Busy
<1>8. /\ st'[<<o, 1>>] = Verdict(Top(o)) /\ st'[<<o, 2>>] = st[<<o, 2>>]
      /\ \A p \in Op, k \in {1, 2} : p # o => st'[<<p, k>>] = st[<<p, k>>]
  BY <1>3, <1>4, <1>6 DEF IInv, TypeOK, Unit
<1>9. st[<<o, 2>>] = "idle" /\ Fresh(<<o, 2>>)
  <2>1. UnitFacts(o, 2)
    BY DEF IInv, UnitInv
  <2>2. QED
    BY <1>6, <2>1 DEF UnitFacts
<1>10. /\ frame'[o][1] = g
       /\ \A p \in Op : p # o => frame'[p] = frame[p]
  BY <1>2, <1>3, SetTopFacts DEF IInv
<1>11. TxInv'
  BY <1>3, TxKeeps
<1>12. \A k \in {1, 2} : /\ Fresh(<<o, k>>) => Fresh(<<o, k>>)'
                         /\ Published(<<o, k>>) => Published(<<o, k>>)'
                         /\ Ended(<<o, k>>) => Ended(<<o, k>>)'
  BY <1>3 DEF Fresh, Published, Ended
<1>13. At(o, "lookup")' /\ depth'[o] = 1
  BY <1>2, <1>3, <1>7, <1>10 DEF At, Top
<1>14. ASSUME NEW k \in {1, 2} PROVE UnitFacts(o, k)'
  <2>1. CASE k = 1
    <3>1. Verdict(Top(o)) \in {"ok", "skipped", "failed"}
      BY <1>3, VerdictFacts
    <3>2. Verdict(Top(o)) = "ok" => Published(<<o, 1>>)'
      BY <1>3, <1>4, <1>6, <1>12, VerdictFacts
    <3>3. Verdict(Top(o)) \in {"failed", "skipped"} => ~visible'[<<o, 1>>]
      BY <1>3, <1>4, <1>6, VerdictFacts
    <3>4. QED
      BY <1>7, <1>8, <2>1, <3>1, <3>2, <3>3 DEF UnitFacts
  <2>2. CASE k = 2
    BY <1>7, <1>8, <1>9, <1>12, <1>13, <2>2 DEF UnitFacts
  <2>3. QED
    BY <2>1, <2>2
<1>15. ScopeFacts(o)'
  <2>1. Base(o).handle = Pool
    BY DEF Base, NoFrame
  <2>2. OuterInv(o, g, <<o, 2>>)'
    BY <1>2, <1>6, <1>7, <1>9, <1>12, <2>1, HandleAssumption DEF OuterInv, Callbacks, Loops
  <2>3. NestedInv(o)'
    BY <1>13 DEF NestedInv
  <2>4. QED
    BY <1>7, <1>8, <1>9, <1>10, <2>2, <2>3 DEF ScopeFacts
<1>16. ASSUME NEW p \in Op, p # o
       PROVE  (\A k \in {1, 2} : UnitFacts(p, k)') /\ (Busy(p)' => ScopeFacts(p)')
  BY <1>3, <1>7, <1>8, <1>10, <1>16, OthersKeep
<1>17. QED
  BY <1>1, <1>11, <1>14, <1>15, <1>16, IInvFrom

\* A step of a nested scope that keeps its handle disturbs nothing.
LEMMA NestedStepInv ==
    ASSUME IInv, TypeOK', StackInv', NEW o \in Op, Busy(o), depth[o] > 1,
           NEW g \in Frame, SetTop(o, g), g.handle = Top(o).handle, ~g.began,
           UNCHANGED <<depth, turn, st, visible, txst, txUnit, pend>>
    PROVE  IInv'
<1>1. /\ depth[o] \in 1 .. MaxDepth /\ turn[o] \in {1, 2} /\ Current(o) = <<o, turn[o]>>
      /\ Current(o)' = Current(o) /\ Busy(o)'
  BY TopFacts, CurrentFacts DEF IInv, Current, Busy
<1>2. ScopeFacts(o) /\ frame[o][1].handle = Top(o).handle /\ st[Current(o)] = "running"
  BY <1>1, BoundAssumption, TopHandle DEF IInv, ScopeInv
<1>3. /\ frame'[o][depth[o]] = g
      /\ \A d \in 1 .. MaxDepth : d # depth[o] => frame'[o][d] = frame[o][d]
      /\ \A p \in Op : p # o => frame'[p] = frame[p]
  BY SetTopFacts DEF IInv
<1>4. TxInv'
  BY TxKeeps
<1>5. \A k \in {1, 2} : /\ Fresh(<<o, k>>) => Fresh(<<o, k>>)'
                        /\ Published(<<o, k>>) => Published(<<o, k>>)'
                        /\ Ended(<<o, k>>) => Ended(<<o, k>>)'
  BY DEF Fresh, Published, Ended
<1>6. ASSUME NEW k \in {1, 2} PROVE UnitFacts(o, k)'
  <2>1. UnitFacts(o, k)
    BY DEF IInv, UnitInv
  <2>2. QED
    BY <1>1, <1>2, <1>5, <2>1 DEF UnitFacts
<1>7. ScopeFacts(o)'
  <2>1. frame'[o][1] = frame[o][1]
    BY <1>1, <1>3, BoundAssumption
  <2>2. NestedInv(o)'
    BY <1>1, <1>2, <1>3, <2>1, BoundAssumption DEF ScopeFacts, NestedInv
  <2>3. OuterInv(o, frame[o][1], Current(o))'
    BY <1>1, <1>2, <1>5, <2>1 DEF ScopeFacts, OuterInv
  <2>4. QED
    BY <1>1, <1>2, <2>2, <2>3 DEF ScopeFacts
<1>8. ASSUME NEW p \in Op, p # o
      PROVE  (\A k \in {1, 2} : UnitFacts(p, k)') /\ (Busy(p)' => ScopeFacts(p)')
  BY <1>3, <1>8, OthersKeep
<1>9. QED
  BY <1>4, <1>6, <1>7, <1>8, IInvFrom

LEMMA FallBackNestedInv ==
    ASSUME IInv, NEW o \in Op, FallBack(o), depth[o] # 1
    PROVE  IInv'
<1>1. TypeOK' /\ StackInv'
  BY FallBackType DEF IInv
<1>2. PICK g \in Frame : SetTop(o, g) /\ g.handle = Base(o).handle /\ ~g.began
  BY FallBackFrame DEF IInv
<1>3. Busy(o) /\ UNCHANGED <<depth, turn, st, visible, txst, txUnit, pend>>
  BY DEF FallBack, At, database
<1>4. depth[o] \in 1 .. MaxDepth /\ depth[o] > 1
  BY <1>3, TopFacts, BoundAssumption DEF IInv
<1>5. NestedInv(o)
  BY <1>3 DEF IInv, ScopeInv, ScopeFacts
<1>6. Base(o).handle = Top(o).handle
  <2>1. Top(o).handle = frame[o][1].handle
    BY <1>4, <1>5, BoundAssumption DEF NestedInv, Top
  <2>2. Base(o).handle = frame[o][1].handle
    BY <1>4, <1>5, BoundAssumption DEF NestedInv, Base
  <2>3. QED
    BY <2>1, <2>2
<1>7. QED
  BY <1>1, <1>2, <1>3, <1>4, <1>6, NestedStepInv

LEMMA LookupNestedInv ==
    ASSUME IInv, NEW o \in Op, Lookup(o), depth[o] # 1
    PROVE  IInv'
<1>1. TypeOK' /\ StackInv'
  BY LookupType DEF IInv
<1>2. PICK g \in Frame : SetTop(o, g) /\ g.handle = Top(o).handle /\ g.began = Top(o).began
  BY LookupFrame DEF IInv
<1>3. Busy(o) /\ UNCHANGED <<depth, turn, visible, txst, txUnit, pend>>
      /\ st' = [st EXCEPT ![Current(o)] = "running"]
  BY DEF Lookup, At, database
<1>4. depth[o] \in 1 .. MaxDepth /\ depth[o] > 1
  BY <1>3, TopFacts, BoundAssumption DEF IInv
<1>5. ~Top(o).began /\ st[Current(o)] = "running"
  BY <1>3, <1>4, TopHandle
<1>6. st' = st
  BY <1>3, <1>5 DEF IInv, TypeOK
<1>7. QED
  BY <1>1, <1>2, <1>3, <1>4, <1>5, <1>6, NestedStepInv

\* The second unit of a Save starts with the lookup, and is over if it finds a row.
LEMMA LookupOuterInv ==
    ASSUME IInv, NEW o \in Op, Lookup(o), depth[o] = 1
    PROVE  IInv'
<1>1. TypeOK' /\ StackInv'
  BY LookupType DEF IInv
<1>2. PICK g \in Frame : /\ SetTop(o, g)
                         /\ g.handle = Top(o).handle
                         /\ g.noTx = Top(o).noTx /\ g.chain = Top(o).chain
                         /\ g.skip = Top(o).skip
                         /\ g.cb \in {"begin", "end"}
  BY LookupFrame DEF IInv
<1>3. /\ Busy(o) /\ Top(o).cb = "lookup"
      /\ st' = [st EXCEPT ![Current(o)] = "running"]
      /\ UNCHANGED <<depth, turn, visible, txst, txUnit, pend>>
  BY DEF Lookup, At, database
<1>4. /\ turn[o] \in {1, 2} /\ Current(o) = <<o, turn[o]>> /\ Current(o) \in Unit
      /\ Current(o)' = Current(o) /\ Busy(o)'
  BY <1>3, CurrentFacts DEF IInv, Current, Busy
<1>5. OuterInv(o, Top(o), Current(o)) /\ Top(o) = frame[o][1]
  BY <1>3 DEF IInv, ScopeInv, ScopeFacts, Top
<1>6. /\ Top(o).handle = Pool /\ ~Top(o).noTx /\ ~Top(o).skip /\ Fresh(Current(o))
      /\ (turn[o] = 2 => Top(o).chain = "create")
  BY <1>3, <1>5 DEF OuterInv
<1>7. /\ frame'[o][1] = g
      /\ \A p \in Op : p # o => frame'[p] = frame[p]
  BY <1>2, <1>3, SetTopFacts DEF IInv
<1>8. /\ st'[Current(o)] = "running"
      /\ \A v \in Unit : v # Current(o) => st'[v] = st[v]
  BY <1>3, <1>4 DEF IInv, TypeOK
<1>9. TxInv'
  BY <1>3, TxKeeps
<1>10. \A k \in {1, 2} : /\ Fresh(<<o, k>>) => Fresh(<<o, k>>)'
                         /\ Published(<<o, k>>) => Published(<<o, k>>)'
                         /\ Ended(<<o, k>>) => Ended(<<o, k>>)'
  BY <1>3 DEF Fresh, Published, Ended
<1>11. ASSUME NEW k \in {1, 2} PROVE UnitFacts(o, k)'
  <2>1. UnitFacts(o, k) /\ <<o, k>> \in Unit
    BY DEF IInv, UnitInv, Unit
  <2>2. CASE k = turn[o]
    BY <1>3, <1>4, <1>8, <2>1, <2>2 DEF UnitFacts
  <2>3. CASE k # turn[o]
    <3>1. st'[<<o, k>>] = st[<<o, k>>]
      BY <1>4, <1>8, <2>1, <2>3
    <3>2. QED
      BY <1>3, <1>4, <1>10, <2>1, <2>3, <3>1 DEF UnitFacts
  <2>4. QED
    BY <2>2, <2>3
<1>12. ScopeFacts(o)'
  <2>1. Fresh(Current(o))' /\ Published(Current(o))' /\ Ended(Current(o))' /\ ~visible'[Current(o)]
    BY <1>3, <1>4, <1>6 DEF Fresh, Published, Ended
  <2>2. OuterInv(o, g, Current(o))'
    BY <1>2, <1>3, <1>4, <1>6, <2>1, HandleAssumption DEF OuterInv, Callbacks, Loops
  <2>3. NestedInv(o)'
    BY <1>3 DEF NestedInv
  <2>4. QED
    BY <1>4, <1>7, <1>8, <2>2, <2>3 DEF ScopeFacts
<1>13. ASSUME NEW p \in Op, p # o
       PROVE  (\A k \in {1, 2} : UnitFacts(p, k)') /\ (Busy(p)' => ScopeFacts(p)')
  <2>1. \A k \in {1, 2} : st'[<<p, k>>] = st[<<p, k>>]
    BY <1>4, <1>8, <1>13 DEF Unit
  <2>2. QED
    BY <1>3, <1>7, <1>13, <2>1, OthersKeep
<1>14. QED
  BY <1>1, <1>9, <1>11, <1>12, <1>13, IInvFrom

LEMMA ReturnNestedInv ==
    ASSUME IInv, NEW o \in Op, ReturnNested(o)
    PROVE  IInv'
<1>1. TypeOK' /\ StackInv'
  BY ReturnNestedType DEF IInv
<1>2. PICK f \in Frame :
             /\ frame'[o][depth[o] - 1] = f
             /\ \A d \in 1 .. MaxDepth : d \notin {depth[o] - 1, depth[o]} => frame'[o][d] = frame[o][d]
             /\ \A q \in Op : q # o => frame'[q] = frame[q]
             /\ f.handle = Base(o).handle /\ f.began = Base(o).began /\ f.noTx = Base(o).noTx
             /\ f.chain = Base(o).chain /\ f.skip = Base(o).skip
             /\ f.cb \in Loops \cup {"link", "end"}
             /\ f.cb = "end" => f.err
  BY ReturnNestedFrame DEF IInv
<1>3. /\ Busy(o) /\ depth[o] > 1
      /\ depth' = [depth EXCEPT ![o] = @ - 1]
      /\ UNCHANGED <<turn, st, visible, txst, txUnit, pend>>
  BY DEF ReturnNested, At, database
<1>4. /\ depth[o] \in 1 .. MaxDepth /\ turn[o] \in {1, 2} /\ Current(o) = <<o, turn[o]>>
      /\ Current(o)' = Current(o) /\ MaxDepth \in Nat
  BY <1>3, TopFacts, CurrentFacts, BoundAssumption DEF IInv, Current
<1>5. /\ depth'[o] = depth[o] - 1 /\ Busy(o)'
      /\ \A p \in Op : p # o => depth'[p] = depth[p]
  BY <1>3, <1>4 DEF IInv, TypeOK, Busy
<1>6. /\ ScopeFacts(o) /\ st[Current(o)] = "running"
      /\ frame[o][1].handle \in Tx
  BY <1>3, <1>4, TopHandle DEF IInv, ScopeInv
<1>7. Base(o) = frame[o][depth[o] - 1]
  BY <1>3, <1>4 DEF Base
<1>8. TxInv'
  BY <1>3, TxKeeps
<1>9. \A k \in {1, 2} : /\ Fresh(<<o, k>>) => Fresh(<<o, k>>)'
                        /\ Published(<<o, k>>) => Published(<<o, k>>)'
                        /\ Ended(<<o, k>>) => Ended(<<o, k>>)'
  BY <1>3 DEF Fresh, Published, Ended
<1>10. ASSUME NEW k \in {1, 2} PROVE UnitFacts(o, k)'
  <2>1. UnitFacts(o, k)
    BY DEF IInv, UnitInv
  <2>2. QED
    BY <1>3, <1>4, <1>5, <1>6, <1>9, <2>1 DEF UnitFacts
<1>11. ScopeFacts(o)'
  <2>1. OuterInv(o, frame[o][1], Current(o)) /\ NestedInv(o)
    BY <1>6 DEF ScopeFacts
  <2>2. CASE depth[o] = 2
    <3>1. frame'[o][1] = f /\ Base(o) = frame[o][1]
      BY <1>2, <1>7, <2>2
    <3>2. frame[o][1].cb \in Loops
      BY <1>3, <1>4, <2>2 DEF IInv, StackInv
    <3>3. /\ f.handle \in Tx /\ f.began /\ ~f.noTx /\ ~f.skip /\ (turn[o] = 2 => f.chain = "create")
          /\ txst[f.handle] = "open" /\ txUnit[f.handle] = Current(o)
      BY <1>2, <1>6, <2>1, <3>1, <3>2 DEF OuterInv, Loops
    <3>4. OuterInv(o, f, Current(o))'
      BY <1>2, <1>3, <1>4, <3>3, HandleAssumption DEF OuterInv, Callbacks, Loops
    <3>5. NestedInv(o)'
      BY <1>5, <2>2 DEF NestedInv
    <3>6. QED
      BY <1>3, <1>4, <1>6, <3>1, <3>4, <3>5 DEF ScopeFacts
  <2>3. CASE depth[o] # 2
    <3>1. frame'[o][1] = frame[o][1] /\ depth[o] - 1 \in 2 .. depth[o]
      BY <1>2, <1>3, <1>4, <2>3
    <3>2. f.handle = frame[o][1].handle /\ ~f.began
      BY <1>2, <1>7, <2>1, <3>1 DEF NestedInv
    <3>3. NestedInv(o)'
      <4>1. SUFFICES ASSUME NEW d \in 2 .. depth[o] - 1
                     PROVE  frame'[o][d].handle = frame'[o][1].handle /\ ~frame'[o][d].began
        BY <1>5 DEF NestedInv
      <4>2. CASE d = depth[o] - 1
        BY <1>2, <3>1, <3>2, <4>2
      <4>3. CASE d # depth[o] - 1
        <5>1. d \in 2 .. depth[o] /\ frame'[o][d] = frame[o][d]
          BY <1>2, <1>4, <4>3
        <5>2. QED
          BY <2>1, <3>1, <5>1 DEF NestedInv
      <4>4. QED
        BY <4>2, <4>3
    <3>4. OuterInv(o, frame[o][1], Current(o))'
      BY <1>3, <1>4, <1>9, <2>1, <3>1 DEF OuterInv
    <3>5. QED
      BY <1>3, <1>4, <1>6, <3>3, <3>4 DEF ScopeFacts
  <2>4. QED
    BY <2>2, <2>3
<1>12. ASSUME NEW p \in Op, p # o
       PROVE  (\A k \in {1, 2} : UnitFacts(p, k)') /\ (Busy(p)' => ScopeFacts(p)')
  BY <1>2, <1>3, <1>5, <1>12, OthersKeep
<1>13. QED
  BY <1>1, <1>8, <1>10, <1>11, <1>12, IInvFrom

LEMMA ReturnToCallerInv ==
    ASSUME IInv, NEW o \in Op, ReturnToCaller(o)
    PROVE  IInv'
<1>1. TypeOK' /\ StackInv'
  BY ReturnToCallerType DEF IInv
<1>2. /\ Busy(o) /\ At(o, "end") /\ depth[o] = 1
      /\ st' = [st EXCEPT ![Current(o)] = Verdict(Top(o))]
      /\ SetTop(o, NoFrame)
      /\ depth' = [depth EXCEPT ![o] = 0]
      /\ UNCHANGED <<turn, visible, txst, txUnit, pend>>
  BY DEF ReturnToCaller, At, database
<1>3. turn[o] \in {1, 2} /\ Current(o) = <<o, turn[o]>> /\ Current(o) \in Unit
  BY <1>2, CurrentFacts DEF IInv
<1>4. \A p \in Op : p # o => frame'[p] = frame[p]
  BY <1>2, NoFrameType, SetTopFacts DEF IInv
<1>5. depth'[o] = 0 /\ ~Busy(o)' /\ \A p \in Op : p # o => depth'[p] = depth[p]
  BY <1>2 DEF IInv, TypeOK, Busy
<1>6. /\ st'[Current(o)] = Verdict(Top(o))
      /\ \A v \in Unit : v # Current(o) => st'[v] = st[v]
  BY <1>2, <1>3 DEF IInv, TypeOK
<1>7. TxInv'
  BY <1>2, TxKeeps
<1>8. \A k \in {1, 2} : /\ Fresh(<<o, k>>) => Fresh(<<o, k>>)'
                        /\ Published(<<o, k>>) => Published(<<o, k>>)'
                        /\ Ended(<<o, k>>) => Ended(<<o, k>>)'
  BY <1>2 DEF Fresh, Published, Ended
<1>9. ASSUME NEW k \in {1, 2} PROVE UnitFacts(o, k)'
  <2>1. UnitFacts(o, k) /\ <<o, k>> \in Unit
    BY DEF IInv, UnitInv, Unit
  <2>2. CASE k = turn[o]
    <3>1. <<o, k>> = Current(o)
      BY <1>3, <2>2
    <3>2. /\ st'[<<o, k>>] \in {"ok", "skipped", "failed"}
          /\ st'[<<o, k>>] = "ok" => Published(<<o, k>>)'
          /\ st'[<<o, k>>] \in {"failed", "skipped"} => ~visible'[<<o, k>>]
      BY <1>2, <1>6, <1>8, <3>1, VerdictFacts
    <3>3. QED
      BY <1>2, <2>2, <3>2 DEF UnitFacts
  <2>3. CASE k # turn[o]
    <3>1. st'[<<o, k>>] = st[<<o, k>>]
      BY <1>3, <1>6, <2>1, <2>3
    <3>2. QED
      BY <1>2, <1>8, <2>1, <2>3, <3>1 DEF UnitFacts
  <2>4. QED
    BY <2>2, <2>3
<1>10. ASSUME NEW p \in Op, p # o
       PROVE  (\A k \in {1, 2} : UnitFacts(p, k)') /\ (Busy(p)' => ScopeFacts(p)')
  <2>1. \A k \in {1, 2} : st'[<<p, k>>] = st[<<p, k>>]
    BY <1>3, <1>6, <1>10 DEF Unit
  <2>2. QED
    BY <1>2, <1>4, <1>5, <1>10, <2>1, OthersKeep
<1>11. QED
  BY <1>1, <1>5, <1>7, <1>9, <1>10, IInvFrom
-----------------------------------------------------------------------------
(* The theorems that hold if Begin does not fail *)

LEMMA IInvInit == Init => IInv
<1> SUFFICES ASSUME Init PROVE IInv
  OBVIOUS
<1>1. TypeOK /\ StackInv
  BY TypeInit
<1>2. TxInv
  BY DEF Init, TxInv
<1>3. UnitInv
  <2>1. SUFFICES ASSUME NEW o \in Op, NEW k \in {1, 2} PROVE UnitFacts(o, k)
    BY DEF UnitInv
  <2>2. <<o, k>> \in Unit /\ <<o, k>> # None
    BY UnitAssumption DEF Unit
  <2>3. QED
    BY <2>2 DEF Init, UnitFacts, Fresh
<1>4. ScopeInv
  BY DEF Init, ScopeInv, Busy
<1>5. QED
  BY <1>1, <1>2, <1>3, <1>4 DEF IInv

LEMMA IInvStep ==
    ASSUME "begin" \notin Faults
    PROVE  IInv /\ [Next]_vars => IInv'
<1> SUFFICES ASSUME IInv, [Next]_vars PROVE IInv'
  OBVIOUS
<1>1. CASE UNCHANGED vars
  <2>1. TypeOK' /\ StackInv' /\ TxInv'
    BY <1>1, TypeStep, TxKeeps DEF IInv, vars
  <2>2. ASSUME NEW p \in Op
        PROVE  (\A k \in {1, 2} : UnitFacts(p, k)') /\ (Busy(p)' => ScopeFacts(p)')
    BY <1>1, OthersKeep DEF vars
  <2>3. UnitInv' /\ ScopeInv'
    BY <2>2 DEF UnitInv, ScopeInv
  <2>4. QED
    BY <2>1, <2>3 DEF IInv
<1>2. ASSUME NEW o \in Op, Call(o) \/ Step(o) PROVE IInv'
  <2>1. ~BeginFails(o)
    BY DEF BeginFails
  <2>2. CASE EndTransaction(o)
    BY <2>2, EndNestedInv, EndOuterInv
  <2>3. CASE FallBack(o)
    BY <2>3, FallBackNestedInv, FallBackOuterInv
  <2>4. CASE Lookup(o)
    BY <2>4, LookupNestedInv, LookupOuterInv
  <2>5. CASE Plain(o)
    BY <2>5, PlainInv
  <2>6. QED
    BY <1>2, <2>1, <2>2, <2>3, <2>4, <2>5, CallInv, BeginInv, OpenNestedInv, ReturnNestedInv,
       ReturnToCallerInv DEF Step, Plain
<1>3. QED
  BY <1>1, <1>2 DEF Next

LEMMA IInvImplies == IInv => AllOrNothing
<1> SUFFICES ASSUME IInv, NEW u \in Unit
             PROVE  /\ ~(visible[u] /\ Hidden(u))
                    /\ st[u] = "ok" => ~Hidden(u)
                    /\ st[u] \in {"failed", "skipped"} => ~visible[u]
  BY DEF AllOrNothing
<1>1. PICK o \in Op, k \in {1, 2} : u = <<o, k>>
  BY DEF Unit
<1>2. UnitFacts(o, k)
  BY DEF IInv, UnitInv
<1>3. \A t \in Tx : txUnit[t] = u /\ pend[t] => txst[t] \in {"open", "rolledback"} /\ ~visible[u]
  BY DEF IInv, TxInv
<1>4. QED
  BY <1>1, <1>2, <1>3 DEF UnitFacts, Hidden, Published

\* The scopes of a call share the one transaction of its unit and only the scope
\* that began it publishes, when no Begin fails.
THEOREM Inductive ==
    ASSUME "begin" \notin Faults
    PROVE  Spec => []IInv
<1>1. IInv /\ [Next]_vars => IInv'
  BY IInvStep
<1>2. QED
  BY <1>1, IInvInit, PTL DEF Spec

LEMMA IInvLeaks == IInv => LeakedByBrokenChain
<1> SUFFICES ASSUME IInv, NEW t \in Leaked
             PROVE  st[txUnit[t]] \in {"failed", "skipped"}
  BY DEF LeakedByBrokenChain
<1>1. t \in Tx /\ txst[t] = "open" /\ \A o \in Op : ~Holds(o, t)
  BY DEF Leaked, OpenTx
<1>2. txUnit[t] \in Unit
  BY <1>1 DEF IInv, TypeOK, TxInv
<1>3. PICK o \in Op, k \in {1, 2} : txUnit[t] = <<o, k>>
  BY <1>2 DEF Unit
<1>4. UnitFacts(o, k) /\ st[<<o, k>>] \in {"idle", "running", "ok", "skipped", "failed"}
  BY <1>2, <1>3 DEF IInv, UnitInv, TypeOK
<1>5. st[<<o, k>>] \notin {"idle", "ok"}
  BY <1>1, <1>3, <1>4 DEF UnitFacts, Fresh, Published
<1>6. ASSUME st[<<o, k>>] = "running" PROVE FALSE
  <2>1. Busy(o) /\ Current(o) = <<o, k>>
    BY <1>4, <1>6 DEF UnitFacts, Current
  <2>2. OuterInv(o, frame[o][1], <<o, k>>) /\ depth[o] \in 1 .. MaxDepth /\ frame[o][1] \in Frame
    <3>1. OuterInv(o, frame[o][1], Current(o))
      BY <2>1 DEF IInv, ScopeInv, ScopeFacts
    <3>2. depth[o] \in 1 .. MaxDepth /\ frame[o][1] \in Frame
      BY <2>1, BoundAssumption DEF IInv, TypeOK, Busy
    <3>3. QED
      BY <2>1, <3>1, <3>2
  <2>3. ~Fresh(<<o, k>>) /\ ~Published(<<o, k>>) /\ ~Ended(<<o, k>>)
    BY <1>1, <1>3 DEF Fresh, Published, Ended
  <2>4. frame[o][1].handle \in Tx
    <3>1. frame[o][1].cb \in Callbacks \cup {"link", "lookup", "end"} /\ frame[o][1].handle \in Tx \cup {Pool}
      BY <2>2 DEF Frame, Places
    <3>2. frame[o][1].cb \notin {"begin", "lookup"} /\ ~(frame[o][1].cb = "end" /\ frame[o][1].handle = Pool)
      BY <2>2, <2>3 DEF OuterInv
    <3>3. QED
      BY <2>2, <3>1, <3>2 DEF OuterInv
  <2>5. frame[o][1].began /\ txUnit[frame[o][1].handle] = <<o, k>>
    BY <2>2, <2>4 DEF OuterInv
  <2>6. frame[o][1].handle = t
    BY <1>1, <1>2, <1>3, <2>4, <2>5, UnitAssumption DEF IInv, TxInv, Unit
  <2>7. Holds(o, t)
    BY <2>2, <2>5, <2>6 DEF Holds
  <2>8. QED
    BY <1>1, <2>7
<1>7. QED
  BY <1>3, <1>4, <1>5, <1>6

\* All the statements of a call, its nested saves and join rows included, are
\* seen together or not at all, when no Begin fails.
THEOREM AllOrNothingHolds ==
    ASSUME "begin" \notin Faults
    PROVE  Spec => []AllOrNothing
<1>1. Spec => []IInv
  BY Inductive
<1>2. QED
  BY <1>1, IInvImplies, PTL

\* A transaction that stays open without a scope on it is one of a unit that has failed or
\* skipped the rest of its chain: no other call loses a connection, when no Begin fails.
THEOREM LeakedOnlyByBrokenChain ==
    ASSUME "begin" \notin Faults
    PROVE  Spec => []LeakedByBrokenChain
<1>1. Spec => []IInv
  BY Inductive
<1>2. QED
  BY <1>1, IInvLeaks, PTL
-----------------------------------------------------------------------------
(* The refinement: every step of a callback chain is a step of an atomic unit of work or a *)
(* stutter, as long as no Begin fails. *)

\* A step that moves neither pend nor the owners of transactions hides the same.
LEMMA HiddenKeeps ==
    ASSUME \A t \in Tx : (pend'[t] \/ pend[t]) => pend'[t] /\ pend[t] /\ txUnit'[t] = txUnit[t]
    PROVE  \A u \in Unit : Hidden(u)' = Hidden(u)
  BY DEF Hidden

LEMMA Stutters ==
    ASSUME \A u \in Unit : Hidden(u)' = Hidden(u), st' = st, visible' = visible
    PROVE  UNCHANGED Atomic!vars
  BY DEF Atomic!vars

\* A unit that is over has published everything or nothing.
LEMMA UnitEnds ==
    ASSUME IInv, NEW u \in Unit, NEW v \in {"ok", "skipped", "failed"},
           st[u] = "running", st' = [st EXCEPT ![u] = v],
           v = "ok" => Published(u), v \in {"failed", "skipped"} => ~visible[u],
           \A w \in Unit : Hidden(w)' = Hidden(w), visible' = visible
    PROVE  Atomic!Next
<1>1. [w \in Unit |-> Hidden(w)]' = [w \in Unit |-> Hidden(w)]
  OBVIOUS
<1>2. CASE v = "ok"
  <2>1. ~Hidden(u)
    BY <1>2 DEF Hidden, Published, IInv, TxInv
  <2>2. Atomic!Succeed(u)
    BY <1>1, <1>2, <2>1 DEF Atomic!Succeed
  <2>3. QED
    BY <2>2 DEF Atomic!Next
<1>3. CASE v \in {"skipped", "failed"}
  <2>1. Atomic!GiveUp(u, v)
    BY <1>1, <1>3 DEF Atomic!GiveUp
  <2>2. QED
    BY <1>3, <2>1 DEF Atomic!Next
<1>4. QED
  BY <1>2, <1>3

LEMMA UnitStarts ==
    ASSUME NEW u \in Unit, st[u] = "idle", st' = [st EXCEPT ![u] = "running"],
           \A w \in Unit : Hidden(w)' = Hidden(w), visible' = visible
    PROVE  Atomic!Next
<1>1. [w \in Unit |-> Hidden(w)]' = [w \in Unit |-> Hidden(w)]
  OBVIOUS
<1>2. Atomic!Start(u)
  BY <1>1 DEF Atomic!Start
<1>3. QED
  BY <1>2 DEF Atomic!Next
-----------------------------------------------------------------------------
LEMMA PlainRefines ==
    ASSUME IInv, NEW o \in Op, Plain(o)
    PROVE  [Atomic!Next]_(Atomic!vars)
<1>0. /\ Busy(o) /\ Top(o).handle \in Tx /\ Current(o) \in Unit
  BY PlainWrites, CurrentFacts DEF IInv
<1> PICK u \in Unit, t \in Tx : u = Current(o) /\ t = Top(o).handle
  BY <1>0
<1>1. /\ Busy(o) /\ txst[t] = "open" /\ txUnit[t] = u /\ st[u] = "running"
      /\ UNCHANGED <<st, visible, txUnit>>
      /\ \A x \in Tx : (x # t => pend'[x] = pend[x]) /\ (pend[x] => pend'[x])
  BY PlainWrites
<1>2. ~visible[u]
  BY <1>1 DEF IInv, TxInv
<1>3. \A w \in Unit : w # u => Hidden(w)' = Hidden(w)
  BY <1>1 DEF Hidden
<1>4. Hidden(u) => Hidden(u)'
  BY <1>1 DEF Hidden
<1>5. CASE Hidden(u)' = Hidden(u)
  BY <1>1, <1>3, <1>5, Stutters
<1>6. CASE Hidden(u)' # Hidden(u)
  <2>1. Hidden(u)' /\ ~Hidden(u)
    BY <1>4, <1>6 DEF Hidden
  <2>2. [w \in Unit |-> Hidden(w)]' = [[w \in Unit |-> Hidden(w)] EXCEPT ![u] = TRUE]
    BY <1>2, <1>3, <2>1
  <2>3. Atomic!Write(u)
    BY <1>1, <1>2, <2>2 DEF Atomic!Write
  <2>4. QED
    BY <1>2, <2>3 DEF Atomic!Next
<1>7. QED
  BY <1>5, <1>6

LEMMA BeginRefines ==
    ASSUME IInv, NEW o \in Op, BeginTransaction(o)
    PROVE  [Atomic!Next]_(Atomic!vars)
<1>1. PICK t \in Tx : txst[t] = "unused" /\ txUnit' = [txUnit EXCEPT ![t] = Current(o)]
  BY DEF BeginTransaction
<1>2. UNCHANGED <<st, visible, pend>>
  BY DEF BeginTransaction, call, effects
<1>3. ~pend[t]
  BY <1>1 DEF IInv, TxInv
<1>4. \A x \in Tx : x # t => txUnit'[x] = txUnit[x]
  BY <1>1 DEF IInv, TypeOK
<1>5. \A u \in Unit : Hidden(u)' = Hidden(u)
  BY <1>2, <1>3, <1>4, HiddenKeeps
<1>6. QED
  BY <1>2, <1>5, Stutters

LEMMA EndRefines ==
    ASSUME IInv, NEW o \in Op, EndTransaction(o)
    PROVE  [Atomic!Next]_(Atomic!vars)
<1>1. /\ Busy(o) /\ Top(o).cb = "finish" /\ UNCHANGED <<st, txUnit>>
  BY DEF EndTransaction, At, call
<1>0. Current(o) \in Unit /\ Top(o).handle \in Tx
  BY <1>1, CurrentFacts, TopHandle DEF IInv, Callbacks
<1> PICK u \in Unit, t \in Tx : u = Current(o) /\ t = Top(o).handle
  BY <1>0
<1>2. /\ txst[t] = "open" /\ txUnit[t] = u /\ st[u] = "running"
  BY <1>1, TopHandle DEF Callbacks
<1>3. ~visible[u] /\ (\A x \in Tx : txUnit[x] = u => x = t)
  <2>1. u # None
    BY <1>2, UnitAssumption DEF Unit
  <2>2. QED
    BY <1>2, <2>1 DEF IInv, TxInv
<1>4. CASE ~Top(o).began
  <2>1. UNCHANGED <<visible, pend>>
    BY <1>4, EndFrame DEF IInv
  <2>2. QED
    BY <1>1, <2>1, HiddenKeeps, Stutters
<1>5. CASE Top(o).began
  <2>1. PICK commits \in BOOLEAN :
             /\ visible' = [visible EXCEPT ![u] = @ \/ (commits /\ pend[t])]
             /\ pend' = [pend EXCEPT ![t] = @ /\ ~commits]
    <3>1. PICK fails \in BOOLEAN :
            LET commits == ~Top(o).err /\ ~fails
            IN  /\ visible' = [visible EXCEPT ![u] = @ \/ (commits /\ pend[t])]
                /\ pend' = [pend EXCEPT ![t] = @ /\ ~commits]
      BY <1>5, EndFrame DEF IInv
    <3>2. (~Top(o).err /\ ~fails) \in BOOLEAN
      OBVIOUS
    <3>3. QED
      BY <3>1, <3>2
  <2>2. /\ visible'[u] = (commits /\ pend[t])
        /\ pend'[t] = (pend[t] /\ ~commits)
        /\ \A x \in Tx : x # t => pend'[x] = pend[x]
    BY <1>2, <1>3, <2>1 DEF IInv, TypeOK
  <2>3. CASE commits /\ pend[t]
    <3>1. Hidden(u)
      BY <1>2, <2>3 DEF Hidden
    <3>2. ~Hidden(u)'
      BY <1>1, <1>3, <2>2, <2>3 DEF Hidden
    <3>3. \A w \in Unit : w # u => Hidden(w)' = Hidden(w)
      BY <1>1, <1>2, <2>2 DEF Hidden
    <3>4. [w \in Unit |-> Hidden(w)]' = [[w \in Unit |-> Hidden(w)] EXCEPT ![u] = FALSE]
      <4>1. Hidden(u)' = FALSE
        BY <3>2 DEF Hidden
      <4>2. QED
        BY <3>3, <4>1
    <3>5. visible' = [visible EXCEPT ![u] = TRUE]
      BY <2>1, <2>3
    <3>6. Atomic!Publish(u)
      BY <1>1, <1>2, <3>1, <3>4, <3>5 DEF Atomic!Publish
    <3>7. QED
      BY <1>2, <3>6 DEF Atomic!Next
  <2>4. CASE ~(commits /\ pend[t])
    <3>1. visible' = visible
      BY <1>2, <1>3, <2>1, <2>4 DEF IInv, TypeOK
    <3>2. \A x \in Tx : (pend'[x] \/ pend[x]) => pend'[x] /\ pend[x] /\ txUnit'[x] = txUnit[x]
      BY <1>1, <2>2, <2>4
    <3>3. QED
      BY <1>1, <3>1, <3>2, HiddenKeeps, Stutters
  <2>5. QED
    BY <2>3, <2>4
<1>6. QED
  BY <1>4, <1>5

LEMMA FallBackRefines ==
    ASSUME IInv, NEW o \in Op, FallBack(o)
    PROVE  [Atomic!Next]_(Atomic!vars)
<1>1. /\ Busy(o) /\ At(o, "end") /\ UNCHANGED <<visible, pend, txUnit>>
  BY DEF FallBack, At, database
<1>2. Current(o) \in Unit
  BY <1>1, CurrentFacts DEF IInv
<1>3. \A w \in Unit : Hidden(w)' = Hidden(w)
  BY <1>1, HiddenKeeps
<1>4. CASE depth[o] = 1
  <2>1. st' = [st EXCEPT ![Current(o)] = Verdict(Top(o))]
    BY <1>4 DEF FallBack
  <2>2. QED
    BY <1>1, <1>2, <1>3, <1>4, <2>1, VerdictFacts, UnitEnds
<1>5. CASE depth[o] # 1
  <2>1. st' = st
    BY <1>5 DEF FallBack
  <2>2. QED
    BY <1>1, <1>3, <2>1, Stutters
<1>6. QED
  BY <1>4, <1>5

LEMMA LookupRefines ==
    ASSUME IInv, NEW o \in Op, Lookup(o)
    PROVE  [Atomic!Next]_(Atomic!vars)
<1>1. /\ Busy(o) /\ UNCHANGED <<visible, pend, txUnit>>
      /\ st' = [st EXCEPT ![Current(o)] = "running"]
  BY DEF Lookup, At, database
<1>2. Current(o) \in Unit /\ st[Current(o)] \in {"idle", "running"}
  BY <1>1, CurrentFacts DEF IInv, ScopeInv, ScopeFacts
<1>3. \A w \in Unit : Hidden(w)' = Hidden(w)
  BY <1>1, HiddenKeeps
<1>4. CASE st[Current(o)] = "idle"
  BY <1>1, <1>2, <1>3, <1>4, UnitStarts
<1>5. CASE st[Current(o)] = "running"
  <2>1. st' = st
    BY <1>1, <1>5 DEF IInv, TypeOK
  <2>2. QED
    BY <1>1, <1>3, <2>1, Stutters
<1>6. QED
  BY <1>2, <1>4, <1>5

LEMMA ReturnToCallerRefines ==
    ASSUME IInv, NEW o \in Op, ReturnToCaller(o)
    PROVE  [Atomic!Next]_(Atomic!vars)
<1>1. /\ Busy(o) /\ At(o, "end") /\ depth[o] = 1 /\ UNCHANGED <<visible, pend, txUnit>>
      /\ st' = [st EXCEPT ![Current(o)] = Verdict(Top(o))]
  BY DEF ReturnToCaller, At, database
<1>2. Current(o) \in Unit
  BY <1>1, CurrentFacts DEF IInv
<1>3. \A w \in Unit : Hidden(w)' = Hidden(w)
  BY <1>1, HiddenKeeps
<1>4. QED
  BY <1>1, <1>2, <1>3, VerdictFacts, UnitEnds

LEMMA CallRefines ==
    ASSUME IInv, NEW o \in Op, Call(o)
    PROVE  [Atomic!Next]_(Atomic!vars)
<1>1. /\ turn[o] = 0 /\ UNCHANGED <<visible, pend, txUnit>>
      /\ st' = [st EXCEPT ![<<o, 1>>] = "running"]
  BY DEF Call, database
<1>2. <<o, 1>> \in Unit /\ st[<<o, 1>>] = "idle"
  <2>1. UnitFacts(o, 1)
    BY DEF IInv, UnitInv
  <2>2. QED
    BY <1>1, <2>1 DEF Unit, UnitFacts
<1>3. \A w \in Unit : Hidden(w)' = Hidden(w)
  BY <1>1, HiddenKeeps
<1>4. QED
  BY <1>1, <1>2, <1>3, UnitStarts

LEMMA StackRefines ==
    ASSUME IInv, NEW o \in Op, OpenNested(o) \/ ReturnNested(o)
    PROVE  [Atomic!Next]_(Atomic!vars)
<1>1. UNCHANGED <<st, visible, pend, txUnit>>
  BY DEF OpenNested, ReturnNested, database
<1>2. QED
  BY <1>1, HiddenKeeps, Stutters
-----------------------------------------------------------------------------
LEMMA InitRefines == Init => Atomic!Init
<1> SUFFICES ASSUME Init PROVE Atomic!Init
  OBVIOUS
<1>1. \A u \in Unit : Hidden(u) = FALSE
  BY DEF Init, Hidden
<1>2. [u \in Unit |-> Hidden(u)] = [u \in Unit |-> FALSE]
  BY <1>1
<1>3. QED
  BY <1>2 DEF Init, Atomic!Init

LEMMA StepRefines ==
    ASSUME "begin" \notin Faults
    PROVE  IInv /\ [Next]_vars => [Atomic!Next]_(Atomic!vars)
<1> SUFFICES ASSUME IInv, [Next]_vars PROVE [Atomic!Next]_(Atomic!vars)
  OBVIOUS
<1>1. CASE UNCHANGED vars
  BY <1>1, HiddenKeeps, Stutters DEF vars
<1>2. ASSUME NEW o \in Op, Call(o) \/ Step(o) PROVE [Atomic!Next]_(Atomic!vars)
  <2>1. ~BeginFails(o)
    BY DEF BeginFails
  <2>2. QED
    BY <1>2, <2>1, CallRefines, PlainRefines, BeginRefines, StackRefines, EndRefines,
       FallBackRefines, LookupRefines, ReturnToCallerRefines DEF Step, Plain
<1>3. QED
  BY <1>1, <1>2 DEF Next

\* A callback chain, with all the scopes nested in it and the fallback of Save as
\* a second unit, implements the atomic unit of work when no Begin fails.
THEOREM Refinement ==
    ASSUME "begin" \notin Faults
    PROVE  Spec => AtomicSpec
<1>1. IInv /\ [Next]_vars => [Atomic!Next]_(Atomic!vars)
  BY StepRefines
<1>2. Spec => []IInv
  BY Inductive
<1>3. QED
  BY <1>1, <1>2, InitRefines, PTL DEF Spec, AtomicSpec, Atomic!Spec
=============================================================================
