--------------------------- MODULE ScopePipeline ---------------------------
(***************************************************************************)
(* The callback chains of scope.go and callback_*.go: what Create, Save,   *)
(* Updates, UpdateColumn and Delete do to the database, the transaction    *)
(* each scope starts for itself, the nested scopes that save associations  *)
(* and children inside it, and the connection pool they all compete for.   *)
(*                                                                         *)
(* A process o \in Op is a goroutine making one call of the API.  Its Go   *)
(* call stack of scopes is frame[o][1 .. depth[o]]; every step runs one    *)
(* callback (or one iteration of a callback's loop) of the innermost one.  *)
(* Callbacks that touch none of this state (aorm:start, aorm:set_id,       *)
(* aorm:update_time_stamp, aorm:audited, aorm:force_reload_after_create)   *)
(* are no steps: they can neither fail the scope nor skip the rest.        *)
(***************************************************************************)
EXTENDS Naturals, FiniteSets

CONSTANTS Op,         \* the concurrent API calls
          Kinds,      \* the API calls they may be
          Tx,         \* the transactions the server can hand out
          Pool,       \* the handle that is the *sql.DB, not a transaction
          None,       \* no unit
          MaxOpen,    \* sql.DB.SetMaxOpenConns: connections of the pool
          MaxDepth,   \* bound: scopes nested in each other
          MaxNested,  \* bound: nested scopes and join rows of one scope
          Faults      \* what may go wrong, and may be cut short ("skip")

AllKinds  == {"Create", "Save", "Updates", "UpdateColumn", "Delete"}
AllFaults == {"begin", "callback", "statement", "commit", "lookup", "skip"}

ASSUME HandleAssumption == Pool \notin Tx
ASSUME UnitAssumption   == None \notin Op \X {1, 2}
ASSUME KindAssumption   == Kinds \subseteq AllKinds /\ Faults \subseteq AllFaults
ASSUME BoundAssumption  == /\ MaxOpen \in Nat \ {0}
                           /\ MaxDepth \in Nat \ {0}
                           /\ MaxNested \in Nat

VARIABLES kind,     \* kind[o]: the API call o makes
          depth,    \* depth[o]: nested scopes of o, 0 outside of a call
          frame,    \* frame[o][d]: the d-th scope of o
          turn,     \* turn[o]: 0 before the call, else the unit of o that runs
          st,       \* st[u]: "idle", "running" or how unit u ended
          visible,  \* visible[u]: other connections see a statement of u
          failed,   \* failed[u]: something u ran has failed
          txst,     \* txst[t]: "unused", "open", "committed", "rolledback"
          txUnit,   \* txUnit[t]: the unit that began t
          pend      \* pend[t]: t holds statements that nobody else sees

vars == <<kind, depth, frame, turn, st, visible, failed, txst, txUnit, pend>>

\* The k-th chain an API call runs at top level: Save may run two of them.
Unit == Op \X {1, 2}
-----------------------------------------------------------------------------
(* Scopes *)

Chains    == {"create", "update", "delete"}
Loops     == {"saveBefore", "children", "saveAfter"}
Callbacks == {"begin", "before", "exec", "after", "finish"} \cup Loops
Places    == Callbacks \cup {"link", "lookup", "end"}

\* What the caller of a nested scope does with its error, having recorded it:
\* goes on to its next relation, returns, or adds a row to the join table.
Returns == {"api", "next", "stop", "link", "stopOrLink"}

Frame == [chain   : Chains,
          cb      : Places,            \* the callback that runs next
          err     : BOOLEAN,           \* scope.db.Error # nil
          skip    : BOOLEAN,           \* scope.skipLeft
          handle  : Tx \cup {Pool},    \* scope.db.db
          began   : BOOLEAN,           \* InstanceGet("aorm:started_transaction")
          rows    : 0 .. 2,            \* scope.db.RowsAffected: none, one, more
          noTx    : BOOLEAN,           \* "aorm:disable_scope_transaction"
          mode    : {"plain", "save", "child"},  \* who falls back to a create
          ret     : Returns,
          n       : 0 .. MaxNested,    \* nested scopes opened so far
          linkErr : BOOLEAN]           \* the Error of the newDB of a join row

NoFrame == [chain |-> "create", cb |-> "end", err |-> FALSE, skip |-> FALSE,
            handle |-> Pool, began |-> FALSE, rows |-> 0, noTx |-> FALSE,
            mode |-> "plain", ret |-> "api", n |-> 0, linkErr |-> FALSE]

\* A chain whose aorm:commit_or_rollback_transaction was never registered.
NextCallbackWithoutFinish(f) ==
    CASE f.cb = "begin"      -> "before"
      [] f.cb = "before"     -> IF f.chain = "delete" THEN "exec" ELSE "saveBefore"
      [] f.cb = "saveBefore" -> "exec"
      [] f.cb = "exec"       -> IF f.chain = "delete" THEN "after" ELSE "children"
      [] f.cb = "children"   -> "saveAfter"
      [] f.cb = "saveAfter"  -> "after"
      [] OTHER               -> "end"

\* The order in which init() registers the callbacks of each chain.
NextCallback(f) ==
    CASE f.cb = "begin"      -> "before"
      [] f.cb = "before"     -> IF f.chain = "delete" THEN "exec" ELSE "saveBefore"
      [] f.cb = "saveBefore" -> "exec"
      [] f.cb = "exec"       -> IF f.chain = "delete" THEN "after" ELSE "children"
      [] f.cb = "children"   -> "saveAfter"
      [] f.cb = "saveAfter"  -> "after"
      [] f.cb = "after"      -> "finish"
      [] f.cb = "finish"     -> "end"

\* callCallbacks after a callback returns: the rest of the chain, which holds
\* aorm:commit_or_rollback_transaction, is dropped on an error or a skip.
Advance(f) == IF f.err \/ f.skip THEN [f EXCEPT !.cb = "end"]
                                 ELSE [f EXCEPT !.cb = NextCallback(f)]

\* A scope that does not look at the Error it was cloned with.
FirstCallbackAlways(err) == "begin"

\* A scope cloned from a DB that has an Error stops after aorm:start.
FirstCallback(err) == IF err THEN "end" ELSE "begin"

\* NewDB that gives the root's handle to nested scopes, not the scope's own.
NewScopeOnPool(chain, db, noTx, mode, ret) ==
    [NoFrame EXCEPT !.chain = chain, !.cb = FirstCallback(db.err), !.err = db.err,
                    !.rows = db.rows, !.noTx = noTx, !.mode = mode, !.ret = ret]

\* "aorm:started_transaction" set with Set, which nested scopes inherit.
NewScopeInheritingMark(chain, db, noTx, mode, ret) ==
    [NoFrame EXCEPT !.chain = chain, !.cb = FirstCallback(db.err), !.err = db.err,
                    !.handle = db.handle, !.rows = db.rows, !.noTx = noTx,
                    !.mode = mode, !.ret = ret, !.began = db.began]

\* NewDB, then NewScope on it: handle, Error, RowsAffected and settings are
\* cloned, what InstanceSet has set for the outer scope is not found again.
NewScope(chain, db, noTx, mode, ret) ==
    [chain |-> chain, cb |-> FirstCallback(db.err), err |-> db.err, skip |-> FALSE,
     handle |-> db.handle, began |-> FALSE, rows |-> db.rows, noTx |-> noTx,
     mode |-> mode, ret |-> ret, n |-> 0, linkErr |-> FALSE]

Top(o)  == frame[o][depth[o]]
Busy(o) == depth[o] > 0
\* The DB on which the innermost scope was opened.
Base(o) == IF depth[o] = 1 THEN NoFrame ELSE frame[o][depth[o] - 1]

SetTop(o, f) == frame' = [frame EXCEPT ![o][depth[o]] = f]
-----------------------------------------------------------------------------
(* The database: connections and effects *)

OpenTx    == {t \in Tx : txst[t] = "open"}
Available == Cardinality(OpenTx) < MaxOpen

Current(o) == <<o, turn[o]>>

\* A statement on the pool borrows a connection for itself.
CanExec(h) == h = Pool => Available

\* When done, a statement of o has reached the database through the handle h.
Wrote(o, h, done) ==
    IF h = Pool
    THEN visible' = [visible EXCEPT ![Current(o)] = @ \/ done] /\ UNCHANGED pend
    ELSE pend' = [pend EXCEPT ![h] = @ \/ done] /\ UNCHANGED visible

Failing(o, err) == failed' = [failed EXCEPT ![Current(o)] = @ \/ err]

May(fault) == IF fault \in Faults THEN BOOLEAN ELSE {FALSE}
-----------------------------------------------------------------------------
(* The calls and the callbacks *)

Init == /\ kind = [o \in Op |-> "Create"]
        /\ depth = [o \in Op |-> 0]
        /\ frame = [o \in Op |-> [d \in 1 .. MaxDepth |-> NoFrame]]
        /\ turn = [o \in Op |-> 0]
        /\ st = [u \in Unit |-> "idle"]
        /\ visible = [u \in Unit |-> FALSE]
        /\ failed = [u \in Unit |-> FALSE]
        /\ txst = [t \in Tx |-> "unused"]
        /\ txUnit = [t \in Tx |-> None]
        /\ pend = [t \in Tx |-> FALSE]

database == <<txst, txUnit, pend>>
effects  == <<visible, pend>>
call     == <<kind, depth, turn, st>>

\* Save is given a value whose primary key is set: without one it is Create.
FirstChain(k) == CASE k = "Create" -> "create"
                   [] k = "Delete" -> "delete"
                   [] OTHER        -> "update"

Call(o) ==
    /\ turn[o] = 0
    /\ \E k \in Kinds :
        /\ kind' = [kind EXCEPT ![o] = k]
        /\ frame' = [frame EXCEPT ![o][1] =
              NewScope(FirstChain(k), NoFrame, FALSE, IF k = "Save" THEN "save" ELSE "plain", "api")]
    /\ depth' = [depth EXCEPT ![o] = 1]
    /\ turn' = [turn EXCEPT ![o] = 1]
    /\ st' = [st EXCEPT ![<<o, 1>>] = "running"]
    /\ UNCHANGED <<visible, failed, database>>

\* The innermost scope of o is about to run the callback cb.
At(o, cb) == Busy(o) /\ Top(o).cb = cb

\* A scope on a transaction (only *sql.DB can begin), or told not to, has none.
Begins(f) == ~f.noTx /\ f.handle = Pool

NoTransaction(o) ==
    /\ At(o, "begin")
    /\ ~Begins(Top(o))
    /\ SetTop(o, Advance(Top(o)))
    /\ UNCHANGED <<call, failed, visible, database>>

BeginTransaction(o) ==
    /\ At(o, "begin")
    /\ Begins(Top(o))
    /\ Available
    /\ \E t \in Tx :
        /\ txst[t] = "unused"
        /\ txst' = [txst EXCEPT ![t] = "open"]
        /\ txUnit' = [txUnit EXCEPT ![t] = Current(o)]
        /\ SetTop(o, Advance([Top(o) EXCEPT !.handle = t, !.began = TRUE]))
    /\ UNCHANGED <<call, failed, effects>>

\* The error of sql.DB.Begin is dropped: the chain goes on with the pool.
BeginFails(o) ==
    /\ "begin" \in Faults
    /\ At(o, "begin")
    /\ Begins(Top(o))
    /\ SetTop(o, Advance(Top(o)))
    /\ UNCHANGED <<call, failed, visible, database>>

\* An update that finds the setting "aorm:update_column".
InUpdateColumn(o) == kind[o] = "UpdateColumn" /\ Top(o).chain = "update"

\* before_create, before_update, before_delete: the model's own methods, and the
\* block on global updates.  An update given values skips the rest when none of
\* them changes anything; a method can skip the rest of any chain.
\* UpdateColumn(s) sets "aorm:update_interface" too, so its methods run as well, but
\* not those of the updates nested in it, which inherit only "aorm:update_column".
Before(o) ==
    /\ At(o, "before")
    /\ \E err \in May("callback"), skip \in May("skip") :
        /\ InUpdateColumn(o) /\ depth[o] > 1 => ~err /\ ~skip
        /\ SetTop(o, Advance([Top(o) EXCEPT !.err = err, !.skip = skip]))
        /\ Failing(o, err)
    /\ UNCHANGED <<call, visible, database>>

\* after_create, after_update, after_delete.
After(o) ==
    /\ At(o, "after")
    /\ \E err \in May("callback"), skip \in May("skip") :
        /\ InUpdateColumn(o) => ~err /\ ~skip
        /\ SetTop(o, Advance([Top(o) EXCEPT !.err = err, !.skip = skip]))
        /\ Failing(o, err)
    /\ UNCHANGED <<call, visible, database>>

\* An error may come before the statement is executed or when its result is read.
Outcome == {[done |-> TRUE, err |-> FALSE]}
           \cup IF "statement" \in Faults THEN [done : BOOLEAN, err : {TRUE}] ELSE {}

\* The scope's own INSERT, UPDATE or DELETE.
Exec(o) ==
    /\ At(o, "exec")
    /\ CanExec(Top(o).handle)
    /\ \E out \in Outcome, rows \in 0 .. 2 :
        /\ Top(o).chain # "update" => rows = 1
        /\ SetTop(o, Advance([Top(o) EXCEPT !.err = out.err,
                                            !.rows = IF out.err THEN @ ELSE rows]))
        /\ Wrote(o, Top(o).handle, out.done)
        /\ Failing(o, out.err)
    /\ UNCHANGED <<call, txst, txUnit>>

\* No column to set: no UPDATE, and RowsAffected keeps what it was cloned with.
NoColumns(o) ==
    /\ At(o, "exec")
    /\ Top(o).chain = "update"
    /\ SetTop(o, Advance(Top(o)))
    /\ UNCHANGED <<call, failed, visible, database>>

\* DB.Save of an associated value, with or without a primary key.
SavesOf(f, rets) == {NewScope(chain, f, f.noTx, "save", ret) : chain \in {"create", "update"},
                                                                ret \in rets}

\* Children are created or, of an updated row, updated (outside of any new
\* transaction) and, when the field is nil, deleted.
ChildrenOf(f) ==
    IF f.chain = "create" THEN {NewScope("create", f, f.noTx, "plain", "stop")}
    ELSE IF f.rows = 1 THEN {NewScope("update", f, TRUE, "child", "stop"),
                             NewScope("delete", f, f.noTx, "plain", "next")}
    ELSE {}

\* The nested scopes a loop may open, f being the scope that runs it.
\*   belongs_to, has_one: on an error, on to the next relation
\*   has_many:            a failed create goes on, a failed update returns
\*   many_to_many:        likewise, then the row of the join table
NestedOf(f) ==
    CASE f.cb = "saveBefore" -> SavesOf(f, {"next"})
      [] f.cb = "saveAfter"  -> {g \in SavesOf(f, {"next", "stop", "link", "stopOrLink"}) :
                                   /\ g.ret = "link" => g.chain = "create"
                                   /\ g.ret \in {"stop", "stopOrLink"} => g.chain = "update"}
      [] f.cb = "children"   -> ChildrenOf(f)

\* The element of a has_many relation is given its foreign keys after its DB was
\* made: where that fails (err), it is saved all the same, on a DB without the error.
SavedOnOldDB(f, g) == f.cb = "saveAfter" /\ (g.ret = "stop" \/ (g.ret = "next" /\ g.chain = "create"))

\* UpdateColumn saves no associations unless the tags of a field say otherwise.
OpenNested(o) ==
    /\ Busy(o)
    /\ Top(o).cb \in Loops
    /\ ~(InUpdateColumn(o) /\ Top(o).cb = "children")
    /\ depth[o] < MaxDepth
    /\ Top(o).n < MaxNested
    /\ depth' = [depth EXCEPT ![o] = @ + 1]
    /\ \E g \in NestedOf(Top(o)), err \in May("callback") :
         /\ err => SavedOnOldDB(Top(o), g)
         /\ frame' = [frame EXCEPT ![o][depth[o]] = [Top(o) EXCEPT !.n = @ + 1, !.err = @ \/ err],
                                   ![o][depth[o] + 1] = g]
         /\ Failing(o, err)
    /\ UNCHANGED <<kind, turn, st, visible, database>>

\* A foreign key or a polymorphic type cannot be set: before or after a Save, or
\* where nothing is saved.  The loop goes on.
SetColumnFails(o) ==
    /\ "callback" \in Faults
    /\ Busy(o)
    /\ Top(o).cb \in {"saveBefore", "saveAfter"}
    /\ SetTop(o, [Top(o) EXCEPT !.err = TRUE])
    /\ Failing(o, TRUE)
    /\ UNCHANGED <<call, visible, database>>

LeaveLoop(o) ==
    /\ Busy(o)
    /\ Top(o).cb \in Loops
    /\ SetTop(o, Advance(Top(o)))
    /\ UNCHANGED <<call, failed, visible, database>>

\* An existing element of a many_to_many relation is only linked, not saved.
LinkExisting(o) ==
    /\ At(o, "saveAfter")
    /\ Top(o).n < MaxNested
    /\ SetTop(o, [Top(o) EXCEPT !.cb = "link", !.linkErr = Top(o).err, !.n = @ + 1])
    /\ UNCHANGED <<call, failed, visible, database>>

\* JoinTableHandler.Add on the DB the element was given, not on that of its Save.
Link(o) ==
    /\ At(o, "link")
    /\ LET f == [Top(o) EXCEPT !.cb = "saveAfter", !.linkErr = FALSE]
       IN  IF Top(o).linkErr
           THEN SetTop(o, f) /\ UNCHANGED <<failed, effects>>
           ELSE /\ CanExec(f.handle)
                /\ \E out \in Outcome : /\ SetTop(o, [f EXCEPT !.err = @ \/ out.err])
                                         /\ Wrote(o, f.handle, out.done)
                                         /\ Failing(o, out.err)
    /\ UNCHANGED <<call, txst, txUnit>>

\* CommitOrRollback, by the scope that began; the root's handle is set again.
EndTransaction(o) ==
    /\ At(o, "finish")
    /\ IF Top(o).began
       THEN \E fails \in May("commit") :
              LET t == Top(o).handle
                  commits == ~Top(o).err /\ ~fails
              IN  /\ txst' = [txst EXCEPT ![t] = IF commits THEN "committed" ELSE "rolledback"]
                  /\ visible' = [visible EXCEPT ![Current(o)] = @ \/ (commits /\ pend[t])]
                  /\ pend' = [pend EXCEPT ![t] = @ /\ ~commits]
                  /\ SetTop(o, Advance([Top(o) EXCEPT !.err = @ \/ fails, !.handle = Pool]))
                  /\ Failing(o, fails)
       ELSE SetTop(o, Advance(Top(o))) /\ UNCHANGED <<txst, visible, pend, failed>>
    /\ UNCHANGED <<call, txUnit>>
-----------------------------------------------------------------------------
(* Return of a chain to whoever ran it *)

\* An update of no row, by Save or for a child: look the row up and create it.
FallsBack(f) == f.chain = "update" /\ f.mode # "plain" /\ ~f.err /\ f.rows = 0

Verdict(f) == IF f.err THEN "failed" ELSE IF f.skip THEN "skipped" ELSE "ok"

\* DB.Save goes on with FirstOrCreate on the DB it was called on, which had no Error;
\* the child of an update is looked up, and then created, by scopes of its own.
FallBack(o) ==
    /\ At(o, "end")
    /\ FallsBack(Top(o))
    /\ SetTop(o, [NewScope("create", [Base(o) EXCEPT !.err = FALSE], Top(o).noTx, Top(o).mode, Top(o).ret)
                   EXCEPT !.cb = "lookup"])
    /\ IF depth[o] = 1
       THEN /\ st' = [st EXCEPT ![Current(o)] = Verdict(Top(o))]
            /\ turn' = [turn EXCEPT ![o] = 2]
       ELSE UNCHANGED <<st, turn>>
    /\ UNCHANGED <<kind, depth, failed, visible, database>>

\* An error of the lookup ends a Save, but only this child in a loop of children.
Lookup(o) ==
    /\ At(o, "lookup")
    /\ CanExec(Top(o).handle)
    /\ LET f == [Top(o) EXCEPT !.mode = "plain"]
       IN  \/ SetTop(o, [f EXCEPT !.cb = "end"]) /\ UNCHANGED failed
           \/ SetTop(o, [f EXCEPT !.cb = "begin"]) /\ UNCHANGED failed
           \/ /\ "lookup" \in Faults
              /\ SetTop(o, [f EXCEPT !.cb = "end", !.err = TRUE,
                                     !.ret = IF Top(o).mode = "child" THEN "next" ELSE @])
              /\ Failing(o, TRUE)
    /\ st' = [st EXCEPT ![Current(o)] = "running"]
    /\ UNCHANGED <<kind, depth, turn, visible, database>>

\* Errors of nested scopes that the loop survives are not recorded.
ResumeDropping(p, f, linked) ==
    LET q == [p EXCEPT !.err = @ \/ (f.err /\ f.ret = "stop")]
    IN  IF f.err /\ f.ret \in {"stop", "stopOrLink"} THEN Advance(q)
        ELSE IF linked /\ f.ret \in {"link", "stopOrLink"}
        THEN [q EXCEPT !.cb = "link", !.linkErr = p.err]
        ELSE q

\* The loop of p goes on after its nested scope f; linked: the element has an ID
\* and its relation saves references.
Resume(p, f, linked) ==
    LET q == [p EXCEPT !.err = @ \/ f.err]
    IN  IF f.err /\ f.ret \in {"stop", "stopOrLink"} THEN Advance(q)
        ELSE IF linked /\ f.ret \in {"link", "stopOrLink"}
        THEN [q EXCEPT !.cb = "link", !.linkErr = p.err]
        ELSE q

ReturnNested(o) ==
    /\ At(o, "end")
    /\ ~FallsBack(Top(o))
    /\ depth[o] > 1
    /\ \E linked \in BOOLEAN :
         frame' = [frame EXCEPT ![o][depth[o] - 1] = Resume(@, Top(o), linked),
                                ![o][depth[o]] = NoFrame]
    /\ depth' = [depth EXCEPT ![o] = @ - 1]
    /\ UNCHANGED <<kind, turn, st, failed, visible, database>>

ReturnToCaller(o) ==
    /\ At(o, "end")
    /\ ~FallsBack(Top(o))
    /\ depth[o] = 1
    /\ st' = [st EXCEPT ![Current(o)] = Verdict(Top(o))]
    /\ SetTop(o, NoFrame)
    /\ depth' = [depth EXCEPT ![o] = 0]
    /\ UNCHANGED <<kind, turn, failed, visible, database>>
-----------------------------------------------------------------------------
Step(o) == \/ NoTransaction(o) \/ BeginTransaction(o) \/ BeginFails(o)
           \/ Before(o) \/ After(o) \/ Exec(o) \/ NoColumns(o)
           \/ OpenNested(o) \/ SetColumnFails(o) \/ LeaveLoop(o) \/ LinkExisting(o) \/ Link(o)
           \/ EndTransaction(o) \/ FallBack(o) \/ Lookup(o)
           \/ ReturnNested(o) \/ ReturnToCaller(o)

Finished == \A o \in Op : turn[o] > 0 /\ ~Busy(o)

Next == \/ \E o \in Op : Call(o) \/ Step(o)
        \/ Finished /\ UNCHANGED vars

Spec == Init /\ [][Next]_vars

\* A goroutine inside a call runs on; nothing makes one start.
FairSpec == Spec /\ \A o \in Op : WF_vars(Step(o))
-----------------------------------------------------------------------------
(* Correctness *)

\* Types of the variables, and slots above the stack are empty.
TypeOK == /\ kind \in [Op -> AllKinds]
          /\ depth \in [Op -> 0 .. MaxDepth]
          /\ frame \in [Op -> [1 .. MaxDepth -> Frame]]
          /\ turn \in [Op -> 0 .. 2]
          /\ st \in [Unit -> {"idle", "running", "ok", "skipped", "failed"}]
          /\ visible \in [Unit -> BOOLEAN]
          /\ failed \in [Unit -> BOOLEAN]
          /\ txst \in [Tx -> {"unused", "open", "committed", "rolledback"}]
          /\ txUnit \in [Tx -> Unit \cup {None}]
          /\ pend \in [Tx -> BOOLEAN]

\* A goroutine on its way has a unit, and a scope with nested ones waits in a loop.
StackInv == \A o \in Op : Busy(o) => /\ turn[o] > 0
                                    /\ \A d \in 1 .. depth[o] - 1 : frame[o][d].cb \in Loops

\* Statements of u that are executed and that nobody else sees.
Hidden(u) == \E t \in Tx : txUnit[t] = u /\ pend[t]

\* As long as no Begin fails, a call's statements, its nested saves and join
\* rows included, are seen by others all together or not at all: all of them
\* when it succeeds, none when it fails or is cut short (callCallbacks, Begin
\* and CommitOrRollback, NewDB handing the transaction to nested scopes).
AllOrNothing == \A u \in Unit : /\ ~(visible[u] /\ Hidden(u))
                                /\ st[u] = "ok" => ~Hidden(u)
                                /\ st[u] \in {"failed", "skipped"} => ~visible[u]

\* The same as a specification: a chain implements an atomic unit of work.
Atomic     == INSTANCE AtomicUnits WITH hidden <- [u \in Unit |-> Hidden(u)]
AtomicSpec == Atomic!Spec

\* A call that reports no error had none: no nested save, join row, child,
\* method or commit of it failed, at whatever depth (the scope.Err around every
\* nested call in callback_save.go, callback_create.go and callback_update.go).
NoLostError == \A u \in Unit : st[u] \in {"ok", "skipped"} => ~failed[u]

\* Once something failed in a unit, its loops unwind, and what else still runs is
\* named: rows added to a join table (saveAfterAssociationsCallback passes Add the
\* DB it made before the Save of the element failed), and the whole chain, scopes
\* nested in it included, of a has_many element that could not be given its foreign
\* key, where each failed scope below it is one that waits for such a Save.
BrokenOffByFailure ==
    \A o \in Op : Busy(o) /\ failed[Current(o)] /\ Top(o).cb \notin Loops \cup {"link", "end"} =>
        /\ ~Top(o).err
        /\ \E d \in 1 .. depth[o] - 1 : frame[o][d].err
        /\ \A d \in 1 .. depth[o] - 1 : frame[o][d].err => /\ frame[o][d].cb = "saveAfter"
                                                          /\ frame[o][d + 1].ret \in {"next", "stop"}

\* A transaction is ended by the scope that began it, when the scopes nested in
\* that one have returned: no other scope is still on it (InstanceSet keeps the
\* mark of the starter from being inherited, NewDB hands on the handle).
EndedByStarter ==
    [][\A t \in Tx : (txst[t] = "open" /\ txst'[t] # "open") =>
         \E o \in Op : /\ At(o, "finish")
                       /\ txUnit[t] = Current(o)
                       /\ \A p \in Op : \A d \in 1 .. depth[p] :
                            frame[p][d].handle = t => p = o /\ d = depth[o]]_vars

Holds(o, t) == \E d \in 1 .. depth[o] : frame[o][d].began /\ frame[o][d].handle = t
Leaked == {t \in OpenTx : ~\E o \in Op : Holds(o, t)}

\* As long as no Begin fails, no connection is kept past a call that ran its chain to
\* the end: what is leaked was begun by a unit that failed or skipped the rest, and so
\* never reached CommitOrRollback, which by its comment rolls back in the first case.
LeakedByBrokenChain == \A t \in Leaked : st[txUnit[t]] \in {"failed", "skipped"}

\* However many calls compete for one connection, every call returns, unless a
\* chain that was broken off has kept the connection for good (the nested scopes of
\* a call run on its transaction and never ask for a connection of their own).
EveryCallReturns == \A o \in Op : Busy(o) ~> ~Busy(o) \/ Leaked # {}

(* The inductive invariant behind AllOrNothing, Begin not failing *)

\* A unit has at most one transaction, which hides what it holds until committed.
TxInv ==
    /\ \A t \in Tx : (txst[t] = "unused") <=> (txUnit[t] = None)
    /\ \A t1, t2 \in Tx : txUnit[t1] = txUnit[t2] /\ txUnit[t1] # None => t1 = t2
    /\ \A t \in Tx : pend[t] => txst[t] \in {"open", "rolledback"}
    /\ \A t \in Tx : txst[t] \in {"open", "rolledback"} => ~visible[txUnit[t]]

Fresh(u)     == ~visible[u] /\ \A t \in Tx : txUnit[t] # u
Published(u) == \A t \in Tx : txUnit[t] = u => txst[t] = "committed"
Ended(u)     == \A t \in Tx : txUnit[t] = u => txst[t] # "open"

\* What is known of the k-th unit of o from where o is.
UnitFacts(o, k) ==
    /\ st[<<o, k>>] = "idle" => Fresh(<<o, k>>)
    /\ st[<<o, k>>] = "idle" => k > turn[o] \/ (k = turn[o] /\ At(o, "lookup") /\ depth[o] = 1)
    /\ k > turn[o] => st[<<o, k>>] = "idle"
    /\ st[<<o, k>>] = "running" => Busy(o) /\ k = turn[o]
    /\ st[<<o, k>>] = "ok" => Published(<<o, k>>)
    /\ st[<<o, k>>] \in {"failed", "skipped"} => ~visible[<<o, k>>]

UnitInv == \A o \in Op, k \in {1, 2} : UnitFacts(o, k)

\* The outermost scope of a call: on the pool before its Begin and after its
\* commit, else on the open transaction of the call's unit; broken off if it ends
\* there.
OuterInv(o, f, u) ==
    /\ ~f.noTx
    /\ f.handle \in Tx => f.began /\ txst[f.handle] = "open" /\ txUnit[f.handle] = u
    /\ f.cb \in {"begin", "lookup"} => f.handle = Pool /\ Fresh(u)
    /\ f.cb \in (Callbacks \ {"begin"}) \cup {"link"} => f.handle \in Tx
    /\ f.cb = "end" /\ f.handle \in Tx => f.err \/ f.skip
    /\ f.cb = "end" /\ f.handle = Pool =>
          (f.err /\ ~visible[u] /\ Ended(u)) \/ (~f.err /\ ~f.skip /\ Published(u))
    /\ f.cb # "end" => ~f.skip
    /\ turn[o] = 2 => f.chain = "create"

\* The scopes nested in it work on its transaction and never begin one.
NestedInv(o) ==
    \A d \in 2 .. depth[o] : frame[o][d].handle = frame[o][1].handle /\ ~frame[o][d].began

ScopeFacts(o) == /\ st[Current(o)] \in {"idle", "running"}
                 /\ OuterInv(o, frame[o][1], Current(o))
                 /\ NestedInv(o)

ScopeInv == \A o \in Op : Busy(o) => ScopeFacts(o)

\* Everything a call needs to be all or nothing: every nested scope runs on the
\* one transaction of its unit, and only the scope that began it publishes.
IInv == TypeOK /\ StackInv /\ TxInv /\ UnitInv /\ ScopeInv
=============================================================================
