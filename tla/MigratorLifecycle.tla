------------------------- MODULE MigratorLifecycle -------------------------
(***************************************************************************)
(* A Migrator: the transaction it begins, the migration of a table with    *)
(* its join table, index, foreign key and children's tables, the post      *)
(* handlers and the commit.  The dialect, which tells what exists, asks on *)
(* the handle of whatever transaction was begun last (see                  *)
(* UserTransaction); another goroutine begins transactions too.            *)
(*                                                                         *)
(* base holds the objects of the database, own those the Migrator's        *)
(* transaction sees.  DDL is transactional.                                *)
(***************************************************************************)
EXTENDS Naturals, Sequences

CONSTANTS Type,      \* model structs
          Children,  \* Children[t]: the children of t, with tables of their own
          Joins,     \* Joins[t]: the join tables of t's fields, at most one
          Bases,     \* what the database may hold at the start
          Programs,  \* what a Migrate is given: functions as in Fun
          MaxConns,  \* SetMaxOpenConns
          MaxFaults, \* bound: statements, callbacks and functions that fail
          MaxCalls   \* bound: calls of Migrate

\* A function returns AutoMigrate's error, or does not, or fails by itself.
Fun == [does : {"strict", "swallow", "fail"}, t : Type]

Objects == ({"table", "column", "index", "fk"} \X Type) \cup ({"join"} \X UNION {Joins[t] : t \in Type})

ASSUME TypeAssumption == /\ Children \in [Type -> Seq(Type)]
                         /\ \A t \in Type : \A i, j \in Joins[t] : i = j
                         /\ Programs \subseteq Seq(Fun)
ASSUME BoundAssumption == MaxConns \in Nat \ {0} /\ MaxFaults \in Nat /\ MaxCalls \in Nat
\* A database has no column without its table.
ASSUME BaseAssumption ==
    \A b \in Bases : b \subseteq Objects /\ \A t \in Type : <<"column", t>> \in b => <<"table", t>> \in b

VARIABLES base,   \* committed objects: <<"table", t>>, <<"column", t>>, <<"index", t>>, <<"fk", t>>, <<"join", j>>
          own,    \* objects the transaction sees
          tx,     \* the Migrator's transaction
          broken, \* a statement of it has failed: the database takes no more
          aborts, \* the database does so
          handle, \* whose handle the dialect has
          other,  \* the other goroutine has a transaction
          mig,    \* the Migrator: [db, failed, trans, posts]
          phase,  \* where Migrate is
          todo,   \* functions, then post handlers, left
          stack,  \* frames of autoMigrate
          asked,  \* types given to AutoMigrate in this Migrate
          lost,   \* a child's error was dropped, or a function swallowed one
          out,    \* how Migrate has ended
          errored,\* some Migrate of this Migrator has not ended well
          was,    \* base when Migrate began
          taken,  \* the dialect's handle has not been the Migrator's all the time
          clash,  \* an object was created that exists
          leaks,  \* transactions of Migrators the program has given up
          faults, \* failures so far
          calls   \* calls of Migrate

dbVars  == <<base, own, tx, broken, aborts, handle, other, leaks>>
runVars == <<mig, phase, todo, stack, asked, lost, out, errored, was>>
vars    == <<dbVars, runVars, taken, clash, faults, calls>>

Fresh == [db |-> "base", failed |-> FALSE, trans |-> FALSE, posts |-> <<>>]
Top   == stack[Len(stack)]
Free  == MaxConns - leaks - (IF tx = "open" THEN 1 ELSE 0) - (IF other THEN 1 ELSE 0)

Init == /\ base \in Bases /\ own = {} /\ tx = "none" /\ broken = FALSE /\ aborts \in BOOLEAN
        /\ handle = "base" /\ other = FALSE /\ leaks = 0
        /\ mig = Fresh /\ phase = "idle" /\ todo = <<>> /\ stack = <<>>
        /\ asked = {} /\ lost = FALSE /\ out = "none" /\ errored = FALSE /\ was = {}
        /\ taken = FALSE /\ clash = FALSE /\ faults = 0 /\ calls = 0

\* Something may fail.
May(bad) == /\ bad => faults < MaxFaults
            /\ faults' = IF bad THEN faults + 1 ELSE faults

\* What the dialect finds: the errors of its queries are not looked at.
Seen == CASE handle = "mine" /\ tx = "open" /\ ~broken -> own
          [] handle \in {"base", "other"} -> base
          [] OTHER -> {}

\* The handle of a transaction that is over stays in the dialect.
Ended == IF handle = "mine" THEN "ended" ELSE handle

\* The program makes a Migrator, on its DB or on a transaction it has begun.
NewMigrator(given) ==
    /\ phase = "idle" /\ calls < MaxCalls
    /\ mig # Fresh \/ given
    /\ given => Free > 0
    /\ leaks' = IF tx = "open" THEN leaks + 1 ELSE leaks
    /\ mig' = [Fresh EXCEPT !.db = IF given THEN "tx" ELSE "base"]
    /\ tx' = IF given THEN "open" ELSE "none"
    /\ own' = IF given THEN base ELSE {}
    /\ handle' = IF given THEN "mine" ELSE Ended
    /\ broken' = FALSE /\ taken' = FALSE /\ clash' = FALSE
    /\ errored' = FALSE /\ out' = "none"
    /\ UNCHANGED <<base, aborts, other, phase, todo, stack, asked, lost, was, faults, calls>>

\* Migrate begins a transaction whatever it has.
MigrateBeginning(fs) ==
    /\ phase = "idle" /\ calls < MaxCalls /\ mig.db # "gone"
    /\ calls' = calls + 1
    /\ mig' = [mig EXCEPT !.trans = TRUE]
    /\ phase' = "begin"
    /\ todo' = fs /\ asked' = {} /\ lost' = FALSE /\ was' = base
    /\ out' = "none"
    /\ UNCHANGED <<dbVars, stack, errored, taken, clash, faults>>

\* Migrate: it begins a transaction unless its DB is one, which it is after a Migrate that
\* has failed.
Migrate(fs) ==
    /\ phase = "idle" /\ calls < MaxCalls /\ mig.db # "gone"
    /\ calls' = calls + 1
    /\ mig' = [mig EXCEPT !.trans = (mig.db = "base")]
    /\ phase' = IF mig.db = "base" THEN "begin" ELSE "run"
    /\ todo' = fs /\ asked' = {} /\ lost' = FALSE /\ was' = base
    /\ out' = "none"
    /\ UNCHANGED <<dbVars, stack, errored, taken, clash, faults>>

\* Begin does not give the dialect its transaction.
BeginApart ==
    /\ phase = "begin" /\ Free > 0
    /\ tx' = "open" /\ own' = base /\ broken' = FALSE
    /\ mig' = [mig EXCEPT !.db = "tx"]
    /\ phase' = "run"
    /\ UNCHANGED <<base, aborts, handle, other, leaks, todo, stack, asked, lost, out, errored, was, taken, clash, faults, calls>>

\* Begin waits for a connection and gives the dialect the transaction's handle, a nil one
\* if it fails; Migrate does not look at the error.
Begin ==
    /\ phase = "begin" /\ Free > 0
    /\ \E bad \in BOOLEAN :
          /\ May(bad)
          /\ tx' = IF bad THEN "nil" ELSE "open"
          /\ handle' = IF bad THEN "nil" ELSE "mine"
    /\ own' = base /\ broken' = FALSE
    /\ mig' = [mig EXCEPT !.db = "tx"]
    /\ phase' = "run"
    /\ UNCHANGED <<base, aborts, other, leaks, todo, stack, asked, lost, out, errored, was, taken, clash, calls>>

\* Migrate or Close returns an error; the transaction stays as it is.
GiveUp(how) == /\ phase' = "idle" /\ stack' = <<>> /\ todo' = <<>>
               /\ out' = how /\ errored' = TRUE

Running == phase = "run" /\ stack = <<>>
Frame(t, err) == [t |-> t, at |-> "before", made |-> FALSE, err |-> err, kids |-> Children[t]]

\* The next function begins; AutoMigrate of its type, or an error of its own.
NextFunction ==
    /\ Running /\ todo # <<>>
    /\ LET f == Head(todo)
       IN  IF f.does = "fail"
           THEN GiveUp("error") /\ UNCHANGED asked
           ELSE /\ stack' = <<Frame(f.t, FALSE)>>
                /\ asked' = asked \cup {f.t}
                /\ UNCHANGED <<phase, todo, out, errored>>
    /\ UNCHANGED <<dbVars, mig, lost, was, taken, clash, faults, calls>>

InFrame(at) == phase = "run" /\ stack # <<>> /\ Top.at = at
Put(f)      == stack' = [stack EXCEPT ![Len(stack)] = f]
Quiet       == UNCHANGED <<base, tx, aborts, handle, other, leaks, phase, todo, asked, out, errored, was, calls>>

\* Where a frame goes after its callbacks and statements, as the error is set or not.
Route(f) ==
    CASE f.at = "before"        -> "hastable"
      [] f.at = "column"        -> IF f.err THEN "end" ELSE "join"
      [] f.at = "join"          -> IF f.made THEN "create_before" ELSE IF f.err THEN "end" ELSE "index"
      [] f.at = "create_before" -> IF f.err THEN "end" ELSE "create"
      [] f.at = "create"        -> IF f.err THEN "end" ELSE "create_after"
      [] f.at = "create_after"  -> IF f.err THEN "end" ELSE "index"
      [] f.at = "index"         -> "fk"
      [] f.at = "fk"            -> IF f.made \/ f.err THEN "children" ELSE "after"
      [] f.at = "after"         -> IF f.made THEN "end" ELSE "children"
      [] f.at = "children"      -> IF f.made /\ ~f.err THEN "after" ELSE "end"
\* Children are migrated only with a table that is created.
RouteCreated(f) == IF f.at = "after" THEN "end" ELSE Route(f)
NextOf(f) == Route(f)
Onward(f) == [f EXCEPT !.at = NextOf(f)]

\* The type's callbacks before and after, one of which may set an error.
Callbacks ==
    /\ phase = "run" /\ stack # <<>> /\ Top.at \in {"before", "create_before", "create_after", "after"}
    /\ \E bad \in BOOLEAN : May(bad) /\ Put(Onward([Top EXCEPT !.err = @ \/ bad]))
    /\ Quiet /\ UNCHANGED <<own, broken, mig, lost, taken, clash>>

Panic == GiveUp("panic") /\ UNCHANGED <<base, own, tx, broken, aborts, handle, other, leaks,
                                        mig, asked, lost, was, taken, clash, faults, calls>>

\* HasTable: with a nil handle it panics.
HasTable ==
    /\ InFrame("hastable")
    /\ IF handle = "nil" THEN Panic
       ELSE LET made == <<"table", Top.t>> \notin Seen
            IN  /\ Put([Top EXCEPT !.made = made, !.at = IF made THEN "join" ELSE "column"])
                /\ Quiet /\ UNCHANGED <<own, broken, mig, lost, taken, clash, faults>>

\* The statement that adds objects, unless the dialect finds them or the scope has an
\* error already: it fails if they exist or the transaction takes none.
Adds(os, f) ==
    IF os \subseteq Seen \/ os = {} \/ f.err
    THEN Put(Onward(f)) /\ UNCHANGED <<own, broken, clash, faults>>
    ELSE LET must == os \cap own # {} \/ broken \/ tx # "open"
         IN  \E bad \in BOOLEAN :
                /\ must => bad
                /\ IF must THEN UNCHANGED faults ELSE May(bad)
                /\ Put(Onward([f EXCEPT !.err = bad]))
                /\ own' = IF bad THEN own ELSE own \cup os
                /\ broken' = (broken \/ (bad /\ aborts))
                /\ clash' = (clash \/ (os \cap own # {} /\ ~broken /\ tx = "open"))

AddColumn ==
    /\ InFrame("column")
    /\ Adds({<<"column", Top.t>>}, Top)
    /\ Quiet /\ UNCHANGED <<mig, lost, taken>>

\* createJoinTable for the fields of the type, then AutoMigrate of its handler, which has
\* no tables left to make but a post handler.
CreateJoinTable ==
    /\ InFrame("join")
    /\ Adds({<<"join", j>> : j \in Joins[Top.t]}, Top)
    /\ Quiet /\ UNCHANGED <<mig, lost, taken>>

CreateTable ==
    /\ InFrame("create")
    /\ Adds({<<"table", Top.t>>, <<"column", Top.t>>}, Top)
    /\ Quiet /\ UNCHANGED <<mig, lost, taken>>

AutoIndex ==
    /\ InFrame("index")
    /\ Adds({<<"index", Top.t>>}, Top)
    /\ Quiet /\ UNCHANGED <<mig, lost, taken>>

\* autoForeignKeys leaves a handler for Close.
AutoForeignKeys ==
    /\ InFrame("fk")
    /\ mig' = [mig EXCEPT !.posts = Append(@, Top.t)]
    /\ Put(Onward(Top))
    /\ Quiet /\ UNCHANGED <<own, broken, lost, taken, clash, faults>>

\* createChildrenTables: each child migrates with a clone of the scope's DB.
NextChild ==
    /\ InFrame("children")
    /\ IF Top.kids = <<>> THEN Put(Onward(Top))
       ELSE stack' = [stack EXCEPT ![Len(stack)].kids = Tail(@)] \o <<Frame(Head(Top.kids), Top.err)>>
    /\ Quiet /\ UNCHANGED <<own, broken, mig, lost, taken, clash, faults>>

\* A child is migrated: nobody looks at its scope's error.
EndChild ==
    /\ InFrame("end") /\ Len(stack) > 1
    /\ lost' = (lost \/ Top.err)
    /\ stack' = SubSeq(stack, 1, Len(stack) - 1)
    /\ Quiet /\ UNCHANGED <<own, broken, mig, taken, clash, faults>>

\* AutoMigrate returns: it notes the failure and the function returns the error or not.
EndAutoMigrate ==
    /\ InFrame("end") /\ Len(stack) = 1
    /\ mig' = [mig EXCEPT !.failed = @ \/ Top.err]
    /\ lost' = (lost \/ Top.err)
    /\ IF Top.err /\ Head(todo).does = "strict"
       THEN GiveUp("error")
       ELSE stack' = <<>> /\ todo' = Tail(todo) /\ UNCHANGED <<phase, out, errored>>
    /\ UNCHANGED <<dbVars, asked, was, taken, clash, faults, calls>>

\* Close commits before the handlers.
CloseCommitting ==
    /\ Running /\ todo = <<>>
    /\ phase' = "posts"
    /\ todo' = IF mig.failed THEN <<>> ELSE mig.posts
    /\ base' = IF mig.trans /\ tx = "open" /\ ~broken THEN own ELSE base
    /\ UNCHANGED <<own, tx, broken, aborts, handle, other, leaks, mig, stack, asked, lost, out, errored, was,
                   taken, clash, faults, calls>>

\* The functions are done: Close begins with the handlers, unless an AutoMigrate has failed.
Close ==
    /\ Running /\ todo = <<>>
    /\ phase' = "posts"
    /\ todo' = IF mig.failed THEN <<>> ELSE mig.posts
    /\ UNCHANGED <<dbVars, mig, stack, asked, lost, out, errored, was, taken, clash, faults, calls>>

\* A post handler adds the foreign keys of its type.
PostHandler ==
    /\ phase = "posts" /\ todo # <<>>
    /\ LET o == <<"fk", Head(todo)>>
       IN  IF o \in Seen
           THEN /\ todo' = Tail(todo)
                /\ UNCHANGED <<own, broken, clash, mig, phase, stack, out, errored, faults>>
           ELSE LET must == o \in own \/ broken \/ tx # "open"
                IN  \E bad \in BOOLEAN :
                       /\ must => bad
                       /\ IF must THEN UNCHANGED faults ELSE May(bad)
                       /\ own' = IF bad THEN own ELSE own \cup {o}
                       /\ broken' = (broken \/ (bad /\ aborts))
                       /\ clash' = (clash \/ (o \in own /\ ~broken /\ tx = "open"))
                       /\ IF bad THEN GiveUp("error") /\ mig' = [mig EXCEPT !.failed = TRUE]
                          ELSE todo' = Tail(todo) /\ UNCHANGED <<mig, phase, stack, out, errored>>
    /\ UNCHANGED <<base, tx, aborts, handle, other, leaks, asked, lost, was, taken, calls>>

\* The rest of Close: the commit, or the rollback if that fails, of a transaction Migrate has begun.
Commit ==
    /\ phase = "posts" /\ todo = <<>>
    /\ IF ~mig.trans
       THEN /\ mig' = [mig EXCEPT !.db = "gone"]
            /\ phase' = "idle" /\ out' = "ok"
            /\ UNCHANGED <<base, tx, handle, stack, todo, errored, faults>>
       ELSE \E bad \in BOOLEAN :
               /\ broken \/ tx # "open" => bad
               /\ IF broken \/ tx # "open" THEN UNCHANGED faults ELSE May(bad)
               /\ handle' = Ended
               /\ tx' = IF bad THEN "rolledback" ELSE "committed"
               /\ base' = IF bad THEN base ELSE own
               /\ IF bad THEN GiveUp("error") /\ mig' = [mig EXCEPT !.failed = TRUE]
                  ELSE /\ mig' = [mig EXCEPT !.db = "gone"]
                       /\ phase' = "idle" /\ out' = "ok"
                       /\ UNCHANGED <<stack, todo, errored>>
    /\ UNCHANGED <<own, broken, aborts, other, leaks, asked, lost, was, taken, clash, calls>>

\* The program ends the transaction by itself, through Db or its own handle.
EndTransaction(commit) ==
    /\ phase = "idle" /\ tx = "open"
    /\ tx' = IF commit /\ ~broken THEN "committed" ELSE "rolledback"
    /\ base' = IF commit /\ ~broken THEN own ELSE base
    /\ handle' = Ended
    /\ UNCHANGED <<own, broken, aborts, other, leaks, runVars, taken, clash, faults, calls>>

\* Another goroutine's transactions, on the same dialect.
OtherBegin ==
    /\ ~other /\ Free > 0 /\ phase # "begin"
    /\ other' = TRUE /\ handle' = "other"
    /\ taken' = TRUE
    /\ UNCHANGED <<base, own, tx, broken, aborts, leaks, runVars, clash, faults, calls>>

OtherEnd ==
    /\ other
    /\ other' = FALSE
    /\ handle' = IF handle = "other" THEN "ended" ELSE handle
    /\ UNCHANGED <<base, own, tx, broken, aborts, leaks, runVars, taken, clash, faults, calls>>

Step == \/ Begin \/ NextFunction \/ Callbacks \/ HasTable \/ AddColumn \/ CreateJoinTable
        \/ CreateTable \/ AutoIndex \/ AutoForeignKeys \/ NextChild \/ EndChild \/ EndAutoMigrate
        \/ Close \/ PostHandler \/ Commit
Next == \/ Step \/ OtherBegin \/ OtherEnd
        \/ \E given \in BOOLEAN : NewMigrator(given)
        \/ \E fs \in Programs : Migrate(fs)
        \/ \E commit \in BOOLEAN : EndTransaction(commit)
Spec == Init /\ [][Next]_vars
-----------------------------------------------------------------------------
(* Correctness *)

\* Types of the variables; nothing but children is nested.
TypeOK == /\ base \subseteq Objects /\ own \subseteq Objects
          /\ tx \in {"none", "open", "nil", "committed", "rolledback"}
          /\ handle \in {"base", "mine", "other", "ended", "nil"}
          /\ broken \in BOOLEAN /\ other \in BOOLEAN /\ lost \in BOOLEAN /\ errored \in BOOLEAN
          /\ mig.db \in {"base", "tx", "gone"}
          /\ phase \in {"idle", "begin", "run", "posts"}
          /\ phase \in {"idle", "begin"} => stack = <<>>
          /\ \A i \in 2 .. Len(stack) : \E k \in 1 .. Len(Children[stack[i - 1].t]) :
                                            Children[stack[i - 1].t][k] = stack[i].t
          /\ leaks \in 0 .. MaxConns /\ Free >= 0

\* t and all types below it.
Closed(S) == \A t \in S : \A i \in 1 .. Len(Children[t]) : Children[t][i] \in S
Tree(t)   == {u \in Type : \A S \in SUBSET Type : t \in S /\ Closed(S) => u \in S}
Of(types) == UNION {({"table", "column", "index", "fk"} \X {t}) \cup ({"join"} \X Joins[t]) :
                       t \in UNION {Tree(t) : t \in types}}

\* Once Migrate reports success of a transaction of its own, everything asked for is in the
\* database, unless the error of a child's migration was dropped or that of AutoMigrate
\* was kept back by the function (createChildrenTables does not look at the child's scope).
SuccessMeansApplied ==
    [][phase = "posts" /\ out' = "ok" /\ mig.trans => lost \/ Of(asked) \subseteq base']_vars

\* A Migrate that reports an error, or panics, has changed nothing in the database, however
\* much it had done.
FailureAppliesNothing ==
    [][phase # "idle" /\ out' \in {"error", "panic"} => base' = was]_vars

\* A Migrator that has failed once never commits any more: it takes the transaction the
\* failed Migrate has left for one of the program's, reports success and leaves it open.
RetryCommitsNothing == [][errored /\ phase # "idle" => base' = base]_vars

\* A transaction a Migrator has begun is still open after Migrate only if Migrate has failed.
LeftOpenOnlyByError == phase = "idle" /\ tx = "open" /\ mig.trans => errored

\* An object that exists is created again only if the dialect was given the handle of another
\* goroutine's transaction.
ClashOnlyIfHandleTaken == clash => taken

\* A transaction stays open, and an object is created twice, only for the named reasons.
Inv == TypeOK /\ LeftOpenOnlyByError /\ ClashOnlyIfHandleTaken
=============================================================================
