-------------------------- MODULE UserTransaction --------------------------
(***************************************************************************)
(* Transactions of the program itself: DB.Transaction, that is Begin, the  *)
(* program's function and Commit or Rollback, by several goroutines on     *)
(* clones of one root DB, nested in each other, with errors, panics and    *)
(* runtime.Goexit.  The dialect, which asks the server's catalogue, is one *)
(* object shared by all the clones, and Begin stores its handle there.     *)
(***************************************************************************)
EXTENDS Naturals, FiniteSets

CONSTANTS Session,    \* goroutines, each with a clone of the root
          Tx,         \* the transactions the server can hand out
          Pool,       \* the *sql.DB of the root
          NilTx,      \* the nil *sql.Tx that a failed Begin returns
          None,       \* no unit
          MaxOpen,    \* sql.DB.SetMaxOpenConns
          MaxCalls,   \* bound: outermost calls of Transaction per session
          MaxLevel,   \* bound: calls of Transaction nested in each other
          Faults      \* what may go wrong

AllFaults == {"begin", "commit", "error", "adderror", "panic", "value", "goexit"}

Unit == Session \X (1 .. MaxCalls)

ASSUME HandleAssumption == Pool \notin Tx /\ NilTx \notin Tx /\ Pool # NilTx
ASSUME NoUnitAssumption == None \notin Unit
ASSUME FaultAssumption  == Faults \subseteq AllFaults
ASSUME LimitAssumption  == MaxOpen \in Nat \ {0} /\ MaxCalls \in Nat /\ MaxLevel \in Nat \ {0}

VARIABLES calls,     \* calls[s]: outermost calls of Transaction so far
          level,     \* level[s]: calls of Transaction that have not returned
          db,        \* db[s][l]: the DB given to the function of the l-th of them
          rehearse,  \* rehearse[s]: the settings hold OptKeyCommitDisabled
          unwind,    \* unwind[s]: what runs deferred functions, "no" if nothing
          mixed,     \* mixed[u]: u has nested a Transaction or set an error on its DB
          dialect,   \* the handle of the shared dialect
          st,        \* st[u]: "idle", "running" or what the u-th call returned
          visible,   \* visible[u]: other connections see what u wrote
          txst,      \* txst[t]: "unused", "open", "committed", "rolledback"
          txUnit,    \* txUnit[t]: the unit that began t
          pend       \* pend[t]: t holds statements that nobody else sees

session == <<calls, level, db, rehearse, unwind, mixed>>
server  == <<visible, txst, txUnit, pend>>
vars    == <<session, dialect, st, server>>

Handles == Tx \cup {Pool, NilTx}
\* A DB: its handle, and whether its Error is set (clones of it inherit both).
DB      == [handle : Handles, err : BOOLEAN]
Root    == [handle |-> Pool, err |-> FALSE]

\* How the program's function ends: returns nil or an error, panics with an error
\* or another value, or the goroutine is ended inside of it.
Ends     == {"nil", "error", "panic", "value", "goexit"}
Outcomes == {"idle", "running", "ok", "rehearsed", "failed", "exited"}

Current(s) == <<s, calls[s]>>
\* The DB the program works on where s is.
DBOf(s)    == IF level[s] = 0 THEN Root ELSE db[s][level[s]]
OpenTx     == {t \in Tx : txst[t] = "open"}
May(fault) == IF fault \in Faults THEN BOOLEAN ELSE {FALSE}
-----------------------------------------------------------------------------
Init == /\ calls = [s \in Session |-> 0]
        /\ level = [s \in Session |-> 0]
        /\ db = [s \in Session |-> [l \in 1 .. MaxLevel |-> Root]]
        /\ rehearse = [s \in Session |-> FALSE]
        /\ unwind = [s \in Session |-> "no"]
        /\ mixed = [u \in Unit |-> FALSE]
        /\ dialect = Pool
        /\ st = [u \in Unit |-> "idle"]
        /\ visible = [u \in Unit |-> FALSE]
        /\ txst = [t \in Tx |-> "unused"]
        /\ txUnit = [t \in Tx |-> None]
        /\ pend = [t \in Tx |-> FALSE]

\* The function of the next level runs on a clone with this handle and Error.
Enter(s, handle, err) ==
    /\ level' = [level EXCEPT ![s] = @ + 1]
    /\ db' = [db EXCEPT ![s][level[s] + 1] = [handle |-> handle, err |-> err]]

\* An outermost call of Transaction; OptCommitDisabled may have been applied.
Call(s) ==
    /\ level[s] = 0
    /\ unwind[s] = "no"
    /\ calls[s] < MaxCalls
    /\ calls' = [calls EXCEPT ![s] = @ + 1]
    /\ st' = [st EXCEPT ![<<s, calls[s] + 1>>] = "running"]
    /\ \E off \in BOOLEAN : rehearse' = [rehearse EXCEPT ![s] = off]

\* Begin on the pool takes a connection and redirects the dialect.
Begin(s) ==
    /\ Call(s)
    /\ Cardinality(OpenTx) < MaxOpen
    /\ \E t \in Tx :
        /\ txst[t] = "unused"
        /\ txst' = [txst EXCEPT ![t] = "open"]
        /\ txUnit' = [txUnit EXCEPT ![t] = <<s, calls[s] + 1>>]
        /\ Enter(s, t, FALSE)
        /\ dialect' = t
    /\ UNCHANGED <<unwind, mixed, visible, pend>>

\* A failed Begin stores its nil transaction, in the clone and in the dialect,
\* and the function is called all the same.
BeginFails(s) ==
    /\ "begin" \in Faults
    /\ Call(s)
    /\ Enter(s, NilTx, TRUE)
    /\ dialect' = NilTx
    /\ UNCHANGED <<unwind, mixed, server>>

\* Begin on a transaction sets ErrCantStartTransaction, and keeps the handle.
BeginNested(s) ==
    /\ level[s] \in 1 .. MaxLevel - 1
    /\ unwind[s] = "no"
    /\ Enter(s, DBOf(s).handle, TRUE)
    /\ mixed' = [mixed EXCEPT ![Current(s)] = TRUE]
    /\ UNCHANGED <<calls, rehearse, unwind, dialect, st, server>>

\* A statement of the function on its DB: nothing runs on one that has an Error,
\* and sql.ErrTxDone is all that comes of one whose transaction has been ended.
Exec(s) ==
    /\ level[s] > 0
    /\ unwind[s] = "no"
    /\ ~DBOf(s).err
    /\ DBOf(s).handle \in OpenTx
    /\ pend' = [pend EXCEPT ![DBOf(s).handle] = TRUE]
    /\ UNCHANGED <<session, dialect, st, visible, txst, txUnit>>

\* The function sets an error on its DB itself, with AddError, and need not return it.
AddError(s) ==
    /\ "adderror" \in Faults
    /\ level[s] > 0
    /\ unwind[s] = "no"
    /\ ~DBOf(s).err
    /\ db' = [db EXCEPT ![s][level[s]] = [handle |-> @.handle, err |-> TRUE]]
    /\ mixed' = [mixed EXCEPT ![Current(s)] = TRUE]
    /\ UNCHANGED <<calls, level, rehearse, unwind, dialect, st, server>>

\* Commits whatever the settings say.
CommitsAlways(s, ending) == ending \in {"nil", "goexit"}

\* Neither an error nor a panic: Commit, which rolls back when it is disabled.
\* Goexit runs the deferred function with nothing to recover and a nil error.
Commits(s, ending) == ending \in {"nil", "goexit"} /\ ~rehearse[s]

\* The deferred function rolls back on an error only, as if no panic could come.
EndNotOnPanic(s, ending, fails) ==
    LET t == DBOf(s).handle
    IN  IF t \in OpenTx /\ ending \notin {"panic", "value"}
        THEN LET done == Commits(s, ending) /\ ~fails
             IN  /\ txst' = [txst EXCEPT ![t] = IF done THEN "committed" ELSE "rolledback"]
                 /\ visible' = [visible EXCEPT ![txUnit[t]] = @ \/ (done /\ pend[t])]
                 /\ pend' = [pend EXCEPT ![t] = @ /\ ~done]
                 /\ UNCHANGED txUnit
        ELSE UNCHANGED server

\* Commit or Rollback of the handle: an outer call's transaction too, and only an
\* error when there is none or it has been ended.
End(s, ending, fails) ==
    LET t == DBOf(s).handle
    IN  IF t \in OpenTx
        THEN LET done == Commits(s, ending) /\ ~fails
             IN  /\ txst' = [txst EXCEPT ![t] = IF done THEN "committed" ELSE "rolledback"]
                 /\ visible' = [visible EXCEPT ![txUnit[t]] = @ \/ (done /\ pend[t])]
                 /\ pend' = [pend EXCEPT ![t] = @ /\ ~done]
                 /\ UNCHANGED txUnit
        ELSE UNCHANGED server

\* The error of Commit is not returned.
ResultWithoutCommit(s, ending, fails) ==
    CASE ending = "goexit" -> "exited"
      [] ending \in {"error", "panic", "value"} -> "failed"
      [] ending = "nil" -> IF DBOf(s).err THEN "failed"
                           ELSE IF rehearse[s] THEN "rehearsed" ELSE "ok"

\* What the caller of Transaction gets.
Result(s, ending, fails) ==
    CASE ending = "goexit" -> "exited"
      [] ending \in {"error", "panic", "value"} -> "failed"
      [] ending = "nil" -> IF DBOf(s).err \/ fails \/ DBOf(s).handle \notin OpenTx THEN "failed"
                           ELSE IF rehearse[s] THEN "rehearsed" ELSE "ok"

\* r.(error) panics on a value that is no error: with a runtime error, which the
\* next level up recovers; Goexit runs the deferred functions of all the levels.
Goes(s, ending) == CASE ending = "value"  -> IF level[s] > 1 THEN "panic" ELSE "no"
                     [] ending = "goexit" -> "goexit"
                     [] OTHER             -> "no"

\* The function ends, and the deferred function of Transaction runs.
Return(s) ==
    /\ level[s] > 0
    /\ \E ending \in Ends, fails \in May("commit") :
        /\ IF unwind[s] = "no" THEN ending \in Faults \cup {"nil"} ELSE ending = unwind[s]
        /\ fails => Commits(s, ending) /\ DBOf(s).handle \in OpenTx
        /\ End(s, ending, fails)
        /\ unwind' = [unwind EXCEPT ![s] = Goes(s, ending)]
        /\ st' = IF level[s] = 1 THEN [st EXCEPT ![Current(s)] = Result(s, ending, fails)] ELSE st
    /\ level' = [level EXCEPT ![s] = @ - 1]
    /\ db' = [db EXCEPT ![s][level[s]] = Root]
    /\ UNCHANGED <<calls, rehearse, mixed, dialect>>

Step(s) == Begin(s) \/ BeginFails(s) \/ BeginNested(s) \/ Exec(s) \/ AddError(s) \/ Return(s)
Next    == \E s \in Session : Step(s)
Spec    == Init /\ [][Next]_vars
-----------------------------------------------------------------------------
(* Correctness *)

\* Types of the variables; a level that has returned has left no DB behind.
TypeOK == /\ calls \in [Session -> 0 .. MaxCalls]
          /\ level \in [Session -> 0 .. MaxLevel]
          /\ db \in [Session -> [1 .. MaxLevel -> DB]]
          /\ rehearse \in [Session -> BOOLEAN]
          /\ unwind \in [Session -> {"no", "panic", "goexit"}]
          /\ mixed \in [Unit -> BOOLEAN]
          /\ dialect \in Handles
          /\ st \in [Unit -> Outcomes]
          /\ visible \in [Unit -> BOOLEAN]
          /\ txst \in [Tx -> {"unused", "open", "committed", "rolledback"}]
          /\ txUnit \in [Tx -> Unit \cup {None}]
          /\ pend \in [Tx -> BOOLEAN]

\* Statements of u that nobody else sees.
Hidden(u) == \E t \in Tx : txUnit[t] = u /\ pend[t]

\* What a Transaction has done is seen all together or not at all: all of it when nil
\* is returned, nothing when commit is disabled, and nothing when an error or a panic
\* comes back, unless its function called Transaction again on its DB (which commits)
\* or set an error there without returning it (Begin, Transaction, Commit, Rollback).
AllOrNothing == \A u \in Unit : /\ ~(visible[u] /\ Hidden(u))
                                /\ st[u] = "ok" => ~Hidden(u)
                                /\ st[u] = "rehearsed" => ~visible[u]
                                /\ st[u] = "failed" /\ ~mixed[u] => ~visible[u]

\* However the functions end, nested ones, panics with a value that is no error and
\* Goexit included, no connection is kept when the outermost Transaction is left.
NothingLeftOpen == \A t \in OpenTx : level[txUnit[t][1]] > 0

\* With OptCommitDisabled nothing a call does is ever seen, nested calls of
\* Transaction, which commit its transaction, included (Commit, Begin cloning the
\* settings).
RehearsalStaysHidden ==
    \A s \in Session : calls[s] > 0 /\ rehearse[s] => ~visible[Current(s)]

(* The inductive invariant behind them *)

\* A unit has at most one transaction, which hides what it holds until committed.
TxInv ==
    /\ \A t \in Tx : (txst[t] = "unused") <=> (txUnit[t] = None)
    /\ \A t1, t2 \in Tx : txUnit[t1] = txUnit[t2] /\ txUnit[t1] # None => t1 = t2
    /\ \A t \in Tx : pend[t] => txst[t] \in {"open", "rolledback"}
    /\ \A t \in Tx : txst[t] \in {"open", "rolledback"} => ~visible[txUnit[t]]

Fresh(u) == ~visible[u] /\ \A t \in Tx : txUnit[t] # u

\* All the levels of a session work on the one transaction of its unit, if its
\* Begin did not fail.
LevelInv ==
    \A s \in Session : level[s] > 0 =>
        /\ calls[s] > 0
        /\ \A l \in 1 .. level[s] : db[s][l].handle = db[s][1].handle
        /\ \/ db[s][1].handle \in Tx /\ txUnit[db[s][1].handle] = Current(s)
           \/ db[s][1].handle = NilTx /\ Fresh(Current(s)) /\ db[s][1].err

\* An open transaction is that of a session inside a Transaction.
OpenInv == \A t \in OpenTx : \E s \in Session : /\ level[s] > 0
                                                /\ txUnit[t] = Current(s)
                                                /\ db[s][1].handle = t

UnitInv == \A s \in Session, k \in 1 .. MaxCalls :
              /\ k > calls[s] => Fresh(<<s, k>>) /\ st[<<s, k>>] = "idle"
              /\ st[<<s, k>>] = "running" => level[s] > 0 /\ k = calls[s]
              /\ level[s] > 0 /\ k = calls[s] => st[<<s, k>>] = "running"
              /\ st[<<s, k>>] = "ok" =>
                    \A t \in Tx : txUnit[t] = <<s, k>> => txst[t] = "committed"
              /\ st[<<s, k>>] = "rehearsed" => ~visible[<<s, k>>]

\* Everything that holds however deep calls of Transaction are nested.
IInv == TypeOK /\ TxInv /\ LevelInv /\ OpenInv /\ UnitInv /\ RehearsalStaysHidden

\* While a function neither nests nor sets an error on its DB, it is on the first
\* level, its transaction is open and its DB has no error.
FlatInv == /\ \A s \in Session : level[s] > 0 /\ ~mixed[Current(s)] =>
                 /\ level[s] = 1
                 /\ db[s][1].handle \in Tx => txst[db[s][1].handle] = "open" /\ ~db[s][1].err
           /\ \A u \in Unit : st[u] = "failed" /\ ~mixed[u] => ~visible[u]
=============================================================================
