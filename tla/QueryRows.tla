----------------------------- MODULE QueryRows -----------------------------
(***************************************************************************)
(* The query and row-query chains, preloads and the rows they read, by     *)
(* several goroutines on a pool of connections.  Open rows keep their      *)
(* connection, and models' methods, which may query in turn, run while     *)
(* they are open.                                                          *)
(*                                                                         *)
(* stack[p] is the stack of p's calls: a frame is a chain being run, with  *)
(* the error of its scope's DB.  A path is what Preload is given, a        *)
(* relation for each of its dots.                                          *)
(***************************************************************************)
EXTENDS Naturals, Sequences, FiniteSets

CONSTANTS Proc,       \* goroutines
          Op,         \* Op[p]: calls of p's program, records of Ops below
          Many,       \* relations that a query of their own preloads
          M2M,        \* many-to-many relations, whose rows are read by hand
          AutoPaths,  \* the paths of autoPreload, fields with a relationship
          MaxConns,   \* SetMaxOpenConns of the pool
          MaxRows,    \* bound: rows of a result
          MaxDepth,   \* bound: nested calls
          MaxFaults,  \* bound: failures a call meets
          MaxCalls    \* bound: calls of a goroutine

Paths == Seq(Seq(STRING) \ {<<>>})
Ops   == [call : {"find", "one", "pluck", "pluckFirst", "count", "exists"}, auto : BOOLEAN,
          paths : Paths, inline : Paths]

ASSUME OpAssumption == /\ IsFiniteSet(Proc) /\ \A p \in Proc : Op[p] \subseteq Ops
                       /\ Many \cap M2M = {} /\ Many \cup M2M \subseteq STRING
                       /\ AutoPaths \in Seq({<<r>> : r \in Many \cup M2M})
                       /\ MaxConns \in Nat \ {0}
ASSUME BoundAssumption == MaxRows \in Nat /\ MaxDepth \in Nat \ {0} /\ MaxFaults \in Nat /\ MaxCalls \in Nat

VARIABLES stack,   \* stack[p]: frames of the calls p is in
          inTx,    \* inTx[p]: p's calls run on a transaction of the program
          free,    \* connections of the pool not in use
          out,     \* out[p]: how its last call of the program has ended
          faults,  \* faults[p]: failures met by that call
          lost,    \* lost[p]: an error was dropped or recorded where nothing reads it
          calls    \* calls[p]: calls so far

vars == <<stack, inTx, free, out, faults, lost, calls>>

Errors == {"no", "notfound", "error"}
Frame  == [call   : {"find", "one", "pluck", "pluckFirst", "count", "exists", "m2m", "elem"},
           at     : {"build", "query", "rows", "scanned", "again", "preload", "after", "return"},
           err    : Errors,
           left   : 0 .. MaxRows,       \* rows not yet read
           got    : 0 .. MaxRows,       \* RowsAffected
           open   : BOOLEAN,            \* its rows are open
           auto   : BOOLEAN,            \* aorm:auto_preload
           inline : Paths,
           paths  : Paths,              \* Search.preload, from the one in work
           level  : Nat,                \* fields of the path dealt with
           done   : SUBSET Seq(STRING), \* preloadedMap
           sub    : Errors]             \* the error of currentScope, below the first level

Busy(p)  == stack[p] # <<>>
Depth(p) == Len(stack[p])
Top(p)   == stack[p][Depth(p)]
At(p, a) == Busy(p) /\ Top(p).at = a

\* A call nested in p's top frame: its DB is cloned with the error so far.
NewFrame(call, err, auto, paths, inline) ==
    [call |-> call, at |-> "build", err |-> err, left |-> 0,
     got |-> IF call = "elem" THEN 1 ELSE 0, open |-> FALSE, auto |-> auto,
     inline |-> inline, paths |-> paths, level |-> 0, done |-> {}, sub |-> "no"]

Put(p, f)     == stack' = [stack EXCEPT ![p][Depth(p)] = f]
Push(p, f, g) == stack' = [stack EXCEPT ![p] = SubSeq(@, 1, Depth(p) - 1) \o <<f, g>>]

Init == /\ stack = [p \in Proc |-> <<>>]
        /\ inTx = [p \in Proc |-> FALSE]
        /\ free = MaxConns
        /\ out = [p \in Proc |-> "none"]
        /\ faults = [p \in Proc |-> 0]
        /\ lost = [p \in Proc |-> FALSE]
        /\ calls = [p \in Proc |-> 0]

\* The program begins or ends a transaction between its calls.
Begin(p) == /\ ~Busy(p) /\ ~inTx[p] /\ free > 0 /\ calls[p] < MaxCalls
            /\ inTx' = [inTx EXCEPT ![p] = TRUE]
            /\ free' = free - 1
            /\ UNCHANGED <<stack, out, faults, lost, calls>>

End(p) == /\ ~Busy(p) /\ inTx[p]
          /\ inTx' = [inTx EXCEPT ![p] = FALSE]
          /\ free' = free + 1
          /\ UNCHANGED <<stack, out, faults, lost, calls>>

\* Find, First, Pluck, Count, Exists...
Query(p, op) ==
    /\ ~Busy(p)
    /\ calls[p] < MaxCalls
    /\ calls' = [calls EXCEPT ![p] = @ + 1]
    /\ stack' = [stack EXCEPT ![p] = <<NewFrame(op.call, "no", op.auto, op.paths, op.inline)>>]
    /\ out' = [out EXCEPT ![p] = "none"]
    /\ faults' = [faults EXCEPT ![p] = 0]
    /\ lost' = [lost EXCEPT ![p] = FALSE]
    /\ UNCHANGED <<inTx, free>>

\* The world or a method of a model may fail.
May(p, failed) == /\ failed => faults[p] < MaxFaults
                  /\ faults' = [faults EXCEPT ![p] = IF failed THEN @ + 1 ELSE @]

Opened(p) == Cardinality({i \in 1 .. Depth(p) : stack[p][i].open})

\* A panic unwinds the stack; the deferred rows.Close run.
Panic(p) == /\ stack' = [stack EXCEPT ![p] = <<>>]
            /\ out' = [out EXCEPT ![p] = "panic"]
            /\ free' = IF inTx[p] THEN free ELSE free + Opened(p)

Prefix(path, k) == SubSeq(path, 1, k)

\* The result of inlinePreload, which forgets where it is after the first field of a path.
Inlined(paths) ==
    IF \E i \in 1 .. Len(paths) : Len(paths[i]) > 1
    THEN LET i == CHOOSE i \in 1 .. Len(paths) :
                     Len(paths[i]) > 1 /\ \A j \in 1 .. i - 1 : Len(paths[j]) <= 1
         IN  IF \E j \in 1 .. i - 1 : paths[j] = Prefix(paths[i], 1) THEN "error" ELSE "panic"
    ELSE "no"

\* The callbacks before the statement: inline preloads and prepareQuerySQL.  An error
\* that is there already or made here ends the chain: Rows and Row then return nil with
\* no error, which pluck, count and the many-to-many preload take for rows.  What goes
\* wrong with an inline preload is an error of a scope nobody reads if the result is a slice.
Build(p) ==
    /\ At(p, "build")
    /\ \E failed \in IF Top(p).err = "no" THEN BOOLEAN ELSE {FALSE} :
          LET f   == Top(p)
              bad == IF f.err = "no" THEN Inlined(f.inline) ELSE "no"
              e   == [f EXCEPT !.err = IF failed \/ (bad = "error" /\ f.call # "find") THEN "error" ELSE @]
          IN  /\ May(p, failed)
              /\ lost' = [lost EXCEPT ![p] = @ \/ (bad = "error" /\ f.call = "find")]
              /\ IF bad = "panic" \/ (e.err # "no" /\ f.call \in {"pluck", "pluckFirst", "count", "m2m"})
                 THEN Panic(p)
                 ELSE /\ Put(p, [e EXCEPT !.at = IF e.err # "no" THEN "return"
                                                 ELSE IF f.call = "elem" THEN "preload" ELSE "query"])
                      /\ UNCHANGED <<free, out>>
    /\ UNCHANGED <<inTx, calls>>

\* The statement: it waits for a connection unless p has a transaction.
Statement(p) ==
    /\ At(p, "query")
    /\ inTx[p] \/ free > 0
    /\ \E failed \in BOOLEAN, n \in 0 .. MaxRows :
          /\ May(p, failed)
          /\ failed => n = 0
          /\ Top(p).call \in {"count", "exists", "pluckFirst"} => n <= 1
          /\ Put(p, IF failed THEN [Top(p) EXCEPT !.err = "error", !.at = "return"]
                    ELSE [Top(p) EXCEPT !.left = n, !.open = TRUE, !.at = "rows"])
          /\ free' = IF failed \/ inTx[p] THEN free ELSE free - 1
    /\ UNCHANGED <<inTx, out, lost, calls>>

\* rows.Next and the scan.  A row that fails to scan counts and is sent to the result
\* like any other, and the loop goes on; only a struct has methods after the scan.  The
\* scope of a many-to-many preload is that of its parent.
Scan(p) ==
    /\ At(p, "rows")
    /\ Top(p).left > 0
    /\ \E failed \in BOOLEAN :
          /\ May(p, failed)
          /\ LET f == [Top(p) EXCEPT !.left = @ - 1, !.got = @ + 1,
                                     !.err = IF failed THEN "error" ELSE @]
             IN  IF f.call = "m2m"
                 THEN Push(p, f, NewFrame("elem", f.err, f.auto,
                                    IF f.auto /\ Depth(p) + 1 < MaxDepth THEN AutoPaths ELSE <<>>, <<>>))
                 ELSE Put(p, [f EXCEPT !.at = IF f.call \in {"find", "one"} /\ ~failed THEN "scanned"
                                              ELSE "rows"])
    /\ UNCHANGED <<inTx, free, out, lost, calls>>

\* The chain goes on unless there is an error.
After(f, at) == IF f.err = "no" THEN at ELSE "return"

\* The error of a call whose rows are over: no row is one for a struct, for PluckFirst and, Row.Scan
\* having nothing to scan, for Count.
Found(f) == IF f.got > 0 THEN f.err
            ELSE CASE f.call \in {"one", "pluckFirst"} -> "notfound"
                   [] f.call = "count"                 -> "error"
                   [] OTHER                            -> f.err

\* The rows stay open until the call that made them returns.
EndRowsLater(p) ==
    /\ At(p, "rows")
    /\ Top(p).left = 0
    /\ \E failed \in BOOLEAN :
          /\ May(p, failed)
          /\ LET f == Top(p)
                 e == [f EXCEPT !.err = IF failed THEN "error" ELSE @]
             IN  Put(p, [e EXCEPT !.at = IF f.call \in {"find", "one"} THEN After(e, "preload") ELSE "return"])
    /\ UNCHANGED <<inTx, free, out, lost, calls>>

\* The rows are over: rows.Err, which pluckFirst reads only after a row, the deferred Close, and
\* whether anything was found.
EndRows(p) ==
    /\ At(p, "rows")
    /\ Top(p).left = 0
    /\ \E failed \in BOOLEAN :
          LET f      == Top(p)
              unread == failed /\ f.call = "pluckFirst"
              e      == [f EXCEPT !.open = FALSE,
                                  !.err = IF failed /\ ~unread THEN "error" ELSE Found(f)]
          IN  /\ May(p, failed)
              /\ lost' = [lost EXCEPT ![p] = @ \/ (unread /\ f.got > 0)]
              /\ Put(p, [e EXCEPT !.at = IF f.call \in {"find", "one"} THEN After(e, "preload") ELSE "return"])
    /\ free' = IF inTx[p] THEN free ELSE free + 1
    /\ UNCHANGED <<inTx, out, calls>>

\* The method that runs at this point and where the frame goes on: AfterScan at the end
\* of scan, once more in the loop of queryCallback, AfterFind at the end of the chain.
Onward(f) == CASE f.at = "scanned" -> IF f.err = "no" THEN "again" ELSE "rows"
              [] f.at = "again"   -> "rows"
              [] f.at = "after"   -> "return"

\* A method of the model ends, well or with an error, or queries before it does.
Method(p) ==
    /\ Busy(p) /\ Top(p).at \in {"scanned", "again", "after"}
    /\ \/ \E failed \in BOOLEAN :
             LET f == [Top(p) EXCEPT !.err = IF failed THEN "error" ELSE @]
             IN  May(p, failed) /\ Put(p, [f EXCEPT !.at = Onward(f)])
       \/ /\ Depth(p) < MaxDepth
          /\ Push(p, [Top(p) EXCEPT !.at = Onward(Top(p))],
                  NewFrame("find", Top(p).err, Top(p).auto, <<>>, <<>>))
          /\ UNCHANGED faults
    /\ UNCHANGED <<inTx, free, out, lost, calls>>

\* The frame goes on with the next field of the path, or the next path.
Advance(f) ==
    LET path == Head(f.paths)
    IN  IF f.level + 1 < Len(path)
        THEN [f EXCEPT !.level = @ + 1, !.done = @ \cup {Prefix(path, f.level + 1)},
                       !.sub = IF f.level = 0 THEN f.err ELSE @]
        ELSE [f EXCEPT !.level = 0, !.done = @ \cup {path}, !.paths = Tail(@), !.sub = "no"]

\* preloadCallback, one field of one path, preloaded before or not.  The options are
\* those of the path's last field, nil for the others.
InPreload(p, done) ==
    /\ At(p, "preload")
    /\ Top(p).paths # <<>>
    /\ (Prefix(Head(Top(p).paths), Top(p).level + 1) \in Top(p).done) = done

Relation(f) == Head(f.paths)[f.level + 1]
\* The last field told by its index plus one.
LastCounted(f) == f.level = Len(Head(f.paths))
Last(f) == f.level + 1 = Len(Head(f.paths))

\* The field is preloaded already, or there are no keys to look its records up by.
PreloadNothing(p) ==
    /\ \/ InPreload(p, TRUE)
       \/ InPreload(p, FALSE) /\ Last(Top(p)) /\ Relation(Top(p)) \in Many
          /\ (Top(p).level > 0 \/ Top(p).got = 0)
    /\ Put(p, Advance(Top(p)))
    /\ UNCHANGED <<inTx, free, out, faults, lost, calls>>

PreloadUnknown(p) ==
    /\ InPreload(p, FALSE)
    /\ Relation(Top(p)) \notin Many \cup M2M
    /\ Put(p, [Top(p) EXCEPT !.err = "error", !.at = "return"])
    /\ UNCHANGED <<inTx, free, out, faults, lost, calls>>

PreloadWithoutOptions(p) ==
    /\ InPreload(p, FALSE)
    /\ Relation(Top(p)) \in Many \cup M2M
    /\ ~Last(Top(p))
    /\ Panic(p)
    /\ UNCHANGED <<inTx, faults, lost, calls>>

\* A Find of the related records, or the rows of JoinWith, on a clone of the scope's DB
\* or, below the first field, of currentScope's.
PreloadField(p) ==
    /\ InPreload(p, FALSE)
    /\ Last(Top(p))
    /\ Relation(Top(p)) \in M2M \/ (Relation(Top(p)) \in Many /\ Top(p).got > 0)
    /\ Depth(p) + (IF Relation(Top(p)) \in M2M THEN 1 ELSE 0) < MaxDepth
    /\ LET f == Top(p)
       IN  Push(p, f, NewFrame(IF Relation(f) \in M2M THEN "m2m" ELSE "find",
                               IF f.level = 0 THEN f.err ELSE f.sub, f.auto,
                               IF f.auto /\ Depth(p) + 1 < MaxDepth THEN AutoPaths ELSE <<>>, <<>>))
    /\ UNCHANGED <<inTx, free, out, faults, lost, calls>>

PreloadEnd(p) ==
    /\ At(p, "preload")
    /\ Top(p).paths = <<>>
    /\ Put(p, [Top(p) EXCEPT !.at = After(Top(p), "after")])
    /\ UNCHANGED <<inTx, free, out, faults, lost, calls>>

\* The error of a nested Find left in its own DB.
MergedMethodsOnly(f, c, err) ==
    IF c = "elem" THEN f
    ELSE IF f.at # "preload" THEN [f EXCEPT !.err = IF err # "no" THEN err ELSE @]
    ELSE Advance(f)

\* What the frame f makes of the error of the call c it has made: a preload records it
\* in the scope of its level, the loop over many-to-many rows never looks at its
\* element's, a method may return it.
Merged(f, c, err) ==
    IF c = "elem" THEN f
    ELSE IF f.at # "preload" THEN [f EXCEPT !.err = IF err # "no" THEN err ELSE @]
    ELSE IF f.level = 0 THEN Advance([f EXCEPT !.err = IF err # "no" THEN err ELSE @])
    ELSE Advance([f EXCEPT !.sub = IF err # "no" THEN err ELSE @])

\* A call ends, in the program or in the frame below.
Return(p) ==
    /\ At(p, "return")
    /\ LET f == Top(p)
           n == Depth(p)
       IN  IF n = 1
           THEN /\ stack' = [stack EXCEPT ![p] = <<>>]
                /\ out' = [out EXCEPT ![p] = IF f.err = "no" THEN "ok" ELSE f.err]
                /\ UNCHANGED lost
           ELSE LET g == stack[p][n - 1]
                    h == Merged(g, f.call, f.err)
                IN  /\ stack' = [stack EXCEPT ![p] = Append(SubSeq(@, 1, n - 2), h)]
                    /\ lost' = [lost EXCEPT ![p] =
                                    @ \/ (f.err # "no" /\ (f.call = "elem" \/ (g.at = "preload" /\ g.level > 0)))]
                    /\ UNCHANGED out
    /\ UNCHANGED <<inTx, free, faults, calls>>

Step(p) == \/ Build(p) \/ Statement(p) \/ Scan(p) \/ EndRows(p) \/ Method(p)
           \/ PreloadNothing(p) \/ PreloadUnknown(p) \/ PreloadWithoutOptions(p)
           \/ PreloadField(p) \/ PreloadEnd(p) \/ Return(p)

Next == \E p \in Proc : Begin(p) \/ End(p) \/ (\E op \in Op[p] : Query(p, op)) \/ Step(p)
Spec == Init /\ [][Next]_vars
\* A goroutine in a call goes on as soon as it can, the program ends its transactions, and
\* the pool hands a connection that comes back to one that waits for it.
FairSpec == Spec /\ \A p \in Proc : /\ WF_vars(Step(p)) /\ WF_vars(End(p))
                                    /\ SF_vars(Statement(p))
-----------------------------------------------------------------------------
(* Correctness *)

Holds(p)   == inTx[p] \/ Opened(p) > 0
Waiting(p) == At(p, "query") /\ ~inTx[p] /\ free = 0
\* Who holds a connection: a transaction (0), or the frame i.
HeldAt(p, i) == IF inTx[p] THEN i = 0 ELSE i \in 1 .. Depth(p) /\ stack[p][i].open
Held         == Cardinality({h \in Proc \X (0 .. MaxDepth) : HeldAt(h[1], h[2])})

\* Types of the variables; no call is nested deeper than the bound.
TypeOK == /\ DOMAIN stack = Proc
          /\ \A p \in Proc : /\ Depth(p) <= MaxDepth
                             /\ \A i \in 1 .. Depth(p) :
                                   /\ [stack[p][i] EXCEPT !.done = {}] \in Frame
                                   /\ stack[p][i].level < Len(Head(stack[p][i].paths \o <<<<"">>>>))
          /\ inTx \in [Proc -> BOOLEAN] /\ lost \in [Proc -> BOOLEAN]
          /\ free \in 0 .. MaxConns
          /\ out \in [Proc -> {"none", "ok", "notfound", "error", "panic"}]
          /\ faults \in [Proc -> 0 .. MaxFaults] /\ calls \in [Proc -> 0 .. MaxCalls]

\* A connection that is not in the pool is a transaction's or that of rows some call in
\* progress has open: whatever fails or panics, a call that is over has closed its rows
\* (the deferred Close of queryCallback, pluck and the many-to-many preload).
ConnectionsReturned == free + Held = MaxConns

\* A goroutine holds a connection while it waits for one only inside a method run after a
\* scan, or in the elements of a many-to-many preload: rows are closed before preloads
\* and AfterFind (queryCallback is over by then).
WaitsHoldingInLoopsOnly ==
    \A p \in Proc : Waiting(p) =>
        \A i \in 1 .. Depth(p) : stack[p][i].open =>
            /\ i < Depth(p)
            /\ stack[p][i].at \in {"again", "rows"}

\* Every connection is accounted for at all times, and who waits for one holds another only
\* inside a loop over rows.
Inv == TypeOK /\ ConnectionsReturned /\ WaitsHoldingInLoopsOnly

\* A call reports success only if nothing has failed in it, but for the errors of elements
\* of a many-to-many preload, of fields below the first of a preload's path, and of inline
\* preloads of a slice, which are recorded in scopes nobody reads, and for the one that ends the
\* rows of PluckFirst after its row: rows.Err is read in the loop over them only.
NoErrorLost == \A p \in Proc : out[p] = "ok" /\ faults[p] > 0 => lost[p]

\* A call panics only if something has failed in it (the nil rows) or a path with several
\* fields was asked for (the nil options).
PanicsOnlyOnFailureOrPath ==
    [][\A p \in Proc : out'[p] = "panic" /\ Busy(p) =>
          \/ faults'[p] > 0
          \/ \E i \in 1 .. Len(stack[p][1].paths \o stack[p][1].inline) :
                Len((stack[p][1].paths \o stack[p][1].inline)[i]) > 1
          \/ stack[p][1].err # "no"]_vars

\* All connections are held by goroutines that wait for another one.
Starved == /\ free = 0
           /\ \E p \in Proc : Holds(p)
           /\ \A p \in Proc : Holds(p) => Waiting(p)

\* Every call returns, unless the goroutines holding the connections all wait for more.
EveryCallReturns == \A p \in Proc : Busy(p) ~> ~Busy(p) \/ Starved
=============================================================================
