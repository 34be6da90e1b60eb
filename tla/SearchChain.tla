---------------------------- MODULE SearchChain ----------------------------
(***************************************************************************)
(* Chains of query builder calls, DB.Where and the others, and the         *)
(* statement a scope builds of them.  Each call clones the DB, with the    *)
(* headers of its slices: two chains may append to one array.  Arrays grow *)
(* as Go's append lets a slice of pointers grow by one element.            *)
(*                                                                         *)
(* A condition has atoms, each with one argument: "plain" is a string with *)
(* one mark, "either" a Conditions or Query of two atoms with OR between   *)
(* them, "mixed" a Conditions with a Not and then an Or, "listed" a list   *)
(* of two WhereClausers, "gap" a string with two marks of which the first  *)
(* is given an empty list of tuples.                                       *)
(***************************************************************************)
EXTENDS Naturals, Sequences, SequencesExt

CONSTANTS Common, \* numbers of Where calls the common DB may have had
          Used,     \* lists of conditions the chains use
          MaxCalls  \* bound: further calls, while append doubles

Lists == {"joins", "where", "or", "not", "having", "orders"}
Powers == {1, 2, 4, 8, 16, 32, 64, 128, 256}
ASSUME ChainAssumption == /\ Common \subseteq Nat /\ Used \subseteq Lists /\ MaxCalls \in Nat
                          /\ \A n \in Common : n + MaxCalls <= 256

VARIABLES heap,   \* arrays, each a sequence of slots as long as its capacity
          extras, \* what pointers to extraSelects point at
          dbs,    \* DBs and scopes: [lists, extra]
          given   \* the calls that led to each: [lists, extra, calls]

vars == <<heap, extras, dbs, given>>

Nil      == [n |-> 0, kind |-> "nil"]
Slice    == [arr |-> 0, len |-> 0]
Number   == Len(dbs)
\* Under Or and Not "mixed" stands for "either" as well.
Kinds(l) == CASE l = "where"           -> {"plain", "either", "mixed", "listed", "gap"}
              [] l \in {"or", "not"} -> {"plain", "mixed"}
              [] OTHER                 -> {"plain"}

\* The capacity append gives to an array for one element more than n.
NewCapRoomy(n) == 2 * n + 2
NewCap(n) == IF n = 0 THEN 1 ELSE 2 * n
Capacity(n) == CHOOSE c \in Powers : n <= c /\ c < 2 * n

\* The common DB: NewDB and n calls of Where.
Root(n) ==
    [lists |-> [l \in Lists |-> IF l = "where" /\ n > 0 THEN [arr |-> 1, len |-> n] ELSE Slice], extra |-> 0]

Init ==
    \E n \in Common :
       LET cs == [i \in 1 .. n |-> [n |-> i, kind |-> "plain"]]
       IN  /\ heap = IF n = 0 THEN <<>> ELSE <<[i \in 1 .. Capacity(n) |-> IF i <= n THEN cs[i] ELSE Nil]>>
           /\ dbs = <<Root(n)>>
           /\ extras = <<>>
           /\ given = <<[lists |-> [l \in Lists |-> IF l = "where" THEN cs ELSE <<>>], extra |-> <<>>,
                         calls |-> [i \in 1 .. n |-> [list |-> "where", cond |-> cs[i]]]]>>

\* append(s, c), in place if the array has room.
Appended(s, c) ==
    IF s.arr # 0 /\ s.len < Len(heap[s.arr])
    THEN [heap |-> [heap EXCEPT ![s.arr][s.len + 1] = c], slice |-> [s EXCEPT !.len = @ + 1]]
    ELSE [heap  |-> Append(heap, [i \in 1 .. NewCap(s.len) |->
                                     IF i <= s.len THEN heap[s.arr][i] ELSE IF i = s.len + 1 THEN c ELSE Nil]),
          slice |-> [arr |-> Len(heap) + 1, len |-> s.len + 1]]

\* The new DB or scope: a clone of db with one list replaced.
Clone(db, l, s) == dbs' = Append(dbs, [db EXCEPT !.lists[l] = s])
Gives(h, l, cs, calls) ==
    given' = Append(given, [given[h] EXCEPT !.lists[l] = cs, !.calls = @ \o calls])

More == Number <= MaxCalls
Cond(kind) == [n |-> 256 + Number, kind |-> kind]

\* Where, Or, Not, Joins, Having, Order; the condition given to First, Find or Delete goes
\* into the search of their scope in the same way.
Call(h, l, kind) ==
    /\ More
    /\ LET c == Cond(kind)
           a == Appended(dbs[h].lists[l], c)
       IN  /\ heap' = a.heap
           /\ Clone(dbs[h], l, a.slice)
           /\ Gives(h, l, Append(given[h].lists[l], c), <<[list |-> l, cond |-> c]>>)
    /\ UNCHANGED extras

\* Order with reorder starts a slice of its own.
Reorder(h) ==
    /\ More /\ "orders" \in Used
    /\ LET c == Cond("plain")
       IN  /\ heap' = Append(heap, <<c>>)
           /\ Clone(dbs[h], "orders", [arr |-> Len(heap) + 1, len |-> 1])
           /\ Gives(h, "orders", <<c>>, <<>>)
    /\ UNCHANGED extras

\* ExtraSelect: all DBs cloned after the first one share it.
ExtraSelect(h) ==
    /\ More
    /\ LET c == Cond("plain") p == dbs[h].extra
       IN  /\ extras' = IF p = 0 THEN Append(extras, <<c>>) ELSE [extras EXCEPT ![p] = Append(@, c)]
           /\ dbs' = Append(dbs, [dbs[h] EXCEPT !.extra = IF p = 0 THEN Len(extras) + 1 ELSE p])
           /\ given' = Append(given, [given[h] EXCEPT !.extra = Append(@, c)])
    /\ UNCHANGED heap

\* The array with c in front of the n conditions of a slice that has just grown to n + 1.
Moved(array, n, c) == [i \in DOMAIN array |-> IF i = 1 THEN c ELSE IF i <= n + 1 THEN array[i - 1] ELSE array[i]]

\* whereSQL in the scope of a child's row puts the row's key in front: it appends nil and
\* moves the conditions up by one, in the array it has then.
KeyInFront(h) ==
    /\ More
    /\ LET c == Cond("plain")
           s == dbs[h].lists["where"]
           a == Appended(s, Nil)
       IN  /\ heap' = [a.heap EXCEPT ![a.slice.arr] = Moved(@, s.len, c)]
           /\ Clone(dbs[h], "where", a.slice)
           /\ Gives(h, "where", <<c>> \o given[h].lists["where"], <<[list |-> "where", cond |-> c]>>)
    /\ UNCHANGED extras

Next == \E h \in 1 .. Number : \/ \E l \in Used : \E kind \in Kinds(l) : Call(h, l, kind)
                               \/ Reorder(h) \/ ExtraSelect(h) \/ KeyInFront(h)
Spec == Init /\ [][Next]_vars
-----------------------------------------------------------------------------
(* The statement *)

Read(h, l) == LET s == dbs[h].lists[l] IN [i \in 1 .. s.len |-> heap[s.arr][i]]
ReadExtra(h) == IF dbs[h].extra = 0 THEN <<>> ELSE extras[dbs[h].extra]

\* A text is a disjunction of conjunctions, as AND binds tighter than OR: a sequence of sets
\* of literals.  BuildCondition of a clause; a Query or Conditions is put as it is, under
\* Not too, all others in parentheses; a list of clausers has as many empty operands in
\* front, and is no condition.
Atom(c, i) == [atom |-> <<c.n, i>>, neg |-> FALSE]
Neg(x)     == [x EXCEPT !.neg = TRUE]
Empty      == [atom |-> <<0, 1>>, neg |-> FALSE]
Text(l, c) == CASE c.kind = "either" -> <<{Atom(c, 1)}, {Atom(c, 2)}>>
                [] c.kind = "mixed"  -> <<{Neg(Atom(c, 1))}, {Atom(c, 2)}>>
                [] c.kind = "listed" -> <<{Empty, Atom(c, 1), Atom(c, 2)}>>
                [] c.kind \in {"plain", "gap"} -> <<{IF l = "not" THEN Neg(Atom(c, 1)) ELSE Atom(c, 1)}>>
And(t, u)  == IF t = <<>> THEN u ELSE IF u = <<>> THEN t
              ELSE Front(t) \o <<Last(t) \cup Head(u)>> \o Tail(u)

Joined(t, l, cs) == FoldLeft(LAMBDA a, c : And(a, Text(l, c)), t, cs)
Ored(t, cs)      == FoldLeft(LAMBDA a, c : a \o Text("or", c), t, cs)
Combined(s)      == Ored(Joined(Joined(<<>>, "where", s["where"]), "not", s["not"]), s["or"])
Prim             == [atom |-> <<0, 0>>, neg |-> FALSE]
\* The conditions of soft delete and key come first, then AND and the rest in parentheses.
WhereBare(s) == And(<<{Prim}>>, Combined(s))
Where(s)     == LET all == Combined(s) IN IF all = <<>> THEN <<{Prim}>> ELSE [i \in DOMAIN all |-> all[i] \cup {Prim}]

\* The arguments a condition adds, in order, and the marks its text has.  A Conditions
\* collects those of Or before those of Not, a list of clausers none; Query.Build adds
\* nothing for an empty list of tuples.
Args(c)  == CASE c.kind = "either" -> <<<<c.n, 1>>, <<c.n, 2>>>>
              [] c.kind = "mixed"  -> <<<<c.n, 2>>, <<c.n, 1>>>>
              [] c.kind = "listed" -> <<>>
              [] c.kind = "gap"    -> <<<<c.n, 2>>>>
              [] c.kind = "plain"  -> <<<<c.n, 1>>>>
Marks(c) == IF c.kind = "plain" THEN <<<<c.n, 1>>>> ELSE <<<<c.n, 1>>, <<c.n, 2>>>>
ArgsOf(cs)  == FlattenSeq([i \in DOMAIN cs |-> Args(cs[i])])
MarksOf(cs) == FlattenSeq([i \in DOMAIN cs |-> Marks(cs[i])])

\* The order in which prepareQuerySQL builds the parts, and the order they have in the statement.
VarsWhereFirst(s, xs) == ArgsOf(s["joins"]) \o ArgsOf(s["where"]) \o ArgsOf(s["or"]) \o ArgsOf(s["not"])
                         \o ArgsOf(s["having"]) \o ArgsOf(s["orders"]) \o ArgsOf(xs)
Vars(s, xs) == ArgsOf(xs) \o ArgsOf(s["joins"]) \o ArgsOf(s["where"]) \o ArgsOf(s["or"]) \o ArgsOf(s["not"])
               \o ArgsOf(s["having"]) \o ArgsOf(s["orders"])
Places(s, xs) == MarksOf(xs) \o MarksOf(s["joins"]) \o MarksOf(s["where"]) \o MarksOf(s["not"]) \o MarksOf(s["or"])
                 \o MarksOf(s["having"]) \o MarksOf(s["orders"])
-----------------------------------------------------------------------------
(* Correctness *)

\* Types of the variables; every slot of a slice is filled.
TypeOK ==
    /\ Len(given) = Number
    /\ \A h \in 1 .. Number :
          /\ dbs[h].extra \in 0 .. Len(extras)
          /\ \A l \in Lists : LET s == dbs[h].lists[l]
                              IN  /\ s.arr \in 0 .. Len(heap)
                                  /\ s.arr = 0 => s.len = 0
                                  /\ s.arr # 0 => s.len \in 1 .. Len(heap[s.arr])
                                  /\ \A i \in 1 .. s.len : heap[s.arr][i] # Nil

Contents(l) == {given[h].lists[l] : h \in 1 .. Number}
\* append has room for one more than n.
Room(n)     == n > 0 /\ n \notin Powers
\* Two chains have added to the conditions s, or one has put a key before them.
GoesOn(t, s)    == Len(t) > Len(s) /\ SubSeq(t, 1, Len(s)) = s
Contended(l, s) == \/ \E t, u \in Contents(l) : t # u /\ GoesOn(t, s) /\ GoesOn(u, s)
                   \/ \E t \in Contents(l) : Len(t) = Len(s) + 1 /\ Tail(t) = s

\* "Where return a new relation" (main.go): a chain has the conditions it was given and no
\* other chain's, as long as no two chains have gone on from 3, 5, 6, 7, 9... conditions they
\* have in common; with 0, 1, 2, 4, 8... any number of chains may.
OwnConditions ==
    \A h \in 1 .. Number, l \in Lists :
       Read(h, l) # given[h].lists[l] =>
          \E s \in Contents(l) : /\ Room(Len(s)) /\ Contended(l, s)
                                /\ s[1] \in {given[h].lists[l][i] : i \in DOMAIN given[h].lists[l]}

\* A chain has all extra selects it was given; it has others only if it has gone on from
\* another chain's first one.
ExtrasOfOneOrigin ==
    \A h \in 1 .. Number :
       LET mine == given[h].extra
       IN  /\ mine = <<>> => ReadExtra(h) = <<>>
           /\ \A i \in DOMAIN mine : mine[i] \in {ReadExtra(h)[j] : j \in DOMAIN ReadExtra(h)}
           /\ \A j \in DOMAIN ReadExtra(h) : \E k \in 1 .. Number :
                 LET theirs == given[k].extra
                 IN  theirs # <<>> /\ theirs[1] = mine[1] /\ ReadExtra(h)[j] \in {theirs[i] : i \in DOMAIN theirs}

\* A chain reads what it was given and nothing of another's, but where arrays are shared with
\* room left.
Inv == TypeOK /\ OwnConditions /\ ExtrasOfOneOrigin

\* What the calls say one after the other, as a set of conjunctions, {} for nothing: Where
\* and Not restrict what there is, Or adds to it.
Means(l, c) ==
    LET one == Atom(c, 1) two == Atom(c, 2)
    IN  CASE c.kind = "either" -> IF l = "not" THEN {{Neg(one), Neg(two)}} ELSE {{one}, {two}}
          [] c.kind = "mixed"  -> IF l = "not" THEN {{one, Neg(two)}} ELSE {{Neg(one)}, {two}}
          [] c.kind = "listed" -> {{one, two}}
          [] c.kind \in {"plain", "gap"} -> {{IF l = "not" THEN Neg(one) ELSE one}}
Then(m, call) == CASE m = {}            -> Means(call.list, call.cond)
                   [] call.list = "or" -> m \cup Means("or", call.cond)
                   [] OTHER            -> {x \cup y : x \in m, y \in Means(call.list, call.cond)}
Chained(h) == FoldLeft(Then, {}, SelectSeq(given[h].calls, LAMBDA call : call.list \in {"where", "or", "not"}))

\* No Where or Not after an Or; a Query or Conditions only by itself or in Or; no list of
\* clausers.
Ordinary(h) ==
    LET calls == SelectSeq(given[h].calls, LAMBDA call : call.list \in {"where", "or", "not"})
        s     == given[h].lists
    IN  /\ \A i, j \in DOMAIN calls : i < j /\ calls[i].list = "or" => calls[j].list = "or"
        /\ \A i \in DOMAIN s["where"] :
              /\ s["where"][i].kind \in {"either", "mixed"} => Len(s["where"]) + Len(s["not"]) = 1
              /\ s["where"][i].kind # "listed"
        /\ \A i \in DOMAIN s["not"] : s["not"][i].kind \notin {"either", "mixed"}

\* "Or filter records that match before conditions or this one" (main.go), within the rows
\* that are not deleted: the WHERE clause means what the calls say in their order, for
\* ordinary chains and for no others.
MeansWhatIsChained ==
    LET h == Number
        w == Where(given[h].lists)
        m == Chained(h)
    IN  Ordinary(h) <=> {w[i] : i \in DOMAIN w} = IF m = {} THEN {{Prim}} ELSE {x \cup {Prim} : x \in m}

\* Where marks are bound by position each gets its own argument, unless the statement, or one
\* Conditions in it, has both Or and Not, or there is a list of clausers or an empty list of
\* tuples, and then some mark does not.
MarksGetTheirArgs ==
    \A h \in 1 .. Number :
       LET s  == [l \in Lists |-> Read(h, l)]
           ok == Vars(s, ReadExtra(h)) = Places(s, ReadExtra(h))
       IN  ok <=> /\ s["or"] = <<>> \/ s["not"] = <<>>
                  /\ \A l \in Lists : \A i \in DOMAIN s[l] : s[l][i].kind \in {"plain", "either"}
=============================================================================
