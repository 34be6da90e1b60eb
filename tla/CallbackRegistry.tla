-------------------------- MODULE CallbackRegistry --------------------------
(***************************************************************************)
(* Registries of chain callbacks (callback.go): Register, Replace and      *)
(* Remove add a processor and sort those of each kind anew.  The first use *)
(* of DB.Callback clones DefaultCallback, whose processors, and the array  *)
(* that holds them, all registries share: 37 of its 64 slots are taken, so *)
(* append finds room in it.                                                *)
(*                                                                         *)
(* Processors of one kind are modelled, and those of another only as far   *)
(* as they make the kind sort again.                                       *)
(***************************************************************************)
EXTENDS Naturals, Sequences, FiniteSets, SequencesExt

CONSTANTS DB,       \* root DBs
          Default,  \* DefaultCallback
          Names,    \* names of callbacks
          Initial,  \* processors that the package registers: names, in order
          None,     \* no name
          Orders,   \* what Before and After are given: <<before, after>>
          MaxAdds   \* bound: registrations

ASSUME RegistryAssumption == /\ Default \notin DB /\ None \notin Names
                             /\ Initial \in Seq(Names) /\ Orders \subseteq (Names \cup {None}) \X (Names \cup {None})
                             /\ MaxAdds \in 0 .. 27

Registry == DB \cup {Default}

VARIABLES obj,     \* processors: [name, after, op, wants]; wants: before as it was registered
          before,  \* before[p] of processor p, which sorting sets
          slots,   \* the array
          len,     \* len[r]: length of r's slice of it
          cloned,  \* DBs whose Callback has been called
          chain,   \* chain[r]: processors of the kind in the order they run
          mine     \* mine[r]: processors added through r, and the initial ones

vars == <<obj, before, slots, len, cloned, chain, mine>>

Plain(n) == [name |-> n, after |-> None, op |-> "register", wants |-> None]
Own      == [p \in DOMAIN Initial |-> p]

Init == /\ obj = [p \in DOMAIN Initial |-> Plain(Initial[p])]
        /\ before = [p \in DOMAIN Initial |-> None]
        /\ slots = Own
        /\ len = [r \in Registry |-> Len(Initial)]
        /\ cloned = {}
        /\ chain = [r \in Registry |-> Own] /\ mine = [r \in Registry |-> Own]

\* The registry a DB uses.
Of(d) == IF d \in cloned THEN d ELSE Default
-----------------------------------------------------------------------------
(* sortProcessors: s has sorted, the names so far, and before *)

Last_(names, n) == CHOOSE i \in DOMAIN names : names[i] = n /\ \A j \in DOMAIN names : names[j] = n => j <= i
Has(names, n)   == \E i \in DOMAIN names : names[i] = n

\* Where a callback goes that runs after a.
JustBefore(sorted, a) == Last_(sorted, a)
JustAfter(sorted, a)  == Last_(sorted, a) + 1

\* os: the processors; names: allNames; k: the one to place.
RECURSIVE Place(_, _, _, _)
Place(os, names, k, s) ==
    LET n == names[k]
        a == obj'[os[k]].after
        PutBefore(t) ==
            LET b == t.before[os[k]]
            IN  CASE b = None          -> t
                  [] Has(t.sorted, b)  -> [t EXCEPT !.sorted = InsertAt(@, Last_(@, b), n)]
                  [] Has(names, b) /\ ~Has(t.sorted, b) ->
                        Place(os, names, Last_(names, b), [t EXCEPT !.sorted = Append(@, n)])
                  [] OTHER             -> t
        PutAfter(t) ==
            CASE a = None          -> t
              [] Has(t.sorted, a)  -> [t EXCEPT !.sorted = InsertAt(@, JustAfter(@, a), n)]
              [] Has(names, a) /\ ~Has(t.sorted, a) ->
                    LET o == os[Last_(names, a)]
                    IN  Place(os, names, Last_(names, a), [t EXCEPT !.before[o] = IF @ = None THEN n ELSE @])
              [] OTHER             -> t
        u == PutAfter(PutBefore(s))
    IN  IF Has(s.sorted, n) THEN s
        ELSE IF Has(u.sorted, n) THEN u ELSE [u EXCEPT !.sorted = Append(@, n)]

\* The names in order, and what sorting leaves in before.
Sorted(os, bs) ==
    LET names == [i \in DOMAIN os |-> obj'[os[i]].name]
    IN  FoldLeft(LAMBDA s, k : Place(os, names, k, s), [sorted |-> <<>>, before |-> bs], [i \in DOMAIN os |-> i])

\* The last processor of a name for each time it is registered.
RunsOfAll(os, sorted) ==
    LET names == [i \in DOMAIN os |-> obj'[os[i]].name]
        last  == [i \in DOMAIN os |-> os[Last_(names, names[i])]]
    IN  SelectSeq(last, LAMBDA p : obj'[p].op # "remove")

\* All processors in the order of registration.
RunsEach(os, sorted) == SelectSeq(os, LAMBDA p : obj'[p].op # "remove")

\* The processors to run: of each name the last one, unless it removes the name.
Runs(os, sorted) ==
    LET names == [i \in DOMAIN os |-> obj'[os[i]].name]
        last  == [i \in DOMAIN sorted |-> os[Last_(names, sorted[i])]]
    IN  SelectSeq(last, LAMBDA p : obj'[p].op # "remove")

\* append puts p into slot l; reorder takes the processors of the kind.
Appended(l, p) == [i \in 1 .. IF l > Len(slots) THEN l ELSE Len(slots) |-> IF i = l THEN p ELSE slots[i]]
OfKind(ps)     == SelectSeq(ps, LAMBDA q : obj'[q].op # "other")

\* A processor is added to r, whose kinds are sorted anew: DB.Callback has cloned it.
Add(r, o) ==
    /\ Len(obj) < Len(Initial) + MaxAdds
    /\ obj' = Append(obj, o)
    /\ LET l  == len[IF r \in DB THEN Of(r) ELSE r] + 1
           p  == Len(obj) + 1
           os == OfKind(SubSeq(Appended(l, p), 1, l))
           s  == Sorted(os, Append(before, o.wants))
       IN  /\ slots' = Appended(l, p)
           /\ len' = [len EXCEPT ![r] = l]
           /\ before' = s.before
           /\ chain' = [chain EXCEPT ![r] = Runs(os, s.sorted)]
           /\ mine' = [mine EXCEPT ![r] = Append(IF r \in DB THEN mine[Of(r)] ELSE @, p)]
    /\ cloned' = cloned \cup ({r} \cap DB)

\* After names no callback that comes after the new one through its own After: such a
\* cycle, with a Before of an unknown name, lets the sort recurse for ever.
RECURSIVE Behind(_, _)
Behind(n, seen) ==
    {n} \cup UNION {Behind(obj[p].after, seen \cup {n}) :
                       p \in {q \in DOMAIN obj : obj[q].name = n /\ obj[q].after \notin seen \cup {n, None}}}

Register(r, n, b, a) == /\ b # n
                        /\ a # None => n \notin Behind(a, {})
                        /\ Add(r, [name |-> n, after |-> a, op |-> "register", wants |-> b])
Replace(r, n) == Add(r, [name |-> n, after |-> None, op |-> "replace", wants |-> None])
RemoveCallback(r, n)  == Add(r, [name |-> n, after |-> None, op |-> "remove", wants |-> None])
Other(r)      == Add(r, [name |-> None, after |-> None, op |-> "other", wants |-> None])

Next == \E r \in Registry : \/ \E n \in Names : \/ \E o \in Orders : Register(r, n, o[1], o[2])
                                                \/ Replace(r, n) \/ RemoveCallback(r, n)
                            \/ Other(r)
Spec == Init /\ [][Next]_vars
-----------------------------------------------------------------------------
(* Correctness *)

Used    == cloned \cup {Default}
Read(r) == SubSeq(slots, 1, len[r])
Kind(r) == SelectSeq(mine[r], LAMBDA q : obj[q].op # "other")
Entries(r, n) == {p \in ToSet(Kind(r)) : obj[p].name = n}

\* Types of the variables; a chain has processors of its registry's array, none to remove.
TypeOK == /\ DOMAIN before = DOMAIN obj /\ \A p \in DOMAIN obj : before[p] \in Names \cup {None}
          /\ ToSet(slots) \subseteq DOMAIN obj
          /\ \A r \in Registry : /\ len[r] = Len(mine[r]) /\ len[r] <= Len(slots)
                                 /\ \A p \in ToSet(chain[r]) : obj[p].op \in {"register", "replace"}

\* A registry has the processors added through it, unless another one has been added to: the
\* first one of another DB takes the slot of the array they share.
OwnCallbacks == \A r \in Used : Read(r) # mine[r] => \E q \in Used \ {r} : len[q] > Len(Initial)

\* Some callback of r has both a Before, which may come from another one's After, and an
\* After.
TwoSided(r) == \E p \in ToSet(Read(r)) \cup ToSet(mine[r]) : obj[p].after # None /\ before[p] # None

\* No callback runs twice in a chain, unless one is two-sided: sortProcessors puts it before
\* the one and, not looking whether it is there already, after the other.
RunsOnce ==
    \A r \in Used : (\E i, j \in DOMAIN chain[r] : i # j /\ chain[r][i] = chain[r][j]) => TwoSided(r)

\* A registry has its own callbacks and runs each once, but for the named cases.
Inv == TypeOK /\ RunsOnce /\ OwnCallbacks

\* In whatever order callbacks are registered, After is kept; Before is kept if the other
\* has no order of its own.  (Each name once, none two-sided, nothing overwritten.)
OrderKept ==
    \A r \in Used :
       (~TwoSided(r) /\ Read(r) = mine[r] /\ \A n \in Names : Cardinality(Entries(r, n)) <= 1) =>
          \A i, j \in DOMAIN chain[r] :
             LET p == obj[chain[r][i]] q == obj[chain[r][j]]
             IN  /\ p.after = q.name => j < i
                 /\ p.wants = q.name /\ q.wants = None /\ q.after = None => i < j

NamesOf(c)    == [i \in DOMAIN c |-> obj'[c[i]].name]
Without(c, n) == SelectSeq(c, LAMBDA m : m # n)
Extends(r)    == r \in Used /\ Len(mine'[r]) > Len(mine[r]) /\ Read(r) = mine[r]

\* "Replace a registered callback with new callback", "Remove a registered callback": neither
\* moves another callback of the chain, if the one it names has no order of its own and
\* none is two-sided.
ReplaceKeepsPlaces ==
    [][\A r \in Registry :
         LET o == obj'[Len(obj')]
         IN  (/\ Extends(r) /\ o.op \in {"replace", "remove"} /\ ~TwoSided(r)'
              /\ \A n \in Names : Cardinality(Entries(r, n)) <= 1
              /\ \A p \in Entries(r, o.name) : obj[p].wants = None /\ obj[p].after = None)
             => /\ Without(NamesOf(chain'[r]), o.name) = Without(NamesOf(chain[r]), o.name)
                /\ o.op = "replace" /\ o.name \in ToSet(NamesOf(chain[r])) => NamesOf(chain'[r]) = NamesOf(chain[r])]_vars
=============================================================================
