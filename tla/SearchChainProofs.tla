------------------------- MODULE SearchChainProofs -------------------------
(***************************************************************************)
(* What SearchChain guarantees for any numbers of common conditions and    *)
(* calls while append doubles: each chain reads its own conditions, unless *)
(* two have gone on in an array with room; and each mark of its statement  *)
(* gets its own argument, unless there are Or and Not conditions or an     *)
(* empty list of tuples.                                                   *)
(***************************************************************************)
EXTENDS SearchChain, SequenceTheorems, WellFoundedInduction, TLAPS

Conds    == [n : Nat, kind : {"plain", "either", "mixed", "listed", "gap"}]
Slots    == Conds \cup {Nil}
Slices   == [arr : Nat, len : Nat]
Givens   == [lists : [Lists -> Seq(Conds)], extra : Seq(Conds), calls : Seq([list : Lists, cond : Conds])]
Elements(s) == {s[i] : i \in DOMAIN s}

Of(h, l)   == dbs[h].lists[l]
Said(h, l) == given[h].lists[l]

Typed == /\ heap \in Seq(Seq(Slots)) /\ extras \in Seq(Seq(Conds))
         /\ dbs \in Seq([lists : [Lists -> Slices], extra : Nat])
         /\ given \in Seq(Givens) /\ Len(given) = Number /\ Number > 0

\* A slice has the length of what was said, and lies in an array that is full of conditions
\* so far and has room for less than as many again.
SliceFits(h, l) ==
    LET s == Of(h, l)
    IN  /\ Len(Said(h, l)) = s.len
        /\ s.arr = 0 => s.len = 0
        /\ s.arr # 0 => /\ s.arr \in 1 .. Len(heap) /\ s.len \in 1 .. Len(heap[s.arr])
                        /\ Len(heap[s.arr]) \in Powers /\ Len(heap[s.arr]) < 2 * s.len
                        /\ \A i \in 1 .. s.len : heap[s.arr][i] \in Conds

\* The conditions are numbered by the calls they came with, and no chain has more than there
\* were calls.
Numbered == /\ \A h \in 1 .. Number, l \in Lists : \A i \in 1 .. Len(Said(h, l)) : Said(h, l)[i].n < 256 + Number
            /\ \E n \in Common : \A h \in 1 .. Number, l \in Lists : Len(Said(h, l)) < n + Number

\* Some conditions that chains have gone on from begin with one of the chain's.
Witnessed(h, l) == \E s \in Contents(l) : Room(Len(s)) /\ Contended(l, s) /\ s[1] \in Elements(Said(h, l))

\* The chain reads what was said.
Clear(h, l) == \A i \in 1 .. Of(h, l).len : heap[Of(h, l).arr][i] = Said(h, l)[i]

\* An array belongs to one list, and either all chains in it read what they should or all
\* have a witness.
Shared == \A h, k \in 1 .. Number, l, m \in Lists :
             Of(h, l).arr = Of(k, m).arr /\ Of(h, l).arr # 0 => l = m /\ (Witnessed(h, l) \/ Clear(k, l))

\* A chain's extra selects are where its pointer points, with those of others that have it.
ExtraFits(h) ==
    LET p == dbs[h].extra mine == given[h].extra
    IN  IF p = 0 THEN mine = <<>>
        ELSE /\ p \in 1 .. Len(extras) /\ mine # <<>> /\ extras[p] # <<>> /\ extras[p][1] = mine[1]
             /\ Elements(mine) \subseteq Elements(extras[p])
             /\ \A x \in Elements(extras[p]) : \E k \in 1 .. Number : dbs[k].extra = p /\ x \in Elements(given[k].extra)

\* The inductive invariant.
IInv == /\ Typed /\ Numbered /\ Shared
        /\ \A h \in 1 .. Number : ExtraFits(h) /\ \A l \in Lists : SliceFits(h, l)
-----------------------------------------------------------------------------
(* Arrays and their capacities *)

LEMMA CapacityFits ==
    ASSUME NEW n \in Nat, 0 < n, n <= 256
    PROVE  Capacity(n) \in Powers /\ n <= Capacity(n) /\ Capacity(n) < 2 * n
<1>1. \E c \in Powers : n <= c /\ c < 2 * n
    <2>1. CASE n <= 1  BY <2>1 DEF Powers
    <2>2. CASE 1 < n /\ n <= 2  BY <2>2 DEF Powers
    <2>3. CASE 2 < n /\ n <= 4  BY <2>3 DEF Powers
    <2>4. CASE 4 < n /\ n <= 8  BY <2>4 DEF Powers
    <2>5. CASE 8 < n /\ n <= 16  BY <2>5 DEF Powers
    <2>6. CASE 16 < n /\ n <= 32  BY <2>6 DEF Powers
    <2>7. CASE 32 < n /\ n <= 64  BY <2>7 DEF Powers
    <2>8. CASE 64 < n /\ n <= 128  BY <2>8 DEF Powers
    <2>9. CASE 128 < n /\ n <= 256  BY <2>9 DEF Powers
    <2>10. QED  BY <2>1, <2>2, <2>3, <2>4, <2>5, <2>6, <2>7, <2>8, <2>9
<1>2. QED  BY <1>1 DEF Capacity

\* A slice with room in its array has not a power of two of elements.
LEMMA InPlaceIsRoom ==
    ASSUME NEW n \in Nat, NEW c \in Powers, n < c, c < 2 * n
    PROVE  Room(n)
  BY DEF Room, Powers

\* A slice that fills its array gets one of twice the size.
LEMMA NewCapFits ==
    ASSUME NEW n \in Nat, n < 256, n = 0 \/ n \in Powers
    PROVE  NewCap(n) \in Powers /\ n + 1 <= NewCap(n) /\ NewCap(n) < 2 * (n + 1)
  BY DEF NewCap, Powers

LEMMA Few ==
    ASSUME IInv, NEW h \in 1 .. Number, NEW l \in Lists, More
    PROVE  Len(Said(h, l)) < 256
<1>1. PICK n \in Common : \A k \in 1 .. Number, m \in Lists : Len(Said(k, m)) < n + Number
    BY DEF IInv, Numbered
<1>2. n \in Nat /\ MaxCalls \in Nat /\ n + MaxCalls <= 256 /\ Number \in Nat  BY ChainAssumption DEF IInv, Typed, Number
<1>3. Len(Said(h, l)) \in Nat
    BY DEF IInv, Typed, Said, Givens
<1>4. Len(Said(h, l)) < n + Number /\ Number <= MaxCalls  BY <1>1 DEF More
<1>5. QED  BY <1>2, <1>3, <1>4

\* What is known of a slice.
LEMMA SliceFacts ==
    ASSUME IInv, NEW h \in 1 .. Number, NEW l \in Lists
    PROVE  /\ Number \in Nat /\ dbs[h] \in [lists : [Lists -> Slices], extra : Nat] /\ given[h] \in Givens
           /\ Of(h, l) \in Slices /\ Said(h, l) \in Seq(Conds) /\ Len(Said(h, l)) = Of(h, l).len
           /\ Of(h, l).arr = 0 => Of(h, l).len = 0
           /\ Of(h, l).arr # 0 =>
                /\ Of(h, l).arr \in 1 .. Len(heap) /\ heap[Of(h, l).arr] \in Seq(Slots)
                /\ Of(h, l).len \in 1 .. Len(heap[Of(h, l).arr])
                /\ Len(heap[Of(h, l).arr]) \in Powers /\ Len(heap[Of(h, l).arr]) < 2 * Of(h, l).len
                /\ \A i \in 1 .. Of(h, l).len : heap[Of(h, l).arr][i] \in Conds
<1>0. /\ dbs \in Seq([lists : [Lists -> Slices], extra : Nat]) /\ given \in Seq(Givens)
      /\ Len(given) = Len(dbs) /\ h \in 1 .. Len(dbs) /\ Number = Len(dbs)
    BY DEF IInv, Typed, Number
<1>1. dbs[h] \in [lists : [Lists -> Slices], extra : Nat] /\ given[h] \in Givens /\ Number \in Nat
    <2>1. ASSUME NEW S, NEW q \in Seq(S), h \in 1 .. Len(q) PROVE q[h] \in S /\ Len(q) \in Nat
        BY <2>1
    <2>2. QED  BY <1>0, <2>1
<1>2. Of(h, l) \in Slices /\ Said(h, l) \in Seq(Conds)  BY <1>1 DEF Of, Said, Givens
<1>3. SliceFits(h, l)  BY DEF IInv
<1>4. \A b \in 1 .. Len(heap) : heap[b] \in Seq(Slots)  BY DEF IInv, Typed
<1>5. QED  BY <1>1, <1>2, <1>3, <1>4 DEF SliceFits

LEMMA InHeap ==
    ASSUME IInv, NEW h \in 1 .. Number, NEW l \in Lists, Of(h, l).arr # 0
    PROVE  Of(h, l).arr \in 1 .. Len(heap)
BY SliceFacts

LEMMA OneList ==
    ASSUME IInv, NEW h \in 1 .. Number, NEW k \in 1 .. Number, NEW l \in Lists, NEW m \in Lists,
           Of(h, l).arr = Of(k, m).arr, Of(h, l).arr # 0
    PROVE  l = m
<1>1. Shared  BY DEF IInv
<1>2. QED  BY <1>1 DEF Shared

\* append, in place or in a new array.
InPlace(s, c, a) ==
    /\ s.arr # 0 /\ s.len < Len(heap[s.arr])
    /\ a.slice.arr = s.arr /\ Len(a.heap) = Len(heap)
    /\ \A b \in 1 .. Len(heap) : b # s.arr => a.heap[b] = heap[b]
    /\ Len(a.heap[s.arr]) = Len(heap[s.arr]) /\ a.heap[s.arr][s.len + 1] = c
    /\ \A i \in 1 .. Len(heap[s.arr]) : i # s.len + 1 => a.heap[s.arr][i] = heap[s.arr][i]
InNew(s, c, a) ==
    /\ a.slice.arr = Len(heap) + 1 /\ Len(a.heap) = Len(heap) + 1
    /\ \A b \in 1 .. Len(heap) : a.heap[b] = heap[b]
    /\ Len(a.heap[a.slice.arr]) \in Powers
    /\ s.len + 1 <= Len(a.heap[a.slice.arr]) /\ Len(a.heap[a.slice.arr]) < 2 * (s.len + 1)
    /\ a.heap[a.slice.arr][s.len + 1] = c
    /\ \A i \in 1 .. s.len : a.heap[a.slice.arr][i] = heap[s.arr][i]

LEMMA AppendedFacts ==
    ASSUME IInv, More, NEW h \in 1 .. Number, NEW l \in Lists, NEW c \in Slots
    PROVE  LET s == Of(h, l) a == Appended(s, c)
           IN  /\ a.slice \in Slices /\ a.slice.len = s.len + 1 /\ a.heap \in Seq(Seq(Slots))
               /\ InPlace(s, c, a) \/ InNew(s, c, a)
<1> DEFINE s == Of(h, l)
           a == Appended(s, c)
<1>1. /\ s \in Slices /\ heap \in Seq(Seq(Slots)) /\ (s.arr = 0 => s.len = 0)
      /\ s.arr # 0 => /\ s.arr \in 1 .. Len(heap) /\ heap[s.arr] \in Seq(Slots) /\ s.len \in 1 .. Len(heap[s.arr])
                      /\ Len(heap[s.arr]) \in Powers /\ Len(heap[s.arr]) < 2 * s.len
                      /\ \A i \in 1 .. s.len : heap[s.arr][i] \in Conds
    BY SliceFacts DEF IInv, Typed
<1>2. s.len < 256  BY Few, SliceFacts
<1>3. s.len \in Nat /\ s.arr \in Nat  BY <1>1 DEF Slices
<1> HIDE DEF s
<1>4. CASE s.arr # 0 /\ s.len < Len(heap[s.arr])
    <2> DEFINE b == s.arr
               row == [heap[b] EXCEPT ![s.len + 1] = c]
    <2>1. a.heap = [heap EXCEPT ![b] = row] /\ a.slice = [s EXCEPT !.len = s.len + 1]  BY <1>4 DEF Appended
    <2> HIDE DEF a
    <2>2. a.slice \in Slices /\ a.slice.len = s.len + 1 /\ a.slice.arr = b
        <3>1. s = [arr |-> s.arr, len |-> s.len] /\ s.len + 1 \in Nat  BY <1>1, <1>3 DEF Slices
        <3>2. a.slice = [arr |-> s.arr, len |-> s.len + 1]  BY <2>1, <3>1
        <3>3. QED  BY <1>3, <3>1, <3>2 DEF Slices
    <2>3. heap[b] \in Seq(Slots) /\ s.len + 1 \in 1 .. Len(heap[b])  BY <1>1, <1>3, <1>4
    <2>4. /\ row \in Seq(Slots) /\ Len(row) = Len(heap[b]) /\ row[s.len + 1] = c
          /\ \A i \in 1 .. Len(heap[b]) : i # s.len + 1 => row[i] = heap[b][i]
        BY <2>3
    <2> HIDE DEF row
    <2>5. a.heap \in Seq(Seq(Slots)) /\ Len(a.heap) = Len(heap) /\ a.heap[b] = row
          /\ \A d \in 1 .. Len(heap) : d # b => a.heap[d] = heap[d]
        BY <1>1, <1>4, <2>1, <2>4
    <2>6. InPlace(s, c, a)  BY <1>4, <2>2, <2>4, <2>5 DEF InPlace
    <2>7. QED  BY <2>2, <2>5, <2>6 DEF s, a
<1>5. CASE ~(s.arr # 0 /\ s.len < Len(heap[s.arr]))
    <2> DEFINE row == [i \in 1 .. NewCap(s.len) |-> IF i <= s.len THEN heap[s.arr][i] ELSE IF i = s.len + 1 THEN c ELSE Nil]
    <2>1. a.heap = Append(heap, row) /\ a.slice = [arr |-> Len(heap) + 1, len |-> s.len + 1]  BY <1>5 DEF Appended
    <2> HIDE DEF a
    <2>2. s.len = 0 \/ s.len \in Powers
        <3>1. CASE s.arr = 0  BY <1>1, <3>1
        <3>2. CASE s.arr # 0
            <4>1. Len(heap[s.arr]) \in Nat  BY <1>1, <3>2
            <4>2. s.len = Len(heap[s.arr])  BY <1>1, <1>3, <1>5, <3>2, <4>1
            <4>3. QED  BY <1>1, <3>2, <4>2
        <3>3. QED  BY <3>1, <3>2
    <2>3. NewCap(s.len) \in Powers /\ s.len + 1 <= NewCap(s.len) /\ NewCap(s.len) < 2 * (s.len + 1)
        BY <1>2, <1>3, <2>2, NewCapFits
    <2>4. NewCap(s.len) \in Nat  BY <2>3 DEF Powers
    <2>5. \A i \in 1 .. s.len : s.arr # 0 /\ heap[s.arr][i] \in Slots
        BY <1>1, <1>3 DEF Slots
    <2>6. row \in Seq(Slots) /\ Len(row) = NewCap(s.len)
        <3>1. \A i \in 1 .. NewCap(s.len) : row[i] \in Slots  BY <1>3, <2>4, <2>5 DEF Slots
        <3>2. QED  BY <2>4, <3>1
    <2>7. row[s.len + 1] = c /\ \A i \in 1 .. s.len : row[i] = heap[s.arr][i]  BY <1>3, <2>3, <2>4
    <2> HIDE DEF row
    <2>8. a.heap \in Seq(Seq(Slots)) /\ Len(a.heap) = Len(heap) + 1 /\ a.heap[Len(heap) + 1] = row
          /\ \A d \in 1 .. Len(heap) : a.heap[d] = heap[d]
        BY <1>1, <2>1, <2>6
    <2>9. a.slice \in Slices /\ a.slice.len = s.len + 1 /\ a.slice.arr = Len(heap) + 1
        <3>1. Len(heap) + 1 \in Nat /\ s.len + 1 \in Nat  BY <1>1, <1>3
        <3>2. QED  BY <2>1, <3>1 DEF Slices
    <2>10. InNew(s, c, a)  BY <2>3, <2>6, <2>7, <2>8, <2>9 DEF InNew
    <2>11. QED  BY <2>8, <2>9, <2>10 DEF s, a
<1>6. QED  BY <1>4, <1>5
-----------------------------------------------------------------------------
(* A call that adds to a list *)

Told == Seq([list : Lists, cond : Conds])

\* The call makes a DB or scope of h with the list l replaced by the slice a, which should
\* read cs.
Makes(h, l, a, cs, calls) ==
    /\ More /\ h \in 1 .. Number /\ l \in Lists /\ a \in Slices /\ cs \in Seq(Conds) /\ calls \in Told
    /\ Clone(dbs[h], l, a) /\ Gives(h, l, cs, calls) /\ extras' = extras

\* What is there then.
MadeAs(N, h, l, a, cs) ==
    /\ N \in Nat /\ N > 0 /\ N <= MaxCalls /\ h \in 1 .. N /\ Number' = N + 1 /\ Len(given') = N + 1
    /\ dbs' \in Seq([lists : [Lists -> Slices], extra : Nat]) /\ given' \in Seq(Givens)
    /\ \A k \in 1 .. N : dbs'[k] = dbs[k] /\ given'[k] = given[k]
    /\ dbs'[N + 1].extra = dbs[h].extra /\ given'[N + 1].extra = given[h].extra
    /\ dbs'[N + 1].lists[l] = a /\ given'[N + 1].lists[l] = cs
    /\ \A m \in Lists : m # l => /\ dbs'[N + 1].lists[m] = dbs[h].lists[m]
                                 /\ given'[N + 1].lists[m] = given[h].lists[m]

LEMMA MakesFacts ==
    ASSUME IInv, NEW N, N = Number, NEW h, NEW l, NEW a, NEW cs, NEW calls, Makes(h, l, a, cs, calls)
    PROVE  MadeAs(N, h, l, a, cs)
<1> DEFINE D == [lists : [Lists -> Slices], extra : Nat]
           d == [dbs[h] EXCEPT !.lists[l] = a]
           g == [given[h] EXCEPT !.lists[l] = cs, !.calls = @ \o calls]
<1>1. /\ dbs \in Seq(D) /\ given \in Seq(Givens) /\ Len(dbs) = N /\ Len(given) = N /\ N \in Nat /\ N > 0 /\ h \in 1 .. N
    BY DEF IInv, Typed, Number, Makes
<1>2. dbs[h] \in D /\ given[h] \in Givens  BY SliceFacts DEF Makes
<1>3. l \in Lists /\ a \in Slices /\ cs \in Seq(Conds) /\ calls \in Told /\ N <= MaxCalls /\ dbs' = Append(dbs, d) /\ given' = Append(given, g)
    BY DEF Makes, More, Clone, Gives
<1>4. d \in D /\ d.extra = dbs[h].extra /\ d.lists[l] = a /\ \A m \in Lists : m # l => d.lists[m] = dbs[h].lists[m]
    BY <1>2, <1>3
<1>5. g \in Givens /\ g.extra = given[h].extra /\ g.lists[l] = cs /\ \A m \in Lists : m # l => g.lists[m] = given[h].lists[m]
    <2>1. given[h].calls \o calls \in Told  BY <1>2, <1>3 DEF Givens, Told
    <2>2. QED  BY <1>2, <1>3, <2>1 DEF Givens, Told
<1> HIDE DEF d, g, D
<1>6. ASSUME NEW S, NEW q \in Seq(S), NEW x \in S
      PROVE  /\ Append(q, x) \in Seq(S) /\ Len(Append(q, x)) = Len(q) + 1 /\ Append(q, x)[Len(q) + 1] = x
             /\ \A k \in 1 .. Len(q) : Append(q, x)[k] = q[k]
    OBVIOUS
<1>7. /\ dbs' \in Seq(D) /\ Len(dbs') = N + 1 /\ dbs'[N + 1] = d /\ \A k \in 1 .. N : dbs'[k] = dbs[k]
    BY <1>1, <1>3, <1>4, <1>6
<1>8. /\ given' \in Seq(Givens) /\ Len(given') = N + 1 /\ given'[N + 1] = g /\ \A k \in 1 .. N : given'[k] = given[k]
    BY <1>1, <1>3, <1>5, <1>6
<1>9. QED  BY <1>1, <1>3, <1>4, <1>5, <1>7, <1>8 DEF D, Number, MadeAs

\* A witness stays one, also for those that go on from there.
LEMMA WitnessKept ==
    ASSUME NEW m \in Lists, Contents(m) \subseteq Contents(m)', NEW h, NEW k, Witnessed(h, m),
           Elements(Said(h, m)) \subseteq Elements(given'[k].lists[m])
    PROVE  Witnessed(k, m)'
<1>1. PICK s \in Contents(m) : Room(Len(s)) /\ Contended(m, s) /\ s[1] \in Elements(Said(h, m))
    BY DEF Witnessed
<1>2. Contended(m, s)'  BY <1>1 DEF Contended
<1>3. QED  BY <1>1, <1>2 DEF Witnessed, Said

\* What the heap must be like after such a call.
Stores(N, h, l, a, cs) ==
    /\ heap' \in Seq(Seq(Slots)) /\ Len(cs) = a.len
    /\ a.arr \in 1 .. Len(heap') /\ a.len \in 1 .. Len(heap'[a.arr])
    /\ Len(heap'[a.arr]) \in Powers /\ Len(heap'[a.arr]) < 2 * a.len
    /\ \A i \in 1 .. a.len : heap'[a.arr][i] \in Conds
    /\ \A b \in 1 .. Len(heap) : b \in 1 .. Len(heap') /\ (b # a.arr => heap'[b] = heap[b])
    /\ a.arr \in 1 .. Len(heap) =>
          /\ a.arr = Of(h, l).arr /\ Len(heap'[a.arr]) = Len(heap[a.arr])
          /\ \A i \in 1 .. Len(heap[a.arr]) : heap[a.arr][i] \in Conds => heap'[a.arr][i] \in Conds
    /\ Len(cs) <= Len(Said(h, l)) + 1 /\ \A i \in 1 .. Len(cs) : cs[i].n <= 256 + N

\* Who is in the slice's array then.
Agree(N, l, a) ==
    \/ (\A k \in 1 .. N : Of(k, l).arr = a.arr => Witnessed(k, l)') /\ Witnessed(N + 1, l)'
    \/ (\A k \in 1 .. N : Of(k, l).arr = a.arr => Clear(k, l)') /\ Clear(N + 1, l)'

LEMMA MakesInv ==
    ASSUME IInv, NEW N, N = Number, NEW h, NEW l, NEW a, NEW cs, NEW calls,
           Makes(h, l, a, cs, calls), Stores(N, h, l, a, cs), Agree(N, l, a)
    PROVE  IInv'
<1>1. /\ N \in Nat /\ N > 0 /\ N <= MaxCalls /\ h \in 1 .. N /\ l \in Lists /\ Number' = N + 1 /\ Len(given') = N + 1
      /\ a \in Slices /\ cs \in Seq(Conds) /\ extras' = extras
    BY MakesFacts DEF Makes, MadeAs
<1>2. /\ dbs' \in Seq([lists : [Lists -> Slices], extra : Nat]) /\ given' \in Seq(Givens)
      /\ \A k \in 1 .. N : dbs'[k] = dbs[k] /\ given'[k] = given[k]
      /\ dbs'[N + 1].extra = dbs[h].extra /\ given'[N + 1].extra = given[h].extra
      /\ dbs'[N + 1].lists[l] = a /\ given'[N + 1].lists[l] = cs
      /\ \A m \in Lists : m # l => /\ dbs'[N + 1].lists[m] = dbs[h].lists[m]
                                   /\ given'[N + 1].lists[m] = given[h].lists[m]
    <2>1. MadeAs(N, h, l, a, cs)  BY MakesFacts
    <2>2. QED  BY <2>1 DEF MadeAs
<1> DEFINE From(k) == IF k <= N THEN k ELSE h
<1>3. \A k \in 1 .. N + 1 : From(k) \in 1 .. N /\ (k \in 1 .. N \/ k = N + 1)  BY <1>1
\* All but the new slice is as it was of the chain it comes from.
<1>4. ASSUME NEW k \in 1 .. N + 1, NEW m \in Lists, ~(k = N + 1 /\ m = l)
      PROVE  dbs'[k].lists[m] = Of(From(k), m) /\ given'[k].lists[m] = Said(From(k), m)
    <2>1. CASE k = N + 1
        <3>1. m # l /\ From(k) = h  BY <1>1, <1>4, <2>1
        <3>2. QED  BY <1>2, <2>1, <3>1 DEF Of, Said
    <2>2. CASE k \in 1 .. N  BY <1>1, <1>2, <2>2 DEF Of, Said
    <2>3. QED  BY <1>3, <2>1, <2>2
<1>5. Typed'
    <2>1. extras \in Seq(Seq(Conds))  BY DEF IInv, Typed
    <2>2. QED  BY <1>1, <1>2, <2>1 DEF Typed, Stores
<1>6. ASSUME NEW k \in 1 .. N + 1, NEW m \in Lists PROVE SliceFits(k, m)'
    <2>1. CASE k = N + 1 /\ m = l
        <3>1. dbs'[k].lists[m] = a /\ given'[k].lists[m] = cs /\ a.arr # 0 /\ Len(cs) = a.len
            BY <1>2, <2>1 DEF Stores
        <3>2. /\ a.arr \in 1 .. Len(heap') /\ a.len \in 1 .. Len(heap'[a.arr])
              /\ Len(heap'[a.arr]) \in Powers /\ Len(heap'[a.arr]) < 2 * a.len
              /\ \A i \in 1 .. a.len : heap'[a.arr][i] \in Conds
            BY DEF Stores
        <3>3. QED  BY <3>1, <3>2 DEF SliceFits, Of, Said
    <2>2. CASE ~(k = N + 1 /\ m = l)
        <3> DEFINE s == Of(From(k), m)
        <3>1. dbs'[k].lists[m] = s /\ given'[k].lists[m] = Said(From(k), m)  BY <1>4, <2>2
        <3>2. /\ s \in Slices /\ Len(Said(From(k), m)) = s.len /\ (s.arr = 0 => s.len = 0)
              /\ s.arr # 0 =>
                    /\ s.arr \in 1 .. Len(heap) /\ heap[s.arr] \in Seq(Slots) /\ s.len \in 1 .. Len(heap[s.arr])
                    /\ Len(heap[s.arr]) \in Powers /\ Len(heap[s.arr]) < 2 * s.len
                    /\ \A i \in 1 .. s.len : heap[s.arr][i] \in Conds
            BY <1>1, <1>3, SliceFacts
        <3> HIDE DEF s
        <3>3. s.arr # 0 => /\ s.arr \in 1 .. Len(heap') /\ Len(heap'[s.arr]) = Len(heap[s.arr])
                           /\ \A i \in 1 .. s.len : heap'[s.arr][i] \in Conds
            <4>1. SUFFICES ASSUME s.arr # 0
                           PROVE  /\ s.arr \in 1 .. Len(heap') /\ Len(heap'[s.arr]) = Len(heap[s.arr])
                                  /\ \A i \in 1 .. s.len : heap'[s.arr][i] \in Conds
                OBVIOUS
            <4>2. s.arr \in 1 .. Len(heap')  BY <3>2, <4>1 DEF Stores
            <4>3. CASE s.arr # a.arr  BY <3>2, <4>1, <4>2, <4>3 DEF Stores
            <4>4. CASE s.arr = a.arr
                <5>1. Len(heap[s.arr]) \in Nat  BY <3>2, <4>1
                <5>2. \A i \in 1 .. s.len : i \in 1 .. Len(heap[s.arr])  BY <3>2, <4>1, <5>1
                <5>3. QED  BY <3>2, <4>1, <4>2, <4>4, <5>2 DEF Stores
            <4>5. QED  BY <4>3, <4>4
        <3>4. QED  BY <3>1, <3>2, <3>3 DEF SliceFits, Of, Said
    <2>3. QED  BY <2>1, <2>2
<1>7. Numbered'
    <2>1. PICK n \in Common : \A k \in 1 .. N, m \in Lists : Len(Said(k, m)) < n + N
        BY DEF IInv, Numbered
    <2>2. n \in Nat  BY ChainAssumption
    <2>3. \A k \in 1 .. N, m \in Lists : /\ Len(Said(k, m)) \in Nat /\ Said(k, m) \in Seq(Conds)
                                        /\ \A i \in 1 .. Len(Said(k, m)) : Said(k, m)[i].n < 256 + N
        BY SliceFacts DEF IInv, Numbered
    <2>4. ASSUME NEW k \in 1 .. N + 1, NEW m \in Lists
          PROVE  /\ \A i \in 1 .. Len(given'[k].lists[m]) : given'[k].lists[m][i].n < 256 + (N + 1)
                 /\ Len(given'[k].lists[m]) < n + (N + 1)
        <3>1. CASE k = N + 1 /\ m = l
            <4>1. Len(cs) \in Nat /\ Len(Said(h, l)) \in Nat /\ Len(Said(h, l)) < n + N /\ Len(cs) <= Len(Said(h, l)) + 1
                BY <1>1, <2>1, <2>3 DEF Stores
            <4>2. \A i \in 1 .. Len(cs) : cs[i].n \in Nat /\ cs[i].n <= 256 + N
                <5>1. \A i \in 1 .. Len(cs) : cs[i] \in Conds  BY <1>1
                <5>2. QED  BY <5>1 DEF Stores, Conds
            <4>3. given'[k].lists[m] = cs  BY <1>2, <3>1
            <4>4. QED  BY <1>1, <2>2, <4>1, <4>2, <4>3
        <3>2. CASE ~(k = N + 1 /\ m = l)
            <4> DEFINE q == Said(From(k), m)
            <4>1. given'[k].lists[m] = q /\ q \in Seq(Conds) /\ Len(q) \in Nat /\ Len(q) < n + N
                  /\ \A i \in 1 .. Len(q) : q[i].n < 256 + N
                BY <1>3, <1>4, <2>1, <2>3, <3>2
            <4> HIDE DEF q
            <4>2. \A i \in 1 .. Len(q) : q[i] \in Conds  BY <4>1
            <4>3. \A i \in 1 .. Len(q) : q[i].n \in Nat  BY <4>2 DEF Conds
            <4>4. QED  BY <1>1, <2>2, <4>1, <4>3
        <3>3. QED  BY <3>1, <3>2
    <2>5. QED  BY <1>1, <2>4 DEF Numbered, Said
<1>8. \A m \in Lists : Contents(m) \subseteq Contents(m)'
    <2>1. SUFFICES ASSUME NEW m \in Lists, NEW k \in 1 .. N PROVE given[k].lists[m] \in Contents(m)'
        BY DEF Contents
    <2>2. given'[k].lists[m] = given[k].lists[m] /\ k \in 1 .. N + 1  BY <1>1, <1>2
    <2>3. QED  BY <1>1, <2>2 DEF Contents
<1>9. ASSUME NEW j \in 1 .. N + 1, NEW k \in 1 .. N + 1, NEW m \in Lists, NEW r \in Lists,
             dbs'[j].lists[m].arr = dbs'[k].lists[r].arr, dbs'[j].lists[m].arr # 0
      PROVE  m = r /\ (Witnessed(j, m)' \/ Clear(k, r)')
    <2>1. CASE j = N + 1 /\ m = l /\ k = N + 1 /\ r = l  BY <2>1 DEF Agree
    <2>2. CASE ~(j = N + 1 /\ m = l) /\ k = N + 1 /\ r = l
        <3>1. Of(From(j), m).arr = a.arr /\ a.arr # 0 /\ From(j) \in 1 .. N /\ dbs'[j].lists[m] = Of(From(j), m)
              /\ given'[j].lists[m] = Said(From(j), m)
            BY <1>2, <1>3, <1>4, <1>9, <2>2
        <3>2. a.arr \in 1 .. Len(heap) /\ Of(h, l).arr = a.arr
            <4>1. a.arr \in 1 .. Len(heap)  BY <3>1, InHeap
            <4>2. QED  BY <4>1 DEF Stores
        <3>3. m = l
            <4>1. From(j) \in 1 .. Number /\ h \in 1 .. Number  BY <1>1, <3>1
            <4>2. QED  BY <1>1, <3>1, <3>2, <4>1, OneList
        <3>4. j = From(j)  BY <1>1, <1>3, <2>2, <3>3
        <3>5. QED  BY <2>2, <3>1, <3>3, <3>4 DEF Agree
    <2>3. CASE j = N + 1 /\ m = l /\ ~(k = N + 1 /\ r = l)
        <3>1. Of(From(k), r).arr = a.arr /\ a.arr # 0 /\ From(k) \in 1 .. N
            BY <1>2, <1>3, <1>4, <1>9, <2>3
        <3>2. a.arr \in 1 .. Len(heap) /\ Of(h, l).arr = a.arr
            <4>1. a.arr \in 1 .. Len(heap)  BY <3>1, InHeap
            <4>2. QED  BY <4>1 DEF Stores
        <3>3. r = l
            <4>1. From(k) \in 1 .. Number /\ h \in 1 .. Number  BY <1>1, <3>1
            <4>2. QED  BY <1>1, <3>1, <3>2, <4>1, OneList
        <3>4. k = From(k)  BY <1>1, <1>3, <2>3, <3>3
        <3>5. QED  BY <2>3, <3>1, <3>3, <3>4 DEF Agree
    <2>4. CASE ~(j = N + 1 /\ m = l) /\ ~(k = N + 1 /\ r = l)
        <3>1. /\ From(j) \in 1 .. N /\ From(k) \in 1 .. N
              /\ dbs'[j].lists[m] = Of(From(j), m) /\ given'[j].lists[m] = Said(From(j), m)
              /\ dbs'[k].lists[r] = Of(From(k), r) /\ given'[k].lists[r] = Said(From(k), r)
            BY <1>3, <1>4, <2>4
        <3>2. m = r /\ (Witnessed(From(j), m) \/ Clear(From(k), r))
            BY <1>9, <3>1 DEF IInv, Shared
        <3>3. ASSUME Witnessed(From(j), m) PROVE Witnessed(j, m)'
            BY <1>8, <3>1, <3>3, WitnessKept
        <3>4. CASE Of(From(k), r).arr # a.arr
            <4>1. ASSUME Clear(From(k), r) PROVE Clear(k, r)'
                <5> DEFINE s == Of(From(k), r)
                <5>1. heap'[s.arr] = heap[s.arr]
                    <6>1. s.arr # 0 /\ s.arr # a.arr  BY <1>9, <3>1, <3>4
                    <6>2. s.arr \in 1 .. Len(heap)  BY <3>1, <6>1, InHeap
                    <6>3. QED  BY <6>1, <6>2 DEF Stores
                <5>2. \A i \in 1 .. s.len : heap[s.arr][i] = Said(From(k), r)[i]  BY <4>1 DEF Clear
                <5>3. QED  BY <3>1, <5>1, <5>2 DEF Clear, Of, Said
            <4>2. QED  BY <3>2, <3>3, <4>1, SMTT(30)
        <3>5. CASE Of(From(k), r).arr = a.arr
            <4>1. a.arr \in 1 .. Len(heap) /\ Of(h, l).arr = a.arr /\ a.arr # 0
                <5>1. a.arr # 0  BY <1>9, <3>1, <3>5
                <5>2. a.arr \in 1 .. Len(heap)  BY <3>1, <3>5, <5>1, InHeap
                <5>3. QED  BY <5>1, <5>2 DEF Stores
            <4>2. r = l
                <5>1. From(k) \in 1 .. Number /\ h \in 1 .. Number  BY <1>1, <3>1
                <5>2. QED  BY <1>1, <3>5, <4>1, <5>1, OneList
            <4>3. j = From(j) /\ k = From(k)  BY <1>1, <1>3, <2>4, <3>2, <4>2
            <4>4. QED  BY <1>9, <3>1, <3>2, <3>5, <4>2, <4>3 DEF Agree
        <3>6. QED  BY <3>4, <3>5
    <2>5. QED  BY <2>1, <2>2, <2>3, <2>4
<1>10. Shared'
    BY <1>1, <1>9 DEF Shared, Of
<1>11. ASSUME NEW k \in 1 .. N + 1 PROVE ExtraFits(k)'
    <2>1. /\ From(k) \in 1 .. N /\ ExtraFits(From(k)) /\ dbs'[k].extra = dbs[From(k)].extra
          /\ given'[k].extra = given[From(k)].extra
        <3>1. From(k) \in 1 .. N /\ ExtraFits(From(k))  BY <1>1, <1>3 DEF IInv
        <3>2. dbs'[k].extra = dbs[From(k)].extra /\ given'[k].extra = given[From(k)].extra  BY <1>1, <1>2, <1>3
        <3>3. QED  BY <3>1, <3>2
    <2>2. ASSUME NEW j \in 1 .. N PROVE j \in 1 .. N + 1 /\ dbs'[j].extra = dbs[j].extra /\ given'[j].extra = given[j].extra
        <3>1. j \in 1 .. N + 1  BY <1>1
        <3>2. dbs'[j] = dbs[j] /\ given'[j] = given[j]  BY <1>2
        <3>3. QED  BY <3>1, <3>2
    <2>3. QED  BY <1>1, <2>1, <2>2 DEF ExtraFits
<1>12. QED  BY <1>1, <1>5, <1>6, <1>7, <1>10, <1>11 DEF IInv

LEMMA ContentsKept ==
    ASSUME NEW N, N = Number, NEW h, NEW l, NEW a, NEW cs, MadeAs(N, h, l, a, cs), NEW m \in Lists
    PROVE  Contents(m) \subseteq Contents(m)'
<1>1. SUFFICES ASSUME NEW k \in 1 .. N PROVE given[k].lists[m] \in Contents(m)'
    BY DEF Contents
<1>2. N \in Nat /\ Number' = N + 1 /\ \A i \in 1 .. N : given'[i] = given[i]  BY DEF MadeAs
<1>3. given'[k].lists[m] = given[k].lists[m] /\ k \in 1 .. N + 1  BY <1>2
<1>4. QED  BY <1>2, <1>3 DEF Contents

\* In a new array there is nobody else.
LEMMA FreshAgree ==
    ASSUME IInv, NEW N, N = Number, NEW h, NEW l \in Lists, NEW a, NEW cs, MadeAs(N, h, l, a, cs), a.arr = Len(heap) + 1,
           (Witnessed(h, l) /\ Elements(Said(h, l)) \subseteq Elements(cs)) \/ Clear(N + 1, l)'
    PROVE  Agree(N, l, a)
<1>1. \A k \in 1 .. N : Of(k, l).arr # a.arr
    <2>1. Len(heap) \in Nat  BY DEF IInv, Typed
    <2>2. ASSUME NEW k \in 1 .. N PROVE Of(k, l).arr \in 0 .. Len(heap)  BY <2>1, SliceFacts
    <2>3. QED  BY <2>1, <2>2
<1>2. CASE Clear(N + 1, l)'  BY <1>1, <1>2 DEF Agree
<1>3. CASE Witnessed(h, l) /\ Elements(Said(h, l)) \subseteq Elements(cs)
    <2>1. given'[N + 1].lists[l] = cs  BY DEF MadeAs
    <2>2. Witnessed(N + 1, l)'  BY <1>3, <2>1, ContentsKept, WitnessKept
    <2>3. QED  BY <1>1, <2>2 DEF Agree
<1>4. QED  BY <1>2, <1>3

\* In an array where one does not read what it should, all have a witness.
LEMMA SpoiltAgree ==
    ASSUME IInv, NEW N, N = Number, NEW h, NEW l \in Lists, NEW a, NEW cs, MadeAs(N, h, l, a, cs),
           a.arr = Of(h, l).arr, a.arr # 0, NEW j \in 1 .. N, Of(j, l).arr = a.arr, ~Clear(j, l),
           Elements(Said(h, l)) \subseteq Elements(cs)
    PROVE  Agree(N, l, a)
<1>1. h \in 1 .. N /\ given'[N + 1].lists[l] = cs /\ \A k \in 1 .. N : given'[k] = given[k]  BY DEF MadeAs
<1>2. Contents(l) \subseteq Contents(l)'  BY ContentsKept
<1>3. ASSUME NEW k \in 1 .. N, Of(k, l).arr = a.arr PROVE Witnessed(k, l)'
    <2>1. Witnessed(k, l)  BY <1>3 DEF IInv, Shared
    <2>2. Elements(Said(k, l)) \subseteq Elements(given'[k].lists[l])  BY <1>1 DEF Said
    <2>3. QED  BY <1>2, <2>1, <2>2, WitnessKept
<1>4. Witnessed(N + 1, l)'
    <2>1. Witnessed(h, l)  BY <1>1 DEF IInv, Shared
    <2>2. QED  BY <1>1, <1>2, <2>1, WitnessKept
<1>5. QED  BY <1>3, <1>4 DEF Agree

\* The conditions s that h has gone on from are the witness of all in the array, as they all
\* begin like h.
LEMMA WitnessAgree ==
    ASSUME IInv, NEW N, N = Number, NEW h, NEW l \in Lists, NEW a, NEW cs, MadeAs(N, h, l, a, cs),
           a.arr = Of(h, l).arr, a.arr # 0, \A k \in 1 .. N : Of(k, l).arr = a.arr => Clear(k, l),
           NEW s, s = Said(h, l), Room(Len(s)), Contended(l, s)', Elements(s) \subseteq Elements(cs)
    PROVE  Agree(N, l, a)
<1>1. h \in 1 .. N /\ Number' = N + 1 /\ N \in Nat /\ given'[N + 1].lists[l] = cs /\ \A k \in 1 .. N : given'[k] = given[k]
    BY DEF MadeAs
<1>2. s \in Contents(l)'
    <2>1. s \in Contents(l)  BY <1>1 DEF Contents, Said
    <2>2. QED  BY <2>1, ContentsKept
<1>3. ASSUME NEW k \in 1 .. N, Of(k, l).arr = a.arr
      PROVE  Said(k, l)[1] = heap[a.arr][1] /\ Said(k, l)[1] \in Elements(Said(k, l))
    <2>1. /\ Of(k, l).len \in 1 .. Len(heap[a.arr]) /\ Len(heap[a.arr]) \in Powers
          /\ Said(k, l) \in Seq(Conds) /\ Len(Said(k, l)) = Of(k, l).len
        BY <1>3, SliceFacts
    <2>2. 1 \in 1 .. Of(k, l).len  BY <2>1 DEF Powers
    <2>3. Clear(k, l)  BY <1>3
    <2>4. Said(k, l)[1] = heap[a.arr][1]  BY <1>3, <2>2, <2>3 DEF Clear
    <2>5. 1 \in DOMAIN Said(k, l)  BY <2>1, <2>2
    <2>6. QED  BY <2>4, <2>5 DEF Elements
<1>4. ASSUME NEW k \in 1 .. N, Of(k, l).arr = a.arr PROVE Witnessed(k, l)'
    <2>1. s[1] \in Elements(Said(k, l))  BY <1>1, <1>3, <1>4
    <2>2. given'[k].lists[l] = Said(k, l)  BY <1>1 DEF Said
    <2>3. QED  BY <1>2, <2>1, <2>2 DEF Witnessed, Said
<1>5. Witnessed(N + 1, l)'
    <2>1. s[1] \in Elements(cs)  BY <1>1, <1>3
    <2>2. QED  BY <1>1, <1>2, <2>1 DEF Witnessed, Said
<1>6. QED  BY <1>4, <1>5 DEF Agree

LEMMA AppendFacts ==
    ASSUME NEW S, NEW s \in Seq(S), NEW c \in S
    PROVE  /\ Append(s, c) \in Seq(S) /\ Len(s) \in Nat /\ Len(Append(s, c)) = Len(s) + 1 /\ Append(s, c)[Len(s) + 1] = c
           /\ \A i \in 1 .. Len(s) : Append(s, c)[i] = s[i]
           /\ Elements(s) \subseteq Elements(Append(s, c)) /\ GoesOn(Append(s, c), s)
<1>1. /\ Append(s, c) \in Seq(S) /\ Len(s) \in Nat /\ Len(Append(s, c)) = Len(s) + 1 /\ Append(s, c)[Len(s) + 1] = c
      /\ \A i \in 1 .. Len(s) : Append(s, c)[i] = s[i]
    OBVIOUS
<1>2. Elements(s) \subseteq Elements(Append(s, c))
    <2>1. DOMAIN s = 1 .. Len(s) /\ DOMAIN Append(s, c) = 1 .. Len(s) + 1  BY <1>1
    <2>2. QED  BY <1>1, <2>1 DEF Elements
<1>3. SubSeq(Append(s, c), 1, Len(s)) = s  BY <1>1
<1>4. QED  BY <1>1, <1>2, <1>3 DEF GoesOn

\* A sequence that begins like another, shorter one goes on from it.
LEMMA Extends ==
    ASSUME NEW S, NEW s \in Seq(S), NEW t \in Seq(S), Len(s) < Len(t), \A i \in 1 .. Len(s) : t[i] = s[i]
    PROVE  GoesOn(t, s)
<1>1. SubSeq(t, 1, Len(s)) = s  OBVIOUS
<1>2. QED  BY <1>1 DEF GoesOn

LEMMA CondFacts ==
    ASSUME IInv, NEW l \in Lists, NEW kind \in Kinds(l)
    PROVE  Cond(kind) \in Conds /\ Cond(kind) \in Slots /\ Cond(kind).n = 256 + Number
<1>1. Number \in Nat  BY DEF IInv, Typed, Number
<1>2. kind \in {"plain", "either", "mixed", "listed", "gap"}  BY DEF Kinds
<1>3. QED  BY <1>1, <1>2 DEF Cond, Conds, Slots

LEMMA CallInv ==
    ASSUME IInv, NEW h \in 1 .. Number, NEW l \in Used, NEW kind \in Kinds(l), Call(h, l, kind)
    PROVE  IInv'
<1> DEFINE s == Of(h, l)
           q == Said(h, l)
<1>1. PICK N, c, a, n, b : N = Number /\ c = Cond(kind) /\ a = Appended(s, c).slice /\ n = s.len /\ b = s.arr
    OBVIOUS
<1>2. PICK cs, told : cs = Append(q, c) /\ told = <<[list |-> l, cond |-> c]>>  OBVIOUS
<1>3. /\ h \in 1 .. N /\ l \in Lists /\ More /\ c \in Conds /\ c \in Slots /\ c.n = 256 + N /\ q \in Seq(Conds) /\ Len(q) = n
      /\ heap' = Appended(s, c).heap /\ N \in Nat
    <2>1. h \in 1 .. N /\ l \in Lists  BY <1>1, ChainAssumption
    <2>2. More /\ heap' = Appended(s, c).heap  BY <1>1 DEF Call, Of
    <2>3. c \in Conds /\ c \in Slots /\ c.n = 256 + N  BY <1>1, <2>1, CondFacts
    <2>4. q \in Seq(Conds) /\ Len(q) = n /\ N \in Nat  BY <1>1, <2>1, SliceFacts
    <2>5. QED  BY <2>1, <2>2, <2>3, <2>4
<1>4. /\ cs \in Seq(Conds) /\ Len(cs) = n + 1 /\ cs[n + 1] = c /\ \A i \in 1 .. n : cs[i] = q[i]
      /\ Elements(q) \subseteq Elements(cs) /\ GoesOn(cs, q) /\ n \in Nat
    BY <1>2, <1>3, AppendFacts
<1>5. a \in Slices /\ a.len = n + 1 /\ heap' \in Seq(Seq(Slots))
      /\ (InPlace(s, c, Appended(s, c)) \/ InNew(s, c, Appended(s, c)))
    BY <1>1, <1>3, AppendedFacts
<1>6. Makes(h, l, a, cs, told)
    <2>1. told \in Told  BY <1>2, <1>3 DEF Told
    <2>2. Clone(dbs[h], l, a) /\ Gives(h, l, cs, told) /\ extras' = extras
        BY <1>1, <1>2 DEF Call, Of, Said
    <2>3. QED  BY <1>1, <1>3, <1>4, <1>5, <2>1, <2>2 DEF Makes
<1>7. MadeAs(N, h, l, a, cs)  BY <1>1, <1>6, MakesFacts
<1>8. /\ b # 0 => /\ b \in 1 .. Len(heap) /\ heap[b] \in Seq(Slots) /\ n \in 1 .. Len(heap[b])
                  /\ Len(heap[b]) \in Powers /\ Len(heap[b]) < 2 * n /\ \A i \in 1 .. n : heap[b][i] \in Conds
      /\ b = 0 => n = 0
    BY <1>1, <1>3, SliceFacts
<1>9. \A i \in 1 .. Len(cs) : cs[i].n <= 256 + N
    <2>1. \A i \in 1 .. n : q[i].n < 256 + N /\ q[i] \in Conds  BY <1>1, <1>3 DEF IInv, Numbered
    <2>2. \A i \in 1 .. n : q[i].n \in Nat  BY <2>1 DEF Conds
    <2>3. QED  BY <1>3, <1>4, <2>1, <2>2
<1>10. CASE InPlace(s, c, Appended(s, c))
    <2>1. /\ b # 0 /\ n < Len(heap[b]) /\ a.arr = b /\ Len(heap') = Len(heap)
          /\ \A d \in 1 .. Len(heap) : d # b => heap'[d] = heap[d]
          /\ Len(heap'[b]) = Len(heap[b]) /\ heap'[b][n + 1] = c
          /\ \A i \in 1 .. Len(heap[b]) : i # n + 1 => heap'[b][i] = heap[b][i]
        BY <1>1, <1>3, <1>10 DEF InPlace
    <2>2. Len(heap) \in Nat /\ Len(heap[b]) \in Nat /\ b \in 1 .. Len(heap)  BY <1>8, <2>1 DEF IInv, Typed
    <2>3. Stores(N, h, l, a, cs)
        <3>1. /\ heap' \in Seq(Seq(Slots)) /\ Len(cs) = a.len /\ a.arr \in 1 .. Len(heap') /\ a.arr = Of(h, l).arr
              /\ Len(cs) <= Len(Said(h, l)) + 1
            BY <1>1, <1>3, <1>4, <1>5, <2>1, <2>2
        <3>2. a.len \in 1 .. Len(heap'[a.arr]) /\ Len(heap'[a.arr]) \in Powers /\ Len(heap'[a.arr]) < 2 * a.len
            BY <1>4, <1>5, <1>8, <2>1, <2>2
        <3>3. \A i \in 1 .. n + 1 : heap'[a.arr][i] \in Conds
            <4>1. ASSUME NEW i \in 1 .. n PROVE heap'[a.arr][i] \in Conds
                <5>1. i \in 1 .. Len(heap[b]) /\ i # n + 1 /\ heap[b][i] \in Conds  BY <1>4, <1>8, <2>1, <2>2
                <5>2. QED  BY <2>1, <5>1
            <4>2. \A i \in 1 .. n + 1 : i \in 1 .. n \/ i = n + 1  BY <1>4
            <4>3. QED  BY <1>3, <2>1, <4>1, <4>2
        <3>4. \A d \in 1 .. Len(heap) : d \in 1 .. Len(heap') /\ (d # a.arr => heap'[d] = heap[d])
            BY <2>1
        <3>5. \A i \in 1 .. Len(heap[a.arr]) : heap[a.arr][i] \in Conds => heap'[a.arr][i] \in Conds
            BY <1>3, <2>1
        <3>6. Len(heap'[a.arr]) = Len(heap[a.arr])  BY <2>1
        <3>7. QED  BY <1>5, <1>9, <3>1, <3>2, <3>3, <3>4, <3>5, <3>6 DEF Stores
    <2>4. Agree(N, l, a)
        <3>1. CASE \E j \in 1 .. N : Of(j, l).arr = b /\ ~Clear(j, l)
            <4>1. PICK j \in 1 .. N : Of(j, l).arr = b /\ ~Clear(j, l)  BY <3>1
            <4>2. a.arr = Of(h, l).arr /\ a.arr # 0 /\ Of(j, l).arr = a.arr  BY <1>1, <2>1, <4>1
            <4>3. QED  BY <1>1, <1>3, <1>4, <1>7, <4>1, <4>2, SpoiltAgree
        <3>2. CASE \A j \in 1 .. N : Of(j, l).arr = b => Clear(j, l)
            <4>1. CASE \E j \in 1 .. N : Of(j, l).arr = b /\ n < Of(j, l).len
                <5>1. PICK j \in 1 .. N : Of(j, l).arr = b /\ n < Of(j, l).len  BY <4>1
                <5>2. PICK t : t = Said(j, l)  OBVIOUS
                <5>3. PICK r : r = q  OBVIOUS
                <5>4. t \in Seq(Conds) /\ Len(t) = Of(j, l).len /\ Of(j, l).len \in Nat  BY <1>1, <1>3, <5>2, SliceFacts DEF Slices
                <5>5. \A i \in 1 .. n : t[i] = q[i]
                    <6>1. \A i \in 1 .. n : heap[b][i] = q[i]  BY <1>1, <1>3, <3>2 DEF Clear
                    <6>2. \A i \in 1 .. Len(t) : heap[b][i] = t[i]  BY <1>1, <3>2, <5>1, <5>2, <5>4 DEF Clear
                    <6>3. QED  BY <1>4, <5>1, <5>4, <6>1, <6>2
                <5>6. GoesOn(t, q)  BY <1>3, <5>1, <5>4, <5>5, Extends
                <5>7. t # cs
                    <6>0. n + 1 \in 1 .. Len(t)  BY <1>4, <5>1, <5>4
                    <6>1. t[n + 1].n < 256 + N /\ t[n + 1] \in Conds  BY <1>1, <1>3, <5>2, <5>4, <6>0 DEF IInv, Numbered
                    <6>2. t[n + 1].n \in Nat  BY <6>1 DEF Conds
                    <6>3. QED  BY <1>3, <1>4, <6>1, <6>2
                <5>8. t \in Contents(l)' /\ cs \in Contents(l)'
                    <6>1. t \in Contents(l)  BY <1>1, <5>2 DEF Contents, Said
                    <6>2. N + 1 \in 1 .. Number' /\ given'[N + 1].lists[l] = cs  BY <1>3, <1>7 DEF MadeAs
                    <6>3. cs \in Contents(l)'  BY <6>2 DEF Contents
                    <6>4. Contents(l) \subseteq Contents(l)'  BY <1>1, <1>3, <1>7, ContentsKept
                    <6>5. QED  BY <6>1, <6>3, <6>4
                <5>9. Contended(l, r)'  BY <1>4, <5>3, <5>6, <5>7, <5>8 DEF Contended
                <5>10. Room(Len(r))  BY <1>3, <1>4, <1>8, <2>1, <5>3, InPlaceIsRoom
                <5>11. a.arr = Of(h, l).arr /\ a.arr # 0 /\ r = Said(h, l) /\ Elements(r) \subseteq Elements(cs)
                       /\ \A k \in 1 .. N : Of(k, l).arr = a.arr => Clear(k, l)
                    BY <1>1, <1>4, <2>1, <3>2, <5>3
                <5>12. QED  BY <1>1, <1>3, <1>7, <5>9, <5>10, <5>11, WitnessAgree
            <4>2. CASE \A j \in 1 .. N : Of(j, l).arr = b => ~(n < Of(j, l).len)
                <5>1. ASSUME NEW j \in 1 .. N, Of(j, l).arr = b PROVE Clear(j, l)'
                    <6>1. /\ Of(j, l).len \in Nat /\ Of(j, l).len \in 1 .. Len(heap[b])
                          /\ \A i \in 1 .. Of(j, l).len : heap[b][i] = Said(j, l)[i]
                        <7>1. j \in 1 .. Number /\ Of(j, l).arr # 0 /\ Of(j, l) \in Slices
                            BY <1>1, <1>3, <2>1, <5>1, SliceFacts
                        <7>2. Of(j, l).len \in 1 .. Len(heap[b])  BY <1>3, <5>1, <7>1, SliceFacts
                        <7>3. Of(j, l).len \in Nat  BY <7>1 DEF Slices
                        <7>4. \A i \in 1 .. Of(j, l).len : heap[b][i] = Said(j, l)[i]  BY <3>2, <5>1 DEF Clear
                        <7>5. QED  BY <7>2, <7>3, <7>4
                    <6>2. ASSUME NEW i \in 1 .. Of(j, l).len PROVE heap'[b][i] = heap[b][i]
                        <7>1. ~(n < Of(j, l).len)  BY <4>2, <5>1
                        <7>2. i \in 1 .. Len(heap[b]) /\ i # n + 1  BY <1>4, <2>2, <6>1, <7>1
                        <7>3. QED  BY <2>1, <7>2
                    <6>3. dbs'[j] = dbs[j] /\ given'[j] = given[j]  BY <1>7 DEF MadeAs
                    <6>4. QED  BY <5>1, <6>1, <6>2, <6>3 DEF Clear, Of, Said
                <5>2. Clear(N + 1, l)'
                    <6>1. \A i \in 1 .. n : heap[b][i] = q[i]  BY <1>1, <1>3, <3>2 DEF Clear
                    <6>2. \A i \in 1 .. n + 1 : heap'[b][i] = cs[i]  BY <1>4, <2>1, <2>2, <6>1
                    <6>3. dbs'[N + 1].lists[l] = a /\ given'[N + 1].lists[l] = cs  BY <1>7 DEF MadeAs
                    <6>4. QED  BY <1>5, <2>1, <6>2, <6>3 DEF Clear, Of, Said
                <5>3. QED  BY <2>1, <5>1, <5>2 DEF Agree
            <4>3. QED  BY <4>1, <4>2
        <3>3. QED  BY <3>1, <3>2
    <2>5. QED  BY <1>1, <1>6, <2>3, <2>4, MakesInv
<1>11. CASE InNew(s, c, Appended(s, c))
    <2>1. /\ a.arr = Len(heap) + 1 /\ Len(heap') = Len(heap) + 1
          /\ \A d \in 1 .. Len(heap) : heap'[d] = heap[d]
          /\ Len(heap'[a.arr]) \in Powers /\ n + 1 <= Len(heap'[a.arr]) /\ Len(heap'[a.arr]) < 2 * (n + 1)
          /\ heap'[a.arr][n + 1] = c /\ \A i \in 1 .. n : heap'[a.arr][i] = heap[b][i]
        BY <1>1, <1>3, <1>11 DEF InNew
    <2>2. Len(heap) \in Nat /\ Len(heap'[a.arr]) \in Nat  BY <2>1 DEF IInv, Typed, Powers
    <2>3. \A i \in 1 .. n + 1 : heap'[a.arr][i] \in Conds
        <3>1. ASSUME NEW i \in 1 .. n PROVE heap'[a.arr][i] \in Conds
            <4>1. b # 0  BY <1>4, <1>8
            <4>2. QED  BY <1>8, <2>1, <4>1
        <3>2. \A i \in 1 .. n + 1 : i \in 1 .. n \/ i = n + 1  BY <1>4
        <3>3. QED  BY <1>3, <2>1, <3>1, <3>2
    <2>4. Stores(N, h, l, a, cs)
        <3>1. /\ heap' \in Seq(Seq(Slots)) /\ Len(cs) = a.len /\ a.arr \in 1 .. Len(heap') /\ a.arr \notin 1 .. Len(heap)
              /\ Len(cs) <= Len(Said(h, l)) + 1
            <4>1. Len(cs) = a.len /\ Len(cs) <= Len(Said(h, l)) + 1  BY <1>3, <1>4, <1>5
            <4>2. a.arr \in 1 .. Len(heap') /\ a.arr \notin 1 .. Len(heap)  BY <2>1, <2>2
            <4>3. QED  BY <1>5, <4>1, <4>2
        <3>2. a.len \in 1 .. Len(heap'[a.arr]) /\ Len(heap'[a.arr]) \in Powers /\ Len(heap'[a.arr]) < 2 * a.len
            BY <1>4, <1>5, <2>1, <2>2
        <3>3. \A d \in 1 .. Len(heap) : d \in 1 .. Len(heap') /\ (d # a.arr => heap'[d] = heap[d])
            BY <2>1, <2>2
        <3>4. QED  BY <1>5, <1>9, <2>3, <3>1, <3>2, <3>3 DEF Stores
    <2>5. Witnessed(h, l) \/ Clear(N + 1, l)'
        <3>1. CASE b = 0 \/ Clear(h, l)
            <4>1. \A i \in 1 .. n : heap[b][i] = q[i]  BY <1>1, <1>8, <3>1 DEF Clear
            <4>2. \A i \in 1 .. n + 1 : heap'[a.arr][i] = cs[i]  BY <1>4, <2>1, <4>1
            <4>3. dbs'[N + 1].lists[l] = a /\ given'[N + 1].lists[l] = cs  BY <1>7 DEF MadeAs
            <4>4. QED  BY <1>5, <4>2, <4>3 DEF Clear, Of, Said
        <3>2. CASE b # 0 /\ ~Clear(h, l)  BY <1>1, <1>3, <3>2 DEF IInv, Shared
        <3>3. QED  BY <3>1, <3>2
    <2>6. Agree(N, l, a)  BY <1>1, <1>3, <1>4, <1>7, <2>1, <2>5, FreshAgree
    <2>7. QED  BY <1>1, <1>6, <2>4, <2>6, MakesInv
<1>12. QED  BY <1>5, <1>10, <1>11

\* A condition put in front of others.
LEMMA FrontFacts ==
    ASSUME NEW S, NEW q \in Seq(S), NEW c \in S
    PROVE  LET cs == <<c>> \o q
           IN  /\ cs \in Seq(S) /\ Len(q) \in Nat /\ Len(cs) = Len(q) + 1 /\ cs[1] = c /\ \A i \in 1 .. Len(q) : cs[i + 1] = q[i]
               /\ Tail(cs) = q /\ Elements(q) \subseteq Elements(cs)
<1> DEFINE cs == <<c>> \o q
<1>1. /\ cs \in Seq(S) /\ Len(q) \in Nat /\ Len(cs) = Len(q) + 1 /\ cs[1] = c /\ \A i \in 1 .. Len(q) : cs[i + 1] = q[i]
    OBVIOUS
<1> HIDE DEF cs
<1>2. Tail(cs) \in Seq(S) /\ Len(Tail(cs)) = Len(q) /\ \A i \in 1 .. Len(q) : Tail(cs)[i] = cs[i + 1]
    BY <1>1
<1>3. Tail(cs) = q  BY <1>1, <1>2
<1>4. Elements(q) \subseteq Elements(cs)
    <2>1. DOMAIN q = 1 .. Len(q) /\ DOMAIN cs = 1 .. Len(q) + 1  BY <1>1
    <2>2. \A i \in 1 .. Len(q) : i + 1 \in 1 .. Len(q) + 1 /\ cs[i + 1] = q[i]  BY <1>1
    <2>3. QED  BY <2>1, <2>2 DEF Elements
<1>5. QED  BY <1>1, <1>3, <1>4 DEF cs

LEMMA MovedFacts ==
    ASSUME NEW row \in Seq(Slots), NEW n \in Nat, n + 1 <= Len(row), NEW c \in Slots
    PROVE  LET m == Moved(row, n, c)
           IN  /\ m \in Seq(Slots) /\ Len(m) = Len(row) /\ m[1] = c /\ \A i \in 1 .. n : m[i + 1] = row[i]
               /\ \A i \in 1 .. Len(row) : i > n + 1 => m[i] = row[i]
<1> DEFINE m == Moved(row, n, c)
<1>1. Len(row) \in Nat /\ DOMAIN row = 1 .. Len(row)  OBVIOUS
<1>2. m = [i \in 1 .. Len(row) |-> IF i = 1 THEN c ELSE IF i <= n + 1 THEN row[i - 1] ELSE row[i]]
    BY <1>1 DEF Moved
<1> HIDE DEF m
<1>3. \A i \in 1 .. Len(row) : m[i] = (IF i = 1 THEN c ELSE IF i <= n + 1 THEN row[i - 1] ELSE row[i]) /\ m[i] \in Slots
    <2>1. ASSUME NEW i \in 1 .. Len(row)
          PROVE  m[i] = (IF i = 1 THEN c ELSE IF i <= n + 1 THEN row[i - 1] ELSE row[i]) /\ m[i] \in Slots
        <3>1. row[i] \in Slots  BY <1>1
        <3>2. i # 1 => i - 1 \in 1 .. Len(row)  BY <1>1
        <3>3. i # 1 => row[i - 1] \in Slots  BY <1>1, <3>2
        <3>4. QED  BY <1>2, <3>1, <3>3
    <2>2. QED  BY <2>1
<1>4. m \in Seq(Slots) /\ Len(m) = Len(row)  BY <1>1, <1>2, <1>3
<1>5. m[1] = c  BY <1>1, <1>3
<1>6. ASSUME NEW i \in 1 .. n PROVE m[i + 1] = row[i]
    <2>1. i + 1 \in 1 .. Len(row) /\ i + 1 # 1 /\ i + 1 <= n + 1 /\ i + 1 - 1 = i  BY <1>1
    <2>2. m[i + 1] = row[i + 1 - 1]  BY <1>3, <2>1
    <2>3. QED  BY <2>1, <2>2
<1>7. ASSUME NEW i \in 1 .. Len(row), i > n + 1 PROVE m[i] = row[i]  BY <1>1, <1>3, <1>7
<1>8. QED  BY <1>4, <1>5, <1>6, <1>7 DEF m

LEMMA KeyInFrontInv ==
    ASSUME IInv, NEW h \in 1 .. Number, KeyInFront(h)
    PROVE  IInv'
<1> DEFINE l == "where"
           s == Of(h, l)
           q == Said(h, l)
<1>1. PICK N, c, a, n, b, old : /\ N = Number /\ c = Cond("plain") /\ a = Appended(s, Nil).slice /\ n = s.len /\ b = s.arr
                                /\ old = Appended(s, Nil).heap
    OBVIOUS
<1>2. PICK cs, told : cs = <<c>> \o q /\ told = <<[list |-> l, cond |-> c]>>  OBVIOUS
<1>3. /\ h \in 1 .. N /\ l \in Lists /\ More /\ c \in Conds /\ c \in Slots /\ c.n = 256 + N /\ q \in Seq(Conds) /\ Len(q) = n
      /\ heap' = [old EXCEPT ![a.arr] = Moved(@, n, c)] /\ N \in Nat
    <2>1. h \in 1 .. N /\ l \in Lists  BY <1>1 DEF Lists
    <2>2. More /\ heap' = [old EXCEPT ![a.arr] = Moved(@, n, c)]  BY <1>1 DEF KeyInFront, Of
    <2>3. "plain" \in Kinds("where")  BY DEF Kinds
    <2>4. c \in Conds /\ c \in Slots /\ c.n = 256 + N  BY <1>1, <2>1, <2>3, CondFacts
    <2>5. q \in Seq(Conds) /\ Len(q) = n /\ N \in Nat  BY <1>1, <2>1, SliceFacts
    <2>6. QED  BY <2>1, <2>2, <2>4, <2>5
<1>4. /\ cs \in Seq(Conds) /\ Len(cs) = n + 1 /\ cs[1] = c /\ \A i \in 1 .. n : cs[i + 1] = q[i]
      /\ Elements(q) \subseteq Elements(cs) /\ Tail(cs) = q /\ n \in Nat
    BY <1>2, <1>3, FrontFacts
<1>5. a \in Slices /\ a.len = n + 1 /\ old \in Seq(Seq(Slots))
      /\ (InPlace(s, Nil, Appended(s, Nil)) \/ InNew(s, Nil, Appended(s, Nil)))
    <2>1. Nil \in Slots  BY DEF Slots
    <2>2. QED  BY <1>1, <1>3, <2>1, AppendedFacts
<1>6. Makes(h, l, a, cs, told)
    <2>1. told \in Told  BY <1>2, <1>3 DEF Told
    <2>2. Clone(dbs[h], l, a) /\ Gives(h, l, cs, told) /\ extras' = extras
        BY <1>1, <1>2 DEF KeyInFront, Of, Said
    <2>3. QED  BY <1>1, <1>3, <1>4, <1>5, <2>1, <2>2 DEF Makes
<1>7. MadeAs(N, h, l, a, cs)  BY <1>1, <1>6, MakesFacts
<1>8. /\ b # 0 => /\ b \in 1 .. Len(heap) /\ heap[b] \in Seq(Slots) /\ n \in 1 .. Len(heap[b])
                  /\ Len(heap[b]) \in Powers /\ Len(heap[b]) < 2 * n /\ \A i \in 1 .. n : heap[b][i] \in Conds
      /\ b = 0 => n = 0
    BY <1>1, <1>3, SliceFacts
<1>9. \A i \in 1 .. Len(cs) : cs[i].n <= 256 + N
    <2>1. \A i \in 1 .. n : q[i].n < 256 + N /\ q[i] \in Conds  BY <1>1, <1>3 DEF IInv, Numbered
    <2>2. \A i \in 1 .. n : q[i].n \in Nat  BY <2>1 DEF Conds
    <2>3. ASSUME NEW i \in 1 .. n + 1 PROVE cs[i].n <= 256 + N
        <3>1. CASE i = 1  BY <1>3, <1>4, <3>1
        <3>2. CASE i # 1
            <4>1. i - 1 \in 1 .. n /\ i - 1 + 1 = i  BY <1>4, <3>2
            <4>2. cs[i] = q[i - 1]  BY <1>4, <4>1
            <4>3. QED  BY <1>3, <2>1, <2>2, <4>1, <4>2
        <3>3. QED  BY <3>1, <3>2
    <2>4. QED  BY <1>4, <2>3
\* What the array of the new slice has then, given what append has made of it.
<1>10. ASSUME a.arr \in 1 .. Len(old), n + 1 <= Len(old[a.arr])
       PROVE  /\ heap' \in Seq(Seq(Slots)) /\ Len(heap') = Len(old)
              /\ \A d \in 1 .. Len(old) : d # a.arr => heap'[d] = old[d]
              /\ Len(heap'[a.arr]) = Len(old[a.arr]) /\ heap'[a.arr][1] = c
              /\ \A i \in 1 .. n : heap'[a.arr][i + 1] = old[a.arr][i]
              /\ \A i \in 1 .. Len(old[a.arr]) : i > n + 1 => heap'[a.arr][i] = old[a.arr][i]
    <2> DEFINE row == Moved(old[a.arr], n, c)
    <2>1. old[a.arr] \in Seq(Slots)  BY <1>5, <1>10
    <2>2. /\ row \in Seq(Slots) /\ Len(row) = Len(old[a.arr]) /\ row[1] = c /\ \A i \in 1 .. n : row[i + 1] = old[a.arr][i]
          /\ \A i \in 1 .. Len(old[a.arr]) : i > n + 1 => row[i] = old[a.arr][i]
        <3>1. n \in Nat /\ n + 1 <= Len(old[a.arr]) /\ c \in Slots  BY <1>3, <1>4, <1>10
        <3>2. QED  BY <2>1, <3>1, MovedFacts
    <2>3. heap' = [old EXCEPT ![a.arr] = row]  BY <1>3
    <2> HIDE DEF row
    <2>4. heap' \in Seq(Seq(Slots)) /\ Len(heap') = Len(old) /\ heap'[a.arr] = row
          /\ \A d \in 1 .. Len(old) : d # a.arr => heap'[d] = old[d]
        <3>1. old \in Seq(Seq(Slots)) /\ a.arr \in 1 .. Len(old)  BY <1>5, <1>10
        <3>2. row \in Seq(Slots)  BY <2>2
        <3>3. QED  BY <2>3, <3>1, <3>2
    <2>5. QED  BY <2>2, <2>4
<1>11. CASE InPlace(s, Nil, Appended(s, Nil))
    <2>1. /\ b # 0 /\ n < Len(heap[b]) /\ a.arr = b /\ Len(old) = Len(heap)
          /\ \A d \in 1 .. Len(heap) : d # b => old[d] = heap[d]
          /\ Len(old[b]) = Len(heap[b])
          /\ \A i \in 1 .. Len(heap[b]) : i # n + 1 => old[b][i] = heap[b][i]
        BY <1>1, <1>11 DEF InPlace
    <2>2. Len(heap) \in Nat /\ Len(heap[b]) \in Nat /\ b \in 1 .. Len(heap) /\ n + 1 <= Len(heap[b])
        BY <1>4, <1>8, <2>1 DEF IInv, Typed
    <2>3. /\ heap' \in Seq(Seq(Slots)) /\ Len(heap') = Len(heap)
          /\ \A d \in 1 .. Len(heap) : d # b => heap'[d] = heap[d]
          /\ Len(heap'[b]) = Len(heap[b]) /\ heap'[b][1] = c
          /\ \A i \in 1 .. n : heap'[b][i + 1] = heap[b][i]
          /\ \A i \in 1 .. Len(heap[b]) : i > n + 1 => heap'[b][i] = heap[b][i]
        <3>1. \A i \in 1 .. n : i \in 1 .. Len(heap[b]) /\ i # n + 1  BY <1>4, <2>1, <2>2
        <3>2. \A i \in 1 .. Len(heap[b]) : i > n + 1 => i # n + 1  BY <1>4
        <3>3. QED  BY <1>10, <2>1, <2>2, <3>1, <3>2
    <2>4. \A i \in 1 .. n + 1 : heap'[b][i] \in Conds
        <3>1. ASSUME NEW i \in 1 .. n + 1, i # 1 PROVE heap'[b][i] \in Conds
            <4>1. i - 1 \in 1 .. n /\ i - 1 + 1 = i  BY <1>4, <3>1
            <4>2. heap'[b][i] = heap[b][i - 1]  BY <2>3, <4>1
            <4>3. QED  BY <1>8, <2>1, <4>1, <4>2
        <3>2. QED  BY <1>3, <2>3, <3>1
    <2>5. Stores(N, h, l, a, cs)
        <3>1. /\ Len(cs) = a.len /\ a.arr \in 1 .. Len(heap') /\ a.arr = Of(h, l).arr
              /\ Len(cs) <= Len(Said(h, l)) + 1
            <4>1. Len(cs) = a.len /\ Len(cs) <= Len(Said(h, l)) + 1  BY <1>3, <1>4, <1>5
            <4>2. a.arr \in 1 .. Len(heap')  BY <2>1, <2>2, <2>3
            <4>3. a.arr = Of(h, l).arr  BY <1>1, <2>1
            <4>4. QED  BY <4>1, <4>2, <4>3
        <3>2. a.len \in 1 .. Len(heap'[a.arr]) /\ Len(heap'[a.arr]) \in Powers /\ Len(heap'[a.arr]) < 2 * a.len
            BY <1>4, <1>5, <1>8, <2>1, <2>2, <2>3
        <3>3. \A d \in 1 .. Len(heap) : d \in 1 .. Len(heap') /\ (d # a.arr => heap'[d] = heap[d])
            BY <2>1, <2>3
        <3>4. \A i \in 1 .. Len(heap[a.arr]) : heap[a.arr][i] \in Conds => heap'[a.arr][i] \in Conds
            <4>1. ASSUME NEW i \in 1 .. Len(heap[b]), heap[b][i] \in Conds PROVE heap'[b][i] \in Conds
                <5>1. i \in 1 .. n + 1 \/ i > n + 1  BY <1>4
                <5>2. QED  BY <2>3, <2>4, <4>1, <5>1
            <4>2. QED  BY <2>1, <4>1
        <3>5. Len(heap'[a.arr]) = Len(heap[a.arr])  BY <2>1, <2>3
        <3>6. \A i \in 1 .. a.len : heap'[a.arr][i] \in Conds  BY <1>5, <2>1, <2>4
        <3>7. QED  BY <1>9, <2>3, <3>1, <3>2, <3>3, <3>4, <3>5, <3>6 DEF Stores
    <2>6. Agree(N, l, a)
        <3>1. CASE \E j \in 1 .. N : Of(j, l).arr = b /\ ~Clear(j, l)
            <4>1. PICK j \in 1 .. N : Of(j, l).arr = b /\ ~Clear(j, l)  BY <3>1
            <4>2. a.arr = Of(h, l).arr /\ a.arr # 0 /\ Of(j, l).arr = a.arr  BY <1>1, <2>1, <4>1
            <4>3. QED  BY <1>1, <1>3, <1>4, <1>7, <4>1, <4>2, SpoiltAgree
        <3>2. CASE \A j \in 1 .. N : Of(j, l).arr = b => Clear(j, l)
            <4>1. PICK r : r = q  OBVIOUS
            <4>2. cs \in Contents(l)'
                <5>1. N + 1 \in 1 .. Number' /\ given'[N + 1].lists[l] = cs  BY <1>3, <1>7 DEF MadeAs
                <5>2. QED  BY <5>1 DEF Contents
            <4>3. Contended(l, r)'  BY <1>3, <1>4, <4>1, <4>2 DEF Contended
            <4>4. Room(Len(r))  BY <1>3, <1>4, <1>8, <2>1, <4>1, InPlaceIsRoom
            <4>5. a.arr = Of(h, l).arr /\ a.arr # 0 /\ r = Said(h, l) /\ Elements(r) \subseteq Elements(cs)
                  /\ \A k \in 1 .. N : Of(k, l).arr = a.arr => Clear(k, l)
                BY <1>1, <1>4, <2>1, <3>2, <4>1
            <4>6. QED  BY <1>1, <1>3, <1>7, <4>3, <4>4, <4>5, WitnessAgree
        <3>3. QED  BY <3>1, <3>2
    <2>7. QED  BY <1>1, <1>6, <2>5, <2>6, MakesInv
<1>12. CASE InNew(s, Nil, Appended(s, Nil))
    <2>1. /\ a.arr = Len(heap) + 1 /\ Len(old) = Len(heap) + 1
          /\ \A d \in 1 .. Len(heap) : old[d] = heap[d]
          /\ Len(old[a.arr]) \in Powers /\ n + 1 <= Len(old[a.arr]) /\ Len(old[a.arr]) < 2 * (n + 1)
          /\ \A i \in 1 .. n : old[a.arr][i] = heap[b][i]
        BY <1>1, <1>12 DEF InNew
    <2>2. Len(heap) \in Nat /\ Len(old[a.arr]) \in Nat /\ a.arr \in 1 .. Len(old)  BY <2>1 DEF IInv, Typed, Powers
    <2>3. /\ heap' \in Seq(Seq(Slots)) /\ Len(heap') = Len(heap) + 1
          /\ \A d \in 1 .. Len(heap) : heap'[d] = heap[d]
          /\ Len(heap'[a.arr]) = Len(old[a.arr]) /\ heap'[a.arr][1] = c
          /\ \A i \in 1 .. n : heap'[a.arr][i + 1] = heap[b][i]
        BY <1>10, <2>1, <2>2
    <2>4. \A i \in 1 .. n + 1 : heap'[a.arr][i] \in Conds
        <3>1. ASSUME NEW i \in 1 .. n + 1, i # 1 PROVE heap'[a.arr][i] \in Conds
            <4>1. i - 1 \in 1 .. n /\ i - 1 + 1 = i /\ n # 0  BY <1>4, <3>1
            <4>2. heap'[a.arr][i] = heap[b][i - 1]  BY <2>3, <4>1
            <4>3. QED  BY <1>8, <4>1, <4>2
        <3>2. QED  BY <1>3, <2>3, <3>1
    <2>5. Stores(N, h, l, a, cs)
        <3>1. /\ Len(cs) = a.len /\ a.arr \in 1 .. Len(heap') /\ a.arr \notin 1 .. Len(heap)
              /\ Len(cs) <= Len(Said(h, l)) + 1
            <4>1. Len(cs) = a.len /\ Len(cs) <= Len(Said(h, l)) + 1  BY <1>3, <1>4, <1>5
            <4>2. a.arr \in 1 .. Len(heap') /\ a.arr \notin 1 .. Len(heap)  BY <2>1, <2>2, <2>3
            <4>3. QED  BY <4>1, <4>2
        <3>2. a.len \in 1 .. Len(heap'[a.arr]) /\ Len(heap'[a.arr]) \in Powers /\ Len(heap'[a.arr]) < 2 * a.len
            BY <1>4, <1>5, <2>1, <2>2, <2>3
        <3>3. \A d \in 1 .. Len(heap) : d \in 1 .. Len(heap') /\ (d # a.arr => heap'[d] = heap[d])
            BY <2>2, <2>3
        <3>4. QED  BY <1>5, <1>9, <2>3, <2>4, <3>1, <3>2, <3>3 DEF Stores
    <2>6. Witnessed(h, l) \/ Clear(N + 1, l)'
        <3>1. CASE b = 0 \/ Clear(h, l)
            <4>1. \A i \in 1 .. n : heap[b][i] = q[i]  BY <1>1, <1>8, <3>1 DEF Clear
            <4>2. ASSUME NEW i \in 1 .. n + 1 PROVE heap'[a.arr][i] = cs[i]
                <5>1. CASE i = 1  BY <1>4, <2>3, <5>1
                <5>2. CASE i # 1
                    <6>1. i - 1 \in 1 .. n /\ i - 1 + 1 = i  BY <1>4, <5>2
                    <6>2. heap'[a.arr][i] = heap[b][i - 1]  BY <2>3, <6>1
                    <6>3. cs[i] = q[i - 1]  BY <1>4, <6>1
                    <6>4. QED  BY <4>1, <6>1, <6>2, <6>3
                <5>3. QED  BY <5>1, <5>2
            <4>3. dbs'[N + 1].lists[l] = a /\ given'[N + 1].lists[l] = cs  BY <1>7 DEF MadeAs
            <4>4. QED  BY <1>5, <4>2, <4>3 DEF Clear, Of, Said
        <3>2. CASE b # 0 /\ ~Clear(h, l)  BY <1>1, <1>3, <3>2 DEF IInv, Shared
        <3>3. QED  BY <3>1, <3>2
    <2>7. Agree(N, l, a)
        <3>1. N = Number /\ l \in Lists /\ a.arr = Len(heap) + 1  BY <1>1, <1>3, <2>1
        <3>2. Elements(Said(h, l)) \subseteq Elements(cs)  BY <1>4
        <3>3. QED  BY <1>7, <2>6, <3>1, <3>2, FreshAgree
    <2>8. QED  BY <1>1, <1>6, <2>5, <2>7, MakesInv
<1>13. QED  BY <1>5, <1>11, <1>12

LEMMA ReorderInv ==
    ASSUME IInv, NEW h \in 1 .. Number, Reorder(h)
    PROVE  IInv'
<1> DEFINE l == "orders"
<1>1. PICK N, c, a, cs : N = Number /\ c = Cond("plain") /\ a = [arr |-> Len(heap) + 1, len |-> 1] /\ cs = <<c>>
    OBVIOUS
<1>2. h \in 1 .. N /\ l \in Lists /\ N \in Nat  BY <1>1, SliceFacts DEF Lists
<1>3. c \in Conds /\ c \in Slots /\ c.n = 256 + N
    <2>1. "plain" \in Kinds("orders")  BY DEF Kinds
    <2>2. QED  BY <1>1, <1>2, <2>1, CondFacts
<1>4. More /\ heap' = Append(heap, cs) /\ Clone(dbs[h], l, a) /\ Gives(h, l, cs, <<>>) /\ extras' = extras
    BY <1>1 DEF Reorder
<1>5. heap \in Seq(Seq(Slots)) /\ Len(heap) \in Nat /\ a \in Slices /\ a.arr = Len(heap) + 1 /\ a.len = 1
    <2>1. heap \in Seq(Seq(Slots))  BY DEF IInv, Typed
    <2>2. QED  BY <1>1, <2>1 DEF Slices
<1>6. cs \in Seq(Conds) /\ cs \in Seq(Slots) /\ Len(cs) = 1 /\ cs[1] = c  BY <1>1, <1>3
<1>7. <<>> \in Told  BY DEF Told
<1>8. Makes(h, l, a, cs, <<>>)  BY <1>1, <1>2, <1>4, <1>5, <1>6, <1>7 DEF Makes
<1>9. MadeAs(N, h, l, a, cs)  BY <1>1, <1>8, MakesFacts
<1>10. /\ heap' \in Seq(Seq(Slots)) /\ Len(heap') = Len(heap) + 1 /\ heap'[a.arr] = cs
       /\ \A d \in 1 .. Len(heap) : heap'[d] = heap[d]
    BY <1>4, <1>5, <1>6
<1>11. Stores(N, h, l, a, cs)
    <2>1. Len(cs) = a.len /\ a.arr \in 1 .. Len(heap') /\ a.arr \notin 1 .. Len(heap)  BY <1>5, <1>6, <1>10
    <2>2. Len(cs) <= Len(Said(h, l)) + 1
        <3>1. Len(Said(h, l)) \in Nat  BY <1>1, <1>2, SliceFacts
        <3>2. QED  BY <1>6, <3>1
    <2>3. a.len \in 1 .. Len(heap'[a.arr]) /\ Len(heap'[a.arr]) \in Powers /\ Len(heap'[a.arr]) < 2 * a.len
        <3>1. Len(heap'[a.arr]) = 1 /\ a.len = 1  BY <1>5, <1>6, <1>10
        <3>2. QED  BY <3>1 DEF Powers
    <2>4. \A i \in 1 .. a.len : heap'[a.arr][i] \in Conds  BY <1>3, <1>5, <1>6, <1>10
    <2>5. \A i \in 1 .. Len(cs) : cs[i].n <= 256 + N  BY <1>2, <1>3, <1>6
    <2>6. \A d \in 1 .. Len(heap) : d \in 1 .. Len(heap') /\ (d # a.arr => heap'[d] = heap[d])  BY <1>5, <1>10
    <2>7. QED  BY <1>10, <2>1, <2>2, <2>3, <2>4, <2>5, <2>6 DEF Stores
<1>12. Clear(N + 1, l)'
    <2>1. dbs'[N + 1].lists[l] = a /\ given'[N + 1].lists[l] = cs  BY <1>9 DEF MadeAs
    <2>2. QED  BY <1>5, <1>10, <2>1 DEF Clear, Of, Said
<1>13. Agree(N, l, a)  BY <1>1, <1>2, <1>5, <1>9, <1>12, FreshAgree
<1>14. QED  BY <1>1, <1>8, <1>11, <1>13, MakesInv

LEMMA ExtraSelectInv ==
    ASSUME IInv, NEW h \in 1 .. Number, ExtraSelect(h)
    PROVE  IInv'
<1>1. PICK N, c, p, e, xs, mine : /\ N = Number /\ c = Cond("plain") /\ p = dbs[h].extra
                                  /\ e = (IF p = 0 THEN Len(extras) + 1 ELSE p)
                                  /\ mine = given[h].extra /\ xs = (IF p = 0 THEN <<c>> ELSE Append(extras[p], c))
    OBVIOUS
<1> DEFINE D == [lists : [Lists -> Slices], extra : Nat]
           d == [dbs[h] EXCEPT !.extra = e]
           g == [given[h] EXCEPT !.extra = Append(mine, c)]
<1>2. /\ dbs \in Seq(D) /\ given \in Seq(Givens) /\ extras \in Seq(Seq(Conds)) /\ heap \in Seq(Seq(Slots))
      /\ Len(dbs) = N /\ Len(given) = N /\ N \in Nat /\ h \in 1 .. N /\ N > 0
    BY <1>1 DEF IInv, Typed, Number
<1>3. dbs[h] \in D /\ given[h] \in Givens /\ mine \in Seq(Conds) /\ p \in Nat
    <2>1. dbs[h] \in D /\ given[h] \in Givens
        <3>1. "where" \in Lists  BY DEF Lists
        <3>2. QED  BY <3>1, SliceFacts
    <2>2. QED  BY <1>1, <2>1 DEF Givens
<1>4. c \in Conds
    <2>1. "where" \in Lists /\ "plain" \in Kinds("where")  BY DEF Lists, Kinds
    <2>2. QED  BY <1>1, <2>1, CondFacts
<1>5. /\ heap' = heap /\ dbs' = Append(dbs, d) /\ given' = Append(given, g)
      /\ extras' = (IF p = 0 THEN Append(extras, xs) ELSE [extras EXCEPT ![p] = xs])
    BY <1>1 DEF ExtraSelect
<1>6. p # 0 => p \in 1 .. Len(extras) /\ mine # <<>> /\ extras[p] \in Seq(Conds) /\ extras[p] # <<>> /\ extras[p][1] = mine[1]
               /\ Elements(mine) \subseteq Elements(extras[p])
    <2>1. p # 0 => p \in 1 .. Len(extras) /\ mine # <<>> /\ extras[p] # <<>> /\ extras[p][1] = mine[1]
                   /\ Elements(mine) \subseteq Elements(extras[p])
        BY <1>1 DEF IInv, ExtraFits
    <2>2. QED  BY <1>2, <2>1
<1>7. p = 0 => mine = <<>>  BY <1>1 DEF IInv, ExtraFits
<1>8. /\ Append(mine, c) \in Seq(Conds) /\ Append(mine, c) # <<>> /\ Elements(Append(mine, c)) = Elements(mine) \cup {c}
      /\ mine # <<>> => Append(mine, c)[1] = mine[1]
      /\ mine = <<>> => Append(mine, c)[1] = c
    <2>1. ASSUME NEW q \in Seq(Conds)
          PROVE  /\ Append(q, c) \in Seq(Conds) /\ Append(q, c) # <<>> /\ Elements(Append(q, c)) = Elements(q) \cup {c}
                 /\ q # <<>> => Append(q, c)[1] = q[1]
                 /\ q = <<>> => Append(q, c)[1] = c
        <3>1. /\ Append(q, c) \in Seq(Conds) /\ Len(q) \in Nat /\ Len(Append(q, c)) = Len(q) + 1 /\ Append(q, c)[Len(q) + 1] = c
              /\ \A i \in 1 .. Len(q) : Append(q, c)[i] = q[i]
            BY <1>4
        <3>2. DOMAIN q = 1 .. Len(q) /\ DOMAIN Append(q, c) = 1 .. Len(q) + 1  BY <3>1
        <3>3. Elements(Append(q, c)) = Elements(q) \cup {c}
            <4>1. \A i \in 1 .. Len(q) + 1 : i \in 1 .. Len(q) \/ i = Len(q) + 1  BY <3>1
            <4>2. QED  BY <3>1, <3>2, <4>1 DEF Elements
        <3>4. QED  BY <3>1, <3>3
    <2>2. QED  BY <1>3, <2>1
<1>9. /\ xs \in Seq(Conds) /\ xs # <<>> /\ xs[1] = Append(mine, c)[1] /\ Elements(Append(mine, c)) \subseteq Elements(xs)
      /\ p # 0 => Elements(xs) = Elements(extras[p]) \cup {c} /\ xs[1] = extras[p][1]
      /\ p = 0 => Elements(xs) = {c}
    <2>1. CASE p = 0
        <3>1. xs = Append(mine, c) /\ Elements(mine) = {}  BY <1>1, <1>7, <2>1 DEF Elements
        <3>2. QED  BY <1>7, <1>8, <2>1, <3>1
    <2>2. CASE p # 0
        <3>1. /\ xs = Append(extras[p], c) /\ extras[p] \in Seq(Conds) /\ extras[p] # <<>>  BY <1>1, <1>6, <2>2
        <3>2. Len(extras[p]) \in Nat /\ Len(extras[p]) > 0  BY <3>1
        <3>3. /\ xs \in Seq(Conds) /\ Len(xs) = Len(extras[p]) + 1 /\ xs[Len(extras[p]) + 1] = c
              /\ \A i \in 1 .. Len(extras[p]) : xs[i] = extras[p][i]
            BY <1>4, <3>1, <3>2
        <3>4. DOMAIN xs = 1 .. Len(extras[p]) + 1 /\ DOMAIN extras[p] = 1 .. Len(extras[p])  BY <3>1, <3>3
        <3>5. \A i \in 1 .. Len(extras[p]) + 1 : i \in 1 .. Len(extras[p]) \/ i = Len(extras[p]) + 1  BY <3>2
        <3>6. Elements(xs) = Elements(extras[p]) \cup {c}  BY <3>2, <3>3, <3>4, <3>5 DEF Elements
        <3>7. xs[1] = extras[p][1] /\ xs # <<>>  BY <3>2, <3>3
        <3>8. QED  BY <1>6, <1>8, <2>2, <3>3, <3>6, <3>7
    <2>3. QED  BY <2>1, <2>2
<1>10. /\ extras' \in Seq(Seq(Conds)) /\ e \in 1 .. Len(extras') /\ extras'[e] = xs /\ Len(extras) <= Len(extras')
       /\ \A i \in 1 .. Len(extras) : i # e => extras'[i] = extras[i]
       /\ Len(extras) \in Nat /\ e # 0
    <2>1. CASE p = 0  BY <1>1, <1>2, <1>5, <1>9, <2>1
    <2>2. CASE p # 0
        <3>1. e = p /\ extras' = [extras EXCEPT ![p] = xs]  BY <1>1, <1>5, <2>2
        <3>2. extras \in Seq(Seq(Conds)) /\ p \in 1 .. Len(extras) /\ xs \in Seq(Conds)  BY <1>2, <1>6, <1>9, <2>2
        <3>3. /\ extras' \in Seq(Seq(Conds)) /\ Len(extras') = Len(extras) /\ Len(extras) \in Nat
              /\ extras'[p] = xs /\ \A i \in 1 .. Len(extras) : i # p => extras'[i] = extras[i]
            BY <3>1, <3>2
        <3>4. QED  BY <2>2, <3>1, <3>2, <3>3
    <2>3. QED  BY <2>1, <2>2
<1>11. d \in D /\ d.extra = e /\ d.lists = dbs[h].lists
    <2>1. e \in Nat  BY <1>10
    <2>2. QED  BY <1>3, <2>1
<1>12. g \in Givens /\ g.extra = Append(mine, c) /\ g.lists = given[h].lists
    BY <1>3, <1>8 DEF Givens
<1> HIDE DEF d, g, D
<1>13. /\ dbs' \in Seq(D) /\ Len(dbs') = N + 1 /\ dbs'[N + 1] = d /\ \A k \in 1 .. N : dbs'[k] = dbs[k]
       /\ given' \in Seq(Givens) /\ Len(given') = N + 1 /\ given'[N + 1] = g /\ \A k \in 1 .. N : given'[k] = given[k]
       /\ Number' = N + 1
    BY <1>2, <1>5, <1>11, <1>12 DEF Number
<1> DEFINE From(k) == IF k <= N THEN k ELSE h
<1>14. \A k \in 1 .. N + 1 : /\ From(k) \in 1 .. N
                             /\ dbs'[k].lists = dbs[From(k)].lists /\ given'[k].lists = given[From(k)].lists
    BY <1>2, <1>11, <1>12, <1>13
<1>15. Typed'  BY <1>2, <1>5, <1>10, <1>13 DEF Typed, D
<1>16. \A k \in 1 .. N + 1 : \A l \in Lists : SliceFits(k, l)'
    <2>1. ASSUME NEW k \in 1 .. N + 1, NEW l \in Lists PROVE SliceFits(k, l)'
        <3>1. SliceFits(From(k), l)  BY <1>1, <1>14 DEF IInv
        <3>2. dbs'[k].lists[l] = Of(From(k), l) /\ given'[k].lists[l] = Said(From(k), l)  BY <1>14 DEF Of, Said
        <3>3. QED  BY <1>5, <3>1, <3>2 DEF SliceFits, Of, Said
    <2>2. QED  BY <2>1, SMTT(30)
<1>17. Numbered'
    <2>1. PICK m \in Common : \A k \in 1 .. N, l \in Lists : Len(Said(k, l)) < m + N  BY <1>1 DEF IInv, Numbered
    <2>2. ASSUME NEW k \in 1 .. N + 1, NEW l \in Lists
          PROVE  /\ \A i \in 1 .. Len(given'[k].lists[l]) : given'[k].lists[l][i].n < 256 + (N + 1)
                 /\ Len(given'[k].lists[l]) < m + (N + 1)
        <3> DEFINE q == Said(From(k), l)
        <3>1. given'[k].lists[l] = q /\ From(k) \in 1 .. N  BY <1>14 DEF Said
        <3>2. q \in Seq(Conds) /\ Len(q) < m + N /\ \A i \in 1 .. Len(q) : q[i].n < 256 + N
            BY <1>1, <2>1, <3>1, SliceFacts DEF IInv, Numbered
        <3> HIDE DEF q
        <3>3. \A i \in 1 .. Len(q) : q[i] \in Conds  BY <3>2
        <3>4. \A i \in 1 .. Len(q) : q[i].n \in Nat  BY <3>3 DEF Conds
        <3>5. Len(q) \in Nat /\ m \in Nat  BY <3>2, ChainAssumption
        <3>6. QED  BY <1>2, <3>1, <3>2, <3>4, <3>5
    <2>3. QED  BY <1>13, <2>2 DEF Numbered, Said
<1>18. \A l \in Lists : Contents(l) \subseteq Contents(l)'
    <2>1. SUFFICES ASSUME NEW l \in Lists, NEW k \in 1 .. N PROVE given[k].lists[l] \in Contents(l)'
        BY <1>1 DEF Contents
    <2>2. given'[k].lists[l] = given[k].lists[l] /\ k \in 1 .. N + 1  BY <1>2, <1>13
    <2>3. QED  BY <1>13, <2>2 DEF Contents
<1>19. Shared'
    <2>1. ASSUME NEW j \in 1 .. N + 1, NEW k \in 1 .. N + 1, NEW l \in Lists, NEW m \in Lists,
                 dbs'[j].lists[l].arr = dbs'[k].lists[m].arr, dbs'[j].lists[l].arr # 0
          PROVE  l = m /\ (Witnessed(j, l)' \/ Clear(k, m)')
        <3>1. /\ From(j) \in 1 .. N /\ From(k) \in 1 .. N
              /\ dbs'[j].lists[l] = Of(From(j), l) /\ given'[j].lists[l] = Said(From(j), l)
              /\ dbs'[k].lists[m] = Of(From(k), m) /\ given'[k].lists[m] = Said(From(k), m)
            BY <1>14 DEF Of, Said
        <3>2. l = m /\ (Witnessed(From(j), l) \/ Clear(From(k), m))  BY <1>1, <2>1, <3>1 DEF IInv, Shared
        <3>3. ASSUME Witnessed(From(j), l) PROVE Witnessed(j, l)'  BY <1>18, <3>1, <3>3, WitnessKept
        <3>4. ASSUME Clear(From(k), m) PROVE Clear(k, m)'  BY <1>5, <3>1, <3>4 DEF Clear, Of, Said
        <3>5. QED  BY <3>2, <3>3, <3>4
    <2>2. QED  BY <1>13, <2>1 DEF Shared, Of
<1>20. ASSUME NEW k \in 1 .. N + 1 PROVE ExtraFits(k)'
    <2>1. N + 1 \in 1 .. N + 1 /\ \A j \in 1 .. N : j \in 1 .. N + 1  BY <1>2
    <2>2. dbs'[N + 1].extra = e /\ given'[N + 1].extra = Append(mine, c)  BY <1>11, <1>12, <1>13
    \* All that the new pointer points at was said by somebody who has it.
    <2>3. \A x \in Elements(xs) : \E j \in 1 .. N + 1 : dbs'[j].extra = e /\ x \in Elements(given'[j].extra)
        <3>1. \A x \in Elements(Append(mine, c)) : \E j \in 1 .. N + 1 : dbs'[j].extra = e /\ x \in Elements(given'[j].extra)
            BY <2>1, <2>2
        <3>2. CASE p = 0  BY <1>8, <1>9, <3>1, <3>2
        <3>3. CASE p # 0
            <4>1. \A x \in Elements(extras[p]) : \E j \in 1 .. N : dbs[j].extra = p /\ x \in Elements(given[j].extra)
                BY <1>1, <3>3 DEF IInv, ExtraFits
            <4>2. e = p  BY <1>1, <3>3
            <4>3. \A x \in Elements(extras[p]) : \E j \in 1 .. N + 1 : dbs'[j].extra = e /\ x \in Elements(given'[j].extra)
                BY <1>13, <2>1, <4>1, <4>2
            <4>4. QED  BY <1>8, <1>9, <3>1, <3>3, <4>3
        <3>4. QED  BY <3>2, <3>3
    <2>4. CASE k = N + 1
        BY <1>8, <1>9, <1>10, <1>13, <2>2, <2>3, <2>4 DEF ExtraFits
    <2>5. CASE k # N + 1
        <3>1. k \in 1 .. N /\ dbs'[k] = dbs[k] /\ given'[k] = given[k]  BY <1>2, <1>13, <2>5
        <3>2. ExtraFits(k)  BY <1>1, <3>1 DEF IInv
        <3>3. CASE dbs[k].extra = 0  BY <3>1, <3>2, <3>3 DEF ExtraFits
        <3>4. CASE dbs[k].extra # 0 /\ dbs[k].extra # e
            <4> DEFINE r == dbs[k].extra
            <4>1. /\ r \in 1 .. Len(extras) /\ given[k].extra # <<>> /\ extras[r] # <<>> /\ extras[r][1] = given[k].extra[1]
                  /\ Elements(given[k].extra) \subseteq Elements(extras[r])
                  /\ \A x \in Elements(extras[r]) : \E j \in 1 .. N : dbs[j].extra = r /\ x \in Elements(given[j].extra)
                BY <1>1, <3>2, <3>4 DEF ExtraFits
            <4>2. r \in 1 .. Len(extras') /\ extras'[r] = extras[r]
                <5>1. Len(extras') \in Nat  BY <1>10
                <5>2. r \in 1 .. Len(extras) /\ r # e  BY <3>4, <4>1
                <5> HIDE DEF r
                <5>3. QED  BY <1>10, <5>1, <5>2
            <4>3. \A x \in Elements(extras[r]) : \E j \in 1 .. N + 1 : dbs'[j].extra = r /\ x \in Elements(given'[j].extra)
                BY <1>13, <2>1, <4>1
            <4>4. QED  BY <1>13, <3>1, <3>4, <4>1, <4>2, <4>3 DEF ExtraFits
        <3>5. CASE dbs[k].extra # 0 /\ dbs[k].extra = e
            <4>1. dbs[k].extra \in 1 .. Len(extras)  BY <3>2, <3>5 DEF ExtraFits
            <4>2. e = p /\ p # 0  BY <1>1, <1>10, <3>5, <4>1
            <4>3. given[k].extra # <<>> /\ extras[p][1] = given[k].extra[1] /\ Elements(given[k].extra) \subseteq Elements(extras[p])
                BY <3>2, <3>5, <4>2 DEF ExtraFits
            <4>4. QED  BY <1>9, <1>10, <1>13, <2>3, <3>1, <3>5, <4>2, <4>3 DEF ExtraFits
        <3>6. QED  BY <3>3, <3>4, <3>5
    <2>6. QED  BY <2>4, <2>5
<1>21. QED  BY <1>13, <1>15, <1>16, <1>17, <1>19, <1>20 DEF IInv
-----------------------------------------------------------------------------
(* The theorems *)

LEMMA InitInv == Init => IInv
<1>1. SUFFICES ASSUME Init PROVE IInv  OBVIOUS
<1> DEFINE First(n) == [i \in 1 .. n |-> [n |-> i, kind |-> "plain"]]
           Row(n)   == [i \in 1 .. Capacity(n) |-> IF i <= n THEN First(n)[i] ELSE Nil]
<1>2. PICK n \in Common :
         /\ heap = IF n = 0 THEN <<>> ELSE <<Row(n)>>
         /\ dbs = <<Root(n)>> /\ extras = <<>>
         /\ given = <<[lists |-> [l \in Lists |-> IF l = "where" THEN First(n) ELSE <<>>], extra |-> <<>>,
                       calls |-> [i \in 1 .. n |-> [list |-> "where", cond |-> First(n)[i]]]]>>
    BY <1>1 DEF Init
<1>3. n \in Nat /\ n <= 256  BY ChainAssumption
<1>4. PICK q, row : q = First(n) /\ row = Row(n)  OBVIOUS
<1>5. q \in Seq(Conds) /\ Len(q) = n /\ \A i \in 1 .. n : q[i] \in Conds /\ q[i].n = i
    <2>1. \A i \in 1 .. n : First(n)[i] \in Conds /\ First(n)[i].n = i  BY <1>3 DEF Conds
    <2>2. QED  BY <1>3, <1>4, <2>1
<1>6. n > 0 => /\ row \in Seq(Slots) /\ Len(row) \in Powers /\ n <= Len(row) /\ Len(row) < 2 * n
               /\ \A i \in 1 .. n : row[i] = q[i]
    <2>1. SUFFICES ASSUME n > 0
                   PROVE  /\ row \in Seq(Slots) /\ Len(row) \in Powers /\ n <= Len(row) /\ Len(row) < 2 * n
                          /\ \A i \in 1 .. n : row[i] = q[i]
        OBVIOUS
    <2>2. Capacity(n) \in Powers /\ n <= Capacity(n) /\ Capacity(n) < 2 * n  BY <1>3, <2>1, CapacityFits
    <2>3. Capacity(n) \in Nat  BY <2>2 DEF Powers
    <2>4. row = [i \in 1 .. Capacity(n) |-> IF i <= n THEN q[i] ELSE Nil]  BY <1>4
    <2>5. \A i \in 1 .. Capacity(n) : row[i] \in Slots  BY <1>3, <1>5, <2>3, <2>4 DEF Slots
    <2>6. row \in Seq(Slots) /\ Len(row) = Capacity(n)  BY <2>3, <2>4, <2>5
    <2>7. \A i \in 1 .. n : row[i] = q[i]  BY <1>3, <2>2, <2>3, <2>4
    <2>8. QED  BY <2>2, <2>6, <2>7
<1> DEFINE lists == [l \in Lists |-> IF l = "where" THEN q ELSE <<>>]
           calls == [i \in 1 .. n |-> [list |-> "where", cond |-> q[i]]]
           slices == [l \in Lists |-> IF l = "where" /\ n > 0 THEN [arr |-> 1, len |-> n] ELSE Slice]
<1>7. lists \in [Lists -> Seq(Conds)]  BY <1>5
<1>8. calls \in Told
    <2>1. \A i \in 1 .. n : calls[i] \in [list : Lists, cond : Conds]  BY <1>5 DEF Lists
    <2>2. QED  BY <1>3, <2>1 DEF Told
<1>9. slices \in [Lists -> Slices]  BY <1>3 DEF Slice, Slices
<1>10. given = <<[lists |-> lists, extra |-> <<>>, calls |-> calls]>>  BY <1>2, <1>4
<1>11. dbs = <<[lists |-> slices, extra |-> 0]>>  BY <1>2 DEF Root
<1> HIDE DEF calls
<1>12. Number = 1 /\ 1 .. Number = {1} /\ Len(given) = 1 /\ dbs[1].extra = 0 /\ given[1].extra = <<>>
    BY <1>10, <1>11 DEF Number
<1>13. ASSUME NEW l \in Lists
       PROVE  /\ Of(1, l) = (IF l = "where" /\ n > 0 THEN [arr |-> 1, len |-> n] ELSE [arr |-> 0, len |-> 0])
              /\ Said(1, l) = (IF l = "where" THEN q ELSE <<>>)
    BY <1>10, <1>11 DEF Of, Said, Slice
<1>14. heap = IF n = 0 THEN <<>> ELSE <<row>>  BY <1>2, <1>4
<1>15. heap \in Seq(Seq(Slots)) /\ (n > 0 => Len(heap) = 1 /\ heap[1] = row)
    <2>1. CASE n = 0  BY <1>14, <2>1
    <2>2. CASE n > 0  BY <1>6, <1>14, <2>2
    <2>3. QED  BY <1>3, <2>1, <2>2
<1>16. Typed
    <2>1. [lists |-> lists, extra |-> <<>>, calls |-> calls] \in Givens
        <3>1. <<>> \in Seq(Conds)  OBVIOUS
        <3>2. QED  BY <1>7, <1>8, <3>1 DEF Givens, Told
    <2>2. given \in Seq(Givens)  BY <1>10, <2>1
    <2>3. [lists |-> slices, extra |-> 0] \in [lists : [Lists -> Slices], extra : Nat]  BY <1>9
    <2>4. dbs \in Seq([lists : [Lists -> Slices], extra : Nat])  BY <1>11, <2>3
    <2>5. extras \in Seq(Seq(Conds))  BY <1>2
    <2>6. QED  BY <1>12, <1>15, <2>2, <2>4, <2>5 DEF Typed
<1>17. ASSUME NEW l \in Lists PROVE SliceFits(1, l)
    <2>1. CASE l = "where" /\ n > 0
        <3>1. Of(1, l).arr = 1 /\ Of(1, l).len = n /\ Said(1, l) = q  BY <1>13, <2>1
        <3>2. Len(row) \in Nat  BY <1>6, <2>1
        <3>3. n \in 1 .. Len(row) /\ \A i \in 1 .. n : row[i] \in Conds  BY <1>3, <1>5, <1>6, <2>1, <3>2
        <3>4. Len(heap) = 1 /\ heap[1] = row  BY <1>15, <2>1
        <3>5. Len(row) \in Powers /\ Len(row) < 2 * n  BY <1>6, <2>1
        <3>6. PICK a, s : a = Of(1, l) /\ s = Said(1, l)  OBVIOUS
        <3>7. a.arr = 1 /\ a.len = n /\ Len(s) = n  BY <1>5, <3>1, <3>6
        <3>8. /\ 1 \in 1 .. Len(heap) /\ n \in 1 .. Len(heap[1]) /\ Len(heap[1]) \in Powers /\ Len(heap[1]) < 2 * n
              /\ \A i \in 1 .. n : heap[1][i] \in Conds
            BY <3>3, <3>4, <3>5
        <3>9. SliceFits(1, l) <=> /\ Len(s) = a.len
                                  /\ a.arr = 0 => a.len = 0
                                  /\ a.arr # 0 => /\ a.arr \in 1 .. Len(heap) /\ a.len \in 1 .. Len(heap[a.arr])
                                                  /\ Len(heap[a.arr]) \in Powers /\ Len(heap[a.arr]) < 2 * a.len
                                                  /\ \A i \in 1 .. a.len : heap[a.arr][i] \in Conds
            BY <3>6 DEF SliceFits
        <3>10. QED  BY <3>7, <3>8, <3>9
    <2>2. CASE ~(l = "where" /\ n > 0)
        <3>1. Of(1, l).arr = 0 /\ Of(1, l).len = 0 /\ Len(Said(1, l)) = 0  BY <1>3, <1>5, <1>13, <2>2
        <3>2. QED  BY <3>1 DEF SliceFits
    <2>3. QED  BY <2>1, <2>2
<1>18. Numbered
    <2>1. \A l \in Lists : /\ Len(Said(1, l)) < n + 1
                           /\ \A i \in 1 .. Len(Said(1, l)) : Said(1, l)[i].n < 256 + 1
        BY <1>3, <1>5, <1>13
    <2>2. QED  BY <1>12, <2>1 DEF Numbered
<1>19. Shared
    <2>1. ASSUME NEW l \in Lists, NEW m \in Lists, Of(1, l).arr = Of(1, m).arr, Of(1, l).arr # 0
          PROVE  l = m /\ Clear(1, m)
        <3>1. l = "where" /\ m = "where" /\ n > 0  BY <1>13, <2>1
        <3>2. Of(1, m).arr = 1 /\ Of(1, m).len = n /\ Said(1, m) = q  BY <1>13, <3>1
        <3>3. QED  BY <1>6, <1>15, <3>1, <3>2 DEF Clear
    <2>2. QED  BY <1>12, <2>1 DEF Shared
<1>20. ExtraFits(1)  BY <1>12 DEF ExtraFits
<1>21. QED  BY <1>12, <1>16, <1>17, <1>18, <1>19, <1>20 DEF IInv

LEMMA StepInv == IInv /\ [Next]_vars => IInv'
<1>1. SUFFICES ASSUME IInv, [Next]_vars PROVE IInv'  OBVIOUS
<1>2. ASSUME NEW h \in 1 .. Number, NEW l \in Used, NEW kind \in Kinds(l), Call(h, l, kind) PROVE IInv'
    BY <1>1, <1>2, CallInv
<1>3. ASSUME NEW h \in 1 .. Number, Reorder(h) PROVE IInv'  BY <1>1, <1>3, ReorderInv
<1>4. ASSUME NEW h \in 1 .. Number, ExtraSelect(h) PROVE IInv'  BY <1>1, <1>4, ExtraSelectInv
<1>5. ASSUME NEW h \in 1 .. Number, KeyInFront(h) PROVE IInv'  BY <1>1, <1>5, KeyInFrontInv
<1>6. CASE UNCHANGED vars
    <2>1. heap' = heap /\ extras' = extras /\ dbs' = dbs /\ given' = given /\ Number' = Number
        BY <1>6 DEF vars, Number
    <2>2. Typed' /\ Numbered'  BY <1>1, <2>1 DEF IInv, Typed, Numbered, Said
    <2>3. Shared'
        <3>1. ASSUME NEW h, NEW l PROVE (Of(h, l) = Of(h, l)') /\ (Said(h, l) = Said(h, l)')  BY <2>1 DEF Of, Said
        <3>2. ASSUME NEW l PROVE Contents(l)' = Contents(l)  BY <2>1, <3>1 DEF Contents, Said
        <3>3. ASSUME NEW l, NEW s PROVE Contended(l, s)' <=> Contended(l, s)  BY <3>2 DEF Contended
        <3>4. ASSUME NEW h, NEW l PROVE Witnessed(h, l)' <=> Witnessed(h, l)  BY <3>1, <3>2, <3>3 DEF Witnessed
        <3>5. ASSUME NEW h, NEW l PROVE Clear(h, l)' <=> Clear(h, l)  BY <2>1, <3>1 DEF Clear
        <3>6. QED  BY <1>1, <2>1, <3>1, <3>4, <3>5 DEF IInv, Shared
    <2>4. \A h \in 1 .. Number : ExtraFits(h)' /\ \A l \in Lists : SliceFits(h, l)'
        <3>1. ASSUME NEW h \in 1 .. Number PROVE ExtraFits(h)'  BY <1>1, <2>1 DEF IInv, ExtraFits
        <3>2. ASSUME NEW h \in 1 .. Number, NEW l \in Lists PROVE SliceFits(h, l)'
            BY <1>1, <2>1 DEF IInv, SliceFits, Of, Said
        <3>3. QED  BY <3>1, <3>2
    <2>5. QED  BY <2>1, <2>2, <2>3, <2>4 DEF IInv
<1>7. QED  BY <1>1, <1>2, <1>3, <1>4, <1>5, <1>6 DEF Next

\* The inductive invariant holds of every run of calls.
THEOREM Inductive == Spec => []IInv
<1>1. QED  BY InitInv, StepInv, PTL DEF Spec

\* A chain that does not read what it was given has a witness.
LEMMA OwnOrWitnessed == IInv => OwnConditions
<1>1. SUFFICES ASSUME IInv, NEW h \in 1 .. Number, NEW l \in Lists, Read(h, l) # Said(h, l) PROVE Witnessed(h, l)
    BY DEF OwnConditions, Witnessed, Said, Elements
<1>2. Said(h, l) \in Seq(Conds) /\ Len(Said(h, l)) = Of(h, l).len /\ Of(h, l) \in Slices /\ (Of(h, l).arr = 0 => Of(h, l).len = 0)
    BY <1>1, SliceFacts
<1>3. ~Clear(h, l)
    <2>1. SUFFICES ASSUME Clear(h, l) PROVE FALSE  OBVIOUS
    <2>2. PICK n, q, b : n = Of(h, l).len /\ q = Said(h, l) /\ b = Of(h, l).arr  OBVIOUS
    <2>3. q \in Seq(Conds) /\ Len(q) = n /\ n \in Nat /\ \A i \in 1 .. n : heap[b][i] = q[i]
        BY <1>2, <2>1, <2>2 DEF Clear, Slices
    <2>4. Read(h, l) = [i \in 1 .. n |-> heap[b][i]]  BY <2>2 DEF Read, Of
    <2>5. q = [i \in 1 .. n |-> q[i]]  BY <2>3
    <2>6. QED  BY <1>1, <2>2, <2>3, <2>4, <2>5
<1>4. Of(h, l).arr # 0  BY <1>2, <1>3 DEF Clear, Slices
<1>5. QED  BY <1>1, <1>3, <1>4 DEF IInv, Shared

\* Whoever shares a chain's extra selects has gone on from the same first one.
LEMMA OneOrigin == IInv => ExtrasOfOneOrigin
<1>1. SUFFICES ASSUME IInv, NEW h \in 1 .. Number
               PROVE  LET mine == given[h].extra
                      IN  /\ mine = <<>> => ReadExtra(h) = <<>>
                          /\ \A i \in DOMAIN mine : mine[i] \in {ReadExtra(h)[j] : j \in DOMAIN ReadExtra(h)}
                          /\ \A j \in DOMAIN ReadExtra(h) : \E k \in 1 .. Number :
                                LET theirs == given[k].extra
                                IN  theirs # <<>> /\ theirs[1] = mine[1] /\ ReadExtra(h)[j] \in {theirs[i] : i \in DOMAIN theirs}
    BY DEF ExtrasOfOneOrigin
<1>2. \A k \in 1 .. Number : ExtraFits(k)  BY <1>1 DEF IInv
<1>3. CASE dbs[h].extra = 0
    <2>1. given[h].extra = <<>> /\ ReadExtra(h) = <<>>  BY <1>2, <1>3 DEF ExtraFits, ReadExtra
    <2>2. QED  BY <2>1
<1>4. CASE dbs[h].extra # 0
    <2> DEFINE p == dbs[h].extra
    <2>1. /\ given[h].extra # <<>> /\ extras[p][1] = given[h].extra[1]
          /\ Elements(given[h].extra) \subseteq Elements(extras[p])
          /\ \A x \in Elements(extras[p]) : \E k \in 1 .. Number : dbs[k].extra = p /\ x \in Elements(given[k].extra)
        BY <1>2, <1>4 DEF ExtraFits
    <2>2. ReadExtra(h) = extras[p]  BY <1>4 DEF ReadExtra
    <2>3. \A k \in 1 .. Number : dbs[k].extra = p => given[k].extra # <<>> /\ given[k].extra[1] = given[h].extra[1]
        BY <1>2, <1>4, <2>1 DEF ExtraFits
    <2>4. \A i \in DOMAIN given[h].extra : given[h].extra[i] \in {extras[p][j] : j \in DOMAIN extras[p]}
        BY <2>1 DEF Elements
    <2>5. ASSUME NEW j \in DOMAIN extras[p]
          PROVE  \E k \in 1 .. Number :
                    LET theirs == given[k].extra
                    IN  theirs # <<>> /\ theirs[1] = given[h].extra[1] /\ extras[p][j] \in {theirs[i] : i \in DOMAIN theirs}
        <3>1. extras[p][j] \in Elements(extras[p])  BY DEF Elements
        <3>2. PICK k \in 1 .. Number : dbs[k].extra = p /\ extras[p][j] \in Elements(given[k].extra)  BY <2>1, <3>1
        <3>3. extras[p][j] \in {given[k].extra[i] : i \in DOMAIN given[k].extra}  BY <3>2 DEF Elements
        <3>4. QED  BY <2>3, <3>2, <3>3
    <2> HIDE DEF p
    <2>6. QED  BY <2>1, <2>2, <2>4, <2>5
<1>5. QED  BY <1>3, <1>4

\* Every slice lies in its array, filled; a chain reads the conditions it was given, in their
\* order and no others, unless it comes from conditions that are not a power of two and that
\* two chains went on from, or one put a key before; extra selects are shared only with
\* chains that went on from the same first one.
THEOREM InvHolds == Spec => []Inv
<1>1. IInv => TypeOK
    <2>1. SUFFICES ASSUME IInv PROVE TypeOK  OBVIOUS
    <2>2. ASSUME NEW h \in 1 .. Number, NEW l \in Lists
          PROVE  LET s == dbs[h].lists[l]
                 IN  /\ s.arr \in 0 .. Len(heap) /\ (s.arr = 0 => s.len = 0) /\ (s.arr # 0 => s.len \in 1 .. Len(heap[s.arr]))
                     /\ \A i \in 1 .. s.len : heap[s.arr][i] # Nil
        <3>1. Nil \notin Conds  BY DEF Nil, Conds
        <3>2. Len(heap) \in Nat  BY <2>1 DEF IInv, Typed
        <3>3. /\ Of(h, l) \in Slices /\ (Of(h, l).arr = 0 => Of(h, l).len = 0)
              /\ Of(h, l).arr # 0 => /\ Of(h, l).arr \in 1 .. Len(heap) /\ Of(h, l).len \in 1 .. Len(heap[Of(h, l).arr])
                                     /\ \A i \in 1 .. Of(h, l).len : heap[Of(h, l).arr][i] \in Conds
            BY <2>1, SliceFacts
        <3>4. QED  BY <3>1, <3>2, <3>3 DEF Of
    <2>3. ASSUME NEW h \in 1 .. Number PROVE dbs[h].extra \in 0 .. Len(extras)
        <3>1. Len(extras) \in Nat /\ ExtraFits(h)  BY <2>1 DEF IInv, Typed
        <3>2. QED  BY <3>1 DEF ExtraFits
    <2>4. Len(given) = Number  BY <2>1 DEF IInv, Typed
    <2>5. QED  BY <2>2, <2>3, <2>4 DEF TypeOK
<1>2. IInv => Inv  BY <1>1, OwnOrWitnessed, OneOrigin DEF Inv
<1>3. QED  BY <1>2, Inductive, PTL
-----------------------------------------------------------------------------
(* The arguments of a statement: sequences put together *)

\* Counting up to n reaches every number: the minimal one that is not in P would not be 1,
\* and the one before it would be in P.
LEMMA CountUp ==
    ASSUME NEW n \in Nat, NEW P, 1 \in P, \A k \in 1 .. n : k \in P /\ k + 1 <= n => k + 1 \in P
    PROVE  \A k \in 1 .. n : k \in P
<1> DEFINE T == (1 .. n) \ P
<1>1. T = {}
    <2>1. SUFFICES ASSUME T # {} PROVE FALSE  OBVIOUS
    <2>2. T \subseteq Nat  OBVIOUS
    <2> HIDE DEF T
    <2>3. PICK k \in T : \A j \in T : ~(<<j, k>> \in OpToRel(<, Nat))
        BY <2>1, <2>2, NatLessThanWellFounded, WFMin, Zenon
    <2>4. k \in 1 .. n /\ k \notin P  BY DEF T
    <2>5. k # 1  BY <2>4
    <2>6. k - 1 \in 1 .. n /\ k - 1 \in Nat /\ k \in Nat /\ k - 1 < k /\ (k - 1) + 1 = k /\ k <= n  BY <2>4, <2>5
    <2>7. <<k - 1, k>> \in OpToRel(<, Nat)  BY <2>6, Zenon DEF OpToRel
    <2>8. k - 1 \notin T  BY <2>3, <2>7, Zenon
    <2>9. k - 1 \in P  BY <2>6, <2>8 DEF T
    <2>10. (k - 1) + 1 \in P  BY <2>6, <2>9
    <2>11. QED  BY <2>4, <2>6, <2>10
<1>2. QED  BY <1>1

\* The first k of ss put together.
Flat(ss, k, g) == g = [i \in 1 .. k |-> IF i = 1 THEN ss[i] ELSE g[i - 1] \o ss[i]]

LEMMA FlatExists ==
    ASSUME NEW ss, NEW n \in Nat, n # 0
    PROVE  \E g : Flat(ss, n, g)
<1> DEFINE P == {k \in 1 .. n : \E g : Flat(ss, k, g)}
<1>1. 1 \in P
    <2>1. Flat(ss, 1, [i \in 1 .. 1 |-> ss[i]])  BY DEF Flat
    <2>2. QED  BY <2>1
<1>2. ASSUME NEW k \in 1 .. n, k \in P, k + 1 <= n PROVE k + 1 \in P
    <2>1. PICK g : Flat(ss, k, g)  BY <1>2
    <2> DEFINE h == [i \in 1 .. k + 1 |-> IF i = 1 THEN ss[i] ELSE g[i - 1] \o ss[i]]
    <2>2. \A i \in 1 .. k : h[i] = g[i]
        <3>1. \A i \in 1 .. k : i \in 1 .. k + 1  OBVIOUS
        <3>2. QED  BY <2>1, <3>1 DEF Flat
    <2>3. \A i \in 1 .. k + 1 : i # 1 => i - 1 \in 1 .. k  OBVIOUS
    <2>4. h = [i \in 1 .. k + 1 |-> IF i = 1 THEN ss[i] ELSE h[i - 1] \o ss[i]]  BY <2>2, <2>3
    <2>5. Flat(ss, k + 1, h)  BY <2>4 DEF Flat
    <2>6. QED  BY <1>2, <2>5
<1> HIDE DEF P
<1>3. \A k \in 1 .. n : k \in P  BY <1>1, <1>2, CountUp
<1>4. n \in P  BY <1>3
<1>5. QED  BY <1>4 DEF P

LEMMA FlattenIs ==
    ASSUME NEW ss, Len(ss) \in Nat, Len(ss) # 0
    PROVE  \E g : Flat(ss, Len(ss), g) /\ FlattenSeq(ss) = g[Len(ss)]
<1> DEFINE F == CHOOSE g : Flat(ss, Len(ss), g)
<1>1. Flat(ss, Len(ss), F)  BY FlatExists
<1>2. FlattenSeq(ss) = F[Len(ss)]  BY Zenon DEF FlattenSeq, Flat
<1>3. QED  BY <1>1, <1>2

LEMMA FlattenNone == FlattenSeq(<<>>) = <<>>
  BY DEF FlattenSeq

\* What is put together of sequences is one; it is as long as what is put together of
\* others that are as long, and longer if one of them is; it starts as the first of them.
LEMMA FlattenFacts ==
    ASSUME NEW S, NEW ss \in Seq(Seq(S)), NEW tt \in Seq(Seq(S)), Len(ss) = Len(tt),
           \A i \in 1 .. Len(ss) : Len(ss[i]) <= Len(tt[i])
    PROVE  /\ FlattenSeq(ss) \in Seq(S) /\ FlattenSeq(tt) \in Seq(S)
           /\ Len(FlattenSeq(ss)) <= Len(FlattenSeq(tt))
           /\ (\E i \in 1 .. Len(ss) : Len(ss[i]) < Len(tt[i])) => Len(FlattenSeq(ss)) < Len(FlattenSeq(tt))
           /\ ss # <<>> /\ ss[1] # <<>> => FlattenSeq(ss) # <<>> /\ FlattenSeq(ss)[1] = ss[1][1]
<1>1. CASE Len(ss) = 0
    <2>1. ss = <<>> /\ tt = <<>>  BY <1>1, EmptySeq
    <2>2. FlattenSeq(ss) = <<>> /\ FlattenSeq(tt) = <<>>  BY <2>1, FlattenNone
    <2>3. 1 .. Len(ss) = {}  BY <1>1
    <2>4. <<>> \in Seq(S) /\ Len(<<>>) = 0  OBVIOUS
    <2>5. FlattenSeq(ss) \in Seq(S) /\ FlattenSeq(tt) \in Seq(S) /\ Len(FlattenSeq(ss)) = 0 /\ Len(FlattenSeq(tt)) = 0
        BY <2>2, <2>4
    <2>6. QED  BY <2>1, <2>3, <2>5
<1>2. CASE Len(ss) # 0
    <2> DEFINE n == Len(ss)
    <2>1. n \in Nat /\ n # 0 /\ Len(tt) = n  BY <1>2
    <2>2. \A i \in 1 .. n : ss[i] \in Seq(S) /\ tt[i] \in Seq(S) /\ Len(ss[i]) \in Nat /\ Len(tt[i]) \in Nat  BY <2>1
    <2>3. PICK f : Flat(ss, n, f) /\ FlattenSeq(ss) = f[n]  BY <2>1, FlattenIs
    <2>4. PICK g : Flat(tt, n, g) /\ FlattenSeq(tt) = g[n]  BY <2>1, FlattenIs
    <2> DEFINE P == {k \in 1 .. n : /\ f[k] \in Seq(S) /\ g[k] \in Seq(S) /\ Len(f[k]) <= Len(g[k])
                                    /\ (\E i \in 1 .. k : Len(ss[i]) < Len(tt[i])) => Len(f[k]) < Len(g[k])
                                    /\ ss[1] # <<>> => f[k] # <<>> /\ f[k][1] = ss[1][1]}
    <2>5. f[1] = ss[1] /\ g[1] = tt[1] /\ 1 \in 1 .. n
        <3>1. 1 \in 1 .. n  BY <2>1
        <3>2. QED  BY <2>3, <2>4, <3>1 DEF Flat
    <2>6. 1 \in P  BY <2>2, <2>5
    <2>7. ASSUME NEW k \in 1 .. n, k \in P, k + 1 <= n PROVE k + 1 \in P
        <3>1. k + 1 \in 1 .. n /\ k + 1 # 1 /\ (k + 1) - 1 = k  BY <2>1, <2>7
        <3>2. f[k + 1] = f[k] \o ss[k + 1] /\ g[k + 1] = g[k] \o tt[k + 1]  BY <2>3, <2>4, <3>1 DEF Flat
        <3>3. /\ f[k] \in Seq(S) /\ g[k] \in Seq(S) /\ Len(f[k]) <= Len(g[k])
              /\ (\E i \in 1 .. k : Len(ss[i]) < Len(tt[i])) => Len(f[k]) < Len(g[k])
              /\ ss[1] # <<>> => f[k] # <<>> /\ f[k][1] = ss[1][1]
            BY <2>7
        <3>4. /\ ss[k + 1] \in Seq(S) /\ tt[k + 1] \in Seq(S) /\ Len(ss[k + 1]) <= Len(tt[k + 1])
              /\ Len(ss[k + 1]) \in Nat /\ Len(tt[k + 1]) \in Nat
            BY <2>2, <3>1
        <3>5. ASSUME NEW a \in Seq(S), NEW b \in Seq(S)
              PROVE  /\ a \o b \in Seq(S) /\ Len(a \o b) = Len(a) + Len(b) /\ Len(a) \in Nat
                     /\ a # <<>> => a \o b # <<>> /\ (a \o b)[1] = a[1]
            <4>1. a \o b \in Seq(S) /\ Len(a \o b) = Len(a) + Len(b) /\ Len(a) \in Nat /\ Len(b) \in Nat  OBVIOUS
            <4>2. CASE a # <<>>
                <5>1. Len(a) # 0 /\ (a \o b)[1] = a[1]  BY <4>2
                <5>2. QED  BY <4>1, <5>1
            <4>3. QED  BY <4>1, <4>2
        <3>6. /\ f[k + 1] \in Seq(S) /\ Len(f[k]) \in Nat /\ Len(f[k + 1]) = Len(f[k]) + Len(ss[k + 1])
              /\ f[k] # <<>> => f[k + 1] # <<>> /\ f[k + 1][1] = f[k][1]
            <4>1. PICK a, b : a = f[k] /\ b = ss[k + 1]  OBVIOUS
            <4>2. a \in Seq(S) /\ b \in Seq(S) /\ f[k + 1] = a \o b  BY <3>2, <3>3, <3>4, <4>1
            <4>3. /\ a \o b \in Seq(S) /\ Len(a \o b) = Len(a) + Len(b) /\ Len(a) \in Nat
                  /\ a # <<>> => a \o b # <<>> /\ (a \o b)[1] = a[1]
                BY <3>5, <4>2
            <4>4. QED  BY <4>1, <4>2, <4>3
        <3>7. g[k + 1] \in Seq(S) /\ Len(g[k]) \in Nat /\ Len(g[k + 1]) = Len(g[k]) + Len(tt[k + 1])
            <4>1. PICK a, b : a = g[k] /\ b = tt[k + 1]  OBVIOUS
            <4>2. a \in Seq(S) /\ b \in Seq(S) /\ g[k + 1] = a \o b  BY <3>2, <3>3, <3>4, <4>1
            <4>3. a \o b \in Seq(S) /\ Len(a \o b) = Len(a) + Len(b) /\ Len(a) \in Nat  BY <3>5, <4>2
            <4>4. QED  BY <4>1, <4>2, <4>3
        <3> DEFINE lf == Len(f[k]) lg == Len(g[k]) ls == Len(ss[k + 1]) lt == Len(tt[k + 1])
        <3>8. lf \in Nat /\ lg \in Nat /\ ls \in Nat /\ lt \in Nat /\ lf <= lg /\ ls <= lt  BY <3>3, <3>4, <3>6, <3>7
        <3>9. Len(f[k + 1]) = lf + ls /\ Len(g[k + 1]) = lg + lt  BY <3>6, <3>7
        <3>10. ASSUME NEW i \in 1 .. k + 1, Len(ss[i]) < Len(tt[i]) PROVE lf < lg \/ ls < lt
            <4>1. CASE i = k + 1  BY <3>10, <4>1
            <4>2. CASE i # k + 1
                <5>1. i \in 1 .. k  BY <4>2
                <5>2. QED  BY <3>3, <3>10, <5>1
            <4>3. QED  BY <4>1, <4>2
        <3> HIDE DEF lf, lg, ls, lt
        <3>11. Len(f[k + 1]) <= Len(g[k + 1])  BY <3>8, <3>9
        <3>12. lf < lg \/ ls < lt => Len(f[k + 1]) < Len(g[k + 1])  BY <3>8, <3>9
        <3>13. (\E i \in 1 .. k + 1 : Len(ss[i]) < Len(tt[i])) => Len(f[k + 1]) < Len(g[k + 1])  BY <3>10, <3>12
        <3>14. ss[1] # <<>> => f[k + 1] # <<>> /\ f[k + 1][1] = ss[1][1]  BY <3>3, <3>6
        <3>15. QED  BY <3>1, <3>6, <3>7, <3>11, <3>13, <3>14
    <2> HIDE DEF P
    <2>8. \A k \in 1 .. n : k \in P  BY <2>1, <2>6, <2>7, CountUp
    <2>9. n \in P  BY <2>1, <2>8
    <2>10. QED  BY <2>1, <2>3, <2>4, <2>9 DEF P
<1>3. QED  BY <1>1, <1>2

\* Where the parts are in what is put together.
Parts2(S, x, y) ==
    /\ x \o y \in Seq(S) /\ Len(x \o y) = Len(x) + Len(y) /\ Len(x) \in Nat /\ Len(y) \in Nat
    /\ \A i \in 1 .. Len(x) : (x \o y)[i] = x[i]
    /\ \A i \in 1 .. Len(y) : (x \o y)[Len(x) + i] = y[i]

LEMMA TwoParts ==
    ASSUME NEW S, NEW x \in Seq(S), NEW y \in Seq(S)
    PROVE  Parts2(S, x, y)
  BY DEF Parts2

\* What is equal when put together of sequences of the same lengths is equal in its parts.
LEMMA Cancels ==
    ASSUME NEW S, NEW x \in Seq(S), NEW y \in Seq(S), NEW v \in Seq(S), NEW w \in Seq(S),
           Len(y) = Len(w), Len(x) = Len(v), x \o y = v \o w
    PROVE  x = v /\ y = w
<1>0. Parts2(S, x, y) /\ Parts2(S, v, w)  BY TwoParts
<1>1. \A i \in 1 .. Len(x) : (x \o y)[i] = x[i] /\ (v \o w)[i] = v[i]  BY <1>0 DEF Parts2
<1>2. \A i \in 1 .. Len(y) : (x \o y)[Len(x) + i] = y[i] /\ (v \o w)[Len(x) + i] = w[i]  BY <1>0 DEF Parts2
<1>3. x = [i \in 1 .. Len(x) |-> x[i]] /\ v = [i \in 1 .. Len(x) |-> v[i]]  OBVIOUS
<1>4. y = [i \in 1 .. Len(y) |-> y[i]] /\ w = [i \in 1 .. Len(y) |-> w[i]]  OBVIOUS
<1>5. \A i \in 1 .. Len(x) : x[i] = v[i]  BY <1>1
<1>6. \A i \in 1 .. Len(y) : y[i] = w[i]  BY <1>2
<1>7. QED  BY <1>3, <1>4, <1>5, <1>6

Pairs(S, i, j, k, l) == /\ i \o j \in Seq(S) /\ k \o l \in Seq(S) /\ Len(i \o j) = Len(k \o l)
                        /\ i \o j = k \o l => i = k /\ j = l

LEMMA PairCancels ==
    ASSUME NEW S, NEW i \in Seq(S), NEW j \in Seq(S), NEW k \in Seq(S), NEW l \in Seq(S),
           Len(i) = Len(k), Len(j) = Len(l)
    PROVE  Pairs(S, i, j, k, l)
<1>1. Parts2(S, i, j) /\ Parts2(S, k, l)  BY TwoParts
<1>2. ASSUME i \o j = k \o l PROVE i = k /\ j = l  BY <1>2, Cancels
<1>3. QED  BY <1>1, <1>2 DEF Parts2, Pairs

LEMMA FlattenCancels ==
    ASSUME NEW S, NEW ss \in Seq(Seq(S)), NEW tt \in Seq(Seq(S)), Len(ss) = Len(tt),
           \A i \in 1 .. Len(ss) : Len(ss[i]) = Len(tt[i])
    PROVE  /\ Len(FlattenSeq(ss)) = Len(FlattenSeq(tt))
           /\ FlattenSeq(ss) = FlattenSeq(tt) => \A i \in 1 .. Len(ss) : ss[i] = tt[i]
<1>1. CASE Len(ss) = 0
    <2>1. ss = <<>> /\ tt = <<>>  BY <1>1, EmptySeq
    <2>2. 1 .. Len(ss) = {}  BY <1>1
    <2>3. QED  BY <2>1, <2>2
<1>2. CASE Len(ss) # 0
    <2> DEFINE n == Len(ss)
    <2>1. n \in Nat /\ n # 0 /\ Len(tt) = n  BY <1>2
    <2>2. \A i \in 1 .. n : ss[i] \in Seq(S) /\ tt[i] \in Seq(S) /\ Len(ss[i]) = Len(tt[i])  BY <2>1
    <2>3. PICK f : Flat(ss, n, f) /\ FlattenSeq(ss) = f[n]  BY <2>1, FlattenIs
    <2>4. PICK g : Flat(tt, n, g) /\ FlattenSeq(tt) = g[n]  BY <2>1, FlattenIs
    <2> DEFINE P == {k \in 1 .. n : /\ f[k] \in Seq(S) /\ g[k] \in Seq(S) /\ Len(f[k]) = Len(g[k])
                                    /\ f[k] = g[k] => \A i \in 1 .. k : ss[i] = tt[i]}
    <2>5. f[1] = ss[1] /\ g[1] = tt[1] /\ 1 \in 1 .. n
        <3>1. 1 \in 1 .. n  BY <2>1
        <3>2. QED  BY <2>3, <2>4, <3>1 DEF Flat
    <2>6. 1 \in P  BY <2>2, <2>5
    <2>7. ASSUME NEW k \in 1 .. n, k \in P, k + 1 <= n PROVE k + 1 \in P
        <3>1. k + 1 \in 1 .. n /\ k + 1 # 1 /\ (k + 1) - 1 = k  BY <2>1, <2>7
        <3>2. f[k + 1] = f[k] \o ss[k + 1] /\ g[k + 1] = g[k] \o tt[k + 1]  BY <2>3, <2>4, <3>1 DEF Flat
        <3>3. /\ f[k] \in Seq(S) /\ g[k] \in Seq(S) /\ Len(f[k]) = Len(g[k])
              /\ f[k] = g[k] => \A i \in 1 .. k : ss[i] = tt[i]
            BY <2>7
        <3>4. PICK a, b, c, d : a = f[k] /\ b = ss[k + 1] /\ c = g[k] /\ d = tt[k + 1]  OBVIOUS
        <3>5. a \in Seq(S) /\ b \in Seq(S) /\ c \in Seq(S) /\ d \in Seq(S) /\ Len(a) = Len(c) /\ Len(b) = Len(d)
            BY <2>2, <3>1, <3>3, <3>4
        <3>6. Pairs(S, a, b, c, d)  BY <3>5, PairCancels
        <3>7. /\ a \o b \in Seq(S) /\ c \o d \in Seq(S) /\ Len(a \o b) = Len(c \o d)
              /\ a \o b = c \o d => a = c /\ b = d
            BY <3>6 DEF Pairs
        <3>8. f[k + 1] \in Seq(S) /\ g[k + 1] \in Seq(S) /\ Len(f[k + 1]) = Len(g[k + 1])  BY <3>2, <3>4, <3>7
        <3>9. ASSUME f[k + 1] = g[k + 1], NEW i \in 1 .. k + 1 PROVE ss[i] = tt[i]
            <4>1. f[k] = g[k] /\ ss[k + 1] = tt[k + 1]  BY <3>2, <3>4, <3>7, <3>9
            <4>2. CASE i = k + 1  BY <4>1, <4>2
            <4>3. CASE i # k + 1
                <5>1. i \in 1 .. k  BY <4>3
                <5>2. QED  BY <3>3, <4>1, <5>1
            <4>4. QED  BY <4>2, <4>3
        <3>10. QED  BY <3>1, <3>8, <3>9
    <2> HIDE DEF P
    <2>8. \A k \in 1 .. n : k \in P  BY <2>1, <2>6, <2>7, CountUp
    <2>9. n \in P  BY <2>1, <2>8
    <2>10. QED  BY <2>1, <2>3, <2>4, <2>9 DEF P
<1>3. QED  BY <1>1, <1>2
-----------------------------------------------------------------------------
(* The arguments of a statement: conditions of different lists *)

Filled(l) == UNION {{heap[Of(h, l).arr][i] : i \in 1 .. Of(h, l).len} : h \in 1 .. Number}

\* What chains read of one list comes from other calls than what they read of another; extra
\* selects are plain.
Apart ==
    /\ \A l, m \in Lists : l # m => \A c \in Filled(l), d \in Filled(m) : c.n # d.n
    /\ \A l \in Lists : \A c \in Filled(l) : c.n < 256 + Number
    /\ \A p \in 1 .. Len(extras) : \A i \in 1 .. Len(extras[p]) : extras[p][i].kind = "plain"

LEMMA FilledFacts ==
    ASSUME IInv, NEW l \in Lists
    PROVE  /\ Filled(l) \subseteq Conds
           /\ \A h \in 1 .. Number : \A i \in 1 .. Of(h, l).len : heap[Of(h, l).arr][i] \in Filled(l)
<1>1. ASSUME NEW h \in 1 .. Number, NEW i \in 1 .. Of(h, l).len PROVE heap[Of(h, l).arr][i] \in Conds
    <2>1. Of(h, l).arr # 0  BY SliceFacts
    <2>2. QED  BY <2>1, SliceFacts
<1>2. QED  BY <1>1 DEF Filled

\* After a call with the condition c, all slices have what they had, and c.
Adds(N, l, a, c) ==
    /\ \A k \in 1 .. N : \A m \in Lists : \A i \in 1 .. Of(k, m).len :
          heap'[Of(k, m).arr][i] \in Filled(m) \/ (m = l /\ heap'[Of(k, m).arr][i] = c)
    /\ \A i \in 1 .. a.len : heap'[a.arr][i] \in Filled(l) \cup {c}

LEMMA ApartKept ==
    ASSUME IInv, Apart, NEW N, N = Number, NEW h, NEW l \in Lists, NEW a, NEW cs, NEW c \in Conds,
           MadeAs(N, h, l, a, cs), extras' = extras, c.n = 256 + N, Adds(N, l, a, c)
    PROVE  Apart'
<1>1. /\ N \in Nat /\ h \in 1 .. N /\ Number' = N + 1 /\ \A k \in 1 .. N : dbs'[k] = dbs[k]
      /\ dbs'[N + 1].lists[l] = a /\ \A m \in Lists : m # l => dbs'[N + 1].lists[m] = dbs[h].lists[m]
    BY DEF MadeAs
<1>2. ASSUME NEW m \in Lists, NEW d \in Filled(m)' PROVE d \in Filled(m) \/ (m = l /\ d = c)
    <2>1. PICK k \in 1 .. N + 1 : \E i \in 1 .. Of(k, m)'.len : d = heap'[Of(k, m)'.arr][i]
        BY <1>1, <1>2 DEF Filled
    <2>2. PICK i \in 1 .. Of(k, m)'.len : d = heap'[Of(k, m)'.arr][i]  BY <2>1
    <2>3. CASE k \in 1 .. N
        <3>1. Of(k, m)' = Of(k, m)  BY <1>1, <2>3 DEF Of
        <3>2. QED  BY <2>2, <2>3, <3>1 DEF Adds
    <2>4. CASE k = N + 1 /\ m = l
        <3>1. Of(k, m)' = a  BY <1>1, <2>4 DEF Of
        <3>2. QED  BY <2>2, <2>4, <3>1 DEF Adds
    <2>5. CASE k = N + 1 /\ m # l
        <3>1. Of(k, m)' = Of(h, m)  BY <1>1, <2>5 DEF Of
        <3>2. QED  BY <1>1, <2>2, <2>5, <3>1 DEF Adds
    <2>6. QED  BY <1>1, <2>1, <2>3, <2>4, <2>5
<1>3. ASSUME NEW m \in Lists, NEW d \in Filled(m) PROVE d.n \in Nat /\ d.n < 256 + N
    <2>1. d \in Conds  BY <1>3, FilledFacts
    <2>2. QED  BY <1>3, <2>1 DEF Apart, Conds
<1>4. ASSUME NEW m \in Lists, NEW d \in Filled(m)' PROVE d.n < 256 + Number'
    <2>1. CASE d \in Filled(m)  BY <1>1, <1>3, <2>1
    <2>2. CASE d = c  BY <1>1, <2>2
    <2>3. QED  BY <1>2, <1>4, <2>1, <2>2
<1>5. ASSUME NEW m \in Lists, NEW r \in Lists, m # r, NEW d \in Filled(m)', NEW e \in Filled(r)' PROVE d.n # e.n
    <2>1. (d \in Filled(m) \/ (m = l /\ d = c)) /\ (e \in Filled(r) \/ (r = l /\ e = c))  BY <1>2, <1>5
    <2>2. CASE d \in Filled(m) /\ e \in Filled(r)  BY <1>5, <2>2 DEF Apart
    <2>3. CASE d = c /\ e \in Filled(r)
        <3>1. e.n \in Nat /\ e.n < 256 + N  BY <1>3, <2>3
        <3>2. QED  BY <1>1, <2>3, <3>1
    <2>4. CASE e = c /\ d \in Filled(m)
        <3>1. d.n \in Nat /\ d.n < 256 + N  BY <1>3, <2>4
        <3>2. QED  BY <1>1, <2>4, <3>1
    <2>5. QED  BY <1>5, <2>1, <2>2, <2>3, <2>4
<1>6. (\A p \in 1 .. Len(extras) : \A i \in 1 .. Len(extras[p]) : extras[p][i].kind = "plain")'  BY DEF Apart
<1>7. QED  BY <1>4, <1>5, <1>6 DEF Apart

\* What slices have after an append to the list l, before anything is moved: the array a.arr
\* has what slices of the list read, but for the slot n + 1.
Slotted(N, l, a, n, c, old) ==
    /\ n \in Nat /\ a.arr \in 1 .. Len(old) /\ old[a.arr][n + 1] = c
    /\ \A i \in 1 .. n : old[a.arr][i] \in Filled(l)
    /\ \A k \in 1 .. N : \A m \in Lists : \A i \in 1 .. Of(k, m).len :
          IF Of(k, m).arr = a.arr THEN m = l /\ (i # n + 1 => old[a.arr][i] \in Filled(m))
          ELSE old[Of(k, m).arr][i] \in Filled(m)

LEMMA AppendedSlots ==
    ASSUME IInv, NEW N, N = Number, NEW h \in 1 .. N, NEW l \in Lists, NEW c, NEW a, NEW n, NEW old,
           a = Appended(Of(h, l), c).slice, old = Appended(Of(h, l), c).heap, n = Of(h, l).len,
           InPlace(Of(h, l), c, Appended(Of(h, l), c)) \/ InNew(Of(h, l), c, Appended(Of(h, l), c))
    PROVE  Slotted(N, l, a, n, c, old)
<1>1. PICK b : b = Of(h, l).arr  OBVIOUS
<1>2. n \in Nat /\ (b = 0 => n = 0) /\ (b # 0 => b \in 1 .. Len(heap)) /\ Len(heap) \in Nat
    <2>1. Len(heap) \in Nat  BY DEF IInv, Typed
    <2>2. QED  BY <1>1, <2>1, SliceFacts DEF Slices
<1>3. ASSUME NEW k \in 1 .. N, NEW m \in Lists, NEW i \in 1 .. Of(k, m).len
      PROVE  /\ Of(k, m).arr \in 1 .. Len(heap) /\ i \in 1 .. Len(heap[Of(k, m).arr])
             /\ heap[Of(k, m).arr][i] \in Filled(m)
    <2>1. heap[Of(k, m).arr][i] \in Filled(m)  BY FilledFacts
    <2>2. Of(k, m).arr # 0 /\ Of(k, m) \in Slices  BY SliceFacts
    <2>3. /\ Of(k, m).arr \in 1 .. Len(heap) /\ heap[Of(k, m).arr] \in Seq(Slots)
          /\ Of(k, m).len \in 1 .. Len(heap[Of(k, m).arr])
        BY <2>2, SliceFacts
    <2>4. Len(heap[Of(k, m).arr]) \in Nat  BY <2>3
    <2>5. QED  BY <2>1, <2>3, <2>4
<1>4. \A i \in 1 .. n : heap[b][i] \in Filled(l)  BY <1>1, <1>3
<1>5. CASE InPlace(Of(h, l), c, Appended(Of(h, l), c))
    <2>1. /\ b # 0 /\ a.arr = b /\ Len(old) = Len(heap) /\ \A d \in 1 .. Len(heap) : d # b => old[d] = heap[d]
          /\ old[b][n + 1] = c /\ \A i \in 1 .. Len(heap[b]) : i # n + 1 => old[b][i] = heap[b][i]
        BY <1>1, <1>5 DEF InPlace
    <2>2. ASSUME NEW i \in 1 .. n PROVE old[a.arr][i] \in Filled(l)
        <3>1. i \in 1 .. Len(heap[b]) /\ i # n + 1 /\ heap[b][i] \in Filled(l)  BY <1>1, <1>2, <1>3
        <3>2. QED  BY <2>1, <3>1
    <2>3. ASSUME NEW k \in 1 .. N, NEW m \in Lists, NEW i \in 1 .. Of(k, m).len, Of(k, m).arr = a.arr
          PROVE  m = l /\ (i # n + 1 => old[a.arr][i] \in Filled(m))
        <3>1. m = l  BY <1>1, <2>1, <2>3, OneList
        <3>2. i \in 1 .. Len(heap[b]) /\ heap[b][i] \in Filled(m)  BY <1>3, <2>1, <2>3
        <3>3. QED  BY <2>1, <3>1, <3>2
    <2>4. ASSUME NEW k \in 1 .. N, NEW m \in Lists, NEW i \in 1 .. Of(k, m).len, Of(k, m).arr # a.arr
          PROVE  old[Of(k, m).arr][i] \in Filled(m)
        <3>1. Of(k, m).arr \in 1 .. Len(heap) /\ heap[Of(k, m).arr][i] \in Filled(m)  BY <1>3
        <3>2. QED  BY <2>1, <2>4, <3>1
    <2>5. a.arr \in 1 .. Len(old) /\ old[a.arr][n + 1] = c  BY <1>2, <2>1
    <2>6. QED  BY <1>2, <2>2, <2>3, <2>4, <2>5 DEF Slotted
<1>6. CASE InNew(Of(h, l), c, Appended(Of(h, l), c))
    <2>1. /\ a.arr = Len(heap) + 1 /\ Len(old) = Len(heap) + 1 /\ \A d \in 1 .. Len(heap) : old[d] = heap[d]
          /\ old[a.arr][n + 1] = c /\ \A i \in 1 .. n : old[a.arr][i] = heap[b][i]
        BY <1>1, <1>6 DEF InNew
    <2>2. \A i \in 1 .. n : old[a.arr][i] \in Filled(l)  BY <1>4, <2>1
    <2>3. ASSUME NEW k \in 1 .. N, NEW m \in Lists, NEW i \in 1 .. Of(k, m).len
          PROVE  Of(k, m).arr # a.arr /\ old[Of(k, m).arr][i] \in Filled(m)
        <3>1. Of(k, m).arr \in 1 .. Len(heap) /\ heap[Of(k, m).arr][i] \in Filled(m)  BY <1>3
        <3>2. QED  BY <1>2, <2>1, <3>1, SMTT(30)
    <2>4. a.arr \in 1 .. Len(old)  BY <1>2, <2>1
    <2>5. QED  BY <1>2, <2>1, <2>2, <2>3, <2>4 DEF Slotted
<1>7. QED  BY <1>5, <1>6

LEMMA CallApart ==
    ASSUME IInv, Apart, NEW h \in 1 .. Number, NEW l \in Used, NEW kind \in Kinds(l), Call(h, l, kind)
    PROVE  Apart'
<1> DEFINE s == Of(h, l)
<1>1. PICK N, c, a, n : N = Number /\ c = Cond(kind) /\ a = Appended(s, c).slice /\ n = s.len  OBVIOUS
<1>2. PICK cs, told : cs = Append(Said(h, l), c) /\ told = <<[list |-> l, cond |-> c]>>  OBVIOUS
<1>3. /\ h \in 1 .. N /\ l \in Lists /\ More /\ c \in Conds /\ c \in Slots /\ c.n = 256 + N
      /\ Said(h, l) \in Seq(Conds) /\ heap' = Appended(s, c).heap /\ extras' = extras
    <2>1. h \in 1 .. N /\ l \in Lists  BY <1>1, ChainAssumption
    <2>2. More /\ heap' = Appended(s, c).heap /\ extras' = extras  BY <1>1 DEF Call, Of
    <2>3. c \in Conds /\ c \in Slots /\ c.n = 256 + N  BY <1>1, <2>1, CondFacts
    <2>4. Said(h, l) \in Seq(Conds)  BY <1>1, <2>1, SliceFacts
    <2>5. QED  BY <2>1, <2>2, <2>3, <2>4
<1>4. a \in Slices /\ a.len = n + 1 /\ (InPlace(s, c, Appended(s, c)) \/ InNew(s, c, Appended(s, c)))
    BY <1>1, <1>3, AppendedFacts
<1>5. MadeAs(N, h, l, a, cs)
    <2>1. told \in Told  BY <1>2, <1>3 DEF Told
    <2>2. cs \in Seq(Conds)  BY <1>2, <1>3, AppendFacts
    <2>3. Clone(dbs[h], l, a) /\ Gives(h, l, cs, told)  BY <1>1, <1>2 DEF Call, Of, Said
    <2>4. Makes(h, l, a, cs, told)  BY <1>1, <1>3, <1>4, <2>1, <2>2, <2>3 DEF Makes
    <2>5. QED  BY <1>1, <2>4, MakesFacts
<1>6. /\ n \in Nat /\ heap'[a.arr][n + 1] = c
      /\ \A i \in 1 .. n : heap'[a.arr][i] \in Filled(l)
      /\ \A k \in 1 .. N : \A m \in Lists : \A i \in 1 .. Of(k, m).len :
            IF Of(k, m).arr = a.arr THEN m = l /\ (i # n + 1 => heap'[a.arr][i] \in Filled(m))
            ELSE heap'[Of(k, m).arr][i] \in Filled(m)
    <2>1. PICK old : old = Appended(s, c).heap  OBVIOUS
    <2>2. Slotted(N, l, a, n, c, old)  BY <1>1, <1>3, <1>4, <2>1, AppendedSlots
    <2>3. QED  BY <1>3, <2>1, <2>2 DEF Slotted
<1>7. Adds(N, l, a, c)
    <2>1. ASSUME NEW k \in 1 .. N, NEW m \in Lists, NEW i \in 1 .. Of(k, m).len
          PROVE  heap'[Of(k, m).arr][i] \in Filled(m) \/ (m = l /\ heap'[Of(k, m).arr][i] = c)
        BY <1>6
    <2>2. ASSUME NEW i \in 1 .. a.len PROVE heap'[a.arr][i] \in Filled(l) \cup {c}
        <3>1. i \in 1 .. n \/ i = n + 1  BY <1>4, <1>6
        <3>2. QED  BY <1>6, <3>1
    <2>3. QED  BY <2>1, <2>2 DEF Adds
<1>8. QED  BY <1>1, <1>3, <1>5, <1>7, ApartKept

LEMMA KeyInFrontApart ==
    ASSUME IInv, Apart, NEW h \in 1 .. Number, KeyInFront(h)
    PROVE  Apart'
<1> DEFINE l == "where"
           s == Of(h, l)
<1>1. PICK N, c, a, n, old : /\ N = Number /\ c = Cond("plain") /\ a = Appended(s, Nil).slice /\ n = s.len
                             /\ old = Appended(s, Nil).heap
    OBVIOUS
<1>2. PICK cs, told : cs = <<c>> \o Said(h, l) /\ told = <<[list |-> l, cond |-> c]>>  OBVIOUS
<1>3. /\ h \in 1 .. N /\ l \in Lists /\ More /\ c \in Conds /\ c \in Slots /\ c.n = 256 + N /\ Said(h, l) \in Seq(Conds)
      /\ heap' = [old EXCEPT ![a.arr] = Moved(@, n, c)] /\ extras' = extras
    <2>1. h \in 1 .. N /\ l \in Lists  BY <1>1 DEF Lists
    <2>2. More /\ heap' = [old EXCEPT ![a.arr] = Moved(@, n, c)] /\ extras' = extras  BY <1>1 DEF KeyInFront, Of
    <2>3. "plain" \in Kinds("where")  BY DEF Kinds
    <2>4. c \in Conds /\ c \in Slots /\ c.n = 256 + N  BY <1>1, <2>1, <2>3, CondFacts
    <2>5. Said(h, l) \in Seq(Conds)  BY <1>1, <2>1, SliceFacts
    <2>6. QED  BY <2>1, <2>2, <2>4, <2>5
<1>4. a \in Slices /\ a.len = n + 1 /\ old \in Seq(Seq(Slots))
      /\ (InPlace(s, Nil, Appended(s, Nil)) \/ InNew(s, Nil, Appended(s, Nil)))
    <2>1. Nil \in Slots  BY DEF Slots
    <2>2. QED  BY <1>1, <1>3, <2>1, AppendedFacts
<1>5. MadeAs(N, h, l, a, cs)
    <2>1. told \in Told  BY <1>2, <1>3 DEF Told
    <2>2. cs \in Seq(Conds)  BY <1>2, <1>3, FrontFacts, SMTT(30)
    <2>3. Clone(dbs[h], l, a) /\ Gives(h, l, cs, told)  BY <1>1, <1>2 DEF KeyInFront, Of, Said
    <2>4. Makes(h, l, a, cs, told)  BY <1>1, <1>3, <1>4, <2>1, <2>2, <2>3 DEF Makes
    <2>5. QED  BY <1>1, <2>4, MakesFacts
<1>6. /\ n \in Nat /\ a.arr \in 1 .. Len(old)
      /\ \A i \in 1 .. n : old[a.arr][i] \in Filled(l)
      /\ \A k \in 1 .. N : \A m \in Lists : \A i \in 1 .. Of(k, m).len :
            IF Of(k, m).arr = a.arr THEN m = l /\ (i # n + 1 => old[a.arr][i] \in Filled(m))
            ELSE old[Of(k, m).arr][i] \in Filled(m)
    <2>1. Slotted(N, l, a, n, Nil, old)  BY <1>1, <1>3, <1>4, AppendedSlots
    <2>2. QED  BY <2>1 DEF Slotted
<1>7. PICK row, m1 : row = old[a.arr] /\ m1 = Moved(row, n, c)  OBVIOUS
<1>8. row \in Seq(Slots) /\ n + 1 <= Len(row) /\ Len(row) \in Nat
    <2>1. row \in Seq(Slots) /\ Len(row) \in Nat  BY <1>4, <1>6, <1>7
    <2>2. CASE InPlace(s, Nil, Appended(s, Nil))
        <3>1. n < Len(heap[s.arr]) /\ a.arr = s.arr /\ Len(old[s.arr]) = Len(heap[s.arr])  BY <1>1, <2>2 DEF InPlace
        <3>2. QED  BY <1>6, <1>7, <2>1, <3>1
    <2>3. CASE InNew(s, Nil, Appended(s, Nil))
        <3>1. n + 1 <= Len(old[a.arr])  BY <1>1, <2>3 DEF InNew
        <3>2. QED  BY <1>7, <2>1, <3>1
    <2>4. QED  BY <1>4, <2>2, <2>3
<1>9. /\ Len(m1) = Len(row) /\ m1[1] = c /\ \A i \in 1 .. n : m1[i + 1] = row[i]
      /\ \A i \in 1 .. Len(row) : i > n + 1 => m1[i] = row[i]
    <2>1. /\ Moved(row, n, c) \in Seq(Slots) /\ Len(Moved(row, n, c)) = Len(row) /\ Moved(row, n, c)[1] = c
          /\ \A i \in 1 .. n : Moved(row, n, c)[i + 1] = row[i]
          /\ \A i \in 1 .. Len(row) : i > n + 1 => Moved(row, n, c)[i] = row[i]
        <3>1. row \in Seq(Slots) /\ n \in Nat /\ n + 1 <= Len(row) /\ c \in Slots  BY <1>3, <1>6, <1>8
        <3>2. QED  BY <3>1, MovedFacts
    <2>2. QED  BY <1>7, <2>1
<1>10. heap'[a.arr] = m1 /\ \A b : b \in 1 .. Len(old) /\ b # a.arr => heap'[b] = old[b]
    BY <1>3, <1>4, <1>6, <1>7
\* What is in the array up to the slot that is new, and behind.
<1>11. \A i \in 1 .. n + 1 : m1[i] = c \/ m1[i] \in Filled(l)
    <2>1. ASSUME NEW i \in 1 .. n + 1, i # 1 PROVE m1[i] \in Filled(l)
        <3>1. i - 1 \in 1 .. n /\ (i - 1) + 1 = i  BY <1>6, <2>1
        <3>2. m1[(i - 1) + 1] = row[i - 1] /\ row[i - 1] \in Filled(l)  BY <1>6, <1>7, <1>9, <3>1
        <3>3. QED  BY <3>1, <3>2
    <2>2. QED  BY <1>9, <2>1
<1>12. ASSUME NEW k \in 1 .. N, NEW m \in Lists, NEW i \in 1 .. Of(k, m).len
       PROVE  heap'[Of(k, m).arr][i] \in Filled(m) \/ (m = l /\ heap'[Of(k, m).arr][i] = c)
    <2>1. CASE Of(k, m).arr # a.arr
        <3>1. Of(k, m).arr \in 1 .. Len(old)
            <4>1. Of(k, m).arr # 0  BY <1>1, SliceFacts
            <4>2. Of(k, m).arr \in 1 .. Len(heap)  BY <1>1, <4>1, SliceFacts
            <4>3. Len(heap) <= Len(old) /\ Len(heap) \in Nat /\ Len(old) \in Nat
                <5>1. heap \in Seq(Seq(Slots))  BY DEF IInv, Typed
                <5>2. Len(heap) \in Nat /\ Len(old) \in Nat  BY <1>4, <5>1
                <5>3. Len(old) = Len(heap) \/ Len(old) = Len(heap) + 1  BY <1>1, <1>4 DEF InPlace, InNew
                <5>4. QED  BY <5>2, <5>3
            <4>4. QED  BY <4>2, <4>3
        <3>2. QED  BY <1>6, <1>10, <2>1, <3>1
    <2>2. CASE Of(k, m).arr = a.arr
        <3>1. m = l /\ (i # n + 1 => row[i] \in Filled(m))  BY <1>6, <1>7, <2>2
        <3>2. heap'[Of(k, m).arr][i] = m1[i]  BY <1>10, <2>2
        <3>3. CASE i \in 1 .. n + 1  BY <1>11, <3>1, <3>2, <3>3
        <3>4. CASE i \notin 1 .. n + 1
            <4>1. i \in 1 .. Len(row)
                <5>1. Of(k, m).arr # 0  BY <1>1, SliceFacts
                <5>2. Of(k, m).len \in 1 .. Len(heap[a.arr]) /\ a.arr \in 1 .. Len(heap) /\ heap[a.arr] \in Seq(Slots)
                    BY <1>1, <2>2, <5>1, SliceFacts
                <5>3. Len(heap[a.arr]) \in Nat /\ Len(heap) \in Nat  BY <5>2 DEF IInv, Typed
                <5>4. a.arr # Len(heap) + 1  BY <5>2, <5>3
                <5>5. InPlace(s, Nil, Appended(s, Nil))  BY <1>1, <1>4, <5>4 DEF InNew
                <5>6. Len(row) = Len(heap[a.arr])  BY <1>1, <1>7, <5>5 DEF InPlace
                <5>7. QED  BY <5>2, <5>3, <5>6
            <4>2. i > n + 1 /\ i # n + 1  BY <1>6, <3>4, <4>1
            <4>3. m1[i] = row[i]  BY <1>9, <4>1, <4>2
            <4>4. QED  BY <3>1, <3>2, <4>2, <4>3
        <3>5. QED  BY <3>3, <3>4
    <2>3. QED  BY <2>1, <2>2
<1>13. ASSUME NEW i \in 1 .. a.len PROVE heap'[a.arr][i] \in Filled(l) \cup {c}
    BY <1>4, <1>10, <1>11
<1>14. Adds(N, l, a, c)  BY <1>12, <1>13 DEF Adds
<1>15. QED  BY <1>1, <1>3, <1>5, <1>14, ApartKept

LEMMA ReorderApart ==
    ASSUME IInv, Apart, NEW h \in 1 .. Number, Reorder(h)
    PROVE  Apart'
<1> DEFINE l == "orders"
<1>1. PICK N, c, a, cs : N = Number /\ c = Cond("plain") /\ a = [arr |-> Len(heap) + 1, len |-> 1] /\ cs = <<c>>
    OBVIOUS
<1>2. h \in 1 .. N /\ l \in Lists  BY <1>1 DEF Lists
<1>3. c \in Conds /\ c.n = 256 + N
    <2>1. "plain" \in Kinds("orders")  BY DEF Kinds
    <2>2. QED  BY <1>1, <1>2, <2>1, CondFacts
<1>4. More /\ heap' = Append(heap, cs) /\ Clone(dbs[h], l, a) /\ Gives(h, l, cs, <<>>) /\ extras' = extras
    BY <1>1 DEF Reorder
<1>5. heap \in Seq(Seq(Slots)) /\ Len(heap) \in Nat  BY DEF IInv, Typed
<1>6. cs \in Seq(Conds) /\ cs[1] = c /\ a \in Slices /\ a.arr = Len(heap) + 1 /\ a.len = 1  BY <1>1, <1>3, <1>5 DEF Slices
<1>7. MadeAs(N, h, l, a, cs)
    <2>1. <<>> \in Told  BY DEF Told
    <2>2. Makes(h, l, a, cs, <<>>)  BY <1>1, <1>2, <1>4, <1>6, <2>1 DEF Makes
    <2>3. QED  BY <1>1, <2>2, MakesFacts
<1>8. heap'[a.arr] = cs /\ \A d \in 1 .. Len(heap) : heap'[d] = heap[d]  BY <1>4, <1>5, <1>6
<1>9. ASSUME NEW k \in 1 .. N, NEW m \in Lists, NEW i \in 1 .. Of(k, m).len
      PROVE  heap'[Of(k, m).arr][i] \in Filled(m)
    <2>1. Of(k, m).arr # 0  BY <1>1, SliceFacts
    <2>2. Of(k, m).arr \in 1 .. Len(heap)  BY <1>1, <2>1, SliceFacts
    <2>3. heap[Of(k, m).arr][i] \in Filled(m)  BY <1>1, FilledFacts
    <2>4. QED  BY <1>8, <2>2, <2>3
<1>10. \A i \in 1 .. a.len : heap'[a.arr][i] = c  BY <1>6, <1>8
<1>11. Adds(N, l, a, c)  BY <1>9, <1>10 DEF Adds
<1>12. QED  BY <1>1, <1>2, <1>3, <1>4, <1>7, <1>11, ApartKept

LEMMA ExtraSelectApart ==
    ASSUME IInv, Apart, NEW h \in 1 .. Number, ExtraSelect(h)
    PROVE  Apart'
<1>1. PICK N, c, p, e : /\ N = Number /\ c = Cond("plain") /\ p = dbs[h].extra
                        /\ e = (IF p = 0 THEN Len(extras) + 1 ELSE p)
    OBVIOUS
<1> DEFINE D == [lists : [Lists -> Slices], extra : Nat]
           d == [dbs[h] EXCEPT !.extra = e]
<1>2. dbs \in Seq(D) /\ extras \in Seq(Seq(Conds)) /\ Len(dbs) = N /\ N \in Nat /\ h \in 1 .. N
    BY <1>1 DEF IInv, Typed, Number
<1>3. /\ heap' = heap /\ dbs' = Append(dbs, d)
      /\ extras' = (IF p = 0 THEN Append(extras, <<c>>) ELSE [extras EXCEPT ![p] = Append(extras[p], c)])
    BY <1>1 DEF ExtraSelect
<1>4. c \in Conds /\ c.kind = "plain"
    <2>1. "where" \in Lists /\ "plain" \in Kinds("where")  BY DEF Lists, Kinds
    <2>2. QED  BY <1>1, <2>1, CondFacts DEF Cond
<1>5. d.lists = dbs[h].lists /\ d \in D
    <2>1. dbs[h] \in D
        <3>1. "where" \in Lists  BY DEF Lists
        <3>2. QED  BY <3>1, SliceFacts
    <2>2. Len(extras) \in Nat  BY <1>2
    <2>3. p \in Nat  BY <1>1, <2>1
    <2>4. e \in Nat  BY <1>1, <2>2, <2>3
    <2>5. QED  BY <2>1, <2>4
<1>6. /\ Number' = N + 1 /\ dbs'[N + 1] = d /\ \A k \in 1 .. N : dbs'[k] = dbs[k]
    <2> HIDE DEF d, D
    <2>1. ASSUME NEW S, NEW q \in Seq(S), NEW x \in S
          PROVE  /\ Len(Append(q, x)) = Len(q) + 1 /\ Append(q, x)[Len(q) + 1] = x
                 /\ \A k \in 1 .. Len(q) : Append(q, x)[k] = q[k]
        OBVIOUS
    <2>2. Len(dbs') = N + 1 /\ dbs'[N + 1] = d /\ \A k \in 1 .. N : dbs'[k] = dbs[k]  BY <1>2, <1>3, <1>5, <2>1
    <2>3. QED  BY <2>2 DEF Number
<1> HIDE DEF d
<1>7. ASSUME NEW m \in Lists, NEW x \in Filled(m)' PROVE x \in Filled(m)
    <2>1. PICK k \in 1 .. N + 1 : \E i \in 1 .. Of(k, m)'.len : x = heap[Of(k, m)'.arr][i]
        BY <1>3, <1>6, <1>7, SMTT(30) DEF Filled
    <2>2. PICK r \in 1 .. N : Of(k, m)' = Of(r, m)
        <3>1. CASE k \in 1 .. N  BY <1>6, <3>1 DEF Of
        <3>2. CASE k = N + 1  BY <1>2, <1>5, <1>6, <3>2 DEF Of
        <3>3. QED  BY <1>2, <2>1, <3>1, <3>2
    <2>3. PICK i \in 1 .. Of(r, m).len : x = heap[Of(r, m).arr][i]  BY <2>1, <2>2
    <2>4. QED  BY <1>1, <2>3, FilledFacts
<1>8. ASSUME NEW m \in Lists, NEW x \in Filled(m)' PROVE x.n < 256 + Number'
    <2>1. x \in Conds /\ x.n < 256 + N  BY <1>1, <1>7, <1>8, FilledFacts DEF Apart
    <2>2. QED  BY <1>2, <1>6, <2>1 DEF Conds
<1>9. \A l, m \in Lists : l # m => \A x \in Filled(l)', y \in Filled(m)' : x.n # y.n  BY <1>7 DEF Apart
<1>10. ASSUME NEW q \in 1 .. Len(extras'), NEW i \in 1 .. Len(extras'[q]) PROVE extras'[q][i].kind = "plain"
    <2>1. ASSUME NEW r \in 1 .. Len(extras), NEW j \in 1 .. Len(extras[r]) PROVE extras[r][j].kind = "plain"
        BY DEF Apart
    <2>2. CASE p = 0
        <3>1. /\ Len(extras') = Len(extras) + 1 /\ extras'[Len(extras) + 1] = <<c>>
              /\ \A r \in 1 .. Len(extras) : extras'[r] = extras[r]
            BY <1>2, <1>3, <1>4, <2>2
        <3>2. CASE q = Len(extras) + 1
            <4>1. extras'[q] = <<c>>  BY <3>1, <3>2
            <4>2. Len(<<c>>) = 1 /\ <<c>>[1] = c  OBVIOUS
            <4>3. i = 1  BY <1>10, <4>1, <4>2
            <4>4. QED  BY <1>4, <4>1, <4>2, <4>3
        <3>3. CASE q # Len(extras) + 1
            <4>1. q \in 1 .. Len(extras)  BY <1>2, <3>1, <3>3
            <4>2. QED  BY <1>10, <2>1, <3>1, <4>1
        <3>4. QED  BY <3>2, <3>3
    <2>3. CASE p # 0
        <3>1. p \in 1 .. Len(extras)  BY <1>1, <2>3 DEF IInv, ExtraFits
        <3>2. PICK xs : xs = Append(extras[p], c)  OBVIOUS
        <3>3. extras[p] \in Seq(Conds)  BY <1>2, <3>1
        <3>4. /\ Len(xs) = Len(extras[p]) + 1 /\ xs[Len(extras[p]) + 1] = c /\ Len(extras[p]) \in Nat
              /\ \A j \in 1 .. Len(extras[p]) : xs[j] = extras[p][j]
            BY <1>4, <3>2, <3>3
        <3>5. extras' = [extras EXCEPT ![p] = xs]  BY <1>3, <2>3, <3>2
        <3>6. q \in 1 .. Len(extras) /\ extras'[q] = IF q = p THEN xs ELSE extras[q]  BY <1>2, <3>1, <3>5
        <3>7. CASE q = p
            <4>1. extras'[q] = xs /\ i \in 1 .. Len(extras[p]) + 1  BY <3>4, <3>6, <3>7
            <4>2. CASE i = Len(extras[p]) + 1  BY <1>4, <3>4, <4>1, <4>2
            <4>3. CASE i # Len(extras[p]) + 1
                <5>1. i \in 1 .. Len(extras[p])  BY <3>4, <4>1, <4>3
                <5>2. QED  BY <2>1, <3>1, <3>4, <4>1, <5>1
            <4>4. QED  BY <4>2, <4>3
        <3>8. CASE q # p  BY <2>1, <3>6, <3>8
        <3>9. QED  BY <3>7, <3>8
    <2>4. QED  BY <2>2, <2>3
<1>11. QED  BY <1>8, <1>9, <1>10 DEF Apart

LEMMA InitApart == Init => Apart
<1>1. SUFFICES ASSUME Init PROVE Apart  OBVIOUS
<1>2. IInv  BY <1>1, InitInv
<1>3. PICK n \in Common :
         /\ heap = IF n = 0 THEN <<>>
                   ELSE <<[i \in 1 .. Capacity(n) |-> IF i <= n THEN [j \in 1 .. n |-> [n |-> j, kind |-> "plain"]][i] ELSE Nil]>>
         /\ dbs = <<Root(n)>> /\ extras = <<>>
    BY <1>1 DEF Init
<1>4. n \in Nat /\ n <= 256 /\ Number = 1 /\ dbs[1] = Root(n)
    <2>1. n \in Nat /\ MaxCalls \in Nat /\ n + MaxCalls <= 256  BY <1>3, ChainAssumption
    <2>2. QED  BY <1>3, <2>1 DEF Number
<1>5. ASSUME NEW l \in Lists, NEW c \in Filled(l) PROVE l = "where" /\ c.n \in 1 .. n
    <2>1. PICK k \in 1 .. 1 : \E i \in 1 .. Of(k, l).len : c = heap[Of(k, l).arr][i]  BY <1>4, <1>5 DEF Filled
    <2>2. PICK i \in 1 .. Of(1, l).len : c = heap[Of(1, l).arr][i]  BY <2>1
    <2>3. Of(1, l) = IF l = "where" /\ n > 0 THEN [arr |-> 1, len |-> n] ELSE [arr |-> 0, len |-> 0]
        BY <1>4 DEF Of, Root, Slice
    <2>4. l = "where" /\ n > 0 /\ i \in 1 .. n /\ c = heap[1][i]  BY <2>2, <2>3
    <2>5. heap[1] = [j \in 1 .. Capacity(n) |-> IF j <= n THEN [m \in 1 .. n |-> [n |-> m, kind |-> "plain"]][j] ELSE Nil]
        BY <1>3, <1>4, <2>4
    <2>6. i \in 1 .. Capacity(n)
        <3>1. Capacity(n) \in Powers /\ n <= Capacity(n)  BY <1>4, <2>4, CapacityFits
        <3>2. Capacity(n) \in Nat  BY <3>1 DEF Powers
        <3>3. QED  BY <1>4, <2>4, <3>1, <3>2
    <2>7. c = [n |-> i, kind |-> "plain"]  BY <1>4, <2>4, <2>5, <2>6
    <2>8. QED  BY <2>4, <2>7
<1>6. \A l \in Lists : \A c \in Filled(l) : c.n < 256 + Number  BY <1>4, <1>5
<1>7. \A l, m \in Lists : l # m => \A c \in Filled(l), d \in Filled(m) : c.n # d.n  BY <1>5
<1>8. Len(extras) = 0  BY <1>3
<1>9. QED  BY <1>6, <1>7, <1>8 DEF Apart

LEMMA StepApart == IInv /\ Apart /\ [Next]_vars => Apart'
<1>1. SUFFICES ASSUME IInv, Apart, [Next]_vars PROVE Apart'  OBVIOUS
<1>2. ASSUME NEW h \in 1 .. Number, NEW l \in Used, NEW kind \in Kinds(l), Call(h, l, kind) PROVE Apart'
    BY <1>1, <1>2, CallApart
<1>3. ASSUME NEW h \in 1 .. Number, Reorder(h) PROVE Apart'  BY <1>1, <1>3, ReorderApart
<1>4. ASSUME NEW h \in 1 .. Number, ExtraSelect(h) PROVE Apart'  BY <1>1, <1>4, ExtraSelectApart
<1>5. ASSUME NEW h \in 1 .. Number, KeyInFront(h) PROVE Apart'  BY <1>1, <1>5, KeyInFrontApart
<1>6. CASE UNCHANGED vars
    <2>1. heap' = heap /\ extras' = extras /\ dbs' = dbs /\ Number' = Number  BY <1>6 DEF vars, Number
    <2>2. ASSUME NEW l \in Lists PROVE Filled(l)' = Filled(l)  BY <2>1 DEF Filled, Of
    <2>3. QED  BY <1>1, <2>1, <2>2 DEF Apart
<1>7. QED  BY <1>1, <1>2, <1>3, <1>4, <1>5, <1>6 DEF Next
-----------------------------------------------------------------------------
(* The arguments of a statement: each mark gets its own *)

Vals == Nat \X Nat
\* All marks of a list have arguments, and in their order.
Kept(cs)    == \A i \in 1 .. Len(cs) : cs[i].kind \notin {"gap", "listed"}
InOrder(cs) == \A i \in 1 .. Len(cs) : cs[i].kind \in {"plain", "either"}

\* The first argument of a condition is one of its own.
Own(c, u) == u \in {<<c.n, 1>>, <<c.n, 2>>}

LEMMA CondArgs ==
    ASSUME NEW c \in Conds
    PROVE  /\ Args(c) \in Seq(Vals) /\ Marks(c) \in Seq(Vals) /\ Len(Args(c)) <= Len(Marks(c))
           /\ c.kind \in {"gap", "listed"} => Len(Args(c)) < Len(Marks(c))
           /\ c.kind \notin {"gap", "listed"} =>
                 /\ Len(Args(c)) = Len(Marks(c)) /\ Args(c) # <<>> /\ Own(c, Args(c)[1])
                 /\ Marks(c) # <<>> /\ Own(c, Marks(c)[1])
           /\ c.kind \in {"plain", "either"} => Args(c) = Marks(c)
           /\ c.kind = "mixed" => Args(c) # Marks(c)
<1>1. c.n \in Nat /\ c.kind \in {"plain", "either", "mixed", "listed", "gap"}  BY DEF Conds
<1>2. PICK u, v : u = <<c.n, 1>> /\ v = <<c.n, 2>>  OBVIOUS
<1>3. u \in Vals /\ v \in Vals /\ Own(c, u) /\ Own(c, v) /\ u # v  BY <1>1, <1>2 DEF Vals, Own
<1>4. CASE c.kind = "plain"
    <2>1. Args(c) = <<u>> /\ Marks(c) = <<u>>  BY <1>2, <1>4 DEF Args, Marks
    <2>2. QED  BY <1>3, <1>4, <2>1
<1>5. CASE c.kind = "either"
    <2>1. Args(c) = <<u, v>> /\ Marks(c) = <<u, v>>  BY <1>2, <1>5 DEF Args, Marks
    <2>2. QED  BY <1>3, <1>5, <2>1
<1>6. CASE c.kind = "gap"
    <2>1. Args(c) = <<v>> /\ Marks(c) = <<u, v>>  BY <1>2, <1>6 DEF Args, Marks
    <2>2. QED  BY <1>3, <1>6, <2>1
<1>7. CASE c.kind = "listed"
    <2>1. Args(c) = <<>> /\ Marks(c) = <<u, v>>  BY <1>2, <1>7 DEF Args, Marks
    <2>2. QED  BY <1>3, <1>7, <2>1
<1>8. CASE c.kind = "mixed"
    <2>1. Args(c) = <<v, u>> /\ Marks(c) = <<u, v>>  BY <1>2, <1>8 DEF Args, Marks
    <2>2. <<v, u>>[1] = v /\ <<u, v>>[1] = u  OBVIOUS
    <2>3. <<v, u>> # <<u, v>>  BY <1>3, <2>2
    <2>4. QED  BY <1>3, <1>8, <2>1, <2>3
<1>9. QED  BY <1>1, <1>4, <1>5, <1>6, <1>7, <1>8

\* A list has no more arguments than marks, fewer if some are lost, and in another order if
\* none is lost but some are mixed.
LEMMA ListArgs ==
    ASSUME NEW cs \in Seq(Conds)
    PROVE  /\ ArgsOf(cs) \in Seq(Vals) /\ MarksOf(cs) \in Seq(Vals) /\ Len(ArgsOf(cs)) <= Len(MarksOf(cs))
           /\ ~Kept(cs) => Len(ArgsOf(cs)) < Len(MarksOf(cs))
           /\ Kept(cs) => /\ Len(ArgsOf(cs)) = Len(MarksOf(cs))
                          /\ ArgsOf(cs) = MarksOf(cs) <=> InOrder(cs)
                          /\ cs = <<>> => ArgsOf(cs) = <<>> /\ MarksOf(cs) = <<>>
                          /\ cs # <<>> => /\ ArgsOf(cs) # <<>> /\ Own(cs[1], ArgsOf(cs)[1])
                                          /\ MarksOf(cs) # <<>> /\ Own(cs[1], MarksOf(cs)[1])
<1>1. PICK as, ms : as = [i \in DOMAIN cs |-> Args(cs[i])] /\ ms = [i \in DOMAIN cs |-> Marks(cs[i])]  OBVIOUS
<1>2. ArgsOf(cs) = FlattenSeq(as) /\ MarksOf(cs) = FlattenSeq(ms)  BY <1>1 DEF ArgsOf, MarksOf
<1>3. Len(cs) \in Nat /\ DOMAIN cs = 1 .. Len(cs) /\ \A i \in 1 .. Len(cs) : cs[i] \in Conds  OBVIOUS
<1>4. \A i \in 1 .. Len(cs) : as[i] = Args(cs[i]) /\ ms[i] = Marks(cs[i])  BY <1>1, <1>3
<1> DEFINE Facts(c, u, v) ==
                 /\ u \in Seq(Vals) /\ v \in Seq(Vals) /\ Len(u) <= Len(v)
                 /\ c.kind \in {"gap", "listed"} => Len(u) < Len(v)
                 /\ c.kind \notin {"gap", "listed"} =>
                       /\ Len(u) = Len(v) /\ u # <<>> /\ Own(c, u[1])
                       /\ v # <<>> /\ Own(c, v[1])
                 /\ c.kind \in {"plain", "either"} => u = v
                 /\ c.kind = "mixed" => u # v
<1>5. \A i \in 1 .. Len(cs) : Facts(cs[i], as[i], ms[i])
    <2>1. ASSUME NEW i \in 1 .. Len(cs) PROVE Facts(cs[i], as[i], ms[i])
        <3>1. PICK c : c = cs[i]  OBVIOUS
        <3>2. c \in Conds /\ as[i] = Args(c) /\ ms[i] = Marks(c)  BY <1>3, <1>4, <3>1
        <3>3. Facts(c, Args(c), Marks(c))  BY <3>2, CondArgs
        <3> HIDE DEF Facts
        <3>4. QED  BY <3>1, <3>2, <3>3
    <2>2. QED  BY <2>1
<1>6. as \in Seq(Seq(Vals)) /\ ms \in Seq(Seq(Vals)) /\ Len(as) = Len(cs) /\ Len(ms) = Len(cs)
    <2>1. as = [i \in 1 .. Len(cs) |-> as[i]] /\ ms = [i \in 1 .. Len(cs) |-> ms[i]]  BY <1>1, <1>3
    <2>2. ASSUME NEW S, NEW n \in Nat, NEW f, f = [i \in 1 .. n |-> f[i]], \A i \in 1 .. n : f[i] \in S
          PROVE  f \in Seq(S) /\ Len(f) = n
        <3>1. [i \in 1 .. n |-> f[i]] \in Seq(S) /\ Len([i \in 1 .. n |-> f[i]]) = n  BY <2>2
        <3>2. QED  BY <2>2, <3>1
    <2>3. \A i \in 1 .. Len(cs) : as[i] \in Seq(Vals) /\ ms[i] \in Seq(Vals)  BY <1>5
    <2>4. as \in Seq(Seq(Vals)) /\ Len(as) = Len(cs)  BY <1>3, <2>1, <2>2, <2>3
    <2>5. ms \in Seq(Seq(Vals)) /\ Len(ms) = Len(cs)  BY <1>3, <2>1, <2>2, <2>3
    <2>6. QED  BY <2>4, <2>5
<1>7. /\ FlattenSeq(as) \in Seq(Vals) /\ FlattenSeq(ms) \in Seq(Vals)
      /\ Len(FlattenSeq(as)) <= Len(FlattenSeq(ms))
      /\ (\E i \in 1 .. Len(as) : Len(as[i]) < Len(ms[i])) => Len(FlattenSeq(as)) < Len(FlattenSeq(ms))
      /\ as # <<>> /\ as[1] # <<>> => FlattenSeq(as) # <<>> /\ FlattenSeq(as)[1] = as[1][1]
    <2>1. as \in Seq(Seq(Vals)) /\ ms \in Seq(Seq(Vals)) /\ Len(as) = Len(ms)  BY <1>6
    <2>2. \A i \in 1 .. Len(as) : Len(as[i]) <= Len(ms[i])  BY <1>5, <1>6
    <2>3. QED  BY <2>1, <2>2, FlattenFacts
<1>8. ~Kept(cs) => Len(ArgsOf(cs)) < Len(MarksOf(cs))
    <2>1. ASSUME ~Kept(cs) PROVE \E i \in 1 .. Len(as) : Len(as[i]) < Len(ms[i])  BY <1>5, <1>6, <2>1 DEF Kept
    <2>2. QED  BY <1>2, <1>7, <2>1
<1>9. ASSUME Kept(cs)
      PROVE  /\ Len(ArgsOf(cs)) = Len(MarksOf(cs))
             /\ ArgsOf(cs) = MarksOf(cs) <=> InOrder(cs)
             /\ cs = <<>> => ArgsOf(cs) = <<>> /\ MarksOf(cs) = <<>>
             /\ cs # <<>> => /\ ArgsOf(cs) # <<>> /\ Own(cs[1], ArgsOf(cs)[1])
                             /\ MarksOf(cs) # <<>> /\ Own(cs[1], MarksOf(cs)[1])
    <2>1. \A i \in 1 .. Len(as) : Len(as[i]) = Len(ms[i]) /\ cs[i].kind \in {"plain", "either", "mixed"}
        BY <1>3, <1>5, <1>6, <1>9 DEF Kept, Conds
    <2>2. /\ Len(FlattenSeq(as)) = Len(FlattenSeq(ms))
          /\ FlattenSeq(as) = FlattenSeq(ms) => \A i \in 1 .. Len(as) : as[i] = ms[i]
        <3>1. as \in Seq(Seq(Vals)) /\ ms \in Seq(Seq(Vals)) /\ Len(as) = Len(ms)  BY <1>6
        <3>2. \A i \in 1 .. Len(as) : Len(as[i]) = Len(ms[i])  BY <2>1
        <3>3. QED  BY <3>1, <3>2, FlattenCancels
    <2>3. ASSUME InOrder(cs) PROVE as = ms
        <3>1. \A i \in DOMAIN cs : Args(cs[i]) = Marks(cs[i])  BY <1>3, <1>4, <1>5, <2>3 DEF InOrder
        <3>2. QED  BY <1>1, <3>1
    <2>4. ASSUME \A i \in 1 .. Len(as) : as[i] = ms[i] PROVE InOrder(cs)
        BY <1>5, <1>6, <2>1, <2>4 DEF InOrder
    <2>5. ASSUME cs = <<>> PROVE ArgsOf(cs) = <<>> /\ MarksOf(cs) = <<>>
        <3>1. Len(as) = 0 /\ Len(ms) = 0  BY <1>6, <2>5
        <3>2. as = <<>> /\ ms = <<>>  BY <1>6, <3>1, EmptySeq
        <3>3. QED  BY <1>2, <3>2, FlattenNone
    <2>6. ASSUME cs # <<>>
          PROVE  /\ ArgsOf(cs) # <<>> /\ Own(cs[1], ArgsOf(cs)[1])
                 /\ MarksOf(cs) # <<>> /\ Own(cs[1], MarksOf(cs)[1])
        <3>1. Len(cs) # 0  BY <2>6, EmptySeq
        <3>2. 1 \in 1 .. Len(cs)  BY <1>3, <3>1
        <3>3. cs[1].kind \notin {"gap", "listed"}  BY <1>9, <3>2 DEF Kept
        <3>4. as[1] # <<>> /\ Own(cs[1], as[1][1]) /\ ms[1] # <<>> /\ Own(cs[1], ms[1][1])
            <4>1. Facts(cs[1], as[1], ms[1])  BY <1>5, <3>2
            <4>2. QED  BY <3>3, <4>1
        <3>5. as # <<>> /\ ms # <<>>
            <4>1. Len(as) # 0 /\ Len(ms) # 0  BY <1>6, <3>1
            <4>2. QED  BY <4>1, EmptySeq
        <3>6. FlattenSeq(ms) # <<>> /\ FlattenSeq(ms)[1] = ms[1][1]
            <4>1. ms \in Seq(Seq(Vals)) /\ \A i \in 1 .. Len(ms) : Len(ms[i]) <= Len(ms[i])  BY <1>5, <1>6
            <4>2. ms # <<>> /\ ms[1] # <<>> => FlattenSeq(ms) # <<>> /\ FlattenSeq(ms)[1] = ms[1][1]
                BY <4>1, FlattenFacts
            <4>3. QED  BY <3>4, <3>5, <4>2
        <3>7. FlattenSeq(as) # <<>> /\ FlattenSeq(as)[1] = as[1][1]  BY <1>7, <3>4, <3>5
        <3>8. QED  BY <1>2, <3>4, <3>6, <3>7
    <2>7. QED  BY <1>2, <2>2, <2>3, <2>4, <2>5, <2>6
<1>10. QED  BY <1>2, <1>7, <1>8, <1>9

\* Where the fourth part is in what is put together.
Parts7(S, a, b, c, d, e, f, g) ==
    LET all == a \o b \o c \o d \o e \o f \o g
    IN  /\ all \in Seq(S)
        /\ Len(all) = Len(a) + Len(b) + Len(c) + Len(d) + Len(e) + Len(f) + Len(g)
        /\ d # <<>> => all[Len(a) + Len(b) + Len(c) + 1] = d[1]

LEMMA SevenParts ==
    ASSUME NEW S, NEW a \in Seq(S), NEW b \in Seq(S), NEW c \in Seq(S), NEW d \in Seq(S), NEW e \in Seq(S),
           NEW f \in Seq(S), NEW g \in Seq(S)
    PROVE  Parts7(S, a, b, c, d, e, f, g)
<1>1. PICK p : p = a \o b \o c  OBVIOUS
<1>2. p \in Seq(S) /\ Len(p) = Len(a) + Len(b) + Len(c)
    <2>1. a \o b \in Seq(S) /\ Len(a \o b) = Len(a) + Len(b)  BY TwoParts DEF Parts2
    <2>2. Parts2(S, a \o b, c)  BY <2>1, TwoParts
    <2>3. QED  BY <1>1, <2>1, <2>2 DEF Parts2
<1>3. PICK q, r, s : q = p \o d /\ r = q \o e /\ s = r \o f  OBVIOUS
<1>4. q \in Seq(S) /\ Len(q) = Len(p) + Len(d) /\ \A i \in 1 .. Len(d) : q[Len(p) + i] = d[i]
    <2>1. Parts2(S, p, d)  BY <1>2, TwoParts
    <2>2. QED  BY <1>3, <2>1 DEF Parts2
<1>5. r \in Seq(S) /\ Len(r) = Len(q) + Len(e) /\ \A i \in 1 .. Len(q) : r[i] = q[i]
    <2>1. Parts2(S, q, e)  BY <1>4, TwoParts
    <2>2. QED  BY <1>3, <2>1 DEF Parts2
<1>6. s \in Seq(S) /\ Len(s) = Len(r) + Len(f) /\ \A i \in 1 .. Len(r) : s[i] = r[i]
    <2>1. Parts2(S, r, f)  BY <1>5, TwoParts
    <2>2. QED  BY <1>3, <2>1 DEF Parts2
<1>7. s \o g \in Seq(S) /\ Len(s \o g) = Len(s) + Len(g) /\ \A i \in 1 .. Len(s) : (s \o g)[i] = s[i]
    <2>1. Parts2(S, s, g)  BY <1>6, TwoParts
    <2>2. QED  BY <2>1 DEF Parts2
<1>8. a \o b \o c \o d \o e \o f \o g = s \o g  BY <1>1, <1>3
<1>9. /\ Len(a) \in Nat /\ Len(b) \in Nat /\ Len(c) \in Nat /\ Len(d) \in Nat /\ Len(e) \in Nat /\ Len(f) \in Nat
      /\ Len(g) \in Nat
    OBVIOUS
<1>10. ASSUME d # <<>> PROVE (s \o g)[Len(p) + 1] = d[1]
    <2>1. Len(d) # 0  BY <1>10, EmptySeq
    <2>2. 1 \in 1 .. Len(d) /\ Len(p) \in Nat  BY <1>2, <1>9, <2>1
    <2>3. q[Len(p) + 1] = d[1]  BY <1>4, <2>2
    <2>4. Len(p) + 1 \in 1 .. Len(q) /\ Len(p) + 1 \in 1 .. Len(r) /\ Len(p) + 1 \in 1 .. Len(s)
        BY <1>4, <1>5, <1>6, <1>9, <2>1, <2>2
    <2>5. QED  BY <1>5, <1>6, <1>7, <2>3, <2>4
<1>11. Len(s \o g) = Len(a) + Len(b) + Len(c) + Len(d) + Len(e) + Len(f) + Len(g)
    BY <1>2, <1>4, <1>5, <1>6, <1>7, <1>9
<1>12. QED  BY <1>2, <1>7, <1>8, <1>10, <1>11 DEF Parts7

Sevens(a, b, c, d, e, f, g, p, q, r, t, u, v, w) ==
    a = p /\ b = q /\ c = r /\ d = t /\ e = u /\ f = v /\ g = w

\* Seven parts as long as seven others are equal to them if they are when put together.
LEMMA SevenCancel ==
    ASSUME NEW S, NEW a \in Seq(S), NEW b \in Seq(S), NEW c \in Seq(S), NEW d \in Seq(S), NEW e \in Seq(S),
           NEW f \in Seq(S), NEW g \in Seq(S),
           NEW p \in Seq(S), NEW q \in Seq(S), NEW r \in Seq(S), NEW t \in Seq(S), NEW u \in Seq(S),
           NEW v \in Seq(S), NEW w \in Seq(S),
           Len(a) = Len(p), Len(b) = Len(q), Len(c) = Len(r), Len(d) = Len(t), Len(e) = Len(u),
           Len(f) = Len(v), Len(g) = Len(w),
           a \o b \o c \o d \o e \o f \o g = p \o q \o r \o t \o u \o v \o w
    PROVE  Sevens(a, b, c, d, e, f, g, p, q, r, t, u, v, w)
<1>1. PICK i2, j2 : i2 = a \o b /\ j2 = p \o q  OBVIOUS
<1>2. i2 \in Seq(S) /\ j2 \in Seq(S) /\ Len(i2) = Len(j2) /\ (i2 = j2 => a = p /\ b = q)
    <2>1. Pairs(S, a, b, p, q)  BY PairCancels
    <2>2. QED  BY <1>1, <2>1 DEF Pairs
<1>3. PICK i3, j3 : i3 = i2 \o c /\ j3 = j2 \o r  OBVIOUS
<1>4. i3 \in Seq(S) /\ j3 \in Seq(S) /\ Len(i3) = Len(j3) /\ (i3 = j3 => i2 = j2 /\ c = r)
    <2>1. Pairs(S, i2, c, j2, r)  BY <1>2, PairCancels
    <2>2. QED  BY <1>3, <2>1 DEF Pairs
<1>5. PICK i4, j4 : i4 = i3 \o d /\ j4 = j3 \o t  OBVIOUS
<1>6. i4 \in Seq(S) /\ j4 \in Seq(S) /\ Len(i4) = Len(j4) /\ (i4 = j4 => i3 = j3 /\ d = t)
    <2>1. Pairs(S, i3, d, j3, t)  BY <1>4, PairCancels
    <2>2. QED  BY <1>5, <2>1 DEF Pairs
<1>7. PICK i5, j5 : i5 = i4 \o e /\ j5 = j4 \o u  OBVIOUS
<1>8. i5 \in Seq(S) /\ j5 \in Seq(S) /\ Len(i5) = Len(j5) /\ (i5 = j5 => i4 = j4 /\ e = u)
    <2>1. Pairs(S, i4, e, j4, u)  BY <1>6, PairCancels
    <2>2. QED  BY <1>7, <2>1 DEF Pairs
<1>9. PICK i6, j6 : i6 = i5 \o f /\ j6 = j5 \o v  OBVIOUS
<1>10. i6 \in Seq(S) /\ j6 \in Seq(S) /\ Len(i6) = Len(j6) /\ (i6 = j6 => i5 = j5 /\ f = v)
    <2>1. Pairs(S, i5, f, j5, v)  BY <1>8, PairCancels
    <2>2. QED  BY <1>9, <2>1 DEF Pairs
<1>11. i6 \o g = j6 \o w => i6 = j6 /\ g = w
    <2>1. Pairs(S, i6, g, j6, w)  BY <1>10, PairCancels
    <2>2. QED  BY <2>1 DEF Pairs
<1>12. i6 \o g = a \o b \o c \o d \o e \o f \o g /\ j6 \o w = p \o q \o r \o t \o u \o v \o w
    BY <1>1, <1>3, <1>5, <1>7, <1>9
<1>13. QED  BY <1>2, <1>4, <1>6, <1>8, <1>10, <1>11, <1>12 DEF Sevens

Total(x, u) == x + u["joins"] + u["where"] + u["or"] + u["not"] + u["having"] + u["orders"]

LEMMA TotalLess ==
    ASSUME NEW x \in Nat, NEW u \in [Lists -> Nat], NEW v \in [Lists -> Nat],
           \A l \in Lists : u[l] <= v[l], \E l \in Lists : u[l] < v[l]
    PROVE  Total(x, u) < Total(x, v)
<1>1. PICK u1, u2, u3, u4, u5, u6 : /\ u1 = u["joins"] /\ u2 = u["where"] /\ u3 = u["or"] /\ u4 = u["not"]
                                    /\ u5 = u["having"] /\ u6 = u["orders"]
    OBVIOUS
<1>2. PICK v1, v2, v3, v4, v5, v6 : /\ v1 = v["joins"] /\ v2 = v["where"] /\ v3 = v["or"] /\ v4 = v["not"]
                                    /\ v5 = v["having"] /\ v6 = v["orders"]
    OBVIOUS
<1>3. u1 \in Nat /\ u2 \in Nat /\ u3 \in Nat /\ u4 \in Nat /\ u5 \in Nat /\ u6 \in Nat  BY <1>1 DEF Lists
<1>4. v1 \in Nat /\ v2 \in Nat /\ v3 \in Nat /\ v4 \in Nat /\ v5 \in Nat /\ v6 \in Nat  BY <1>2 DEF Lists
<1>5. u1 <= v1 /\ u2 <= v2 /\ u3 <= v3 /\ u4 <= v4 /\ u5 <= v5 /\ u6 <= v6  BY <1>1, <1>2 DEF Lists
<1>6. u1 < v1 \/ u2 < v2 \/ u3 < v3 \/ u4 < v4 \/ u5 < v5 \/ u6 < v6  BY <1>1, <1>2 DEF Lists
<1>7. x + u1 + u2 + u3 + u4 + u5 + u6 < x + v1 + v2 + v3 + v4 + v5 + v6  BY <1>3, <1>4, <1>5, <1>6
<1>8. QED  BY <1>1, <1>2, <1>7 DEF Total

\* What a scope reads: conditions that chains have in the same list, and plain extra selects.
LEMMA ReadFacts ==
    ASSUME IInv, Apart, NEW h \in 1 .. Number
    PROVE  /\ \A l \in Lists : Read(h, l) \in Seq(Conds) /\ \A i \in 1 .. Len(Read(h, l)) : Read(h, l)[i] \in Filled(l)
           /\ ReadExtra(h) \in Seq(Conds) /\ InOrder(ReadExtra(h))
<1>1. ASSUME NEW l \in Lists
      PROVE  Read(h, l) \in Seq(Conds) /\ \A i \in 1 .. Len(Read(h, l)) : Read(h, l)[i] \in Filled(l)
    <2>1. PICK n, b : n = Of(h, l).len /\ b = Of(h, l).arr  OBVIOUS
    <2>2. n \in Nat  BY <2>1, SliceFacts DEF Slices
    <2>3. Read(h, l) = [i \in 1 .. n |-> heap[b][i]]  BY <2>1 DEF Read, Of
    <2>4. \A i \in 1 .. n : heap[b][i] \in Filled(l) /\ heap[b][i] \in Conds  BY <2>1, FilledFacts
    <2>5. Read(h, l) \in Seq(Conds) /\ Len(Read(h, l)) = n  BY <2>2, <2>3, <2>4
    <2>6. QED  BY <2>3, <2>4, <2>5
<1>2. ReadExtra(h) \in Seq(Conds) /\ InOrder(ReadExtra(h))
    <2>1. CASE dbs[h].extra = 0
        <3>1. ReadExtra(h) = <<>>  BY <2>1 DEF ReadExtra
        <3>2. <<>> \in Seq(Conds) /\ Len(<<>>) = 0  OBVIOUS
        <3>3. QED  BY <3>1, <3>2 DEF InOrder
    <2>2. CASE dbs[h].extra # 0
        <3>1. dbs[h].extra \in 1 .. Len(extras) /\ extras \in Seq(Seq(Conds))  BY <2>2 DEF IInv, ExtraFits, Typed
        <3>2. PICK p : p = dbs[h].extra  OBVIOUS
        <3>3. extras[p] \in Seq(Conds) /\ ReadExtra(h) = extras[p]  BY <2>2, <3>1, <3>2 DEF ReadExtra
        <3>4. \A i \in 1 .. Len(extras[p]) : extras[p][i].kind = "plain"  BY <3>1, <3>2 DEF Apart
        <3>5. QED  BY <3>3, <3>4 DEF InOrder
    <2>3. QED  BY <2>1, <2>2
<1>3. QED  BY <1>1, <1>2

\* Where no argument is lost the parts have as many arguments as marks: they are the same if
\* the lists keep the order and there is no Or or no Not; if there are both, the first
\* argument of Or meets the first mark of Not.
LEMMA MarksFromApart == IInv /\ Apart => MarksGetTheirArgs
<1>1. SUFFICES ASSUME IInv, Apart, NEW h \in 1 .. Number
               PROVE  LET s == [l \in Lists |-> Read(h, l)]
                          ok == Vars(s, ReadExtra(h)) = Places(s, ReadExtra(h))
                      IN  ok <=> /\ s["or"] = <<>> \/ s["not"] = <<>>
                                 /\ \A l \in Lists : \A i \in DOMAIN s[l] : s[l][i].kind \in {"plain", "either"}
    BY DEF MarksGetTheirArgs
<1>2. PICK s, x : s = [l \in Lists |-> Read(h, l)] /\ x = ReadExtra(h)  OBVIOUS
<1>3. /\ x \in Seq(Conds) /\ InOrder(x) /\ \A l \in Lists : s[l] \in Seq(Conds) /\ s[l] = Read(h, l)
      /\ \A l \in Lists : \A i \in 1 .. Len(s[l]) : s[l][i] \in Filled(l)
    BY <1>1, <1>2, ReadFacts
<1>4. Lists = {"joins", "where", "or", "not", "having", "orders"}  BY DEF Lists
<1> DEFINE A(l) == ArgsOf(s[l])
           M(l) == MarksOf(s[l])
           ax == ArgsOf(x)
           mx == MarksOf(x)
<1>5. ASSUME NEW l \in Lists
      PROVE  /\ A(l) \in Seq(Vals) /\ M(l) \in Seq(Vals) /\ Len(A(l)) \in Nat /\ Len(M(l)) \in Nat /\ Len(A(l)) <= Len(M(l))
             /\ ~Kept(s[l]) => Len(A(l)) < Len(M(l))
             /\ Kept(s[l]) => /\ Len(A(l)) = Len(M(l))
                              /\ A(l) = M(l) <=> InOrder(s[l])
                              /\ s[l] = <<>> => A(l) = <<>> /\ M(l) = <<>>
                              /\ s[l] # <<>> => /\ A(l) # <<>> /\ Own(s[l][1], A(l)[1])
                                                /\ M(l) # <<>> /\ Own(s[l][1], M(l)[1])
    <2>1. s[l] \in Seq(Conds)  BY <1>3
    <2>2. /\ A(l) \in Seq(Vals) /\ M(l) \in Seq(Vals) /\ Len(A(l)) <= Len(M(l))
          /\ ~Kept(s[l]) => Len(A(l)) < Len(M(l))
          /\ Kept(s[l]) => /\ Len(A(l)) = Len(M(l))
                           /\ A(l) = M(l) <=> InOrder(s[l])
                           /\ s[l] = <<>> => A(l) = <<>> /\ M(l) = <<>>
                           /\ s[l] # <<>> => /\ A(l) # <<>> /\ Own(s[l][1], A(l)[1])
                                             /\ M(l) # <<>> /\ Own(s[l][1], M(l)[1])
        BY <2>1, ListArgs
    <2>3. Len(A(l)) \in Nat /\ Len(M(l)) \in Nat  BY <2>2
    <2>4. QED  BY <2>2, <2>3
<1>6. ax \in Seq(Vals) /\ ax = mx /\ Len(ax) \in Nat
    <2>1. Kept(x)  BY <1>3 DEF Kept, InOrder
    <2>2. ax \in Seq(Vals) /\ ax = mx  BY <1>3, <2>1, ListArgs
    <2>3. QED  BY <2>2
<1>7. /\ Vars(s, x) = ax \o A("joins") \o A("where") \o A("or") \o A("not") \o A("having") \o A("orders")
      /\ Places(s, x) = mx \o M("joins") \o M("where") \o M("not") \o M("or") \o M("having") \o M("orders")
    BY DEF Vars, Places
<1> HIDE DEF A, M, ax, mx
<1>8. /\ (\A l \in Lists : \A i \in DOMAIN s[l] : s[l][i].kind \in {"plain", "either"}) <=> \A l \in Lists : InOrder(s[l])
      /\ (\A l \in Lists : InOrder(s[l])) => \A l \in Lists : Kept(s[l])
    <2>1. \A l \in Lists : DOMAIN s[l] = 1 .. Len(s[l])  BY <1>3
    <2>2. QED  BY <2>1 DEF InOrder, Kept
<1>9. CASE \E l \in Lists : ~Kept(s[l])
    <2>1. Len(Vars(s, x)) = Len(ax) + Len(A("joins")) + Len(A("where")) + Len(A("or")) + Len(A("not")) + Len(A("having")) + Len(A("orders"))
        <3>1. Parts7(Vals, ax, A("joins"), A("where"), A("or"), A("not"), A("having"), A("orders"))
            BY <1>4, <1>5, <1>6, SevenParts
        <3>2. QED  BY <1>7, <3>1 DEF Parts7
    <2>2. Len(Places(s, x)) = Len(ax) + Len(M("joins")) + Len(M("where")) + Len(M("not")) + Len(M("or")) + Len(M("having")) + Len(M("orders"))
        <3>1. Parts7(Vals, mx, M("joins"), M("where"), M("not"), M("or"), M("having"), M("orders"))
            BY <1>4, <1>5, <1>6, SevenParts
        <3>2. QED  BY <1>6, <1>7, <3>1 DEF Parts7
    <2>3. \E l \in Lists : Len(A(l)) < Len(M(l))  BY <1>5, <1>9
    <2>4. \A l \in Lists : Len(A(l)) \in Nat /\ Len(M(l)) \in Nat /\ Len(A(l)) <= Len(M(l))  BY <1>5
    <2>5. Len(Vars(s, x)) < Len(Places(s, x))
        <3>1. PICK u, r : u = [l \in Lists |-> Len(A(l))] /\ r = [l \in Lists |-> Len(M(l))]  OBVIOUS
        <3>2. /\ u \in [Lists -> Nat] /\ r \in [Lists -> Nat] /\ \A l \in Lists : u[l] <= r[l]
              /\ \E l \in Lists : u[l] < r[l]
            BY <2>3, <2>4, <3>1
        <3>3. Total(Len(ax), u) < Total(Len(ax), r)  BY <1>6, <3>2, TotalLess
        <3>4. Total(Len(ax), u) = Len(Vars(s, x))  BY <1>4, <2>1, <3>1 DEF Total
        <3>5. Total(Len(ax), r) = Len(Places(s, x))
            <4>1. Len(ax) + Len(M("joins")) + Len(M("where")) + Len(M("or")) + Len(M("not")) + Len(M("having")) + Len(M("orders"))
                  = Len(ax) + Len(M("joins")) + Len(M("where")) + Len(M("not")) + Len(M("or")) + Len(M("having")) + Len(M("orders"))
                BY <1>4, <1>6, <2>4
            <4>2. QED  BY <1>4, <2>2, <3>1, <4>1 DEF Total
        <3>6. QED  BY <3>3, <3>4, <3>5
    <2>6. Len(Places(s, x)) \in Nat  BY <1>4, <1>6, <2>2, <2>4
    <2>7. Vars(s, x) # Places(s, x)  BY <2>5, <2>6
    <2>8. QED  BY <1>2, <1>8, <1>9, <2>7
<1>10. CASE \A l \in Lists : Kept(s[l])
    <2>1. \A l \in Lists : /\ Len(A(l)) = Len(M(l)) /\ A(l) \in Seq(Vals) /\ M(l) \in Seq(Vals)
                           /\ A(l) = M(l) <=> InOrder(s[l])
        BY <1>5, <1>10
    <2>2. PICK b, c, o, t, v, w : /\ b = A("joins") /\ c = A("where") /\ o = A("or") /\ t = A("not")
                                  /\ v = A("having") /\ w = A("orders")
        OBVIOUS
    <2>3. PICK bb, cc, oo, tt, vv, ww : /\ bb = M("joins") /\ cc = M("where") /\ oo = M("or") /\ tt = M("not")
                                        /\ vv = M("having") /\ ww = M("orders")
        OBVIOUS
    <2>4. /\ b \in Seq(Vals) /\ c \in Seq(Vals) /\ o \in Seq(Vals) /\ t \in Seq(Vals) /\ v \in Seq(Vals) /\ w \in Seq(Vals)
          /\ Len(b) = Len(bb) /\ Len(c) = Len(cc) /\ Len(o) = Len(oo) /\ Len(t) = Len(tt) /\ Len(v) = Len(vv) /\ Len(w) = Len(ww)
        BY <1>4, <2>1, <2>2, <2>3
    <2>5. /\ bb \in Seq(Vals) /\ cc \in Seq(Vals) /\ oo \in Seq(Vals) /\ tt \in Seq(Vals) /\ vv \in Seq(Vals) /\ ww \in Seq(Vals)
        BY <1>4, <2>1, <2>3
    <2>6. (\A l \in Lists : InOrder(s[l])) <=> b = bb /\ c = cc /\ o = oo /\ t = tt /\ v = vv /\ w = ww
        BY <1>4, <2>1, <2>2, <2>3
    <2>7. Vars(s, x) = ax \o b \o c \o o \o t \o v \o w /\ Places(s, x) = ax \o bb \o cc \o tt \o oo \o vv \o ww
        BY <1>6, <1>7, <2>2, <2>3
    <2>8. CASE s["or"] = <<>> \/ s["not"] = <<>>
        <3>1. (o = <<>> /\ oo = <<>>) \/ (t = <<>> /\ tt = <<>>)  BY <1>4, <1>5, <1>10, <2>2, <2>3, <2>8
        <3>2. PICK i : i = ax \o bb \o cc  OBVIOUS
        <3>3. i \in Seq(Vals)
            <4>1. ax \o bb \in Seq(Vals)  BY <1>6, <2>5, TwoParts DEF Parts2
            <4>2. QED  BY <2>5, <3>2, <4>1, TwoParts DEF Parts2
        <3>4. i \o tt \o oo = i \o oo \o tt
            <4>1. i \o tt \in Seq(Vals) /\ i \o oo \in Seq(Vals)  BY <2>5, <3>3, TwoParts DEF Parts2
            <4>2. CASE oo = <<>>  BY <3>3, <4>1, <4>2, ConcatEmptySeq
            <4>3. CASE tt = <<>>  BY <3>3, <4>1, <4>3, ConcatEmptySeq
            <4>4. QED  BY <3>1, <4>2, <4>3
        <3>5. Places(s, x) = ax \o bb \o cc \o oo \o tt \o vv \o ww  BY <2>7, <3>2, <3>4
        <3>6. ASSUME Vars(s, x) = Places(s, x) PROVE b = bb /\ c = cc /\ o = oo /\ t = tt /\ v = vv /\ w = ww
            <4>1. ax \o b \o c \o o \o t \o v \o w = ax \o bb \o cc \o oo \o tt \o vv \o ww  BY <2>7, <3>5, <3>6
            <4>2. ax \in Seq(Vals) /\ Len(ax) = Len(ax)  BY <1>6
            <4>3. Sevens(ax, b, c, o, t, v, w, ax, bb, cc, oo, tt, vv, ww)  BY <1>6, <2>4, <2>5, <4>1, SevenCancel
            <4>4. QED  BY <4>3 DEF Sevens
        <3>7. ASSUME b = bb, c = cc, o = oo, t = tt, v = vv, w = ww PROVE Vars(s, x) = Places(s, x)
            BY <2>7, <3>5, <3>7
        <3>8. Vars(s, x) = Places(s, x) <=> \A l \in Lists : InOrder(s[l])  BY <2>6, <3>6, <3>7
        <3>9. QED  BY <1>2, <1>8, <2>8, <3>8
    <2>9. CASE s["or"] # <<>> /\ s["not"] # <<>>
        <3>1. o # <<>> /\ tt # <<>> /\ Own(s["or"][1], o[1]) /\ Own(s["not"][1], tt[1])
            BY <1>4, <1>5, <1>10, <2>2, <2>3, <2>9
        <3>2. s["or"][1].n # s["not"][1].n
            <4>1. "or" \in Lists /\ "not" \in Lists  BY <1>4
            <4>2. s["or"] \in Seq(Conds) /\ s["not"] \in Seq(Conds)  BY <1>3, <4>1
            <4>3. 1 \in 1 .. Len(s["or"]) /\ 1 \in 1 .. Len(s["not"])
                <5>1. ASSUME NEW q \in Seq(Conds), q # <<>> PROVE 1 \in 1 .. Len(q)
                    <6>1. Len(q) \in Nat /\ Len(q) # 0  BY <5>1, EmptySeq
                    <6>2. QED  BY <6>1
                <5>2. QED  BY <2>9, <4>2, <5>1
            <4>4. s["or"][1] \in Filled("or") /\ s["not"][1] \in Filled("not")  BY <1>3, <4>1, <4>3
            <4>5. QED  BY <1>1, <4>1, <4>4 DEF Apart
        <3>3. o[1] # tt[1]  BY <3>1, <3>2 DEF Own
        <3>4. Vars(s, x)[Len(ax) + Len(b) + Len(c) + 1] = o[1]
            <4>1. Parts7(Vals, ax, b, c, o, t, v, w)  BY <1>6, <2>4, SevenParts
            <4>2. QED  BY <2>7, <3>1, <4>1 DEF Parts7
        <3>5. Places(s, x)[Len(ax) + Len(bb) + Len(cc) + 1] = tt[1]
            <4>1. Parts7(Vals, ax, bb, cc, tt, oo, vv, ww)  BY <1>6, <2>5, SevenParts
            <4>2. QED  BY <2>7, <3>1, <4>1 DEF Parts7
        <3>6. Len(b) = Len(bb) /\ Len(c) = Len(cc)  BY <2>4
        <3>7. Vars(s, x) # Places(s, x)  BY <3>3, <3>4, <3>5, <3>6
        <3>8. QED  BY <1>2, <2>9, <3>7
    <2>10. QED  BY <2>8, <2>9
<1>11. QED  BY <1>9, <1>10

\* Where marks are bound by position each gets its own argument, for any chains, unless the
\* statement or one Conditions in it has both Or and Not, or there is a list of clausers or
\* an empty list of tuples, and then some mark does not.
THEOREM MarksHold == Spec => []MarksGetTheirArgs
<1>1. Spec => [](IInv /\ Apart)  BY InitInv, InitApart, StepInv, StepApart, PTL DEF Spec
<1>2. QED  BY <1>1, MarksFromApart, PTL
=============================================================================
