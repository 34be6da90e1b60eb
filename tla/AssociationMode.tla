-------------------------- MODULE AssociationMode --------------------------
(***************************************************************************)
(* Association mode over a many-to-many relation: several Associations of  *)
(* one row, each with a source object of its own, append, replace, delete, *)
(* find and count.  Every statement is a transaction of its own and any    *)
(* may fail; an Association that has met an error ignores what changes     *)
(* the relation.                                                           *)
(*                                                                         *)
(* joined is the join table's part for the source, the keys linked to it;  *)
(* field[h] is the field of h's source object, as the set of the keys of   *)
(* its elements.                                                           *)
(***************************************************************************)
EXTENDS Naturals, Sequences, FiniteSets, Functions

CONSTANTS Handle,    \* goroutines, each with a source object
          Obj,       \* the objects given to the calls
          Own,       \* Own[h]: the objects of h
          ByValue,   \* those passed by value: the program's copy gets no key
          Invalid,   \* arguments that are neither structs nor slices
          KeyOf,     \* KeyOf[o]: the key an object has at the start, 0 if none
          Linked,    \* the keys linked at the start
          MaxKey,    \* bound: keys given by the database
          MaxArgs,   \* bound: arguments of a call
          MaxCalls,  \* bound: MaxCalls[h], calls of a goroutine
          MaxErrors  \* bound: statements that fail

Keys == 1 .. MaxKey
Old  == {KeyOf[o] : o \in Obj} \ {0}

ASSUME ObjAssumption == /\ KeyOf \in [Obj -> Nat] /\ Own \in [Handle -> SUBSET Obj]
                        /\ Linked \subseteq Old /\ Old \subseteq Keys
                        /\ \A h, g \in Handle : h # g => Own[h] \cap Own[g] = {}

ASSUME BoundAssumption == MaxKey \in Nat /\ MaxErrors \in Nat /\ MaxCalls \in [Handle -> Nat]

VARIABLES row,     \* rows of the other table: the object each was made from, by key
          next,    \* the next key; a failed INSERT uses its key up
          joined,  \* keys linked to the source
          field,   \* field[h]: keys of the elements of the source object's field
          key,     \* key[o]: primary key in the object
          assoc,   \* assoc[h]: h's Association
          err,     \* err[h]: Association.error is not nil
          dbErr,   \* dbErr[h]: the error of the Association's scope.db is not nil
          work,    \* work[h]: the call in progress
          out,     \* out[h]: how h's last call has ended
          swept,   \* swept[h]: the last Replace has unlinked the rest
          alone,   \* alone[h]: no other call has run since h's last one began
          failed,  \* failed[h]: keys in the field whose join row could not be added
          lost,    \* lost[h]: keys unlinked by other handles
          burnt,   \* keys of INSERTs that were rolled back
          calls,   \* calls[h]: calls so far
          errors   \* statements that have failed

links == <<row, next, joined, field, key>>
vars  == <<links, assoc, err, dbErr, work, out, swept, alone, failed, lost, burnt, calls, errors>>

Idle    == [call |-> "none", todo |-> <<>>, cur |-> 0, some |-> FALSE]
Busy(h) == work[h] # Idle
Todo(h) == work[h].todo

Init == /\ row = [k \in Old |-> CHOOSE o \in Obj : KeyOf[o] = k]
        /\ next \in 1 .. MaxKey + 1 /\ \A k \in Old : k < next
        /\ joined = Linked
        /\ field = [h \in Handle |-> {}]
        /\ key = KeyOf
        /\ assoc = [h \in Handle |-> "none"]
        /\ err = [h \in Handle |-> FALSE] /\ dbErr = [h \in Handle |-> FALSE]
        /\ work = [h \in Handle |-> Idle]
        /\ out = [h \in Handle |-> "none"]
        /\ swept = [h \in Handle |-> FALSE] /\ alone = [h \in Handle |-> FALSE]
        /\ failed = [h \in Handle |-> {}] /\ lost = [h \in Handle |-> {}]
        /\ burnt = {}
        /\ calls = [h \in Handle |-> 0] /\ errors = 0

\* DB.Association: one with only an error if the source has no key or the field is not a relation.
\* The program makes another one when it has met an error.
Association(h, a) ==
    /\ ~Busy(h) /\ calls[h] < MaxCalls[h]
    /\ assoc[h] = "none" \/ err[h]
    /\ assoc' = [assoc EXCEPT ![h] = a]
    /\ err' = [err EXCEPT ![h] = (a = "bad")]
    /\ dbErr' = [dbErr EXCEPT ![h] = FALSE]
    /\ out' = [out EXCEPT ![h] = "none"]
    /\ UNCHANGED <<links, work, swept, alone, failed, lost, burnt, calls, errors>>

\* A call of h: others are alone no more.
Enter(h, busy) == /\ calls' = [calls EXCEPT ![h] = @ + 1]
                  /\ alone' = [g \in Handle |-> g = h /\ \A f \in Handle \ {h} : ~Busy(f)]
                  /\ swept' = [swept EXCEPT ![h] = FALSE]
                  /\ out' = [out EXCEPT ![h] = "none"]
                  /\ work' = [work EXCEPT ![h] = busy]

Reads(h) == ~Busy(h) /\ assoc[h] # "none" /\ calls[h] < MaxCalls[h]
Met(bad) == (bad => errors < MaxErrors) /\ errors' = IF bad THEN errors + 1 ELSE errors
Done(h)  == /\ calls' = [calls EXCEPT ![h] = @ + 1]
            /\ swept' = [swept EXCEPT ![h] = FALSE]
            /\ UNCHANGED <<links, assoc, work, alone, failed, lost, burnt>>

Changing == {"append", "replace", "delete"}

\* Append, Replace, Clear (a Replace of nothing) and Delete return at once if the
\* Association has an error.
Ignored(h) ==
    /\ Reads(h) /\ err[h]
    /\ out' = [out EXCEPT ![h] = "ignored"]
    /\ UNCHANGED <<err, errors, dbErr>>
    /\ Done(h)

\* The field kept while the new values are saved.
StartKeeping(h, call, os) ==
    /\ ~Busy(h) /\ assoc[h] = "ok" /\ ~err[h] /\ calls[h] < MaxCalls[h]
    /\ call = "delete" => os # <<>>
    /\ call = "append" => os # <<>>
    /\ Enter(h, [call |-> call, todo |-> os, cur |-> 0, some |-> os # <<>>])
    /\ UNCHANGED <<links, assoc, err, errors, dbErr, failed, lost, burnt>>

\* Append, Replace and Delete begin; Replace empties the field first.
Start(h, call, os) ==
    /\ ~Busy(h) /\ assoc[h] = "ok" /\ ~err[h] /\ calls[h] < MaxCalls[h]
    /\ call = "delete" => os # <<>>
    /\ call = "append" => os # <<>>
    /\ Enter(h, [call |-> call, todo |-> os, cur |-> 0, some |-> os # <<>>])
    /\ field' = IF call = "replace" THEN [field EXCEPT ![h] = {}] ELSE field
    /\ UNCHANGED <<row, next, joined, key, assoc, err, errors, dbErr, failed, lost, burnt>>

Saving(h) == work[h].call \in {"append", "replace"} /\ Todo(h) # <<>>
Skip(h)   == work' = [work EXCEPT ![h].todo = Tail(@), ![h].cur = 0]
Fail(h)   == errors < MaxErrors /\ errors' = errors + 1 /\ err' = [err EXCEPT ![h] = TRUE]
Pass      == UNCHANGED <<err, errors>>

RejectValue(h) ==
    /\ Saving(h)
    /\ Head(Todo(h)) \in Invalid
    /\ Skip(h) /\ Fail(h)
    /\ UNCHANGED <<links, assoc, dbErr, out, swept, alone, failed, lost, burnt, calls>>

\* Every value is saved, those with a key too.
NeedsSaveAlways(h) == TRUE
\* saveAssociations saves a value that has no key.
NeedsSave(h) == key[Head(Todo(h))] = 0

\* Save creates the value in a transaction: the object gets a key once the INSERT is
\* done, and keeps it if the transaction is rolled back after that.
SaveValue(h) ==
    /\ Saving(h) /\ work[h].cur = 0
    /\ LET o == Head(Todo(h))
       IN  /\ o \notin Invalid
           /\ NeedsSave(h)
           /\ \/ /\ next \in Keys
                 /\ row' = [k \in DOMAIN row \cup {next} |-> IF k = next THEN o ELSE row[k]]
                 /\ next' = next + 1
                 /\ key' = IF o \in ByValue THEN key ELSE [key EXCEPT ![o] = next]
                 /\ work' = [work EXCEPT ![h].cur = next]
                 /\ Pass /\ UNCHANGED burnt
              \/ /\ next \in Keys
                 /\ next' = next + 1
                 /\ burnt' = burnt \cup {next}
                 /\ key' = IF o \in ByValue THEN key ELSE [key EXCEPT ![o] = next]
                 /\ Skip(h) /\ Fail(h)
                 /\ UNCHANGED row
              \/ /\ Skip(h) /\ Fail(h)
                 /\ UNCHANGED <<row, next, key, burnt>>
    /\ UNCHANGED <<joined, field, assoc, dbErr, out, swept, alone, failed, lost, calls>>

\* The program's value, not the copy of it that was saved.
ValueGiven(h) == key[Head(Todo(h))]
\* The key of the value the pointer leads to, which has just been saved or has had one.
ValueKey(h) == IF work[h].cur # 0 THEN work[h].cur ELSE key[Head(Todo(h))]

\* The value is put in the field, then JoinTableHandler.Add inserts the join row unless
\* there is one; the field keeps the value if that fails.
Link(h) ==
    /\ Saving(h)
    /\ Head(Todo(h)) \notin Invalid
    /\ work[h].cur # 0 \/ ~NeedsSave(h)
    /\ LET k == ValueKey(h)
       IN  /\ field' = [field EXCEPT ![h] = @ \cup {k}]
           /\ \/ joined' = joined \cup {k} /\ Pass /\ UNCHANGED failed
              \/ Fail(h) /\ failed' = [failed EXCEPT ![h] = @ \cup {k}] /\ UNCHANGED joined
    /\ Skip(h)
    /\ UNCHANGED <<row, next, key, assoc, dbErr, out, swept, alone, lost, burnt, calls>>

\* Keys are unlinked by h.
Unlink(h, ks) == /\ joined' = joined \ ks
                 /\ lost' = [g \in Handle |-> IF g = h THEN lost[g] ELSE lost[g] \cup (joined \cap ks)]

Return(h) == /\ work' = [work EXCEPT ![h] = Idle]
             /\ out' = [out EXCEPT ![h] = IF err'[h] THEN "error" ELSE "ok"]

AppendEnd(h) ==
    /\ work[h].call = "append" /\ Todo(h) = <<>>
    /\ UNCHANGED <<links, assoc, errors, err, dbErr, swept, alone, failed, lost, burnt, calls>>
    /\ Return(h)

\* Replace spares the keys in the field; with nothing there, NOT IN is left out.
Spare(h) == IF work[h].some THEN field[h] ELSE {}

\* Replace deletes the other join rows, even if it has failed to save or link the new.
ReplaceEnd(h) ==
    /\ work[h].call = "replace" /\ Todo(h) = <<>>
    /\ \/ /\ Unlink(h, joined \ Spare(h))
          /\ swept' = [swept EXCEPT ![h] = TRUE]
          /\ Pass
       \/ Fail(h) /\ UNCHANGED <<joined, lost, swept>>
    /\ Return(h)
    /\ UNCHANGED <<row, next, field, key, assoc, dbErr, alone, failed, burnt, calls>>

\* Delete forgets to take the values out of the field.
DeleteInTable(h) ==
    /\ work[h].call = "delete"
    /\ \/ Unlink(h, {key[o] : o \in Range(Todo(h))} \ {0}) /\ Pass /\ UNCHANGED field
       \/ Fail(h) /\ UNCHANGED <<joined, field, lost>>
    /\ Return(h)
    /\ UNCHANGED <<row, next, key, assoc, dbErr, swept, alone, failed, burnt, calls>>

\* Delete deletes the join rows of its arguments' keys, then takes them out of the field.
Delete(h) ==
    /\ work[h].call = "delete"
    /\ \/ LET ks == {key[o] : o \in Range(Todo(h))} \ {0}
          IN  /\ Unlink(h, ks)
              /\ field' = [field EXCEPT ![h] = @ \ ks]
              /\ Pass
       \/ Fail(h) /\ UNCHANGED <<joined, field, lost>>
    /\ Return(h)
    /\ UNCHANGED <<row, next, key, assoc, dbErr, swept, alone, failed, burnt, calls>>

\* Find adds what goes wrong, or that nothing is found, to the scope's DB and from there to the
\* Association.  One that has no scope panics.
Find(h) ==
    /\ Reads(h)
    /\ \E bad \in BOOLEAN : Met(bad) /\
          IF assoc[h] = "bad"
          THEN out' = [out EXCEPT ![h] = "panic"] /\ UNCHANGED <<err, dbErr>>
          ELSE /\ dbErr' = [dbErr EXCEPT ![h] = @ \/ bad]
               /\ err' = [err EXCEPT ![h] = @ \/ dbErr'[h]]
               /\ out' = [out EXCEPT ![h] = IF err'[h] THEN "error" ELSE "ok"]
    /\ Done(h)

\* Count queries on the scope's DB: with an error there the row is nil, and scanning it
\* panics.  An error of its own is dropped.
Count(h) ==
    /\ Reads(h)
    /\ \E bad \in BOOLEAN : Met(bad) /\
          out' = [out EXCEPT ![h] = IF assoc[h] = "bad" \/ dbErr[h] THEN "panic"
                                    ELSE IF bad THEN "uncounted" ELSE "ok"]
    /\ UNCHANGED <<err, dbErr>>
    /\ Done(h)

Args(h) == UNION {[1 .. n -> Own[h]] : n \in 0 .. MaxArgs}
Next == \E h \in Handle :
           \/ \E a \in {"ok", "bad"} : Association(h, a)
           \/ \E call \in Changing, os \in Args(h) : Start(h, call, os)
           \/ Ignored(h) \/ RejectValue(h) \/ SaveValue(h) \/ Link(h)
           \/ AppendEnd(h) \/ ReplaceEnd(h) \/ Delete(h) \/ Find(h) \/ Count(h)
Spec == Init /\ [][Next]_vars
-----------------------------------------------------------------------------
(* Correctness *)

\* Types of the variables; a row that is there, or was, used up its key.
TypeOK == /\ DOMAIN row \subseteq 1 .. next - 1 /\ Range(row) \subseteq Obj
          /\ next \in 1 .. MaxKey + 1
          /\ joined \subseteq Keys /\ burnt \subseteq 1 .. next - 1
          /\ burnt \cap DOMAIN row = {}
          /\ field \in [Handle -> SUBSET Keys]
          /\ key \in [Obj -> 0 .. next - 1]
          /\ assoc \in [Handle -> {"none", "ok", "bad"}]
          /\ err \in [Handle -> BOOLEAN] /\ dbErr \in [Handle -> BOOLEAN]
          /\ DOMAIN work = Handle /\ \A h \in Handle : Range(Todo(h)) \subseteq Own[h]
          /\ out \in [Handle -> {"none", "ok", "error", "ignored", "panic", "uncounted"}]
          /\ swept \in [Handle -> BOOLEAN] /\ alone \in [Handle -> BOOLEAN]
          /\ failed \in [Handle -> SUBSET Keys] /\ lost \in [Handle -> SUBSET Keys]
          /\ errors \in 0 .. MaxErrors
          /\ calls \in [Handle -> Nat] /\ \A h \in Handle : calls[h] <= MaxCalls[h]

\* What the field of a source object has is linked in the database, but for values whose
\* join row could not be added and those another handle has unlinked (the field is set
\* before the statement and never looked at again).
FieldIsLinked == \A h \in Handle : field[h] \subseteq joined \cup failed[h] \cup lost[h]

\* A Replace no other call overlaps leaves exactly the links of its field if it reports no
\* error; if it does, and had got as far as unlinking, it leaves no link but those of the
\* field: the old ones are gone although the new were not saved (association.go, the
\* statements after saveAssociations).
ReplaceLeavesItsField ==
    \A h \in Handle : ~Busy(h) /\ alone[h] /\ swept[h] =>
        /\ joined \subseteq field[h]
        /\ out[h] = "ok" => joined = field[h]

\* However calls fail and are repeated, an object passed by pointer is stored at most once:
\* its key tells that it is stored already.
StoredOnce == \A o \in Obj \ ByValue : Cardinality({k \in DOMAIN row : row[k] = o}) <= 1

\* A join row without a row at its other end is one whose value's INSERT was rolled back: the
\* object has kept the key, and the next call takes it for stored.
DanglingOnlyIfRolledBack == joined \subseteq DOMAIN row \cup burnt

\* Find and Count panic only on an Association whose Error the program can have seen.
PanicsOnlyAfterError == \A h \in Handle : out[h] = "panic" => err[h]

\* Source fields and join table agree but for the named cases, and a panic follows an error.
Inv == TypeOK /\ FieldIsLinked /\ PanicsOnlyAfterError
=============================================================================
