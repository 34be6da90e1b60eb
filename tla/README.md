# TLA+ models of aorm

aorm is an object-relational mapper in Go: a `DB` value carries a connection, settings and search
conditions; an API call makes a `Scope` from it and runs a chain of callbacks over the scope. This
directory models the parts of it whose behaviour depends on order, failure and concurrency, checks
them with TLC on small instances and proves the most important facts with TLAPS.

## The system

| Component | State it keeps | Operations | Interacts with |
|---|---|---|---|
| Scope pipeline (`scope.go`, `callback_create.go`, `callback_update.go`, `callback_delete.go`, `callback_save.go`) | per scope: the cloned `DB` (handle, `Error`, `RowsAffected`, settings map), `skipLeft`, what `InstanceSet` has set | the callbacks of the create, update and delete chains | nested scopes on `NewDB()`; the server through the handle; the model's methods |
| DB entry points (`main.go`) | `DB`: handle, parent, settings, error, search | `Create`, `Save`, `Updates`, `UpdateColumns`, `Delete`, `FirstOrCreate` | one or two runs of a chain each |
| Join table handler (`jointable.go`) | names of table and keys | `Add`, `Delete`, `JoinWith`, `Copy` | called by the chains and by association mode |
| User transactions (`main.go:650-730`, `dialect*.go`) | the handle of the cloned `DB`; the handle inside the shared dialect | `Begin`, `Commit`, `Rollback`, `Transaction` | every clone of the root shares the dialect |
| Callback registry (`callback.go`) | the processors and the five sorted chains, shared by clones | `Register`, `Before`, `After`, `Remove`, `Replace`, `Get` | run by `callCallbacks` |
| Query builder (`search.go`, `clause.go`, `conditions.go`) | slices of conditions, selects, orders, preloads | `Where`, `Or`, `Not`, `Order`, ... | cloned with the `DB` |
| Query chain, row queries and scanning (`callback_query.go`, `callback_row_query.go`, `scope_scaner.go`, `scaner.go`) | open rows, `RowsAffected` | `Find`, `First`, `Rows`, `Row`, `Count`, `Pluck` | connections of the pool; `AfterScan`, `AfterFind` |
| Preload and inline preload (`callback_query_preload.go`, `callback_query_inline_preload.go`, `inlinepreload.go`) | preload options, open rows of the join query | nested queries per relation | query chain |
| Association mode (`association.go`) | errors, the field being changed | `Append`, `Replace`, `Delete`, `Clear`, `Count` | `Save`, `UpdateColumn`, join table handler |
| Model struct storage and setup (`modelstruct*.go`, `relationship.go`, `tagsetting.go`) | the process-wide map from types to model structs | `GetOrNew`, `setup`, relationship inference | every scope |
| Scope and type callback registrators (`modelstruct_callbacks.go`, `modelstruct_type_callbacks.go`, `methodcallback.go`) | callbacks per method name behind a read-write mutex | `Register`, `Call` | `callMethod`, migration |
| Migrator and schema migration (`migrator.go`, `main_migration.go`, `scope_migration.go`) | failed, post handlers, own transaction | `Migrate`, `AutoMigrate`, `PostHandler`, `Close` | dialects, type callbacks |
| Dialects (`dialect*.go`, `dialects/`) | the handle set by `SetDB` | SQL text, catalogue queries | everything that writes SQL |
| Identifiers and values (`id*.go`, `bid*.go`, `assign*.go`, `types/`) | none | parse, compare, format | fields |

What is hard here, and where: errors and `SkipLeft` break a chain off wherever it is, its last
callback (the one that ends the transaction) included; nested scopes share their caller's
transaction and clone its error and row count; goroutines compete for the connections of one pool;
clones share slices, maps and the dialect. `PROJECT.json` lists each hazard at its line.

What makes each component correct:

- *Scope pipeline*: the effects of a call and of everything nested in it are visible together or not
  at all; no error is lost on the way out; a transaction is ended once, by the scope that began it;
  a call returns its connection; calls do not block each other for good.
- *User transactions*: a handle that was begun is ended once; nothing of one session runs in the
  transaction of another.
- *Callback registry*: each callback once, before and after what it names, however registrations are
  interleaved and repeated.
- *Query builder*: chains forked from one `DB` do not change each other.
- *Query chain, preload*: every opened row set is closed; a query never waits for a connection that
  only its own goroutine can return.
- *Association mode*: memory, foreign keys and join rows agree when the call reports success.
- *Model struct storage*: whoever gets a model struct gets a complete one.
- *Registrators*: no deadlock; nothing runs on after an error.
- *Migrator*: a migration is applied as a whole or not at all, and ends its transaction.
- *Setup*: a relation has the keys that tags and names say; children are not forgotten.

## The modules

| Module | What it is |
|---|---|
| `AtomicUnits` | abstract specification: units of work whose effects are published in one step or never |
| `ScopePipeline` | the callback chains, nested scopes, transactions and the pool |
| `UserTransaction` | `DB.Transaction` of several goroutines, nested, and the dialect they share |
| `ModelStructStorage` | `getOrNew` and the recursion of `setup` over types that refer to each other, by several goroutines |
| `RelationSetup` | the deferred part of `setup`: relations, keys, children and constraints of one struct |
| `QueryRows` | query chains, preloads and open rows on a pool |
| `AssociationMode` | many-to-many associations: objects, join table and retries |
| `MigratorLifecycle` | a `Migrator`, its transaction and the objects it creates |
| `SearchChain` | conditions in shared slices, and the statement made of them |
| `CallbackRegistry` | registration and sorting of chain callbacks |
| `CallbackLocks` | callbacks of a model under a read-write mutex |
| `MC...` | the values of the constants of each for TLC |
| `ScopePipelineProofs` | in three parts: types of `ScopePipeline` and what each step does to the stack of scopes; that, whatever fails, no error of a nested scope is lost and a transaction is ended by the scope that began it; if no `Begin` fails, the inductive invariant with all-or-nothing and leaks, and the refinement of `AtomicUnits` |
| `UserTransactionProofs` | types, the inductive invariant and the safety properties of `UserTransaction` |
| `AssociationModeProofs`, `CallbackLocksProofs`, `QueryRowsProofs`, `ModelStructStorageProofs`, `MigratorLifecycleProofs`, `SearchChainProofs` | the inductive invariant of each of these modules, and the properties that follow |

The modules do not import each other, but for the refinement: each abstracts what the others are about.
`ScopePipeline` has one atomic lookup where `QueryRows` has the whole query; `AssociationMode` takes a
save as the one transaction that `ScopePipeline` shows it to be; `MigratorLifecycle` takes from
`UserTransaction` that the dialect keeps the handle of whatever transaction was begun last.

### ScopePipeline

A process `o \in Op` is a goroutine that makes one call of the API. `frame[o]` is its stack of
scopes, `depth[o]` of them in use; a step runs one callback of the innermost scope, or one iteration
of a callback that loops over relations.

| In the model | In the code |
|---|---|
| `f.cb`, `NextCallback` | where `callCallbacks` is in the chain that `init()` registered |
| `f.err`, `f.skip` | `scope.db.Error # nil`, `scope.skipLeft` |
| `f.handle` | `scope.db.db`: the pool (`*sql.DB`) or a transaction (`*sql.Tx`) |
| `f.began` | `InstanceGet("aorm:started_transaction")` |
| `f.rows` | `scope.db.RowsAffected` (0, 1, more), cloned into nested scopes like the error |
| `f.noTx` | the setting `aorm:disable_scope_transaction`, inherited |
| `f.ret`, `Resume` | what the caller of a nested scope does with its error |
| `txst`, `pend`, `visible` | the server's transactions, uncommitted and visible effects |
| `turn`, `Unit` | `Save` runs up to two chains at top level, each with a transaction of its own |

`Advance` is the loop of `callCallbacks` after a callback returns: an error or a skip drops the rest.
`NewScope` is `NewDB` or `DB.clone` followed by `NewScope`: handle, error, row count and inherited
settings are copied, what `InstanceSet` has set is not found under the new scope's `InstanceID`.
`SavesOf`, `ChildrenOf` and `NestedOf` are the nested calls of `callback_save.go`,
`createChildrenCallback` and `updateChildrenCallback`; each says in `ret` whether an error goes on to
the next relation, returns, or still adds the join row (`Link`). `SetColumnFails` is a foreign key or
polymorphic type that cannot be set; for a has_many element that may also happen in `OpenNested`, which then gives the
nested scope the error of before. `Save` that updated no row falls
back to `FirstOrCreate` (`FallBack`, `Lookup`).

Abstractions. Rows are not modelled: what a statement affects is chosen freely (`rows`), and a unit
only knows whether one of its statements is hidden or visible. A failing statement or commit has left
either nothing or, for a statement, its effect behind with an error in its result (`Outcome`). A
failing commit leaves nothing. Which relations a value has is chosen freely, bounded by `MaxNested`.
Callbacks that cannot fail the scope and touch none of this state (`aorm:start`, `aorm:set_id`,
time stamps, audit, forced reload) are no steps; the forced reload reads outside of any check of its
error. Statements run by a model's own methods, dry runs, added callbacks and calls inside a
transaction of the caller's are left out.

### UserTransaction

A session is a goroutine with clones of one root `DB`. It calls `Transaction`, whose function may
call `Transaction` again on the `DB` it is given.

| In the model | In the code |
|---|---|
| `level[s]`, `db[s][l]` | calls of `Transaction` on the stack; the clone each gives to its function: `DB.db` and whether `DB.Error` is set |
| `rehearse[s]` | `values[OptKeyCommitDisabled]`, inherited by every clone |
| `unwind[s]` | what runs the deferred functions: a panic, `runtime.Goexit` |
| `dialect` | the handle that `SetDB` has put in the one dialect of the root |
| `Begin`, `BeginFails`, `BeginNested` | the branches of `DB.Begin`, up to the call of `f` |
| `AddError` | `f` sets an error on the `DB` it was given |
| `Return` | `f` ends and the deferred function of `Transaction` runs: `End` is its `Commit` or `Rollback`, `Result` what it returns, `Goes` what goes on up the stack |
| `mixed[u]` | the function of a call of the unit has nested another or set an error on its own `DB` |

Abstractions. What statements do is one bit per transaction. `SetDB` writes an interface without a lock; the model takes that
write as whole. What a program does with the value of a panic that reaches the top is left out: the
session may call again. `Begin`, `Commit` and `Rollback` called by hand, `RawTransaction` and `Close`
are left out, and so are the callback chains, which do not begin a transaction of their own inside
of `Transaction` (`aorm:disable_scope_transaction`).

### ModelStructStorage

| In the model | In the code |
|---|---|
| `map` | `ModelStructsMap` behind its lock; `Hit` and `Miss` are its `Get` |
| `struct[i]` | a `ModelStruct`: how far its `setup` is (`phase`), who asked for it (`caller`), the plain fields, relations and children it has so far (`own`, `rels`, `kids`), and its primary fields: none, found by name or tagged (`key`) |
| `top[p]`, `ask[p]` | the Go stack of a goroutine: `setup` inside of `getOrNew` inside of `setup` |
| `Publish`, `Create` | `create`, which puts the struct into the map before its setup |
| `Embed`, `Copy` | the scan of embedded fields, which copies what the embedded struct has by then |
| `Adopt` | the children of an anonymous embedded struct, which are made again for the struct that embeds it, whatever error that gives |
| `Relate`, `Merge` | the deferred functions, in reverse order (`Reversed`), and what they do with the struct they get |
| `BecomesChild`, `Return` | a struct field whose type has no primary field by then: `addChildField` makes a child of it |
| `Unpublish`, `TakenOver` | `addChildField` and `addChildSliceField`, which delete the entry again |
| `Finish`, `Fail` | the end of `setup` with `setupIndexes` unless embedded, or with an error: the entry stays |

Abstractions. Fields are the set of types they come from. Types are fixed by the program, so their
graph is a constant; the instance has a cycle through slices, two types that embed one that refers back to
them, with the key declared after the embedded field and before it, an anonymous embedded type with a bad index
and a child, INLINE slices with and without a key and a field of an excluded type. The children of an anonymous
struct are made again in any order. A many-to-many relation that came with an embedded struct, which is set up
again, the second `getOrNew` of a belongs-to relation (it hits what the first has returned, unless another
goroutine has dropped it) and the `Parent` of an INLINE slice's struct are left out. INLINE or keyless types on a cycle would
recurse for ever (nothing publishes them), and so would an anonymous struct with a child that embeds it; no
instance has one.

### RelationSetup

`shape` is a struct as its Go type declares it. Fields have their turn in reverse order, as deferred
functions do; each action is what one of them makes of its field.

| In the model | In the code |
|---|---|
| names as sequences of parts | field names; a prefix is a first part (`strings.HasPrefix`) |
| `HasManyKeys`, `HasOneKeys`, `BelongsToKeys` | `foreignKeys` and `associationForeignKeys` before they are paired |
| `Pairs`, `OutOfRange` | the loop over `foreignKeys`, with `associationForeignKeys[idx]` |
| `constraints` | `ForeignKeys` of the related struct |
| `arrays`, `children`, `many` | `Children` and `HasManyChildren`, two slices that may share an array |
| `panicked` | a deferred function has panicked; the remaining ones run |

Abstractions. A column has its field's name. Join table columns, `IsForeignKey` marks and embedded
many-to-many relations, which are set up as slices again, are left out; so are children of children,
which take their root's primary fields.

### QueryRows

| In the model | In the code |
|---|---|
| `stack[p]` | the calls of a goroutine: a chain, a chain in a method or preload inside of it |
| `f.open`, `free` | `sql.Rows` not yet closed, and the pool |
| `f.err`, `f.sub` | the error of the chain's scope, and of the scope of deeper fields of a preload path |
| `f.at` | where the chain is: building, its statement, its rows, `AfterScan`, preloads, `AfterFind` |
| `lost` | an error was dropped or went into a scope nobody reads |
| `Onward`, `EndRows` | `queryCallback` and `pluck`, whose deferred `Close` runs before what follows |
| `Advance`, `Merged`, `Last` | `preloadCallback` over paths, and `handleManyToManyPreload` over its rows |

Abstractions. Records are counted; which parent an element belongs to is data. A method may query once.
`MaxFaults` failures are met by a call, of a statement, a scan, a method or the building of a query.

### AssociationMode

| In the model | In the code |
|---|---|
| `row`, `joined` | the other table and the join table |
| `field[h]` | the relation's field of the source object of the handle `h`, set before the statement |
| `key[o]`, `ValueKey` | an object's primary key, which the program's copy does not get when passed by value |
| `err`, `dbErr` | `Association.error` and the error of its scope's `DB`, which `Count` reads |
| `Saving`, `SaveValue`, `Link` | `saveAssociations`: `Save` of a value without a key, then `Add` |
| `Unlink`, `ReplaceEnd` | the `Delete` of the join table handler at the end of `Replace` |

Abstractions. Only many-to-many: for the other relations the code makes the field's struct that of its
scope (`association.go:365`), and what is saved depends on which columns two structs share. `failed`, `lost`,
`swept`, `alone` and `burnt` record history for the properties and guard nothing.

### MigratorLifecycle

| In the model | In the code |
|---|---|
| `base`, `own` | tables, columns, indexes, foreign keys and join tables, committed and as the transaction sees them |
| `handle` | the handle in the shared dialect, which `HasTable` asks (`Seen`); errors there are dropped |
| `mig` | the `Migrator`: its `DB`, `failed`, `transaction`, post handlers |
| `stack`, `Route`, `NextOf` | `autoMigrate` of a model and of its children, step by step |
| `Close`, `PostHandler`, `Commit` | `Close`, which skips post handlers once failed |
| `OtherBegin`, `OtherEnd` | another goroutine's transaction, which takes the dialect's handle |

Abstractions. DDL is transactional, as on PostgreSQL and SQLite. A database either takes no statement
after a failed one or goes on (`aborts`). After a failed `Migrate` the program retries, ends the
transaction or gives it up. A database holds no column without its table at the start (`BaseAssumption`).

### SearchChain

| In the model | In the code |
|---|---|
| `heap`, `dbs[h].lists` | arrays with capacity, and the slice headers that `clone` copies |
| `extras`, `dbs[h].extra` | the pointer `search.extraSelects`, shared by clones once it is set |
| `Appended`, `NewCap`, `Capacity` | `append` of one pointer: the capacity doubles, from 1 up to 256 |
| `KeyInFront` | `whereSQL` puts the primary key condition in front, shifting the array in place |
| `Where`, `Places`, `Vars` | the WHERE clause as a set of conjunctions, the marks in the text, the arguments as collected |
| `given` | what each chain was given, for the properties |

Abstractions. A condition is one of five kinds. Text is kept as far as its meaning (AND, OR, NOT) and
the order of its marks. No chain has more than 256 conditions in a list (`ChainAssumption`): from there on
`append` grows arrays by less than twice.

### CallbackRegistry

| In the model | In the code |
|---|---|
| `slots`, `len[r]` | the array of `DefaultCallback.processors`, 37 of 64 slots used, and each registry's slice of it |
| `obj`, `before` | the processors; sorting writes `before` |
| `Place`, `Sorted`, `Runs` | `sortProcessor`, the list of names, the functions of the chain |
| `Add` | `Register`, `Replace` and `Remove`, then `reorder` |

Cycles of `After` are left out (`Behind`): with a `Before` of an unknown name the sort recurses for ever.
Registration while a chain runs is not modelled: `reorder` replaces the chain without a lock.

### CallbackLocks

| In the model | In the code |
|---|---|
| `readers`, `writer` | the `sync.RWMutex` of a registrator; a waiting writer admits no new reader |
| `stack[g]` | `callMethod` of a save inside a callback or method of another; `early`: its scope has an error, of an earlier element of a slice or of another method |
| `Callback`, `MethodDone` | the callbacks of a position, and the methods `X` and `AormX`, the second run whatever the first did |
| `Visit` | `call` and `callChild` over the model, its children and virtual fields |
| `Register`, `Announce`, `Write`, `Unlock` | `Register` and its write lock |

Abstractions. Callbacks are counted, for one method name. Models are numbered so that a property can say
"goes back to its own model or one before it".

## Runs

| Run | Instance | What it shows |
|---|---|---|
| `scope_atomic` | one call, three scopes deep, two nested scopes each, two transactions, every fault but `begin` | `AllOrNothing`, the refinement `AtomicSpec`, `LeakedByBrokenChain`, `BrokenOffByFailure`, and that `IInv` holds before it is proved |
| `scope_faults` | one call with every fault, two scopes deep, two nested scopes each, four transactions, one connection | `NoLostError`, `EndedByStarter` |
| `scope_pool` | two calls, one nested scope each, one connection | `EveryCallReturns`: both return unless a connection has leaked |
| `user_nested` | two sessions, two calls each, three levels, one connection, every fault | `AllOrNothing`, `NothingLeftOpen`, and that `IInv`, with `RehearsalStaysHidden` in it, holds before it is proved |
| `model_struct_storage` | two goroutines, one call each, thirteen types of which the program asks for eight | what is returned is complete, raced, failed or `Circular`; cycles end; one struct for good |
| `relation_setup` | one related field with all tags over two keys, and up to four fields of nine sorts (seven children) | the keys are paired as said, panics and lost children only in the named cases |
| `query_rows` | two goroutines, one connection, one row, calls three deep, one failure | connections come back, errors are told, calls return unless starved |
| `association_mode` | two handles of one row, three calls, two failing statements | field and join table agree, retries store nothing twice |
| `migrator_lifecycle` | one table with a child and a join table, two calls of `Migrate`, one failure, another goroutine's transaction | success applies everything, failure nothing, a retry commits nothing |
| `search_chain` | up to three calls, of any list, on a `DB` with none to five conditions | chains keep their conditions, mean what they say and bind their arguments |
| `callback_registry` | three registrations of any kind in two registries | callbacks run once, in the order asked for |
| `callback_locks` | two goroutines, two models, saves two deep, one registration | hangs and races only in the named cases |

The invariants of a module that need no name of their own in a run are the parts of its `Inv` (of `IInv` where it
is proved): the type invariant, and for instance `NoTypeTwice` and `StackInv` of `ModelStructStorage`,
`ConnectionsReturned` of `QueryRows`, `ClashOnlyIfHandleTaken` of `MigratorLifecycle`.

Many properties are of the form "this goes wrong only if": the condition names the case in which the code
does go wrong, so that the property says exactly where the rest may rely on it. Each condition is needed;
without it TLC finds the case.

Bounds. In `ScopePipeline`, `MaxDepth = 3` gives a nested scope with nested scopes of its own, so an error
can cross two levels and a middle scope is both callee and caller; `MaxNested = 2` lets a loop go on with a
second nested scope or join row after an error of the first. `Tx` limits how many transactions can ever be
begun: a call begins one per unit without faults, and each nested scope may begin one when the outer
`Begin` failed, hence four in `scope_faults`. `MaxOpen = 1` is the smallest pool, the one in which waiting
on each other shows first. `user_nested` has three levels so that a panic with a value that is no error
turns into one with an error on the way and still has a level to cross.

One connection in `query_rows` is where a goroutine that holds rows meets one that wants them; depth three is a
query in a method of an element of a preload. `search_chain` starts from none to five conditions: an array has
room for the first time at three, and from five two chains can go on before it is full; three calls are two
chains that go on from a third, or a `Where`, `Or` and `Not` in every order. In `relation_setup` two fields of keys in and out of step give
every misalignment of two positions, three names one in the middle, and seven children every capacity up to
eight. Two registrations suffice for a conflict of `Before` and `After`, the third comes before, between or
after them. Two calls of `Migrate` are a failure and its retry. Every run bounds calls, so the systems
really stop, and every configuration says `CHECK_DEADLOCK FALSE`; what must not stop is said by the
liveness properties.

Fairness. `FairSpec`, of three modules, has weak fairness of the steps of each goroutine
inside a call: one that can go on does. Nothing makes a call start. In `ScopePipeline` weak fairness is enough for
the goroutines that compete for a connection, because each makes a bounded number of calls. In `QueryRows` `FairSpec`
has strong fairness of `Statement` as well: a connection may become free and be taken again many times while a
goroutine waits, but `database/sql` hands out connections in the order of the requests, so that one which becomes free
again and again reaches whoever waits.

## What the models show of the code

- A chain broken off by an error or by `SkipLeft` never reaches `CommitOrRollback` (`scope.go:597-606`
  against the comment at `scope.go:484`): its transaction stays open (`LeakedByBrokenChain`).
- The error of a failed `Begin` is dropped and the chain runs without a transaction (`scope.go:475` against
  `callback.go:54`). An element of a has_many relation is saved, by a whole chain, although its foreign key could
  not be set: its `DB` is made before the error (`callback_save.go:96`). `UpdateColumn` runs the model's before methods (`callback_update.go:37` against
  `main.go:552`).
- A nested `Transaction` commits the outer one (`main.go:659`, `main.go:671`); the dialect goes on asking a
  transaction that has ended (`main.go:656`, `dialect_sqlite3.go:86`).
- A struct is seen half built by other goroutines, and for good after a failed setup (`modelstruct_storage.go:84`);
  a type first met as embedded has no indexes (`modelstruct_setup.go:17`). A type that embeds one which refers
  back to it is met without its primary fields, becomes a child of it and loses its entry in the map
  (`modelstruct_setup.go:485`, `modelstruct_children.go:18`), unless its key is tagged and declared first.
- Keys are paired by position in lists filtered one by one (`modelstruct_setup.go:239-279`), which misaligns
  them or runs past the end; a constraint is made for fields that become no relation
  (`modelstruct_setup.go:100`, and then `modelstruct_fk.go:51`); `HasManyChildren` forgets all INLINE slices
  but the one set up last (`modelstruct_children_slice.go:27`).
- Preloading a path with dots panics on options that are nil (`callback_query_preload.go:72`); errors of
  many-to-many elements and of deeper fields are lost (`callback_query_preload.go:346`); queries in methods
  run while rows are open, so goroutines can starve each other. `PluckFirst` asks for the error that ends its rows only inside
  its loop (`scope.go:725-731`): one after the row is dropped, one before it is reported as `ErrRecordNotFound`.
- After a failed save `Replace` still unlinks the old rows (`association.go:63`); a value whose INSERT was
  rolled back keeps its key and is linked, dangling, by the next call; `Count` after a failed `Find` panics.
- A `Migrator` that failed leaves its transaction open (`migrator.go:63`), and a retry takes it for the
  program's and commits nothing; errors of children's migrations are dropped (`scope_migration.go:220`).
- Two chains that go on from a number of common conditions that is not a power of two share an array (`search.go:43`); arguments of
  Or and Not change places where marks are bound by position, in a statement (`scope_sqlbuild.go:99-113`) and in one
  `Conditions` (`conditions.go:82-98`); a list of `WhereClauser`s loses its arguments and is no valid condition
  (`clause.go:34-46`); Where after Or, and a Query or Conditions beside others, do not mean what they say.
- A callback with an order on both sides runs twice; a second `DB`'s first callback overwrites the first
  `DB`'s (`callback.go:38`).
- A callback that saves a record of its own model hangs behind a waiting `Register`
  (`modelstruct_callbacks.go:56`); registrators of children are read without their lock.

## Proofs

The theorems about `ScopePipeline` hold for every `Op`, `Tx`, `Kinds`, `Faults` and bound that satisfy
its four assumptions (`Pool` is no transaction, `None` no unit, kinds and faults are among those listed,
bounds are naturals).

- `TypeCorrect`: `Spec => []TypeOK`, by itself inductive together with `depth`'s range.
- `Inductive`: `Spec => []IInv` when `"begin" \notin Faults`. `AllOrNothing` alone is not inductive:
  a nested scope with a handle of its own, or with its caller's mark, would commit part of the unit.
  `IInv` adds what rules this out: `StackInv` (callers wait inside a loop), `TxInv` (one transaction
  per unit, hiding what it holds until it is committed), `UnitInv` (what is known of a unit before,
  while and after it runs) and `ScopeInv`: `OuterInv` says on which handle the outermost scope is at
  each callback, and that a chain that ended there has left no transaction open unless it was broken off;
  `NestedInv` says that nested scopes have the same handle and no mark.
- `AllOrNothingHolds`: the safety property, from `IInv`.
- `Refinement`: `Spec => AtomicSpec` under the same assumption, with `hidden` of a unit mapped to "one
  of its transactions holds statements"; each action is mapped to a step of one unit or a stutter.
- `LeakedOnlyByBrokenChain`, under the same assumption, from `IInv`: a transaction that stays open
  with no scope on it is one of a unit that has failed or skipped the rest of its chain.
- `NoLostErrorHolds` and `BrokenOffHolds` hold with every fault, a failing `Begin` included. Their invariant is
  `ErrInv`: what has failed in the running unit is on the error of one of its scopes, and gets down to the
  outermost one because a nested scope gives its error back; a scope with an error runs no callback; one
  that has an error below the innermost waits (`Waits`) either for a scope opened with that error, which returns at
  once, or for the Save of a has_many element, whose `DB` was made before `SetColumn` failed (`ErrFacts`); a unit
  that has not begun, or that was successful, has not failed (`LostFacts`). `NoLostError` alone says nothing of the
  scopes that are still on the stack.
- `EndedByStarterHolds` holds with every fault too. When a `Begin` fails, the outermost scope goes on without a
  transaction and each scope nested in it may begin one of its own, so that several scopes of one call have a mark.
  The invariant is `StarterInv`: a scope on a transaction is of the unit that began it, and what is opened
  on a scope with a transaction stays on it without a mark, so that of the scopes on one transaction none but
  the outermost can have its mark; so only the starter can be at its last callback, with no scope nested in it.

Without the assumption `AllOrNothing` is false: the statements of a chain whose `Begin` failed commit one by
one, and an error after the first undoes nothing.

The theorems about `UserTransaction` hold for every `Session`, `Tx`, `Faults` and bound that satisfy its
four assumptions (handles differ, `None` is no unit, faults are among those listed, bounds are naturals).

- `UserTypeCorrect`: `Spec => []TypeOK`.
- `UserInductive`: `Spec => []IInv`, with nesting and every fault. `LevelInv` says that all levels of a
  session have the handle of the first, which is the transaction of the session's unit or the nil of
  a failed `Begin`; `OpenInv` that an open transaction has a session inside of `Transaction`; `TxInv`
  and `UnitInv` relate transactions, visibility and what calls returned.
- `NothingLeftOpenHolds` and `RehearsalHolds` follow from `IInv`. `NothingLeftOpen` alone is not
  inductive: a session whose levels had different handles would leave the first one open.
- `TransactionAllOrNothing`: `Spec => []AllOrNothing`, from `IInv` and `FlatInv`, which says that a session
  whose function has neither nested nor set an error on its `DB` is on the first level with its transaction
  open. The exception that `AllOrNothing` makes for the others (`mixed`) is needed: a nested call commits the
  outer transaction, and `Transaction` commits when its function returns nil and then returns the error
  that the function has set on its `DB` (`main.go:690`).

`LeakedByBrokenChain` needs the assumption too: when the outer `Begin` failed, a nested scope begins for itself and
may leak, skipping the rest of its chain, while the call goes on to succeed.

The theorems about `AssociationMode` hold for all handles, objects, arguments, bounds and failures, if objects belong
to one handle each, the links there at the start are of rows that exist, and bounds are naturals (`ObjAssumption`,
`BoundAssumption`). `InvHolds`, `ReplaceHolds`, `StoredOnceHolds` and `DanglingHolds` follow from one invariant:
`KeysAreRows` (a key is that of a row or of an INSERT that was rolled back, and a row of an object passed by
pointer is the one of its key) makes storing twice impossible; `ReplaceLinks` says that a Replace nobody overlaps has
linked all that its field has, until it meets an error, which `ReplaceLeavesItsField` does not say before the call ends;
`ErrorsStick` keeps an error of the scope on the association, and so panics behind errors. The field is a set in the
model because nothing it is used for looks at the order or the number of its elements.

The theorems about `CallbackLocks` hold for all goroutines, any finite number of models with any children and
callbacks, and any depth of saves (`LocksAssumption`). The invariant says what goes with a lock: the
readers of a model are the `Call`s on the stacks that are between their `RLock` and `RUnlock` (`Counts`), its writer is the
one that has announced itself (`WritersFit`), and a callMethod below the innermost is in a callback or method (`Fits`).
`HangHolds` follows by well-founded induction on the order of the models: goroutines that wait for each other for ever
hold locks in an order that closes a circle, and somewhere one of them turns back.

The theorems about `QueryRows` hold for any finite number of goroutines, any paths, rows, connections, faults and depth, if
has-many and many-to-many relations differ and preloads chosen automatically are of one field (`OpAssumption`,
`BoundAssumption`). The invariant counts: connections of the pool, of transactions and of frames with open rows
add up (`ConnectionsReturned`), and only a frame in a loop over rows has them open (`RowsFit`). An error on a
stack has its origin (`Explained`), and a failure is on some frame until it is recorded where nothing reads it (`Kept`);
`NoErrorLost` and `PanicsOnlyOnFailureOrPath` follow, which say nothing of calls still on the stack.

The theorems about `ModelStructStorage` hold for all goroutines, types and graphs of types, if what the program asks
for has a name and is not INLINE, KeyFirst types are Tagged and those Keyed, the slices tagged INLINE are slices, and
bounds are naturals (`TypeAssumption`, `BoundAssumption`, `NoneAssumption`). `Invariant`: `Spec => []IInv`.

- `Stack` orders the stacks: of two structs that a goroutine is setting up, the one created first is not above the
  caller of the other. From it follow that a struct is on one stack once (`StackInv`), and that a setup that returns
  finds its caller waiting.
- `Waiting`, `Asking` and `Called` say what a setup waits for: it is in its scan or its relations, what it has asked for is
  the next of its fields or a child, and one that waits in its scan embeds a type. `Sound` says what is known of a
  struct by its phase: one that has ended its scan has its key, one that is done its indexes unless embedded.
- `Unraced` holds as long as no two goroutines have been in the storage at a time (`Alone`): what was missed is still not in the map,
  a shared type that is being set up is in it under its number, and children are made of excused types alone: those
  met half built, in their scan of an embedded type before their key, or failed.

`InvHolds`, `HalfBuiltHolds` and `OneStructForGoodHolds` follow. `NoTypeTwice` and `OnlyKeylessBecomeChildren` alone are not
inductive: nothing in them says why a type that is missed is not being set up, nor where a struct without
a key comes from. Most actions change the struct at the top of one stack and leave the stacks as they are (`InPlace`), and one lemma
(`InPlaceInv`) says what such a step owes the invariant; `Create` and the return of a setup are proved by themselves.

`CompleteHolds` needs a second invariant, `CInv`, inductive with the first. What a type embeds (`Embedded`) and what its
setup may come to (`Within`) are least closed sets, so that no induction over the depth of embedding is needed.

- `Fit`: a struct has no more than its type says. `Filled`: it has all that its type says but what the fields that are left
  to do will bring; it holds of types that are not `Circular`, until goroutines meet or a setup fails (`Clean`).
- `Chained`: the type of a setup is `Within` those of the setups below it on the stack. This is why a struct whose fields are
  copied is done: were it half built, it would be lower on the same stack (`Alone`), its setup would have come
  back to the type that embeds it, and that type would be `Circular`.

The theorems about `MigratorLifecycle` hold for all types, children (cycles among them included, although a program
whose types form one does not end), functions, numbers of connections, failures and calls, if no type has two join
tables (`TypeAssumption`), bounds are naturals and no database starts with a column whose table is missing
(`BaseAssumption`; without it `HasTable` finds no table, and creating it makes the column twice). The types below a type
(`Tree`) are the least set that holds it and the children of all it holds. `Inductive`: `Spec => []IInv`.

- `Sees` says what the dialect finds: the Migrator's own transaction unless another goroutine took the
  handle, so that no table is made that is there (`ClashOnlyIfHandleTaken`).
- `Life` says that a Migrator has its own transaction in its first `Migrate` only, and that the database is until the
  commit what it was.
- `Progress` says how far a migration is as long as no error was dropped: each type asked for is whole (it and all below it have
  their table, columns, index, join tables and a handler for their foreign keys) or is being migrated, and each
  frame on the stack has made what its stage says; a child that is not left to do is whole or is the next frame.

`InvHolds`, `SuccessHolds`, `FailureHolds` and `RetryHolds` follow. `SuccessMeansApplied` alone is not inductive: it says
nothing of the frames that are still on the stack, nor of the transaction before its commit.

The theorems about `SearchChain` hold for any numbers of common conditions and further calls, and any lists, if
together they are no more than 256 (`ChainAssumption`). The invariant says that a slice fits its array, whose capacity is
a power of two less than twice its length (`SliceFits`), so that `append` is in place only from a length that is none;
that an array belongs to one list, and either all chains in it read what they were given or all have a witness, some
conditions that two went on from (`Shared`); that conditions are numbered by the calls they came with, so that two
calls never add the same (`Numbered`); and that all with one pointer to extra selects have the same first one
(`ExtraFits`). `InvHolds` follows; `OwnConditions` alone does not say which chains the next `append` may overwrite.

`MarksHold` is about what `FlattenSeq` puts together for any number of conditions (`FlattenFacts`): it counts up to
their number by the well-founded order on the naturals (`CountUp`, for a set of numbers), since the recursive function
of `FlattenSeq` is known only up to a `CHOOSE`. A list has no more arguments than marks, and as many only if none is
lost to a list of clausers or an empty list of tuples (`ListArgs`). Then all parts of the statement have as many
arguments as marks, so that the whole is the same only if the parts are (`SevenCancel`), and a part is only if it has
no `Conditions` with Or and Not (`FlattenCancels`). With both Or and Not in the statement their orders differ: the
first argument of Or is no mark of Not because what chains read of one list comes from other calls than what they read
of another (`Apart`, an invariant besides `IInv`: appends and shifts in an array keep to its list).

Only model-checked: the properties of `RelationSetup` and `MeansWhatIsChained` of `SearchChain`, which filter keys and calls by
`SelectSeq`, an operator the prover has no definition of; those of `CallbackRegistry`, whose sort is a `RECURSIVE`
operator; and liveness, which is beyond the prover.

## Plan

What is left, in this order.

1. `AssociationMode` for has-many and belongs-to relations.
2. A table of rows under `Save` and `FirstOrCreate` by concurrent callers, with stale row counts.

## Not modelled

- SQL text (dialects, quoting, clauses other than WHERE), field tags and column types, logging, the
  conversion of identifiers and custom types: data transformation without control that interacts with
  anything else.
- Rows of tables, and so two concurrent saves of one key (`main.go:572`) and decisions on a stale
  `RowsAffected` (`callback_update.go:144`).
- `Begin`, `Commit` and `Rollback` called by hand on nested clones, `RawTransaction`, `Close`; `Rows` and
  `Row` handed to the program; `DropTable`, `ModifyColumn` and the other single statements of
  `main_migration.go`.
- The `database/sql` pool and the server, but for what the chains rely on.
