# A formal model of py10x

py10x is a Python framework in which domain objects (*traitables*) are declared
by their traits, computed lazily by a dependency graph, and saved as documents
in a store: MongoDB, or an SQL database through Ibis (Postgres, DuckDB).  On top
of that it has an audit history of every object, event processing, a logger, a
secret vault, two user-interface bindings and the tools that release its own
packages.

This directory holds TLA+ modules for the parts in which several actors share
state, TLC configurations that check them on small instances, and proofs, checked
by TLAPS, of what holds for any number of clients, objects, revisions and events.
`PROJECT.json` maps every definition to the lines it models.

## 1. The system

| Component | State it keeps | Operations | Talks to |
|---|---|---|---|
| Traitable (`core_10x/traitable.py`) | the traits and the revision `_rev` of each object in the process's cache | `save`, `delete`, `load`, `reload`, set a trait | its storage helper, the native kernel's cache |
| Storage helpers (`StorableHelper…`) | the helper cached per class | `save` (document, history, `set_revision`), `history`, `latest_revision`, `restore` | a collection of the class's store, the history class |
| As-of reads (`AsOfContext`) | a time, the helpers it replaced, an object cache of its own | enter, exit | class attributes of the whole class tree |
| `TsStore` (`core_10x/ts_store.py`) | a stack of open transactions | `transaction`, `SaveIfChanged`, `copy_to` | the database connection |
| Ibis stores (`infra_10x/ibis_store.py`, `postgres_store.py`, `duckdb_store.py`) | one connection, cached table columns, collection handles | `save_new`, `save`, `delete`, lazy `CREATE TABLE`/`ADD COLUMN`/`CREATE INDEX` | the SQL database |
| MongoDB store (`infra_10x/mongodb_store.py`) | one client, a session per transaction, deferred indices | the same | MongoDB |
| Union (`core_10x/ts_union.py`) | an ordered list of stores: a writable head, read-only tails | merged `find`, `load`, `save` to the head | its member stores |
| Resources (`core_10x/resource.py`) | a stack of the resources in use per type, instances by key | enter, exit, `instance` | the kernel's processing flags |
| Caches (`core_10x/global_cache.py`) | results of `@cache` functions | call, clear | every component |
| Events (`xxcommon/event*.py`) | a watermark per event class | fetch pending events, process, advance | the events' store and its clock |
| Logger (`core_10x/logger.py`) | a queue and a child process | log, begin, end | the log store |
| Vault (`core_10x/sec_keys.py`, `vault_utils.py`) | the operating system's keyring, vault users and accessors | onboarding on a new machine or of a new user | keyring, vault store |
| User interface (`ui_10x`) | the entity being edited; one current session (Rio) | save and retry, `session_context`, signals | traitables, event loop |
| Release tools (`dev_10x`) | local branches and tags of several git repositories | promote, yank, reset-local | git remotes |
| Basket (`core_10x/basket.py`) | buckets of members by tags, a list of bucketizers | `add`, `add_bucketizers`, the setter of bucketizers, queries over buckets | the traits of its members |
| Algorithms (`xxcommon`, `trait_filter.py`, `rc.py`) | none | dates, calendars, curves, filters | — |
| Native kernel (`py10x_kernel`) | object cache and dependency graph | get/set value, serialize | external: its source is not in this repository |

### What is hard in it, and what makes each part correct

*Saving* is optimistic concurrency control.  An instance carries the revision it
was loaded with, the collection writes only where that revision is still current,
and the new revision goes back into the instance.  It is correct if a save never
overwrites a change its instance has not seen, which rests on a less visible
fact: **one revision number of one document stands for one content**, through
rollbacks, lost acknowledgements, crashes, deletes and restores.

*History* is a second write for each new revision, by `EnvVars.use_ts_store_transactions`
inside the same transaction.  It is correct if a document and its trail change
together, if the trail is in order of revisions and never shows a revision that
was not committed.  Transactions nest: an inner one ends nothing, so a failed
save inside an enclosing block leaves half a save behind unless the caller raises.

*Lazy schema*: tables, columns and indices are created on first write, inside
whatever transaction is open, and remembered in process-wide caches.  Correct
if what is remembered is what is there after rollbacks and other processes' DDL.

*Saving many objects* (`SaveIfChanged`) opens one transaction per store and
commits them in turn.  Correct if all of one store's saves stand or fall together,
and if a block that ends without an exception has saved everything.

*A union* looks into its head, then into its tails, and every call is several
calls of its members.  Correct if a save never overwrites what nobody has read,
and if the merge of results that each store sorts and limits on its own is the
result one store would give.

*The logger* is a queue, a child process and an unguarded global.  Correct if what
was put before the sentinel is saved when `LOG.end` returns, and if both `LOG.end`
and the program end.

*Events* are processed by watermark.  Correct if each event is processed at least
once, and a second time only after a crash.

*As-of reads, resources, sessions* are stacks of contexts that replace
process-wide state.  Correct if leaving a context puts back what entering it found, and if no class
goes on reading the past.

*A basket* files each member under the tags its bucketizers gave it, and files all
of them again when the bucketizers change.  Correct if a member is in one bucket,
the one its tags say, and if filing again loses and doubles nothing.

*Release promotion* changes several repositories and then pushes them one by one.
Correct if what is published makes sense after any prefix of the pushes, and if
an interrupted run can be repeated or undone.

The full list of hazards, each at its line, is in `PROJECT.json`, each with the
properties that would catch it.  Where the code itself goes wrong, the property
excepts that case, section 4 describes it, and the hazard names no property.

## 2. The modules

| Module | What it is |
|---|---|
| `AuditedStore` | abstract: documents and trails change in one step |
| `TraitableStore` | saving, deleting, loading and restoring by many clients over one store |
| `MCTraitableStore` | its small instances: two clients, one document, three contents |
| `TraitableStoreProofs` | its theorems |
| `EventProcessing` | writers of events, the stores' clocks, processors working by watermark |
| `MCEventProcessing` | its small instances: two events of two classes, one or two stores and processes |
| `EventProcessingProofs` | its theorems |
| `IbisCollection` | one collection of an SQL store: table, columns and indices created on first write, and what each process remembers of them |
| `MCIbisCollection` | its small instance: two processes, one with save transactions, two keys, two documents |
| `IbisCollectionProofs` | its theorems |
| `BatchSave` | `SaveIfChanged` over several stores |
| `MCBatchSave` | its small instance: two stores, a class and a subclass kept in another store, a reference between stores |
| `BatchSaveProofs` | its theorems |
| `UnionStore` | a union of a head and a tail |
| `MCUnionStore` | its small instance: two clients, three documents |
| `UnionStoreProofs` | its theorems |
| `LogProcess` | `LOG`, the queue and the logger process |
| `MCLogProcess` | its small instance: two threads, two Loggers |
| `Contexts` | stores in use, `CACHE_ONLY`, as-of contexts |
| `MCContexts` | its small instance: five classes, one of them with two bases |
| `ProcessProofs` | the theorems of `LogProcess` and `Contexts`, which both describe one process |
| `Basket` | a basket whose bucketizers are added to and replaced while it has members |
| `MCBasket` | its small instance: two objects, five lists of bucketizers of all kinds |
| `BasketProofs` | its theorems |
| `ReleasePlan` | the planner of `xx-promote`: pure operators on versions and tags |
| `Promotion` | the runs of `xx-promote` over clones and origin; extends `ReleasePlan` |
| `MCPromotion` | its small instance: core and one sibling |
| `PromotionProofs` | its theorems |

The modules share no variables.  What one assumes of another is what the other
shows: `BatchSave` and `UnionStore` use saves that succeed or fail as a whole,
which is `TraitableStore`'s refinement of `AuditedStore`; `EventProcessing` uses the
same; `Contexts` says which store and which time those operations work on.

### TraitableStore

State: `doc` and `hist` are the committed documents and history entries (in order
of the server time `_at` they carry); `obj` is each client's in-memory instances;
`op` a `save()` under way; `outer` whether the client is inside a
`with store.transaction()` block; `pend` and `phist` what its open transaction
has written.  `epoch`, and `epoch` and `base` inside `doc` and `obj`, are ghosts:
the incarnation of a document (a delete, a second insert or a `restore(save=True)`
begins another) and the content an instance's revision stands for.  No action's
guard reads a ghost except through the bound on incarnations.

| Action | Code |
|---|---|
| `SaveDoc` | `StorableHelper.save` up to and including the collection's `save`/`save_new`: insert for revision 0 and immutable classes, otherwise update where the revision matches, which counts only if something changed |
| `SaveHistory` | `_save_serialized` of the history helper: an entry if the revision advanced |
| `SaveEnd` | the transaction's commit (a no-op in an enclosing block) and `set_revision` |
| `SaveFail` | any statement of `save()` raises: `RC(False)`, rollback of its own transaction; in an enclosing block the caller either throws the RC, which aborts the block (`Outer = "throw"`), or goes on (`"ignore"`) |
| `SaveUnacknowledged` | COMMIT took effect but raised: `set_revision` is not reached |
| `Begin`, `Commit`, `Abort` | `TsStore.transaction` around the client's own code |
| `Load`, `Edit`, `Delete`, `Restore` | the other operations on an instance |
| `Crash` | a client process dies and a new one starts |

The database is external: `View`, `CanWrite`, `Put`, `Write` say what is assumed of
it.  A transaction's writes are private until COMMIT and lock the rows they
touch; an update blocked by a lock is evaluated on the row as it is when the lock
is released (READ COMMITTED, the stores' default on Postgres).  DuckDB and
MongoDB raise a conflict instead of waiting, which is `SaveFail`.  A statement
that fails inside a Postgres transaction makes its COMMIT a rollback, which is
`Abort`; `SaveFail` with `Outer = "ignore"` stands for the failures the database
does not see (verification or serialization of the history entry raise in the
client) and for stores whose transaction stays usable.

One `save()` is one document: `save_references` cascades and lazy instances are
left to a later module.  `verify()` and `share()` failing before any statement are
stutters.

### EventProcessing

State: `clock` is each store's `server_time()`; `at` and `visible` the events'
stamps and which of them are committed; `saved` the processor's document, that
is its watermark per event class (`last`) and a tally per event; `proc` the
processor object of each process: what it has in memory (`mine`), how far
`pending_events` has got (`next`, `wm`, `batch`) and whether its revision is the
document's (`fresh`, which is all that saving needs of revisions here;
`TraitableStore` models the numbers).  `out` counts the outputs handlers have
saved and `faults` the faults so far; `exposed` is a ghost.

| Action | Code |
|---|---|
| `ReadClock`, `Fetch` | `pending_events`: one `server_time() - 1 ms` per store, kept in a dict for all of its classes; then `load_many` of the events strictly between the class's last watermark and this one |
| `Process` | the loop of `process_pending_events`: a handler per event, in the order of `_at` |
| `Advance`, `AdvanceStale` | `advance()`: the watermarks are set and the processor saved, in one document; a stale revision makes the save fail, and nobody looks at the RC |
| `SaveFails`, `SaveUnacknowledged` | the same save failing before the store, or after its COMMIT |
| `HandlerFails` | a handler raises; the caller calls `process_pending_events` again |
| `Restart` | the process dies; a new one loads the document |
| `Tick`, `SaveEvent`, `CommitEvent`, `RollbackEvent` | the stores' clocks and other processes saving events: the stamp is taken by the statement, the event is visible after COMMIT |

A handler is the application's.  It is modelled by the two effects that tell
repetitions apart: it changes the processor's own traits, which are saved with
the watermarks (`tally`), and it saves something of its own (`out`).
`needs_processing` filters are the application's too and are left out.

Nothing bounds the time from a statement to its COMMIT: with
`use_ts_store_transactions` or an enclosing block it is as long as the transaction;
and a stamp may be equal to a watermark.  Hence events can be missed (divergence 4),
and the ghost `exposed` collects those that can: an event that is committed more than
a millisecond after its stamp (`Late`), and one stamped exactly at a watermark that
some process takes (`StampedAt`).  No guard reads it.  `NoneMissed` and
`EventuallyCounted` say that no other event is missed, whatever happens to the exposed
ones; they do not say that an exposed one is lost, and many are counted all the
same.  The other properties are about all events.

### IbisCollection

State: `db` is the committed table (whether it exists, its columns, its index, its
row), `holder` the process whose transaction has written and `work` the table as
that process sees it; `con` is each process's connection (a transaction is open,
it is the application's block, a statement of it has failed); `cache` the
process's `@cache`d column map, `ensured` the run-once `_ensure_indices`, `op` the
save under way.

| Action | Code |
|---|---|
| `Save` | `StorableHelper.save` as far as `collection(_ensure_indices=True)`; with the indices ensured, on into the save's own transaction |
| `LookUp` | `_collection_columns`: the catalog is read if nothing is remembered |
| `CreateTable`, `AddColumn` | `ensure_table`, `_ensure_columns`: one statement each, then the map is replaced or extended |
| `CreateIndex` | the `CREATE INDEX` of `_ensure_indices`, which is then done for this process; the save's transaction opens after it |
| `WriteRow` | `_make_row_tuple` and the `INSERT`, upsert or `UPDATE` |
| `SaveEnd`, `SaveFails` | the end of the save's own transaction; a statement the server rejects, a conflict, a history entry that is not written |
| `Find` | `_ibis_table_or_none`, which forgets a table that is gone |
| `Delete`, `DropTable` | `IbisCollection.delete`, `IbisStore.delete_collection` |
| `Begin`, `Commit`, `Abort` | a `with store.transaction()` block; `COMMIT` of a broken transaction is a rollback that reports no error, as on Postgres |
| `Crash` | a process dies and a new one starts |

A document maps each key to a value, to None or to nothing.  A row keeps the keys
of scalar type in columns and the others, with a None for every null column, in
`_data`.  `Finds` is the predicate `_ibis_col` builds, `Decoded` is `_decode_row`.

Assumed of the database: one document, a single transaction with uncommitted
writes at a time, readers that wait for an uncommitted `ALTER` or `DROP` and
otherwise see the last committed table.  Left out: revisions (an update may
always turn out to be a conflict, `TraitableStore` says when), a COMMIT that
raises, bundles that widen the eligible keys later, stores without
`ADD COLUMN IF NOT EXISTS`.  `delete_collection` of a name with neither handle nor
table does what `Find` does.

The properties name the exceptions the code has.  `CacheKept`: another process
drops the table; or a block whose statement failed is committed all the same, which
rolls back without `_forget_all_collection_columns`.  The process then fails until
its next outermost rollback.  `IndicesKept`: a block that created the indices is
rolled back, or the table dropped, and the process does not create them again
(`GETTING_STARTED.md:1583`, "Indexes are created on first write").

### BatchSave

State: `doc` is the committed documents of all stores, `draft` what each store's
open transaction has written, `mem` the objects of this process, `block` the
`SaveIfChanged` block (what is tracked, which transactions are still to be opened
and which are open, what is still to be saved), `used` the bounds.  `put`, `wrote`,
`opened` and `met` inside `block` are ghosts: what the block has saved, which of it
is committed, where it opened transactions, what the other client has touched.

| Action | Code |
|---|---|
| `Enter`, `Change`, `Leave` | the generator up to `yield`, the tracker, `end_using` and the set of stores (`ts_store.py:259-277`) |
| `OpenTx` | `enter_context(store.transaction())`, in the order of a set |
| `SaveRef` | `serialize_object(NEW_ONLY)` saves an unsaved object that the present one refers to, before the statement for the present one |
| `SaveNext`, `SkipNext` | `traitable.save().throw()` in the order of the first changes; an object of no listed class is passed over |
| `SaveFails` | `verify()` or a statement fails |
| `CommitTop`, `CommitFails`, `AbortTop`, `End` | the exit stack: transactions end in reverse order, one that raises makes those below it abort |
| `Reload`, `Crash`, `OtherSaves` | what happens around it |

Transactions here have no enclosing block and one save is one statement:
`TraitableStore` has the rest.  A referenced object may be in a store that the
block opened no transaction in, and is then written at once.  An exception of the
application's own inside the block is left out (divergence 3 says what it leaves).

### UnionStore

State: `head` and `tail` are the two stores' collections, `hist` the history (the
union's history collection is one of the head), `obj` each client's objects, `op`
its call in progress.  `born`, `base` and `side` in documents and copies are ghosts.

| Action | Code |
|---|---|
| `LoadHead`, `LoadTail` | `TsUnionCollection.load`: the first store that has the document |
| `SaveCheck` | the application changes the object; `save` asks the head whether the document exists (`ts_union.py:94`) |
| `SaveWrite`, `SaveRefused` | `save` or `save_new` of the head, the history entry if the revision advanced, `set_revision` |
| `DeleteHead`, `DeleteCheck` | `delete` of the head, then `StorableHelper.delete` looks whether the document is still found |
| `FindHead`, `FindTail` | the query of each store, sorted and limited by it; `heapq.merge` with `_OrderKey`, then the limit |
| `FindEnd` | `load_many`: every result is deserialized into its object, the last one stays |
| `TailWrite` | another program saves the tail's document |

The calls of one operation are separate steps, so anything may happen between the
head's answer and the tail's; only `DeleteCheck`, which
asks whether the document is still found, looks into both at once.  `Merged` is `heapq.merge` of the two answers: after i
documents of the head and j of the tail, `Takes` says whose turn it is, and `Taken`
counts, recursively, how many of the first k come from the head.  `count`, `max` and `min` combine two answers and change
nothing, and `ensure_index` goes to the head: they are left out.

### LogProcess

State: `LOGGER` is the global; `put` everything put into each Logger's queue, `sent`
and `got` how much of it the feeder has written to the pipe and the process has
taken; `proc` the processes, `thread` the threads inside `LOG`, `exit` the end of
the program.

| Action | Code |
|---|---|
| `Begin`, `Create` | `LOG.begin`: the check, then a new `Logger`, whose process starts |
| `LogCheck`, `LogPut` | `LOG(...)` reads the global twice: to find out whether there is a Logger, and to put |
| `End`, `EndJoin` | `shutdown`: the sentinel is put, the process joined, the global set to None |
| `Feed` | the feeder thread of `multiprocessing.Queue` |
| `Take` | `logger_process`: a message is saved, a None ends it |
| `Die` | the store cannot be reached, or the process is killed |
| `Exit`, `FeedersJoined` | the interpreter terminates daemon processes, then joins the feeders |

A payload is Text or None: `logger_process` cannot tell a None that was logged from
the sentinel.  Levels, formatting and the traits of a message are left out.

### Contexts

State: `helper` is the helper cached in each class (`s_storage_helper_cached`): a
time stands for `StorableHelperAsOf`, `Live` for the others; `stack` the stores in
use, `bpc_flags` the flags each store keeps, `cache_only` the process's flag; `open`
the contexts.  `mixed`, `found` and `left` are ghosts.

| Action | Code |
|---|---|
| `BeginUsing`, `EndUsing` | `Resource.begin_using` and `end_using`, with `on_enter` and `on_exit` of `TsStore` |
| `EnterCacheOnly`, `ExitCacheOnly` | `FlagsContext` |
| `EnterAsOf`, `ExitAsOf` | `AsOfContext`: helpers are put into the listed classes and forgotten below them; on exit they are forgotten everywhere |
| `Use` | a class is used and keeps the helper that `StorageHelperDescriptor` resolves along its bases |

Contexts end in any order, as those that fixtures, sessions and threads begin with
`begin_using` do.  A class precedes its bases in `Mro`, as Python's C3 order
has it.  The object cache that an as-of context installs is the kernel's.

### Basket

State: `the_bucket` is the single bucket of a basket without bucketizers,
`all_buckets` the others by their tags, `bucketizers` the list in force, `value` the
trait of each object that bucketizers look at, `settings` what a basket is made
with.  `changed` is a ghost: the members whose trait has been set since all members
were sorted.

| Action | Code |
|---|---|
| `add` | `Basket.add`: the class is checked, each bucketizer asked for its tag, the bucket found or made |
| `AddBucketizers` | `add_bucketizers(bs)`: new tags are put behind the old ones |
| `bucketizers_set` | the setter: members are cleared, or sorted anew by `add_bucketizers(bs, replace=True)` |
| `SetTrait` | the application sets a trait of an object, in a bucket or not |

The tags are those of the code: `KnownTag` for a class or a feature, `RangeTag` the
first interval that has the value, `BreakpointTag` what `bisect_right` says, with
the last breakpoint apart.  A bucket of any shape is a function from members to
quantities; `_insert` is what the three shapes do with one.  An `add` that is refused
or raises changes nothing, hence is a stutter.  Left out: the queries, which only
read; `f_bucket_tag`, which renames tags; aggregation; baskets of baskets.

### ReleasePlan and Promotion

`ReleasePlan` holds what `xx_plan.py` and `xx_helpers.py` compute: versions and
their order, which tags count, which packages a `pre` or a `prod` cuts, under which
version, with which pins.  State of `Promotion`: `origin` and each machine's `clone`
hold, per repository, the commits of main, the tags, the release branches and
whether files are uncommitted; `run` is the command under way: whether it has
`planned`, the steps it has still `todo`, the references that remain to be pushed
with each repository (`refs`) and by themselves (`isolated`), and the repository to
be pushed `first`.

| Action | Code |
|---|---|
| `Start` | `require_synced` over both repositories, which fetches and reconciles tags by name, and refuses a clone that is not at origin |
| `Plan` | `steps_get`: every step of the run, computed once from the clones |
| `Apply` | one step of `run_steps` before the pushes; one that fails ends the run |
| `PushRepo`, `PushIsolated` | one atomic push per repository, then one per publish trigger |
| `Interrupted` | a run is killed between two steps or two pushes, perhaps with files written and not committed |
| `SourceChange`, `Pull` | somebody commits to main; `git pull` |

A plan is a set of steps, which `Phase` and `Earlier` put in the order of the code's
list: releases or yanks, rollbacks, edits of main, markers, triggers, and core last
among those of a kind (`Upcoming`).  Siblings come in any order among themselves,
which is more than the code does.  The steps themselves are operators: `Promoted`,
`Edited`, `Marked`, `Triggered`, `Yanked`, `RolledBack`, `Reset`, each with the
references it leaves to be pushed (`Bundled`, `Isolated`).  The commands are `pre` and
`prod` with or without `--no-publish`, `--publish-only`, `yank` and `resync`.  A run
without `--push` leaves what one that is interrupted before its pushes leaves.
Commits carry the sources of each package, the test groups and core's pins, which is
all that plans look at. Left out: which branch is checked out in a clone that an
interrupted run has left, downstream packages, `--next-version`, `status`, dry
runs, and the answers of PyPI and GitHub, which only warn.

## 3. Runs

All runs pass: TLC explores the whole instance.

| Run | Configuration | Shows |
|---|---|---|
| `StoreTx` | transactions, delete, restore, no enclosing block | `TypeOK`, `VersionIdentity`, `NoLostUpdate`; the store implements `AuditedStore` |
| `StoreOuter` | enclosing blocks whose callers throw | the newest history entry is the document's (`LatestRevisionIsCurrent`), and entries are in order of revisions (`HistoryInRevisionOrder`) |
| `StorePlain` | no transactions | no update is lost in any circumstances, no history entry is ahead of its document |
| `EventTwice` | two processes run the same processor on one store; each may restart, fail to save, lose an acknowledgement | no event is missed but an exposed one (`NoneMissed`), none is counted twice (`CountedOnce`), stamps are followed (`InOrder`), the watermark only advances, and outputs are repeated only by a restart or a second process |
| `EventLive` | two stores with clocks of their own, a handler that raises, a save that fails, a restart | every visible event that is not exposed is counted in the end (`EventuallyCounted`) |
| `IbisColumns` | one process with save transactions, one without; blocks, rollbacks, broken transactions, drops, crashes | what is saved is read back (`SavedReadable`) and found (`FindAgrees`), caches show no more than is there (`CacheKept`), indices stay (`IndicesKept`) |
| `Batch` | two blocks over two stores with three filters, one save of another client, one fault | a store's part of a block stands or falls together (`StoreAtomic`), a failed save is rolled back (`RolledBack`), a block that ends well has saved everything (`Complete`) |
| `Union` | two clients over a head and a tail: two saves, a delete, a find, a write to the tail | no save overwrites what nobody has read (`NoBlindOverwrite`), versions are in the history (`Recorded`), a find is what one store would return (`FindMerged`) |
| `Logger` | two threads, two Loggers, three messages, a pipe of one, one death | `LOG.end` leaves nothing behind (`Drained`) and returns (`EndReturns`); the program ends if its Loggers were ended (`ExitEnds`) |
| `Contexts` | three open contexts over five classes, two stores, two times | classes read at the innermost time and no longer than it is open (`AsOfScoped`); a context puts back what it found (`Restored`) |
| `Promote` | one operator, core and one sibling, a source change, a fault, a `prod`, a `yank` | pins resolve, triggers and branches stand on their releases, releases are kept, and recovery brings everything out (`Recovered`) |
| `Basket` | two objects, three additions of quantities 1 and -1, bucketizers added to and replaced, traits set in between, all shapes and settings | keys fit the bucketizers and a member is in one bucket (`InPlace`), its tags describe it (`TagsDescribe`), sorting loses and doubles nothing (`SortingKeeps`) |

`NoLostUpdate` is about instances that hold a committed revision of the present
incarnation of the document.  `NoLostUpdateEver` drops that condition; it holds
where nothing rolls a set revision back and nothing reuses revision numbers
(`StorePlain`), and fails in two ways: divergence 1 below, and `restore(save=True)`,
which resets the revision to 1 so that an instance loaded at revision 1 of the
earlier life passes the check (`StorePlain` with `Lifecycle = {"restore"}` and
`MaxEpoch = 2` shows it).

`CountedOnce` holds if handlers do not raise.  One that does leaves the effect of
the earlier events of its batch in memory, and the next call loads these events
again and counts them twice (`xxcommon/event_processor.py:74`; `EventTwice` with a
handler fault shows it).

`HistoryInRevisionOrder` belongs to the transactional store: without
transactions `_at` orders the writes of the history, not those of the documents,
and two clients can write their entries the other way round.

`NoBlindOverwrite`, `Recorded`, `AsOfScoped`, `Restored` and `ReleasesKept` name the
exceptions the code has; section 4 says what they are.

### Bounds

Store.  `MaxRev = 3` lets each of two clients save on top of the other's save
and again after a rollback; `MaxEpoch = 2` is one delete-and-create or restore
after the first life.  One document suffices because no operation relates two.
Three contents are needed to tell "mine, yours, what we both had".  Clients and
contents are symmetric model values.  Deadlock is checked: a client can always
crash or edit.

Events.  Two events are enough for an order, two classes for the
sharing of a watermark between classes of one store (`EventTwice`) and for its
absence between stores (`EventLive`).  In `EventTwice` time runs to 5 in ticks of a
millisecond: events stamped at 2 or 3 and watermarks of 1 to 4, hence intervals with
a past and a future, commits up to three milliseconds after the stamp, stamps
that hit a watermark and stamps that do not; its processes are symmetric.  In
`EventLive` it runs to 4 on each of two clocks, which leaves stamps of 2 and
watermarks of 1, 2 and 3: before, at and after the stamp.  Each
kind of fault happens at most once per run, in `EventTwice` at most two of the three
(`MaxFaults`): `CountedOnce` and `WatermarkForward` are about one save against
another, and two processes with a fault each show all pairs.  These runs stop when the clock does; processing goes on, so there is no
deadlock to exempt.

Collection.  `IbisCollection` counts nothing, so only its instance is
bounded: two processes for one process's DDL against the other's cache; a key that
becomes a column and one that is indexed in `_data`; a document with each of value,
None and nothing.

Batch.  Two stores make one commit fail while the other is open, or done; a
subclass kept in the other store and a reference into it are the two ways in which
an object is saved where the block opened no transaction; the second block saves
objects whose revisions the first, failed one has left behind.

Union.  Everything but `find` is about one document, since no operation relates
two; the other two, one in both stores and one in the tail, make a find that has
to merge, drop and repeat.  A delete between two saves is enough for a document
with two lives.  No two clients differ, so they are symmetric.

Logger.  A pipe of one message is full as soon as one waits; two Loggers are what
the race of `LOG.begin` makes; three messages let one come before, one after a
sentinel and one at the start.

Contexts.  The classes are Traitable, two classes below it, one that keeps no
history, and one of two bases; three contexts are the least that can be left out of
order with one remaining.  Stores and times are symmetric.

Basket.  Three additions put one member into two buckets, with its trait set in
between, beside another member; the values lie below, on and between the first and
the last breakpoint and on the last, of one list or the other; quantities of 1 and
-1 cancel; two bucketizers are one added to another or two at once.

Promote.  One fault per history, then the operator repeats the recovery; a second
machine makes runs of more than 280 s (the same properties hold as far as it was
explored without `yank`; divergence 20 below is what it adds with `yank`).

`CHECK_DEADLOCK FALSE` is said of `Batch`, `Union` and `Logger` only: a process is
free to do nothing more, and in these models the calls are counted.

### Fairness

No liveness is claimed of `TraitableStore`, `IbisCollection`, `BatchSave`, `UnionStore`,
`Contexts` and `Basket`, so none is assumed there: a client may stop anywhere, which is
what a crash is.

`FairSpec` of `EventProcessing` assumes that clocks advance, that a transaction which
does not roll back commits, and that each process goes on calling
`process_pending_events`, as an application's loop does (the library has none of its
own).  `LogFairSpec` of `LogProcess` assumes that threads inside `LOG`, feeders and
processes are scheduled; nobody has to log, to begin or to end.  `FairSpec` of
`Promotion` assumes that a run goes on (or is interrupted), which is weak fairness of
`Works` written out as `[]<>(run[m] = Idle) \/ []<><<Works(m)>>_vars`: `Works(m)` is
enabled exactly while `m` has a run, and TLC need not compute that.  It assumes,
strongly, that the operator gives each command of the documented recovery again and
again (`dev_10x/README.md`): strongly, because the clone is ready for a command only
between others.  Faults and rollbacks are never fair, and faults are bounded.

## 4. Where code and documentation differ

Met while modelling.  Where a configuration is named, it can be run with TLC.

Saving:

1. **A rolled-back save leaves its revision in the instance**
   (`core_10x/traitable.py:1050`).  After an enclosing block aborts, the instance
   says revision 2 where the store has 1; when another client's save makes
   revision 2, the first instance's next save passes the check and overwrites it.
   (`StoreOuter.cfg` with `PROPERTIES NoLostUpdateEver`.)
2. **A failed save inside a block commits half of itself**
   (`infra_10x/ibis_store.py:671`, `mongodb_store.py:227`) if the caller does not
   throw the RC.  (`StoreOuter.cfg` with `Outer = "ignore"`, `LatestRevisionIsCurrent`.)
3. **`SaveIfChanged` is not one unit** (`core_10x/ts_store.py:274`), as
   `GETTING_STARTED.md:1530` and `:2531` say: each store has a transaction of its
   own, and a commit that fails finds the later-opened ones committed.  An object of
   a subclass kept in a store that no listed class has, or one that is referred to
   there, is written without a transaction.  An exception inside the block skips
   `end_using` (`:268`), so the tracker stays installed.

Events and stores:

4. **An event stamped at a watermark is never processed, nor is one committed after
   it was passed** (`xxcommon/event_processor.py:58`, `:53`).  Both ends of the
   interval are exclusive, and MongoDB's stamps and the watermark have the same
   resolution of a millisecond; and only that millisecond is left for a commit.
   (`EventTwice.cfg` with one processor, `NoFault`, and `NoneMissed` over all of
   `visible`.  Leaving either of the two additions to `exposed` out of the module
   shows the other cause alone.)
5. **After a lost acknowledgement a processor never saves again**
   (`xxcommon/event_processor.py:66`): its revision is stale for good, `advance()`
   ignores the refusals, and the process handles events whose progress is lost
   when it restarts.  (`EventLive.cfg` with `OneStore` and `AckFault`.)
6. **A process that looked too early never sees the rows**
   (`infra_10x/ibis_store.py:303`): an empty column map stays in the cache, and
   `find`, `count` and `id_exists` believe it; `delete` alone looks again.  The same
   happens to a column that another process adds.  (`IbisColumns.cfg` with
   `INVARIANT FindSeesRow`.)  An event processor started on a
   fresh SQL store before the first event is saved is such a process;
   `EventProcessing` leaves this out.

Union (`core_10x/ts_union.py`; the exceptions of `NoBlindOverwrite` and `Recorded`):

7. The first save of a document that only the tail has inserts revision 1 into the
   head.  The copy's revision was at least that, so no history entry is written,
   and the copy goes back to an earlier revision.
8. A copy read from the tail whose revision equals the head's passes the head's
   check and overwrites a content it has never seen.
9. `load_many` deserializes both stores' copies; the tail's comes second and stays.
10. Deleting the head's document makes the tail's visible and reports failure.
11. `_OrderKey` ignores `reverse` for values that are dictionaries
    (`test_sorting_dict` expects it), and raises if a sort key is missing.
12. `GETTING_STARTED.md:692`, "Persists to all stores in the union": only the head.

Logger (`core_10x/logger.py`):

13. `LOG.begin` is not idempotent between threads (`GETTING_STARTED.md:2241`): two
    Loggers are made, one is orphaned.  `LOG.end` forgets whatever Logger there
    is when its join is over.
14. A payload of None ends the logger process; what is put later is lost, and if
    it is more than the pipe holds, the program hangs at exit.  So it does if the
    process has died.
15. What `save()` answers is ignored: messages of the same nanosecond, or while the
    store fails, are lost silently.

Contexts:

16. Leaving an inner `AsOfContext` makes the classes it covered read the present
    while the outer one is open (`traitable.py:1314`; `GETTING_STARTED.md:1634`): the
    exception `left` of `AsOfScoped`.  A class of several bases reads at the first
    base's time.  A store entered twice keeps one set of flags (`ts_store.py:181`),
    and stores that end out of order pop each other (`resource.py:88`): the
    exception `mixed` of `Restored`.  `SimplePricingContext.end_using`
    (`xx_fin/xxfin/pricing_context.py:44`) compares with a class variable it has
    shadowed.  In `session_context` (`ui_10x/rio/component_builder.py:72`) a
    `begin_using()` that raises leaves the current session set for good.

Basket (`core_10x/basket.py`):

17. `add_bucketizers([])` on an empty basket without bucketizers, or the setter with
    an empty list if members are not reset, sets `the_bucket` to None (`:408`), and the
    next `add` raises.  `test_basket.py:727` says that such a call leaves members and
    bucket structure untouched, and tests it with members.
18. A member whose trait has changed is in a second bucket if it is added again, and
    `add_bucketizers` keeps it under the old tag and the new one: the ghost `changed`
    in `InPlace` and `TagsDescribe`.

Release promotion (`dev_10x`):

19. If `prod` is interrupted with the siblings pushed and core not, resync and
    `prod` finalize core verbatim on its candidate's commit, which pins the
    siblings' candidates.  `prod` after yanking a final makes the same version
    again (`ReleasesKept` exempts finals).  The epilogue of `prod` edits the siblings'
    test groups on main, so the next `pre` cuts all of them; if a test group is
    unchanged, `git commit` fails.  An interrupted yank cannot be repeated: the tag
    is no longer found.
20. Tags are reconciled by name only (`xx_helpers.py:485`): a tag that both sides
    have on different commits is never repaired, and every fetch fails.  It takes
    two machines, or a second `prod` after a yank (`MaxProd = 2`).  Two operators
    who run and yank at once can leave a trigger without a release and use a
    candidate's number again.

## 5. Proofs

`TraitableStoreProofs` proves, for any sets of clients, identities and contents,
any bounds, and every setting of the switches:

* `TypeCorrect`: `Spec => []TypeOK`;
* `Invariance`: `Spec => []IInv`;
* `VersionsIdentified`: `Spec => []VersionIdentity`;
* `NoUpdateLost`: `Spec => NoLostUpdate`;
* `HistoryNotAhead`: `Spec => []HistoryNeverAhead`.

What does not hold of every setting is proved of the settings where it does, each a
named condition on the switches:

| Theorem | Shows | Where |
|---|---|---|
| `HistoryOrdered` | `[]HistoryInRevisionOrder` | `UseTx` |
| `StoreIsAudited` | the refinement `ImplementsAuditedStore` | `Traced`: a history is kept, in the document's transaction; enclosing blocks throw on a failed save; the class is mutable |
| `LatestIsCurrent` | `[]LatestRevisionIsCurrent` | `Traced`, nothing restored |
| `NoUpdateEverLost` | `NoLostUpdateEver` | `SaveOnly`: no enclosing blocks, deletions or restores |

Without these conditions the properties fail: without a transaction two clients'
entries are written the other way round, ignored failures commit half a save
(divergence 2), a restored document has no entry, and a rolled-back block leaves its
revision behind (divergence 1).

`VersionIdentity` is not inductive.  Two transactions could each be about to hand
out the same number, unless only one can have an uncommitted write of a document
(`RowLock`) and such a write belongs to a transaction that will end (`TxScope`);
a number could be handed out again, unless a writer holds the newest revision of
its incarnation: an uncommitted document is ahead of every version anywhere
(`PendNewest`), a committed one of every version that no open transaction can take
back (`DocNewest`); and a new incarnation must be new (`KnownEpochs`).  The two
"newest" parts differ because a client whose transaction is open may hold a
revision ahead of the committed document, and after a rollback of that
transaction what it holds is backed by nothing: `Unbacked` makes the ghost say so.

The proof reduces every action to one of four lemmas about the sets of versions:
no version appears, a version that was there already is held by one more client,
a transaction ends, or one new version appears that is ahead of all others of its
incarnation.  `NoUpdateLost` then follows from `VersionIdentity` at the moment of
the update: the revision the statement matched on and the one the instance holds
are the same number of the same incarnation, hence the same content.

`ImmutableWrittenOnce` says of immutable classes what `NoLostUpdate` says of the
others: while a document's incarnation lasts it is never changed.  All that an
immutable class writes are inserts, so every document has revision 1 (`FirstRevision`),
and a step that changed one would make a known version stand for something else.

`HistoryNeverAhead` is a part of `IInv` seen from one document.  For the order of the
history the invariant adds, for every client, that the history *as its transaction
reads it* is in order, and that the entry which a save is about to write continues
it (`OrderOf`); the committed history is then in order because every commit makes it
what some client read.  The refinement needs more: an uncommitted document has its
entry, is about to get it, or is a restored copy (`TrailOf`).  A transaction that
commits has no save half done, so document and entry appear together, which is a step
of `AuditedStore`; a step that commits nothing is a stutter (`StepAudited`), and
`LatestIsCurrent` follows, since an audited step leaves the new document at the end of
its history.  `NoUpdateEverLost` rests on `CurrentOf`: an instance with a revision is
of the present incarnation and not ahead of what it reads, which is just what a
rolled-back block, a deletion or a restore destroys.

The assumptions are those of `TraitableStore`: the switches have their types, the
bounds are positive, and the three sentinels are not documents or operations.

`EventProcessingProofs` proves, for any events, classes, stores and processes,
and any faults:

* `TypeCorrect`: `Spec => []TypeOK`;
* `NoEventMissed`: `Spec => []NoneMissed`.

`NoEventMissed` assumes nothing of commits or stamps: late commits and stamps at a
watermark happen, and what it says is that an event next to them is missed for no
other reason.  The argument: a watermark is a millisecond behind its store's clock when it
is taken, and stamps given from then on are later than it (`Safe`).  An event that
becomes visible within a millisecond of its stamp is thus stamped at or after
every watermark of its store that anybody holds (`NewlyVisible`), and one
stamped at one was exposed when that watermark was taken; hence all that a watermark covers and is not exposed was visible to the fetch
that followed it.  What a processor holds is therefore complete: every
visible event up to the watermark it will save is exposed, in its tally, in its
batch, or of a class it has not fetched yet (`Covered`, `Fetched`, `SoundProc`), and
the same of the document follows because watermarks and tally are saved together.
Exposing an event never makes this less true (`ExposeMore`), and a rollback takes the
mark only from events that nobody sees.

The other safety properties are about exposed events too:

* `WatermarksForward`: `Spec => WatermarkForward`, whatever fails.  A watermark is a
  millisecond older than its clock, so the next is no earlier (`Paced`), and a
  process whose revision is current is no further back than the document
  (`NotBehind`): the revision check is what makes the saved watermark advance.
* `CountsOnce`: `Spec => []CountedOnce`, and `CountsInOrder`: `Spec => InOrder`, if no
  handler raises, the condition under which they hold (see section 3); commits,
  stamps, crashes, failed saves, lost acknowledgements and rivals are as they may.
  What has counted lies before the last watermark or, while a batch is processed,
  before the new one and no later than the rest of the batch (`Once`).  Classes of one
  store have one watermark (`InStep`), which is why the order holds across classes.
* `OutputsAreBounded`: `Spec => []OutputsBounded`, for finitely many processors, any
  faults.  The invariant counts: outputs of an event are at most the processors that
  have it behind them (`Settlers`) plus the restarts and raising handlers so far.

`IbisCollectionProofs` proves all five properties of `IbisColumns`, for any
processes, keys, values and documents and any mix of processes with and without
save transactions: `TypeCorrect`, `SearchAgrees`, `SavesReadable`,
`CacheStaysSound`, `IndicesStay`, from the inductive `Invariance`.  Four facts are
needed beside the types: a table that does not exist is empty (`Absent`); a key
that can be a column leaves at most a None in `_data` (`Located`); from the
statement to the end of its transaction a save's row is the one its process sees
(`Ending`); and the save's own transaction creates no index, because indices are
ensured before it opens (`OwnTxIndex`).  A step of another process changes what
one sees only by committing (`Others`), so each property needs an argument about
the process's own steps and one about the committed table.  The assumptions are
`IbisAssumption`: the eligible and indexed keys are keys, None and absence are not
values.

`BatchSaveProofs` proves `AtomicByStore` and `FailureRollsBack`, for any objects,
classes, stores, filters, references and bounds.  `StoreAtomic` is kept by a commit
only if the transaction holds *all* the block has saved in its store and the store
itself none of it (`DraftOK`), which needs that a transaction is opened before the
first save and once (`OpenOK`); `RolledBack` needs that until the first commit only
stores without a transaction have been written (`WroteOutside`), since a save
cannot fail after a commit.  `BlockIsComplete` proves `Complete`, from `SavedOK`: an
object that the loop has passed is in memory what the block sees of it in its
store, drafts included, and a commit turns what is seen into what is there.

`UnionStoreProofs` proves all three properties of `Union`, for any clients, finitely
many identities, any contents, limits and bounds: `FindReturnsTheFirst`,
`OverwritesWhatItRead`, `VersionsAreRecorded`.  The first is about the recursive
`Merged`.  The library's induction theorems take operators, which no installed
prover instantiates; induction is therefore stated of *sets* here (`Minimum`,
`SetInduction`, `Recursion`, from the well-foundedness of < on Nat).  It gives that
`Taken` exists and goes up by 0 or 1 (`TakenSteps`, `TakenBounds`), hence that the
merge has all of both lists (`MergedAll`), once each (`MergedOnce`), in order
(`MergedInOrder`).  That limiting each list first loses nothing is `LeftOut`: a
document which its own store left out has a full list of better ones before it in
the merge.  `FindInv` says the same of the head's answer while the tail is asked.
The other two rest on `Invariance`: a copy of the tail is of a document the tail
still has, and one of the head is behind the head's present document (`Traced`,
`Behind`): of an earlier insert, or of this one with no greater revision, and at the
same revision with the same content.  An update that passes the revision check
then overwrites what was read.

`ProcessProofs` proves `AsOfReads` and `RestoresFound`, for any classes whose bases
are ordered as `ContextsAssumption` says, any stores and times, and any number of
open contexts.  That a class reads at the innermost time is not inductive, since
most classes have no helper most of the time: what is kept is that a helper of
the past is the innermost one (`ReadsInner`), that a live one is in no covered class
(`ReadsLive`), and that a listed class has its helper until a later context covers
it (`ListedRead`), so that resolution along the bases finds the right one first.
For `Restored` each open context is chained to what it found: the stack is what the
last store found plus that store, the flag what on_enter or the flags context left
(`Chained`).

It also proves `QueueDrained`, for any threads, Loggers, pipe and number of messages,
from `TakenUpToSentinel`: a running process has met no None among what it has taken, a
finished one exactly one, the last.

`BasketProofs` proves `MembersInPlace`, `BucketsDescribed` and `SortingKeepsAll`, for any objects, classes,
bucketizers and quantities and any number of changes.  The invariant is that each key
has a tag for every bucketizer and that a member which has not changed has
*exactly* the tags that the bucketizers give it now (`RightKey`); being in one bucket and
being described by it follow.  Sorting keeps it because tags of lists put behind one
another are the tags put behind one another (`TagsConcat`).  That the tags mean
what they should is a matter of `bisect_right`: the positions up to a value are an
initial segment, whose size is the number of the interval (`BreakpointInterval`), and
of the first of several ranges (`RangeInterval`).

`SortingKeepsAll` proves `SortingKeeps`.  What a member has in all its buckets is a sum,
a fold of the community modules, whose recursive function over sets is shown to exist,
to be unique (`SumExists`, `SumsAgree`) and to be the same in whatever order it adds
(`SumAdd`), by induction over the subsets of a finite set (`SubsetInduction`).  Sorting
sums a member's quantities by new keys, and the sums over the keys add up to the
sum over all (`SumParts`), however many old buckets get the same key.  `StockInv` says
that buckets are finite and quantities integers.  Beside the settings' types,
`BasketAssumption` says of None that it is neither a tag's number nor a bucket.

`PromotionProofs` proves `TypeCorrect` for any packages, bounds and number of machines.
Its invariant, `TypeInv`, says more than `TypeOK`: that every step still to be taken
finds the release it stands on, whatever steps are taken before it, since no two steps
of a plan touch one tag (`PlanOK`), and that a tag which is to be pushed is in the
clone (`RunOK`).

The other four are proved for any packages and bounds, with *a single machine*:

| Theorem | Shows |
|---|---|
| `PinsCorrect` | `[]PinsResolve` |
| `TriggersCorrect` | `[]TriggerHasRelease` |
| `PointersCorrect` | `[]PointerAtLatest` |
| `KeptCorrect` | `ReleasesKept` |

`OneMachine` is their hypothesis because two operators at once break what they say
(divergence 20); the code has no lock and only compares with origin when a run
begins.  Within it everything else is as it may be: interruptions at any point, what
they leave in the clone, commits to main by others, yanks.

None of the four is inductive, because a push takes to origin what a run has made
long before.  `IInv` therefore says of a run under way what origin will need:

* the clone's tags are origin's with what is to be pushed (`Behind`), a release that is
  to be pushed is later than all of origin's and no yanked candidate's number
  (`NewReleases`, `Fresh`), and a trigger to be pushed has its release in the clone
  (`TagsSent`);
* a release branch that is to be pushed is at the latest release of the clone, and
  where none is, no release of that flavor has changed; what a yank leaves behind has
  its rollback, to the latest of what remains (`Pointers`, `Rollbacks`);
* a pin of core in the clone, or in a release that is planned, is a version that is in
  the sibling's clone or is planned (`PinsKept`), and the siblings' repository is the
  first to be pushed if anything of it is (`SiblingsFirst`), so that an interruption
  between the two pushes leaves nothing unresolved.

Of origin it adds that micro versions are used up one by one (`GenOK`): without it,
the next candidate, which is of the micro version after the latest final, could come
before a release that is there.  The proof has one lemma for the plan of each command,
one for a step that is taken (`TookInv`), which knows of the step only what is stated
of it in `Took`, and one for a push (`SentOrigin`, `SentRun`), which covers pushes of
a repository and of a single trigger alike. A `resync` and its leftovers need nothing:
any other run starts from clones that have origin's tags, or is refused.

Only model-checked: liveness under fairness (`EventuallyCounted`, `EndReturns`,
`ExitEnds`, `Recovered`), and ENABLED, which are out of the prover's reach.

## 6. Plan

Done: `TraitableStore`, `IbisCollection`, `EventProcessing`, `BatchSave`, `UnionStore`,
`LogProcess`, `Contexts`, `Basket`, `ReleasePlan` and `Promotion`.

Open: MongoDB's deferred indices and transactions nested explicitly; downstream
packages and `--next-version` of `Promotion`.  One passing run per module, with its
properties together.

## 7. Not modelled, and why

*Native kernel*: its source is not in the repository.  The object cache, lazy
loading and the dependency graph are its.

*Vault* (`sec_keys.py`, `vault_utils.py`): every step of onboarding depends on whether
constructing a `VaultUser` loads the stored row, which the kernel decides; keyring,
prompts and cryptography are external.  From reading: a lost race or a changed
master password leaves a password in the keyring that `--new-machine` uses again and
rejects for ever; an interruption between the saves of `VaultUser` and of the
resource accessor leaves the server-wide accessor missing; a functional account's
password is lost if the run is interrupted before it is delivered;
`change_master_password` does not encrypt the key again.

*Store selection, class registry, command line*: lookups in declarations and
environment variables.

*Traits, filters, result codes, dates, calendars, curves, `xx_fin`, the
expression compiler*: sequential and without shared state, where a unit test
reaches what a model could say.

*User interface*: widgets and layout.  `session_context` refuses a second session, so
there is nothing to interleave; the entity stocker's second attempt cannot be
reached (`entity_stocker.py:133`), its first is `TraitableStore`'s save.

*Development tools other than promotion*: scripts that run other programs one
after the other.

The mapped lines are a small share of the repository, and would be if all of the
above were modelled: a third of its code lines is word data of one example
(`_guess_word_data.py`), and most of the rest is layout, numerical code and tools.
