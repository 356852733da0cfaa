--------------------------- MODULE IbisCollection ---------------------------
(***************************************************************************)
(* One document of one collection of an SQL store, and the schema that     *)
(* processes create on first write.  A document is saved partly in typed   *)
(* columns, partly in the JSON column _data.  A process creates the table, *)
(* the columns and the indices it needs when it first saves, inside        *)
(* whatever transaction is open, and remembers what it has seen: the       *)
(* cached column map of _collection_columns and the run-once               *)
(* _ensure_indices.                                                        *)
(*                                                                         *)
(* Transactions nest: only the outermost is one to the database.  Here a   *)
(* process's transaction is either the application's block or the save's   *)
(* own.  Revisions are those of TraitableStore; here an update may always  *)
(* turn out to be a conflict.                                              *)
(***************************************************************************)
EXTENDS FiniteSets

CONSTANTS
    Process,    \* processes, each with one connection and one cache
    Key,        \* keys of documents
    Eligible,   \* the keys of scalar type, which become columns
    IndexKey,   \* the keys of s_indices; one that is no column is indexed in _data
    Value,      \* values of a key
    Null,       \* None, and SQL's NULL
    Missing,    \* the key is not there
    Nobody,     \* no process
    Doc,        \* the documents that may be saved
    OwnTx       \* use_ts_store_transactions, per process

Content == [Key -> Value \cup {Null, Missing}]

ASSUME IbisAssumption ==
    /\ Eligible \subseteq Key /\ IndexKey \subseteq Key
    /\ Null \notin Value /\ Missing \notin Value \cup {Null}
    /\ Nobody \notin Process
    /\ Doc \subseteq Content
    /\ OwnTx \in [Process -> BOOLEAN]

\* A row: its columns (Null where there is none) and its _data.
Row == [col : [Key -> Value \cup {Null}], data : Content]

\* A table; row is a set of at most one row.
Table == [exists : BOOLEAN, cols : SUBSET Eligible, index : BOOLEAN,
          row : SUBSET Row]

NoTable  == [exists |-> FALSE, cols |-> {}, index |-> FALSE, row |-> {}]
NewTable == [NoTable EXCEPT !.exists = TRUE]

\* What a process remembers of a table.
Schema == [known : BOOLEAN, exists : BOOLEAN, cols : SUBSET Eligible]
Forgotten == [known |-> FALSE, exists |-> FALSE, cols |-> {}]

Kind == {"insert", "update", "replace"}

VARIABLES
    db,        \* the committed table
    holder,    \* the process whose transaction has written, or Nobody
    work,      \* the table as the holder sees it
    con,       \* each connection: a transaction is open, the application's
               \* block is, a statement of the transaction has failed
    cache,     \* _collection_columns of each process
    ensured,   \* whether _ensure_indices has run
    op         \* the save under way

vars == <<db, holder, work, con, cache, ensured, op>>

Connection == [open : BOOLEAN, block : BOOLEAN, broken : BOOLEAN]
NoTx == [open |-> FALSE, block |-> FALSE, broken |-> FALSE]

\* A save: what it does next, the document, and how it is to be saved.
Empty == [k \in Key |-> Missing]
NoSave == [at |-> "none", doc |-> Empty, kind |-> "insert"]

Idle(p) == op[p] = NoSave

Init == /\ db = NoTable /\ work = NoTable /\ holder = Nobody
        /\ con = [p \in Process |-> NoTx]
        /\ cache = [p \in Process |-> Forgotten]
        /\ ensured = [p \in Process |-> FALSE]
        /\ op = [p \in Process |-> NoSave]

(***************************************************************************)
(* The database.  A statement that writes waits for the other transaction  *)
(* that has written, one that reads for a transaction that has altered or  *)
(* dropped the table.  Without an open transaction it commits at once.     *)
(***************************************************************************)
View(p) == IF holder = p THEN work ELSE db

CanWrite(p) == holder \in {p, Nobody}

CanRead(p) == \/ CanWrite(p)
              \/ ~db.exists
              \/ work.exists /\ work.cols = db.cols

Execute(p, table) ==
    /\ CanWrite(p)
    /\ work' = table
    /\ db' = IF con[p].open THEN db ELSE table
    /\ holder' = IF con[p].open THEN p ELSE Nobody

Install(p) == IF holder = p THEN db' = work /\ work' = work /\ holder' = Nobody
                            ELSE UNCHANGED <<db, work, holder>>

Discard(p) == IF holder = p THEN db' = db /\ work' = db /\ holder' = Nobody
                            ELSE UNCHANGED <<db, work, holder>>

(***************************************************************************)
(* What a process remembers.                                               *)
(***************************************************************************)
Columns(table) ==
    [known |-> TRUE, exists |-> table.exists, cols |-> table.cols]

\* _collection_columns
Cached(p) == IF cache[p].known THEN cache[p] ELSE Columns(View(p))

\* _ibis_table_or_none: a table that is remembered but gone is forgotten.
Refreshed(p) == IF Cached(p).exists /\ ~View(p).exists THEN Forgotten
                                                       ELSE Cached(p)

Find(p) ==
    /\ Idle(p) /\ ~con[p].broken /\ CanRead(p)
    /\ cache' = [cache EXCEPT ![p] = Refreshed(p)]
    /\ UNCHANGED <<db, holder, work, con, ensured, op>>

(***************************************************************************)
(* Saving: indices on first write, then the row.                           *)
(***************************************************************************)
Saving(p) == op[p].at \in {"index", "row"}

IndexColumn == IndexKey \cap Eligible

Needed(p) == IF op[p].at = "index"
             THEN IndexColumn
             ELSE {k \in Eligible : op[p].doc[k] # Missing}

\* Faulty: columns are not waited for.
PreparedTable(p) == Saving(p) /\ cache[p].known /\ cache[p].exists

Prepared(p) ==
    /\ Saving(p) /\ cache[p].known /\ cache[p].exists
    /\ Needed(p) \subseteq cache[p].cols

\* The save's own transaction opens before the row is prepared; inside a
\* block it is a nested one.
ToRow(p) == con' = [con EXCEPT ![p].open = @ \/ OwnTx[p]]

\* Faulty: indices are ensured inside the save's own transaction.
SaveTxFirst(p) ==
    /\ Idle(p)
    /\ \E d \in Doc, kind \in Kind :
          op' = [op EXCEPT ![p] = [at |-> IF ensured[p] THEN "row" ELSE "index",
                                   doc |-> d, kind |-> kind]]
    /\ ToRow(p)
    /\ UNCHANGED <<db, holder, work, cache, ensured>>

Save(p) ==
    /\ Idle(p)
    /\ \E d \in Doc, kind \in Kind :
          op' = [op EXCEPT ![p] = [at |-> IF ensured[p] THEN "row" ELSE "index",
                                   doc |-> d, kind |-> kind]]
    /\ IF ensured[p] THEN ToRow(p) ELSE UNCHANGED con
    /\ UNCHANGED <<db, holder, work, cache, ensured>>

LookUp(p) ==
    /\ Saving(p) /\ ~con[p].broken /\ CanRead(p)
    /\ ~cache[p].known
    /\ cache' = [cache EXCEPT ![p] = Cached(p)]
    /\ UNCHANGED <<db, holder, work, con, ensured, op>>

\* ensure_table
CreateTable(p) ==
    /\ Saving(p) /\ ~con[p].broken
    /\ cache[p].known /\ ~cache[p].exists
    /\ LET table == IF View(p).exists THEN View(p) ELSE NewTable IN
          /\ Execute(p, table)
          /\ cache' = [cache EXCEPT ![p] = Columns(table)]
    /\ UNCHANGED <<con, ensured, op>>

\* _ensure_columns
AddColumn(p) ==
    /\ Saving(p) /\ ~con[p].broken
    /\ cache[p].known /\ cache[p].exists
    /\ View(p).exists
    /\ \E k \in Needed(p) \ cache[p].cols :
          /\ Execute(p, [View(p) EXCEPT !.cols = @ \cup {k}])
          /\ cache' = [cache EXCEPT ![p].cols = @ \cup {k}]
    /\ UNCHANGED <<con, ensured, op>>

CreateIndex(p) ==
    /\ op[p].at = "index" /\ Prepared(p) /\ ~con[p].broken
    /\ View(p).exists /\ IndexColumn \subseteq View(p).cols
    /\ Execute(p, [View(p) EXCEPT !.index = TRUE])
    /\ ensured' = [ensured EXCEPT ![p] = TRUE]
    /\ op' = [op EXCEPT ![p].at = "row"]
    /\ ToRow(p)
    /\ UNCHANGED cache

\* The keys that go into columns; _data keeps a None for the null ones.
InColumn(p) == {k \in Needed(p) : k \in cache[p].cols}

\* Faulty: a null column leaves no trace in _data.
DataUnmarked(p) ==
    [k \in Key |-> IF k \in InColumn(p) THEN Missing ELSE op[p].doc[k]]

Data(p) ==
    [k \in Key |-> IF k \in InColumn(p) /\ op[p].doc[k] # Null
                   THEN Missing ELSE op[p].doc[k]]

\* A column that is not written keeps its value.
NewRow(p) ==
    [col |-> [k \in Key |->
                 IF k \in InColumn(p) THEN op[p].doc[k]
                 ELSE IF \E r \in View(p).row : r.col[k] # Null
                      THEN (CHOOSE r \in View(p).row : TRUE).col[k]
                      ELSE Null],
     data |-> Data(p)]

Accepted(p) ==
    /\ View(p).exists /\ InColumn(p) \subseteq View(p).cols
    /\ op[p].kind = "insert" => View(p).row = {}

WriteRow(p) ==
    /\ op[p].at = "row" /\ Prepared(p) /\ ~con[p].broken
    /\ Accepted(p)
    /\ op[p].kind = "update" => View(p).row # {}
    /\ Execute(p, [View(p) EXCEPT !.row = {NewRow(p)}])
    /\ op' = [op EXCEPT ![p] = IF OwnTx[p] THEN [op[p] EXCEPT !.at = "end"] ELSE NoSave]
    /\ UNCHANGED <<con, cache, ensured>>

\* Faulty: the transaction stays open.
SaveEndOpen(p) ==
    /\ op[p].at = "end"
    /\ op' = [op EXCEPT ![p] = NoSave]
    /\ UNCHANGED <<db, holder, work, con, cache, ensured>>

\* The save returns; its own transaction commits.
SaveEnd(p) ==
    /\ op[p].at = "end"
    /\ op' = [op EXCEPT ![p] = NoSave]
    /\ IF con[p].block THEN UNCHANGED <<db, holder, work, con>>
       ELSE Install(p) /\ con' = [con EXCEPT ![p] = NoTx]
    /\ UNCHANGED <<cache, ensured>>

\* The server rejects the next statement.
Rejected(p) ==
    /\ Saving(p) /\ CanWrite(p)
    /\ \/ con[p].broken
       \/ cache[p].known /\ cache[p].exists /\ ~View(p).exists
       \/ op[p].at = "index" /\ Prepared(p) /\ ~(IndexColumn \subseteq View(p).cols)
       \/ op[p].at = "row" /\ Prepared(p) /\ ~Accepted(p)

\* The statement succeeds but updates nothing, or the history is not written.
Refused(p) ==
    \/ /\ op[p].at = "row" /\ op[p].kind = "update"
       /\ Prepared(p) /\ ~con[p].broken /\ CanWrite(p) /\ Accepted(p)
    \/ op[p].at = "end"

\* save() ends with RC(False).  Its own transaction, or the one around an
\* UPDATE, is rolled back and the cached columns forgotten; a block goes on.
FailSave(p, rejected) ==
    /\ op' = [op EXCEPT ![p] = NoSave]
    /\ IF con[p].block
       THEN /\ con' = [con EXCEPT ![p].broken = @ \/ rejected]
            /\ UNCHANGED <<db, holder, work, cache>>
       ELSE /\ Discard(p)
            /\ con' = [con EXCEPT ![p] = NoTx]
            /\ IF con[p].open \/ (op[p].at = "row" /\ op[p].kind = "update" /\ Prepared(p))
               THEN cache' = [cache EXCEPT ![p] = Forgotten]
               ELSE UNCHANGED cache
    /\ UNCHANGED ensured

SaveFails(p) == \/ Rejected(p) /\ FailSave(p, TRUE)
                \/ Refused(p) /\ FailSave(p, FALSE)

(***************************************************************************)
(* Deleting.                                                               *)
(***************************************************************************)
\* A cache that says there is no table is checked again.
Delete(p) ==
    /\ Idle(p) /\ ~con[p].broken
    /\ CanWrite(p)
    /\ LET seen == IF Cached(p).exists THEN Cached(p) ELSE Columns(View(p)) IN
          /\ cache' = [cache EXCEPT ![p] = seen]
          /\ IF seen.exists /\ View(p).exists
             THEN Execute(p, [View(p) EXCEPT !.row = {}]) /\ UNCHANGED con
             ELSE /\ con' = [con EXCEPT ![p].broken = @ \/ (con[p].open /\ seen.exists)]
                  /\ UNCHANGED <<db, holder, work>>
    /\ UNCHANGED <<ensured, op>>

\* delete_collection
DropTable(p) ==
    /\ Idle(p) /\ ~con[p].broken
    /\ Execute(p, NoTable)
    /\ cache' = [cache EXCEPT ![p] = Forgotten]
    /\ UNCHANGED <<con, ensured, op>>

(***************************************************************************)
(* The application's transactions; crashes.                                *)
(***************************************************************************)
Begin(p) ==
    /\ Idle(p) /\ ~con[p].open
    /\ con' = [con EXCEPT ![p].open = TRUE, ![p].block = TRUE]
    /\ UNCHANGED <<db, holder, work, cache, ensured, op>>

InBlock(p) == con[p].block /\ Idle(p)

\* COMMIT of a transaction in which a statement failed is a ROLLBACK, and
\* reports no error.
Commit(p) ==
    /\ InBlock(p)
    /\ IF con[p].broken THEN Discard(p) ELSE Install(p)
    /\ con' = [con EXCEPT ![p] = NoTx]
    /\ UNCHANGED <<cache, ensured, op>>

\* Faulty: the cached columns survive the rollback.
AbortRemembering(p) ==
    /\ InBlock(p)
    /\ Discard(p)
    /\ con' = [con EXCEPT ![p] = NoTx]
    /\ UNCHANGED <<cache, ensured, op>>

Abort(p) ==
    /\ InBlock(p)
    /\ Discard(p)
    /\ con' = [con EXCEPT ![p] = NoTx]
    /\ cache' = [cache EXCEPT ![p] = Forgotten]
    /\ UNCHANGED <<ensured, op>>

Crash(p) ==
    /\ Discard(p)
    /\ con' = [con EXCEPT ![p] = NoTx]
    /\ cache' = [cache EXCEPT ![p] = Forgotten]
    /\ ensured' = [ensured EXCEPT ![p] = FALSE]
    /\ op' = [op EXCEPT ![p] = NoSave]

-----------------------------------------------------------------------------
Step(p) ==
    \/ Find(p) \/ Delete(p) \/ DropTable(p)
    \/ Save(p) \/ LookUp(p) \/ CreateTable(p) \/ AddColumn(p) \/ CreateIndex(p)
    \/ WriteRow(p) \/ SaveEnd(p) \/ SaveFails(p)
    \/ Begin(p) \/ Commit(p) \/ Abort(p) \/ Crash(p)

Next == \E p \in Process : Step(p)

Spec == Init /\ [][Next]_vars

(***************************************************************************)
(* Properties                                                              *)
(***************************************************************************)
\* A row has values only in columns that exist.
InColumns(table) == \A r \in table.row, k \in Key : r.col[k] # Null => k \in table.cols

\* A transaction is the application's block or lasts from the preparation of a
\* row to the end of its save; only a block goes on when a statement failed;
\* only a transaction holds uncommitted writes.
TxScope ==
    /\ \A p \in Process :
          /\ con[p].block => con[p].open
          /\ con[p].broken => con[p].block
          /\ con[p].open /\ ~con[p].block => op[p].at \in {"row", "end"} /\ OwnTx[p]
          /\ op[p].at \in {"row", "end"} /\ OwnTx[p] => con[p].open
          /\ op[p].at = "end" => OwnTx[p]
          /\ op[p].at = "none" => Idle(p)
    /\ IF holder = Nobody THEN work = db ELSE con[holder].open

\* Types, and the extent of transactions (ts_store.py:244-256,
\* ibis_store.py:660-678, traitable.py:1040).
TypeOK ==
    /\ db \in Table /\ work \in Table
    /\ InColumns(db) /\ InColumns(work)
    /\ holder \in Process \cup {Nobody}
    /\ con \in [Process -> Connection]
    /\ cache \in [Process -> Schema]
    /\ ensured \in [Process -> BOOLEAN]
    /\ op \in [Process -> [at : {"none", "index", "row", "end"},
                           doc : Doc \cup {Empty}, kind : Kind]]
    /\ TxScope

\* _decode_row
Decoded(r) == [k \in Key |-> IF r.col[k] # Null THEN r.col[k] ELSE r.data[k]]

\* The row has value v for key k; a find of p for it returns the row.
Has(p, k, v) == \E r \in View(p).row : Decoded(r)[k] = v

Finds(p, k, v) ==
    /\ Cached(p).exists
    /\ \E r \in View(p).row :
          (IF k \in Cached(p).cols THEN r.col[k] ELSE r.data[k]) = v

Sound(p) == cache[p].exists => /\ View(p).exists
                               /\ cache[p].cols \subseteq View(p).cols

\* The committed table loses columns, which only delete_collection brings about.
Shrinks == db.exists /\ ~(db'.exists /\ db.cols \subseteq db'.cols)

\* A process never remembers a table or a column that its connection does not
\* see, whatever is rolled back, unless another process drops the table or the
\* server turns its COMMIT into a ROLLBACK (ibis_store.py:667-678).
CacheKept ==
    [][\A p \in Process :
          Sound(p) /\ ~Sound(p)' => Shrinks \/ (con[p].broken /\ Commit(p))]_vars

\* A save that returns success can be read back key by key, null keys
\* included, and its process finds it by each of its values, however columns
\* were added meanwhile (ibis_store.py:99-108, 148-177).
SavedReadable ==
    [][\A p \in Process :
          (WriteRow(p) /\ Idle(p)') \/ SaveEnd(p) =>
              \A k \in Key, v \in Value \cup {Null} : op[p].doc[k] = v =>
                  Has(p, k, v)' /\ (v # Null => Finds(p, k, v)')]_vars

\* A process whose cache is up to date finds a row by exactly the values it
\* reads from it, whoever wrote it and whatever columns that writer knew.
FindAgrees ==
    \A p \in Process, k \in Key, v \in Value :
        Cached(p) = Columns(View(p)) => (Finds(p, k, v) <=> Has(p, k, v))

\* Once indices are ensured they are there until the table is dropped or the
\* block in which they were created is rolled back; a save's own rollback does
\* not undo them (traitable.py:1036, 1040).
Indexed(p) == ensured[p] => View(p).index

IndicesKept ==
    [][\A p \in Process : Indexed(p) /\ ~Indexed(p)' =>
          \/ db.index /\ ~db'.index
          \/ DropTable(p)
          \/ con[p].block /\ (Abort(p) \/ (Commit(p) /\ con[p].broken))]_vars

\* A process finds every row by the values it has.  It does not if it looked
\* at the collection before the table, or the column, was there
\* (ibis_store.py:286-289, 303).
FindSeesRow ==
    \A p \in Process, k \in Key, v \in Value :
        Sound(p) /\ Has(p, k, v) => Finds(p, k, v)
=============================================================================
