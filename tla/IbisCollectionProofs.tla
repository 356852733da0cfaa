------------------------ MODULE IbisCollectionProofs ------------------------
(***************************************************************************)
(* Theorems about IbisCollection, for any processes, keys, values and      *)
(* documents.                                                              *)
(***************************************************************************)
EXTENDS IbisCollection, TLAPS

\* A table that does not exist is empty.
Absent == /\ ~db.exists => db = NoTable
          /\ ~work.exists => work = NoTable

\* A key that can be a column leaves at most a None in _data.
InOnePlace(table) ==
    \A r \in table.row, k \in Eligible : r.data[k] \in {Null, Missing}

Located == InOnePlace(db) /\ InOnePlace(work)

\* The document that p is saving can be read back and found.
ReadBack(p) ==
    \A k \in Key, v \in Value \cup {Null} : op[p].doc[k] = v =>
        Has(p, k, v) /\ (v # Null => Finds(p, k, v))

Ending == \A p \in Process : op[p].at = "end" => holder = p /\ ReadBack(p)

\* A save's own transaction creates no index.
OwnTxIndex ==
    \A p \in Process :
        con[p].open /\ ~con[p].block /\ holder = p /\ work.index => db.index

IInv == TypeOK /\ Absent /\ Located /\ Ending /\ OwnTxIndex

-----------------------------------------------------------------------------
USE IbisAssumption

\* What a process sees is a table.
LEMMA ViewIsTable ==
    ASSUME TypeOK, NEW p \in Process
    PROVE  View(p) \in Table /\ InColumns(View(p))
  BY DEF TypeOK, View

\* A process sees the table it has written.
LEMMA ExecuteView ==
    ASSUME TypeOK, NEW p \in Process, NEW t, Execute(p, t)
    PROVE  /\ View(p)' = t
           /\ work' = t
           /\ db' = t \/ db' = db
           /\ holder' \in {p, Nobody}
           /\ holder' = Nobody => work' = db'
           /\ holder' = p => con[p].open
           /\ holder \in {p, Nobody}
  BY DEF TypeOK, View, Execute, CanWrite

\* COMMIT leaves the process's view as it was.
LEMMA InstallView ==
    ASSUME TypeOK, NEW p \in Process, Install(p)
    PROVE  /\ View(p)' = View(p)
           /\ holder = p => holder' = Nobody /\ db' = work /\ work' = work
           /\ holder # p => holder' = holder /\ db' = db /\ work' = work
  BY DEF TypeOK, View, Install

\* ROLLBACK takes it back to the committed table.
LEMMA DiscardView ==
    ASSUME TypeOK, NEW p \in Process, Discard(p)
    PROVE  /\ View(p)' = db
           /\ db' = db
           /\ holder = p => holder' = Nobody /\ work' = db
           /\ holder # p => holder' = holder /\ work' = work
  BY DEF TypeOK, View, Discard

\* Columns of a table are a schema, and what a process takes from its cache or
\* from the catalog is one.
LEMMA CachedIsSchema ==
    ASSUME TypeOK, NEW p \in Process
    PROVE  /\ \A t \in Table : Columns(t) \in Schema
           /\ Cached(p) \in Schema
           /\ Forgotten \in Schema
  BY ViewIsTable DEF TypeOK, Cached, Columns, Schema, Table, Forgotten

\* A step of one process as another sees it.
LEMMA Others ==
    ASSUME TypeOK, NEW q \in Process, Step(q), NEW p \in Process, p # q
    PROVE  /\ con'[p] = con[p] /\ cache'[p] = cache[p]
           /\ ensured'[p] = ensured[p] /\ op'[p] = op[p]
           /\ View(p)' = View(p) \/ (View(p) = db /\ View(p)' = db')
           /\ holder = p => /\ holder' = p /\ work' = work /\ db' = db
                            /\ View(p)' = View(p)
           /\ holder' = p => holder = p
  <1>1. /\ con'[p] = con[p] /\ cache'[p] = cache[p]
        /\ ensured'[p] = ensured[p] /\ op'[p] = op[p]
    BY DEF Step, Find, Delete, DropTable, Save, ToRow, LookUp, CreateTable,
           AddColumn, CreateIndex, WriteRow, SaveEnd, SaveFails, FailSave,
           Begin, Commit, Abort, Crash, TypeOK
  <1>2. \/ \E t : Execute(q, t)
        \/ Install(q)
        \/ Discard(q)
        \/ UNCHANGED <<db, holder, work>>
    BY DEF Step, Find, Delete, DropTable, Save, LookUp, CreateTable,
           AddColumn, CreateIndex, WriteRow, SaveEnd, SaveFails, FailSave,
           Begin, Commit, Abort, Crash
  <1>3. /\ holder = p => holder' = p /\ work' = work /\ db' = db
        /\ holder' = p => holder = p
    BY <1>2 DEF Execute, CanWrite, Install, Discard, TypeOK
  <1>4. QED
    BY <1>1, <1>3 DEF View

-----------------------------------------------------------------------------
(***************************************************************************)
(* Types.                                                                  *)
(***************************************************************************)
SaveRecord == [at : {"none", "index", "row", "end"}, doc : Doc \cup {Empty}, kind : Kind]

\* TypeOK of the tables.
TablesOK ==
    /\ db \in Table /\ work \in Table
    /\ InColumns(db) /\ InColumns(work)
    /\ holder \in Process \cup {Nobody}
    /\ holder = Nobody => work = db
    /\ holder # Nobody => con[holder].open

\* TypeOK of one process.
ProcessOK(p) ==
    /\ con[p] \in Connection /\ cache[p] \in Schema
    /\ ensured[p] \in BOOLEAN /\ op[p] \in SaveRecord
    /\ con[p].block => con[p].open
    /\ con[p].broken => con[p].block
    /\ con[p].open /\ ~con[p].block => op[p].at \in {"row", "end"} /\ OwnTx[p]
    /\ op[p].at \in {"row", "end"} /\ OwnTx[p] => con[p].open
    /\ op[p].at = "end" => OwnTx[p]
    /\ op[p].at = "none" => Idle(p)

\* The parts make up TypeOK.
LEMMA Parts ==
    TypeOK <=> /\ TablesOK
               /\ \A p \in Process : ProcessOK(p)
               /\ con \in [Process -> Connection]
               /\ cache \in [Process -> Schema]
               /\ ensured \in [Process -> BOOLEAN]
               /\ op \in [Process -> SaveRecord]
  <1>1. ASSUME TypeOK PROVE TablesOK
    BY <1>1 DEF TypeOK, TxScope, TablesOK
  <1>2. ASSUME TypeOK, NEW p \in Process PROVE ProcessOK(p)
    BY <1>2 DEF TypeOK, TxScope, ProcessOK, SaveRecord
  <1>3. QED
    BY <1>1, <1>2 DEF TypeOK, TxScope, TablesOK, ProcessOK, SaveRecord

\* A step changes the variables of its own process only.
LEMMA OwnOnly ==
    ASSUME TypeOK, NEW q \in Process, Step(q)
    PROVE  /\ con' = [con EXCEPT ![q] = con'[q]]
           /\ cache' = [cache EXCEPT ![q] = cache'[q]]
           /\ ensured' = [ensured EXCEPT ![q] = ensured'[q]]
           /\ op' = [op EXCEPT ![q] = op'[q]]
  <1>1. /\ con \in [Process -> Connection] /\ cache \in [Process -> Schema]
        /\ ensured \in [Process -> BOOLEAN] /\ op \in [Process -> SaveRecord]
    BY Parts
  <1>2. con' = [con EXCEPT ![q] = con'[q]]
    BY <1>1 DEF Step, Find, Delete, DropTable, Save, ToRow, LookUp, CreateTable,
           AddColumn, CreateIndex, WriteRow, SaveEnd, SaveFails, FailSave,
           Begin, Commit, Abort, Crash
  <1>3. cache' = [cache EXCEPT ![q] = cache'[q]]
    BY <1>1 DEF Step, Find, Delete, DropTable, Save, ToRow, LookUp, CreateTable,
           AddColumn, CreateIndex, WriteRow, SaveEnd, SaveFails, FailSave,
           Begin, Commit, Abort, Crash
  <1>4. ensured' = [ensured EXCEPT ![q] = ensured'[q]]
    BY <1>1 DEF Step, Find, Delete, DropTable, Save, ToRow, LookUp, CreateTable,
           AddColumn, CreateIndex, WriteRow, SaveEnd, SaveFails, FailSave,
           Begin, Commit, Abort, Crash
  <1>5. op' = [op EXCEPT ![q] = op'[q]]
    BY <1>1 DEF Step, Find, Delete, DropTable, Save, ToRow, LookUp, CreateTable,
           AddColumn, CreateIndex, WriteRow, SaveEnd, SaveFails, FailSave,
           Begin, Commit, Abort, Crash
  <1>6. QED
    BY <1>2, <1>3, <1>4, <1>5

\* The row a save writes is a row, with values only in columns.
LEMMA NewRowIsRow ==
    ASSUME TypeOK, NEW p \in Process, op[p].at = "row", Prepared(p), Accepted(p)
    PROVE  /\ NewRow(p) \in Row
           /\ [View(p) EXCEPT !.row = {NewRow(p)}] \in Table
           /\ InColumns([View(p) EXCEPT !.row = {NewRow(p)}])
  <1> DEFINE w == View(p)
             d == op[p].doc
             r == NewRow(p)
  <1>1. w \in Table /\ InColumns(w)
    BY ViewIsTable
  <1>2. d \in Content
    BY DEF TypeOK, Empty, Content
  <1>3. InColumn(p) \subseteq Eligible /\ \A k \in InColumn(p) : d[k] # Missing
    BY DEF InColumn, Needed
  <1>4. Data(p) \in Content
    BY <1>2 DEF Data, Content
  <1> DEFINE chosen == CHOOSE s \in w.row : TRUE
  <1>5. ASSUME NEW s \in w.row PROVE chosen \in w.row
    BY <1>5
  <1>6. \A k \in Key : r.col[k] = IF k \in InColumn(p) THEN d[k]
                                  ELSE IF \E s \in w.row : s.col[k] # Null
                                       THEN chosen.col[k] ELSE Null
    BY DEF NewRow
  <1>7. \A k \in Key : r.col[k] \in Value \cup {Null}
    <2> SUFFICES ASSUME NEW k \in Key PROVE r.col[k] \in Value \cup {Null}
      OBVIOUS
    <2>1. CASE k \in InColumn(p)
      BY <2>1, <1>2, <1>3, <1>6 DEF Content
    <2>2. CASE k \notin InColumn(p) /\ \E s \in w.row : s.col[k] # Null
      <3>1. chosen \in Row
        BY <2>2, <1>1, <1>5 DEF Table
      <3>2. QED
        BY <2>2, <3>1, <1>6 DEF Row
    <2>3. CASE k \notin InColumn(p) /\ ~ \E s \in w.row : s.col[k] # Null
      BY <2>3, <1>6
    <2>4. QED
      BY <2>1, <2>2, <2>3
  <1>8. r \in Row
    BY <1>4, <1>7 DEF NewRow, Row
  <1>9. \A k \in Key : r.col[k] # Null => k \in w.cols
    <2> SUFFICES ASSUME NEW k \in Key, r.col[k] # Null PROVE k \in w.cols
      OBVIOUS
    <2>1. CASE k \in InColumn(p)
      BY <2>1 DEF Accepted
    <2>2. CASE k \notin InColumn(p)
      <3>1. (\E s \in w.row : s.col[k] # Null) /\ chosen.col[k] # Null
        BY <2>2, <1>6
      <3>2. QED
        BY <3>1, <1>1, <1>5 DEF InColumns
    <2>3. QED
      BY <2>1, <2>2
  <1>10. [w EXCEPT !.row = {r}] \in Table
    BY <1>1, <1>8 DEF Table
  <1>11. [w EXCEPT !.row = {r}].row = {r} /\ [w EXCEPT !.row = {r}].cols = w.cols
    BY <1>1 DEF Table
  <1>12. InColumns([w EXCEPT !.row = {r}])
    BY <1>9, <1>11 DEF InColumns
  <1>13. QED
    BY <1>8, <1>10, <1>12

\* What a statement of q leaves of the table: rows that were there or the row of
\* its save, an index that was there or the one it ensures.
Written(q, t) ==
    /\ InColumns(t)
    /\ t.exists \/ t = NoTable
    /\ \/ t.row \subseteq View(q).row
       \/ t.row = {NewRow(q)} /\ op[q].at = "row" /\ Prepared(q)
    /\ t.index => View(q).index \/ op[q].at = "index"

\* What a step does to the database: a statement of an open transaction or on
\* its own, the end of a transaction, or nothing.
LEMMA Effects ==
    ASSUME TypeOK, NEW q \in Process, Step(q)
    PROVE  \/ /\ \E t \in Table : Written(q, t) /\ Execute(q, t)
              /\ con[q].open => con'[q].open
              /\ con[q].block => con'[q].block
           \/ (Install(q) \/ Discard(q)) /\ con'[q] = NoTx
           \/ /\ UNCHANGED <<db, holder, work>>
              /\ con[q].open => con'[q].open
              /\ con[q].block => con'[q].block
  <1>1. View(q) \in Table /\ InColumns(View(q))
    BY ViewIsTable
  <1>2. /\ NoTable \in Table /\ NewTable \in Table
        /\ Written(q, NoTable) /\ Written(q, NewTable)
    BY DEF NoTable, NewTable, Table, InColumns, Written
  <1>3. con \in [Process -> Connection]
    BY Parts
  <1>4. CASE Find(q) \/ Save(q) \/ LookUp(q) \/ Begin(q)
    BY <1>3, <1>4 DEF Find, Save, ToRow, LookUp, Begin, Connection
  <1>5. CASE Delete(q)
    <2>1. View(q).exists => /\ [View(q) EXCEPT !.row = {}] \in Table
                            /\ Written(q, [View(q) EXCEPT !.row = {}])
      BY <1>1 DEF Table, InColumns, Written
    <2>2. (con[q].open => con'[q].open) /\ (con[q].block => con'[q].block)
      BY <1>3, <1>5 DEF Delete, Connection
    <2>3. QED
      BY <1>5, <2>1, <2>2 DEF Delete
  <1>6. CASE DropTable(q)
    BY <1>2, <1>6 DEF DropTable
  <1>7. CASE CreateTable(q)
    <2>1. View(q).exists => Written(q, View(q))
      BY <1>1 DEF Written
    <2>2. QED
      BY <1>1, <1>2, <1>7, <2>1 DEF CreateTable
  <1>8. CASE AddColumn(q)
    <2>1. PICK k \in Needed(q) : Execute(q, [View(q) EXCEPT !.cols = @ \cup {k}])
      BY <1>8 DEF AddColumn
    <2>2. k \in Eligible
      BY IbisAssumption DEF Needed, IndexColumn
    <2>3. /\ [View(q) EXCEPT !.cols = @ \cup {k}] \in Table
          /\ Written(q, [View(q) EXCEPT !.cols = @ \cup {k}])
      BY <1>1, <1>8, <2>2 DEF Table, InColumns, Written, AddColumn
    <2>4. QED
      BY <1>8, <2>1, <2>3 DEF AddColumn
  <1>9. CASE CreateIndex(q)
    <2>1. /\ [View(q) EXCEPT !.index = TRUE] \in Table
          /\ Written(q, [View(q) EXCEPT !.index = TRUE])
      BY <1>1, <1>9 DEF Table, InColumns, Written, CreateIndex
    <2>2. QED
      BY <1>3, <1>9, <2>1 DEF CreateIndex, ToRow, Connection
  <1>10. CASE WriteRow(q)
    <2> DEFINE t == [View(q) EXCEPT !.row = {NewRow(q)}]
    <2>1. op[q].at = "row" /\ Prepared(q) /\ Accepted(q) /\ Execute(q, t)
      BY <1>10 DEF WriteRow
    <2>2. t \in Table /\ InColumns(t)
      BY <2>1, NewRowIsRow
    <2>3. t.row = {NewRow(q)} /\ t.exists /\ t.index = View(q).index
      BY <1>1, <2>1 DEF Table, Accepted
    <2>4. Written(q, t)
      BY <2>1, <2>2, <2>3 DEF Written
    <2>5. UNCHANGED con
      BY <1>10 DEF WriteRow
    <2>6. QED
      BY <2>1, <2>2, <2>4, <2>5
  <1>11. CASE SaveEnd(q)
    BY <1>3, <1>11 DEF SaveEnd
  <1>12. CASE SaveFails(q)
    BY <1>3, <1>12 DEF SaveFails, FailSave, Connection
  <1>13. CASE Commit(q) \/ Abort(q) \/ Crash(q)
    BY <1>3, <1>13 DEF Commit, Abort, Crash
  <1>14. QED
    BY <1>4, <1>5, <1>6, <1>7, <1>8, <1>9, <1>10, <1>11, <1>12, <1>13 DEF Step

\* The tables stay well formed.
LEMMA TablesStep ==
    ASSUME TypeOK, NEW q \in Process, Step(q)
    PROVE  TablesOK'
  <1>1. TablesOK
    BY Parts
  <1>2. \A p \in Process : p # q => con'[p] = con[p]
    BY Others
  <1>3. CASE /\ \E t \in Table : Written(q, t) /\ Execute(q, t)
             /\ con[q].open => con'[q].open
    <2>1. PICK t \in Table : InColumns(t) /\ Execute(q, t)
      BY <1>3 DEF Written
    <2>2. InColumns(db') /\ InColumns(work')
      BY <1>1, <2>1 DEF TablesOK, Execute
    <2>3. QED
      BY <1>1, <1>3, <2>1, <2>2 DEF TablesOK, Execute, InColumns
  <1>4. CASE (Install(q) \/ Discard(q)) /\ con'[q] = NoTx
    BY <1>1, <1>2, <1>4 DEF TablesOK, Install, Discard, InColumns
  <1>5. CASE /\ UNCHANGED <<db, holder, work>>
             /\ con[q].open => con'[q].open
    BY <1>1, <1>2, <1>5 DEF TablesOK, InColumns
  <1>6. QED
    BY <1>3, <1>4, <1>5, Effects

\* So does what the process of the step remembers and is doing.
LEMMA ProcessStep ==
    ASSUME TypeOK, NEW q \in Process, Step(q)
    PROVE  ProcessOK(q)'
  <1>1. ProcessOK(q)
    BY Parts
  <1>2. /\ con \in [Process -> Connection] /\ cache \in [Process -> Schema]
        /\ ensured \in [Process -> BOOLEAN] /\ op \in [Process -> SaveRecord]
        /\ OwnTx[q] \in BOOLEAN
    BY Parts
  <1>3. View(q) \in Table /\ Cached(q) \in Schema /\ Forgotten \in Schema
        /\ \A t \in Table : Columns(t) \in Schema
    BY ViewIsTable, CachedIsSchema
  <1>4. NoSave \in SaveRecord /\ NoTx \in Connection /\ NewTable \in Table
    BY DEF NoSave, NoTx, SaveRecord, Connection, Kind, NewTable, NoTable, Table
  <1>20. ASSUME /\ op'[q] = NoSave /\ cache'[q] \in Schema /\ ensured'[q] \in BOOLEAN
                /\ con'[q] = NoTx
                   \/ /\ con'[q].open = con[q].open /\ con'[q].block = con[q].block
                      /\ con[q].block /\ con'[q] \in Connection
         PROVE  ProcessOK(q)'
    <2>1. NoSave.at = "none"
      BY DEF NoSave
    <2>2. ~NoTx.open /\ ~NoTx.block /\ ~NoTx.broken
      BY DEF NoTx
    <2>3. /\ con'[q] \in Connection /\ (con'[q].block => con'[q].open)
          /\ (con'[q].broken => con'[q].block) /\ (con'[q].open => con'[q].block)
      BY <1>1, <1>4, <1>20, <2>2 DEF ProcessOK
    <2>4. QED
      BY <1>4, <1>20, <2>1, <2>3 DEF ProcessOK, Idle
  <1>5. CASE Find(q)
    BY <1>1, <1>2, <1>3, <1>5 DEF Find, Refreshed, ProcessOK, Idle
  <1>6. CASE Delete(q)
    <2>1. PICK c \in Schema : cache' = [cache EXCEPT ![q] = c]
      BY <1>3, <1>6 DEF Delete
    <2>2. /\ con'[q] \in Connection /\ con'[q].open = con[q].open
          /\ con'[q].block = con[q].block /\ (con'[q].broken => con[q].open)
      BY <1>1, <1>2, <1>6 DEF Delete, Connection, ProcessOK
    <2>3. UNCHANGED <<ensured, op>> /\ Idle(q)
      BY <1>6 DEF Delete
    <2>4. QED
      BY <1>1, <1>2, <2>1, <2>2, <2>3 DEF ProcessOK, Idle, NoSave
  <1>7. CASE DropTable(q)
    BY <1>1, <1>2, <1>3, <1>7 DEF DropTable, ProcessOK, Idle
  <1>8. CASE Save(q)
    BY <1>1, <1>2, <1>8 DEF Save, ToRow, ProcessOK, Idle, Connection, SaveRecord, NoSave
  <1>9. CASE LookUp(q)
    BY <1>1, <1>2, <1>3, <1>9 DEF LookUp, ProcessOK, Idle
  <1>10. CASE CreateTable(q)
    BY <1>1, <1>2, <1>3, <1>4, <1>10 DEF CreateTable, ProcessOK, Idle
  <1>11. CASE AddColumn(q)
    BY <1>1, <1>2, <1>11 DEF AddColumn, ProcessOK, Idle, Needed, IndexColumn, Schema
  <1>12. CASE CreateIndex(q)
    BY <1>1, <1>2, <1>12 DEF CreateIndex, ToRow, ProcessOK, Idle, Connection, SaveRecord, NoSave
  <1>13. CASE WriteRow(q)
    BY <1>1, <1>2, <1>4, <1>13 DEF WriteRow, ProcessOK, Idle, Connection, SaveRecord, NoSave
  <1>14. CASE SaveEnd(q)
    <2>1. op' = [op EXCEPT ![q] = NoSave] /\ UNCHANGED <<cache, ensured>>
      BY <1>14 DEF SaveEnd
    <2>2. (con' = con /\ con[q].block) \/ con' = [con EXCEPT ![q] = NoTx]
      BY <1>14 DEF SaveEnd
    <2>3. QED
      BY <1>2, <1>20, <2>1, <2>2
  <1>15. CASE SaveFails(q)
    <2>1. op' = [op EXCEPT ![q] = NoSave] /\ ensured' = ensured
      BY <1>15 DEF SaveFails, FailSave
    <2>2. cache'[q] \in Schema
      BY <1>2, <1>3, <1>15 DEF SaveFails, FailSave
    <2>3. \/ con[q].block /\ con' = [con EXCEPT ![q].broken = TRUE]
          \/ con[q].block /\ con' = con
          \/ con' = [con EXCEPT ![q] = NoTx]
      BY <1>2, <1>15 DEF SaveFails, FailSave, Connection
    <2>4. QED
      <3>1. \/ con'[q] = NoTx
            \/ /\ con'[q].open = con[q].open /\ con'[q].block = con[q].block
               /\ con[q].block /\ con'[q] \in Connection
        <4>1. CASE con[q].block /\ con' = [con EXCEPT ![q].broken = TRUE]
          <5>1. con[q] \in Connection /\ con'[q] = [con[q] EXCEPT !.broken = TRUE]
            BY <1>2, <4>1
          <5>2. QED
            BY <4>1, <5>1 DEF Connection
        <4>2. CASE con[q].block /\ con' = con
          BY <1>2, <4>2
        <4>3. CASE con' = [con EXCEPT ![q] = NoTx]
          BY <1>2, <4>3
        <4>4. QED
          BY <2>3, <4>1, <4>2, <4>3
      <3>2. op'[q] = NoSave /\ ensured'[q] \in BOOLEAN
        BY <1>2, <2>1
      <3>3. QED
        BY <1>20, <2>2, <3>1, <3>2
  <1>16. CASE Begin(q)
    BY <1>1, <1>2, <1>16 DEF Begin, ProcessOK, Idle, Connection, SaveRecord, NoSave
  <1>17. CASE Commit(q) \/ Abort(q) \/ Crash(q)
    BY <1>2, <1>3, <1>17, <1>20 DEF Commit, Abort, Crash, InBlock, Idle
  <1>18. QED
    BY <1>5, <1>6, <1>7, <1>8, <1>9, <1>10, <1>11, <1>12, <1>13, <1>14, <1>15,
       <1>16, <1>17 DEF Step

LEMMA TypeStep ==
    ASSUME TypeOK, [Next]_vars
    PROVE  TypeOK'
  <1>1. CASE UNCHANGED vars
    BY <1>1 DEF vars, TypeOK, TxScope, Idle, InColumns
  <1>2. ASSUME NEW q \in Process, Step(q) PROVE TypeOK'
    <2>1. TablesOK' /\ ProcessOK(q)'
      BY <1>2, TablesStep, ProcessStep
    <2>2. ASSUME NEW p \in Process, p # q PROVE ProcessOK(p)'
      BY <1>2, <2>2, Parts, Others DEF ProcessOK, Idle
    <2>3. /\ con' \in [Process -> Connection] /\ cache' \in [Process -> Schema]
          /\ ensured' \in [Process -> BOOLEAN] /\ op' \in [Process -> SaveRecord]
      BY <1>2, <2>1, OwnOnly, Parts DEF ProcessOK
    <2>4. TablesOK' /\ \A p \in Process : ProcessOK(p)'
      BY <2>1, <2>2
    <2>5. QED
      BY <2>3, <2>4 DEF TypeOK, TxScope, TablesOK, ProcessOK, SaveRecord
  <1>3. QED
    BY <1>1, <1>2 DEF Next

LEMMA TypeInit ==
    ASSUME Init
    PROVE  TypeOK
  <1>1. NoTable \in Table /\ InColumns(NoTable)
    BY DEF NoTable, Table, InColumns
  <1>2. NoTx \in Connection /\ Forgotten \in Schema
        /\ NoSave \in [at : {"none", "index", "row", "end"},
                       doc : Doc \cup {Empty}, kind : Kind]
    BY DEF NoTx, Connection, Forgotten, Schema, NoSave, Kind
  <1>3. TxScope
    BY DEF Init, TxScope, NoTx, Idle, NoSave
  <1>4. QED
    BY <1>1, <1>2, <1>3 DEF Init, TypeOK

\* In every reachable state the variables have their types, rows have values in
\* columns only, and transactions extend as they should.
THEOREM TypeCorrect == Spec => []TypeOK
  <1>1. Init => TypeOK
    BY TypeInit
  <1>2. TypeOK /\ [Next]_vars => TypeOK'
    BY TypeStep
  <1>3. QED
    BY <1>1, <1>2, PTL DEF Spec

-----------------------------------------------------------------------------
(***************************************************************************)
(* The invariant.                                                          *)
(***************************************************************************)
\* When the row is written, the columns of the document are the columns the
\* process knows, and an old row has nothing in a key that is no column.
LEMMA RowKeys ==
    ASSUME TypeOK, NEW q \in Process, op[q].at = "row", Prepared(q), Accepted(q),
           NEW k \in Key
    PROVE  /\ k \in Eligible /\ op[q].doc[k] # Missing <=> k \in InColumn(q)
           /\ k \notin Eligible => NewRow(q).col[k] = Null
           /\ k \in InColumn(q) => NewRow(q).col[k] = op[q].doc[k]
           /\ NewRow(q).data[k] = IF k \in InColumn(q) /\ op[q].doc[k] # Null
                                  THEN Missing ELSE op[q].doc[k]
           /\ NewRow(q).col[k] \in Value \cup {Null}
           /\ cache[q].known /\ cache[q].exists /\ cache[q].cols \subseteq Eligible
           /\ k \in cache[q].cols /\ op[q].doc[k] # Missing => k \in InColumn(q)
  <1>1. cache[q] \in Schema
    BY DEF TypeOK
  <1>2. cache[q].known /\ cache[q].exists /\ cache[q].cols \subseteq Eligible
    BY <1>1 DEF Schema, Prepared
  <1>3. k \in Eligible /\ op[q].doc[k] # Missing <=> k \in InColumn(q)
    BY DEF InColumn, Needed, Prepared
  <1>4. NewRow(q).col[k] \in Value \cup {Null}
    BY NewRowIsRow DEF Row
  <1>5. k \notin Eligible => NewRow(q).col[k] = Null
    <2> DEFINE t == [View(q) EXCEPT !.row = {NewRow(q)}]
    <2>1. View(q) \in Table /\ View(q).cols \subseteq Eligible
      BY ViewIsTable DEF Table
    <2>2. t.row = {NewRow(q)} /\ t.cols = View(q).cols /\ InColumns(t)
      BY <2>1, NewRowIsRow DEF Table
    <2>3. QED
      BY <2>1, <2>2 DEF InColumns
  <1>6. k \in InColumn(q) => NewRow(q).col[k] = op[q].doc[k]
    BY DEF NewRow
  <1>7. NewRow(q).data[k] = IF k \in InColumn(q) /\ op[q].doc[k] # Null
                            THEN Missing ELSE op[q].doc[k]
    BY DEF NewRow, Data
  <1>8. QED
    BY <1>2, <1>3, <1>4, <1>5, <1>6, <1>7

\* What is written can be read back and found.
LEMMA WrittenIsRead ==
    ASSUME TypeOK, NEW q \in Process, WriteRow(q),
           NEW k \in Key, NEW v \in Value \cup {Null}, op[q].doc[k] = v
    PROVE  Has(q, k, v)' /\ (v # Null => Finds(q, k, v)')
  <1> DEFINE r == NewRow(q)
             t == [View(q) EXCEPT !.row = {r}]
  <1>1. op[q].at = "row" /\ Prepared(q) /\ Accepted(q) /\ Execute(q, t) /\ cache' = cache
    BY DEF WriteRow
  <1>2. View(q)' = t /\ t.row = {r}
    BY <1>1, ExecuteView, ViewIsTable DEF Table
  <1>3. v # Missing
    BY DEF IbisAssumption
  <1>4. /\ k \in Eligible <=> k \in InColumn(q)
        /\ k \notin Eligible => r.col[k] = Null
        /\ k \in InColumn(q) => r.col[k] = v
        /\ r.data[k] = IF k \in InColumn(q) /\ v # Null THEN Missing ELSE v
        /\ cache[q].known /\ cache[q].exists /\ cache[q].cols \subseteq Eligible
        /\ k \in cache[q].cols => k \in InColumn(q)
    BY <1>1, <1>3, RowKeys
  <1>5. (IF r.col[k] # Null THEN r.col[k] ELSE r.data[k]) = v
    BY <1>4
  <1>6. Has(q, k, v)'
    BY <1>2, <1>5 DEF Has, Decoded
  <1>7. Cached(q)' = cache[q]
    BY <1>1, <1>4 DEF Cached
  <1>8. k \in InColumn(q) => k \in cache[q].cols
    BY DEF InColumn
  <1>9. v # Null => (IF k \in cache[q].cols THEN r.col[k] ELSE r.data[k]) = v
    BY <1>4, <1>8
  <1>10. v # Null => Finds(q, k, v)'
    BY <1>2, <1>4, <1>7, <1>9 DEF Finds
  <1>11. QED
    BY <1>6, <1>10

\* What q sees keeps its keys in one place, and is empty if it does not exist.
LEMMA ViewLocated ==
    ASSUME IInv, NEW q \in Process
    PROVE  InOnePlace(View(q)) /\ (~View(q).exists => View(q) = NoTable)
  BY DEF IInv, Located, Absent, View

LEMMA AbsentStep ==
    ASSUME IInv, NEW q \in Process, Step(q)
    PROVE  Absent'
  <1>1. TypeOK /\ Absent
    BY DEF IInv
  <1>2. CASE \E t \in Table : Written(q, t) /\ Execute(q, t)
    BY <1>1, <1>2 DEF Absent, Written, Execute
  <1>3. CASE Install(q) \/ Discard(q) \/ UNCHANGED <<db, holder, work>>
    BY <1>1, <1>3 DEF Absent, Install, Discard
  <1>4. QED
    BY <1>1, <1>2, <1>3, Effects

LEMMA LocatedStep ==
    ASSUME IInv, NEW q \in Process, Step(q)
    PROVE  Located'
  <1>1. TypeOK /\ Located
    BY DEF IInv
  <1>2. CASE \E t \in Table : Written(q, t) /\ Execute(q, t)
    <2>1. PICK t \in Table : Written(q, t) /\ Execute(q, t)
      BY <1>2
    <2>2. CASE t.row \subseteq View(q).row
      <3>1. InOnePlace(t)
        BY <2>2, ViewLocated DEF InOnePlace
      <3>2. QED
        BY <1>1, <2>1, <3>1 DEF Located, Execute, InOnePlace
    <2>3. CASE t.row = {NewRow(q)} /\ op[q].at = "row" /\ Prepared(q)
      <3>1. \A k \in Eligible : NewRow(q).data[k] \in {Null, Missing}
        BY <2>3, IbisAssumption DEF NewRow, Data, InColumn, Needed, Prepared
      <3>2. InOnePlace(t)
        BY <2>3, <3>1 DEF InOnePlace
      <3>3. QED
        BY <1>1, <2>1, <3>2 DEF Located, Execute, InOnePlace
    <2>4. QED
      BY <2>1, <2>2, <2>3 DEF Written
  <1>3. CASE Install(q) \/ Discard(q) \/ UNCHANGED <<db, holder, work>>
    BY <1>1, <1>3 DEF Located, Install, Discard, InOnePlace
  <1>4. QED
    BY <1>1, <1>2, <1>3, Effects

LEMMA EndingStep ==
    ASSUME IInv, NEW q \in Process, Step(q)
    PROVE  Ending'
  <1>1. TypeOK /\ Ending
    BY DEF IInv
  <1> SUFFICES ASSUME NEW p \in Process, op'[p].at = "end"
               PROVE  holder' = p /\ ReadBack(p)'
    BY DEF Ending
  <1>2. CASE p # q
    <2>1. /\ op'[p] = op[p] /\ cache'[p] = cache[p]
          /\ holder = p => holder' = p /\ View(p)' = View(p)
      BY <1>1, <1>2, Others
    <2>2. holder = p /\ ReadBack(p)
      BY <1>1, <2>1 DEF Ending
    <2>3. QED
      BY <2>1, <2>2 DEF ReadBack, Has, Finds, Cached
  <1>3. CASE p = q
    <2>1. WriteRow(q) /\ OwnTx[q]
      <3>1. op \in [Process -> SaveRecord]
        BY <1>1, Parts
      <3>2. NoSave.at # "end"
        BY DEF NoSave
      <3>3. WriteRow(q) \/ op'[q] = op[q]
        BY <1>3, <3>1, <3>2 DEF Step, Find, Delete, DropTable, Save, LookUp,
           CreateTable, AddColumn, CreateIndex, SaveEnd, SaveFails, FailSave,
           Begin, Commit, Abort, Crash, SaveRecord
      <3>4. op'[q] = op[q] => op[q].at = "end"
        BY <1>3
      <3>5. op[q].at = "end" => ~Idle(q) /\ ~Saving(q)
        BY <3>2 DEF Idle, Saving
      <3>6. op[q].at = "end" => SaveEnd(q) \/ SaveFails(q) \/ Crash(q)
        BY <3>5 DEF Step, Find, Delete, DropTable, Save, LookUp,
           CreateTable, AddColumn, CreateIndex, WriteRow, Begin, Commit, Abort, InBlock
      <3>7. SaveEnd(q) \/ SaveFails(q) \/ Crash(q) => op'[q] = NoSave
        BY <3>1 DEF SaveEnd, SaveFails, FailSave, Crash
      <3>8. WriteRow(q)
        BY <1>3, <3>2, <3>3, <3>4, <3>6, <3>7
      <3>9. OwnTx[q]
        BY <1>3, <3>1, <3>2, <3>8 DEF WriteRow
      <3>10. QED
        BY <3>8, <3>9
    <2>2. op'[q].doc = op[q].doc
      BY <1>1, <2>1, Parts DEF WriteRow, SaveRecord
    <2>3. con[q].open
      BY <1>1, <2>1, Parts DEF ProcessOK, WriteRow
    <2>4. holder' = q
      BY <2>1, <2>3 DEF WriteRow, Execute
    <2>5. ReadBack(q)'
      BY <1>1, <2>1, <2>2, WrittenIsRead DEF ReadBack
    <2>6. QED
      BY <1>3, <2>4, <2>5
  <1>4. QED
    BY <1>2, <1>3

LEMMA OwnTxIndexStep ==
    ASSUME IInv, NEW q \in Process, Step(q)
    PROVE  OwnTxIndex'
  <1>1. TypeOK /\ OwnTxIndex /\ TablesOK /\ ProcessOK(q)
    BY Parts DEF IInv
  <1> SUFFICES ASSUME NEW p \in Process, con'[p].open, ~con'[p].block,
                      holder' = p, work'.index
               PROVE  db'.index
    BY DEF OwnTxIndex
  <1>2. CASE p # q
    BY <1>1, <1>2, Others DEF OwnTxIndex
  <1>3. CASE p = q
    <2>1. CASE /\ \E t \in Table : Written(q, t) /\ Execute(q, t)
               /\ con[q].block => con'[q].block
      <3>1. PICK t \in Table : Written(q, t) /\ Execute(q, t)
        BY <2>1
      <3>2. con[q].open /\ ~con[q].block /\ t.index /\ db' = db
        BY <1>1, <1>3, <2>1, <3>1 DEF Execute, TypeOK
      <3>3. op[q].at # "index"
        BY <1>1, <3>2 DEF ProcessOK
      <3>4. View(q).index
        BY <3>1, <3>2, <3>3 DEF Written
      <3>5. QED
        BY <1>1, <3>2, <3>4 DEF View, OwnTxIndex
    <2>2. CASE Install(q) \/ Discard(q)
      BY <1>1, <1>3, <2>2 DEF Install, Discard, TypeOK
    <2>3. CASE UNCHANGED <<db, holder, work>> /\ (con[q].block => con'[q].block)
      BY <1>1, <1>3, <2>3 DEF OwnTxIndex, TablesOK, TypeOK
    <2>4. QED
      BY <1>1, <2>1, <2>2, <2>3, Effects
  <1>4. QED
    BY <1>2, <1>3

LEMMA InvStep ==
    ASSUME IInv, [Next]_vars
    PROVE  IInv'
  <1>1. TypeOK'
    BY TypeStep DEF IInv
  <1>2. CASE UNCHANGED vars
    BY <1>1, <1>2 DEF vars, IInv, Absent, Located, InOnePlace, Ending, ReadBack,
       Has, Finds, Cached, View, OwnTxIndex
  <1>3. ASSUME NEW q \in Process, Step(q) PROVE IInv'
    BY <1>1, <1>3, AbsentStep, LocatedStep, EndingStep, OwnTxIndexStep DEF IInv
  <1>4. QED
    BY <1>2, <1>3 DEF Next

LEMMA InvInit ==
    ASSUME Init
    PROVE  IInv
  <1>1. TypeOK
    BY TypeInit
  <1>2. Absent /\ Located /\ Ending /\ OwnTxIndex
    BY DEF Init, Absent, Located, InOnePlace, Ending, OwnTxIndex, NoTable,
       NoTx, NoSave
  <1>3. QED
    BY <1>1, <1>2 DEF IInv

\* The invariant the theorems below rest on holds in every reachable state.
THEOREM Invariance == Spec => []IInv
  <1>1. Init => IInv
    BY InvInit
  <1>2. IInv /\ [Next]_vars => IInv'
    BY InvStep
  <1>3. QED
    BY <1>1, <1>2, PTL DEF Spec

\* A process whose cache is up to date finds a row by exactly the values it
\* reads from it (ibis_store.py:99-108, 166-177).
THEOREM SearchAgrees == Spec => []FindAgrees
  <1>1. IInv => FindAgrees
    <2> SUFFICES ASSUME IInv, NEW p \in Process, NEW k \in Key, NEW v \in Value,
                        Cached(p) = Columns(View(p))
                 PROVE  Finds(p, k, v) <=> Has(p, k, v)
      BY DEF FindAgrees
    <2>1. View(p) \in Table /\ InColumns(View(p)) /\ InOnePlace(View(p))
          /\ (~View(p).exists => View(p).row = {})
      BY ViewIsTable, ViewLocated DEF IInv, NoTable
    <2>2. Cached(p).exists = View(p).exists /\ Cached(p).cols = View(p).cols
      BY DEF Columns
    <2>3. View(p).row # {} => View(p).exists
      BY <2>1
    <2>4. v # Null /\ v # Missing
      BY IbisAssumption
    <2>5. ASSUME NEW r \in View(p).row
          PROVE  (IF k \in View(p).cols THEN r.col[k] ELSE r.data[k]) = v
                 <=> Decoded(r)[k] = v
      <3>1. r.col[k] # Null => k \in View(p).cols
        BY <2>1, <2>5 DEF InColumns
      <3>2. k \in View(p).cols => r.data[k] # v
        BY <2>1, <2>4, <2>5 DEF InOnePlace, Table
      <3>3. Decoded(r)[k] = IF r.col[k] # Null THEN r.col[k] ELSE r.data[k]
        BY DEF Decoded
      <3>4. QED
        BY <2>4, <3>1, <3>2, <3>3
    <2>6. QED
      BY <2>2, <2>3, <2>5 DEF Finds, Has
  <1>2. QED
    BY <1>1, Invariance, PTL

-----------------------------------------------------------------------------
\* When a save ends, its document can be read back.
LEMMA EndIsRead ==
    ASSUME IInv, NEW p \in Process, SaveEnd(p),
           NEW k \in Key, NEW v \in Value \cup {Null}, op[p].doc[k] = v
    PROVE  Has(p, k, v)' /\ (v # Null => Finds(p, k, v)')
  <1>1. op[p].at = "end" /\ cache' = cache
    BY DEF SaveEnd
  <1>2. View(p)' = View(p)
    BY InstallView DEF IInv, SaveEnd, View
  <1>3. Has(p, k, v) /\ (v # Null => Finds(p, k, v))
    BY <1>1 DEF IInv, Ending, ReadBack
  <1>4. QED
    BY <1>1, <1>2, <1>3 DEF Has, Finds, Cached

\* A save that returns success can be read back key by key, and its process
\* finds it by each of its values (ibis_store.py:99-108, 148-177).
THEOREM SavesReadable == Spec => SavedReadable
  <1>1. IInv /\ [Next]_vars =>
          [\A p \in Process :
              (WriteRow(p) /\ Idle(p)') \/ SaveEnd(p) =>
                  \A k \in Key, v \in Value \cup {Null} : op[p].doc[k] = v =>
                      Has(p, k, v)' /\ (v # Null => Finds(p, k, v)')]_vars
    BY WrittenIsRead, EndIsRead DEF IInv
  <1>2. QED
    BY <1>1, Invariance, PTL DEF Spec, SavedReadable

-----------------------------------------------------------------------------
\* A process that remembers no more than it sees still does after its own
\* step, unless its COMMIT was a ROLLBACK.
LEMMA OwnCache ==
    ASSUME TypeOK, NEW q \in Process, Step(q), Sound(q), ~(con[q].broken /\ Commit(q))
    PROVE  Sound(q)'
  <1>1. View(q) \in Table /\ Cached(q) \in Schema /\ cache[q] \in Schema
        /\ cache \in [Process -> Schema] /\ TablesOK
    BY ViewIsTable, CachedIsSchema, Parts
  <1>2. Cached(q).exists /\ View(q).exists => Cached(q).cols \subseteq View(q).cols
    BY DEF Cached, Columns, Sound
  <1>3. Cached(q).exists /\ cache[q].known => View(q).exists
    BY DEF Cached, Sound
  <1>4. ~Forgotten.exists
    BY DEF Forgotten
  <1>5. CASE Find(q)
    <2>1. cache'[q] = Refreshed(q) /\ View(q)' = View(q)
      BY <1>1, <1>5 DEF Find, View
    <2>2. Refreshed(q).exists => Refreshed(q) = Cached(q) /\ View(q).exists
      BY <1>4 DEF Refreshed
    <2>3. QED
      BY <1>2, <2>1, <2>2 DEF Sound
  <1>6. CASE Delete(q)
    <2> DEFINE seen == IF Cached(q).exists THEN Cached(q) ELSE Columns(View(q))
    <2>1. cache'[q] = seen
      BY <1>1, <1>6 DEF Delete
    <2>2. Execute(q, [View(q) EXCEPT !.row = {}]) \/ UNCHANGED <<db, holder, work>>
      BY <1>6 DEF Delete
    <2>3. View(q)'.exists = View(q).exists /\ View(q)'.cols = View(q).cols
      BY <1>1, <2>2, ExecuteView DEF View, Table
    <2>4. seen.exists => View(q).exists /\ seen.cols \subseteq View(q).cols
      BY <1>2, <1>3 DEF Cached, Columns
    <2>5. QED
      BY <2>1, <2>3, <2>4 DEF Sound
  <1>7. CASE DropTable(q) \/ Abort(q) \/ Crash(q)
    BY <1>1, <1>4, <1>7 DEF DropTable, Abort, Crash, Sound
  <1>8. CASE Save(q) \/ Begin(q)
    BY <1>8 DEF Save, Begin, Sound, View
  <1>9. CASE LookUp(q)
    <2>1. cache'[q] = Cached(q) /\ View(q)' = View(q) /\ Cached(q) = Columns(View(q))
      BY <1>1, <1>9 DEF LookUp, View, Cached
    <2>2. QED
      BY <2>1 DEF Sound, Columns
  <1>10. CASE CreateTable(q)
    <2>1. PICK t : Execute(q, t) /\ cache' = [cache EXCEPT ![q] = Columns(t)]
      BY <1>10 DEF CreateTable
    <2>2. View(q)' = t
      BY <2>1, ExecuteView
    <2>3. QED
      BY <1>1, <2>1, <2>2 DEF Sound, Columns
  <1>11. CASE AddColumn(q)
    <2>1. PICK k : /\ Execute(q, [View(q) EXCEPT !.cols = @ \cup {k}])
                   /\ cache' = [cache EXCEPT ![q].cols = @ \cup {k}]
      BY <1>11 DEF AddColumn
    <2>2. View(q)' = [View(q) EXCEPT !.cols = @ \cup {k}]
      BY <2>1, ExecuteView
    <2>3. cache'[q].cols = cache[q].cols \cup {k} /\ cache[q].exists /\ View(q).exists
      BY <1>1, <1>11, <2>1 DEF Schema, AddColumn
    <2>4. View(q)'.cols = View(q).cols \cup {k} /\ View(q)'.exists
      BY <1>1, <2>2, <2>3 DEF Table
    <2>5. QED
      BY <2>3, <2>4 DEF Sound
  <1>12. CASE CreateIndex(q)
    <2>1. View(q)' = [View(q) EXCEPT !.index = TRUE] /\ cache' = cache
      BY <1>12, ExecuteView DEF CreateIndex
    <2>2. QED
      BY <1>1, <2>1 DEF Sound, Table
  <1>13. CASE WriteRow(q)
    <2>1. View(q)' = [View(q) EXCEPT !.row = {NewRow(q)}] /\ cache' = cache
      BY <1>13, ExecuteView DEF WriteRow
    <2>2. QED
      BY <1>1, <2>1 DEF Sound, Table
  <1>14. CASE SaveEnd(q) \/ Commit(q)
    <2>1. View(q)' = View(q) /\ cache' = cache
      BY <1>14, InstallView DEF SaveEnd, Commit, View
    <2>2. QED
      BY <2>1 DEF Sound
  <1>15. CASE SaveFails(q)
    <2>1. \/ View(q)' = View(q) /\ cache' = cache
          \/ cache'[q] = Forgotten
      <3>1. CASE con[q].block
        BY <1>15, <3>1 DEF SaveFails, FailSave, View
      <3>2. CASE con[q].open
        BY <1>1, <1>15, <3>1, <3>2 DEF SaveFails, FailSave
      <3>3. CASE ~con[q].block /\ ~con[q].open
        <4>1. holder # q
          BY <1>1, <3>3 DEF TablesOK, TypeOK
        <4>2. Discard(q)
          BY <1>15, <3>3 DEF SaveFails, FailSave
        <4>3. View(q)' = View(q)
          BY <4>1, <4>2 DEF Discard, View
        <4>4. cache' = cache \/ cache'[q] = Forgotten
          BY <1>1, <1>15, <3>3 DEF SaveFails, FailSave
        <4>5. QED
          BY <4>3, <4>4
      <3>4. QED
        BY <3>1, <3>2, <3>3
    <2>2. QED
      BY <1>4, <2>1 DEF Sound
  <1>16. QED
    BY <1>5, <1>6, <1>7, <1>8, <1>9, <1>10, <1>11, <1>12, <1>13, <1>14, <1>15 DEF Step

\* A process never remembers a table or a column that it does not see, unless
\* another drops the table or its own COMMIT was a ROLLBACK
\* (ibis_store.py:667-678).
THEOREM CacheStaysSound == Spec => CacheKept
  <1>1. ASSUME IInv, NEW q \in Process, Step(q), NEW p \in Process,
               Sound(p), ~Sound(p)'
        PROVE  Shrinks \/ (con[p].broken /\ Commit(p))
    <2>1. CASE p = q
      BY <1>1, <2>1, OwnCache DEF IInv
    <2>2. CASE p # q
      <3>1. /\ cache'[p] = cache[p]
            /\ View(p)' = View(p) \/ (View(p) = db /\ View(p)' = db')
        BY <1>1, <2>2, Others DEF IInv
      <3>2. View(p) = db /\ View(p)' = db'
        BY <1>1, <3>1 DEF Sound
      <3>3. /\ db.exists /\ cache[p].cols \subseteq db.cols
            /\ ~(db'.exists /\ cache[p].cols \subseteq db'.cols)
        BY <1>1, <3>1, <3>2 DEF Sound
      <3>4. QED
        BY <3>3 DEF Shrinks
    <2>3. QED
      BY <2>1, <2>2
  <1>2. IInv /\ [Next]_vars =>
          [\A p \in Process :
              Sound(p) /\ ~Sound(p)' => Shrinks \/ (con[p].broken /\ Commit(p))]_vars
    BY <1>1 DEF Next
  <1>3. QED
    BY <1>2, Invariance, PTL DEF Spec, CacheKept

-----------------------------------------------------------------------------
\* The step of a process that has ensured its indices leaves them in its view,
\* with the exceptions IndicesKept names.
LEMMA OwnIndices ==
    ASSUME IInv, NEW q \in Process, Step(q), Indexed(q), ~DropTable(q),
           ~(con[q].block /\ (Abort(q) \/ (Commit(q) /\ con[q].broken)))
    PROVE  Indexed(q)'
  <1>1. View(q) \in Table /\ ensured \in [Process -> BOOLEAN] /\ TablesOK /\ TypeOK
    BY ViewIsTable, Parts DEF IInv
  <1>2. CASE Find(q) \/ Save(q) \/ LookUp(q) \/ Begin(q)
    BY <1>2 DEF Find, Save, LookUp, Begin, Indexed, View
  <1>3. CASE Delete(q)
    <2>1. Execute(q, [View(q) EXCEPT !.row = {}]) \/ UNCHANGED <<db, holder, work>>
      BY <1>3 DEF Delete
    <2>2. View(q)'.index = View(q).index /\ ensured' = ensured
      BY <1>1, <1>3, <2>1, ExecuteView DEF View, Table, Delete
    <2>3. QED
      BY <2>2 DEF Indexed
  <1>4. CASE CreateTable(q)
    <2>1. ~View(q).exists => ~View(q).index
      BY ViewLocated DEF NoTable
    <2>2. /\ Execute(q, IF View(q).exists THEN View(q) ELSE NewTable)
          /\ ensured' = ensured
      BY <1>4 DEF CreateTable
    <2>3. View(q)' = IF View(q).exists THEN View(q) ELSE NewTable
      BY <1>1, <2>2, ExecuteView
    <2>4. QED
      BY <2>1, <2>2, <2>3 DEF Indexed
  <1>5. CASE AddColumn(q)
    <2>1. PICK k : Execute(q, [View(q) EXCEPT !.cols = @ \cup {k}])
      BY <1>5 DEF AddColumn
    <2>2. View(q)' = [View(q) EXCEPT !.cols = @ \cup {k}] /\ ensured' = ensured
      BY <1>1, <1>5, <2>1, ExecuteView DEF AddColumn
    <2>3. QED
      BY <1>1, <2>2 DEF Indexed, Table
  <1>6. CASE CreateIndex(q)
    <2>1. View(q)' = [View(q) EXCEPT !.index = TRUE]
      BY <1>1, <1>6, ExecuteView DEF CreateIndex
    <2>2. QED
      BY <1>1, <2>1 DEF Indexed, Table
  <1>7. CASE WriteRow(q)
    <2>1. View(q)' = [View(q) EXCEPT !.row = {NewRow(q)}] /\ ensured' = ensured
      BY <1>1, <1>7, ExecuteView DEF WriteRow
    <2>2. QED
      BY <1>1, <2>1 DEF Indexed, Table
  <1>8. CASE SaveEnd(q)
    BY <1>1, <1>8, InstallView DEF SaveEnd, View, Indexed
  <1>9. CASE SaveFails(q)
    <2>1. ensured' = ensured
      BY <1>9 DEF SaveFails, FailSave
    <2>2. CASE con[q].block
      BY <1>9, <2>1, <2>2 DEF SaveFails, FailSave, View, Indexed
    <2>3. CASE ~con[q].block
      <3>1. Discard(q)
        BY <1>9, <2>3 DEF SaveFails, FailSave
      <3>2. View(q)' = db
        BY <1>1, <3>1, DiscardView
      <3>3. holder = q => con[q].open
        BY <1>1 DEF TablesOK, TypeOK
      <3>4. View(q).index => db.index
        BY <2>3, <3>3 DEF View, IInv, OwnTxIndex
      <3>5. QED
        BY <2>1, <3>2, <3>4 DEF Indexed
    <2>4. QED
      BY <2>2, <2>3
  <1>10. CASE Commit(q)
    <2>1. Install(q) /\ ensured' = ensured
      BY <1>10 DEF Commit, InBlock
    <2>2. QED
      BY <1>1, <2>1, InstallView DEF Indexed
  <1>11. CASE Abort(q)
    BY <1>11 DEF Abort, InBlock
  <1>12. CASE Crash(q)
    BY <1>1, <1>12 DEF Crash, Indexed
  <1>13. QED
    BY <1>2, <1>3, <1>4, <1>5, <1>6, <1>7, <1>8, <1>9, <1>10, <1>11, <1>12 DEF Step

\* Once indices are ensured they are there until the table is dropped or the
\* block in which they were created is rolled back; a save's own rollback does
\* not undo them (traitable.py:1036, 1040).
THEOREM IndicesStay == Spec => IndicesKept
  <1>1. ASSUME IInv, NEW q \in Process, Step(q), NEW p \in Process,
               Indexed(p), ~Indexed(p)'
        PROVE  \/ db.index /\ ~db'.index
               \/ DropTable(p)
               \/ con[p].block /\ (Abort(p) \/ (Commit(p) /\ con[p].broken))
    <2>1. CASE p = q
      BY <1>1, <2>1, OwnIndices
    <2>2. CASE p # q
      <3>1. /\ ensured'[p] = ensured[p]
            /\ View(p)' = View(p) \/ (View(p) = db /\ View(p)' = db')
        BY <1>1, <2>2, Others DEF IInv
      <3>2. QED
        BY <1>1, <3>1 DEF Indexed
    <2>3. QED
      BY <2>1, <2>2
  <1>2. IInv /\ [Next]_vars =>
          [\A p \in Process : Indexed(p) /\ ~Indexed(p)' =>
              \/ db.index /\ ~db'.index
              \/ DropTable(p)
              \/ con[p].block /\ (Abort(p) \/ (Commit(p) /\ con[p].broken))]_vars
    BY <1>1 DEF Next
  <1>3. QED
    BY <1>2, Invariance, PTL DEF Spec, IndicesKept
=============================================================================
