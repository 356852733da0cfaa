------------------------ MODULE TraitableStoreProofs ------------------------
(***************************************************************************)
(* What holds of TraitableStore for any number of clients, documents and   *)
(* revisions.  In every configuration of the switches: its type invariant, *)
(* the identity of versions, that no save overwrites a change its instance *)
(* has not seen, that no history runs ahead.  Where the document and its   *)
(* history share a transaction: the order of histories, and that the store *)
(* implements AuditedStore.  Where clients only save: that no instance     *)
(* ever overwrites what it has not seen.                                   *)
(***************************************************************************)
EXTENDS TraitableStore, SequenceTheorems, TLAPS

(***************************************************************************)
(* Types                                                                   *)
(***************************************************************************)

\* A document read through a client's view, and the history, have their types.
LEMMA ViewType ==
    ASSUME TypeOK, NEW c \in Client, NEW i \in Id
    PROVE  /\ View(c, i) \in Doc \cup {NoDoc}
           /\ HistView(c, i) \in Seq(Doc)
    BY DEF TypeOK, View, HistView

\* Ending a transaction, either way, keeps the types.
LEMMA EndTxType ==
    ASSUME TypeOK, NEW c \in Client, CommitTx(c) \/ DiscardTx(c)
    PROVE  /\ doc' \in [Id -> Doc \cup {NoDoc}]
           /\ hist' \in [Id -> Seq(Doc)]
           /\ pend' \in [Client -> [Id -> Doc \cup {NoDoc, Clean}]]
           /\ phist' \in [Client -> [Id -> Seq(Doc)]]
<1>1. CASE CommitTx(c)
  BY <1>1, ViewType DEF TypeOK, CommitTx
<1>2. CASE DiscardTx(c)
  BY <1>2 DEF TypeOK, DiscardTx
<1> QED BY <1>1, <1>2

\* A write of a document or of its absence keeps the types.
LEMMA PutType ==
    ASSUME TypeOK, NEW c \in Client, NEW i \in Id, NEW d \in Doc \cup {NoDoc},
           NEW b \in BOOLEAN, Put(c, i, d, b)
    PROVE  /\ doc' \in [Id -> Doc \cup {NoDoc}]
           /\ pend' \in [Client -> [Id -> Doc \cup {NoDoc, Clean}]]
<1>1. CASE b
  <2>1. pend' = [pend EXCEPT ![c] = [pend[c] EXCEPT ![i] = d]] /\ doc' = doc
    BY <1>1 DEF Put
  <2> QED BY <2>1 DEF TypeOK
<1>2. CASE ~b
  BY <1>2 DEF TypeOK, Put
<1> QED BY <1>1, <1>2

\* A write keeps the types.
LEMMA WriteType ==
    ASSUME TypeOK, NEW c \in Client, NEW i \in Id, NEW d \in Doc \cup {NoDoc},
           NEW b \in BOOLEAN, Write(c, i, d, b)
    PROVE  /\ doc' \in [Id -> Doc \cup {NoDoc}]
           /\ pend' \in [Client -> [Id -> Doc \cup {NoDoc, Clean}]]
<1>1. CASE d = View(c, i)
  BY <1>1 DEF TypeOK, Write
<1>2. CASE d # View(c, i)
  BY <1>2, PutType DEF Write
<1> QED BY <1>1, <1>2

\* What a rollback leaves in memory are instances.
LEMMA RollbackType ==
    ASSUME TypeOK, NEW c \in Client
    PROVE  ObjAfterRollback(c) \in [Id -> Obj]
<1>1. ASSUME NEW i \in Id PROVE [obj[c][i] EXCEPT !.epoch = 0] \in Obj
  <2>1. obj[c][i] \in Obj
    BY DEF TypeOK
  <2> QED BY <2>1, StoreAssumption DEF Obj
<1>2. \A i \in Id : obj[c][i] \in Obj
  BY DEF TypeOK
<1> QED BY <1>1, <1>2 DEF ObjAfterRollback

\* set_revision leaves an instance.
LEMMA SyncedType ==
    ASSUME NEW d \in Doc
    PROVE  Synced(d) \in Obj
    BY StoreAssumption DEF Synced, Obj, Doc, Rev, Epoch

\* An instance that was never saved or loaded is an instance.
LEMMA FreshType ==
    ASSUME NEW v \in Value
    PROVE  Fresh(v) \in Obj
    BY StoreAssumption DEF Fresh, Obj

\* A save() in progress has its type.
LEMMA SaveOpType ==
    ASSUME TypeOK, NEW c \in Client, op[c] # Idle
    PROVE  /\ op[c] \in SaveOp
           /\ op[c].id \in Id /\ op[c].saved \in Doc /\ op[c].hist \in BOOLEAN
    BY DEF TypeOK, SaveOp

\* The initial state is well typed.
LEMMA InitType == Init => TypeOK
  <1> SUFFICES ASSUME Init PROVE TypeOK
    OBVIOUS
  <1>1. obj \in [Client -> [Id -> Obj]]
    BY FreshType DEF Init
  <1> QED BY <1>1, StoreAssumption DEF Init, TypeOK

\* Every step keeps the types.
LEMMA NextType == TypeOK /\ [Next]_vars => TypeOK'
  <1> SUFFICES ASSUME TypeOK, [Next]_vars PROVE TypeOK'
    OBVIOUS
  <1>1. ASSUME NEW c \in Client, SaveHistory(c) PROVE TypeOK'
    <2>1. op[c] \in SaveOp /\ op[c].id \in Id /\ op[c].saved \in Doc
      BY <1>1, SaveOpType DEF SaveHistory
    <2>2. op' \in [Client -> SaveOp \cup {Idle}]
      BY <1>1, <2>1 DEF SaveHistory, TypeOK, SaveOp
    <2>3. hist' \in [Id -> Seq(Doc)] /\ phist' \in [Client -> [Id -> Seq(Doc)]]
      <3>1. CASE SaveInTx(c)
        <4>1. /\ hist' = hist
              /\ phist' = [phist EXCEPT ![c] = [phist[c] EXCEPT
                             ![op[c].id] = Append(@, op[c].saved)]]
          BY <1>1, <3>1 DEF SaveHistory
        <4>2. /\ phist[c][op[c].id] \in Seq(Doc)
              /\ phist[c] \in [Id -> Seq(Doc)]
          BY <2>1 DEF TypeOK
        <4>3. [phist[c] EXCEPT ![op[c].id] = Append(@, op[c].saved)]
                  \in [Id -> Seq(Doc)]
          BY <2>1, <4>2
        <4> QED BY <4>1, <4>3 DEF TypeOK
      <3>2. CASE ~SaveInTx(c)
        <4>1. /\ hist' = [hist EXCEPT ![op[c].id] = Append(@, op[c].saved)]
              /\ phist' = phist
          BY <1>1, <3>2 DEF SaveHistory
        <4> QED BY <2>1, <4>1 DEF TypeOK
      <3> QED BY <3>1, <3>2
    <2> QED BY <1>1, <2>2, <2>3 DEF SaveHistory, TypeOK
  <1>2. ASSUME NEW c \in Client, SaveEnd(c) PROVE TypeOK'
    <2>1. op[c].id \in Id /\ Synced(op[c].saved) \in Obj
      BY <1>2, SaveOpType, SyncedType DEF SaveEnd
    <2> QED BY <1>2, <2>1, EndTxType DEF SaveEnd, TypeOK
  <1>3. ASSUME NEW c \in Client, SaveFail(c) PROVE TypeOK'
    BY <1>3, EndTxType, RollbackType DEF SaveFail, TypeOK
  <1>4. ASSUME NEW c \in Client, SaveUnacknowledged(c) PROVE TypeOK'
    BY <1>4, EndTxType DEF SaveUnacknowledged, TypeOK
  <1>5. ASSUME NEW c \in Client, Begin(c) PROVE TypeOK'
    BY <1>5 DEF Begin, TypeOK
  <1>6. ASSUME NEW c \in Client, Commit(c) PROVE TypeOK'
    BY <1>6, EndTxType DEF Commit, TypeOK
  <1>7. ASSUME NEW c \in Client, Abort(c) PROVE TypeOK'
    BY <1>7, EndTxType, RollbackType DEF Abort, TypeOK
  <1>8. ASSUME NEW c \in Client, Crash(c) PROVE TypeOK'
    <2>1. \A i \in Id : Fresh(obj[c][i].val) \in Obj
      BY FreshType DEF TypeOK, Obj
    <2>2. obj' \in [Client -> [Id -> Obj]]
      BY <1>8, <2>1 DEF Crash, TypeOK
    <2> QED BY <1>8, <2>2, EndTxType DEF Crash, TypeOK
  <1>9. ASSUME NEW c \in Client, NEW i \in Id, SaveDoc(c, i) PROVE TypeOK'
    <2>1. PICK d \in CollectionSave(obj[c][i], View(c, i), epoch[i]) :
             /\ d \in Doc
             /\ Write(c, i, d, SaveInTx(c))
             /\ epoch' = [epoch EXCEPT ![i] = IF d.epoch > @ THEN d.epoch ELSE @]
             /\ op' = [op EXCEPT ![c] = [id |-> i, saved |-> d,
                                         hist |-> NewRevision(c, i, d)]]
      BY <1>9 DEF SaveDoc
    <2>2. SaveInTx(c) \in BOOLEAN /\ NewRevision(c, i, d) \in BOOLEAN
      BY StoreAssumption DEF SaveInTx, NewRevision, OwnTx, TypeOK
    <2>3. epoch' \in [Id -> 0..MaxEpoch]
      BY <2>1, StoreAssumption DEF TypeOK, Doc, Epoch
    <2>4. op' \in [Client -> SaveOp \cup {Idle}]
      BY <2>1, <2>2 DEF TypeOK, SaveOp
    <2>5. /\ doc' \in [Id -> Doc \cup {NoDoc}]
          /\ pend' \in [Client -> [Id -> Doc \cup {NoDoc, Clean}]]
      BY <2>1, <2>2, WriteType
    <2> QED BY <1>9, <2>3, <2>4, <2>5 DEF SaveDoc, TypeOK
  <1>10. ASSUME NEW c \in Client, NEW i \in Id, Load(c, i) PROVE TypeOK'
    <2>1. Synced(View(c, i)) \in Obj
      BY <1>10, ViewType, SyncedType DEF Load
    <2> QED BY <1>10, <2>1 DEF Load, TypeOK
  <1>11. ASSUME NEW c \in Client, NEW i \in Id, Delete(c, i) PROVE TypeOK'
    <2>1. Fresh(obj[c][i].val) \in Obj
      BY FreshType DEF TypeOK, Obj
    <2>2. /\ doc' \in [Id -> Doc \cup {NoDoc}]
          /\ pend' \in [Client -> [Id -> Doc \cup {NoDoc, Clean}]]
      <3>1. outer[c] \in BOOLEAN
        BY DEF TypeOK
      <3>2. Write(c, i, NoDoc, outer[c])
        BY <1>11 DEF Delete
      <3> QED BY <3>1, <3>2, WriteType
    <2> QED BY <1>11, <2>1, <2>2 DEF Delete, TypeOK
  <1>12. ASSUME NEW c \in Client, NEW i \in Id, NEW v \in Value, Edit(c, i, v)
         PROVE TypeOK'
    <2>1. obj[c][i] \in Obj
      BY DEF TypeOK
    <2>2. [obj[c][i] EXCEPT !.val = v] \in Obj
      BY <2>1 DEF Obj
    <2>3. obj' = [obj EXCEPT ![c] = [obj[c] EXCEPT
                                ![i] = [obj[c][i] EXCEPT !.val = v]]]
      BY <1>12 DEF Edit
    <2>4. obj' \in [Client -> [Id -> Obj]]
      BY <2>2, <2>3 DEF TypeOK
    <2> QED BY <1>12, <2>4 DEF Edit, TypeOK
  <1>13. ASSUME NEW c \in Client, NEW i \in Id, NEW k \in 1..Len(HistView(c, i)),
                NEW save \in BOOLEAN, Restore(c, i, k, save)
         PROVE TypeOK'
    <2>1. HistView(c, i)[k] \in Doc
      BY ViewType
    <2>2. obj' \in [Client -> [Id -> Obj]]
      BY <1>13, <2>1, SyncedType DEF Restore, TypeOK
    <2>3. CASE save
      <3> DEFINE d == [rev |-> 1, val |-> HistView(c, i)[k].val,
                       epoch |-> epoch[i] + 1]
      <3>1. d \in Doc /\ epoch[i] + 1 \in 0..MaxEpoch
        BY <1>13, <2>1, <2>3, StoreAssumption
           DEF Restore, TypeOK, Doc, Rev, Epoch
      <3>2. Put(c, i, d, outer[c])
        BY <1>13, <2>3 DEF Restore
      <3> HIDE DEF d
      <3>3. /\ doc' \in [Id -> Doc \cup {NoDoc}]
            /\ pend' \in [Client -> [Id -> Doc \cup {NoDoc, Clean}]]
        BY <3>1, <3>2, PutType, outer[c] \in BOOLEAN DEF TypeOK
      <3> QED BY <1>13, <2>2, <2>3, <3>1, <3>3 DEF Restore, TypeOK, d
    <2>4. CASE ~save
      BY <1>13, <2>2, <2>4 DEF Restore, TypeOK
    <2> QED BY <2>3, <2>4
  <1>14. CASE UNCHANGED vars
    BY <1>14 DEF vars, TypeOK
  <1> QED BY <1>1, <1>2, <1>3, <1>4, <1>5, <1>6, <1>7, <1>8, <1>9, <1>10,
             <1>11, <1>12, <1>13, <1>14 DEF Next

\* Every reachable state is well typed.
THEOREM TypeCorrect == Spec => []TypeOK
  <1>1. Init => TypeOK
    BY InitType
  <1>2. TypeOK /\ [Next]_vars => TypeOK'
    BY NextType
  <1> QED BY <1>1, <1>2, PTL DEF Spec

(***************************************************************************)
(* Locks and the scope of transactions                                     *)
(***************************************************************************)

\* A write keeps the row locks exclusive: it needs the lock, and takes it.
LEMMA WriteLocks ==
    ASSUME TypeOK, RowLock, NEW c \in Client, NEW i \in Id, NEW d, NEW b,
           \/ Write(c, i, d, b)
           \/ CanWrite(c, i) /\ Put(c, i, d, b)
    PROVE  RowLock'
<1>1. CASE UNCHANGED pend
  BY <1>1 DEF RowLock
<1>2. CASE CanWrite(c, i) /\ pend' = [pend EXCEPT ![c][i] = d]
  BY <1>2 DEF RowLock, CanWrite, TypeOK
<1> QED BY <1>1, <1>2 DEF Write, Put

\* The row locks stay exclusive.
LEMMA NextRowLock == TypeOK /\ RowLock /\ [Next]_vars => RowLock'
  <1> SUFFICES ASSUME TypeOK, RowLock, [Next]_vars PROVE RowLock'
    OBVIOUS
  <1>1. ASSUME NEW c \in Client, CommitTx(c) \/ DiscardTx(c) PROVE RowLock'
    <2>1. pend' = [pend EXCEPT ![c] = [i \in Id |-> Clean]]
      BY <1>1 DEF CommitTx, DiscardTx
    <2>2. \A i \in Id, b \in Client : pend'[b][i] # Clean => pend[b][i] # Clean
      BY <2>1 DEF TypeOK
    <2> QED BY <2>2 DEF RowLock
  <1>2. CASE UNCHANGED pend
    BY <1>2 DEF RowLock
  <1>3. ASSUME NEW c \in Client, NEW i \in Id, SaveDoc(c, i) PROVE RowLock'
    BY <1>3, WriteLocks DEF SaveDoc
  <1>4. ASSUME NEW c \in Client, NEW i \in Id, Delete(c, i) PROVE RowLock'
    BY <1>4, WriteLocks DEF Delete
  <1>5. ASSUME NEW c \in Client, NEW i \in Id, NEW k, NEW save \in BOOLEAN,
               Restore(c, i, k, save)
        PROVE RowLock'
    <2>1. CASE save
      BY <1>5, <2>1, WriteLocks DEF Restore
    <2>2. CASE ~save
      BY <1>2, <1>5, <2>2 DEF Restore
    <2> QED BY <2>1, <2>2
  <1>6. ASSUME NEW c \in Client,
               \/ SaveHistory(c) \/ SaveEnd(c) \/ SaveFail(c)
               \/ SaveUnacknowledged(c) \/ Begin(c) \/ Commit(c) \/ Abort(c)
               \/ Crash(c)
        PROVE RowLock'
    BY <1>1, <1>2, <1>6
       DEF SaveHistory, SaveEnd, SaveFail, SaveUnacknowledged, Begin, Commit,
           Abort, Crash
  <1>7. ASSUME NEW c \in Client, NEW i \in Id,
               Load(c, i) \/ \E v \in Value : Edit(c, i, v)
        PROVE RowLock'
    BY <1>2, <1>7 DEF Load, Edit
  <1>8. CASE UNCHANGED vars
    BY <1>2, <1>8 DEF vars
  <1> QED BY <1>3, <1>4, <1>5, <1>6, <1>7, <1>8 DEF Next

\* Ending c's transaction leaves no uncommitted write of c, and no other
\* client's writes change.
LEMMA EndTxScope ==
    ASSUME TypeOK, NEW c \in Client, CommitTx(c) \/ DiscardTx(c)
    PROVE  /\ \A i \in Id : pend'[c][i] = Clean /\ phist'[c][i] = <<>>
           /\ \A b \in Client \ {c} : pend'[b] = pend[b] /\ phist'[b] = phist[b]
<1>1. /\ pend' = [pend EXCEPT ![c] = [i \in Id |-> Clean]]
      /\ phist' = [phist EXCEPT ![c] = [i \in Id |-> <<>>]]
  BY DEF CommitTx, DiscardTx
<1> QED BY <1>1 DEF TypeOK

\* A new revision is not what its client saw before.
LEMMA NewRevisionIsWritten ==
    ASSUME TypeOK, NEW c \in Client, NEW i \in Id, View(c, i) \in Doc,
           NEW d \in CollectionSave(obj[c][i], View(c, i), epoch[i]),
           NewRevision(c, i, d)
    PROVE  d # View(c, i)
<1>1. View(c, i) # NoDoc /\ View(c, i).rev \in Int
  BY SentinelAssumption DEF Doc, Rev
<1>2. d \in Update(obj[c][i], View(c, i))
  BY <1>1 DEF CollectionSave, SaveNew
<1>3. View(c, i).rev = obj[c][i].rev
  BY <1>2 DEF Update
<1> QED BY <1>1, <1>3 DEF NewRevision

\* TxScope, for one client.
TxScopeOf(c) ==
    /\ \A i \in Id : pend[c][i] # Clean => outer[c] \/ (op[c] # Idle /\ OwnTx)
    /\ \A i \in Id : phist[c][i] # <<>> => pend[c][i] # Clean
    /\ op[c] # Idle /\ op[c].hist /\ SaveInTx(c) => pend[c][op[c].id] # Clean

\* Writes stay within their transactions.
LEMMA NextTxScope == TypeOK /\ TxScope /\ [Next]_vars => TxScope'
  <1> SUFFICES ASSUME TypeOK, TxScope, [Next]_vars, NEW b \in Client
               PROVE  TxScopeOf(b)'
    BY DEF TxScope, TxScopeOf
  <1>a. TxScopeOf(b)
    BY DEF TxScope, TxScopeOf
  <1>1. CASE /\ pend'[b] = pend[b] /\ phist'[b] = phist[b]
             /\ op'[b] = op[b] /\ outer'[b] = outer[b]
    BY <1>a, <1>1 DEF TxScopeOf, SaveInTx
  <1>2. CASE /\ op'[b] = Idle
             /\ \A i \in Id : pend'[b][i] = Clean /\ phist'[b][i] = <<>>
    BY <1>2 DEF TxScopeOf
  <1>3. ASSUME SaveHistory(b) PROVE TxScopeOf(b)'
    <2>1. /\ op[b].id \in Id
          /\ op'[b] # Idle /\ op'[b].hist = FALSE
          /\ UNCHANGED <<pend, outer>>
      <3>1. op[b] \in SaveOp
        BY <1>3, SaveOpType DEF SaveHistory
      <3>2. op'[b] = [op[b] EXCEPT !.hist = FALSE]
        BY <1>3 DEF SaveHistory, TypeOK
      <3>3. op'[b] \in SaveOp /\ op'[b].hist = FALSE
        BY <3>1, <3>2 DEF SaveOp
      <3> QED BY <1>3, <3>1, <3>3, IdleAssumption DEF SaveHistory, SaveOp
    <2>2. CASE SaveInTx(b)
      <3>1. pend[b][op[b].id] # Clean
        BY <1>3, <1>a, <2>2 DEF SaveHistory, TxScopeOf
      <3>2. \A i \in Id \ {op[b].id} : phist'[b][i] = phist[b][i]
        BY <1>3, <2>1, <2>2 DEF SaveHistory, TypeOK
      <3> QED BY <1>3, <1>a, <2>1, <3>1, <3>2 DEF TxScopeOf, SaveHistory
    <2>3. CASE ~SaveInTx(b)
      BY <1>3, <1>a, <2>1, <2>3 DEF TxScopeOf, SaveHistory
    <2> QED BY <2>2, <2>3
  <1>4. ASSUME SaveEnd(b) PROVE TxScopeOf(b)'
    <2>1. op'[b] = Idle /\ outer'[b] = outer[b]
      BY <1>4 DEF SaveEnd, TypeOK
    <2>2. CASE outer[b]
      BY <1>4, <1>a, <2>1, <2>2 DEF SaveEnd, TxScopeOf
    <2>3. CASE ~outer[b]
      BY <1>2, <1>4, <2>1, <2>3, EndTxScope DEF SaveEnd
    <2> QED BY <2>2, <2>3
  <1>5. ASSUME SaveFail(b) PROVE TxScopeOf(b)'
    <2>1. op'[b] = Idle
      BY <1>5 DEF SaveFail, TypeOK
    <2>2. CASE outer[b] /\ Outer = "ignore"
      BY <1>5, <1>a, <2>1, <2>2 DEF SaveFail, TxScopeOf
    <2>3. CASE ~(outer[b] /\ Outer = "ignore")
      BY <1>2, <1>5, <2>1, <2>3, EndTxScope DEF SaveFail
    <2> QED BY <2>2, <2>3
  <1>6. ASSUME \/ SaveUnacknowledged(b) \/ Commit(b) \/ Abort(b) \/ Crash(b)
        PROVE  TxScopeOf(b)'
    <2>1. op'[b] = Idle
      BY <1>6 DEF SaveUnacknowledged, Commit, Abort, Crash, TypeOK
    <2> QED BY <1>2, <1>6, <2>1, EndTxScope
            DEF SaveUnacknowledged, Commit, Abort, Crash
  <1>7. ASSUME Begin(b) PROVE TxScopeOf(b)'
    <2>1. /\ outer'[b] = TRUE
          /\ UNCHANGED <<op, pend, phist>> /\ op[b] = Idle
      BY <1>7 DEF Begin, TypeOK
    <2> QED BY <1>a, <2>1 DEF TxScopeOf
  <1>8. ASSUME NEW i \in Id, Load(b, i) \/ \E v \in Value : Edit(b, i, v)
        PROVE  TxScopeOf(b)'
    BY <1>1, <1>8 DEF Load, Edit
  <1>9. ASSUME NEW i \in Id, SaveDoc(b, i) PROVE TxScopeOf(b)'
    <2>1. PICK d \in CollectionSave(obj[b][i], View(b, i), epoch[i]) :
             /\ d \in Doc
             /\ Write(b, i, d, SaveInTx(b))
             /\ op' = [op EXCEPT ![b] = [id |-> i, saved |-> d,
                                         hist |-> NewRevision(b, i, d)]]
      BY <1>9 DEF SaveDoc
    <2>2. /\ op[b] = Idle /\ op'[b] # Idle
          /\ op'[b].id = i /\ op'[b].hist = NewRevision(b, i, d)
          /\ UNCHANGED <<outer, phist>>
      <3>1. NewRevision(b, i, d) \in BOOLEAN
        BY StoreAssumption DEF NewRevision
      <3>2. op'[b] = [id |-> i, saved |-> d, hist |-> NewRevision(b, i, d)]
        BY <2>1 DEF TypeOK
      <3> QED BY <1>9, <2>1, <3>1, <3>2, IdleAssumption DEF SaveDoc, SaveOp
    <2>3. CASE d = View(b, i)
      <3>1. ~NewRevision(b, i, d)
        BY <2>1, <2>3, NewRevisionIsWritten
      <3>2. UNCHANGED pend
        BY <2>1, <2>3 DEF Write
      <3> QED BY <1>a, <2>2, <3>1, <3>2 DEF TxScopeOf
    <2>4. CASE d # View(b, i) /\ SaveInTx(b)
      <3>1. pend'[b][i] = d /\ d # Clean
        BY <2>1, <2>4, SentinelAssumption DEF Write, Put, TypeOK
      <3>2. \A j \in Id \ {i} : pend'[b][j] = pend[b][j]
        BY <2>1, <2>4 DEF Write, Put, TypeOK
      <3> QED BY <1>a, <2>2, <2>4, <3>1, <3>2 DEF TxScopeOf, SaveInTx
    <2>5. CASE d # View(b, i) /\ ~SaveInTx(b)
      BY <1>a, <2>1, <2>2, <2>5 DEF Write, Put, TxScopeOf, SaveInTx
    <2> QED BY <2>3, <2>4, <2>5
  <1>10. ASSUME NEW i \in Id, Delete(b, i) PROVE TxScopeOf(b)'
    <2>1. UNCHANGED <<op, outer, phist>> /\ op[b] = Idle
      BY <1>10 DEF Delete
    <2>2. CASE UNCHANGED pend
      BY <1>1, <2>1, <2>2
    <2>3. CASE outer[b] /\ pend' = [pend EXCEPT ![b][i] = NoDoc]
      BY <1>a, <2>1, <2>3, SentinelAssumption DEF TxScopeOf, TypeOK
    <2> QED BY <1>10, <2>2, <2>3 DEF Delete, Write, Put
  <1>11. ASSUME NEW i \in Id, NEW k \in 1..Len(HistView(b, i)),
                NEW save \in BOOLEAN, Restore(b, i, k, save)
         PROVE  TxScopeOf(b)'
    <2>1. UNCHANGED <<op, outer, phist>> /\ op[b] = Idle
      BY <1>11 DEF Restore
    <2>2. CASE UNCHANGED pend
      BY <1>1, <2>1, <2>2
    <2>3. CASE /\ save /\ outer[b]
               /\ epoch[i] < MaxEpoch
      <3> DEFINE d == [rev |-> 1, val |-> HistView(b, i)[k].val,
                       epoch |-> epoch[i] + 1]
      <3>1. d # Clean
        <4>1. HistView(b, i)[k] \in Doc
          BY ViewType
        <4>2. d \in Doc
          BY <4>1, <2>3, StoreAssumption DEF TypeOK, Doc, Rev, Epoch
        <4> QED BY <4>2, SentinelAssumption
      <3>2. pend' = [pend EXCEPT ![b][i] = d]
        BY <1>11, <2>3 DEF Restore, Put
      <3> HIDE DEF d
      <3> QED BY <1>a, <2>1, <2>3, <3>1, <3>2 DEF TxScopeOf, TypeOK
    <2> QED BY <1>11, <2>2, <2>3 DEF Restore, Put
  <1>12. ASSUME NEW c \in Client, c # b,
                \/ SaveHistory(c) \/ SaveEnd(c) \/ SaveFail(c)
                \/ SaveUnacknowledged(c) \/ Begin(c) \/ Commit(c) \/ Abort(c)
                \/ Crash(c)
         PROVE  TxScopeOf(b)'
    <2>1. op'[b] = op[b] /\ outer'[b] = outer[b]
      BY <1>12 DEF SaveHistory, SaveEnd, SaveFail, SaveUnacknowledged, Begin,
                   Commit, Abort, Crash, TypeOK
    <2>2. CASE CommitTx(c) \/ DiscardTx(c)
      BY <1>1, <1>12, <2>1, <2>2, EndTxScope
    <2>3. CASE UNCHANGED <<pend, phist>>
      BY <1>1, <2>1, <2>3
    <2>4. CASE SaveHistory(c)
      BY <1>1, <1>12, <2>1, <2>4 DEF SaveHistory, TypeOK
    <2> QED BY <1>12, <2>2, <2>3, <2>4
            DEF SaveEnd, SaveFail, SaveUnacknowledged, Begin, Commit, Abort, Crash
  <1>13. ASSUME NEW c \in Client, c # b, NEW i \in Id,
                \/ SaveDoc(c, i) \/ Load(c, i) \/ Delete(c, i)
                \/ \E v \in Value : Edit(c, i, v)
                \/ \E k \in 1..Len(HistView(c, i)), save \in BOOLEAN :
                      Restore(c, i, k, save)
         PROVE  TxScopeOf(b)'
    <2>1. op'[b] = op[b] /\ outer'[b] = outer[b] /\ phist'[b] = phist[b]
      BY <1>13 DEF SaveDoc, Load, Delete, Edit, Restore, TypeOK
    <2>2. pend'[b] = pend[b]
      BY <1>13 DEF SaveDoc, Load, Delete, Edit, Restore, Write, Put, TypeOK
    <2> QED BY <1>1, <2>1, <2>2
  <1>14. CASE UNCHANGED vars
    BY <1>1, <1>14 DEF vars
  <1> QED BY <1>3, <1>4, <1>5, <1>6, <1>7, <1>8, <1>9, <1>10, <1>11, <1>12,
             <1>13, <1>14 DEF Next

(***************************************************************************)
(* Versions                                                                *)
(***************************************************************************)

\* Versions are records with integer revisions, of incarnations that exist.
LEMMA VersionType ==
    ASSUME TypeOK, NEW i \in Id, NEW x \in Versions(i)
    PROVE  x.rev \in Int /\ x.epoch \in Int /\ x.epoch >= 1
<1>1. ASSUME NEW d \in Doc PROVE d.rev \in Int /\ d.epoch \in Int /\ d.epoch >= 1
  BY DEF Doc, Rev, Epoch
<1>2. CASE x \in StoreVersions(i)
  <2>1. x \in Doc
    BY <1>2 DEF StoreVersions, TypeOK
  <2> QED BY <1>1, <2>1
<1>3. ASSUME NEW c \in Client, x \in HeldBy(c, i)
      PROVE  x.rev \in Int /\ x.epoch \in Int /\ x.epoch >= 1
  <2>1. CASE op[c] # Idle /\ x = op[c].saved
    BY <1>1, <2>1, SaveOpType
  <2>2. CASE obj[c][i].epoch > 0 /\ x = ObjVersion(c, i)
    <3>1. obj[c][i] \in Obj
      BY DEF TypeOK
    <3> QED BY <2>2, <3>1, StoreAssumption DEF ObjVersion, Obj
  <2> QED BY <1>3, <2>1, <2>2 DEF HeldBy
<1> QED BY <1>2, <1>3 DEF Versions

\* What a client reads, now or in the history, is a version.
LEMMA ViewIsVersion ==
    ASSUME TypeOK, NEW c \in Client, NEW i \in Id
    PROVE  /\ View(c, i) # NoDoc => View(c, i) \in StoreVersions(i)
           /\ \A k \in 1..Len(HistView(c, i)) : HistView(c, i)[k] \in StoreVersions(i)
<1>1. View(c, i) # NoDoc => View(c, i) \in StoreVersions(i)
  BY SentinelAssumption DEF View, StoreVersions, TypeOK
<1>2. ASSUME NEW k \in 1..Len(HistView(c, i))
      PROVE  HistView(c, i)[k] \in StoreVersions(i)
  <2>1. hist[i] \in Seq(Doc) /\ phist[c][i] \in Seq(Doc)
    BY DEF TypeOK
  <2>2. \/ k \in 1..Len(hist[i]) /\ HistView(c, i)[k] = hist[i][k]
        \/ /\ k - Len(hist[i]) \in 1..Len(phist[c][i])
           /\ HistView(c, i)[k] = phist[c][i][k - Len(hist[i])]
    <3>1. ASSUME NEW s \in Seq(Doc), NEW t \in Seq(Doc), NEW m \in 1..Len(s \o t)
          PROVE  \/ m \in 1..Len(s) /\ (s \o t)[m] = s[m]
                 \/ m - Len(s) \in 1..Len(t) /\ (s \o t)[m] = t[m - Len(s)]
      BY ConcatProperties
    <3> QED BY <2>1, <3>1 DEF HistView
  <2>3. CASE k \in 1..Len(hist[i]) /\ HistView(c, i)[k] = hist[i][k]
    BY <2>3 DEF StoreVersions
  <2>4. CASE /\ k - Len(hist[i]) \in 1..Len(phist[c][i])
             /\ HistView(c, i)[k] = phist[c][i][k - Len(hist[i])]
    <3>1. HistView(c, i)[k] \in {phist[c][i][l] : l \in 1..Len(phist[c][i])}
      BY <2>4
    <3> QED BY <3>1 DEF StoreVersions
  <2> QED BY <2>2, <2>3, <2>4
<1> QED BY <1>1, <1>2

\* The version that an instance put in step with d stands for is d.
LEMMA SyncedVersion ==
    ASSUME NEW d \in Doc
    PROVE  [rev |-> Synced(d).rev, val |-> Synced(d).base,
            epoch |-> Synced(d).epoch] = d
    BY DEF Synced, Doc

\* Ending a transaction brings no new version into the store.
LEMMA EndTxVersions ==
    ASSUME TypeOK, NEW c \in Client, CommitTx(c) \/ DiscardTx(c), NEW i \in Id
    PROVE  StoreVersions(i)' \subseteq StoreVersions(i)
<1> SUFFICES ASSUME NEW x \in StoreVersions(i)' PROVE x \in StoreVersions(i)
  OBVIOUS
<1>1. /\ doc'[i] # NoDoc => doc'[i] \in StoreVersions(i)
      /\ \A k \in 1..Len(hist'[i]) : hist'[i][k] \in StoreVersions(i)
  <2>1. CASE CommitTx(c)
    <3>1. doc'[i] = View(c, i) /\ hist'[i] = HistView(c, i)
      BY <2>1 DEF CommitTx
    <3> QED BY <3>1, ViewIsVersion
  <2>2. CASE DiscardTx(c)
    <3>1. doc' = doc /\ hist' = hist
      BY <2>2 DEF DiscardTx
    <3> QED BY <3>1, SentinelAssumption DEF StoreVersions, TypeOK
  <2> QED BY <2>1, <2>2
<1>2. \A b \in Client : /\ pend'[b][i] \in {pend[b][i], Clean}
                        /\ phist'[b][i] \in {phist[b][i], <<>>}
  BY EndTxScope
<1>3. CASE x = doc'[i] /\ x \notin {NoDoc, Clean}
  BY <1>1, <1>3
<1>4. CASE \E b \in Client : x = pend'[b][i] /\ x \notin {NoDoc, Clean}
  BY <1>2, <1>4 DEF StoreVersions
<1>5. CASE \E k \in 1..Len(hist'[i]) : x = hist'[i][k]
  BY <1>1, <1>5
<1>6. CASE \E b \in Client : \E k \in 1..Len(phist'[b][i]) : x = phist'[b][i][k]
  <2>1. PICK b \in Client : \E k \in 1..Len(phist'[b][i]) : x = phist'[b][i][k]
    BY <1>6
  <2>2. CASE phist'[b][i] = phist[b][i]
    BY <2>1, <2>2 DEF StoreVersions
  <2>3. CASE phist'[b][i] = <<>>
    BY <2>1, <2>3
  <2> QED BY <1>2, <2>2, <2>3
<1> QED BY <1>3, <1>4, <1>5, <1>6 DEF StoreVersions

\* The version facts of the inductive invariant.
VersionFacts == KnownEpochs /\ DocNewest /\ PendNewest /\ VersionIdentity

\* A step that creates no version keeps the facts about versions, provided
\* that a document only becomes what was pending, or nothing, and that what
\* can no longer be taken back is not ahead of it.
LEMMA NoNewVersion ==
    ASSUME IInv, TypeOK', UNCHANGED epoch,
           \A i \in Id : Versions(i)' \subseteq Versions(i),
           \A i \in Id, c \in Client : pend'[c][i] \in {pend[c][i], NoDoc, Clean},
           \A i \in Id :
              \/ doc'[i] = NoDoc
              \/ \E c \in Client : pend[c][i] # Clean /\ doc'[i] = pend[c][i]
              \/ /\ doc'[i] = doc[i]
                 /\ \A x \in SharedVersions(i)' :
                       \/ x \in SharedVersions(i)
                       \/ x.epoch = doc[i].epoch => x.rev <= doc[i].rev
    PROVE  VersionFacts'
<1>1. KnownEpochs'
  BY DEF IInv, KnownEpochs
<1>2. VersionIdentity'
  BY DEF IInv, VersionIdentity
<1>3. PendNewest'
  BY DEF IInv, PendNewest
<1>4. DocNewest'
  <2> SUFFICES ASSUME NEW i \in Id, doc'[i] # NoDoc, NEW x \in SharedVersions(i)',
                      x.epoch = doc'[i].epoch
               PROVE  x.rev <= doc'[i].rev
    BY DEF DocNewest
  <2>1. CASE /\ doc'[i] = doc[i]
             /\ \/ x \in SharedVersions(i)
                \/ x.epoch = doc[i].epoch => x.rev <= doc[i].rev
    BY <2>1 DEF IInv, DocNewest
  <2>2. CASE \E c \in Client : pend[c][i] # Clean /\ doc'[i] = pend[c][i]
    <3>1. x \in Versions(i)
      <4>1. SharedVersions(i)' \subseteq Versions(i)'
        BY SentinelAssumption DEF SharedVersions, Versions, StoreVersions, TypeOK
      <4> QED BY <4>1
    <3> QED BY <2>2, <3>1 DEF IInv, PendNewest
  <2> QED BY <2>1, <2>2
<1> QED BY <1>1, <1>2, <1>3, <1>4 DEF VersionFacts

\* So does a step that creates one version, d of document j, ahead of every
\* version of its incarnation.
LEMMA NewVersion ==
    ASSUME IInv, TypeOK', NEW j \in Id, NEW d \in Doc,
           \A x \in Versions(j) : x.epoch = d.epoch => x.rev < d.rev,
           \A i \in Id : epoch[i] <= epoch'[i],
           d.epoch <= epoch'[j],
           \A i \in Id \ {j} : Versions(i)' \subseteq Versions(i),
           Versions(j)' \subseteq Versions(j) \cup {d},
           \A i \in Id \ {j}, c \in Client : pend'[c][i] = pend[c][i],
           \A c \in Client : pend'[c][j] \in {d, NoDoc, Clean},
           \A i \in Id \ {j} : doc'[i] = doc[i],
           doc'[j] \in {doc[j], d},
           \A i \in Id : \/ i = j /\ doc'[i] = d
                         \/ SharedVersions(i)' \subseteq SharedVersions(i)
    PROVE  VersionFacts'
<1>0. /\ \A i \in Id : \A x \in Versions(i) : x.rev \in Int /\ x.epoch \in Int
      /\ d.rev \in Int /\ d.epoch \in Int
  BY VersionType DEF IInv, Doc, Rev, Epoch
<1>1. KnownEpochs'
  <2> SUFFICES ASSUME NEW i \in Id, NEW x \in Versions(i)'
               PROVE  x.epoch <= epoch'[i]
    BY DEF KnownEpochs
  <2>1. CASE x \in Versions(i)
    <3>1. epoch[i] \in Int /\ epoch'[i] \in Int
      BY DEF IInv, TypeOK
    <3> QED BY <1>0, <2>1, <3>1 DEF IInv, KnownEpochs
  <2>2. CASE i = j /\ x = d
    BY <2>2
  <2> QED BY <2>1, <2>2
<1>2. VersionIdentity'
  <2> SUFFICES ASSUME NEW i \in Id, NEW x \in Versions(i)', NEW y \in Versions(i)',
                      x.epoch = y.epoch, x.rev = y.rev
               PROVE  x.val = y.val
    BY DEF VersionIdentity
  <2>1. CASE x \in Versions(i) /\ y \in Versions(i)
    BY <2>1 DEF IInv, VersionIdentity
  <2>2. CASE i = j /\ (x = d \/ y = d)
    BY <1>0, <2>2
  <2> QED BY <2>1, <2>2
<1>3. PendNewest'
  <2> SUFFICES ASSUME NEW i \in Id, NEW c \in Client,
                      pend'[c][i] \notin {NoDoc, Clean},
                      NEW x \in Versions(i)', x.epoch = pend'[c][i].epoch
               PROVE  x.rev <= pend'[c][i].rev
    BY DEF PendNewest
  <2>1. CASE i = j
    BY <1>0, <2>1
  <2>2. CASE i # j
    BY <2>2 DEF IInv, PendNewest
  <2> QED BY <2>1, <2>2
<1>4. DocNewest'
  <2> SUFFICES ASSUME NEW i \in Id, doc'[i] # NoDoc, NEW x \in SharedVersions(i)',
                      x.epoch = doc'[i].epoch
               PROVE  x.rev <= doc'[i].rev
    BY DEF DocNewest
  <2>1. CASE i = j /\ doc'[i] = d
    <3>1. x \in Versions(j)'
      BY <2>1, SentinelAssumption
         DEF SharedVersions, Versions, StoreVersions, TypeOK
    <3> QED BY <1>0, <2>1, <3>1
  <2>2. CASE ~(i = j /\ doc'[i] = d)
    BY <2>2 DEF IInv, DocNewest
  <2> QED BY <2>1, <2>2
<1> QED BY <1>1, <1>2, <1>3, <1>4 DEF VersionFacts

\* What nobody but c does leaves what the others hold as it is.
LEMMA OthersHold ==
    ASSUME NEW b \in Client, NEW i \in Id, obj'[b] = obj[b], op'[b] = op[b]
    PROVE  HeldBy(b, i)' = HeldBy(b, i)
BY DEF HeldBy, ObjVersion

\* A COMMIT keeps the facts about versions if no memory gains a version.
LEMMA CommitFacts ==
    ASSUME IInv, TypeOK', UNCHANGED epoch, NEW c \in Client, CommitTx(c),
           \A b \in Client, i \in Id : HeldBy(b, i)' \subseteq HeldBy(b, i)
    PROVE  VersionFacts'
<1>1. \A i \in Id : Versions(i)' \subseteq Versions(i)
  BY EndTxVersions DEF Versions, IInv
<1>2. \A i \in Id, b \in Client : pend'[b][i] \in {pend[b][i], NoDoc, Clean}
  BY EndTxScope DEF IInv
<1>3. ASSUME NEW i \in Id
      PROVE  \/ \E b \in Client : pend[b][i] # Clean /\ doc'[i] = pend[b][i]
             \/ /\ doc'[i] = doc[i]
                /\ SharedVersions(i)' \subseteq SharedVersions(i)
  <2>1. doc'[i] = View(c, i) /\ hist'[i] = HistView(c, i)
    BY DEF CommitTx
  <2>2. CASE pend[c][i] # Clean
    BY <2>1, <2>2 DEF View
  <2>3. CASE pend[c][i] = Clean
    <3>1. doc'[i] = doc[i]
      BY <2>1, <2>3 DEF View
    <3>2. hist'[i] = hist[i]
      <4>1. phist[c][i] = <<>> /\ hist[i] \in Seq(Doc)
        BY <2>3 DEF IInv, TxScope, TypeOK
      <4>2. hist[i] \o <<>> = hist[i]
        BY <4>1, ConcatEmptySeq
      <4> QED BY <2>1, <4>1, <4>2 DEF HistView
    <3>3. \A b \in Client : pend'[b][i] = Clean => pend[b][i] = Clean
      BY <2>3, EndTxScope DEF IInv
    <3> QED BY <3>1, <3>2, <3>3 DEF SharedVersions
  <2> QED BY <2>2, <2>3
<1> QED BY <1>1, <1>2, <1>3, NoNewVersion

\* A ROLLBACK keeps them if, besides, c's memory is not ahead of the
\* documents.
LEMMA RollbackFacts ==
    ASSUME IInv, TypeOK', UNCHANGED epoch, NEW c \in Client, DiscardTx(c),
           \A b \in Client, i \in Id : HeldBy(b, i)' \subseteq HeldBy(b, i),
           \A i \in Id : \A x \in HeldBy(c, i)' :
              doc[i] # NoDoc /\ x.epoch = doc[i].epoch => x.rev <= doc[i].rev
    PROVE  VersionFacts'
<1>1. \A i \in Id : Versions(i)' \subseteq Versions(i)
  BY EndTxVersions DEF Versions, IInv
<1>2. \A i \in Id, b \in Client : pend'[b][i] \in {pend[b][i], NoDoc, Clean}
  BY EndTxScope DEF IInv
<1>3. ASSUME NEW i \in Id, doc[i] # NoDoc, NEW x \in SharedVersions(i)'
      PROVE  \/ x \in SharedVersions(i)
             \/ x.epoch = doc[i].epoch => x.rev <= doc[i].rev
  <2>1. doc' = doc /\ hist' = hist
    BY DEF DiscardTx
  <2>2. ASSUME NEW b \in Client, x \in HeldBy(b, i)', pend'[b][i] = Clean
        PROVE  \/ x \in SharedVersions(i)
               \/ x.epoch = doc[i].epoch => x.rev <= doc[i].rev
    <3>1. CASE pend[b][i] = Clean
      BY <2>2, <3>1 DEF SharedVersions
    <3>2. CASE pend[b][i] # Clean
      <4>1. b = c
        BY <2>2, <3>2, EndTxScope DEF IInv
      <4> QED BY <1>3, <2>2, <3>2, <4>1
    <3> QED BY <3>1, <3>2
  <2> QED BY <1>3, <2>1, <2>2 DEF SharedVersions
<1>4. doc' = doc
  BY DEF DiscardTx
<1> QED BY <1>1, <1>2, <1>3, <1>4, NoNewVersion

\* A step that leaves the store alone keeps them if a memory gains only what
\* its client reads in the store, uncommitted only if it is its own.
LEMMA MemoryFacts ==
    ASSUME IInv, TypeOK', UNCHANGED <<doc, hist, epoch, pend, phist>>,
           \A b \in Client, i \in Id : \A x \in HeldBy(b, i)' :
              \/ x \in HeldBy(b, i)
              \/ /\ x \in StoreVersions(i)
                 /\ pend[b][i] = Clean => x \in SharedVersions(i)
    PROVE  VersionFacts'
<1>1. \A i \in Id : StoreVersions(i)' = StoreVersions(i)
  BY DEF StoreVersions
<1>2. \A i \in Id : Versions(i)' \subseteq Versions(i)
  BY <1>1 DEF Versions
<1>3. \A i \in Id : SharedVersions(i)' \subseteq SharedVersions(i)
  BY DEF SharedVersions
<1> QED BY <1>2, <1>3, NoNewVersion

\* After a rollback an instance stands for the version it stood for, or for
\* none; it is not ahead of the document.
LEMMA RolledBackMemory ==
    ASSUME TypeOK, TypeOK', NEW c \in Client,
           obj' = [obj EXCEPT ![c] = ObjAfterRollback(c)],
           op' = [op EXCEPT ![c] = Idle]
    PROVE  /\ \A b \in Client, i \in Id : HeldBy(b, i)' \subseteq HeldBy(b, i)
           /\ \A i \in Id : \A x \in HeldBy(c, i)' :
                 doc[i] # NoDoc /\ x.epoch = doc[i].epoch => x.rev <= doc[i].rev
<1>1. \A b \in Client \ {c} : obj'[b] = obj[b] /\ op'[b] = op[b]
  BY DEF TypeOK
<1>2. op'[c] = Idle /\ obj'[c] = ObjAfterRollback(c)
  BY DEF TypeOK
<1>3. ASSUME NEW i \in Id, NEW x \in HeldBy(c, i)'
      PROVE  /\ x \in HeldBy(c, i)
             /\ doc[i] # NoDoc /\ x.epoch = doc[i].epoch => x.rev <= doc[i].rev
  <2>1. /\ obj'[c][i].epoch > 0
        /\ x = ObjVersion(c, i)'
    BY <1>2, <1>3 DEF HeldBy
  <2>2. obj[c][i] \in Obj
    BY DEF TypeOK
  <2>3. ~Unbacked(c, i) /\ obj'[c][i] = obj[c][i]
    <3>1. CASE Unbacked(c, i)
      <4>1. obj'[c][i] = [obj[c][i] EXCEPT !.epoch = 0]
        BY <1>2, <3>1 DEF ObjAfterRollback
      <4>2. obj'[c][i].epoch = 0
        BY <2>2, <4>1 DEF Obj
      <4> QED BY <2>1, <4>2
    <3>2. CASE ~Unbacked(c, i)
      BY <1>2, <3>2 DEF ObjAfterRollback
    <3> QED BY <3>1, <3>2
  <2>4. x = ObjVersion(c, i) /\ x \in HeldBy(c, i)
    BY <2>1, <2>3 DEF ObjVersion, HeldBy
  <2>5. ASSUME doc[i] # NoDoc, x.epoch = doc[i].epoch PROVE x.rev <= doc[i].rev
    <3>1. doc[i] \in Doc
      BY <2>5 DEF TypeOK
    <3>2. obj[c][i].rev \in Int /\ doc[i].rev \in Int
      BY <2>2, <3>1, StoreAssumption DEF Obj, Doc, Rev
    <3> QED BY <2>3, <2>4, <2>5, <3>2 DEF Unbacked, ObjVersion
  <2> QED BY <2>4, <2>5
<1> QED BY <1>1, <1>3, OthersHold

\* The instance of c for i is put in step with d, a version in the store.
LEMMA SyncHolds ==
    ASSUME TypeOK, NEW c \in Client, NEW i \in Id, NEW d \in Doc,
           obj' = [obj EXCEPT ![c][i] = Synced(d)],
           op'[c] = op[c] \/ op'[c] = Idle,
           \A b \in Client \ {c} : op'[b] = op[b]
    PROVE  /\ HeldBy(c, i)' \subseteq HeldBy(c, i) \cup {d}
           /\ \A b \in Client, j \in Id :
                 b # c \/ j # i => HeldBy(b, j)' \subseteq HeldBy(b, j)
<1>1. obj'[c][i] = Synced(d)
  BY DEF TypeOK
<1>2. ObjVersion(c, i)' = d
  BY <1>1, SyncedVersion DEF ObjVersion
<1>3. \A b \in Client \ {c} : obj'[b] = obj[b]
  BY DEF TypeOK
<1>4. \A j \in Id \ {i} : obj'[c][j] = obj[c][j]
  BY DEF TypeOK
<1>5. \A j \in Id : j # i => HeldBy(c, j)' \subseteq HeldBy(c, j)
  BY <1>4 DEF HeldBy, ObjVersion
<1> QED BY <1>2, <1>3, <1>5, OthersHold DEF HeldBy

\* Writing the history entry keeps the facts about versions: the entry is
\* the document just written.
LEMMA SaveHistoryFacts ==
    ASSUME IInv, TypeOK', NEW c \in Client, SaveHistory(c)
    PROVE  VersionFacts'
<1> DEFINE i == op[c].id
           s == op[c].saved
<1>1. i \in Id /\ s \in Doc /\ op[c] # Idle
  BY SaveOpType DEF SaveHistory, IInv
<1>2. \A b \in Client, j \in Id : HeldBy(b, j)' = HeldBy(b, j)
  <2>1. op'[c] = [op[c] EXCEPT !.hist = FALSE]
    BY DEF SaveHistory, IInv, TypeOK
  <2>2. op[c] \in SaveOp
    BY <1>1, SaveOpType DEF IInv
  <2>3. op'[c] \in SaveOp /\ op'[c].id = i /\ op'[c].saved = s
    BY <2>1, <2>2 DEF SaveOp
  <2>4. \A j \in Id : HeldBy(c, j)' = HeldBy(c, j)
    BY <1>1, <2>3, IdleAssumption DEF HeldBy, ObjVersion, SaveHistory
  <2>5. \A b \in Client \ {c} : op'[b] = op[b] /\ obj'[b] = obj[b]
    BY DEF SaveHistory, IInv, TypeOK
  <2> QED BY <2>4, <2>5, OthersHold
<1>3. s \in HeldBy(c, i)
  BY <1>1 DEF HeldBy
<1> HIDE DEF i, s
<1>4. CASE SaveInTx(c)
  <2>1. /\ phist' = [phist EXCEPT ![c] = [phist[c] EXCEPT ![i] = Append(@, s)]]
        /\ UNCHANGED <<doc, pend, hist, epoch>>
    BY <1>4 DEF SaveHistory, i, s
  <2>2. \A b \in Client, j \in Id : \A k \in 1..Len(phist'[b][j]) :
           \/ k \in 1..Len(phist[b][j]) /\ phist'[b][j][k] = phist[b][j][k]
           \/ b = c /\ j = i /\ phist'[b][j][k] = s
    <3>1. phist[c][i] \in Seq(Doc)
      BY <1>1 DEF IInv, TypeOK
    <3>2. phist'[c][i] = Append(phist[c][i], s)
      BY <1>1, <2>1 DEF IInv, TypeOK
    <3>3. \A k \in 1..Len(phist'[c][i]) :
             \/ k \in 1..Len(phist[c][i]) /\ phist'[c][i][k] = phist[c][i][k]
             \/ phist'[c][i][k] = s
      BY <1>1, <3>1, <3>2
    <3>4. \A b \in Client, j \in Id :
             b # c \/ j # i => phist'[b][j] = phist[b][j]
      BY <1>1, <2>1 DEF IInv, TypeOK
    <3> QED BY <3>3, <3>4
  <2>3. ASSUME NEW j \in Id, NEW x \in StoreVersions(j)'
        PROVE  x \in Versions(j)
    <3>1. CASE \E b \in Client : \E k \in 1..Len(phist'[b][j]) : x = phist'[b][j][k]
      <4>0. PICK b \in Client : \E k \in 1..Len(phist'[b][j]) : x = phist'[b][j][k]
        BY <3>1
      <4>1. PICK k \in 1..Len(phist'[b][j]) : x = phist'[b][j][k]
        BY <4>0
      <4>2. CASE k \in 1..Len(phist[b][j]) /\ phist'[b][j][k] = phist[b][j][k]
        <5>1. x \in {phist[b][j][l] : l \in 1..Len(phist[b][j])}
          BY <4>1, <4>2
        <5> QED BY <5>1 DEF Versions, StoreVersions
      <4>3. CASE j = i /\ x = s
        BY <1>3, <4>3 DEF Versions
      <4> QED BY <2>2, <4>1, <4>2, <4>3
    <3>2. CASE \/ x = doc[j] /\ x \notin {NoDoc, Clean}
               \/ \E b \in Client : x = pend[b][j] /\ x \notin {NoDoc, Clean}
               \/ \E k \in 1..Len(hist[j]) : x = hist[j][k]
      BY <3>2 DEF Versions, StoreVersions
    <3> QED BY <2>1, <2>3, <3>1, <3>2 DEF StoreVersions
  <2>4. \A j \in Id : Versions(j)' \subseteq Versions(j)
    BY <1>2, <2>3 DEF Versions
  <2>5. \A j \in Id : SharedVersions(j)' \subseteq SharedVersions(j)
    BY <1>2, <2>1 DEF SharedVersions
  <2> QED BY <2>1, <2>4, <2>5, NoNewVersion
<1>5. CASE ~SaveInTx(c)
  <2>1. /\ hist' = [hist EXCEPT ![i] = Append(@, s)]
        /\ UNCHANGED <<doc, pend, phist, epoch>>
    BY <1>5 DEF SaveHistory, i, s
  <2>2. \A j \in Id : \A k \in 1..Len(hist'[j]) :
           \/ k \in 1..Len(hist[j]) /\ hist'[j][k] = hist[j][k]
           \/ j = i /\ hist'[j][k] = s
    <3>1. hist[i] \in Seq(Doc) /\ hist'[i] = Append(hist[i], s)
      BY <1>1, <2>1 DEF IInv, TypeOK
    <3>2. \A k \in 1..Len(hist'[i]) :
             \/ k \in 1..Len(hist[i]) /\ hist'[i][k] = hist[i][k]
             \/ hist'[i][k] = s
      BY <1>1, <3>1
    <3>3. \A j \in Id \ {i} : hist'[j] = hist[j]
      BY <2>1 DEF IInv, TypeOK
    <3> QED BY <3>2, <3>3
  <2>3. pend[c][i] = Clean
    BY <1>1, <1>5 DEF IInv, TxScope, SaveInTx
  <2>4. s \in SharedVersions(i)
    BY <1>3, <2>3 DEF SharedVersions
  <2>5. \A j \in Id : StoreVersions(j)' \subseteq Versions(j)
    BY <1>3, <2>1, <2>2 DEF Versions, StoreVersions
  <2>6. \A j \in Id : Versions(j)' \subseteq Versions(j)
    BY <1>2, <2>5 DEF Versions
  <2>7. \A j \in Id : SharedVersions(j)' \subseteq SharedVersions(j)
    BY <1>2, <2>1, <2>2, <2>4 DEF SharedVersions
  <2> QED BY <2>1, <2>6, <2>7, NoNewVersion
<1> QED BY <1>4, <1>5

\* Commit and set_revision keep the facts about versions.
LEMMA SaveEndFacts ==
    ASSUME IInv, TypeOK', NEW c \in Client, SaveEnd(c)
    PROVE  VersionFacts'
<1>1. PICK i \in Id, s \in Doc : op[c].id = i /\ op[c].saved = s
  BY SaveOpType DEF SaveEnd, IInv
<1>2. s \in HeldBy(c, i)
  BY <1>1 DEF HeldBy, SaveEnd
<1>3. obj' = [obj EXCEPT ![c][i] = Synced(s)]
  BY <1>1 DEF SaveEnd
<1>4. op'[c] = Idle /\ \A b \in Client \ {c} : op'[b] = op[b]
  BY DEF SaveEnd, IInv, TypeOK
<1>5. \A b \in Client, j \in Id : HeldBy(b, j)' \subseteq HeldBy(b, j)
  <2>1. TypeOK
    BY DEF IInv
  <2>2. /\ HeldBy(c, i)' \subseteq HeldBy(c, i) \cup {s}
        /\ \A b \in Client, j \in Id :
              b # c \/ j # i => HeldBy(b, j)' \subseteq HeldBy(b, j)
    <3>1. /\ op'[c] = op[c] \/ op'[c] = Idle
          /\ \A b \in Client \ {c} : op'[b] = op[b]
      BY <1>4
    <3> HIDE <1>1, <1>2
    <3> QED BY <1>3, <2>1, <3>1, SyncHolds
  <2> QED BY <1>2, <2>2
<1>6. CASE outer[c]
  BY <1>5, <1>6, MemoryFacts DEF SaveEnd
<1>7. CASE ~outer[c]
  BY <1>5, <1>7, CommitFacts DEF SaveEnd
<1> QED BY <1>6, <1>7

\* A save() that fails keeps the facts about versions.
LEMMA SaveFailFacts ==
    ASSUME IInv, TypeOK', NEW c \in Client, SaveFail(c)
    PROVE  VersionFacts'
<1>1. CASE outer[c] /\ Outer = "ignore"
  <2>1. UNCHANGED <<doc, hist, epoch, obj, outer, pend, phist>>
    BY <1>1 DEF SaveFail
  <2>2. op'[c] = Idle /\ \A b \in Client \ {c} : op'[b] = op[b]
    BY DEF SaveFail, IInv, TypeOK
  <2>3. \A b \in Client, i \in Id : HeldBy(b, i)' \subseteq HeldBy(b, i)
    BY <2>1, <2>2 DEF HeldBy, ObjVersion
  <2> QED BY <2>1, <2>3, MemoryFacts
<1>2. CASE ~(outer[c] /\ Outer = "ignore")
  <2>1. /\ DiscardTx(c) /\ UNCHANGED epoch
        /\ obj' = [obj EXCEPT ![c] = ObjAfterRollback(c)]
        /\ op' = [op EXCEPT ![c] = Idle]
    BY <1>2 DEF SaveFail
  <2>3. TypeOK
    BY DEF IInv
  <2>4. /\ \A b \in Client, i \in Id : HeldBy(b, i)' \subseteq HeldBy(b, i)
        /\ \A i \in Id : \A x \in HeldBy(c, i)' :
              doc[i] # NoDoc /\ x.epoch = doc[i].epoch => x.rev <= doc[i].rev
    BY <2>1, <2>3, RolledBackMemory
  <2> QED BY <2>1, <2>4, RollbackFacts
<1> QED BY <1>1, <1>2

\* A commit whose acknowledgement is lost keeps the facts about versions.
LEMMA SaveUnacknowledgedFacts ==
    ASSUME IInv, TypeOK', NEW c \in Client, SaveUnacknowledged(c)
    PROVE  VersionFacts'
<1>1. op'[c] = Idle /\ \A b \in Client \ {c} : op'[b] = op[b]
  BY DEF SaveUnacknowledged, IInv, TypeOK
<1>2. \A b \in Client, i \in Id : HeldBy(b, i)' \subseteq HeldBy(b, i)
  BY <1>1 DEF HeldBy, ObjVersion, SaveUnacknowledged
<1> QED BY <1>2, CommitFacts DEF SaveUnacknowledged

\* Opening, committing and aborting an enclosing block keep the facts about
\* versions.
LEMMA BlockFacts ==
    ASSUME IInv, TypeOK', NEW c \in Client, Begin(c) \/ Commit(c) \/ Abort(c)
    PROVE  VersionFacts'
<1>1. CASE Begin(c)
  <2>1. UNCHANGED <<doc, hist, epoch, obj, op, pend, phist>>
    BY <1>1 DEF Begin
  <2>2. \A b \in Client, i \in Id : HeldBy(b, i)' = HeldBy(b, i)
    BY <2>1 DEF HeldBy, ObjVersion
  <2> QED BY <2>1, <2>2, MemoryFacts
<1>2. CASE Commit(c)
  <2>1. \A b \in Client, i \in Id : HeldBy(b, i)' = HeldBy(b, i)
    BY <1>2 DEF HeldBy, ObjVersion, Commit
  <2> QED BY <1>2, <2>1, CommitFacts DEF Commit
<1>3. CASE Abort(c)
  <2>1. op' = [op EXCEPT ![c] = Idle]
    BY <1>3 DEF Abort, IInv, TypeOK
  <2>2. /\ DiscardTx(c) /\ UNCHANGED epoch
        /\ obj' = [obj EXCEPT ![c] = ObjAfterRollback(c)]
    BY <1>3 DEF Abort
  <2>3. TypeOK
    BY DEF IInv
  <2>4. /\ \A b \in Client, i \in Id : HeldBy(b, i)' \subseteq HeldBy(b, i)
        /\ \A i \in Id : \A x \in HeldBy(c, i)' :
              doc[i] # NoDoc /\ x.epoch = doc[i].epoch => x.rev <= doc[i].rev
    BY <2>1, <2>2, <2>3, RolledBackMemory
  <2> QED BY <2>1, <2>2, <2>4, RollbackFacts
<1> QED BY <1>1, <1>2, <1>3

\* The death of a client process keeps the facts about versions.
LEMMA CrashFacts ==
    ASSUME IInv, TypeOK', NEW c \in Client, Crash(c)
    PROVE  VersionFacts'
<1>1. \A i \in Id : HeldBy(c, i)' = {}
  <2>1. op'[c] = Idle /\ obj'[c] = [i \in Id |-> Fresh(obj[c][i].val)]
    BY DEF Crash, IInv, TypeOK
  <2>2. \A i \in Id : obj'[c][i].epoch = 0
    BY <2>1 DEF Fresh
  <2> QED BY <2>1, <2>2 DEF HeldBy
<1>2. \A b \in Client \ {c} : op'[b] = op[b] /\ obj'[b] = obj[b]
  BY DEF Crash, IInv, TypeOK
<1>3. \A b \in Client, i \in Id : HeldBy(b, i)' \subseteq HeldBy(b, i)
  BY <1>1, <1>2, OthersHold
<1> QED BY <1>1, <1>3, RollbackFacts DEF Crash

\* Loading an instance keeps the facts about versions.
LEMMA LoadFacts ==
    ASSUME IInv, TypeOK', NEW c \in Client, NEW i \in Id, Load(c, i)
    PROVE  VersionFacts'
<1> DEFINE d == View(c, i)
<1>1. d \in Doc /\ d \in StoreVersions(i)
  BY ViewType, ViewIsVersion DEF Load, IInv
<1>2. pend[c][i] = Clean => d \in SharedVersions(i)
  BY <1>1 DEF View, SharedVersions, Load
<1> HIDE DEF d
<1>3. obj' = [obj EXCEPT ![c][i] = Synced(d)] /\ op' = op
  BY DEF Load, d
<1>4. /\ HeldBy(c, i)' \subseteq HeldBy(c, i) \cup {d}
      /\ \A b \in Client, j \in Id :
            b # c \/ j # i => HeldBy(b, j)' \subseteq HeldBy(b, j)
  BY <1>1, <1>3, SyncHolds DEF IInv
<1> QED BY <1>1, <1>2, <1>4, MemoryFacts DEF Load

\* Setting a trait keeps the facts about versions.
LEMMA EditFacts ==
    ASSUME IInv, TypeOK', NEW c \in Client, NEW i \in Id, NEW v, Edit(c, i, v)
    PROVE  VersionFacts'
<1>1. obj' = [obj EXCEPT ![c] = [obj[c] EXCEPT ![i] = [obj[c][i] EXCEPT !.val = v]]]
  BY DEF Edit
<1>2. obj[c][i] \in Obj
  BY DEF IInv, TypeOK
<1>3. obj'[c][i] = [obj[c][i] EXCEPT !.val = v]
  BY <1>1 DEF IInv, TypeOK
<1>4. /\ obj'[c][i].rev = obj[c][i].rev
      /\ obj'[c][i].base = obj[c][i].base
      /\ obj'[c][i].epoch = obj[c][i].epoch
  BY <1>2, <1>3 DEF Obj
<1>5. \A j \in Id \ {i} : obj'[c][j] = obj[c][j]
  BY <1>1 DEF IInv, TypeOK
<1>6. \A j \in Id : HeldBy(c, j)' = HeldBy(c, j)
  BY <1>4, <1>5 DEF HeldBy, ObjVersion, Edit
<1>7. \A b \in Client \ {c} : obj'[b] = obj[b]
  BY <1>1 DEF IInv, TypeOK
<1>8. \A b \in Client, j \in Id : HeldBy(b, j)' = HeldBy(b, j)
  BY <1>6, <1>7, OthersHold DEF Edit
<1> QED BY <1>8, MemoryFacts DEF Edit

\* Whoever may write i reads its newest revision.
LEMMA ViewNewest ==
    ASSUME IInv, NEW c \in Client, NEW i \in Id, CanWrite(c, i),
           View(c, i) # NoDoc, NEW x \in Versions(i),
           x.epoch = View(c, i).epoch
    PROVE  x.rev <= View(c, i).rev
<1>1. CASE pend[c][i] # Clean
  BY <1>1 DEF IInv, PendNewest, View
<1>2. CASE pend[c][i] = Clean
  <2>1. \A b \in Client : pend[b][i] = Clean /\ phist[b][i] = <<>>
    BY <1>2 DEF CanWrite, IInv, TxScope
  <2>2. x \in SharedVersions(i)
    BY <2>1 DEF Versions, StoreVersions, SharedVersions
  <2> QED BY <1>2, <2>2 DEF IInv, DocNewest, View
<1> QED BY <1>1, <1>2

\* A write of d brings d into the store and nothing else; the document itself
\* changes only outside a transaction, when nothing of it is pending.
LEMMA PutVersions ==
    ASSUME IInv, NEW c \in Client, NEW i \in Id, NEW d \in Doc \cup {NoDoc},
           NEW b \in BOOLEAN, CanWrite(c, i), Put(c, i, d, b),
           ~b => pend[c][i] = Clean, UNCHANGED <<hist, phist>>
    PROVE  /\ StoreVersions(i)' \subseteq
                 StoreVersions(i) \cup (IF d = NoDoc THEN {} ELSE {d})
           /\ \A j \in Id \ {i} : /\ StoreVersions(j)' \subseteq StoreVersions(j)
                                  /\ doc'[j] = doc[j]
                                  /\ \A a \in Client : pend'[a][j] = pend[a][j]
           /\ \A a \in Client : pend'[a][i] \in {d, Clean}
           /\ b => doc'[i] = doc[i] /\ pend'[c][i] = d
           /\ ~b => doc'[i] = d
<1>1. CASE b
  <2>1. /\ doc' = doc
        /\ pend'[c][i] = d
        /\ \A a \in Client \ {c} : pend'[a] = pend[a]
        /\ \A j \in Id \ {i} : pend'[c][j] = pend[c][j]
    BY <1>1 DEF Put, IInv, TypeOK
  <2>2. /\ \A a \in Client : pend'[a][i] \in {d, Clean}
        /\ \A j \in Id \ {i}, a \in Client : pend'[a][j] = pend[a][j]
    BY <2>1 DEF CanWrite
  <2> QED BY <1>1, <2>1, <2>2 DEF StoreVersions
<1>2. CASE ~b
  <2>1. /\ pend' = pend
        /\ doc'[i] = d
        /\ \A j \in Id \ {i} : doc'[j] = doc[j]
    BY <1>2 DEF Put, IInv, TypeOK
  <2> QED BY <1>2, <2>1 DEF StoreVersions, CanWrite
<1> QED BY <1>1, <1>2

\* Deleting a document keeps the facts about versions.
LEMMA DeleteFacts ==
    ASSUME IInv, TypeOK', NEW c \in Client, NEW i \in Id, Delete(c, i)
    PROVE  VersionFacts'
<1>1. \A b \in Client, j \in Id : HeldBy(b, j)' \subseteq HeldBy(b, j)
  <2>1. op' = op /\ obj' = [obj EXCEPT ![c] = [obj[c] EXCEPT ![i] = Fresh(@.val)]]
    BY DEF Delete
  <2>2. \A b \in Client \ {c} : obj'[b] = obj[b]
    BY <2>1 DEF IInv, TypeOK
  <2>3. obj'[c][i].epoch = 0 /\ \A j \in Id \ {i} : obj'[c][j] = obj[c][j]
    BY <2>1 DEF IInv, TypeOK, Fresh
  <2>4. \A j \in Id : HeldBy(c, j)' \subseteq HeldBy(c, j)
    BY <2>1, <2>3 DEF HeldBy, ObjVersion
  <2> QED BY <2>1, <2>2, <2>4, OthersHold
<1>2. CASE UNCHANGED <<doc, pend>>
  BY <1>1, <1>2, MemoryFacts DEF Delete
<1>3. CASE CanWrite(c, i) /\ Put(c, i, NoDoc, outer[c])
  <2>1. outer[c] \in BOOLEAN /\ (~outer[c] => pend[c][i] = Clean)
    BY DEF IInv, TypeOK, TxScope, Delete
  <2>2. UNCHANGED <<hist, epoch, phist>>
    BY DEF Delete
  <2>3. /\ \A j \in Id : StoreVersions(j)' \subseteq StoreVersions(j)
        /\ \A j \in Id \ {i} : /\ doc'[j] = doc[j]
                               /\ \A a \in Client : pend'[a][j] = pend[a][j]
        /\ \A a \in Client : pend'[a][i] \in {NoDoc, Clean}
        /\ outer[c] => doc'[i] = doc[i] /\ pend'[c][i] = NoDoc
        /\ ~outer[c] => doc'[i] = NoDoc
    BY <1>3, <2>1, <2>2, PutVersions
  <2>4. \A j \in Id : Versions(j)' \subseteq Versions(j)
    BY <1>1, <2>3 DEF Versions
  <2>5. \A a \in Client : pend'[a][i] = Clean => pend[a][i] = Clean
    BY <1>3, <2>1, <2>3, SentinelAssumption DEF CanWrite
  <2>6. \A j \in Id : \/ doc'[j] = NoDoc
                      \/ /\ doc'[j] = doc[j]
                         /\ SharedVersions(j)' \subseteq SharedVersions(j)
    BY <1>1, <2>1, <2>2, <2>3, <2>5 DEF SharedVersions
  <2> QED BY <2>2, <2>3, <2>4, <2>6, NoNewVersion
<1> QED BY <1>2, <1>3 DEF Delete, Write

\* What save() writes is what it found, or ahead of every version of its
\* incarnation.
LEMMA SaveIsNewest ==
    ASSUME IInv, NEW c \in Client, NEW i \in Id,
           NEW d \in CollectionSave(obj[c][i], View(c, i), epoch[i]), d \in Doc
    PROVE  \/ d = View(c, i)
           \/ CanWrite(c, i) =>
                 \A x \in Versions(i) : x.epoch = d.epoch => x.rev < d.rev
<1>0. epoch[i] \in Int /\ \A x \in Versions(i) : x.rev \in Int /\ x.epoch \in Int
  BY VersionType DEF IInv, TypeOK
<1>1. CASE d \in SaveNew(obj[c][i], View(c, i), epoch[i])
  <2>1. d.epoch = epoch[i] + 1
    BY <1>1 DEF SaveNew
  <2> QED BY <1>0, <2>1 DEF IInv, KnownEpochs
<1>2. CASE d \in Update(obj[c][i], View(c, i))
  <2> DEFINE w == View(c, i)
  <2>1. w # NoDoc /\ w \in Doc
    BY <1>2, ViewType DEF Update, IInv
  <2>2. d = [w EXCEPT !.val = obj[c][i].val,
                      !.rev = IF w.val = obj[c][i].val THEN @ ELSE @ + 1]
    BY <1>2 DEF Update
  <2>3. w.rev \in Int
    BY <2>1 DEF Doc, Rev
  <2>4. CASE w.val = obj[c][i].val
    BY <2>1, <2>2, <2>4 DEF Doc
  <2>5. CASE w.val # obj[c][i].val
    <3>1. d.rev = w.rev + 1 /\ d.epoch = w.epoch
      BY <2>1, <2>2, <2>5 DEF Doc
    <3>2. CanWrite(c, i) => \A x \in Versions(i) : x.epoch = w.epoch => x.rev <= w.rev
      BY <2>1, ViewNewest
    <3> HIDE DEF w
    <3> QED BY <1>0, <2>3, <3>1, <3>2
  <2> QED BY <2>4, <2>5
<1> QED BY <1>1, <1>2 DEF CollectionSave

\* The document write of save() keeps the facts about versions: it is the
\* newest of its incarnation, or what was there already.
LEMMA SaveDocFacts ==
    ASSUME IInv, TypeOK', NEW c \in Client, NEW i \in Id, SaveDoc(c, i)
    PROVE  VersionFacts'
<1>1. PICK d \in CollectionSave(obj[c][i], View(c, i), epoch[i]) :
         /\ d \in Doc
         /\ Write(c, i, d, SaveInTx(c))
         /\ epoch' = [epoch EXCEPT ![i] = IF d.epoch > @ THEN d.epoch ELSE @]
         /\ op' = [op EXCEPT ![c] = [id |-> i, saved |-> d,
                                     hist |-> NewRevision(c, i, d)]]
  BY DEF SaveDoc
<1>2. /\ HeldBy(c, i)' \subseteq HeldBy(c, i) \cup {d}
      /\ \A b \in Client, j \in Id :
            b # c \/ j # i => HeldBy(b, j)' \subseteq HeldBy(b, j)
  <2>1. op'[c].id = i /\ op'[c].saved = d
    BY <1>1 DEF IInv, TypeOK
  <2>2. \A b \in Client \ {c} : op'[b] = op[b]
    BY <1>1 DEF IInv, TypeOK
  <2> QED BY <2>1, <2>2 DEF HeldBy, ObjVersion, SaveDoc
<1>3. UNCHANGED <<hist, phist>>
  BY DEF SaveDoc
<1>4. CASE d = View(c, i)
  <2>1. UNCHANGED <<doc, pend>>
    BY <1>1, <1>4 DEF Write
  <2>2. d \in StoreVersions(i)
    BY <1>1, <1>4, ViewIsVersion, SentinelAssumption DEF IInv
  <2>3. pend[c][i] = Clean => d \in SharedVersions(i)
    BY <1>1, <1>4, SentinelAssumption DEF View, SharedVersions
  <2>4. epoch' = epoch
    <3>1. d.epoch <= epoch[i]
      BY <2>2 DEF IInv, KnownEpochs, Versions
    <3>2. epoch[i] \in Int /\ d.epoch \in Int
      BY <1>1 DEF IInv, TypeOK, Doc, Epoch
    <3>3. (IF d.epoch > epoch[i] THEN d.epoch ELSE epoch[i]) = epoch[i]
      BY <3>1, <3>2
    <3> QED BY <1>1, <3>3 DEF IInv, TypeOK
  <2> QED BY <1>2, <1>3, <2>1, <2>2, <2>3, <2>4, MemoryFacts
<1>5. CASE d # View(c, i)
  <2>1. CanWrite(c, i) /\ Put(c, i, d, SaveInTx(c))
    BY <1>1, <1>5 DEF Write
  <2>2. /\ SaveInTx(c) \in BOOLEAN
        /\ ~SaveInTx(c) => pend[c][i] = Clean
    BY StoreAssumption DEF SaveInTx, OwnTx, IInv, TypeOK, TxScope
  <2>3. d # NoDoc /\ d # Clean
    BY <1>1, SentinelAssumption
  <2>4. /\ StoreVersions(i)' \subseteq StoreVersions(i) \cup {d}
        /\ \A j \in Id \ {i} : /\ StoreVersions(j)' \subseteq StoreVersions(j)
                               /\ doc'[j] = doc[j]
                               /\ \A a \in Client : pend'[a][j] = pend[a][j]
        /\ \A a \in Client : pend'[a][i] \in {d, Clean}
        /\ SaveInTx(c) => doc'[i] = doc[i] /\ pend'[c][i] = d
        /\ ~SaveInTx(c) => doc'[i] = d
    BY <1>1, <1>3, <2>1, <2>2, <2>3, PutVersions
  <2>5. \A x \in Versions(i) : x.epoch = d.epoch => x.rev < d.rev
    BY <1>1, <1>5, <2>1, SaveIsNewest
  <2>6. /\ \A j \in Id \ {i} : Versions(j)' \subseteq Versions(j)
        /\ Versions(i)' \subseteq Versions(i) \cup {d}
    BY <1>2, <2>4 DEF Versions
  <2>7. \A j \in Id : \/ j = i /\ doc'[j] = d
                      \/ SharedVersions(j)' \subseteq SharedVersions(j)
    <3>1. \A j \in Id \ {i} : SharedVersions(j)' \subseteq SharedVersions(j)
      BY <1>2, <1>3, <2>4 DEF SharedVersions
    <3>2. CASE SaveInTx(c)
      <4>1. \A a \in Client : pend'[a][i] = Clean => a # c /\ pend[a][i] = Clean
        BY <2>1, <2>3, <2>4, <3>2 DEF CanWrite
      <4>2. SharedVersions(i)' \subseteq SharedVersions(i)
        BY <1>2, <1>3, <2>4, <3>2, <4>1 DEF SharedVersions
      <4> QED BY <3>1, <4>2
    <3> QED BY <2>2, <2>4, <3>1, <3>2
  <2>8. (\A j \in Id : epoch[j] <= epoch'[j]) /\ d.epoch <= epoch'[i]
    <3>1. d.epoch \in Int /\ \A j \in Id : epoch[j] \in Int
      BY <1>1 DEF IInv, TypeOK, Doc, Epoch
    <3>2. epoch'[i] = IF d.epoch > epoch[i] THEN d.epoch ELSE epoch[i]
      BY <1>1 DEF IInv, TypeOK
    <3>3. \A j \in Id \ {i} : epoch'[j] = epoch[j]
      BY <1>1 DEF IInv, TypeOK
    <3> QED BY <3>1, <3>2, <3>3
  <2>9. doc'[i] \in {doc[i], d}
    BY <2>2, <2>4
  <2> QED BY <1>1, <2>4, <2>5, <2>6, <2>7, <2>8, <2>9, NewVersion
<1> QED BY <1>4, <1>5

\* Restoring an old revision keeps the facts about versions: with save=True
\* it starts a new incarnation.
LEMMA RestoreFacts ==
    ASSUME IInv, TypeOK', NEW c \in Client, NEW i \in Id,
           NEW k \in 1..Len(HistView(c, i)), NEW save \in BOOLEAN,
           Restore(c, i, k, save)
    PROVE  VersionFacts'
<1>1. PICK h \in Doc : h = HistView(c, i)[k]
  BY ViewType DEF IInv
<1>2. h \in StoreVersions(i)
  BY <1>1, ViewIsVersion DEF IInv
<1>3. pend[c][i] = Clean => h \in SharedVersions(i)
  <2>1. ASSUME pend[c][i] = Clean PROVE h \in SharedVersions(i)
    <3>1. phist[c][i] = <<>> /\ hist[i] \in Seq(Doc)
      BY <2>1 DEF IInv, TxScope, TypeOK
    <3>2. HistView(c, i) = hist[i]
      BY <3>1, ConcatEmptySeq DEF HistView
    <3> QED BY <1>1, <3>2 DEF SharedVersions
  <2> QED BY <2>1
<1>4. obj' = [obj EXCEPT ![c][i] = Synced(h)] /\ op' = op /\ op[c] = Idle
  BY <1>1 DEF Restore
<1>5. /\ HeldBy(c, i)' \subseteq HeldBy(c, i) \cup {h}
      /\ \A b \in Client, j \in Id :
            b # c \/ j # i => HeldBy(b, j)' \subseteq HeldBy(b, j)
  BY <1>4, SyncHolds DEF IInv
<1>6. CASE ~save
  BY <1>2, <1>3, <1>5, <1>6, MemoryFacts DEF Restore
<1>7. CASE save
  <2>1. PICK d : d = [rev |-> 1, val |-> h.val, epoch |-> epoch[i] + 1]
    OBVIOUS
  <2>2. /\ CanWrite(c, i) /\ Put(c, i, d, outer[c])
        /\ epoch' = [epoch EXCEPT ![i] = @ + 1]
        /\ UNCHANGED <<hist, phist>>
        /\ epoch[i] < MaxEpoch
    BY <1>1, <1>7, <2>1 DEF Restore
  <2>3. d \in Doc
    BY <2>1, <2>2, StoreAssumption DEF IInv, TypeOK, Doc, Rev, Epoch
  <2>4. outer[c] \in BOOLEAN /\ (~outer[c] => pend[c][i] = Clean)
    BY <1>4 DEF IInv, TypeOK, TxScope
  <2>5. d # NoDoc /\ d # Clean
    BY <2>3, SentinelAssumption
  <2>6. /\ StoreVersions(i)' \subseteq StoreVersions(i) \cup {d}
        /\ \A j \in Id \ {i} : /\ StoreVersions(j)' \subseteq StoreVersions(j)
                               /\ doc'[j] = doc[j]
                               /\ \A a \in Client : pend'[a][j] = pend[a][j]
        /\ \A a \in Client : pend'[a][i] \in {d, Clean}
        /\ outer[c] => doc'[i] = doc[i] /\ pend'[c][i] = d
        /\ ~outer[c] => doc'[i] = d
    BY <2>2, <2>3, <2>4, <2>5, PutVersions
  <2>7. epoch[i] \in Int /\ \A x \in Versions(i) : x.epoch \in Int
    BY VersionType DEF IInv, TypeOK
  <2>8. \A x \in Versions(i) : x.epoch = d.epoch => x.rev < d.rev
    BY <2>1, <2>7 DEF IInv, KnownEpochs
  <2>9. /\ \A j \in Id \ {i} : Versions(j)' \subseteq Versions(j)
        /\ Versions(i)' \subseteq Versions(i) \cup {d}
    BY <1>2, <1>5, <2>6 DEF Versions
  <2>10. \A j \in Id : \/ j = i /\ doc'[j] = d
                       \/ SharedVersions(j)' \subseteq SharedVersions(j)
    <3>1. \A j \in Id \ {i} : SharedVersions(j)' \subseteq SharedVersions(j)
      BY <1>5, <2>2, <2>6 DEF SharedVersions
    <3>2. CASE outer[c]
      <4>1. \A a \in Client : pend'[a][i] = Clean => a # c /\ pend[a][i] = Clean
        BY <2>2, <2>5, <2>6, <3>2 DEF CanWrite
      <4>2. SharedVersions(i)' \subseteq SharedVersions(i)
        BY <1>5, <2>2, <2>6, <3>2, <4>1 DEF SharedVersions
      <4> QED BY <3>1, <4>2
    <3> QED BY <2>4, <2>6, <3>1, <3>2
  <2>11. (\A j \in Id : epoch[j] <= epoch'[j]) /\ d.epoch <= epoch'[i]
    <3>1. \A j \in Id : epoch[j] \in Int
      BY DEF IInv, TypeOK
    <3>2. epoch'[i] = epoch[i] + 1 /\ \A j \in Id \ {i} : epoch'[j] = epoch[j]
      BY <2>2 DEF IInv, TypeOK
    <3> QED BY <2>1, <3>1, <3>2
  <2>12. doc'[i] \in {doc[i], d}
    BY <2>4, <2>6
  <2> QED BY <2>3, <2>6, <2>8, <2>9, <2>10, <2>11, <2>12, NewVersion
<1> QED BY <1>6, <1>7

(***************************************************************************)
(* The theorems                                                            *)
(***************************************************************************)

\* The invariant holds initially: there are no versions at all.
LEMMA InitIInv == Init => IInv
  <1> SUFFICES ASSUME Init PROVE IInv
    OBVIOUS
  <1>1. TypeOK
    BY InitType
  <1>2. /\ \A i \in Id : doc[i] = NoDoc /\ hist[i] = <<>>
        /\ \A c \in Client : op[c] = Idle
        /\ \A i \in Id, c \in Client : pend[c][i] = Clean /\ phist[c][i] = <<>>
    BY DEF Init
  <1>3. \A i \in Id, c \in Client : obj[c][i].epoch = 0
    <2>1. \A v \in Value : Fresh(v).epoch = 0
      BY DEF Fresh
    <2>2. \A i \in Id, c \in Client : obj[c][i] \in {Fresh(v) : v \in Value}
      BY DEF Init
    <2> QED BY <2>1, <2>2
  <1>4. ASSUME NEW i \in Id PROVE Versions(i) = {} /\ SharedVersions(i) = {}
    <2>1. ASSUME NEW c \in Client PROVE HeldBy(c, i) = {}
      <3>1. op[c] = Idle /\ ~(obj[c][i].epoch > 0)
        BY <1>2, <1>3
      <3> QED BY <3>1 DEF HeldBy
    <2>2. StoreVersions(i) = {}
      BY <1>2 DEF StoreVersions
    <2>3. SharedVersions(i) = {}
      BY <1>2, <2>1 DEF SharedVersions
    <2> QED BY <2>1, <2>2, <2>3 DEF Versions
  <1> QED BY <1>1, <1>2, <1>4
          DEF IInv, RowLock, TxScope, KnownEpochs, DocNewest, PendNewest,
              VersionIdentity

\* Every step keeps the invariant.
LEMMA NextIInv == IInv /\ [Next]_vars => IInv'
  <1> SUFFICES ASSUME IInv, [Next]_vars PROVE IInv'
    OBVIOUS
  <1>1. TypeOK' /\ RowLock' /\ TxScope'
    BY NextType, NextRowLock, NextTxScope DEF IInv
  <1>2. ASSUME NEW c \in Client,
               \/ SaveHistory(c) \/ SaveEnd(c) \/ SaveFail(c)
               \/ SaveUnacknowledged(c)
               \/ Begin(c) \/ Commit(c) \/ Abort(c) \/ Crash(c)
        PROVE VersionFacts'
    BY <1>1, <1>2, SaveHistoryFacts, SaveEndFacts, SaveFailFacts,
       SaveUnacknowledgedFacts, BlockFacts, CrashFacts
  <1>3. ASSUME NEW c \in Client, NEW i \in Id,
               \/ SaveDoc(c, i) \/ Load(c, i) \/ Delete(c, i)
               \/ \E v \in Value : Edit(c, i, v)
               \/ \E k \in 1..Len(HistView(c, i)), save \in BOOLEAN :
                     Restore(c, i, k, save)
        PROVE VersionFacts'
    BY <1>1, <1>3, SaveDocFacts, LoadFacts, DeleteFacts, EditFacts, RestoreFacts
  <1>4. ASSUME UNCHANGED vars PROVE VersionFacts'
    <2>2. \A b \in Client, i \in Id : HeldBy(b, i)' = HeldBy(b, i)
      BY <1>4 DEF vars, HeldBy, ObjVersion
    <2>3. UNCHANGED <<doc, hist, epoch, pend, phist>>
      BY <1>4 DEF vars
    <2> QED BY <1>1, <2>2, <2>3, MemoryFacts
  <1>5. VersionFacts'
    <2>1. ASSUME Next PROVE VersionFacts'
      <3>1. PICK c \in Client :
               \/ SaveHistory(c) \/ SaveEnd(c) \/ SaveFail(c)
               \/ SaveUnacknowledged(c)
               \/ Begin(c) \/ Commit(c) \/ Abort(c) \/ Crash(c)
               \/ \E i \in Id :
                    \/ SaveDoc(c, i) \/ Load(c, i) \/ Delete(c, i)
                    \/ \E v \in Value : Edit(c, i, v)
                    \/ \E k \in 1..Len(HistView(c, i)), save \in BOOLEAN :
                          Restore(c, i, k, save)
        BY <2>1 DEF Next
      <3> QED BY <1>2, <1>3, <3>1
    <2> QED BY <1>4, <2>1
  <1> QED BY <1>1, <1>5 DEF IInv, VersionFacts

\* The invariant holds in every reachable state.
THEOREM Invariance == Spec => []IInv
  <1> QED BY InitIInv, NextIInv, PTL DEF Spec

\* A revision number identifies one content for as long as its document
\* exists, whatever the clients, the database and the switches do.
THEOREM VersionsIdentified == Spec => []VersionIdentity
  <1>1. IInv => VersionIdentity
    BY DEF IInv
  <1> QED BY <1>1, Invariance, PTL

\* A step that replaces a document is the document write of a save().
LEMMA ReplacesBySave ==
    ASSUME TypeOK, Next, NEW c \in Client, NEW i \in Id, Replaces(c, i)
    PROVE  SaveDoc(c, i)
<1>1. PICK j \in Id : SaveDoc(c, j)
  <2>1. ASSUME NEW b \in Client,
               \/ SaveHistory(b) \/ SaveEnd(b) \/ SaveFail(b)
               \/ SaveUnacknowledged(b) \/ Begin(b) \/ Commit(b) \/ Abort(b)
               \/ Crash(b)
        PROVE FALSE
    BY <2>1 DEF Replaces, SaveHistory, SaveEnd, SaveFail, SaveUnacknowledged,
                Begin, Commit, Abort, Crash, TypeOK
  <2>2. ASSUME NEW b \in Client, NEW j \in Id,
               \/ Load(b, j) \/ Delete(b, j)
               \/ \E v \in Value : Edit(b, j, v)
               \/ \E k \in 1..Len(HistView(b, j)), save \in BOOLEAN :
                     Restore(b, j, k, save)
        PROVE FALSE
    BY <2>2 DEF Replaces, Load, Delete, Edit, Restore
  <2>3. PICK b \in Client, j \in Id : SaveDoc(b, j)
    BY <2>1, <2>2 DEF Next
  <2>4. b = c
    BY <2>3 DEF SaveDoc, Replaces, TypeOK
  <2> QED BY <2>3, <2>4
<1>2. op'[c].id = j
  BY <1>1 DEF SaveDoc, TypeOK
<1> QED BY <1>1, <1>2 DEF Replaces

\* A step that replaces a document replaces the content its instance holds
\* the revision of.
LEMMA ReplaceSeen ==
    ASSUME IInv, Next, NEW c \in Client, NEW i \in Id,
           Replaces(c, i), obj[c][i].epoch = View(c, i).epoch
    PROVE  View(c, i).val = obj[c][i].base
<1>1. TypeOK
  BY DEF IInv
<1>2. SaveDoc(c, i)
  BY <1>1, ReplacesBySave
<1>3. PICK d \in CollectionSave(obj[c][i], View(c, i), epoch[i]) :
         op'[c].saved = d
  BY <1>1, <1>2 DEF SaveDoc, TypeOK
<1>4. View(c, i) \in Doc /\ View(c, i) # NoDoc
  BY <1>1, ViewType DEF Replaces
<1>5. View(c, i).rev = obj[c][i].rev
  BY <1>3, <1>4 DEF CollectionSave, SaveNew, Update
<1>6. obj[c][i].epoch > 0
  BY <1>4 DEF Doc, Epoch
<1>7. ObjVersion(c, i) \in Versions(i) /\ View(c, i) \in Versions(i)
  BY <1>1, <1>4, <1>6, ViewIsVersion DEF HeldBy, Versions
<1> QED BY <1>5, <1>7 DEF IInv, VersionIdentity, ObjVersion

\* A save never overwrites a change its instance has not seen, as long as the
\* instance holds a committed revision of this incarnation of the document.
THEOREM NoUpdateLost == Spec => NoLostUpdate
  <1>1. IInv /\ [Next]_vars =>
           [\A c \in Client, i \in Id :
              Replaces(c, i) /\ obj[c][i].epoch = View(c, i).epoch
                 => View(c, i).val = obj[c][i].base]_vars
    BY ReplaceSeen
  <1> QED BY <1>1, Invariance, PTL DEF Spec, NoLostUpdate

(***************************************************************************)
(* Immutable classes                                                       *)
(***************************************************************************)

\* The documents of an immutable class have the revision of their creation.
FirstRevision ==
    Immutable => \A i \in Id :
       /\ doc[i] # NoDoc => doc[i].rev = 1
       /\ \A c \in Client : pend[c][i] \notin {NoDoc, Clean} => pend[c][i].rev = 1

\* Committing keeps it, and so does a write of such a document.
LEMMA CommitFirst ==
    ASSUME TypeOK, FirstRevision, NEW c \in Client, CommitTx(c) \/ DiscardTx(c)
    PROVE  FirstRevision'
<1>1. pend' = [pend EXCEPT ![c] = [i \in Id |-> Clean]]
  BY DEF CommitTx, DiscardTx
<1>2. \A i \in Id : doc'[i] \in {doc[i], View(c, i)}
  BY DEF CommitTx, DiscardTx
<1>3. \A i \in Id, b \in Client : pend'[b][i] \in {pend[b][i], Clean}
  BY <1>1 DEF TypeOK
<1> QED BY <1>2, <1>3 DEF FirstRevision, View

LEMMA PutFirst ==
    ASSUME TypeOK, FirstRevision, NEW c \in Client, NEW i \in Id, NEW d \in Doc \cup {NoDoc},
           NEW b, Put(c, i, d, b) \/ Write(c, i, d, b), d # NoDoc => d.rev = 1
    PROVE  FirstRevision'
<1>1. \A j \in Id : doc'[j] \in {doc[j], d}
  BY DEF Put, Write, TypeOK
<1>2. \A j \in Id, a \in Client : pend'[a][j] \in {pend[a][j], d}
  <2>1. CASE pend' = pend
    BY <2>1
  <2>2. CASE pend' = [pend EXCEPT ![c][i] = d]
    BY <2>2 DEF TypeOK
  <2> QED BY <2>1, <2>2 DEF Put, Write
<1> QED BY <1>1, <1>2 DEF FirstRevision

\* Every step keeps it.
LEMMA NextFirst == TypeOK /\ FirstRevision /\ [Next]_vars => FirstRevision'
  <1> SUFFICES ASSUME TypeOK, FirstRevision, [Next]_vars PROVE FirstRevision'
    OBVIOUS
  <1>1. CASE UNCHANGED <<doc, pend>>
    BY <1>1 DEF FirstRevision
  <1>2. ASSUME NEW c \in Client,
               \/ SaveHistory(c) \/ SaveEnd(c) \/ SaveFail(c)
               \/ SaveUnacknowledged(c) \/ Begin(c) \/ Commit(c) \/ Abort(c)
               \/ Crash(c)
        PROVE FirstRevision'
    BY <1>1, <1>2, CommitFirst
       DEF SaveHistory, SaveEnd, SaveFail, SaveUnacknowledged, Begin, Commit,
           Abort, Crash
  <1>3. ASSUME NEW c \in Client, NEW i \in Id, SaveDoc(c, i) PROVE FirstRevision'
    <2>1. PICK d \in CollectionSave(obj[c][i], View(c, i), epoch[i]) :
             d \in Doc /\ Write(c, i, d, SaveInTx(c))
      BY <1>3 DEF SaveDoc
    <2>2. Immutable => d.rev = 1
      BY <2>1 DEF CollectionSave, SaveNew
    <2>3. CASE Immutable
      BY <2>1, <2>2, <2>3, PutFirst
    <2>4. CASE ~Immutable
      BY <2>4 DEF FirstRevision
    <2> QED BY <2>3, <2>4
  <1>4. ASSUME NEW c \in Client, NEW i \in Id, Delete(c, i) PROVE FirstRevision'
    BY <1>4, PutFirst DEF Delete
  <1>5. ASSUME NEW c \in Client, NEW i \in Id, NEW k \in 1..Len(HistView(c, i)),
               NEW save \in BOOLEAN, Restore(c, i, k, save)
        PROVE FirstRevision'
    <2>1. CASE ~save
      BY <1>1, <1>5, <2>1 DEF Restore
    <2>2. CASE save
      <3>1. PICK d : d = [rev |-> 1, val |-> HistView(c, i)[k].val, epoch |-> epoch[i] + 1]
        OBVIOUS
      <3>2. Put(c, i, d, outer[c]) /\ epoch[i] < MaxEpoch
        BY <1>5, <2>2, <3>1 DEF Restore
      <3>3. HistView(c, i)[k] \in Doc
        BY ViewType
      <3>4. d \in Doc /\ d.rev = 1
        BY <3>1, <3>2, <3>3, StoreAssumption DEF TypeOK, Doc, Rev, Epoch
      <3> QED BY <3>2, <3>4, PutFirst
    <2> QED BY <2>1, <2>2
  <1>6. ASSUME NEW c \in Client, NEW i \in Id,
               Load(c, i) \/ \E v \in Value : Edit(c, i, v)
        PROVE FirstRevision'
    BY <1>1, <1>6 DEF Load, Edit
  <1>7. CASE UNCHANGED vars
    BY <1>1, <1>7 DEF vars
  <1> QED BY <1>2, <1>3, <1>4, <1>5, <1>6, <1>7 DEF Next

\* A document that replaces another of the same incarnation was known before
\* the step, if the class is immutable.
LEMMA ReplacementKnown ==
    ASSUME IInv, Immutable, Next, NEW i \in Id, doc[i] # NoDoc, doc'[i] # NoDoc,
           doc'[i].epoch = doc[i].epoch
    PROVE  doc'[i] \in Versions(i)
<1>1. TypeOK /\ doc[i] \in Versions(i)
  BY SentinelAssumption DEF IInv, TypeOK, Versions, StoreVersions
<1>2. ASSUME NEW c \in Client, CommitTx(c) \/ DiscardTx(c) PROVE doc'[i] \in Versions(i)
  <2>1. doc'[i] \in {doc[i], View(c, i)}
    BY <1>2 DEF CommitTx, DiscardTx
  <2>2. View(c, i) # NoDoc => View(c, i) \in Versions(i)
    BY <1>1, ViewIsVersion DEF Versions
  <2> QED BY <1>1, <2>1, <2>2
<1>3. CASE doc'[i] = doc[i]
  BY <1>1, <1>3
<1>4. ASSUME NEW c \in Client,
             \/ SaveHistory(c) \/ SaveEnd(c) \/ SaveFail(c)
             \/ SaveUnacknowledged(c) \/ Begin(c) \/ Commit(c) \/ Abort(c)
             \/ Crash(c)
      PROVE doc'[i] \in Versions(i)
  BY <1>2, <1>3, <1>4
     DEF SaveHistory, SaveEnd, SaveFail, SaveUnacknowledged, Begin, Commit,
         Abort, Crash
<1>5. ASSUME NEW c \in Client, NEW j \in Id, SaveDoc(c, j) PROVE doc'[i] \in Versions(i)
  <2>1. PICK d \in CollectionSave(obj[c][j], View(c, j), epoch[j]) :
           Write(c, j, d, SaveInTx(c))
    BY <1>5 DEF SaveDoc
  <2>2. View(c, j) = NoDoc
    BY <2>1 DEF CollectionSave, SaveNew
  <2>3. doc'[i] = doc[i] \/ (j = i /\ ~SaveInTx(c))
    BY <1>1, <2>1 DEF Write, Put, TypeOK
  <2>4. ASSUME j = i, ~SaveInTx(c) PROVE FALSE
    <3>1. pend[c][i] = Clean
      BY <1>5, <2>4 DEF IInv, TxScope, SaveInTx, SaveDoc
    <3> QED BY <2>2, <2>4, <3>1 DEF View
  <2> QED BY <1>3, <2>3, <2>4
<1>6. ASSUME NEW c \in Client, NEW j \in Id, Delete(c, j) PROVE doc'[i] \in Versions(i)
  <2>1. doc'[i] \in {doc[i], NoDoc}
    BY <1>1, <1>6 DEF Delete, Write, Put, TypeOK
  <2> QED BY <1>3, <2>1
<1>7. ASSUME NEW c \in Client, NEW j \in Id, NEW k, NEW save \in BOOLEAN,
             Restore(c, j, k, save)
      PROVE doc'[i] \in Versions(i)
  <2>1. \/ doc'[i] = doc[i]
        \/ j = i /\ doc'[i].epoch = epoch[i] + 1
    BY <1>1, <1>7 DEF Restore, Put, TypeOK
  <2>2. doc[i].epoch <= epoch[i] /\ doc[i].epoch \in Int /\ epoch[i] \in Int
    BY <1>1, VersionType DEF IInv, KnownEpochs, TypeOK
  <2> QED BY <1>3, <2>1, <2>2
<1>8. ASSUME NEW c \in Client, NEW j \in Id,
             Load(c, j) \/ \E v \in Value : Edit(c, j, v)
      PROVE doc'[i] \in Versions(i)
  BY <1>3, <1>8 DEF Load, Edit
<1> QED BY <1>4, <1>5, <1>6, <1>7, <1>8 DEF Next

\* A document of an immutable class is written once in its life.
THEOREM ImmutableWrittenOnce == Spec => WrittenOnce
  <1>1. Init => FirstRevision
    BY DEF Init, FirstRevision
  <1>2. IInv /\ FirstRevision /\ [Next]_vars => FirstRevision'
    BY NextFirst DEF IInv
  <1>3. IInv /\ IInv' /\ FirstRevision /\ FirstRevision' /\ [Next]_vars =>
           [\A i \in Id : Immutable /\ doc[i] # NoDoc /\ doc'[i] # NoDoc
                          /\ doc'[i].epoch = doc[i].epoch => doc'[i] = doc[i]]_vars
    <2> SUFFICES ASSUME IInv, IInv', FirstRevision, FirstRevision', Next, NEW i \in Id,
                        Immutable, doc[i] # NoDoc, doc'[i] # NoDoc,
                        doc'[i].epoch = doc[i].epoch
                 PROVE  doc'[i] = doc[i]
      OBVIOUS
    <2>1. doc[i] \in Versions(i) /\ doc'[i] \in Versions(i)
      <3>1. doc[i] \in Doc /\ doc[i] # Clean
        BY SentinelAssumption DEF IInv, TypeOK
      <3>2. doc[i] \in Versions(i)
        BY <3>1 DEF Versions, StoreVersions
      <3> QED BY <3>2, ReplacementKnown
    <2>2. doc[i].rev = doc'[i].rev
      BY DEF FirstRevision
    <2>3. doc[i].val = doc'[i].val
      BY <2>1, <2>2 DEF IInv, VersionIdentity
    <2>4. doc[i] \in Doc /\ doc'[i] \in Doc
      BY DEF IInv, TypeOK
    <2> QED BY <2>2, <2>3, <2>4 DEF Doc
  <1> QED BY <1>1, <1>2, <1>3, Invariance, PTL DEF Spec, WrittenOnce

(***************************************************************************)
(* The history                                                             *)
(***************************************************************************)

\* No history entry is ahead of its document: the audit trail never shows a
\* revision that a rollback took back, whatever switches and blocks are used.
THEOREM HistoryNotAhead == Spec => []HistoryNeverAhead
  <1>1. ASSUME IInv PROVE HistoryNeverAhead
    <2> SUFFICES ASSUME NEW i \in Id, NEW k \in 1..Len(hist[i])
                 PROVE  /\ hist[i][k].epoch <= epoch[i]
                        /\ doc[i] # NoDoc /\ hist[i][k].epoch = doc[i].epoch
                              => hist[i][k].rev <= doc[i].rev
      BY DEF HistoryNeverAhead
    <2>1. hist[i][k] \in Versions(i) /\ hist[i][k] \in SharedVersions(i)
      BY DEF Versions, StoreVersions, SharedVersions
    <2> QED BY <1>1, <2>1 DEF IInv, KnownEpochs, DocNewest
  <1> QED BY <1>1, Invariance, PTL

\* An entry of a history that a client reads, before it is extended at its end
\* and after.
LEMMA AppendEntries ==
    ASSUME NEW s \in Seq(Doc), NEW d \in Doc, NEW k \in 1..Len(Append(s, d))
    PROVE  \/ k \in 1..Len(s) /\ Append(s, d)[k] = s[k]
           \/ k = Len(s) + 1 /\ Append(s, d)[k] = d
OBVIOUS

\* The committed entries are the first that a client reads.
LEMMA CommittedFirst ==
    ASSUME TypeOK, NEW c \in Client, NEW i \in Id
    PROVE  /\ Len(hist[i]) \in Nat /\ Len(hist[i]) <= Len(HistView(c, i))
           /\ \A k \in 1..Len(hist[i]) : /\ k \in 1..Len(HistView(c, i))
                                         /\ HistView(c, i)[k] = hist[i][k]
           /\ phist[c][i] = <<>> => HistView(c, i) = hist[i]
<1>1. ASSUME NEW s \in Seq(Doc), NEW t \in Seq(Doc)
      PROVE  /\ Len(s) \in Nat /\ Len(s) <= Len(s \o t)
             /\ \A k \in 1..Len(s) : k \in 1..Len(s \o t) /\ (s \o t)[k] = s[k]
             /\ t = <<>> => s \o t = s
  BY ConcatProperties, ConcatEmptySeq
<1>2. hist[i] \in Seq(Doc) /\ phist[c][i] \in Seq(Doc)
  BY DEF TypeOK
<1> QED BY <1>1, <1>2 DEF HistView

\* What the end of c's transaction does to the history that b reads: c's own
\* entries are kept or dropped; b sees them appear, unless it has an
\* uncommitted write of the document itself.
LEMMA EndTxHistView ==
    ASSUME IInv, NEW c \in Client, CommitTx(c) \/ DiscardTx(c),
           NEW b \in Client, NEW i \in Id
    PROVE  /\ HistView(b, i)' \in {HistView(b, i), HistView(c, i), hist[i]}
           /\ b # c /\ pend[b][i] # Clean => HistView(b, i)' = HistView(b, i)
<1>1. hist[i] \in Seq(Doc) /\ HistView(c, i) \in Seq(Doc) /\ TypeOK
  BY ViewType DEF IInv, TypeOK
<1>2. /\ \A j \in Id : phist'[c][j] = <<>>
      /\ \A a \in Client \ {c} : phist'[a] = phist[a]
  BY <1>1, EndTxScope
<1>3. CASE DiscardTx(c)
  <2>1. hist' = hist
    BY <1>3 DEF DiscardTx
  <2>2. CASE b = c
    <3>1. HistView(b, i)' = hist[i] \o <<>>
      BY <1>2, <2>1, <2>2 DEF HistView
    <3> QED BY <1>1, <2>2, <3>1, ConcatEmptySeq
  <2>3. CASE b # c
    BY <1>2, <2>1, <2>3 DEF HistView
  <2> QED BY <2>2, <2>3
<1>4. CASE CommitTx(c)
  <2>1. hist'[i] = HistView(c, i)
    BY <1>4 DEF CommitTx
  <2>2. CASE phist'[b][i] = <<>>
    <3>1. HistView(b, i)' = HistView(c, i) \o <<>>
      BY <2>1, <2>2 DEF HistView
    <3>2. HistView(b, i)' = HistView(c, i)
      BY <1>1, <3>1, ConcatEmptySeq
    <3>3. ASSUME b # c, pend[b][i] # Clean PROVE HistView(b, i)' = HistView(b, i)
      <4>1. phist[c][i] = <<>> /\ phist[b][i] = <<>>
        BY <1>2, <2>2, <3>3 DEF IInv, RowLock, TxScope
      <4>2. HistView(c, i) = hist[i] /\ HistView(b, i) = hist[i]
        BY <1>1, <4>1, CommittedFirst
      <4> QED BY <3>2, <4>2
    <3> QED BY <3>2, <3>3
  <2>3. CASE phist'[b][i] # <<>>
    <3>1. b # c /\ phist'[b][i] = phist[b][i]
      BY <1>2, <2>3
    <3>2. phist[c][i] = <<>>
      BY <2>3, <3>1 DEF IInv, RowLock, TxScope
    <3>3. HistView(c, i) = hist[i]
      BY <1>1, <3>2, CommittedFirst
    <3> QED BY <2>1, <3>1, <3>3 DEF HistView
  <2> QED BY <2>2, <2>3
<1> QED BY <1>3, <1>4

\* Revisions of one incarnation increase along s; d would continue s.
InRevisionOrder(s) ==
    \A k, l \in 1..Len(s) :
        k < l /\ s[k].epoch = s[l].epoch => s[k].rev < s[l].rev

Continues(d, s) ==
    \A k \in 1..Len(s) : s[k].epoch = d.epoch => s[k].rev < d.rev

\* c has written i and not yet entered it in the history.
Awaiting(c, i) == op[c] # Idle /\ op[c].hist /\ op[c].id = i

\* The history that c reads is in order, and what c is about to enter in it
\* continues it.
OrderOf(c, i) ==
    /\ InRevisionOrder(HistView(c, i))
    /\ Awaiting(c, i) => KeepHistory /\ Continues(op[c].saved, HistView(c, i))

\* Why histories are in order: the invariant.
OrderInv == \A c \in Client, i \in Id : OrderOf(c, i)

\* The order is kept by a step after which b reads a history that was read
\* before, if what b is about to enter still continues it.
LEMMA SameOrder ==
    ASSUME IInv, OrderInv, NEW b \in Client, NEW c \in Client, NEW i \in Id,
           HistView(b, i)' \in {HistView(b, i), HistView(c, i), hist[i]},
           Awaiting(b, i)' => /\ HistView(b, i)' = HistView(b, i)
                              /\ op'[b] = op[b]
    PROVE  OrderOf(b, i)'
<1>1. InRevisionOrder(hist[i])
  <2>1. /\ \A k \in 1..Len(hist[i]) : /\ k \in 1..Len(HistView(c, i))
                                      /\ HistView(c, i)[k] = hist[i][k]
    BY CommittedFirst DEF IInv
  <2>2. InRevisionOrder(HistView(c, i))
    BY DEF OrderInv, OrderOf
  <2> QED BY <2>1, <2>2 DEF InRevisionOrder
<1>2. InRevisionOrder(HistView(b, i)')
  BY <1>1 DEF OrderInv, OrderOf
<1>3. InRevisionOrder(HistView(b, i))'
  BY <1>2 DEF InRevisionOrder
<1>4. ASSUME Awaiting(b, i)'
      PROVE  KeepHistory /\ Continues(op[b].saved, HistView(b, i))'
  BY <1>4 DEF OrderInv, OrderOf, Awaiting, Continues
<1> QED BY <1>3, <1>4 DEF OrderOf

\* The end of c's transaction keeps the order: who is about to enter a
\* revision holds the lock of its document.
LEMMA EndTxOrder ==
    ASSUME IInv, OrderInv, UseTx, NEW c \in Client, CommitTx(c) \/ DiscardTx(c),
           op'[c] = Idle, \A a \in Client \ {c} : op'[a] = op[a]
    PROVE  OrderInv'
<1> SUFFICES ASSUME NEW b \in Client, NEW i \in Id PROVE OrderOf(b, i)'
  BY DEF OrderInv
<1>1. /\ HistView(b, i)' \in {HistView(b, i), HistView(c, i), hist[i]}
      /\ b # c /\ pend[b][i] # Clean => HistView(b, i)' = HistView(b, i)
  BY EndTxHistView
<1>2. ASSUME Awaiting(b, i)'
      PROVE  HistView(b, i)' = HistView(b, i) /\ op'[b] = op[b]
  <2>1. b # c /\ op'[b] = op[b]
    BY <1>2 DEF Awaiting
  <2>2. Awaiting(b, i)
    BY <1>2, <2>1 DEF Awaiting
  <2>3. SaveInTx(b)
    BY <2>2 DEF OrderInv, OrderOf, SaveInTx, OwnTx
  <2>4. pend[b][i] # Clean
    BY <2>2, <2>3 DEF Awaiting, IInv, TxScope
  <2> QED BY <1>1, <2>1, <2>4
<1> QED BY <1>1, <1>2, SameOrder

\* The document write of save() keeps it: what it writes is the newest.
LEMMA SaveDocOrder ==
    ASSUME IInv, OrderInv, UseTx, NEW c \in Client, NEW j \in Id, SaveDoc(c, j)
    PROVE  OrderInv'
<1> SUFFICES ASSUME NEW b \in Client, NEW i \in Id PROVE OrderOf(b, i)'
  BY DEF OrderInv
<1>1. PICK d \in CollectionSave(obj[c][j], View(c, j), epoch[j]) :
         /\ d \in Doc
         /\ Write(c, j, d, SaveInTx(c))
         /\ op' = [op EXCEPT ![c] = [id |-> j, saved |-> d,
                                     hist |-> NewRevision(c, j, d)]]
  BY DEF SaveDoc
<1>2. HistView(b, i)' = HistView(b, i)
  BY DEF SaveDoc, HistView
<1>3. ASSUME b = c, i = j, Awaiting(b, i)'
      PROVE  KeepHistory /\ Continues(op[b].saved, HistView(b, i))'
  <2>1. op'[c] = [id |-> j, saved |-> d, hist |-> NewRevision(c, j, d)]
    BY <1>1 DEF IInv, TypeOK
  <2>2. NewRevision(c, j, d) /\ KeepHistory
    <3>1. NewRevision(c, j, d) \in BOOLEAN
      BY StoreAssumption DEF NewRevision
    <3>2. op'[c].hist = NewRevision(c, j, d)
      BY <2>1
    <3>3. NewRevision(c, j, d)
      BY <1>3, <3>1, <3>2 DEF Awaiting
    <3> QED BY <3>3 DEF NewRevision
  <2>3. d # View(c, j)
    <3>1. CASE View(c, j) \in Doc
      BY <1>1, <2>2, <3>1, NewRevisionIsWritten DEF IInv
    <3>2. CASE View(c, j) \notin Doc
      BY <1>1, <3>2
    <3> QED BY <3>1, <3>2
  <2>4. CanWrite(c, j)
    BY <1>1, <2>3 DEF Write
  <2>5. \A x \in Versions(j) : x.epoch = d.epoch => x.rev < d.rev
    BY <1>1, <2>3, <2>4, SaveIsNewest
  <2>6. \A k \in 1..Len(HistView(c, j)) : HistView(c, j)[k] \in Versions(j)
    BY ViewIsVersion DEF IInv, Versions
  <2>7. Continues(d, HistView(c, j))
    BY <2>5, <2>6 DEF Continues
  <2> QED BY <1>2, <1>3, <2>1, <2>2, <2>7 DEF Continues
<1>4. ASSUME b # c \/ i # j, Awaiting(b, i)' PROVE op'[b] = op[b]
  <2>1. CASE b # c
    BY <1>1, <2>1 DEF IInv, TypeOK
  <2>2. CASE b = c
    <3>1. op'[b].id = j
      BY <1>1, <2>2 DEF IInv, TypeOK
    <3> QED BY <1>4, <2>2, <3>1 DEF Awaiting
  <2> QED BY <2>1, <2>2
<1>5. CASE b # c \/ i # j
  BY <1>2, <1>4, <1>5, SameOrder
<1>6. CASE b = c /\ i = j
  <2>1. InRevisionOrder(HistView(b, i))'
    BY <1>2 DEF OrderInv, OrderOf, InRevisionOrder
  <2> QED BY <1>3, <1>6, <2>1 DEF OrderOf
<1> QED BY <1>5, <1>6

\* The history write of save() keeps it: its entry continues the history,
\* and no other transaction reads it.
LEMMA SaveHistoryOrder ==
    ASSUME IInv, OrderInv, UseTx, NEW c \in Client, SaveHistory(c)
    PROVE  OrderInv'
<1> SUFFICES ASSUME NEW b \in Client, NEW i \in Id PROVE OrderOf(b, i)'
  BY DEF OrderInv
<1>1. PICK j \in Id, s \in Doc : op[c].id = j /\ op[c].saved = s
  BY SaveOpType DEF SaveHistory, IInv
<1>2. KeepHistory /\ Continues(s, HistView(c, j))
  BY <1>1 DEF SaveHistory, OrderInv, OrderOf, Awaiting
<1>3. /\ phist' = [phist EXCEPT ![c] = [phist[c] EXCEPT ![j] = Append(@, s)]]
      /\ hist' = hist
  BY <1>1, <1>2 DEF SaveHistory, SaveInTx, OwnTx
<1>4. op' = [op EXCEPT ![c].hist = FALSE]
  BY DEF SaveHistory
<1>5. CASE b # c \/ i # j
  <2>1. HistView(b, i)' = HistView(b, i)
    BY <1>1, <1>3, <1>5 DEF HistView, IInv, TypeOK
  <2>2. b = c => ~Awaiting(b, i)'
    <3>1. op[c] \in SaveOp /\ op'[c] = [op[c] EXCEPT !.hist = FALSE]
      BY <1>4, SaveOpType DEF SaveHistory, IInv, TypeOK
    <3> QED BY <3>1 DEF Awaiting, SaveOp
  <2>3. b # c => op'[b] = op[b]
    BY <1>4 DEF IInv, TypeOK
  <2> QED BY <2>1, <2>2, <2>3, SameOrder
<1>6. CASE b = c /\ i = j
  <2>1. HistView(c, j)' = Append(HistView(c, j), s) /\ HistView(c, j) \in Seq(Doc)
    <3>1. ASSUME NEW x \in Seq(Doc), NEW y \in Seq(Doc)
          PROVE  x \o Append(y, s) = Append(x \o y, s)
      BY AppendProperties, ConcatProperties
    <3>2. hist[j] \in Seq(Doc) /\ phist[c][j] \in Seq(Doc)
      BY <1>1 DEF IInv, TypeOK
    <3>3. phist'[c][j] = Append(phist[c][j], s)
      BY <1>1, <1>3 DEF IInv, TypeOK
    <3> QED BY <1>3, <3>1, <3>2, <3>3, ViewType DEF HistView, IInv
  <2>2. ASSUME NEW x \in Seq(Doc), InRevisionOrder(x), Continues(s, x)
        PROVE  InRevisionOrder(Append(x, s))
    <3> SUFFICES ASSUME NEW k \in 1..Len(Append(x, s)), NEW l \in 1..Len(Append(x, s)),
                        k < l, Append(x, s)[k].epoch = Append(x, s)[l].epoch
                 PROVE  Append(x, s)[k].rev < Append(x, s)[l].rev
      BY DEF InRevisionOrder
    <3>1. k \in 1..Len(x) /\ Append(x, s)[k] = x[k]
      OBVIOUS
    <3>2. CASE l \in 1..Len(x) /\ Append(x, s)[l] = x[l]
      BY <2>2, <3>1, <3>2 DEF InRevisionOrder
    <3>3. CASE l = Len(x) + 1 /\ Append(x, s)[l] = s
      BY <2>2, <3>1, <3>3 DEF Continues
    <3> QED BY <3>2, <3>3, AppendEntries
  <2>3. InRevisionOrder(HistView(c, j)')
    BY <1>2, <2>1, <2>2 DEF OrderInv, OrderOf
  <2>4. InRevisionOrder(HistView(b, i))'
    BY <1>6, <2>3 DEF InRevisionOrder
  <2>5. ~Awaiting(b, i)'
    <3>1. op[c] \in SaveOp /\ op'[c] = [op[c] EXCEPT !.hist = FALSE]
      BY <1>4, SaveOpType DEF SaveHistory, IInv, TypeOK
    <3> QED BY <1>6, <3>1 DEF Awaiting, SaveOp
  <2> QED BY <2>4, <2>5 DEF OrderOf
<1> QED BY <1>5, <1>6

\* Every step keeps the order, if document and history share a transaction.
LEMMA NextOrder == IInv /\ UseTx /\ OrderInv /\ [Next]_vars => OrderInv'
  <1> SUFFICES ASSUME IInv, UseTx, OrderInv, [Next]_vars PROVE OrderInv'
    OBVIOUS
  <1>1. ASSUME NEW c \in Client, UNCHANGED <<hist, phist>>,
               op'[c] = op[c] \/ op'[c] = Idle,
               \A a \in Client \ {c} : op'[a] = op[a]
        PROVE  OrderInv'
    <2> SUFFICES ASSUME NEW b \in Client, NEW i \in Id PROVE OrderOf(b, i)'
      BY DEF OrderInv
    <2>1. HistView(b, i)' = HistView(b, i)
      BY <1>1 DEF HistView
    <2>2. Awaiting(b, i)' => op'[b] = op[b]
      BY <1>1 DEF Awaiting
    <2> QED BY <2>1, <2>2, SameOrder
  <1>2. ASSUME NEW c \in Client,
               \/ SaveEnd(c) \/ SaveFail(c) \/ SaveUnacknowledged(c)
               \/ Begin(c) \/ Commit(c) \/ Abort(c) \/ Crash(c)
        PROVE  OrderInv'
    <2>1. \A a \in Client \ {c} : op'[a] = op[a]
      BY <1>2 DEF SaveEnd, SaveFail, SaveUnacknowledged, Begin, Commit, Abort,
                  Crash, IInv, TypeOK
    <2>2. op'[c] = Idle
      BY <1>2 DEF SaveEnd, SaveFail, SaveUnacknowledged, Begin, Commit, Abort,
                  Crash, IInv, TypeOK
    <2>3. CASE CommitTx(c) \/ DiscardTx(c)
      BY <2>1, <2>2, <2>3, EndTxOrder
    <2>4. CASE UNCHANGED <<hist, phist>>
      BY <1>1, <2>1, <2>2, <2>4
    <2> QED BY <1>2, <2>3, <2>4
            DEF SaveEnd, SaveFail, SaveUnacknowledged, Begin, Commit, Abort, Crash
  <1>3. ASSUME NEW c \in Client, NEW i \in Id,
               \/ Load(c, i) \/ Delete(c, i) \/ \E v \in Value : Edit(c, i, v)
               \/ \E k \in 1..Len(HistView(c, i)), save \in BOOLEAN :
                     Restore(c, i, k, save)
        PROVE  OrderInv'
    BY <1>1, <1>3 DEF Load, Delete, Edit, Restore
  <1>4. CASE UNCHANGED vars
    <2> SUFFICES ASSUME NEW b \in Client, NEW i \in Id PROVE OrderOf(b, i)'
      BY DEF OrderInv
    <2>1. HistView(b, i)' = HistView(b, i) /\ op' = op
      BY <1>4 DEF HistView, vars
    <2> QED BY <2>1, SameOrder
  <1> QED BY <1>2, <1>3, <1>4, SaveDocOrder, SaveHistoryOrder DEF Next

\* The entries of every history are in order of revision, if the document and
\* its history are written in one transaction: with enclosing blocks, deleted
\* and restored documents, and whoever writes at the same time.
THEOREM HistoryOrdered == UseTx => (Spec => []HistoryInRevisionOrder)
  <1> SUFFICES ASSUME UseTx PROVE Spec => []HistoryInRevisionOrder
    OBVIOUS
  <1>1. Init => OrderInv
    <2> SUFFICES ASSUME Init, NEW c \in Client, NEW i \in Id PROVE OrderOf(c, i)
      BY DEF OrderInv
    <2>1. HistView(c, i) = <<>> \o <<>> /\ op[c] = Idle
      BY DEF Init, HistView
    <2>2. HistView(c, i) = <<>>
      BY <2>1
    <2> QED BY <2>1, <2>2 DEF OrderOf, InRevisionOrder, Awaiting
  <1>2. Init => HistoryInRevisionOrder
    <2>1. Init => \A i \in Id : Len(hist[i]) = 0
      BY DEF Init
    <2> QED BY <2>1 DEF HistoryInRevisionOrder
  <1>3. IInv /\ OrderInv /\ HistoryInRevisionOrder /\ [Next]_vars
           => HistoryInRevisionOrder'
    <2> SUFFICES ASSUME IInv, OrderInv, HistoryInRevisionOrder, [Next]_vars,
                        NEW i \in Id
                 PROVE  InRevisionOrder(hist'[i])
      BY DEF HistoryInRevisionOrder, InRevisionOrder
    <2>1. hist'[i] = hist[i] \/ \E c \in Client : hist'[i] = HistView(c, i)
      <3>1. ASSUME NEW c \in Client, SaveHistory(c) PROVE hist' = hist
        <4>1. Awaiting(c, op[c].id) /\ op[c].id \in Id
          BY <3>1, SaveOpType DEF SaveHistory, Awaiting, IInv
        <4>2. SaveInTx(c)
          BY <4>1 DEF OrderInv, OrderOf, SaveInTx, OwnTx
        <4> QED BY <3>1, <4>2 DEF SaveHistory
      <3>2. ASSUME NEW c \in Client,
                   \/ SaveEnd(c) \/ SaveFail(c) \/ SaveUnacknowledged(c)
                   \/ Begin(c) \/ Commit(c) \/ Abort(c) \/ Crash(c)
            PROVE  hist' = hist \/ hist'[i] = HistView(c, i)
        BY <3>2 DEF SaveEnd, SaveFail, SaveUnacknowledged, Begin, Commit,
                    Abort, Crash, CommitTx, DiscardTx
      <3>3. ASSUME NEW c \in Client, NEW j \in Id,
                   \/ SaveDoc(c, j) \/ Load(c, j) \/ Delete(c, j)
                   \/ \E v \in Value : Edit(c, j, v)
                   \/ \E k \in 1..Len(HistView(c, j)), save \in BOOLEAN :
                         Restore(c, j, k, save)
            PROVE  hist' = hist
        BY <3>3 DEF SaveDoc, Load, Delete, Edit, Restore
      <3> QED BY <3>1, <3>2, <3>3 DEF Next, vars
    <2>2. InRevisionOrder(hist[i])
      BY DEF HistoryInRevisionOrder, InRevisionOrder
    <2> QED BY <2>1, <2>2 DEF OrderInv, OrderOf
  <1>4. IInv /\ OrderInv /\ [Next]_vars => OrderInv'
    BY NextOrder
  <1> QED BY <1>1, <1>2, <1>3, <1>4, Invariance, PTL DEF Spec

(***************************************************************************)
(* The audit trail                                                         *)
(***************************************************************************)

\* Where every change of a document leaves its trace: the document and its
\* history are written in one transaction, a failure aborts the enclosing
\* block, and save() knows the revision it replaces.
Traced == KeepHistory /\ UseTx /\ ~Immutable /\ Outer # "ignore"

\* The newest entry of c's transaction for i is the document it wrote.
Logged(c, i) == /\ phist[c][i] # <<>>
                /\ phist[c][i][Len(phist[c][i])] = pend[c][i]

\* c restored i from its history.
Copied(c, i) == /\ "restore" \in Lifecycle
                /\ pend[c][i].rev = 1
                /\ \E k \in 1..Len(HistView(c, i)) :
                      HistView(c, i)[k].val = pend[c][i].val

\* An uncommitted document has its entry, is about to get it, or is a copy
\* of what the history holds already.
TrailOf(c, i) ==
    /\ Awaiting(c, i) => pend[c][i] = op[c].saved
    /\ pend[c][i] \notin {NoDoc, Clean}
          => Awaiting(c, i) \/ Logged(c, i) \/ Copied(c, i)

TrailInv == \A c \in Client, i \in Id : TrailOf(c, i)

\* It is kept where nothing of it changes, and where nothing is written.
LEMMA SameTrail ==
    ASSUME TrailInv, NEW c \in Client, NEW i \in Id,
           pend'[c][i] = pend[c][i], phist'[c][i] = phist[c][i],
           pend[c][i] # Clean => HistView(c, i)' = HistView(c, i),
           \/ op'[c] = op[c]
           \/ ~Awaiting(c, i) /\ ~Awaiting(c, i)'
    PROVE  TrailOf(c, i)'
<1>1. Awaiting(c, i)' <=> Awaiting(c, i)
  BY DEF Awaiting
<1>2. Awaiting(c, i)' => op'[c] = op[c]
  OBVIOUS
<1>3. Logged(c, i)' <=> Logged(c, i)
  BY DEF Logged
<1>4. pend[c][i] # Clean => (Copied(c, i)' <=> Copied(c, i))
  BY DEF Copied
<1>5. TrailOf(c, i)
  BY DEF TrailInv
<1> QED BY <1>1, <1>2, <1>3, <1>4, <1>5 DEF TrailOf

LEMMA NothingToTrace ==
    ASSUME NEW c \in Client, NEW i \in Id, pend'[c][i] \in {NoDoc, Clean},
           ~Awaiting(c, i)'
    PROVE  TrailOf(c, i)'
BY DEF TrailOf

\* Where the trail is kept, a history grows only when a transaction commits.
LEMMA InTransaction ==
    ASSUME Traced, NEW c \in Client
    PROVE  SaveInTx(c)
BY DEF Traced, SaveInTx, OwnTx

\* What the others do leaves c's uncommitted writes traced.
LEMMA OthersTrail ==
    ASSUME IInv, Traced, TrailInv, NEW c \in Client, NEW i \in Id,
           NEW b \in Client, b # c,
           \/ SaveHistory(b) \/ SaveEnd(b) \/ SaveFail(b)
           \/ SaveUnacknowledged(b) \/ Begin(b) \/ Commit(b) \/ Abort(b)
           \/ Crash(b)
           \/ \E j \in Id :
                \/ SaveDoc(b, j) \/ Load(b, j) \/ Delete(b, j)
                \/ \E v \in Value : Edit(b, j, v)
                \/ \E k \in 1..Len(HistView(b, j)), save \in BOOLEAN :
                      Restore(b, j, k, save)
    PROVE  TrailOf(c, i)'
<1>1. TypeOK
  BY DEF IInv
<1>2. op'[c] = op[c]
  BY <1>1 DEF SaveHistory, SaveEnd, SaveFail, SaveUnacknowledged, Begin, Commit,
              Abort, Crash, SaveDoc, Load, Delete, Edit, Restore, TypeOK
<1>3. CASE CommitTx(b) \/ DiscardTx(b)
  <2>1. pend'[c] = pend[c] /\ phist'[c] = phist[c]
    BY <1>1, <1>3, EndTxScope
  <2>2. pend[c][i] # Clean => HistView(c, i)' = HistView(c, i)
    BY <1>3, EndTxHistView
  <2> QED BY <1>2, <2>1, <2>2, SameTrail
<1>4. ASSUME pend'[c] = pend[c], phist'[c] = phist[c], hist' = hist
      PROVE  TrailOf(c, i)'
  <2>1. HistView(c, i)' = HistView(c, i)
    BY <1>4 DEF HistView
  <2> QED BY <1>2, <1>4, <2>1, SameTrail
<1>5. CASE UNCHANGED <<hist, pend, phist>>
  BY <1>4, <1>5
<1>6. ASSUME SaveHistory(b) PROVE TrailOf(c, i)'
  <2>1. /\ phist' = [phist EXCEPT ![b][op[b].id] = Append(@, op[b].saved)]
        /\ UNCHANGED <<hist, pend>>
    BY <1>6, InTransaction DEF SaveHistory
  <2>2. phist'[c] = phist[c]
    BY <1>1, <2>1 DEF TypeOK
  <2> QED BY <1>4, <2>1, <2>2
<1>7. ASSUME NEW j \in Id,
             \/ SaveDoc(b, j) \/ Delete(b, j)
             \/ \E k \in 1..Len(HistView(b, j)), save \in BOOLEAN :
                   Restore(b, j, k, save)
      PROVE  TrailOf(c, i)'
  <2>1. pend'[c] = pend[c]
    BY <1>1, <1>7 DEF SaveDoc, Delete, Restore, Write, Put, TypeOK
  <2>2. UNCHANGED <<hist, phist>>
    BY <1>7 DEF SaveDoc, Delete, Restore
  <2> QED BY <1>4, <2>1, <2>2
<1> QED BY <1>3, <1>5, <1>6, <1>7
        DEF SaveEnd, SaveFail, SaveUnacknowledged, Begin, Commit, Abort, Crash,
            Load, Edit

\* save() traces what it writes: it enters every document it changed.
LEMMA SaveDocTrail ==
    ASSUME IInv, Traced, TrailInv, NEW c \in Client, NEW i \in Id, NEW j \in Id,
           SaveDoc(c, j)
    PROVE  TrailOf(c, i)'
<1>1. PICK d \in CollectionSave(obj[c][j], View(c, j), epoch[j]) :
         /\ d \in Doc
         /\ Write(c, j, d, SaveInTx(c))
         /\ op' = [op EXCEPT ![c] = [id |-> j, saved |-> d,
                                     hist |-> NewRevision(c, j, d)]]
  BY DEF SaveDoc
<1>2. op'[c] = [id |-> j, saved |-> d, hist |-> NewRevision(c, j, d)]
  BY <1>1 DEF IInv, TypeOK
<1>3. /\ ~Awaiting(c, i)
      /\ phist'[c][i] = phist[c][i]
      /\ HistView(c, i)' = HistView(c, i)
  BY DEF SaveDoc, Awaiting, HistView
<1>4. CASE i # j
  <2>1. pend'[c][i] = pend[c][i]
    BY <1>1, <1>4 DEF Write, Put, IInv, TypeOK
  <2>2. ~Awaiting(c, i)'
    BY <1>2, <1>4 DEF Awaiting
  <2> QED BY <1>3, <2>1, <2>2, SameTrail
<1>5. CASE i = j /\ d = View(c, j)
  <2>1. pend'[c][i] = pend[c][i]
    BY <1>1, <1>5 DEF Write
  <2>2. ~NewRevision(c, j, d)
    BY <1>1, <1>5, NewRevisionIsWritten DEF IInv
  <2>3. op'[c].hist = NewRevision(c, j, d)
    BY <1>2
  <2>4. ~Awaiting(c, i)'
    BY <2>2, <2>3 DEF Awaiting
  <2> QED BY <1>3, <2>1, <2>4, SameTrail
<1>6. CASE i = j /\ d # View(c, j)
  <2>1. SaveInTx(c)
    BY InTransaction
  <2>2. pend'[c][i] = d
    BY <1>1, <1>6, <2>1 DEF Write, Put, IInv, TypeOK
  <2>3. NewRevision(c, j, d)
    <3>1. CASE d \in SaveNew(obj[c][j], View(c, j), epoch[j]) /\ obj[c][j].rev = 0
      BY <3>1 DEF SaveNew, NewRevision, Traced
    <3>2. CASE d \in Update(obj[c][j], View(c, j))
      <4> DEFINE w == View(c, j)
      <4>1. w # NoDoc /\ w \in Doc /\ w.rev = obj[c][j].rev
        BY <3>2, ViewType DEF Update, IInv
      <4>2. d = [w EXCEPT !.val = obj[c][j].val,
                          !.rev = IF w.val = obj[c][j].val THEN @ ELSE @ + 1]
        BY <3>2 DEF Update
      <4>3. CASE w.val = obj[c][j].val
        <5>1. d = w
          BY <4>1, <4>2, <4>3 DEF Doc
        <5> QED BY <1>6, <5>1
      <4>4. CASE w.val # obj[c][j].val
        <5>1. d.rev = w.rev + 1 /\ w.rev \in Int
          BY <4>1, <4>2, <4>4 DEF Doc, Rev
        <5> QED BY <4>1, <5>1 DEF NewRevision, Traced
      <4> QED BY <4>3, <4>4
    <3> QED BY <1>1, <3>1, <3>2 DEF CollectionSave, Traced
  <2>4. op'[c].hist = NewRevision(c, j, d) /\ op'[c].id = j /\ op'[c].saved = d
    BY <1>2
  <2>5. op'[c] # Idle
    <3>1. NewRevision(c, j, d) \in BOOLEAN
      BY StoreAssumption DEF NewRevision
    <3> QED BY <1>1, <1>2, <3>1, IdleAssumption DEF SaveOp
  <2>6. Awaiting(c, i)'
    BY <1>6, <2>3, <2>4, <2>5 DEF Awaiting
  <2> QED BY <2>2, <2>4, <2>6 DEF TrailOf
<1> QED BY <1>4, <1>5, <1>6

\* The history write leaves the document it stands for as the newest entry.
LEMMA SaveHistoryTrail ==
    ASSUME IInv, Traced, TrailInv, NEW c \in Client, NEW i \in Id, SaveHistory(c)
    PROVE  TrailOf(c, i)'
<1>1. PICK j \in Id, s \in Doc : op[c].id = j /\ op[c].saved = s
  BY SaveOpType DEF SaveHistory, IInv
<1>2. /\ phist' = [phist EXCEPT ![c] = [phist[c] EXCEPT ![j] = Append(@, s)]]
      /\ UNCHANGED <<hist, pend>>
  BY <1>1, InTransaction DEF SaveHistory
<1>3. ~Awaiting(c, i)'
  <2>1. op[c] \in SaveOp /\ op'[c] = [op[c] EXCEPT !.hist = FALSE]
    BY SaveOpType DEF SaveHistory, IInv, TypeOK
  <2> QED BY <2>1 DEF Awaiting, SaveOp
<1>4. CASE i # j
  <2>1. phist'[c][i] = phist[c][i]
    BY <1>1, <1>2, <1>4 DEF IInv, TypeOK
  <2>2. HistView(c, i)' = HistView(c, i)
    BY <1>2, <2>1 DEF HistView
  <2>3. ~Awaiting(c, i)
    BY <1>1, <1>4 DEF Awaiting
  <2> QED BY <1>2, <1>3, <2>1, <2>2, <2>3, SameTrail
<1>5. CASE i = j
  <2>1. phist'[c][i] = Append(phist[c][i], s) /\ phist[c][i] \in Seq(Doc)
    BY <1>1, <1>2, <1>5 DEF IInv, TypeOK
  <2>2. phist'[c][i] # <<>> /\ phist'[c][i][Len(phist'[c][i])] = s
    BY <2>1
  <2>3. pend'[c][i] = s
    BY <1>1, <1>2, <1>5 DEF TrailInv, TrailOf, Awaiting, SaveHistory
  <2> QED BY <1>3, <2>2, <2>3 DEF TrailOf, Logged
<1> QED BY <1>4, <1>5

\* Every step keeps the uncommitted writes traced.
LEMMA NextTrail == IInv /\ Traced /\ TrailInv /\ [Next]_vars => TrailInv'
  <1> SUFFICES ASSUME IInv, Traced, TrailInv, [Next]_vars,
                      NEW c \in Client, NEW i \in Id
               PROVE  TrailOf(c, i)'
    BY DEF TrailInv
  <1>0. TypeOK
    BY DEF IInv
  <1>1. ASSUME CommitTx(c) \/ DiscardTx(c), op'[c] = Idle PROVE TrailOf(c, i)'
    <2>1. pend'[c][i] = Clean /\ ~Awaiting(c, i)'
      BY <1>0, <1>1, EndTxScope DEF Awaiting
    <2> QED BY <2>1, NothingToTrace
  <1>2. ASSUME UNCHANGED <<hist, pend, phist>>,
               op'[c] = op[c] \/ (~Awaiting(c, i) /\ ~Awaiting(c, i)')
        PROVE  TrailOf(c, i)'
    <2>1. HistView(c, i)' = HistView(c, i)
      BY <1>2 DEF HistView
    <2> QED BY <1>2, <2>1, SameTrail
  <1>3. ASSUME \/ SaveEnd(c) \/ SaveFail(c) \/ SaveUnacknowledged(c)
               \/ Begin(c) \/ Commit(c) \/ Abort(c) \/ Crash(c)
        PROVE  TrailOf(c, i)'
    <2>1. op'[c] = Idle
      BY <1>0, <1>3 DEF SaveEnd, SaveFail, SaveUnacknowledged, Begin, Commit,
                        Abort, Crash, TypeOK
    <2>2. CASE CommitTx(c) \/ DiscardTx(c)
      BY <1>1, <2>1, <2>2
    <2>3. CASE UNCHANGED <<hist, pend, phist>> /\ ~Awaiting(c, i)
      BY <1>2, <2>1, <2>3 DEF Awaiting
    <2> QED BY <1>3, <2>2, <2>3
            DEF SaveEnd, SaveFail, SaveUnacknowledged, Begin, Commit, Abort,
                Crash, Awaiting, Traced
  <1>4. ASSUME NEW j \in Id, Load(c, j) \/ \E v \in Value : Edit(c, j, v)
        PROVE  TrailOf(c, i)'
    BY <1>2, <1>4 DEF Load, Edit
  <1>5. ASSUME NEW j \in Id, Delete(c, j) PROVE TrailOf(c, i)'
    <2>1. UNCHANGED <<op, hist, phist>> /\ op[c] = Idle
      BY <1>5 DEF Delete
    <2>2. pend'[c][i] = pend[c][i] \/ pend'[c][i] = NoDoc
      BY <1>0, <1>5 DEF Delete, Write, Put, TypeOK
    <2>3. HistView(c, i)' = HistView(c, i)
      BY <2>1 DEF HistView
    <2> QED BY <2>1, <2>2, <2>3, SameTrail, NothingToTrace DEF Awaiting
  <1>6. ASSUME NEW j \in Id, NEW k \in 1..Len(HistView(c, j)),
               NEW save \in BOOLEAN, Restore(c, j, k, save)
        PROVE  TrailOf(c, i)'
    <2>1. UNCHANGED <<op, hist, phist>> /\ op[c] = Idle
      BY <1>6 DEF Restore
    <2>2. HistView(c, i)' = HistView(c, i)
      BY <2>1 DEF HistView
    <2>3. \/ pend'[c][i] = pend[c][i]
          \/ i = j /\ pend'[c][i] = [rev |-> 1, val |-> HistView(c, j)[k].val,
                                     epoch |-> epoch[j] + 1]
      BY <1>0, <1>6 DEF Restore, Put, TypeOK
    <2>4. CASE pend'[c][i] = pend[c][i]
      BY <2>1, <2>2, <2>4, SameTrail
    <2>5. CASE i = j /\ pend'[c][i] = [rev |-> 1, val |-> HistView(c, j)[k].val,
                                       epoch |-> epoch[j] + 1]
      <3>1. Copied(c, i)'
        BY <1>6, <2>2, <2>5 DEF Copied, Restore
      <3> QED BY <2>1, <3>1 DEF TrailOf, Awaiting
    <2> QED BY <2>3, <2>4, <2>5
  <1>7. CASE UNCHANGED vars
    BY <1>2, <1>7 DEF vars
  <1> QED BY <1>3, <1>4, <1>5, <1>6, <1>7, SaveDocTrail, SaveHistoryTrail,
             OthersTrail DEF Next

\* What a COMMIT does to one document, as the abstract store sees it.
LEMMA CommitAudited ==
    ASSUME IInv, Traced, TrailInv, NEW c \in Client, CommitTx(c), NEW i \in Id,
           ~Awaiting(c, i)
    PROVE  /\ Audit!Extends(i)
           /\ \/ doc'[i] = doc[i] /\ hist'[i] = hist[i]
              \/ doc'[i] = NoDoc
              \/ Audit!Audited(i)
              \/ "restore" \in Lifecycle /\ Audit!CopiedFromTrail(i)
<1>1. /\ doc'[i] = View(c, i) /\ hist'[i] = HistView(c, i)
      /\ hist[i] \in Seq(Doc) /\ phist[c][i] \in Seq(Doc) /\ TypeOK
  BY DEF CommitTx, IInv, TypeOK
<1>2. Audit!Extends(i)
  BY <1>1, CommittedFirst DEF Audit!Extends
<1>3. CASE pend[c][i] = Clean
  <2>1. phist[c][i] = <<>>
    BY <1>3 DEF IInv, TxScope
  <2> QED BY <1>1, <1>2, <1>3, <2>1, CommittedFirst DEF View
<1>4. CASE pend[c][i] = NoDoc
  BY <1>1, <1>2, <1>4, SentinelAssumption DEF View
<1>5. CASE pend[c][i] \notin {NoDoc, Clean}
  <2>1. doc'[i] = pend[c][i]
    BY <1>1, <1>5 DEF View
  <2>2. Logged(c, i) \/ Copied(c, i)
    BY <1>5 DEF TrailInv, TrailOf
  <2>3. CASE Logged(c, i)
    <3>1. ASSUME NEW s \in Seq(Doc), NEW t \in Seq(Doc), t # <<>>
          PROVE  /\ Len(s \o t) > Len(s)
                 /\ (s \o t)[Len(s \o t)] = t[Len(t)]
      <4>1. Len(t) \in Nat \ {0} /\ Len(s) \in Nat
        BY <3>1, EmptySeq
      <4> QED BY <4>1, ConcatProperties
    <3>2. Audit!Audited(i)
      BY <1>1, <2>1, <2>3, <3>1 DEF Audit!Audited, Logged, HistView
    <3> QED BY <1>2, <3>2
  <2>4. CASE Copied(c, i)
    <3>1. Audit!CopiedFromTrail(i) /\ "restore" \in Lifecycle
      BY <1>1, <1>5, <2>1, <2>4 DEF Audit!CopiedFromTrail, Copied
    <3> QED BY <1>2, <3>1
  <2> QED BY <2>2, <2>3, <2>4
<1> QED BY <1>3, <1>4, <1>5

\* What a step does to one document, as the abstract store sees it.
LEMMA StepAudited ==
    ASSUME IInv, Traced, TrailInv, [Next]_vars, NEW i \in Id
    PROVE  /\ Audit!Extends(i)
           /\ \/ doc'[i] = doc[i] /\ hist'[i] = hist[i]
              \/ doc'[i] = NoDoc
              \/ Audit!Audited(i)
              \/ "restore" \in Lifecycle /\ Audit!CopiedFromTrail(i)
<1> DEFINE Goal ==
       /\ Audit!Extends(i)
       /\ \/ doc'[i] = doc[i] /\ hist'[i] = hist[i]
          \/ doc'[i] = NoDoc
          \/ Audit!Audited(i)
          \/ "restore" \in Lifecycle /\ Audit!CopiedFromTrail(i)
<1>0. TypeOK /\ hist[i] \in Seq(Doc)
  BY DEF IInv, TypeOK
<1>1. ASSUME hist' = hist, doc'[i] \in {doc[i], NoDoc} PROVE Goal
  BY <1>0, <1>1 DEF Audit!Extends
<1>2. ASSUME NEW c \in Client,
             \/ SaveEnd(c) \/ SaveFail(c) \/ SaveUnacknowledged(c)
             \/ Begin(c) \/ Commit(c) \/ Abort(c) \/ Crash(c)
      PROVE  Goal
  <2>1. CASE CommitTx(c) /\ ~Awaiting(c, i)
    BY <2>1, CommitAudited
  <2>2. CASE UNCHANGED <<doc, hist>>
    BY <1>1, <2>2
  <2> HIDE DEF Goal
  <2> QED BY <1>2, <2>1, <2>2
          DEF SaveEnd, SaveFail, SaveUnacknowledged, Begin, Commit, Abort,
              Crash, DiscardTx, Awaiting
<1>3. ASSUME NEW c \in Client, SaveHistory(c) PROVE Goal
  <2>1. UNCHANGED <<doc, hist>>
    BY <1>3, InTransaction DEF SaveHistory
  <2> QED BY <1>1, <2>1
<1>4. ASSUME NEW c \in Client, NEW j \in Id, SaveDoc(c, j) PROVE Goal
  <2>1. UNCHANGED <<doc, hist>>
    BY <1>4, InTransaction DEF SaveDoc, Write, Put
  <2> QED BY <1>1, <2>1
<1>5. ASSUME NEW c \in Client, NEW j \in Id,
             Load(c, j) \/ \E v \in Value : Edit(c, j, v)
      PROVE  Goal
  <2>1. UNCHANGED <<doc, hist>>
    BY <1>5 DEF Load, Edit
  <2> QED BY <1>1, <2>1
<1>6. ASSUME NEW c \in Client, NEW j \in Id, Delete(c, j) PROVE Goal
  <2>1. hist' = hist /\ doc'[i] \in {doc[i], NoDoc}
    BY <1>0, <1>6 DEF Delete, Write, Put, TypeOK
  <2> QED BY <1>1, <2>1
<1>7. ASSUME NEW c \in Client, NEW j \in Id, NEW k \in 1..Len(HistView(c, j)),
             NEW save \in BOOLEAN, Restore(c, j, k, save)
      PROVE  Goal
  <2>1. hist' = hist
    BY <1>7 DEF Restore
  <2>2. CASE doc'[i] = doc[i]
    BY <1>1, <2>1, <2>2
  <2>3. CASE doc'[i] # doc[i]
    <3>1. /\ i = j /\ ~outer[c] /\ epoch[i] < MaxEpoch
          /\ doc'[i] = [rev |-> 1, val |-> HistView(c, i)[k].val,
                        epoch |-> epoch[i] + 1]
          /\ op[c] = Idle /\ "restore" \in Lifecycle
      BY <1>0, <1>7, <2>3 DEF Restore, Put, TypeOK
    <3>2. HistView(c, i) = hist[i] /\ HistView(c, i)[k] \in Doc
      <4>1. phist[c][i] = <<>>
        BY <3>1 DEF IInv, TxScope
      <4> QED BY <1>0, <3>1, <4>1, CommittedFirst, ViewType
    <3>3. doc'[i] # NoDoc
      <4>1. doc'[i] \in Doc
        BY <1>0, <3>1, <3>2, StoreAssumption DEF TypeOK, Doc, Rev, Epoch
      <4> QED BY <4>1, SentinelAssumption
    <3>4. Audit!CopiedFromTrail(i)
      BY <2>1, <3>1, <3>2, <3>3 DEF Audit!CopiedFromTrail
    <3>5. Audit!Extends(i)
      BY <1>0, <2>1 DEF Audit!Extends
    <3> QED BY <3>1, <3>4, <3>5
  <2> QED BY <2>2, <2>3
<1>8. ASSUME UNCHANGED vars PROVE Goal
  <2>1. UNCHANGED <<doc, hist>>
    BY <1>8 DEF vars
  <2> QED BY <1>1, <2>1
<1> HIDE DEF Goal
<1>9. ASSUME Next PROVE Goal
  <2>1. PICK c \in Client :
           \/ SaveHistory(c) \/ SaveEnd(c) \/ SaveFail(c)
           \/ SaveUnacknowledged(c)
           \/ Begin(c) \/ Commit(c) \/ Abort(c) \/ Crash(c)
           \/ \E j \in Id :
                \/ SaveDoc(c, j) \/ Load(c, j) \/ Delete(c, j)
                \/ \E v \in Value : Edit(c, j, v)
                \/ \E k \in 1..Len(HistView(c, j)), save \in BOOLEAN :
                      Restore(c, j, k, save)
    BY <1>9 DEF Next
  <2>2. ASSUME \/ SaveEnd(c) \/ SaveFail(c) \/ SaveUnacknowledged(c)
               \/ Begin(c) \/ Commit(c) \/ Abort(c) \/ Crash(c)
        PROVE  Goal
    BY <1>2, <2>2
  <2>3. ASSUME NEW j \in Id,
               \/ SaveDoc(c, j) \/ Load(c, j) \/ Delete(c, j)
               \/ \E v \in Value : Edit(c, j, v)
               \/ \E k \in 1..Len(HistView(c, j)), save \in BOOLEAN :
                     Restore(c, j, k, save)
        PROVE  Goal
    BY <1>4, <1>5, <1>6, <1>7, <2>3
  <2> QED BY <1>3, <2>1, <2>2, <2>3
<1>10. Goal
  BY <1>8, <1>9
<1> QED BY <1>10 DEF Goal

\* Initially nothing is uncommitted.
LEMMA InitTrail == Init => TrailInv
  <1> SUFFICES ASSUME Init, NEW c \in Client, NEW i \in Id PROVE TrailOf(c, i)
    BY DEF TrailInv
  <1>1. op[c] = Idle /\ pend[c][i] = Clean
    BY DEF Init
  <1> QED BY <1>1 DEF TrailOf, Awaiting

\* A document and its audit trail change together: the transaction around the
\* two writes implements the abstract store, with restored and deleted
\* documents, and with enclosing blocks that throw the RC of a failed save().
THEOREM StoreIsAudited == Traced => (Spec => ImplementsAuditedStore)
  <1> SUFFICES ASSUME Traced PROVE Spec => ImplementsAuditedStore
    OBVIOUS
  <1>1. IInv /\ TrailInv /\ [Next]_vars => TrailInv'
    BY NextTrail
  <1>2. Init => Audit!AInit
    BY DEF Init, Audit!AInit
  <1>3. IInv /\ TrailInv /\ [Next]_vars => [Audit!ANext]_(Audit!avars)
    <2> SUFFICES ASSUME IInv, TrailInv, [Next]_vars PROVE Audit!ANext
      OBVIOUS
    <2> QED BY StepAudited DEF Audit!ANext
  <1> QED BY <1>1, <1>2, <1>3, InitTrail, Invariance, PTL
          DEF Spec, ImplementsAuditedStore, Audit!ASpec

\* latest_revision() without a timestamp is the current document, unless
\* something was restored: a restored document has no entry of its own.
THEOREM LatestIsCurrent ==
    Traced /\ "restore" \notin Lifecycle => (Spec => []LatestRevisionIsCurrent)
  <1> SUFFICES ASSUME Traced, "restore" \notin Lifecycle
               PROVE  Spec => []LatestRevisionIsCurrent
    OBVIOUS
  <1>1. IInv /\ TrailInv /\ [Next]_vars => TrailInv'
    BY NextTrail
  <1>2. Init => LatestRevisionIsCurrent
    BY DEF Init, LatestRevisionIsCurrent
  <1>3. IInv /\ TrailInv /\ LatestRevisionIsCurrent /\ [Next]_vars
           => LatestRevisionIsCurrent'
    <2> SUFFICES ASSUME IInv, TrailInv, LatestRevisionIsCurrent, [Next]_vars,
                        NEW i \in Id, doc'[i] # NoDoc
                 PROVE  hist'[i] # <<>> /\ hist'[i][Len(hist'[i])] = doc'[i]
      BY DEF LatestRevisionIsCurrent
    <2>1. CASE doc'[i] = doc[i] /\ hist'[i] = hist[i]
      BY <2>1 DEF LatestRevisionIsCurrent
    <2>2. CASE Audit!Audited(i)
      <3>1. Len(hist[i]) \in Nat
        BY DEF IInv, TypeOK
      <3>2. hist'[i] # <<>>
        BY <2>2, <3>1 DEF Audit!Audited
      <3> QED BY <2>2, <3>2 DEF Audit!Audited
    <2> QED BY <2>1, <2>2, StepAudited
  <1> QED BY <1>1, <1>2, <1>3, InitTrail, Invariance, PTL DEF Spec

(***************************************************************************)
(* Clients that only save                                                  *)
(***************************************************************************)

\* Nobody opens enclosing blocks, deletes or restores.
SaveOnly == Outer = "none" /\ Lifecycle = {}

\* An instance with a revision stands for this incarnation of its document,
\* and so does a save() in progress; neither is ahead of what it reads.
CurrentOf(c, i) ==
    /\ ~outer[c]
    /\ pend[c][i] # NoDoc
    /\ pend[c][i] # Clean /\ doc[i] # NoDoc => pend[c][i].epoch = doc[i].epoch
    /\ obj[c][i].rev > 0 => /\ doc[i] # NoDoc
                            /\ obj[c][i].epoch = doc[i].epoch
                            /\ obj[c][i].rev <= doc[i].rev
    /\ op[c] # Idle /\ op[c].id = i => /\ View(c, i) # NoDoc
                                       /\ op[c].saved.epoch = View(c, i).epoch
                                       /\ op[c].saved.rev <= View(c, i).rev

CurrentInv == \A c \in Client, i \in Id : CurrentOf(c, i)

\* A document stays, in one incarnation, and its revision never goes back.
Grows(i) == doc[i] # NoDoc => /\ doc'[i] # NoDoc
                              /\ doc'[i].epoch = doc[i].epoch
                              /\ doc[i].rev <= doc'[i].rev

\* Documents are there to be read as long as nothing of them is pending.
LEMMA IdleView ==
    ASSUME IInv, CurrentInv, NEW c \in Client, NEW i \in Id, op[c] = Idle
    PROVE  pend[c][i] = Clean /\ View(c, i) = doc[i]
BY DEF IInv, TxScope, CurrentInv, CurrentOf, View

\* A COMMIT lets documents grow.
LEMMA CommitGrows ==
    ASSUME IInv, CurrentInv, NEW c \in Client, CommitTx(c), NEW i \in Id
    PROVE  Grows(i)
<1> SUFFICES ASSUME doc[i] # NoDoc PROVE Grows(i)
  BY DEF Grows
<1>1. doc'[i] = View(c, i) /\ doc[i] \in Doc /\ doc[i].rev \in Int
  BY DEF CommitTx, IInv, TypeOK, Doc, Rev
<1>2. CASE pend[c][i] = Clean
  BY <1>1, <1>2 DEF View, Grows
<1>3. CASE pend[c][i] # Clean
  <2>1. doc'[i] = pend[c][i] /\ pend[c][i] # NoDoc
    BY <1>1, <1>3 DEF View, CurrentInv, CurrentOf
  <2>2. pend[c][i].epoch = doc[i].epoch
    BY <1>3 DEF CurrentInv, CurrentOf
  <2>3. doc[i] \in Versions(i)
    BY <1>1, SentinelAssumption DEF Versions, StoreVersions
  <2> QED BY <1>3, <2>1, <2>2, <2>3 DEF IInv, PendNewest, Grows
<1> QED BY <1>2, <1>3

\* What another client does to i leaves b current, if documents grow and b's
\* locks hold.
LEMMA OthersCurrent ==
    ASSUME IInv, TypeOK', CurrentInv, NEW b \in Client, NEW i \in Id,
           outer'[b] = outer[b], pend'[b][i] = pend[b][i], obj'[b] = obj[b],
           op'[b] = op[b], Grows(i), pend[b][i] # Clean => doc'[i] = doc[i]
    PROVE  CurrentOf(b, i)'
<1>0. CurrentOf(b, i)
  BY DEF CurrentInv
<1>1. \A d \in Doc : d.rev \in Int
  BY DEF Doc, Rev
<1>2. /\ obj[b][i].rev \in Int
      /\ doc[i] # NoDoc => doc[i].rev \in Int
      /\ doc'[i] # NoDoc => doc'[i].rev \in Int
  <2>1. obj[b][i] \in Obj /\ doc[i] \in Doc \cup {NoDoc} /\ doc'[i] \in Doc \cup {NoDoc}
    BY DEF IInv, TypeOK
  <2> QED BY <1>1, <2>1, StoreAssumption DEF Obj
<1>3. ASSUME obj'[b][i].rev > 0
      PROVE  /\ doc'[i] # NoDoc
             /\ obj'[b][i].epoch = doc'[i].epoch
             /\ obj'[b][i].rev <= doc'[i].rev
  <2>1. /\ doc[i] # NoDoc
        /\ obj[b][i].epoch = doc[i].epoch
        /\ obj[b][i].rev <= doc[i].rev
    BY <1>0, <1>3 DEF CurrentOf
  <2> QED BY <1>1, <1>2, <2>1 DEF Grows
<1>4. ASSUME op'[b] # Idle, op'[b].id = i
      PROVE  /\ View(b, i)' # NoDoc
             /\ op'[b].saved.epoch = View(b, i)'.epoch
             /\ op'[b].saved.rev <= View(b, i)'.rev
  <2>1. /\ View(b, i) # NoDoc
        /\ op[b].saved.epoch = View(b, i).epoch
        /\ op[b].saved.rev <= View(b, i).rev
    BY <1>0, <1>4 DEF CurrentOf
  <2>2. CASE pend[b][i] # Clean
    BY <1>4, <2>1, <2>2 DEF View
  <2>3. CASE pend[b][i] = Clean
    <3>1. View(b, i) = doc[i] /\ View(b, i)' = doc'[i]
      BY <2>3 DEF View
    <3>2. op[b].saved.rev \in Int
      BY <1>4, SaveOpType DEF IInv, Doc, Rev
    <3> QED BY <1>1, <1>2, <1>4, <2>1, <3>1, <3>2 DEF Grows
  <2> QED BY <2>2, <2>3
<1> QED BY <1>0, <1>3, <1>4 DEF CurrentOf, Grows

\* The document write of save() finds the document as the client reads it,
\* and lets it grow.
LEMMA SaveDocCurrent ==
    ASSUME IInv, TypeOK', CurrentInv, NEW c \in Client, NEW j \in Id,
           SaveDoc(c, j)
    PROVE  CurrentInv'
<1>0. TypeOK
  BY DEF IInv
<1>1. PICK d \in CollectionSave(obj[c][j], View(c, j), epoch[j]) :
         /\ d \in Doc
         /\ Write(c, j, d, SaveInTx(c))
         /\ op' = [op EXCEPT ![c] = [id |-> j, saved |-> d,
                                     hist |-> NewRevision(c, j, d)]]
  BY DEF SaveDoc
<1>2. /\ op'[c].id = j /\ op'[c].saved = d
      /\ \A b \in Client \ {c} : op'[b] = op[b]
      /\ UNCHANGED <<obj, outer>>
  BY <1>0, <1>1 DEF SaveDoc, TypeOK
<1>3. pend[c][j] = Clean /\ View(c, j) = doc[j]
  BY IdleView DEF SaveDoc
<1>4. doc[j] # NoDoc => d.epoch = doc[j].epoch /\ doc[j].rev <= d.rev
  <2>1. ASSUME doc[j] # NoDoc
        PROVE  d.epoch = doc[j].epoch /\ doc[j].rev <= d.rev
    <3>1. PICK w \in Doc : w = doc[j]
      BY <1>0, <2>1 DEF TypeOK
    <3>2. d = [w EXCEPT !.val = obj[c][j].val,
                        !.rev = IF w.val = obj[c][j].val THEN @ ELSE @ + 1]
      BY <1>1, <1>3, <2>1, <3>1 DEF CollectionSave, SaveNew, Update
    <3>3. w.rev \in Int
      BY DEF Doc, Rev
    <3>4. d.epoch = w.epoch
      BY <3>2 DEF Doc
    <3>5. CASE w.val = obj[c][j].val
      BY <3>1, <3>2, <3>3, <3>4, <3>5 DEF Doc
    <3>6. CASE w.val # obj[c][j].val
      <4>1. d.rev = w.rev + 1
        BY <3>2, <3>6 DEF Doc
      <4> QED BY <3>1, <3>3, <3>4, <4>1
    <3> QED BY <3>5, <3>6
  <2> QED BY <2>1
<1>5. /\ \A i \in Id \ {j} : /\ doc'[i] = doc[i]
                             /\ \A b \in Client : pend'[b][i] = pend[b][i]
      /\ \A b \in Client \ {c} : pend'[b][j] = pend[b][j]
      /\ doc'[j] \in {doc[j], d} /\ pend'[c][j] \in {Clean, d}
      /\ View(c, j)' = d
      /\ \A b \in Client \ {c} : pend[b][j] # Clean => doc'[j] = doc[j]
  <2>1. d # Clean
    BY <1>1, SentinelAssumption
  <2>2. CASE d = View(c, j)
    <3>1. UNCHANGED <<doc, pend>>
      BY <1>1, <2>2 DEF Write
    <3> QED BY <1>3, <2>2, <3>1 DEF View
  <2>3. CASE d # View(c, j)
    <3>1. CanWrite(c, j) /\ Put(c, j, d, SaveInTx(c))
      BY <1>1, <2>3 DEF Write
    <3>2. CASE SaveInTx(c)
      <4>1. doc' = doc /\ pend' = [pend EXCEPT ![c] = [pend[c] EXCEPT ![j] = d]]
        BY <3>1, <3>2 DEF Put
      <4>2. /\ pend'[c][j] = d
            /\ \A b \in Client \ {c} : pend'[b] = pend[b]
            /\ \A i \in Id \ {j} : pend'[c][i] = pend[c][i]
        BY <1>0, <4>1 DEF TypeOK
      <4> QED BY <2>1, <4>1, <4>2 DEF View
    <3>3. CASE ~SaveInTx(c)
      <4>1. pend' = pend /\ doc'[j] = d /\ \A i \in Id \ {j} : doc'[i] = doc[i]
        BY <1>0, <3>1, <3>3 DEF Put, TypeOK
      <4> QED BY <1>3, <3>1, <4>1 DEF View, CanWrite
    <3> QED BY <3>2, <3>3
  <2> QED BY <2>2, <2>3
<1>6. d # NoDoc /\ d.rev \in Int
  BY <1>1, SentinelAssumption DEF Doc, Rev
<1>7. ASSUME NEW i \in Id PROVE Grows(i)
  <2>1. doc[i] # NoDoc => doc[i].rev \in Int
    <3>1. doc[i] \in Doc \cup {NoDoc}
      BY <1>0 DEF TypeOK
    <3> QED BY <3>1 DEF Doc, Rev
  <2>2. CASE doc'[i] = doc[i]
    BY <2>1, <2>2 DEF Grows
  <2>3. CASE i = j /\ doc'[i] = d
    BY <1>4, <1>6, <2>3 DEF Grows
  <2> QED BY <1>5, <2>2, <2>3
<1>8. ASSUME NEW b \in Client, b # c, NEW i \in Id PROVE CurrentOf(b, i)'
  <2>1. pend'[b][i] = pend[b][i] /\ (pend[b][i] # Clean => doc'[i] = doc[i])
    BY <1>5, <1>8
  <2> QED BY <1>2, <1>7, <1>8, <2>1, OthersCurrent
<1>9. ASSUME NEW i \in Id, i # j PROVE CurrentOf(c, i)'
  <2>1. doc'[i] = doc[i] /\ pend'[c][i] = pend[c][i] /\ op'[c].id # i
    BY <1>2, <1>5, <1>9
  <2>2. CurrentOf(c, i)
    BY DEF CurrentInv
  <2> QED BY <1>2, <2>1, <2>2 DEF CurrentOf
<1>10. CurrentOf(c, j)'
  <2>1. CurrentOf(c, j)
    BY DEF CurrentInv
  <2>2. pend'[c][j] # NoDoc /\ ~outer'[c]
    BY <1>2, <1>5, <1>6, <2>1, SentinelAssumption DEF CurrentOf
  <2>3. pend'[c][j] # Clean /\ doc'[j] # NoDoc => pend'[c][j].epoch = doc'[j].epoch
    BY <1>4, <1>5
  <2>4. obj'[c][j].rev > 0 => /\ doc'[j] # NoDoc
                              /\ obj'[c][j].epoch = doc'[j].epoch
                              /\ obj'[c][j].rev <= doc'[j].rev
    <3>1. obj[c][j].rev \in Int /\ (doc[j] # NoDoc => doc[j].rev \in Int)
      <4>1. obj[c][j] \in Obj /\ doc[j] \in Doc \cup {NoDoc}
        BY <1>0 DEF TypeOK
      <4> QED BY <4>1, StoreAssumption DEF Obj, Doc, Rev
    <3> QED BY <1>2, <1>4, <1>5, <1>6, <2>1, <3>1 DEF CurrentOf
  <2>5. /\ View(c, j)' # NoDoc
        /\ op'[c].saved.epoch = View(c, j)'.epoch
        /\ op'[c].saved.rev <= View(c, j)'.rev
    BY <1>2, <1>5, <1>6
  <2> QED BY <2>2, <2>3, <2>4, <2>5 DEF CurrentOf
<1> QED BY <1>8, <1>9, <1>10 DEF CurrentInv

\* The end of a transaction leaves the others current.
LEMMA EndTxCurrent ==
    ASSUME IInv, TypeOK', CurrentInv, NEW c \in Client,
           CommitTx(c) \/ DiscardTx(c),
           \A b \in Client \ {c} : /\ outer'[b] = outer[b] /\ obj'[b] = obj[b]
                                   /\ op'[b] = op[b]
    PROVE  /\ \A i \in Id : Grows(i)
           /\ \A b \in Client \ {c}, i \in Id : CurrentOf(b, i)'
<1>1. ASSUME NEW i \in Id PROVE Grows(i)
  <2>1. CASE CommitTx(c)
    BY <2>1, CommitGrows
  <2>2. CASE DiscardTx(c)
    <3>1. doc'[i] = doc[i] /\ (doc[i] # NoDoc => doc[i] \in Doc)
      BY <2>2 DEF DiscardTx, IInv, TypeOK
    <3> QED BY <3>1 DEF Grows, Doc, Rev
  <2> QED BY <2>1, <2>2
<1>2. ASSUME NEW b \in Client, b # c, NEW i \in Id PROVE CurrentOf(b, i)'
  <2>1. pend'[b][i] = pend[b][i]
    BY <1>2, EndTxScope DEF IInv
  <2>2. pend[b][i] # Clean => doc'[i] = doc[i]
    BY <1>2 DEF IInv, RowLock, CommitTx, DiscardTx, View
  <2> QED BY <1>1, <1>2, <2>1, <2>2, OthersCurrent
<1> QED BY <1>1, <1>2

\* Every step keeps the instances current.
LEMMA NextCurrent ==
    IInv /\ TypeOK' /\ SaveOnly /\ CurrentInv /\ [Next]_vars => CurrentInv'
  <1> SUFFICES ASSUME IInv, TypeOK', SaveOnly, CurrentInv, [Next]_vars
               PROVE  CurrentInv'
    OBVIOUS
  <1>0. TypeOK
    BY DEF IInv
  <1>1. ASSUME NEW c \in Client, UNCHANGED <<doc, pend, outer>>,
               \A b \in Client \ {c} : op'[b] = op[b] /\ obj'[b] = obj[b],
               \A i \in Id : CurrentOf(c, i)'
        PROVE  CurrentInv'
    <2>1. \A i \in Id : doc[i] \in Doc \cup {NoDoc}
      BY <1>0 DEF TypeOK
    <2>2. \A i \in Id : Grows(i)
      BY <1>1, <2>1 DEF Grows, Doc, Rev
    <2>3. \A b \in Client \ {c}, i \in Id : CurrentOf(b, i)'
      BY <1>1, <2>2, OthersCurrent
    <2> QED BY <1>1, <2>3 DEF CurrentInv
  <1>2. ASSUME NEW c \in Client, SaveHistory(c) PROVE CurrentInv'
    <2>1. op[c] \in SaveOp /\ op'[c] = [op[c] EXCEPT !.hist = FALSE]
      BY <1>0, <1>2, SaveOpType DEF SaveHistory, TypeOK
    <2>2. op'[c].id = op[c].id /\ op'[c].saved = op[c].saved /\ op[c] # Idle
      BY <1>2, <2>1 DEF SaveOp, SaveHistory
    <2>3. UNCHANGED <<doc, pend, outer, obj>>
      BY <1>2 DEF SaveHistory
    <2>4. ASSUME NEW i \in Id PROVE CurrentOf(c, i)'
      <3>1. CurrentOf(c, i)
        BY DEF CurrentInv
      <3> QED BY <2>2, <2>3, <3>1 DEF CurrentOf, View
    <2>5. \A b \in Client \ {c} : op'[b] = op[b] /\ obj'[b] = obj[b]
      BY <1>0, <1>2 DEF SaveHistory, TypeOK
    <2> QED BY <1>1, <2>3, <2>4, <2>5
  <1>3. ASSUME NEW c \in Client, CommitTx(c) \/ DiscardTx(c), op'[c] = Idle,
               outer'[c] = FALSE,
               \A b \in Client \ {c} : /\ outer'[b] = outer[b]
                                       /\ obj'[b] = obj[b] /\ op'[b] = op[b],
               \A i \in Id : obj'[c][i].rev > 0 =>
                                /\ doc'[i] # NoDoc
                                /\ obj'[c][i].epoch = doc'[i].epoch
                                /\ obj'[c][i].rev <= doc'[i].rev
        PROVE  CurrentInv'
    <2>1. \A b \in Client \ {c}, i \in Id : CurrentOf(b, i)'
      BY <1>3, EndTxCurrent
    <2>2. ASSUME NEW i \in Id PROVE CurrentOf(c, i)'
      <3>1. pend'[c][i] = Clean
        BY <1>0, <1>3, EndTxScope
      <3> QED BY <1>3, <3>1, SentinelAssumption DEF CurrentOf
    <2> QED BY <2>1, <2>2 DEF CurrentInv
  <1>4. ASSUME NEW c \in Client, NEW i \in Id, obj'[c][i].rev > 0,
               obj'[c][i] = obj[c][i], Grows(i)
        PROVE  /\ doc'[i] # NoDoc
               /\ obj'[c][i].epoch = doc'[i].epoch
               /\ obj'[c][i].rev <= doc'[i].rev
    <2>1. /\ doc[i] # NoDoc
          /\ obj[c][i].epoch = doc[i].epoch
          /\ obj[c][i].rev <= doc[i].rev
      BY <1>4 DEF CurrentInv, CurrentOf
    <2>2. obj[c][i] \in Obj /\ doc[i] \in Doc \cup {NoDoc} /\ doc'[i] \in Doc \cup {NoDoc}
      BY <1>0 DEF TypeOK
    <2>3. obj[c][i].rev \in Int /\ doc[i].rev \in Int /\ (doc'[i] # NoDoc => doc'[i].rev \in Int)
      BY <2>1, <2>2, StoreAssumption DEF Obj, Doc, Rev
    <2> QED BY <1>4, <2>1, <2>3 DEF Grows
  <1>5. ASSUME NEW c \in Client, SaveEnd(c) PROVE CurrentInv'
    <2>1. ~outer[c]
      <3>1. op[c].id \in Id
        BY <1>5, SaveOpType, <1>0 DEF SaveEnd
      <3> QED BY <3>1 DEF CurrentInv, CurrentOf
    <2>2. /\ CommitTx(c) /\ op' = [op EXCEPT ![c] = Idle] /\ outer' = outer
          /\ obj' = [obj EXCEPT ![c][op[c].id] = Synced(op[c].saved)]
      BY <1>5, <2>1 DEF SaveEnd
    <2>3. PICK j \in Id, s \in Doc : op[c].id = j /\ op[c].saved = s
      BY <1>0, <1>5, SaveOpType DEF SaveEnd
    <2>4. /\ op'[c] = Idle /\ outer'[c] = FALSE
          /\ \A b \in Client \ {c} : /\ outer'[b] = outer[b]
                                     /\ obj'[b] = obj[b] /\ op'[b] = op[b]
          /\ obj'[c][j] = Synced(s) /\ \A i \in Id \ {j} : obj'[c][i] = obj[c][i]
      BY <1>0, <2>1, <2>2, <2>3 DEF TypeOK
    <2>5. ASSUME NEW i \in Id, obj'[c][i].rev > 0
          PROVE  /\ doc'[i] # NoDoc
                 /\ obj'[c][i].epoch = doc'[i].epoch
                 /\ obj'[c][i].rev <= doc'[i].rev
      <3>1. CASE i = j
        <4>1. doc'[i] = View(c, i)
          BY <2>2 DEF CommitTx
        <4>2. obj'[c][i].rev = s.rev /\ obj'[c][i].epoch = s.epoch
          BY <2>4, <3>1 DEF Synced
        <4>3. op[c] # Idle
          BY <1>5 DEF SaveEnd
        <4> QED BY <2>3, <3>1, <4>1, <4>2, <4>3 DEF CurrentInv, CurrentOf
      <3>2. CASE i # j
        <4>1. Grows(i)
          BY <2>2, CommitGrows
        <4> QED BY <1>4, <2>4, <2>5, <3>2, <4>1
      <3> QED BY <3>1, <3>2
    <2> QED BY <1>3, <2>2, <2>4, <2>5
  <1>6. ASSUME NEW c \in Client, SaveUnacknowledged(c) PROVE CurrentInv'
    <2>1. /\ CommitTx(c) /\ op'[c] = Idle /\ outer'[c] = FALSE
          /\ UNCHANGED <<obj, outer>>
          /\ \A b \in Client \ {c} : op'[b] = op[b]
      BY <1>0, <1>6 DEF SaveUnacknowledged, TypeOK
    <2>2. \A i \in Id : Grows(i)
      BY <2>1, CommitGrows
    <2> QED BY <1>3, <1>4, <2>1, <2>2
  <1>7. ASSUME NEW c \in Client, SaveFail(c) PROVE CurrentInv'
    <2>1. ~outer[c]
      <3>1. op[c].id \in Id
        BY <1>7, SaveOpType, <1>0 DEF SaveFail
      <3> QED BY <3>1 DEF CurrentInv, CurrentOf
    <2>2. /\ DiscardTx(c) /\ op' = [op EXCEPT ![c] = Idle]
          /\ outer' = [outer EXCEPT ![c] = FALSE]
          /\ obj' = [obj EXCEPT ![c] = ObjAfterRollback(c)]
      BY <1>7, <2>1 DEF SaveFail
    <2>3. /\ op'[c] = Idle /\ outer'[c] = FALSE
          /\ \A b \in Client \ {c} : /\ outer'[b] = outer[b]
                                     /\ obj'[b] = obj[b] /\ op'[b] = op[b]
          /\ obj'[c] = ObjAfterRollback(c)
      BY <1>0, <2>2 DEF TypeOK
    <2>4. ASSUME NEW i \in Id PROVE obj'[c][i] = obj[c][i] /\ Grows(i)
      <3>1. Grows(i)
        BY <2>2, <2>3, EndTxCurrent
      <3>2. ~Unbacked(c, i)
        <4>1. obj[c][i] \in Obj /\ doc[i] \in Doc \cup {NoDoc}
          BY <1>0 DEF TypeOK
        <4>2. obj[c][i].rev \in Nat /\ (doc[i] # NoDoc => doc[i].rev \in Nat)
          BY <4>1, StoreAssumption DEF Obj, Doc, Rev
        <4>3. CurrentOf(c, i)
          BY DEF CurrentInv
        <4> QED BY <4>2, <4>3 DEF CurrentOf, Unbacked
      <3> QED BY <2>3, <3>1, <3>2 DEF ObjAfterRollback
    <2> QED BY <1>3, <1>4, <2>2, <2>3, <2>4
  <1>8. ASSUME NEW c \in Client, Crash(c) PROVE CurrentInv'
    <2>1. /\ op'[c] = Idle /\ outer'[c] = FALSE
          /\ \A b \in Client \ {c} : /\ outer'[b] = outer[b]
                                     /\ obj'[b] = obj[b] /\ op'[b] = op[b]
          /\ obj'[c] = [i \in Id |-> Fresh(obj[c][i].val)]
          /\ DiscardTx(c)
      BY <1>0, <1>8 DEF Crash, TypeOK
    <2>2. \A i \in Id : ~(obj'[c][i].rev > 0)
      BY <2>1 DEF Fresh
    <2> QED BY <1>3, <2>1, <2>2
  <1>9. ASSUME NEW c \in Client, NEW j \in Id, Load(c, j) PROVE CurrentInv'
    <2>1. PICK d \in Doc : d = View(c, j)
      BY <1>0, <1>9, ViewType DEF Load
    <2>2. d = doc[j]
      BY <1>9, <2>1, IdleView DEF Load
    <2>3. obj' = [obj EXCEPT ![c] = [obj[c] EXCEPT ![j] = Synced(d)]]
      BY <1>9, <2>1 DEF Load
    <2>4. /\ obj'[c][j] = Synced(d)
          /\ \A i \in Id \ {j} : obj'[c][i] = obj[c][i]
          /\ \A b \in Client \ {c} : obj'[b] = obj[b]
      BY <1>0, <2>3 DEF TypeOK
    <2>5. UNCHANGED <<doc, pend, outer, op>> /\ op[c] = Idle
      BY <1>9 DEF Load
    <2>6. ASSUME NEW i \in Id PROVE CurrentOf(c, i)'
      <3>1. CurrentOf(c, i)
        BY DEF CurrentInv
      <3>2. CASE i # j
        BY <2>4, <2>5, <3>1, <3>2 DEF CurrentOf
      <3>3. CASE i = j
        <4>1. /\ obj'[c][i].rev = doc[i].rev /\ obj'[c][i].epoch = doc[i].epoch
              /\ doc[i] # NoDoc /\ doc[i].rev \in Int
          BY <2>2, <2>4, <3>3, SentinelAssumption DEF Synced, Doc, Rev
        <4> QED BY <2>5, <3>1, <4>1 DEF CurrentOf
      <3> QED BY <3>2, <3>3
    <2> QED BY <1>1, <2>4, <2>5, <2>6
  <1>10. ASSUME NEW c \in Client, NEW j \in Id, NEW v \in Value, Edit(c, j, v)
         PROVE  CurrentInv'
    <2>1. obj' = [obj EXCEPT ![c] = [obj[c] EXCEPT ![j] = [obj[c][j] EXCEPT !.val = v]]]
      BY <1>10 DEF Edit
    <2>2. obj[c][j] \in Obj
      BY <1>0 DEF TypeOK
    <2>3. /\ \A i \in Id : /\ obj'[c][i].rev = obj[c][i].rev
                           /\ obj'[c][i].epoch = obj[c][i].epoch
          /\ \A b \in Client \ {c} : obj'[b] = obj[b]
      BY <1>0, <2>1, <2>2 DEF TypeOK, Obj
    <2>4. UNCHANGED <<doc, pend, outer, op>> /\ op[c] = Idle
      BY <1>10 DEF Edit
    <2>5. ASSUME NEW i \in Id PROVE CurrentOf(c, i)'
      <3>1. CurrentOf(c, i)
        BY DEF CurrentInv
      <3> QED BY <2>3, <2>4, <3>1 DEF CurrentOf
    <2> QED BY <1>1, <2>3, <2>4, <2>5
  <1>11. ASSUME NEW c \in Client, NEW i \in Id,
                \/ Begin(c) \/ Commit(c) \/ Abort(c) \/ Delete(c, i)
                \/ \E k \in 1..Len(HistView(c, i)), save \in BOOLEAN :
                      Restore(c, i, k, save)
         PROVE  FALSE
    <2>1. ~outer[c]
      BY DEF CurrentInv, CurrentOf
    <2> QED BY <1>11, <2>1 DEF Begin, Commit, Abort, Delete, Restore, SaveOnly
  <1>12. CASE UNCHANGED vars
    BY <1>12 DEF vars, CurrentInv, CurrentOf, View
  <1>13. CASE Next
    <2>1. CASE Id = {}
      BY <2>1 DEF CurrentInv
    <2>2. CASE \E i \in Id : TRUE
      BY <1>2, <1>5, <1>6, <1>7, <1>8, <1>9, <1>10, <1>11, <1>13, <2>2,
         SaveDocCurrent DEF Next
    <2> QED BY <2>1, <2>2
  <1> QED BY <1>12, <1>13

\* Whatever a save() replaces, its instance has seen, if the clients only
\* save: then an instance with a revision is always one of this incarnation.
THEOREM NoUpdateEverLost == SaveOnly => (Spec => NoLostUpdateEver)
  <1> SUFFICES ASSUME SaveOnly PROVE Spec => NoLostUpdateEver
    OBVIOUS
  <1>1. Init => CurrentInv
    <2> SUFFICES ASSUME Init, NEW c \in Client, NEW i \in Id PROVE CurrentOf(c, i)
      BY DEF CurrentInv
    <2>1. /\ ~outer[c] /\ op[c] = Idle /\ pend[c][i] = Clean
          /\ obj[c][i] \in {Fresh(v) : v \in Value}
      BY DEF Init
    <2>2. ~(obj[c][i].rev > 0)
      BY <2>1 DEF Fresh
    <2> QED BY <2>1, <2>2, SentinelAssumption DEF CurrentOf
  <1>2. IInv /\ IInv' /\ CurrentInv /\ [Next]_vars => CurrentInv'
    BY NextCurrent DEF IInv
  <1>3. IInv /\ CurrentInv /\ [Next]_vars =>
           [\A c \in Client, i \in Id :
              Replaces(c, i) => View(c, i).val = obj[c][i].base]_vars
    <2> SUFFICES ASSUME IInv, CurrentInv, Next, NEW c \in Client, NEW i \in Id,
                        Replaces(c, i)
                 PROVE  View(c, i).val = obj[c][i].base
      OBVIOUS
    <2>1. SaveDoc(c, i)
      BY ReplacesBySave DEF IInv
    <2>2. View(c, i) = doc[i] /\ doc[i] # NoDoc
      BY <2>1, IdleView DEF SaveDoc, Replaces
    <2>3. obj[c][i].rev = doc[i].rev
      BY <2>1, <2>2 DEF SaveDoc, CollectionSave, SaveNew, Update
    <2>4. doc[i].rev > 0
      BY <2>2 DEF IInv, TypeOK, Doc, Rev
    <2>5. obj[c][i].epoch = View(c, i).epoch
      BY <2>2, <2>3, <2>4 DEF CurrentInv, CurrentOf
    <2> QED BY <2>5, ReplaceSeen
  <1> QED BY <1>1, <1>2, <1>3, Invariance, PTL DEF Spec, NoLostUpdateEver
=============================================================================
