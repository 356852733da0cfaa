--------------------------- MODULE TraitableStore ---------------------------
(***************************************************************************)
(* Saving traitables.  Several client processes, each with its own         *)
(* in-memory instances, share one store.  A document carries a revision    *)
(* (_rev): StorableHelper.save sends the revision the instance was loaded  *)
(* with, the collection writes only if it is still current, and the new    *)
(* revision is put back into the instance.  StorableHelperWithHistory      *)
(* also writes every new revision to a companion history collection,       *)
(* inside one transaction when XX_USE_TS_STORE_TRANSACTIONS is set.  Any   *)
(* client may hold an enclosing `with store.transaction()` block open.     *)
(*                                                                         *)
(* The database is external: a transaction's writes are private until its  *)
(* COMMIT and lock the rows they touch; a blocked statement is evaluated   *)
(* on the row as it is when the lock is released.                          *)
(***************************************************************************)
EXTENDS Integers, Sequences

CONSTANTS
    Client,       \* client processes
    Id,           \* identities of the traitables
    Value,        \* contents (all the traits that are not ID traits)
    NoDoc,        \* there is no such document
    Clean,        \* the open transaction has not written the document
    Idle,         \* the client is not inside save()
    KeepHistory,  \* the class has a history class
    UseTx,        \* EnvVars.use_ts_store_transactions
    Immutable,    \* s_immutable: save always inserts
    Outer,        \* enclosing transaction blocks: "none", "throw", "ignore"
    Lifecycle,    \* which of "delete", "restore" the clients call
    MaxRev,       \* bound on revisions
    MaxEpoch      \* bound on the incarnations of one identity

ASSUME StoreAssumption ==
    /\ KeepHistory \in BOOLEAN /\ UseTx \in BOOLEAN /\ Immutable \in BOOLEAN
    /\ Outer \in {"none", "throw", "ignore"}
    /\ Lifecycle \subseteq {"delete", "restore"}
    /\ MaxRev \in Nat \ {0} /\ MaxEpoch \in Nat \ {0}

Rev   == 1..MaxRev
Epoch == 1..MaxEpoch

\* A document.  epoch is a ghost: which incarnation of the identity this is;
\* an insert starts a new one, an update stays in it.
Doc == [rev : Rev, val : Value, epoch : Epoch]

ASSUME SentinelAssumption ==
    NoDoc \notin Doc /\ Clean \notin Doc /\ NoDoc # Clean

\* An in-memory instance.  epoch and base are ghosts: the incarnation and the
\* content the revision rev stands for (epoch 0: no committed revision).
Obj == [val : Value, rev : 0..MaxRev, epoch : 0..MaxEpoch, base : Value]

\* A save() between its document write and set_revision.
SaveOp == [id : Id, saved : Doc, hist : BOOLEAN]

ASSUME IdleAssumption == Idle \notin SaveOp

VARIABLES
    doc,     \* the committed documents
    hist,    \* the committed history of each document, in order of _at
    epoch,   \* ghost: incarnations of each identity so far
    obj,     \* the instances of each client
    op,      \* the save() each client is executing
    outer,   \* the client is inside `with store.transaction()`
    pend,    \* documents written by the client's open transaction
    phist    \* history entries written by the client's open transaction

vars == <<doc, hist, epoch, obj, op, outer, pend, phist>>

Fresh(v) == [val |-> v, rev |-> 0, epoch |-> 0, base |-> v]

Init == /\ doc = [i \in Id |-> NoDoc]
        /\ hist = [i \in Id |-> <<>>]
        /\ epoch = [i \in Id |-> 0]
        /\ obj \in [Client -> [Id -> {Fresh(v) : v \in Value}]]
        /\ op = [c \in Client |-> Idle]
        /\ outer = [c \in Client |-> FALSE]
        /\ pend = [c \in Client |-> [i \in Id |-> Clean]]
        /\ phist = [c \in Client |-> [i \in Id |-> <<>>]]

(***************************************************************************)
(* The store as one client sees it.                                        *)
(***************************************************************************)
View(c, i) == IF pend[c][i] = Clean THEN doc[i] ELSE pend[c][i]

HistView(c, i) == hist[i] \o phist[c][i]

\* No other open transaction holds the row lock of i.
CanWrite(c, i) == \A d \in Client \ {c} : pend[d][i] = Clean

Put(c, i, d, inTx) ==
    IF inTx
    THEN /\ pend' = [pend EXCEPT ![c][i] = d]
         /\ doc' = doc
    ELSE /\ doc' = [doc EXCEPT ![i] = d]
         /\ pend' = pend

\* A statement that would leave the document as it is writes and locks nothing.
Write(c, i, d, inTx) ==
    IF d = View(c, i) THEN UNCHANGED <<doc, pend>>
                      ELSE CanWrite(c, i) /\ Put(c, i, d, inTx)

\* Faulty variants of CommitTx: documents the transaction did not write are
\* overwritten, too; the history entries are left out.
CommitTxBlind(c) ==
    /\ doc' = pend[c]
    /\ hist' = [i \in Id |-> HistView(c, i)]
    /\ pend' = [pend EXCEPT ![c] = [i \in Id |-> Clean]]
    /\ phist' = [phist EXCEPT ![c] = [i \in Id |-> <<>>]]

CommitTxDocOnly(c) ==
    /\ doc' = [i \in Id |-> View(c, i)]
    /\ pend' = [pend EXCEPT ![c] = [i \in Id |-> Clean]]
    /\ phist' = [phist EXCEPT ![c] = [i \in Id |-> <<>>]]
    /\ hist' = hist

CommitTx(c) ==
    /\ doc' = [i \in Id |-> View(c, i)]
    /\ hist' = [i \in Id |-> HistView(c, i)]
    /\ pend' = [pend EXCEPT ![c] = [i \in Id |-> Clean]]
    /\ phist' = [phist EXCEPT ![c] = [i \in Id |-> <<>>]]

DiscardTx(c) ==
    /\ pend' = [pend EXCEPT ![c] = [i \in Id |-> Clean]]
    /\ phist' = [phist EXCEPT ![c] = [i \in Id |-> <<>>]]
    /\ UNCHANGED <<doc, hist>>

\* After a rollback the instance keeps the revision it was given inside the
\* transaction.  Only the ghost records that nothing committed backs it.
Unbacked(c, i) == /\ doc[i] # NoDoc
                  /\ obj[c][i].epoch = doc[i].epoch
                  /\ obj[c][i].rev > doc[i].rev

ObjAfterRollback(c) ==
    [i \in Id |-> IF Unbacked(c, i) THEN [obj[c][i] EXCEPT !.epoch = 0]
                                    ELSE obj[c][i]]

(***************************************************************************)
(* The collection: the documents that a write of o can leave behind, given *)
(* the current one; no result means that the statement raises.             *)
(***************************************************************************)
SaveNew(o, cur, e) ==
    IF cur = NoDoc THEN {[rev |-> 1, val |-> o.val, epoch |-> e + 1]} ELSE {}

\* Faulty variants of Update: the revision is not a condition of the write,
\* the write is an upsert of the caller's revision, the write does not count.
UpdateUnchecked(o, cur) ==
    IF cur # NoDoc
    THEN {[cur EXCEPT !.val = o.val,
                      !.rev = IF cur.val = o.val THEN @ ELSE @ + 1]}
    ELSE {}

UpdateUpsert(o, cur) ==
    IF cur # NoDoc THEN {[cur EXCEPT !.val = o.val, !.rev = o.rev + 1]} ELSE {}

UpdateUncounted(o, cur) ==
    IF cur # NoDoc /\ cur.rev = o.rev THEN {[cur EXCEPT !.val = o.val]} ELSE {}

Update(o, cur) ==
    IF cur # NoDoc /\ cur.rev = o.rev
    THEN {[cur EXCEPT !.val = o.val,
                      !.rev = IF cur.val = o.val THEN @ ELSE @ + 1]}
    ELSE {}

CollectionSave(o, cur, e) ==
    IF Immutable \/ o.rev = 0 THEN SaveNew(o, cur, e) ELSE Update(o, cur)

(***************************************************************************)
(* save(): the document, the history entry, then commit and set_revision.  *)
(***************************************************************************)
\* A faulty OwnTx: the switch is read the wrong way round.
OwnTxInverted == KeepHistory /\ ~UseTx

OwnTx == KeepHistory /\ UseTx

SaveInTx(c) == outer[c] \/ OwnTx

\* A faulty NewRevision: a save that changed nothing is one, too.
NewRevisionAlways(c, i, d) == KeepHistory

\* The save that left d behind has to be entered in the history.
NewRevision(c, i, d) == KeepHistory /\ d.rev > obj[c][i].rev

SaveDoc(c, i) ==
    /\ op[c] = Idle
    /\ \E d \in CollectionSave(obj[c][i], View(c, i), epoch[i]) :
         /\ d \in Doc                                  \* MaxRev, MaxEpoch
         /\ Write(c, i, d, SaveInTx(c))
         /\ epoch' = [epoch EXCEPT ![i] = IF d.epoch > @ THEN d.epoch ELSE @]
         /\ op' = [op EXCEPT ![c] =
                     [id |-> i, saved |-> d, hist |-> NewRevision(c, i, d)]]
    /\ UNCHANGED <<hist, obj, outer, phist>>

SaveHistory(c) ==
    /\ op[c] # Idle
    /\ op[c].hist
    /\ IF SaveInTx(c)
       THEN /\ phist' = [phist EXCEPT ![c][op[c].id] = Append(@, op[c].saved)]
            /\ hist' = hist
       ELSE /\ hist' = [hist EXCEPT ![op[c].id] = Append(@, op[c].saved)]
            /\ phist' = phist
    /\ op' = [op EXCEPT ![c].hist = FALSE]
    /\ UNCHANGED <<doc, epoch, obj, outer, pend>>

Synced(d) == [val |-> d.val, rev |-> d.rev, epoch |-> d.epoch, base |-> d.val]

SaveEnd(c) ==
    /\ op[c] # Idle
    /\ ~op[c].hist
    /\ obj' = [obj EXCEPT ![c][op[c].id] = Synced(op[c].saved)]
    /\ op' = [op EXCEPT ![c] = Idle]
    /\ IF outer[c] THEN UNCHANGED <<doc, hist, pend, phist>> ELSE CommitTx(c)
    /\ UNCHANGED <<epoch, outer>>

\* A statement of save() raises: save() returns RC(False).  Its own
\* transaction is rolled back, but a nested one leaves that to the enclosing
\* block, which aborts only if the caller throws the RC.
SaveFail(c) ==
    /\ op[c] # Idle
    /\ op' = [op EXCEPT ![c] = Idle]
    /\ IF outer[c] /\ Outer = "ignore"
       THEN UNCHANGED <<doc, hist, obj, outer, pend, phist>>
       ELSE /\ DiscardTx(c)
            /\ outer' = [outer EXCEPT ![c] = FALSE]
            /\ obj' = [obj EXCEPT ![c] = ObjAfterRollback(c)]
    /\ UNCHANGED epoch

\* COMMIT takes effect but its acknowledgement is lost: the writes are there,
\* set_revision is not reached.
SaveUnacknowledged(c) ==
    /\ op[c] # Idle
    /\ ~op[c].hist
    /\ ~outer[c]
    /\ CommitTx(c)
    /\ op' = [op EXCEPT ![c] = Idle]
    /\ UNCHANGED <<epoch, obj, outer>>

(***************************************************************************)
(* The other operations of a client.                                       *)
(***************************************************************************)
Edit(c, i, v) ==
    /\ op[c] = Idle
    /\ obj[c][i].val # v
    /\ obj' = [obj EXCEPT ![c][i].val = v]
    /\ UNCHANGED <<doc, hist, epoch, op, outer, pend, phist>>

Load(c, i) ==
    /\ op[c] = Idle
    /\ View(c, i) # NoDoc
    /\ obj' = [obj EXCEPT ![c][i] = Synced(View(c, i))]
    /\ UNCHANGED <<doc, hist, epoch, op, outer, pend, phist>>

\* No revision is checked: whatever is there is removed.  (If there is nothing,
\* MongoDB acknowledges; the SQL stores report a failure, which is a stutter.)
Delete(c, i) ==
    /\ "delete" \in Lifecycle
    /\ op[c] = Idle
    /\ Write(c, i, NoDoc, outer[c])
    /\ obj' = [obj EXCEPT ![c][i] = Fresh(@.val)]
    /\ UNCHANGED <<hist, epoch, op, outer, phist>>

\* restore(timestamp, save): the newest entry at or before the timestamp is
\* put into the instance; save=True also overwrites the document with it.
Restore(c, i, k, save) ==
    /\ "restore" \in Lifecycle
    /\ op[c] = Idle
    /\ obj' = [obj EXCEPT ![c][i] = Synced(HistView(c, i)[k])]
    /\ IF save
       THEN /\ CanWrite(c, i)
            /\ epoch[i] < MaxEpoch
            /\ Put(c, i, [rev |-> 1, val |-> HistView(c, i)[k].val,
                          epoch |-> epoch[i] + 1], outer[c])
            /\ epoch' = [epoch EXCEPT ![i] = @ + 1]
       ELSE UNCHANGED <<doc, pend, epoch>>
    /\ UNCHANGED <<hist, op, outer, phist>>

Begin(c) ==
    /\ Outer # "none"
    /\ op[c] = Idle
    /\ ~outer[c]
    /\ outer' = [outer EXCEPT ![c] = TRUE]
    /\ UNCHANGED <<doc, hist, epoch, obj, op, pend, phist>>

Commit(c) ==
    /\ outer[c]
    /\ op[c] = Idle
    /\ CommitTx(c)
    /\ outer' = [outer EXCEPT ![c] = FALSE]
    /\ UNCHANGED <<epoch, obj, op>>

Abort(c) ==
    /\ outer[c]
    /\ op[c] = Idle
    /\ DiscardTx(c)
    /\ outer' = [outer EXCEPT ![c] = FALSE]
    /\ obj' = [obj EXCEPT ![c] = ObjAfterRollback(c)]
    /\ UNCHANGED <<epoch, op>>

\* The process dies: the database rolls its transaction back, a new process
\* starts with instances it has not loaded.
Crash(c) ==
    /\ DiscardTx(c)
    /\ outer' = [outer EXCEPT ![c] = FALSE]
    /\ op' = [op EXCEPT ![c] = Idle]
    /\ obj' = [obj EXCEPT ![c] = [i \in Id |-> Fresh(@[i].val)]]
    /\ UNCHANGED epoch

Next ==
    \E c \in Client :
       \/ SaveHistory(c) \/ SaveEnd(c) \/ SaveFail(c) \/ SaveUnacknowledged(c)
       \/ Begin(c) \/ Commit(c) \/ Abort(c) \/ Crash(c)
       \/ \E i \in Id :
            \/ SaveDoc(c, i) \/ Load(c, i) \/ Delete(c, i)
            \/ \E v \in Value : Edit(c, i, v)
            \/ \E k \in 1..Len(HistView(c, i)), save \in BOOLEAN :
                  Restore(c, i, k, save)

Spec == Init /\ [][Next]_vars

(***************************************************************************)
(* Properties                                                              *)
(***************************************************************************)

\* Every variable has its type.
TypeOK ==
    /\ doc \in [Id -> Doc \cup {NoDoc}]
    /\ hist \in [Id -> Seq(Doc)]
    /\ epoch \in [Id -> 0..MaxEpoch]
    /\ obj \in [Client -> [Id -> Obj]]
    /\ op \in [Client -> SaveOp \cup {Idle}]
    /\ outer \in [Client -> BOOLEAN]
    /\ pend \in [Client -> [Id -> Doc \cup {NoDoc, Clean}]]
    /\ phist \in [Client -> [Id -> Seq(Doc)]]

\* The versions of i in the store: committed or pending, current or historical.
StoreVersions(i) ==
    (({doc[i]} \cup {pend[c][i] : c \in Client}) \ {NoDoc, Clean})
    \cup {hist[i][k] : k \in 1..Len(hist[i])}
    \cup UNION {{phist[c][i][k] : k \in 1..Len(phist[c][i])} : c \in Client}

\* The version of i that c's instance stands for.
ObjVersion(c, i) ==
    [rev |-> obj[c][i].rev, val |-> obj[c][i].base, epoch |-> obj[c][i].epoch]

\* The versions of i in c's memory: in its instance, or in a save() under way.
HeldBy(c, i) ==
    (IF obj[c][i].epoch > 0 THEN {ObjVersion(c, i)} ELSE {})
    \cup (IF op[c] # Idle /\ op[c].id = i THEN {op[c].saved} ELSE {})

Versions(i) == StoreVersions(i) \cup UNION {HeldBy(c, i) : c \in Client}

\* A revision number identifies one content for as long as the document
\* exists: two holders of the same revision of the same incarnation hold the
\* same content, whoever wrote, rolled back, failed or crashed in between.
\* This is what makes `WHERE _rev = ?` in the update a sufficient check.
VersionIdentity ==
    \A i \in Id : \A x, y \in Versions(i) :
        x.epoch = y.epoch /\ x.rev = y.rev => x.val = y.val

\* c's save of i has just replaced an existing document.
Replaces(c, i) == /\ op[c] = Idle /\ op'[c] # Idle
                  /\ op'[c].id = i
                  /\ View(c, i) # NoDoc
                  /\ op'[c].saved.rev > View(c, i).rev

\* A save never overwrites a change its instance has not seen, as long as
\* the instance holds a committed revision of this incarnation.
NoLostUpdate ==
    [][\A c \in Client, i \in Id :
          Replaces(c, i) /\ obj[c][i].epoch = View(c, i).epoch
             => View(c, i).val = obj[c][i].base]_vars

\* A save never overwrites a change its instance has not seen, whatever the
\* instance went through.
NoLostUpdateEver ==
    [][\A c \in Client, i \in Id :
          Replaces(c, i) => View(c, i).val = obj[c][i].base]_vars

\* The document and its audit trail change in the same step: the transaction
\* around the document and history writes implements the abstract store.
Audit == INSTANCE AuditedStore WITH cell <- doc, log <- hist, Entry <- Doc

ImplementsAuditedStore == Audit!ASpec

\* latest_revision() without a timestamp is the current document.
LatestRevisionIsCurrent ==
    \A i \in Id : doc[i] # NoDoc =>
        hist[i] # <<>> /\ hist[i][Len(hist[i])] = doc[i]

\* The entries of a history, in order of _at, are in order of revision.
HistoryInRevisionOrder ==
    \A i \in Id : \A k, l \in 1..Len(hist[i]) :
        k < l /\ hist[i][k].epoch = hist[i][l].epoch
           => hist[i][k].rev < hist[i][l].rev

\* A revision that a history shows was really committed: no entry is ahead
\* of its document.
HistoryNeverAhead ==
    \A i \in Id : \A k \in 1..Len(hist[i]) :
        /\ hist[i][k].epoch <= epoch[i]
        /\ doc[i] # NoDoc /\ hist[i][k].epoch = doc[i].epoch
              => hist[i][k].rev <= doc[i].rev

\* A document of an immutable class is written once in its life, until it is
\* deleted or an old state is restored, whichever clients create it at once.
WrittenOnce ==
    [][\A i \in Id : Immutable /\ doc[i] # NoDoc /\ doc'[i] # NoDoc
                      /\ doc'[i].epoch = doc[i].epoch => doc'[i] = doc[i]]_vars

(***************************************************************************)
(* Why VersionIdentity holds: the inductive invariant.                     *)
(***************************************************************************)

\* The versions of i that no open transaction can still take back: what a
\* client holds counts only while it has no uncommitted write of i.
SharedVersions(i) ==
    ({doc[i]} \ {NoDoc})
    \cup {hist[i][k] : k \in 1..Len(hist[i])}
    \cup UNION {HeldBy(c, i) : c \in {d \in Client : pend[d][i] = Clean}}

\* Two transactions never both hold uncommitted writes of one document.
RowLock == \A i \in Id, c, d \in Client :
              pend[c][i] # Clean /\ pend[d][i] # Clean => c = d

\* Uncommitted writes belong to an open transaction: an enclosing block or
\* the save() in progress; a history entry follows its document.
TxScope ==
    \A c \in Client :
       /\ \A i \in Id : pend[c][i] # Clean
                          => outer[c] \/ (op[c] # Idle /\ OwnTx)
       /\ \A i \in Id : phist[c][i] # <<>> => pend[c][i] # Clean
       /\ op[c] # Idle /\ op[c].hist /\ SaveInTx(c)
                          => pend[c][op[c].id] # Clean

\* No version belongs to an incarnation that has not begun.
KnownEpochs == \A i \in Id : \A x \in Versions(i) : x.epoch <= epoch[i]

\* A revision that nothing can take back is at most the document's.
DocNewest == \A i \in Id : doc[i] # NoDoc =>
                \A x \in SharedVersions(i) :
                   x.epoch = doc[i].epoch => x.rev <= doc[i].rev

\* No revision is ahead of an uncommitted document.
PendNewest == \A i \in Id, c \in Client : pend[c][i] \notin {NoDoc, Clean} =>
                 \A x \in Versions(i) :
                    x.epoch = pend[c][i].epoch => x.rev <= pend[c][i].rev

\* The inductive invariant: revision numbers are handed out by whoever holds
\* the newest one of the incarnation, so that no number is handed out twice.
IInv == /\ TypeOK
        /\ RowLock
        /\ TxScope
        /\ KnownEpochs
        /\ DocNewest
        /\ PendNewest
        /\ VersionIdentity
=============================================================================
