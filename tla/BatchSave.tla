----------------------------- MODULE BatchSave -----------------------------
(***************************************************************************)
(* SaveIfChanged: the objects changed inside a block are saved when it is  *)
(* left.  With transactions enabled the block opens one in each store of   *)
(* the classes it was given, or of the classes of the changed objects, and *)
(* closes them in reverse order, so that a commit that fails finds the     *)
(* transactions opened after its own committed and aborts the others.      *)
(* Another client saves the same documents.                                *)
(***************************************************************************)
EXTENDS Naturals, Sequences, Functions

CONSTANTS
    Obj, Class, Store, Value,
    ClassOf,    \* an object's class
    StoreOf,    \* a class's store
    IsA,        \* the classes that a class is or inherits from
    Refers,     \* the object that an object refers to, or None
    Filters,    \* the sequences of classes a block may be given, as sets
    UseTx,      \* XX_USE_TS_STORE_TRANSACTIONS
    None,
    MaxBlocks,  \* bound on blocks
    MaxOther,   \* bound on the saves of the other client
    MaxFault    \* bound on failing verifications, failing commits and crashes

ASSUME BatchAssumption ==
    /\ ClassOf \in [Obj -> Class] /\ StoreOf \in [Class -> Store]
    /\ IsA \in [Class -> SUBSET Class] /\ \A c \in Class : c \in IsA[c]
    /\ Refers \in [Obj -> Obj \cup {None}] /\ None \notin Obj
    /\ Filters \subseteq SUBSET Class
    /\ UseTx \in BOOLEAN
    /\ {MaxBlocks, MaxOther, MaxFault} \subseteq Nat

VARIABLES
    doc,    \* the committed documents; revision 0 is no document
    draft,  \* what the open transactions wrote, by store
    mem,    \* the objects of this process
    block,  \* the SaveIfChanged block
    used    \* how much of the bounds is used up

vars == <<doc, draft, mem, block, used>>

At(o)  == StoreOf[ClassOf[o]]
In(s)  == {o \in Obj : At(o) = s}
Docs   == [rev : Nat, val : Value]

Outside == [phase |-> "out", filter |-> {}, tracked |-> << >>, todo |-> << >>,
            opening |-> {}, open |-> << >>, opened |-> {}, failed |-> "no",
            put |-> {}, wrote |-> {}, met |-> {}]

Init ==
    /\ \E v \in Value : doc = [o \in Obj |-> [rev |-> 0, val |-> v]]
    /\ mem = doc
    /\ draft = [s \in Store |-> << >>]
    /\ block = Outside
    /\ used = [blocks |-> 0, other |-> 0, fault |-> 0]

Fault == used.fault < MaxFault /\ used' = [used EXCEPT !.fault = @ + 1]

-----------------------------------------------------------------------------
(* The block *)

Enter(F) ==
    /\ block.phase = "out" /\ used.blocks < MaxBlocks
    /\ block' = [Outside EXCEPT !.phase = "in", !.filter = F]
    /\ used' = [used EXCEPT !.blocks = @ + 1]
    /\ UNCHANGED <<doc, draft, mem>>

\* The tracker lists an object once, in the order of the first changes.
Change(o, v) ==
    /\ block.phase = "in" /\ v # mem[o].val
    /\ mem' = [mem EXCEPT ![o].val = v]
    /\ block' = [block EXCEPT !.tracked = IF o \in Range(@) THEN @ ELSE Append(@, o)]
    /\ UNCHANGED <<doc, draft, used>>

Selected(o) == block.filter = {} \/ block.filter \cap IsA[ClassOf[o]] # {}
Opening ==
    IF ~UseTx THEN {}
    ELSE {StoreOf[c] : c \in IF block.filter # {} THEN block.filter
                             ELSE {ClassOf[o] : o \in Range(block.tracked)}}

\* The end of the block: end_using, then the set of stores.
Leave ==
    /\ block.phase = "in"
    /\ block' = [block EXCEPT !.phase = "save", !.opening = Opening,
                              !.todo = block.tracked]
    /\ UNCHANGED <<doc, draft, mem, used>>

\* enter_context(store.transaction()), in the arbitrary order of a set.
OpenTx(s) ==
    /\ block.phase = "save" /\ s \in block.opening
    /\ block' = [block EXCEPT !.opening = @ \ {s}, !.open = Append(@, s),
                              !.opened = @ \cup {s}]
    /\ UNCHANGED <<doc, draft, mem, used>>

-----------------------------------------------------------------------------
(* traitable.save().throw() *)

Visible(o) == IF o \in DOMAIN draft[At(o)] THEN draft[At(o)][o] ELSE doc[o]

\* Revision 0 inserts and fails on a document that exists, any other revision
\* must be the present one; a save that changes nothing writes nothing.
Conflicts(o) == mem[o].rev # Visible(o).rev
\* Only the revision is compared.
NoChange_Rev(o) == mem[o].rev = Visible(o).rev /\ mem[o].rev > 0
NoChange(o) == mem[o] = Visible(o) /\ mem[o].rev > 0

Put(o, new) ==
    [x \in DOMAIN draft[At(o)] \cup {o} |-> IF x = o THEN new ELSE draft[At(o)][x]]

WrittenIn(o, tx) ==
    LET new == [rev |-> mem[o].rev + 1, val |-> mem[o].val]
    IN  /\ mem' = [mem EXCEPT ![o] = new]
        /\ IF tx
           THEN draft' = [draft EXCEPT ![At(o)] = Put(o, new)] /\ UNCHANGED doc
           ELSE doc' = [doc EXCEPT ![o] = new] /\ UNCHANGED draft
        /\ block' = [block EXCEPT !.put = @ \cup {o},
                                  !.wrote = IF tx THEN @ ELSE @ \cup {o}]

\* Inserts bypass the transaction.
Written_Insert(o) == WrittenIn(o, At(o) \in Range(block.open) /\ mem[o].rev > 0)
Written(o) == WrittenIn(o, At(o) \in Range(block.open))

Throws(why) ==
    /\ block' = [block EXCEPT !.phase = "close", !.failed = why]
    /\ UNCHANGED <<doc, draft, mem>>

Looping == block.phase = "save" /\ block.opening = {} /\ block.todo # << >>
Saving == Looping /\ Selected(Head(block.todo))
NewRef(o) == Refers[o] # None /\ mem[Refers[o]].rev = 0

\* serialize_object(NEW_ONLY): an unsaved referenced object is saved before the
\* one that refers to it.
SaveRef ==
    /\ Saving /\ NewRef(Head(block.todo))
    /\ LET r == Refers[Head(block.todo)]
       IN  IF Conflicts(r) THEN Throws("save") ELSE Written(r)
    /\ UNCHANGED used

SaveNext ==
    /\ Saving /\ ~NewRef(Head(block.todo))
    /\ LET o == Head(block.todo)
       IN  CASE Conflicts(o) -> Throws("save")
             [] NoChange(o)  -> /\ block' = [block EXCEPT !.todo = Tail(@)]
                                /\ UNCHANGED <<doc, draft, mem>>
             [] OTHER        -> Written(o)
    /\ UNCHANGED used

SkipNext ==
    /\ Looping /\ ~Selected(Head(block.todo))
    /\ block' = [block EXCEPT !.todo = Tail(@)]
    /\ UNCHANGED <<doc, draft, mem, used>>

\* verify() finds a trait invalid, or the statement fails.
SaveFails == Saving /\ Fault /\ Throws("save")

AllSaved ==
    /\ block.phase = "save" /\ block.opening = {} /\ block.todo = << >>
    /\ block' = [block EXCEPT !.phase = "close"]
    /\ UNCHANGED <<doc, draft, mem, used>>

-----------------------------------------------------------------------------
(* The exit stack *)

Top == block.open[Len(block.open)]
Committed(s) == [o \in Obj |-> IF o \in DOMAIN draft[s] THEN draft[s][o] ELSE doc[o]]

Closing == block.phase = "close" /\ block.open # << >>
Popped(wrote, failed) ==
    /\ draft' = [draft EXCEPT ![Top] = << >>]
    /\ block' = [block EXCEPT !.open = SubSeq(@, 1, Len(@) - 1), !.failed = failed,
                              !.wrote = @ \cup wrote]

CommitTop ==
    /\ Closing /\ block.failed = "no"
    /\ doc' = Committed(Top) /\ Popped(DOMAIN draft[Top], "no")
    /\ UNCHANGED <<mem, used>>

\* COMMIT raises: it was not applied, or it was and the answer is lost.
CommitFails ==
    /\ Closing /\ block.failed = "no" /\ Fault
    /\ \/ UNCHANGED doc /\ Popped({}, "commit")
       \/ doc' = Committed(Top) /\ Popped(DOMAIN draft[Top], "commit")
    /\ UNCHANGED mem

\* `finally: tx.commit()`.
AbortTop_Commits ==
    /\ Closing /\ block.failed # "no"
    /\ doc' = Committed(Top) /\ Popped(DOMAIN draft[Top], block.failed)
    /\ UNCHANGED <<mem, used>>

AbortTop ==
    /\ Closing /\ block.failed # "no"
    /\ Popped({}, block.failed)
    /\ UNCHANGED <<doc, mem, used>>

End ==
    /\ block.phase = "close" /\ block.open = << >>
    /\ block' = [block EXCEPT !.phase = "out"]
    /\ UNCHANGED <<doc, draft, mem, used>>

\* An object is loaded again, after a failure for instance.
Reload(o) ==
    /\ block.phase = "out" /\ mem[o] # doc[o] /\ doc[o].rev > 0
    /\ mem' = [mem EXCEPT ![o] = doc[o]]
    /\ UNCHANGED <<doc, draft, block, used>>

Crash ==
    /\ block.phase # "out" /\ Fault
    /\ draft' = [s \in Store |-> << >>]
    /\ mem' = doc
    /\ block' = [block EXCEPT !.phase = "out", !.failed = "crash", !.open = << >>]
    /\ UNCHANGED doc

\* The other client; a document written in an open transaction is locked.
OtherSaves(o, v) ==
    /\ used.other < MaxOther
    /\ o \notin DOMAIN draft[At(o)] /\ v # doc[o].val
    /\ doc' = [doc EXCEPT ![o] = [rev |-> @.rev + 1, val |-> v]]
    /\ block' = [block EXCEPT !.met = @ \cup {o}]
    /\ used' = [used EXCEPT !.other = @ + 1]
    /\ UNCHANGED <<draft, mem>>

Next ==
    \/ \E F \in Filters : Enter(F)
    \/ \E o \in Obj, v \in Value : Change(o, v) \/ OtherSaves(o, v)
    \/ \E s \in Store : OpenTx(s)
    \/ Leave \/ SaveRef \/ SaveNext \/ SkipNext \/ SaveFails \/ AllSaved
    \/ CommitTop \/ CommitFails \/ AbortTop \/ End \/ Crash
    \/ \E o \in Obj : Reload(o)

Spec == Init /\ [][Next]_vars

-----------------------------------------------------------------------------
\* What a block wrote in a store it has opened a transaction in is there
\* entirely or not at all, whatever fails and wherever it crashes.
StoreAtomic ==
    \A s \in block.opened :
        LET put == block.put \cap In(s)
        IN  put \subseteq block.wrote \/ put \cap block.wrote = {}

\* If a save fails, the saves of the block are rolled back (GETTING_STARTED.md,
\* SaveIfChanged, Transactions); those in a store that no listed class has are not.
RolledBack ==
    block.failed = "save" => \A o \in block.wrote : At(o) \notin block.opened

\* A block that ends without an exception has saved every change it should have,
\* and the process holds the revisions that the store has.
Complete ==
    block.phase = "out" /\ block.failed = "no" =>
        \A o \in Range(block.tracked) \ block.met : Selected(o) => doc[o] = mem[o]
=============================================================================
