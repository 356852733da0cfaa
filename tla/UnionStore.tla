----------------------------- MODULE UnionStore -----------------------------
(***************************************************************************)
(* TsUnion of two stores: everything is written to the head, and the tail  *)
(* is read where the head has nothing.  A save looks in the head whether   *)
(* the document is there, and only then inserts or updates; a find merges  *)
(* what the two stores return, each sorted and limited on its own.  Several *)
(* clients use the union, and other programs write to the tail.            *)
(***************************************************************************)
EXTENDS Integers, Sequences, Functions, FiniteSets, SequencesExt

CONSTANTS
    Client, Id, Value,
    Busy,       \* the identities that calls other than find are about
    Stored,     \* what may be in the stores at first: (id, side) to content
    None,       \* no document
    Idle,       \* no call in progress
    AtMost,     \* the limits of a find; 0 is no limit
    MaxSave, MaxDelete, MaxTail, MaxFind   \* bounds on the calls

ASSUME UnionAssumption ==
    /\ Id \subseteq Nat /\ IsFiniteSet(Id) /\ Busy \subseteq Id
    /\ Value \subseteq Nat /\ Value # {}
    /\ AtMost \subseteq Nat
    /\ \A kept \in Stored : \A there \in DOMAIN kept : kept[there] \in Value
    /\ None \notin [id : Id, side : {"head", "tail"}, rev : Nat, val : Value, born : Nat]
    /\ {MaxSave, MaxDelete, MaxTail, MaxFind} \subseteq Nat

VARIABLES
    head, tail,  \* the two stores' collections
    hist,        \* the history entries, all in the head's companion collection
    obj,         \* every client's objects
    op,          \* every client's call
    used         \* how much of the bounds is used up

vars == <<head, tail, hist, obj, op, used>>

Side == {"head", "tail"}

\* `born` is a ghost, it tells apart the inserts of the same identity: how many
\* deletions came before.
Doc(id, side, rev, val, born) ==
    [id |-> id, side |-> side, rev |-> rev, val |-> val, born |-> born]

\* A copy of a document; `base` is a ghost, the content that was read.
Copy(d) == [side |-> d.side, rev |-> d.rev, val |-> d.val, born |-> d.born, base |-> d.val]
Fresh(v) == [side |-> "none", rev |-> 0, val |-> v, born |-> 0, base |-> v]

Init ==
    /\ \E kept \in Stored :
         LET there(i, side) == IF <<i, side>> \in DOMAIN kept
                               THEN Doc(i, side, 1, kept[<<i, side>>], 0) ELSE None
         IN  /\ head = [i \in Id |-> there(i, "head")]
             /\ tail = [i \in Id |-> there(i, "tail")]
    /\ hist = {[id |-> d.id, rev |-> d.rev, born |-> d.born] : d \in Range(head) \ {None}}
    /\ obj = [c \in Client |-> [i \in Id |-> Fresh(CHOOSE v \in Value : TRUE)]]
    /\ op = [c \in Client |-> Idle]
    /\ used = [save |-> 0, delete |-> 0, tail |-> 0, find |-> 0]

Spends(what, max) == used[what] < max /\ used' = [used EXCEPT ![what] = @ + 1]
Calls(c, call) == op[c] = Idle /\ op' = [op EXCEPT ![c] = call]
Returns(c) == op' = [op EXCEPT ![c] = Idle]
In(c, step) == op[c] # Idle /\ op[c].step = step

-----------------------------------------------------------------------------
(* load: the head, then the tail *)

LoadHead(c, i) ==
    /\ op[c] = Idle
    /\ IF head[i] # None
       THEN obj' = [obj EXCEPT ![c][i] = Copy(head[i])] /\ UNCHANGED op
       ELSE Calls(c, [step |-> "load", id |-> i]) /\ UNCHANGED obj
    /\ UNCHANGED <<head, tail, hist, used>>

LoadTail(c) ==
    /\ In(c, "load") /\ Returns(c)
    /\ LET i == op[c].id
       IN  IF tail[i] # None THEN obj' = [obj EXCEPT ![c][i] = Copy(tail[i])]
                             ELSE UNCHANGED obj
    /\ UNCHANGED <<head, tail, hist, used>>

-----------------------------------------------------------------------------
(* save: is it in the head?  save_new or save of the head, and the history *)

\* The application changes the object and saves it.
SaveCheck(c, i, v) ==
    /\ Calls(c, [step |-> "save", id |-> i, exists |-> head[i] # None])
    /\ obj' = [obj EXCEPT ![c][i].val = v]
    /\ Spends("save", MaxSave)
    /\ UNCHANGED <<head, tail, hist>>

\* What the head has afterwards; nothing if the store refuses.
SaveNew(i, o) == IF head[i] = None THEN {Doc(i, "head", 1, o.val, used.delete)} ELSE {}

\* An update without a condition on the revision.
Update_Unchecked(i, o) ==
    IF head[i] # None
    THEN {[head[i] EXCEPT !.val = o.val, !.rev = IF head[i].val = o.val THEN @ ELSE @ + 1]}
    ELSE {}

Update(i, o) ==
    IF head[i] # None /\ head[i].rev = o.rev
    THEN {[head[i] EXCEPT !.val = o.val, !.rev = IF head[i].val = o.val THEN @ ELSE @ + 1]}
    ELSE {}

Written(i, o, exists) ==
    IF exists /\ o.rev > 0 THEN Update(i, o) ELSE SaveNew(i, o)

\* The first revision is taken for the one a new object has.
NewRevision_Late(o, d) == d.rev > o.rev + 1

\* StorableHelperWithHistory: a revision the object had already is no new one.
NewRevision(o, d) == d.rev > o.rev

\* Document and history entry are one transaction of the head.
SaveWrite(c) ==
    /\ In(c, "save")
    /\ LET i == op[c].id
           o == obj[c][i]
       IN  \E d \in Written(i, o, op[c].exists) :
             /\ head' = [head EXCEPT ![i] = d]
             /\ hist' = hist \cup (IF NewRevision(o, d)
                                   THEN {[id |-> i, rev |-> d.rev, born |-> d.born]} ELSE {})
             /\ obj' = [obj EXCEPT ![c][i] = Copy(d)]
    /\ Returns(c)
    /\ UNCHANGED <<tail, used>>

SaveRefused(c) ==
    /\ In(c, "save")
    /\ Written(op[c].id, obj[c][op[c].id], op[c].exists) = {}
    /\ Returns(c)
    /\ UNCHANGED <<head, tail, hist, obj, used>>

-----------------------------------------------------------------------------
(* delete: in the head; False if the document is still found *)

\* A MongoDB head acknowledges the deletion of nothing, an SQL head does not.
DeleteHead(c, i) ==
    /\ \/ head[i] # None /\ Calls(c, [step |-> "delete", id |-> i])
       \/ head[i] = None /\ op[c] = Idle
          /\ (UNCHANGED op \/ Calls(c, [step |-> "delete", id |-> i]))
    /\ head' = [head EXCEPT ![i] = None]
    /\ Spends("delete", MaxDelete)
    /\ UNCHANGED <<tail, hist, obj>>

\* On success the object is new again.
DeleteCheck(c) ==
    /\ In(c, "delete") /\ Returns(c)
    /\ LET i == op[c].id
       IN  IF head[i] = None /\ tail[i] = None
           THEN obj' = [obj EXCEPT ![c][i] = Fresh(obj[c][i].val)]
           ELSE UNCHANGED obj
    /\ UNCHANGED <<head, tail, hist, used>>

-----------------------------------------------------------------------------
(* find and load_many *)

Orders == [key : {"val"}, reverse : BOOLEAN]

\* _OrderKey of the one trait that a find is ordered by.
Less(o, a, b) == IF o.reverse THEN b[o.key] < a[o.key] ELSE a[o.key] < b[o.key]

Limited(s, n) == IF n > 0 /\ n < Len(s) THEN SubSeq(s, 1, n) ELSE s

\* What one store can return: in the asked order, or in any if none is asked.
Found(docs, o, n) ==
    {Limited(s, n) : s \in
        {s \in SetToSeqs(docs) :
            o # None => \A i, j \in DOMAIN s : i < j => ~Less(o, s[j], s[i])}}

\* The direction of the order is dropped, as _OrderKey does for values that are
\* dictionaries.
Takes_Ascending(a, b, order, i, j) ==
    LET o == [order EXCEPT !.reverse = FALSE]
    IN  i < Len(a) /\ (j < Len(b) => ~Less(o, b[j + 1], a[i + 1]))

\* After i of the head and j of the tail the head's is next: the smaller first,
\* and the head's of two equal ones.
Takes(a, b, o, i, j) == i < Len(a) /\ (j < Len(b) => ~Less(o, b[j + 1], a[i + 1]))

\* How many of the first k come from the head.
Taken(a, b, o) ==
    LET taken[k \in 0..(Len(a) + Len(b))] ==
            IF k = 0 THEN 0
            ELSE LET i == taken[k - 1] IN IF Takes(a, b, o, i, k - 1 - i) THEN i + 1 ELSE i
    IN  taken

\* heapq.merge.
Merged(a, b, o) ==
    LET taken == Taken(a, b, o)
    IN  [k \in 1..(Len(a) + Len(b)) |->
            IF taken[k] > taken[k - 1] THEN a[taken[k]] ELSE b[k - taken[k]]]

ById == [key |-> "id", reverse |-> FALSE]

Present(store) == Range(store) \ {None}

FindHead(c, o, n) ==
    /\ \E s \in Found(Present(head), o, n) :
           Calls(c, [step |-> "find", order |-> o, limit |-> n, got |-> s, read |-> Present(head)])
    /\ Spends("find", MaxFind)
    /\ UNCHANGED <<head, tail, hist, obj>>

FindTail(c) ==
    /\ In(c, "find")
    /\ LET find  == op[c]
           order == IF find.order = None THEN ById ELSE find.order
       IN  \E s \in Found(Present(tail), find.order, find.limit) :
               op' = [op EXCEPT ![c] =
                   [find EXCEPT !.step = "found", !.read = @ \cup Present(tail),
                                !.got = Limited(Merged(@, s, order), find.limit)]]
    /\ UNCHANGED <<head, tail, hist, obj, used>>

\* Every result is deserialized into its object, the last copy stays.
FindEnd(c) ==
    /\ In(c, "found") /\ Returns(c)
    /\ LET got   == op[c].got
           of(i) == {k \in DOMAIN got : got[k].id = i}
       IN  obj' = [obj EXCEPT ![c] =
                      [i \in Id |-> IF of(i) = {} THEN @[i] ELSE Copy(got[Max(of(i))])]]
    /\ UNCHANGED <<head, tail, hist, used>>

-----------------------------------------------------------------------------
\* Another program saves the tail's document.
TailWrite(i, v) ==
    /\ LET d == tail[i]
       IN  tail' = [tail EXCEPT ![i] = IF d = None THEN Doc(i, "tail", 1, v, 0)
                                       ELSE [d EXCEPT !.rev = d.rev + 1, !.val = v]]
    /\ Spends("tail", MaxTail)
    /\ UNCHANGED <<head, hist, obj, op>>

Next ==
    \/ \E c \in Client, i \in Busy : LoadHead(c, i) \/ DeleteHead(c, i)
    \/ \E c \in Client, i \in Busy, v \in Value : SaveCheck(c, i, v)
    \/ \E c \in Client, o \in Orders \cup {None}, n \in AtMost : FindHead(c, o, n)
    \/ \E c \in Client :
         LoadTail(c) \/ SaveWrite(c) \/ SaveRefused(c) \/ DeleteCheck(c) \/ FindTail(c) \/ FindEnd(c)
    \/ \E i \in Busy, v \in Value : TailWrite(i, v)

Spec == Init /\ [][Next]_vars

-----------------------------------------------------------------------------
\* A save over a document of the head overwrites the content that the client
\* had read, unless its copy is one of the tail or of a deleted document: their
\* revision numbers may be the same.
NoBlindOverwrite ==
    [][\A c \in Client, i \in Id :
         LET old       == head[i]
             copy      == obj[c][i]
             overwrote == /\ In(c, "save") /\ op[c].id = i /\ op'[c] = Idle
                          /\ old # None /\ head'[i] # old
         IN  overwrote => \/ copy.base = old.val /\ copy.born = old.born
                          \/ copy.side = "tail" \/ copy.born # old.born]_vars

\* Every version the head has is in the history, except the first one of an
\* object that was not new when the head got it: its revision goes back to 1.
Recorded ==
    \A i \in Id :
        LET d == head[i]
        IN  d # None /\ [id |-> i, rev |-> d.rev, born |-> d.born] \notin hist
                => d.rev = 1 /\ (tail[i] # None \/ d.born > 0)

\* A find returns as many documents as it may of all that it has read, in the
\* asked order, and none that is left out comes before one that is returned.
FindMerged ==
    \A c \in Client : In(c, "found") =>
        LET found == op[c]
            rest  == found.read \ Range(found.got)
            size  == Cardinality(found.read)
            after(a, b) == found.order # None /\ Less(found.order, a, b)
        IN  /\ IsInjective(found.got) /\ Range(found.got) \subseteq found.read
            /\ Len(found.got) = IF found.limit \in 1..size THEN found.limit ELSE size
            /\ \A i, j \in DOMAIN found.got : i < j => ~after(found.got[j], found.got[i])
            /\ \A d \in rest, i \in DOMAIN found.got : ~after(d, found.got[i])
=============================================================================
