-------------------------- MODULE BatchSaveProofs --------------------------
(***************************************************************************)
(* Theorems about BatchSave, for any objects, classes and stores: what a   *)
(* block wrote in a store is there entirely or not at all, a failed save   *)
(* leaves nothing behind, and a block that ends well has saved everything. *)
(***************************************************************************)
EXTENDS BatchSave, TLAPS, SequenceTheorems

Phases == {"out", "in", "save", "close"}
Blocks == [phase : Phases, filter : SUBSET Class, tracked : Seq(Obj), todo : Seq(Obj),
           opening : SUBSET Store, open : Seq(Store), opened : SUBSET Store,
           failed : {"no", "save", "commit", "crash"},
           put : SUBSET Obj, wrote : SUBSET Obj, met : SUBSET Obj]

TypeOK == block \in Blocks /\ DOMAIN draft = Store

\* A store is opened once, before anything is saved.
OpenOK ==
    /\ \A i, j \in DOMAIN block.open : i # j => block.open[i] # block.open[j]
    /\ Range(block.open) \subseteq block.opened
    /\ block.phase = "save" => /\ Range(block.open) = block.opened
                               /\ block.opening \cap block.opened = {}
    /\ block.phase = "in" => block.open = << >> /\ block.opened = {}
    /\ block.phase = "out" => block.open = << >>
    /\ (block.phase = "in" \/ (block.phase = "save" /\ block.opening # {}))
          => block.put = {} /\ block.wrote = {}

\* An open transaction holds all that was written in its store, and the store nothing.
DraftOK ==
    /\ \A s \in Range(block.open) : /\ DOMAIN draft[s] = block.put \cap In(s)
                                    /\ block.wrote \cap In(s) = {}
    /\ \A s \in Store \ Range(block.open) : DOMAIN draft[s] = {}

\* Until a transaction is committed, only stores without one are written.
WroteOutside ==
    block.phase \in {"in", "save"} \/ block.failed = "save"
        => \A o \in block.wrote : At(o) \notin block.opened

IInv == TypeOK /\ OpenOK /\ DraftOK /\ StoreAtomic /\ WroteOutside

-----------------------------------------------------------------------------
LEMMA RangeAppend ==
    ASSUME NEW S, NEW q \in Seq(S), NEW e \in S
    PROVE  Range(Append(q, e)) = Range(q) \cup {e}
<1> DEFINE t == Append(q, e)
<1>1. /\ DOMAIN t = 1..(Len(q) + 1) /\ DOMAIN q = 1..Len(q) /\ Len(q) \in Nat
      /\ t[Len(q) + 1] = e /\ \A i \in 1..Len(q) : t[i] = q[i]
  OBVIOUS
<1> HIDE DEF t
<1>2. ASSUME NEW x \in Range(t) PROVE x \in Range(q) \cup {e}
  <2>1. PICK i \in 1..(Len(q) + 1) : x = t[i]
    BY <1>1 DEF Range
  <2>2. CASE i = Len(q) + 1
    BY <1>1, <2>1, <2>2
  <2>3. CASE i # Len(q) + 1
    BY <1>1, <2>1, <2>3 DEF Range
  <2> QED BY <2>2, <2>3
<1>3. ASSUME NEW x \in Range(q) \cup {e} PROVE x \in Range(t)
  BY <1>1 DEF Range
<1> QED BY <1>2, <1>3 DEF t

LEMMA RangeFront ==
    ASSUME NEW S, NEW q \in Seq(S), NEW n \in Nat, n = Len(q), n > 0,
           \A i, j \in DOMAIN q : i # j => q[i] # q[j],
           NEW t, DOMAIN t = 1..(n - 1), \A i \in 1..(n - 1) : t[i] = q[i]
    PROVE  Range(t) = Range(q) \ {q[n]}
<1>1. DOMAIN q = 1..n /\ n \in 1..n
  OBVIOUS
<1>2. \A x \in Range(t) : x \in Range(q) /\ x # q[n]
  <2> SUFFICES ASSUME NEW i \in 1..(n - 1) PROVE t[i] \in Range(q) /\ t[i] # q[n]
    BY DEF Range
  <2>1. i \in 1..n /\ i # n /\ t[i] = q[i]
    OBVIOUS
  <2> QED BY <1>1, <2>1 DEF Range
<1>3. \A x \in Range(q) : x # q[n] => x \in Range(t)
  <2> SUFFICES ASSUME NEW i \in 1..n, q[i] # q[n] PROVE q[i] \in Range(t)
    BY <1>1 DEF Range
  <2>1. i \in 1..(n - 1) /\ t[i] = q[i]
    OBVIOUS
  <2> QED BY <2>1 DEF Range
<1> QED BY <1>2, <1>3

LEMMA AtType == \A o \in Obj : At(o) \in Store /\ o \in In(At(o))
  BY BatchAssumption DEF At, In

LEMMA OutsideType == Outside \in Blocks
<1>1. << >> \in Seq(Obj) /\ << >> \in Seq(Store)
  OBVIOUS
<1> QED BY <1>1 DEF Outside, Blocks, Phases

LEMMA InitInv == Init => IInv
<1> SUFFICES ASSUME Init PROVE IInv
  OBVIOUS
<1>1. TypeOK
  BY OutsideType DEF Init, TypeOK
<1>2. /\ block.open = << >> /\ block.opened = {} /\ block.put = {} /\ block.wrote = {}
      /\ Range(block.open) = {} /\ block.phase = "out"
  BY DEF Init, Outside, Range
<1>3. \A s \in Store : DOMAIN draft[s] = {}
  BY DEF Init
<1> QED BY <1>1, <1>2, <1>3 DEF IInv, OpenOK, DraftOK, StoreAtomic, WroteOutside

\* What the other operations of a block leave as it is.
SameBlock ==
    /\ block'.open = block.open /\ block'.opened = block.opened /\ block'.put = block.put
    /\ block'.wrote = block.wrote

LEMMA SameKeeps ==
    ASSUME IInv, SameBlock, UNCHANGED draft,
           \/ /\ block'.phase = block.phase /\ block'.opening = block.opening
              /\ block'.failed = block.failed
           \/ block.phase = "save" /\ block'.phase = "close"
           \/ block.phase = "in" /\ block'.phase = "save"
    PROVE  OpenOK' /\ DraftOK' /\ StoreAtomic' /\ WroteOutside'
  BY DEF SameBlock, IInv, OpenOK, DraftOK, StoreAtomic, WroteOutside, Range

LEMMA InvEnter ==
    ASSUME IInv, NEW F \in Filters, Enter(F)
    PROVE  IInv'
<1>1. block' \in Blocks
  BY OutsideType, BatchAssumption DEF Enter, Blocks, Phases, IInv, TypeOK
<1>2. /\ block'.open = << >> /\ block'.opened = {} /\ block'.put = {} /\ block'.wrote = {}
      /\ block'.phase = "in" /\ Range(block'.open) = {}
  BY DEF Enter, Outside, Range
<1>3. block.open = << >> /\ Range(block.open) = {}
  BY DEF Enter, IInv, OpenOK, Range
<1>4. \A s \in Store : DOMAIN draft'[s] = {}
  BY <1>3 DEF Enter, IInv, DraftOK
<1> QED BY <1>1, <1>2, <1>4 DEF Enter, IInv, TypeOK, OpenOK, DraftOK, StoreAtomic, WroteOutside

LEMMA InvOpenTx ==
    ASSUME IInv, NEW s \in Store, OpenTx(s)
    PROVE  IInv'
<1>1. /\ block' \in Blocks /\ block'.phase = "save" /\ block.phase = "save" /\ s \in block.opening
      /\ block'.open = Append(block.open, s) /\ block'.opened = block.opened \cup {s}
      /\ block'.opening = block.opening \ {s} /\ UNCHANGED draft
      /\ block'.put = block.put /\ block'.wrote = block.wrote
  <2>1. Append(block.open, s) \in Seq(Store)
    BY DEF IInv, TypeOK, Blocks
  <2>2. block \in Blocks
    BY DEF IInv, TypeOK
  <2> QED BY <2>1, <2>2 DEF OpenTx, Blocks, Phases
<1>2. block.open \in Seq(Store) /\ block.open \in [1..Len(block.open) -> Store] /\ Len(block.open) \in Nat
  BY DEF IInv, TypeOK, Blocks
<1>3. /\ Len(block'.open) = Len(block.open) + 1 /\ DOMAIN block'.open = 1..(Len(block.open) + 1)
      /\ block'.open[Len(block.open) + 1] = s
      /\ \A i \in 1..Len(block.open) : block'.open[i] = block.open[i]
  BY <1>1, <1>2
<1>4. Range(block'.open) = Range(block.open) \cup {s}
  BY <1>1, <1>2, RangeAppend
<1>5. s \notin Range(block.open)
  BY <1>1 DEF IInv, OpenOK
<1>6. block.put = {} /\ block.wrote = {} /\ Range(block.open) = block.opened
  BY <1>1 DEF IInv, OpenOK
<1>7. \A i, j \in DOMAIN block'.open : i # j => block'.open[i] # block'.open[j]
  BY <1>2, <1>3, <1>5 DEF IInv, OpenOK, Range
<1>8. OpenOK'
  BY <1>1, <1>4, <1>6, <1>7 DEF IInv, OpenOK
<1>9. DraftOK'
  BY <1>1, <1>4, <1>5, <1>6 DEF IInv, DraftOK
<1> QED BY <1>1, <1>6, <1>8, <1>9 DEF IInv, TypeOK, StoreAtomic, WroteOutside

\* A document is written, in the transaction of its store if there is one.
LEMMA InvWritten ==
    ASSUME IInv, NEW o \in Obj, block.phase = "save", block.opening = {}, Written(o)
    PROVE  IInv'
<1> DEFINE tx == At(o) \in Range(block.open)
<1>1. /\ block' \in Blocks /\ block'.phase = block.phase /\ block'.open = block.open
      /\ block'.opened = block.opened /\ block'.opening = block.opening
      /\ block'.put = block.put \cup {o}
      /\ block'.wrote = IF tx THEN block.wrote ELSE block.wrote \cup {o}
  BY DEF Written, WrittenIn, Blocks, Phases, IInv, TypeOK
<1>2. Range(block.open) = block.opened
  BY DEF IInv, OpenOK
<1>3. At(o) \in Store /\ \A s \in Store : o \in In(s) <=> s = At(o)
  BY AtType DEF In
<1>4. /\ DOMAIN draft' = Store
      /\ \A s \in Store : s # At(o) => draft'[s] = draft[s]
      /\ DOMAIN draft'[At(o)] = IF tx THEN DOMAIN draft[At(o)] \cup {o} ELSE DOMAIN draft[At(o)]
  BY <1>3 DEF Written, WrittenIn, Put, IInv, TypeOK
<1>5. \A s \in block.opened : s \in Store
  BY DEF IInv, TypeOK, Blocks
<1>6. DraftOK'
  <2>1. ASSUME NEW s \in Range(block.open)
        PROVE  DOMAIN draft'[s] = block'.put \cap In(s) /\ block'.wrote \cap In(s) = {}
    BY <1>1, <1>2, <1>3, <1>4, <1>5, <2>1 DEF IInv, DraftOK
  <2>2. ASSUME NEW s \in Store \ Range(block.open) PROVE DOMAIN draft'[s] = {}
    BY <1>4 DEF IInv, DraftOK
  <2> QED BY <1>1, <2>1, <2>2 DEF DraftOK
<1>7. WroteOutside'
  BY <1>1, <1>2 DEF IInv, WroteOutside
<1>8. StoreAtomic'
  BY <1>1, <1>2, <1>6 DEF DraftOK, StoreAtomic
<1>9. OpenOK'
  BY <1>1 DEF IInv, OpenOK
<1> QED BY <1>1, <1>4, <1>6, <1>7, <1>8, <1>9 DEF IInv, TypeOK

\* A transaction ends: all that it holds becomes written, or nothing.
LEMMA InvPopped ==
    ASSUME IInv, Closing, NEW wrote, wrote \in {{}, DOMAIN draft[Top]},
           NEW failed \in {"no", "save", "commit", "crash"}, Popped(wrote, failed),
           failed = "save" => wrote = {} /\ block.failed = "save"
    PROVE  IInv'
<1> PICK n \in Nat : n = Len(block.open)
  BY DEF IInv, TypeOK, Blocks
<1> PICK s : s = Top
  OBVIOUS
<1>1. /\ block.open \in Seq(Store) /\ n > 0 /\ DOMAIN block.open = 1..n /\ s = block.open[n]
      /\ s \in Store /\ s \in Range(block.open)
  BY DEF Closing, Top, IInv, TypeOK, Blocks, Range
<1>2. /\ SubSeq(block.open, 1, n - 1) \in Seq(Store) /\ Len(SubSeq(block.open, 1, n - 1)) = n - 1
      /\ \A i \in 1..(n - 1) : SubSeq(block.open, 1, n - 1)[i] = block.open[i]
  <2>1. \A i \in 1..(n - 1) : block.open[i] \in Store
    BY <1>1
  <2> QED BY <1>1, <2>1, SubSeqProperties
<1>3. wrote \subseteq Obj
  BY <1>1 DEF IInv, DraftOK, In
<1>4. /\ block'.phase = "close" /\ block'.opened = block.opened /\ block'.put = block.put
      /\ block'.open = SubSeq(block.open, 1, n - 1) /\ block'.failed = failed
      /\ block'.wrote = block.wrote \cup wrote
  BY DEF Popped, Closing, IInv, TypeOK, Blocks
<1>5. block' \in Blocks
  BY <1>2, <1>3 DEF Popped, Closing, IInv, TypeOK, Blocks, Phases
<1>6. Range(block'.open) = Range(block.open) \ {s}
  <2>1. DOMAIN block'.open = 1..(n - 1)
    BY <1>2, <1>4
  <2>2. \A i, j \in DOMAIN block.open : i # j => block.open[i] # block.open[j]
    BY DEF IInv, OpenOK
  <2>3. \A i \in 1..(n - 1) : block'.open[i] = block.open[i]
    BY <1>2, <1>4
  <2>4. Range(block'.open) = Range(block.open) \ {block.open[n]}
    <3> PICK q, t : q = block.open /\ t = block'.open
      OBVIOUS
    <3>1. q \in Seq(Store) /\ n = Len(q) /\ n > 0
      BY <1>1
    <3>2. \A i, j \in DOMAIN q : i # j => q[i] # q[j]
      BY <2>2
    <3>3. DOMAIN t = 1..(n - 1) /\ \A i \in 1..(n - 1) : t[i] = q[i]
      BY <2>1, <2>3
    <3>4. Range(t) = Range(q) \ {q[n]}
      BY <3>1, <3>2, <3>3, RangeFront
    <3> QED BY <3>4
  <2> QED BY <1>1, <2>4
<1>7. OpenOK'
  <2>1. \A i \in DOMAIN block'.open : i \in DOMAIN block.open /\ block'.open[i] = block.open[i]
    BY <1>1, <1>2, <1>4
  <2> QED BY <1>4, <1>6, <2>1 DEF IInv, OpenOK
<1>8. DOMAIN draft' = Store /\ DOMAIN draft'[s] = {} /\ \A t \in Store : t # s => draft'[t] = draft[t]
  BY <1>1 DEF Popped, IInv, TypeOK
<1>9. \A t \in Store : t # s => wrote \cap In(t) = {}
  BY <1>1 DEF IInv, DraftOK, In
<1>10. DraftOK'
  <2>1. \A t \in Range(block.open) : t \in Store
    BY <1>1 DEF Range
  <2>2. ASSUME NEW t \in Range(block'.open)
        PROVE  DOMAIN draft'[t] = block'.put \cap In(t) /\ block'.wrote \cap In(t) = {}
    <3>1. t \in Range(block.open) /\ t # s /\ t \in Store
      BY <1>6, <2>1
    <3> QED BY <1>4, <1>8, <1>9, <3>1 DEF IInv, DraftOK
  <2>3. ASSUME NEW t \in Store \ Range(block'.open) PROVE DOMAIN draft'[t] = {}
    BY <1>6, <1>8 DEF IInv, DraftOK
  <2> QED BY <2>2, <2>3 DEF DraftOK
<1>11. StoreAtomic'
  <2> SUFFICES ASSUME NEW t \in block.opened
               PROVE  LET put == block'.put \cap In(t)
                      IN  put \subseteq block'.wrote \/ put \cap block'.wrote = {}
    BY <1>4 DEF StoreAtomic
  <2>1. CASE t = s
    BY <1>1, <1>4, <2>1 DEF IInv, DraftOK
  <2>2. CASE t # s
    <3>1. t \in Store
      BY DEF IInv, TypeOK, Blocks
    <3> QED BY <1>4, <1>9, <2>2, <3>1 DEF IInv, StoreAtomic
  <2> QED BY <2>1, <2>2
<1>12. WroteOutside'
  BY <1>4 DEF IInv, WroteOutside
<1> QED BY <1>5, <1>7, <1>8, <1>10, <1>11, <1>12 DEF IInv, TypeOK

-----------------------------------------------------------------------------
LEMMA StepInv == IInv /\ [Next]_vars => IInv'
<1> SUFFICES ASSUME IInv, [Next]_vars PROVE IInv'
  OBVIOUS
<1> USE DEF IInv
<1>1. ASSUME NEW F \in Filters, Enter(F) PROVE IInv'
  BY <1>1, InvEnter
<1>2. ASSUME NEW o \in Obj, NEW v \in Value, Change(o, v) PROVE IInv'
  <2>1. Append(block.tracked, o) \in Seq(Obj)
    BY DEF TypeOK, Blocks
  <2>2. TypeOK' /\ SameBlock /\ block'.phase = block.phase /\ block'.opening = block.opening
        /\ block'.failed = block.failed /\ UNCHANGED draft
    BY <1>2, <2>1 DEF Change, TypeOK, Blocks, SameBlock
  <2> QED BY <2>2, SameKeeps
<1>3. ASSUME NEW o \in Obj, NEW v \in Value, OtherSaves(o, v) PROVE IInv'
  <2>1. TypeOK' /\ SameBlock /\ block'.phase = block.phase /\ block'.opening = block.opening
        /\ block'.failed = block.failed /\ UNCHANGED draft
    BY <1>3 DEF OtherSaves, TypeOK, Blocks, SameBlock
  <2> QED BY <2>1, SameKeeps
<1>4. ASSUME Leave PROVE IInv'
  <2>1. Opening \subseteq Store
    BY <1>4, BatchAssumption DEF Leave, Opening, TypeOK, Blocks, Range
  <2>2. block' \in Blocks
    BY <1>4, <2>1 DEF Leave, TypeOK, Blocks, Phases
  <2>3. SameBlock /\ block.phase = "in" /\ block'.phase = "save" /\ UNCHANGED draft
    BY <1>4 DEF Leave, TypeOK, Blocks, SameBlock
  <2> QED BY <2>2, <2>3, SameKeeps DEF TypeOK
<1>5. ASSUME NEW s \in Store, OpenTx(s) PROVE IInv'
  BY <1>5, InvOpenTx
<1>6. ASSUME block.phase = "save", Throws("save") PROVE IInv'
  <2>1. TypeOK' /\ SameBlock /\ block'.phase = "close" /\ block'.failed = "save" /\ UNCHANGED draft
    BY <1>6 DEF Throws, TypeOK, Blocks, Phases, SameBlock
  <2> QED BY <1>6, <2>1, SameKeeps
<1>7. ASSUME Looping PROVE Head(block.todo) \in Obj /\ Tail(block.todo) \in Seq(Obj)
  BY <1>7, HeadTailProperties DEF Looping, TypeOK, Blocks
<1>8. ASSUME SaveRef PROVE IInv'
  <2>1. block.phase = "save" /\ block.opening = {} /\ Refers[Head(block.todo)] \in Obj
    BY <1>7, <1>8, BatchAssumption DEF SaveRef, Saving, Looping, NewRef
  <2> QED BY <1>6, <1>8, <2>1, InvWritten DEF SaveRef
<1>9. ASSUME Looping, block' = [block EXCEPT !.todo = Tail(block.todo)], UNCHANGED draft PROVE IInv'
  <2>1. TypeOK' /\ SameBlock /\ block'.phase = block.phase /\ block'.opening = block.opening
        /\ block'.failed = block.failed
    BY <1>7, <1>9 DEF TypeOK, Blocks, SameBlock
  <2> QED BY <1>9, <2>1, SameKeeps
<1>10. ASSUME SaveNext PROVE IInv'
  <2>1. Looping /\ block.phase = "save" /\ block.opening = {} /\ Head(block.todo) \in Obj
    BY <1>7, <1>10 DEF SaveNext, Saving, Looping
  <2>2. \/ Throws("save") \/ Written(Head(block.todo))
        \/ block' = [block EXCEPT !.todo = Tail(block.todo)] /\ UNCHANGED draft
    BY <1>10 DEF SaveNext
  <2> QED BY <1>6, <1>9, <2>1, <2>2, InvWritten
<1>11. ASSUME SkipNext PROVE IInv'
  BY <1>9, <1>11 DEF SkipNext
<1>12. ASSUME SaveFails PROVE IInv'
  BY <1>6, <1>12 DEF SaveFails, Saving, Looping
<1>13. ASSUME AllSaved PROVE IInv'
  <2>1. TypeOK' /\ SameBlock /\ block.phase = "save" /\ block'.phase = "close" /\ UNCHANGED draft
    BY <1>13 DEF AllSaved, TypeOK, Blocks, Phases, SameBlock
  <2> QED BY <2>1, SameKeeps
<1>14. ASSUME CommitTop PROVE IInv'
  BY <1>14, InvPopped DEF CommitTop
<1>15. ASSUME CommitFails PROVE IInv'
  BY <1>15, InvPopped DEF CommitFails
<1>16. ASSUME AbortTop PROVE IInv'
  <2>1. block.failed \in {"no", "save", "commit", "crash"}
    BY DEF TypeOK, Blocks
  <2> QED BY <1>16, <2>1, InvPopped DEF AbortTop
<1>17. ASSUME End PROVE IInv'
  <2>1. TypeOK' /\ SameBlock /\ block.phase = "close" /\ block'.phase = "out" /\ UNCHANGED draft
        /\ block'.failed = block.failed /\ block.open = << >>
    BY <1>17 DEF End, TypeOK, Blocks, Phases, SameBlock
  <2> QED BY <2>1 DEF SameBlock, OpenOK, DraftOK, StoreAtomic, WroteOutside
<1>18. ASSUME NEW o \in Obj, Reload(o) PROVE IInv'
  BY <1>18 DEF Reload, TypeOK, OpenOK, DraftOK, StoreAtomic, WroteOutside
<1>19. ASSUME Crash PROVE IInv'
  <2>1. /\ block' \in Blocks /\ block'.phase = "out" /\ block'.failed = "crash" /\ block'.open = << >>
        /\ block'.opened = block.opened /\ block'.put = block.put /\ block'.wrote = block.wrote
    <3>1. << >> \in Seq(Store)
      OBVIOUS
    <3> QED BY <1>19, <3>1 DEF Crash, TypeOK, Blocks, Phases
  <2>2. DOMAIN draft' = Store /\ \A s \in Store : DOMAIN draft'[s] = {}
    BY <1>19 DEF Crash
  <2>3. Range(block'.open) = {}
    BY <2>1 DEF Range
  <2> QED BY <2>1, <2>2, <2>3 DEF TypeOK, OpenOK, DraftOK, StoreAtomic, WroteOutside
<1>20. ASSUME UNCHANGED vars PROVE IInv'
  BY <1>20 DEF vars, TypeOK, OpenOK, DraftOK, StoreAtomic, WroteOutside
<1> QED BY <1>1, <1>2, <1>3, <1>4, <1>5, <1>8, <1>10, <1>11, <1>12, <1>13, <1>14, <1>15, <1>16,
           <1>17, <1>18, <1>19, <1>20 DEF Next

\* In every reachable state an open transaction holds all that the block wrote in
\* its store (SaveIfChanged, TsStore.transaction).
THEOREM Invariance == Spec => []IInv
  BY InitInv, StepInv, PTL DEF Spec

\* What a block wrote in a store it opened a transaction in is there entirely or
\* not at all, whatever fails and wherever it crashes.
THEOREM AtomicByStore == Spec => []StoreAtomic
<1>1. IInv => StoreAtomic
  BY DEF IInv
<1> QED BY <1>1, Invariance, PTL

\* When a save fails, nothing remains of the block in the stores it opened a
\* transaction in (SaveIfChanged, the exit stack).
THEOREM FailureRollsBack == Spec => []RolledBack
<1>1. IInv => RolledBack
  BY DEF IInv, WroteOutside, RolledBack
<1> QED BY <1>1, Invariance, PTL

-----------------------------------------------------------------------------
(* What a block has saved.  While nothing has failed, each listed object that is
   done with, and that the other client has not saved, is what this process sees
   of its store: the draft of the open transaction, or the document. *)
DataOK ==
    /\ doc \in [Obj -> Docs] /\ mem \in [Obj -> Docs]
    /\ \A o \in Obj : Visible(o) \in Docs

DoneWith ==
    {o \in Range(block.tracked) \ block.met : Selected(o) /\ o \notin Range(block.todo)}

SavedOK ==
    block.phase # "in" /\ block.failed = "no" =>
        /\ \A o \in DoneWith : mem[o] = Visible(o)
        /\ block.phase \in {"close", "out"} => block.todo = << >>

SavedInv == IInv /\ DataOK /\ SavedOK

LEMMA RangeTail ==
    ASSUME NEW S, NEW q \in Seq(S), q # << >>
    PROVE  Range(q) \subseteq Range(Tail(q)) \cup {Head(q)}
<1> PICK n \in Nat : n = Len(q)
  OBVIOUS
<1>1. n > 0 /\ DOMAIN q = 1..n /\ Head(q) = q[1]
  OBVIOUS
<1>2. DOMAIN Tail(q) = 1..(n - 1) /\ \A i \in 1..(n - 1) : Tail(q)[i] = q[i + 1]
  BY <1>1
<1> SUFFICES ASSUME NEW i \in 1..n, i # 1 PROVE q[i] \in Range(Tail(q))
  BY <1>1 DEF Range
<1>3. i - 1 \in 1..(n - 1) /\ Tail(q)[i - 1] = q[i]
  BY <1>1, <1>2
<1> QED BY <1>2, <1>3 DEF Range

\* Where a store has no open transaction its documents are visible.
LEMMA NoDraft ==
    ASSUME IInv, NEW o \in Obj, At(o) \notin Range(block.open)
    PROVE  Visible(o) = doc[o]
  BY AtType DEF IInv, DraftOK, Visible

\* A step that writes nothing, and is done with at most one object it has saved.
LEMMA SavedSame ==
    ASSUME SavedInv, IInv', UNCHANGED <<doc, draft, mem>>,
           block'.filter = block.filter, block'.tracked = block.tracked,
           block'.met = block.met,
           block'.failed = "no" =>
              /\ block.phase # "in" /\ block.failed = "no"
              /\ block'.phase \in {"close", "out"} => block'.todo = << >>
              /\ \A o \in Range(block.todo) \ Range(block'.todo) :
                    Selected(o) => mem[o] = Visible(o)
    PROVE  SavedInv'
<1>1. DataOK'
  BY DEF SavedInv, DataOK, Visible
<1>2. \A o : Visible(o)' = Visible(o) /\ Selected(o)' = Selected(o)
  BY DEF Visible, Selected
<1>3. ASSUME block'.failed = "no", NEW o \in DoneWith' PROVE mem[o] = Visible(o)
  <2>1. o \in Range(block.tracked) \ block.met /\ Selected(o) /\ o \notin Range(block'.todo)
    BY <1>2, <1>3 DEF DoneWith
  <2>2. CASE o \in Range(block.todo)
    BY <1>3, <2>1, <2>2
  <2>3. CASE o \notin Range(block.todo)
    BY <1>3, <2>1, <2>3 DEF SavedInv, SavedOK, DoneWith
  <2> QED BY <2>2, <2>3
<1>4. SavedOK'
  BY <1>2, <1>3 DEF SavedOK
<1> QED BY <1>1, <1>4 DEF SavedInv

\* What is written is what the process holds of the object, and no other
\* object is touched.
LEMMA SavedWritten ==
    ASSUME SavedInv, IInv', NEW o \in Obj, block.phase = "save", Written(o)
    PROVE  SavedInv'
<1> PICK new : new = [rev |-> mem[o].rev + 1, val |-> mem[o].val]
  OBVIOUS
<1> PICK tx : tx = (At(o) \in Range(block.open))
  OBVIOUS
<1>1. mem[o] \in Docs /\ new \in Docs
  BY DEF SavedInv, DataOK, Docs
<1>2. /\ mem' = [mem EXCEPT ![o] = new]
      /\ tx => draft' = [draft EXCEPT ![At(o)] = Put(o, new)] /\ doc' = doc
      /\ ~tx => doc' = [doc EXCEPT ![o] = new] /\ draft' = draft
  BY DEF Written, WrittenIn
<1>3. /\ block'.phase = block.phase /\ block'.failed = block.failed
      /\ block'.tracked = block.tracked /\ block'.todo = block.todo
      /\ block'.met = block.met /\ block'.filter = block.filter
  BY DEF Written, WrittenIn, SavedInv, IInv, TypeOK, Blocks
<1>4. doc' \in [Obj -> Docs] /\ mem' \in [Obj -> Docs]
  BY <1>1, <1>2 DEF SavedInv, DataOK
<1>5. DOMAIN draft = Store /\ At(o) \in Store /\ \A x \in Obj : At(x) \in Store
  BY AtType DEF SavedInv, IInv, TypeOK
<1>6. mem'[o] = new /\ Visible(o)' = new
  <2>1. mem'[o] = new
    BY <1>2 DEF SavedInv, DataOK
  <2>2. CASE tx
    <3>1. draft'[At(o)] = Put(o, new)
      BY <1>2, <1>5, <2>2
    <3> QED BY <2>1, <3>1 DEF Visible, Put, At
  <2>3. CASE ~tx
    <3>1. doc'[o] = new /\ DOMAIN draft'[At(o)] = {}
      BY <1>2, <1>5, <2>3 DEF SavedInv, DataOK, IInv, DraftOK
    <3> QED BY <2>1, <3>1 DEF Visible, At
  <2> QED BY <2>2, <2>3
<1>7. ASSUME NEW x \in Obj, x # o PROVE mem'[x] = mem[x] /\ Visible(x)' = Visible(x)
  <2>1. mem'[x] = mem[x] /\ doc'[x] = doc[x]
    BY <1>2, <1>7 DEF SavedInv, DataOK
  <2>2. CASE tx /\ At(x) = At(o)
    <3>1. /\ draft'[At(x)] = Put(o, new)
          /\ DOMAIN Put(o, new) = DOMAIN draft[At(x)] \cup {o}
          /\ x \in DOMAIN draft[At(x)] => Put(o, new)[x] = draft[At(x)][x]
      BY <1>2, <1>5, <1>7, <2>2 DEF Put
    <3> QED BY <1>7, <2>1, <3>1 DEF Visible, At
  <2>3. CASE ~(tx /\ At(x) = At(o))
    <3>1. draft'[At(x)] = draft[At(x)]
      BY <1>2, <1>5, <2>3
    <3> QED BY <2>1, <3>1 DEF Visible, At
  <2> QED BY <2>2, <2>3
<1>8. DataOK'
  BY <1>1, <1>4, <1>6, <1>7 DEF SavedInv, DataOK
<1>9. DoneWith' = DoneWith /\ DoneWith \subseteq Obj
  BY <1>3 DEF DoneWith, Selected, SavedInv, IInv, TypeOK, Blocks, Range
<1>10. SavedOK'
  BY <1>3, <1>6, <1>7, <1>9 DEF SavedInv, SavedOK
<1> QED BY <1>8, <1>10 DEF SavedInv

\* A commit moves what the process sees from the draft to the documents.
LEMMA SavedCommit ==
    ASSUME SavedInv, IInv', CommitTop
    PROVE  SavedInv'
<1> PICK s : s = Top
  OBVIOUS
<1>1. s \in Range(block.open) /\ s \in Store
  <2>1. block.open \in Seq(Store) /\ block.open # << >>
    BY DEF CommitTop, Closing, SavedInv, IInv, TypeOK, Blocks
  <2>2. Len(block.open) \in DOMAIN block.open /\ block.open[Len(block.open)] \in Store
    BY <2>1
  <2> QED BY <2>2 DEF Top, Range
<1>2. /\ block'.phase = block.phase /\ block'.failed = block.failed
      /\ block'.tracked = block.tracked /\ block'.todo = block.todo
      /\ block'.met = block.met /\ block'.filter = block.filter
      /\ doc' = Committed(s) /\ draft' = [draft EXCEPT ![s] = << >>] /\ mem' = mem
  BY DEF CommitTop, Closing, Popped, SavedInv, IInv, TypeOK, Blocks
<1>3. DOMAIN draft = Store /\ DOMAIN draft[s] \subseteq In(s)
  BY <1>1 DEF SavedInv, IInv, TypeOK, DraftOK
<1>4. ASSUME NEW o \in Obj PROVE Visible(o)' = Visible(o) /\ doc'[o] \in Docs
  <2>1. doc'[o] = IF o \in DOMAIN draft[s] THEN draft[s][o] ELSE doc[o]
    BY <1>2 DEF Committed
  <2>2. CASE At(o) = s
    <3>1. DOMAIN draft'[s] = {}
      BY <1>1, <1>2, <1>3
    <3> QED BY <2>1, <2>2, <3>1 DEF Visible, At, SavedInv, DataOK
  <2>3. CASE At(o) # s
    <3>1. o \notin DOMAIN draft[s] /\ draft'[At(o)] = draft[At(o)]
      BY <1>2, <1>3, <2>3, AtType DEF In
    <3> QED BY <2>1, <3>1 DEF Visible, At, SavedInv, DataOK
  <2> QED BY <2>2, <2>3
<1>5. DataOK'
  <2>1. doc' \in [Obj -> Docs]
    BY <1>2, <1>4 DEF Committed
  <2> QED BY <1>2, <1>4, <2>1 DEF SavedInv, DataOK
<1>6. DoneWith' = DoneWith /\ DoneWith \subseteq Obj
  BY <1>2 DEF DoneWith, Selected, SavedInv, IInv, TypeOK, Blocks, Range
<1>7. SavedOK'
  BY <1>2, <1>4, <1>6 DEF SavedInv, SavedOK
<1> QED BY <1>5, <1>7 DEF SavedInv

\* A transaction that is lost in an exception, or in a crash: the documents
\* may be committed, and nothing is said of the block any more.
LEMMA SavedLost ==
    ASSUME SavedInv, IInv', block'.failed # "no", mem' \in {mem, doc},
           \/ doc' = doc /\ \A s \in Store : draft'[s] \in {draft[s], << >>}
           \/ \E s \in Store : /\ doc' = Committed(s)
                               /\ DOMAIN draft[s] \subseteq In(s)
                               /\ draft' = [draft EXCEPT ![s] = << >>]
    PROVE  SavedInv'
<1>1. DOMAIN draft = Store /\ \A o \in Obj : At(o) \in Store
  BY AtType DEF SavedInv, IInv, TypeOK
<1>2. DOMAIN << >> = {}
  OBVIOUS
<1>3. CASE doc' = doc /\ \A s \in Store : draft'[s] \in {draft[s], << >>}
  <2>1. \A o \in Obj : Visible(o)' \in Docs
    <3> SUFFICES ASSUME NEW o \in Obj PROVE Visible(o)' \in Docs
      OBVIOUS
    <3>1. CASE draft'[At(o)] = draft[At(o)]
      BY <1>3, <3>1 DEF Visible, At, SavedInv, DataOK
    <3>2. CASE draft'[At(o)] = << >>
      BY <1>2, <1>3, <3>2 DEF Visible, At, SavedInv, DataOK
    <3> QED BY <1>1, <1>3, <3>1, <3>2
  <2> QED BY <1>3, <2>1 DEF SavedInv, DataOK, SavedOK
<1>4. ASSUME NEW s \in Store, doc' = Committed(s), DOMAIN draft[s] \subseteq In(s),
             draft' = [draft EXCEPT ![s] = << >>]
      PROVE  SavedInv'
  <2>1. ASSUME NEW o \in Obj PROVE Visible(o)' \in Docs /\ doc'[o] \in Docs
    <3>1. doc'[o] = IF o \in DOMAIN draft[s] THEN draft[s][o] ELSE doc[o]
      BY <1>4 DEF Committed
    <3>2. CASE At(o) = s
      <4>1. DOMAIN draft'[s] = {}
        BY <1>1, <1>2, <1>4
      <4> QED BY <3>1, <3>2, <4>1 DEF Visible, At, SavedInv, DataOK
    <3>3. CASE At(o) # s
      <4>1. o \notin DOMAIN draft[s] /\ draft'[At(o)] = draft[At(o)]
        BY <1>1, <1>4, <3>3 DEF In
      <4> QED BY <3>1, <4>1 DEF Visible, At, SavedInv, DataOK
    <3> QED BY <3>2, <3>3
  <2>2. doc' \in [Obj -> Docs]
    BY <1>4, <2>1 DEF Committed
  <2> QED BY <2>1, <2>2 DEF SavedInv, DataOK, SavedOK
<1> QED BY <1>3, <1>4

LEMMA SavedInit == Init => SavedInv
<1> SUFFICES ASSUME Init PROVE SavedInv
  OBVIOUS
<1>1. IInv
  BY InitInv
<1>2. doc \in [Obj -> Docs] /\ mem \in [Obj -> Docs]
  BY DEF Init, Docs
<1>3. \A o \in Obj : Visible(o) \in Docs
  <2>1. Range(block.open) = {}
    BY DEF Init, Outside, Range
  <2> QED BY <1>1, <1>2, <2>1, NoDraft
<1>4. block.todo = << >> /\ Range(block.tracked) = {}
  BY DEF Init, Outside, Range
<1> QED BY <1>1, <1>2, <1>3, <1>4 DEF SavedInv, DataOK, SavedOK, DoneWith

LEMMA SavedNext == SavedInv /\ [Next]_vars => SavedInv'
<1> SUFFICES ASSUME SavedInv, [Next]_vars PROVE SavedInv'
  OBVIOUS
<1>1. IInv /\ IInv' /\ block \in Blocks
  BY StepInv DEF SavedInv, IInv, TypeOK
<1>2. ASSUME block'.phase = "in", UNCHANGED <<doc, draft>>, mem' \in [Obj -> Docs]
      PROVE  SavedInv'
  BY <1>1, <1>2 DEF SavedInv, DataOK, SavedOK, Visible
<1>3. ASSUME NEW F \in Filters, Enter(F) PROVE SavedInv'
  <2>1. block'.phase = "in" /\ UNCHANGED <<doc, draft, mem>>
    BY <1>3 DEF Enter, Outside
  <2> QED BY <1>2, <2>1 DEF SavedInv, DataOK
<1>4. ASSUME NEW o \in Obj, NEW v \in Value, Change(o, v) PROVE SavedInv'
  <2>1. block'.phase = "in" /\ UNCHANGED <<doc, draft>>
    BY <1>1, <1>4 DEF Change, Blocks
  <2>2. mem' = [mem EXCEPT ![o] = [mem[o] EXCEPT !.val = v]]
    BY <1>4 DEF Change
  <2>3. mem[o] \in Docs /\ [mem[o] EXCEPT !.val = v] \in Docs
    BY DEF SavedInv, DataOK, Docs
  <2> QED BY <1>2, <2>1, <2>2, <2>3 DEF SavedInv, DataOK
<1>5. ASSUME NEW o \in Obj, NEW v \in Value, OtherSaves(o, v) PROVE SavedInv'
  <2> PICK new : new = [rev |-> doc[o].rev + 1, val |-> v]
    OBVIOUS
  <2>1. new \in Docs
    BY DEF SavedInv, DataOK, Docs
  <2>2. doc' = [doc EXCEPT ![o] = new] /\ UNCHANGED <<draft, mem>>
    BY <1>5 DEF OtherSaves
  <2>3. Visible(o)' \in Docs /\ doc' \in [Obj -> Docs]
    BY <1>5, <2>1, <2>2 DEF Visible, At, OtherSaves, SavedInv, DataOK
  <2>4. \A x \in Obj \ {o} : Visible(x)' = Visible(x)
    BY <2>2 DEF Visible, At, SavedInv, DataOK
  <2>5. /\ block'.phase = block.phase /\ block'.failed = block.failed
        /\ block'.tracked = block.tracked /\ block'.todo = block.todo
        /\ block'.met = block.met \cup {o} /\ block'.filter = block.filter
    BY <1>1, <1>5 DEF OtherSaves, Blocks
  <2>6. DoneWith' = DoneWith \ {o} /\ DoneWith \subseteq Obj
    BY <1>1, <2>5 DEF DoneWith, Selected, Blocks, Range
  <2> QED BY <1>1, <2>2, <2>3, <2>4, <2>5, <2>6 DEF SavedInv, DataOK, SavedOK
<1>6. ASSUME Leave PROVE SavedInv'
  <2>1. /\ block'.todo = block.tracked /\ block'.tracked = block.tracked
        /\ block'.phase = "save" /\ UNCHANGED <<doc, draft, mem>>
    BY <1>1, <1>6 DEF Leave, Blocks
  <2>2. DoneWith' = {}
    BY <2>1 DEF DoneWith
  <2> QED BY <1>1, <2>1, <2>2 DEF SavedInv, DataOK, SavedOK, Visible
<1>7. ASSUME NEW s \in Store, OpenTx(s) PROVE SavedInv'
  <2>1. /\ block'.filter = block.filter /\ block'.tracked = block.tracked
        /\ block'.met = block.met /\ block'.failed = block.failed
        /\ block'.todo = block.todo
        /\ block.phase = "save" /\ block'.phase = "save" /\ UNCHANGED <<doc, draft, mem>>
    BY <1>1, <1>7 DEF OpenTx, Blocks
  <2> QED BY <1>1, <2>1, SavedSame
<1>8. ASSUME Throws("save"), block.phase = "save" PROVE SavedInv'
  <2>1. /\ block'.filter = block.filter /\ block'.tracked = block.tracked
        /\ block'.met = block.met /\ block'.failed = "save"
        /\ UNCHANGED <<doc, draft, mem>>
    BY <1>1, <1>8 DEF Throws, Blocks
  <2> QED BY <1>1, <2>1, SavedSame
<1>9. ASSUME Looping
      PROVE  /\ Head(block.todo) \in Obj /\ block.phase = "save"
             /\ \A o \in Range(block.todo) \ Range(Tail(block.todo)) : o = Head(block.todo)
  <2>1. block.todo \in Seq(Obj) /\ block.todo # << >> /\ block.phase = "save"
    BY <1>1, <1>9 DEF Looping, Blocks
  <2>2. Range(block.todo) \subseteq Range(Tail(block.todo)) \cup {Head(block.todo)}
    BY <2>1, RangeTail
  <2> QED BY <2>1, <2>2, HeadTailProperties
<1>10. ASSUME Looping, block' = [block EXCEPT !.todo = Tail(block.todo)],
              UNCHANGED <<doc, draft, mem>>,
              Selected(Head(block.todo)) => mem[Head(block.todo)] = Visible(Head(block.todo))
       PROVE  SavedInv'
  <2>1. /\ block'.filter = block.filter /\ block'.tracked = block.tracked
        /\ block'.met = block.met /\ block'.failed = block.failed
        /\ block'.phase = "save" /\ block'.todo = Tail(block.todo)
    BY <1>1, <1>9, <1>10 DEF Blocks
  <2>2. block'.failed = "no" =>
              /\ block.phase # "in" /\ block.failed = "no"
              /\ block'.phase \in {"close", "out"} => block'.todo = << >>
              /\ \A o \in Range(block.todo) \ Range(block'.todo) :
                    Selected(o) => mem[o] = Visible(o)
    BY <1>9, <1>10, <2>1
  <2> QED BY <1>1, <1>10, <2>1, <2>2, SavedSame
<1>11. ASSUME SaveRef PROVE SavedInv'
  <2>1. block.phase = "save" /\ Refers[Head(block.todo)] \in Obj
    BY <1>9, <1>11, BatchAssumption DEF SaveRef, Saving, Looping, NewRef
  <2> QED BY <1>1, <1>8, <1>11, <2>1, SavedWritten DEF SaveRef
<1>12. ASSUME SaveNext PROVE SavedInv'
  <2>1. Looping /\ block.phase = "save" /\ Head(block.todo) \in Obj
    BY <1>9, <1>12 DEF SaveNext, Saving
  <2>2. \/ Throws("save") \/ Written(Head(block.todo))
        \/ /\ block' = [block EXCEPT !.todo = Tail(block.todo)]
           /\ UNCHANGED <<doc, draft, mem>> /\ NoChange(Head(block.todo))
    BY <1>12 DEF SaveNext
  <2> QED BY <1>1, <1>8, <1>10, <2>1, <2>2, SavedWritten DEF NoChange
<1>13. ASSUME SkipNext PROVE SavedInv'
  BY <1>10, <1>13 DEF SkipNext
<1>14. ASSUME SaveFails PROVE SavedInv'
  BY <1>8, <1>14 DEF SaveFails, Saving, Looping
<1>15. ASSUME AllSaved \/ End PROVE SavedInv'
  <2>1. /\ block'.filter = block.filter /\ block'.tracked = block.tracked
        /\ block'.met = block.met /\ block'.failed = block.failed
        /\ block'.todo = block.todo /\ block.phase # "in"
        /\ block.todo = << >> \/ block.phase = "close"
        /\ UNCHANGED <<doc, draft, mem>>
    BY <1>1, <1>15 DEF AllSaved, End, Blocks
  <2>2. block.failed = "no" => block.todo = << >>
    BY <2>1 DEF SavedInv, SavedOK
  <2> QED BY <1>1, <2>1, <2>2, SavedSame
<1>16. ASSUME CommitTop PROVE SavedInv'
  BY <1>1, <1>16, SavedCommit
<1>17. ASSUME Closing
       PROVE  DOMAIN draft = Store /\ Top \in Store /\ DOMAIN draft[Top] \subseteq In(Top)
  <2>1. block.open \in Seq(Store) /\ block.open # << >>
    BY <1>1, <1>17 DEF Closing, Blocks
  <2>2. Len(block.open) \in DOMAIN block.open /\ block.open[Len(block.open)] \in Store
    BY <2>1
  <2>3. Top \in Store /\ Top \in Range(block.open)
    BY <2>2 DEF Top, Range
  <2> QED BY <1>1, <2>3 DEF IInv, TypeOK, DraftOK
<1>18. ASSUME CommitFails \/ AbortTop PROVE SavedInv'
  <2>1. /\ block'.failed # "no" /\ mem' = mem /\ Closing
        /\ doc' = doc \/ doc' = Committed(Top)
        /\ draft' = [draft EXCEPT ![Top] = << >>]
    BY <1>1, <1>18 DEF CommitFails, AbortTop, Popped, Blocks
  <2>2. \A s \in Store : draft'[s] \in {draft[s], << >>}
    BY <1>17, <2>1
  <2> QED BY <1>1, <1>17, <2>1, <2>2, SavedLost
<1>19. ASSUME Crash PROVE SavedInv'
  <2>1. /\ block'.failed # "no" /\ mem' = doc /\ doc' = doc
        /\ \A s \in Store : draft'[s] = << >>
    BY <1>1, <1>19 DEF Crash, Blocks
  <2> QED BY <1>1, <2>1, SavedLost
<1>20. ASSUME NEW o \in Obj, Reload(o) PROVE SavedInv'
  <2>1. /\ mem' = [mem EXCEPT ![o] = doc[o]] /\ UNCHANGED <<doc, draft, block>>
        /\ block.phase = "out"
    BY <1>20 DEF Reload
  <2>2. Visible(o) = doc[o]
    BY <1>1, <2>1, NoDraft DEF IInv, OpenOK, Range
  <2>3. /\ mem' \in [Obj -> Docs] /\ mem'[o] = Visible(o)
        /\ \A x \in Obj : x # o => mem'[x] = mem[x]
    BY <2>1, <2>2 DEF SavedInv, DataOK
  <2>4. \A x : Visible(x)' = Visible(x)
    BY <2>1 DEF Visible
  <2>5. DoneWith' = DoneWith /\ DoneWith \subseteq Obj
    BY <1>1, <2>1 DEF DoneWith, Selected, Blocks, Range
  <2>6. \A x \in DoneWith : mem[x] = Visible(x) => mem'[x] = Visible(x)
    BY <2>3, <2>5
  <2>7. SavedOK'
    BY <2>1, <2>4, <2>5, <2>6 DEF SavedInv, SavedOK
  <2>8. DataOK'
    BY <2>1, <2>3, <2>4 DEF SavedInv, DataOK
  <2> QED BY <1>1, <2>7, <2>8 DEF SavedInv
<1>21. ASSUME UNCHANGED vars PROVE SavedInv'
  BY <1>1, <1>21 DEF vars, SavedInv, DataOK, SavedOK, DoneWith, Visible, Selected, Range
<1> QED BY <1>3, <1>4, <1>5, <1>6, <1>7, <1>11, <1>12, <1>13, <1>14, <1>15, <1>16, <1>18,
           <1>19, <1>20, <1>21 DEF Next

\* A block that ends without an exception has saved every change it should have,
\* and the process holds what the stores have (SaveIfChanged, save).
THEOREM BlockIsComplete == Spec => []Complete
<1>1. SavedInv => Complete
  <2> SUFFICES ASSUME SavedInv, block.phase = "out", block.failed = "no",
                      NEW o \in Range(block.tracked) \ block.met, Selected(o)
               PROVE  doc[o] = mem[o]
    BY DEF Complete
  <2>1. block.todo = << >> /\ IInv /\ block \in Blocks
    BY DEF SavedInv, SavedOK, IInv, TypeOK
  <2>2. o \in DoneWith /\ o \in Obj
    BY <2>1 DEF DoneWith, Range, Blocks
  <2>3. Visible(o) = doc[o]
    BY <2>1, <2>2, NoDraft DEF IInv, OpenOK, Range
  <2> QED BY <2>2, <2>3 DEF SavedInv, SavedOK
<1> QED BY <1>1, SavedInit, SavedNext, PTL DEF Spec
=============================================================================
