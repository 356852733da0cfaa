---------------------------- MODULE AuditedStore ----------------------------
(***************************************************************************)
(* What a store of history-keeping traitables promises: the current        *)
(* content of a document and its audit trail change together.  A document  *)
(* (cell) may only become something that the same step appended to its     *)
(* trail (log), a copy of something the trail already held (a restore), or *)
(* nothing (a delete); the trail itself only ever grows at its end.        *)
(***************************************************************************)
EXTENDS Integers, Sequences

CONSTANTS Id,      \* identities of the documents
          Entry,   \* [rev, val, epoch] records: contents of a document
          NoDoc    \* the document does not exist

VARIABLES cell,    \* the committed content of each document
          log      \* the committed revisions of each document, oldest first

avars == <<cell, log>>

ATypeOK == /\ cell \in [Id -> Entry \cup {NoDoc}]
           /\ log \in [Id -> Seq(Entry)]

AInit == /\ cell = [i \in Id |-> NoDoc]
         /\ log = [i \in Id |-> <<>>]

\* The trail of i is kept and possibly extended at its end.
Extends(i) == /\ Len(log[i]) <= Len(log'[i])
              /\ \A k \in 1..Len(log[i]) : log'[i][k] = log[i][k]

\* The trail of i grew and its newest revision is what i now contains.
Audited(i) == /\ Len(log'[i]) > Len(log[i])
              /\ cell'[i] = log'[i][Len(log'[i])]

\* i became a first revision whose content some revision of its trail had.
CopiedFromTrail(i) ==
    /\ cell'[i] # NoDoc
    /\ cell'[i].rev = 1
    /\ \E k \in 1..Len(log'[i]) : log'[i][k].val = cell'[i].val

ANext == \A i \in Id :
            /\ Extends(i)
            /\ \/ cell'[i] = cell[i]
               \/ cell'[i] = NoDoc
               \/ Audited(i)
               \/ CopiedFromTrail(i)

ASpec == AInit /\ [][ANext]_avars
=============================================================================
