---------------------------- MODULE ProcessProofs ----------------------------
(***************************************************************************)
(* Theorems about what a process keeps to itself: its contexts (Contexts,  *)
(* for any tree of classes and any bound) and its logger (LogProcess, for  *)
(* any threads, pipes and bounds).                                         *)
(***************************************************************************)
EXTENDS Contexts, LogProcess, TLAPS, WellFoundedInduction, SequenceTheorems

Context ==
    [kind : {"store"}, store : Store]
    \cup [kind : {"flags"}, old : BOOLEAN]
    \cup [kind : {"asof"}, time : Time, classes : Lists]

TypeOK ==
    /\ helper \in [Class -> Time \cup {Live, None}]
    /\ stack \in Seq(Store) /\ bpc_flags \in [Store -> BOOLEAN] /\ cache_only \in BOOLEAN
    /\ open \in Seq(Context) /\ found \in Seq(Seq(Store) \X BOOLEAN)
    /\ mixed \in BOOLEAN

\* The last of the open contexts that cover a class.
IsInner(c, k) ==
    /\ k \in DOMAIN open /\ Covers(open[k], c)
    /\ \A j \in DOMAIN open : Covers(open[j], c) => j <= k

ReadsInner ==
    \A c \in Class, k \in DOMAIN open :
        IsInner(c, k) /\ OneLine(c) /\ helper[c] \in Time => helper[c] = open[k].time
ReadsLive ==
    \A c \in WithHistory, k \in DOMAIN open : helper[c] = Live => ~Covers(open[k], c)
\* A listed class keeps its helper until a later context covers it.
ListedRead ==
    \A k \in DOMAIN open : open[k].kind = "asof" =>
        \A x \in open[k].classes : IsInner(x, k) => helper[x] = open[k].time
NotLeft == ~left => ReadsInner /\ ReadsLive /\ ListedRead

IInv == TypeOK /\ NoTimeLeak /\ NotLeft

-----------------------------------------------------------------------------
LEMMA RemoveAtProps ==
    ASSUME NEW S, NEW s \in Seq(S), NEW k \in DOMAIN s
    PROVE  /\ RemoveAt(s, k) \in Seq(S) /\ Len(RemoveAt(s, k)) = Len(s) - 1
           /\ \A i \in 1..(Len(s) - 1) : RemoveAt(s, k)[i] = s[IF i < k THEN i ELSE i + 1]
<1> DEFINE a == SubSeq(s, 1, k - 1)
           b == SubSeq(s, k + 1, Len(s))
<1>1. a \in Seq(S) /\ Len(a) = k - 1 /\ \A i \in 1..(k - 1) : a[i] = s[i]
  <2>1. \A i \in 1..(k - 1) : s[i] \in S
    OBVIOUS
  <2> QED BY <2>1, SubSeqProperties
<1>2. b \in Seq(S) /\ Len(b) = Len(s) - k /\ \A i \in 1..(Len(s) - k) : b[i] = s[k + i]
  <2>1. \A i \in (k + 1)..Len(s) : s[i] \in S
    OBVIOUS
  <2> QED BY <2>1, SubSeqProperties
<1>3. RemoveAt(s, k) = a \o b
  BY DEF RemoveAt
<1> HIDE DEF a, b
<1>4. a \o b \in Seq(S) /\ Len(a \o b) = Len(s) - 1
  BY <1>1, <1>2
<1>5. ASSUME NEW i \in 1..(Len(s) - 1) PROVE (a \o b)[i] = s[IF i < k THEN i ELSE i + 1]
  <2>1. CASE i < k
    BY <1>1, <1>2, <2>1
  <2>2. CASE ~(i < k)
    <3>1. i \in 1..(Len(a) + Len(b)) /\ ~(i <= Len(a)) /\ i - (k - 1) \in 1..(Len(s) - k)
      BY <1>1, <1>2, <2>2
    <3>2. \A j \in 1..(Len(a) + Len(b)) : (a \o b)[j] = IF j <= Len(a) THEN a[j] ELSE b[j - Len(a)]
      BY <1>1, <1>2, ConcatProperties
    <3>3. b[i - (k - 1)] = s[k + (i - (k - 1))] /\ k + (i - (k - 1)) = i + 1
      BY <1>2, <3>1
    <3>4. (a \o b)[i] = b[i - Len(a)]
      BY <3>1, <3>2
    <3> QED BY <1>1, <2>2, <3>3, <3>4
  <2> QED BY <2>1, <2>2
<1> QED BY <1>3, <1>4, <1>5

LEMMA Minimum ==
    ASSUME NEW T, T \subseteq Nat, T # {}
    PROVE  \E k \in T : \A j \in T : k <= j
<1> DEFINE R == {ss \in Nat \X Nat : ss[1] < ss[2]}
<1>1. IsWellFoundedOn(R, Nat)
  BY NatLessThanWellFounded DEF OpToRel
<1>2. \E k \in T : \A j \in T : ~(<<j, k>> \in R)
  <2> HIDE DEF R
  <2> QED BY <1>1, WFMin
<1>3. \A j, k \in T : ~(<<j, k>> \in R) => k <= j
  OBVIOUS
<1> HIDE DEF R
<1> QED BY <1>2, <1>3

LEMMA BelowBelow ==
    ASSUME NEW a \in Class, NEW b \in Class, a \in Range(Mro[b]), NEW context, Covers(context, a)
    PROVE  Covers(context, b)
<1>1. PICK d \in Range(Mro[a]) : d \in context.classes
  BY DEF Covers, Below
<1>2. d \in Class
  BY <1>1, ContextsAssumption DEF Range
<1>3. d \in Range(Mro[b])
  BY <1>1, <1>2, ContextsAssumption
<1> QED BY <1>1, <1>3 DEF Covers, Below

\* If a context covers a class, one of those that do is the innermost.
LEMMA InnerExists ==
    ASSUME TypeOK, NEW c \in Class, NEW k \in DOMAIN open, Covers(open[k], c)
    PROVE  \E j \in DOMAIN open : IsInner(c, j)
<1> DEFINE T == {Len(open) - j : j \in {j \in DOMAIN open : Covers(open[j], c)}}
<1>1. T \subseteq Nat /\ T # {}
  BY DEF TypeOK
<1>2. PICK m \in T : \A n \in T : m <= n
  BY <1>1, Minimum
<1>3. PICK j \in DOMAIN open : Covers(open[j], c) /\ m = Len(open) - j
  BY <1>2
<1>4. \A i \in DOMAIN open : Covers(open[i], c) => i <= j
  <2> SUFFICES ASSUME NEW i \in DOMAIN open, Covers(open[i], c) PROVE i <= j
    OBVIOUS
  <2>1. m <= Len(open) - i
    BY <1>2
  <2> QED BY <1>3, <2>1 DEF TypeOK
<1> QED BY <1>3, <1>4 DEF IsInner
-----------------------------------------------------------------------------
LEMMA InitInv == Init => IInv
<1> SUFFICES ASSUME Init PROVE IInv
  OBVIOUS
<1>1. open = << >> /\ DOMAIN open = {} /\ open \in Seq(Context)
  BY DEF Init
<1>2. TypeOK
  <2>1. stack \in Seq(Store) /\ found \in Seq(Seq(Store) \X BOOLEAN)
    BY DEF Init
  <2> QED BY <1>1, <2>1 DEF Init, TypeOK
<1>3. NoTimeLeak
  BY ContextsAssumption DEF Init, NoTimeLeak
<1>4. NotLeft
  BY <1>1 DEF NotLeft, ReadsInner, ReadsLive, ListedRead
<1> QED BY <1>2, <1>3, <1>4 DEF IInv

\* A context that is not an as-of context comes.
LEMMA OtherOpened ==
    ASSUME TypeOK, NoTimeLeak, NotLeft, NEW context \in Context, context.kind # "asof",
           open' = Append(open, context), UNCHANGED <<helper, left>>
    PROVE  NoTimeLeak' /\ NotLeft'
<1>1. /\ \A k \in DOMAIN open : k \in DOMAIN open' /\ open'[k] = open[k]
      /\ \A k \in DOMAIN open' : ~(k \in DOMAIN open) => open'[k] = context
  BY DEF TypeOK
<1>2. \A c : \A k \in DOMAIN open' : Covers(open'[k], c) => k \in DOMAIN open
  BY <1>1 DEF Covers
<1>3. \A c, k : IsInner(c, k)' => IsInner(c, k)
  BY <1>1, <1>2 DEF IsInner
<1>4. NoTimeLeak'
  BY <1>1 DEF NoTimeLeak
<1>5. ASSUME ~left' PROVE ReadsInner' /\ ReadsLive'
  <2>1. ReadsInner'
    BY <1>1, <1>3, <1>5 DEF NotLeft, ReadsInner, IsInner
  <2>2. ReadsLive'
    BY <1>1, <1>2, <1>5 DEF NotLeft, ReadsLive
  <2> QED BY <2>1, <2>2
<1>6. ASSUME ~left' PROVE ListedRead'
  BY <1>1, <1>3, <1>6 DEF NotLeft, ListedRead, IsInner
<1> QED BY <1>4, <1>5, <1>6 DEF NotLeft

\* The positions after a context has left.
LEMMA RemovedAt ==
    ASSUME TypeOK, NEW k \in DOMAIN open, open' = RemoveAt(open, k)
    PROVE  /\ open' \in Seq(Context)
           /\ \A i \in DOMAIN open' :
                LET j == IF i < k THEN i ELSE i + 1
                IN  j \in DOMAIN open /\ j # k /\ open'[i] = open[j]
           /\ \A j \in DOMAIN open : j # k =>
                LET i == IF j < k THEN j ELSE j - 1
                IN  i \in DOMAIN open' /\ open'[i] = open[j]
<1>1. /\ open' \in Seq(Context) /\ Len(open') = Len(open) - 1
      /\ \A i \in 1..(Len(open) - 1) : open'[i] = open[IF i < k THEN i ELSE i + 1]
  BY RemoveAtProps DEF TypeOK
<1>2. /\ Len(open) \in Nat /\ k \in 1..Len(open)
      /\ DOMAIN open = 1..Len(open) /\ DOMAIN open' = 1..(Len(open) - 1)
  BY <1>1 DEF TypeOK
<1> QED BY <1>1, <1>2

LEMMA RemovedInner ==
    ASSUME TypeOK, NEW k \in DOMAIN open, open' = RemoveAt(open, k),
           NEW c, ~Covers(open[k], c), NEW i, IsInner(c, i)'
    PROVE  \E j \in DOMAIN open : IsInner(c, j) /\ open'[i] = open[j]
<1> DEFINE j == IF i < k THEN i ELSE i + 1
<1>1. i \in DOMAIN open' /\ Covers(open'[i], c) /\ \A h \in DOMAIN open' : Covers(open'[h], c) => h <= i
  BY DEF IsInner
<1>2. j \in DOMAIN open /\ open'[i] = open[j] /\ Covers(open[j], c)
  BY <1>1, RemovedAt
<1>3. ASSUME NEW h \in DOMAIN open, Covers(open[h], c) PROVE h <= j
  <2> DEFINE g == IF h < k THEN h ELSE h - 1
  <2>1. h # k /\ g \in DOMAIN open' /\ open'[g] = open[h]
    BY <1>3, RemovedAt
  <2>2. g <= i
    BY <1>1, <1>3, <2>1
  <2>3. i \in Nat /\ h \in Nat /\ k \in Nat
    BY <1>1, RemovedAt DEF TypeOK
  <2> QED BY <2>1, <2>2, <2>3
<1> HIDE DEF j
<1> QED BY <1>2, <1>3 DEF IsInner

\* A context that is not an as-of context leaves.
LEMMA OtherClosed ==
    ASSUME TypeOK, NoTimeLeak, NotLeft, NEW k \in DOMAIN open, open[k].kind # "asof",
           open' = RemoveAt(open, k), UNCHANGED <<helper, left>>
    PROVE  NoTimeLeak' /\ NotLeft'
<1>1. \A c : ~Covers(open[k], c)
  BY DEF Covers
<1>2. NoTimeLeak'
  BY <1>1, RemovedAt DEF NoTimeLeak
<1>3. \A i \in DOMAIN open' : \E j \in DOMAIN open : open'[i] = open[j]
  BY RemovedAt
<1>4. ASSUME NEW c, NEW i, IsInner(c, i)'
      PROVE  \E j \in DOMAIN open : IsInner(c, j) /\ open'[i] = open[j]
  BY <1>1, <1>4, RemovedInner
<1>5. ASSUME ~left' PROVE ReadsInner'
  BY <1>4, <1>5 DEF NotLeft, ReadsInner
<1>6. ASSUME ~left' PROVE ReadsLive'
  BY <1>3, <1>6 DEF NotLeft, ReadsLive
<1>7. ASSUME ~left' PROVE ListedRead'
  BY <1>4, <1>7 DEF NotLeft, ListedRead
<1> QED BY <1>2, <1>5, <1>6, <1>7 DEF NotLeft

LEMMA InvEnterAsOf ==
    ASSUME IInv, NEW t \in Time, NEW cs \in Lists, EnterAsOf(t, cs)
    PROVE  NoTimeLeak' /\ NotLeft'
<1> DEFINE new == [kind |-> "asof", time |-> t, classes |-> cs]
           n == Len(open) + 1
<1>1. /\ Len(open) \in Nat /\ DOMAIN open = 1..Len(open)
      /\ DOMAIN open' = 1..n /\ open'[n] = new /\ n \in Nat /\ n \in DOMAIN open'
      /\ \A k \in DOMAIN open : k \in DOMAIN open' /\ open'[k] = open[k] /\ k < n /\ ~(n <= k)
      /\ \A k \in DOMAIN open' : k = n \/ k \in DOMAIN open
  BY DEF IInv, TypeOK, EnterAsOf, Opens
<1>2. \A c \in Class : /\ c \in cs => helper'[c] = t
                       /\ c \in Below(cs) \ cs => helper'[c] = None
                       /\ c \notin Below(cs) /\ c \notin cs => helper'[c] = helper[c]
  BY DEF EnterAsOf
<1>3. \A c \in cs : c \in Class /\ c \in Below(cs)
  BY ContextsAssumption DEF Below
<1>4. \A c : Covers(new, c) <=> c \in Below(cs)
  BY DEF Covers
<1> HIDE DEF new, n
<1>5. \A c, k : IsInner(c, k)' => \/ k = n /\ c \in Below(cs)
                                  \/ k \in DOMAIN open /\ IsInner(c, k) /\ c \notin Below(cs)
  <2> SUFFICES ASSUME NEW c, NEW k, IsInner(c, k)'
               PROVE  \/ k = n /\ c \in Below(cs)
                      \/ k \in DOMAIN open /\ IsInner(c, k) /\ c \notin Below(cs)
    OBVIOUS
  <2>1. /\ k \in DOMAIN open' /\ Covers(open'[k], c)
        /\ \A j \in DOMAIN open' : Covers(open'[j], c) => j <= k
    BY DEF IsInner
  <2>2. CASE k = n
    BY <2>1, <2>2, <1>1, <1>4
  <2>3. CASE k # n
    <3>1. k \in DOMAIN open /\ open'[k] = open[k] /\ ~Covers(open'[n], c)
      BY <2>1, <2>3, <1>1
    <3>2. \A j \in DOMAIN open : Covers(open[j], c) => j <= k
      BY <2>1, <1>1
    <3> QED BY <2>1, <3>1, <3>2, <1>1, <1>4 DEF IsInner
  <2> QED BY <2>2, <2>3
<1>6. new.time = t /\ new.classes = cs
  BY DEF new
<1>7. NoTimeLeak'
  <2> SUFFICES ASSUME NEW c \in Class, helper'[c] \in Time
               PROVE  \E k \in DOMAIN open' : Covers(open'[k], c) /\ open'[k].time = helper'[c]
    BY DEF NoTimeLeak
  <2>1. CASE c \in cs
    BY <2>1, <1>1, <1>2, <1>3, <1>4, <1>6
  <2>2. CASE c \notin cs
    <3>1. c \notin Below(cs) /\ helper'[c] = helper[c]
      BY <2>2, <1>2, <1>3, ContextsAssumption
    <3>2. PICK k \in DOMAIN open : Covers(open[k], c) /\ open[k].time = helper[c]
      BY <3>1 DEF IInv, NoTimeLeak
    <3> QED BY <3>1, <3>2, <1>1
  <2> QED BY <2>1, <2>2
<1>8. ASSUME ~left' PROVE ReadsInner'
  <2> SUFFICES ASSUME NEW c \in Class, NEW k \in DOMAIN open', IsInner(c, k)', OneLine(c),
                      helper'[c] \in Time
               PROVE  helper'[c] = open'[k].time
    BY DEF ReadsInner
  <2>1. CASE k = n /\ c \in Below(cs)
    BY <2>1, <1>1, <1>2, <1>6, ContextsAssumption
  <2>2. CASE k \in DOMAIN open /\ IsInner(c, k) /\ c \notin Below(cs)
    BY <2>2, <1>1, <1>2, <1>3, <1>8 DEF IInv, NotLeft, ReadsInner, EnterAsOf, Opens
  <2> QED BY <2>1, <2>2, <1>5
<1>9. ASSUME ~left' PROVE ReadsLive'
  <2> SUFFICES ASSUME NEW c \in WithHistory, NEW k \in DOMAIN open', helper'[c] = Live
               PROVE  ~Covers(open'[k], c)
    BY DEF ReadsLive
  <2>1. c \in Class /\ c \notin Below(cs) /\ helper[c] = Live
    BY <1>2, <1>3, ContextsAssumption
  <2> QED BY <2>1, <1>1, <1>4, <1>9 DEF IInv, NotLeft, ReadsLive, EnterAsOf, Opens
<1>10. ASSUME ~left' PROVE ListedRead'
  <2> SUFFICES ASSUME NEW k \in DOMAIN open', open'[k].kind = "asof",
                      NEW x \in open'[k].classes, IsInner(x, k)'
               PROVE  helper'[x] = open'[k].time
    BY DEF ListedRead
  <2>1. CASE k = n
    BY <2>1, <1>1, <1>2, <1>3, <1>6
  <2>2. CASE k # n
    <3>1. k \in DOMAIN open /\ IsInner(x, k) /\ x \notin Below(cs) /\ open'[k] = open[k]
      BY <2>2, <1>1, <1>5
    <3>2. x \in Class
      BY <3>1 DEF IsInner, Covers, Below
    <3> QED BY <3>1, <3>2, <1>2, <1>3, <1>10 DEF IInv, NotLeft, ListedRead, EnterAsOf, Opens
  <2> QED BY <2>1, <2>2
<1> QED BY <1>7, <1>8, <1>9, <1>10 DEF NotLeft

LEMMA InvExitAsOf ==
    ASSUME IInv, NEW k \in DOMAIN open, ExitAsOf(k)
    PROVE  NoTimeLeak' /\ NotLeft'
<1>1. \A c \in Class : helper'[c] = IF c \in Below(open[k].classes) THEN None ELSE helper[c]
  BY DEF ExitAsOf
<1>2. open' = RemoveAt(open, k) /\ open[k].kind = "asof"
  BY DEF ExitAsOf, Closes
<1>3. NoTimeLeak'
  <2> SUFFICES ASSUME NEW c \in Class, helper'[c] \in Time
               PROVE  \E i \in DOMAIN open' : Covers(open'[i], c) /\ open'[i].time = helper'[c]
    BY DEF NoTimeLeak
  <2>1. c \notin Below(open[k].classes) /\ helper'[c] = helper[c]
    BY <1>1, ContextsAssumption
  <2>2. PICK j \in DOMAIN open : Covers(open[j], c) /\ open[j].time = helper[c]
    BY <2>1 DEF IInv, NoTimeLeak
  <2>3. j # k
    BY <2>1, <2>2 DEF Covers
  <2>4. \E i \in DOMAIN open' : open'[i] = open[j]
    BY <1>2, <2>3, RemovedAt DEF IInv
  <2> QED BY <2>1, <2>2, <2>4
<1>4. ASSUME ~left' PROVE \A c : \A i \in DOMAIN open' : ~Covers(open'[i], c)
  <2>1. \A j \in DOMAIN open : j # k => open[j].kind # "asof"
    BY <1>4 DEF ExitAsOf
  <2> QED BY <2>1, <1>2, RemovedAt DEF Covers, IInv
<1>5. ASSUME ~left' PROVE ReadsInner' /\ ReadsLive' /\ ListedRead'
  BY <1>4, <1>5 DEF ReadsInner, ReadsLive, ListedRead, IsInner
<1> QED BY <1>3, <1>5 DEF NotLeft

-----------------------------------------------------------------------------
(* The resolution of a helper *)

LEMMA MroType == \A c \in Class : \A b \in Range(Mro[c]) : b \in Class
  BY ContextsAssumption DEF Range

LEMMA FirstAsOfProps ==
    ASSUME NEW c \in Class, \E b \in Range(Mro[c]) : helper[b] \in Time
    PROVE  \E i \in DOMAIN Mro[c] :
              /\ helper[Mro[c][i]] \in Time /\ FirstAsOf(c) = helper[Mro[c][i]]
              /\ \A j \in DOMAIN Mro[c] : helper[Mro[c][j]] \in Time => i <= j
<1> DEFINE at == {k \in DOMAIN Mro[c] : helper[Mro[c][k]] \in Time}
           i  == CHOOSE k \in at : \A j \in at : k <= j
<1>1. at \subseteq Nat
  BY ContextsAssumption
<1>2. at # {}
  BY DEF Range
<1>3. \E k \in at : \A j \in at : k <= j
  <2> HIDE DEF at
  <2> QED BY <1>1, <1>2, Minimum
<1>4. i \in at /\ \A j \in at : i <= j
  <2> HIDE DEF at
  <2> QED BY <1>3
<1>5. FirstAsOf(c) = helper[Mro[c][i]]
  BY DEF FirstAsOf
<1> HIDE DEF i
<1> QED BY <1>4, <1>5

\* A class that an as-of context covers has a base that is read at its time.
LEMMA CoveredBase ==
    ASSUME IInv, ~left, NEW c \in Class, NEW k \in DOMAIN open, IsInner(c, k)
    PROVE  \E x \in Range(Mro[c]) : /\ x \in open[k].classes /\ Covers(open[k], x)
                                    /\ helper[x] = open[k].time /\ helper[x] \in Time
<1>1. Covers(open[k], c) /\ open[k].kind = "asof"
  BY DEF IsInner, Covers
<1>2. PICK x \in Range(Mro[c]) : x \in open[k].classes
  BY <1>1 DEF Covers, Below
<1>3. x \in Class
  BY MroType
<1>4. Covers(open[k], x)
  BY <1>1, <1>2, <1>3, ContextsAssumption DEF Covers, Below
<1>5. IsInner(x, k)
  BY <1>3, <1>4, BelowBelow DEF IsInner
<1>6. helper[x] = open[k].time
  BY <1>1, <1>2, <1>5 DEF IInv, NotLeft, ListedRead
<1>7. open[k].time \in Time
  BY <1>1 DEF IInv, TypeOK, Context
<1> QED BY <1>2, <1>4, <1>6, <1>7

LEMMA FirstIsInner ==
    ASSUME IInv, ~left, NEW c \in Class, OneLine(c), NEW k \in DOMAIN open, IsInner(c, k)
    PROVE  FirstAsOf(c) = open[k].time
<1>1. PICK x \in Range(Mro[c]) : /\ x \in open[k].classes /\ Covers(open[k], x)
                                 /\ helper[x] = open[k].time /\ helper[x] \in Time
  BY CoveredBase
<1>2. PICK i \in DOMAIN Mro[c] :
          /\ helper[Mro[c][i]] \in Time /\ FirstAsOf(c) = helper[Mro[c][i]]
          /\ \A j \in DOMAIN Mro[c] : helper[Mro[c][j]] \in Time => i <= j
  BY <1>1, FirstAsOfProps
<1>3. PICK j \in DOMAIN Mro[c] : x = Mro[c][j]
  BY DEF Range
<1> DEFINE y == Mro[c][i]
<1>4. y \in Range(Mro[c]) /\ y \in Class /\ x \in Class
  BY MroType DEF Range
<1>5. CASE i = j
  BY <1>1, <1>2, <1>3, <1>5
<1>6. CASE i # j
  <2>1. i < j
    BY <1>1, <1>2, <1>3, <1>6, ContextsAssumption
  <2>2. y \notin Range(Mro[x])
    BY <1>3, <2>1, ContextsAssumption
  <2>3. x \in Range(Mro[y])
    BY <1>4, <2>2 DEF OneLine
  <2>4. Covers(open[k], y)
    BY <1>1, <1>4, <2>3, BelowBelow
  <2>5. IsInner(y, k)
    BY <1>4, <2>4, BelowBelow DEF IsInner
  <2>6. OneLine(y)
    <3>1. \A a \in Range(Mro[y]) : a \in Range(Mro[c])
      BY <1>4, MroType, ContextsAssumption
    <3> QED BY <3>1 DEF OneLine
  <2>7. helper[y] = open[k].time
    BY <1>2, <1>4, <2>5, <2>6 DEF IInv, NotLeft, ReadsInner
  <2> QED BY <1>2, <2>7
<1> QED BY <1>5, <1>6

LEMMA InvUse ==
    ASSUME IInv, NEW c \in Class, Use(c)
    PROVE  NoTimeLeak' /\ NotLeft'
<1>1. /\ helper[c] = None /\ helper'[c] = Resolved(c)
      /\ \A b \in Class : b # c => helper'[b] = helper[b]
      /\ UNCHANGED <<open, left>>
  BY DEF Use, IInv, TypeOK
<1>2. ASSUME Resolved(c) # Live
      PROVE  \E b \in Range(Mro[c]) : helper[b] \in Time /\ FirstAsOf(c) = helper[b]
  <2>1. \E b \in Range(Mro[c]) : helper[b] \in Time
    BY <1>2 DEF Resolved
  <2> QED BY <2>1, FirstAsOfProps DEF Range
<1>3. NoTimeLeak'
  <2> SUFFICES ASSUME NEW b \in Class, helper'[b] \in Time
               PROVE  \E k \in DOMAIN open : Covers(open[k], b) /\ open[k].time = helper'[b]
    BY <1>1 DEF NoTimeLeak
  <2>1. CASE b # c
    BY <2>1, <1>1 DEF IInv, NoTimeLeak
  <2>2. CASE b = c
    <3>1. Resolved(c) # Live /\ helper'[b] = Resolved(c)
      BY <2>2, <1>1, ContextsAssumption
    <3>2. PICK a \in Range(Mro[c]) : helper[a] \in Time /\ Resolved(c) = helper[a]
      BY <1>2, <3>1 DEF Resolved
    <3>3. a \in Class
      BY MroType
    <3>4. PICK k \in DOMAIN open : Covers(open[k], a) /\ open[k].time = helper[a]
      BY <3>2, <3>3 DEF IInv, NoTimeLeak
    <3> QED BY <2>2, <3>1, <3>2, <3>3, <3>4, BelowBelow
  <2> QED BY <2>1, <2>2
<1>4. \A b, k : IsInner(b, k)' <=> IsInner(b, k)
  BY <1>1 DEF IsInner
<1>5. ASSUME ~left' PROVE ReadsInner'
  <2> SUFFICES ASSUME NEW b \in Class, NEW k \in DOMAIN open, IsInner(b, k), OneLine(b),
                      helper'[b] \in Time
               PROVE  helper'[b] = open[k].time
    BY <1>1, <1>4 DEF ReadsInner
  <2>1. CASE b # c
    BY <2>1, <1>1, <1>5 DEF IInv, NotLeft, ReadsInner
  <2>2. CASE b = c
    <3>1. helper'[b] = FirstAsOf(c)
      BY <2>2, <1>1, ContextsAssumption DEF Resolved
    <3> QED BY <2>2, <3>1, <1>1, <1>5, FirstIsInner
  <2> QED BY <2>1, <2>2
<1>6. ASSUME ~left' PROVE ReadsLive'
  <2> SUFFICES ASSUME NEW b \in WithHistory, NEW k \in DOMAIN open, helper'[b] = Live,
                      Covers(open[k], b)
               PROVE  FALSE
    BY <1>1 DEF ReadsLive
  <2>1. CASE b # c
    BY <2>1, <1>1, <1>6, ContextsAssumption DEF IInv, NotLeft, ReadsLive
  <2>2. CASE b = c
    <3>1. PICK j \in DOMAIN open : IsInner(c, j)
      BY <2>2, InnerExists DEF IInv
    <3>2. PICK x \in Range(Mro[c]) : helper[x] \in Time
      BY <3>1, <1>1, <1>6, CoveredBase
    <3>3. PICK a \in Range(Mro[c]) : helper[a] \in Time /\ FirstAsOf(c) = helper[a]
      BY <3>2, FirstAsOfProps DEF Range
    <3>4. Resolved(c) = helper[a]
      BY <2>2, <3>2, <3>3 DEF Resolved
    <3> QED BY <2>2, <3>3, <3>4, <1>1, ContextsAssumption
  <2> QED BY <2>1, <2>2
<1>7. ASSUME ~left' PROVE ListedRead'
  <2> SUFFICES ASSUME NEW k \in DOMAIN open, open[k].kind = "asof", NEW x \in open[k].classes,
                      IsInner(x, k)
               PROVE  helper'[x] = open[k].time
    BY <1>1, <1>4 DEF ListedRead
  <2>1. x \in Class /\ helper[x] = open[k].time
    BY <1>1, <1>7 DEF IInv, NotLeft, ListedRead, IsInner, Covers, Below
  <2>2. open[k].time \in Time
    BY DEF IInv, TypeOK, Context
  <2> QED BY <2>1, <2>2, <1>1, ContextsAssumption
<1> QED BY <1>3, <1>5, <1>6, <1>7 DEF NotLeft

-----------------------------------------------------------------------------
LEMMA FoundType ==
    ASSUME TypeOK, NEW context, NEW again \in BOOLEAN, Opens(context, again)
    PROVE  found' \in Seq(Seq(Store) \X BOOLEAN) /\ mixed' \in BOOLEAN
<1>1. <<stack, cache_only>> \in Seq(Store) \X BOOLEAN
  BY DEF TypeOK
<1>2. << >> \in Seq(Seq(Store) \X BOOLEAN)
  OBVIOUS
<1>3. Append(found, <<stack, cache_only>>) \in Seq(Seq(Store) \X BOOLEAN)
  BY <1>1 DEF TypeOK
<1> QED BY <1>2, <1>3 DEF Opens, TypeOK

LEMMA ClosedType ==
    ASSUME TypeOK, NEW k \in DOMAIN open, Closes(k)
    PROVE  /\ open' \in Seq(Context)
           /\ found' \in Seq(Seq(Store) \X BOOLEAN) /\ mixed' \in BOOLEAN
<1>1. open' \in Seq(Context)
  BY RemovedAt DEF Closes
<1>2. Front(found) \in Seq(Seq(Store) \X BOOLEAN)
  BY SubSeqProperties DEF Front, TypeOK
<1>3. << >> \in Seq(Seq(Store) \X BOOLEAN)
  OBVIOUS
<1> QED BY <1>1, <1>2, <1>3 DEF Closes, TypeOK

LEMMA TypeStep == TypeOK /\ [Next]_vars => TypeOK'
<1> SUFFICES ASSUME TypeOK, [Next]_vars PROVE TypeOK'
  OBVIOUS
<1>1. ASSUME NEW s \in Store, BeginUsing(s) PROVE TypeOK'
  <2>1. [kind |-> "store", store |-> s] \in Context
    BY DEF Context
  <2>2. open' \in Seq(Context) /\ stack' \in Seq(Store)
    BY <1>1, <2>1 DEF BeginUsing, Opens, TypeOK
  <2>3. found' \in Seq(Seq(Store) \X BOOLEAN) /\ mixed' \in BOOLEAN
    <3>1. (s \in Range(stack)) \in BOOLEAN
      OBVIOUS
    <3> QED BY <1>1, <3>1, FoundType DEF BeginUsing
  <2> QED BY <1>1, <2>2, <2>3 DEF BeginUsing, on_enter, TypeOK
<1>2. CASE EnterCacheOnly
  <2>1. [kind |-> "flags", old |-> cache_only] \in Context
    BY DEF Context, TypeOK
  <2>2. found' \in Seq(Seq(Store) \X BOOLEAN) /\ mixed' \in BOOLEAN
    BY <1>2, FoundType DEF EnterCacheOnly
  <2> QED BY <1>2, <2>1, <2>2 DEF EnterCacheOnly, Opens, TypeOK
<1>3. ASSUME NEW t \in Time, NEW cs \in Lists, EnterAsOf(t, cs) PROVE TypeOK'
  <2>1. [kind |-> "asof", time |-> t, classes |-> cs] \in Context
    BY DEF Context
  <2>2. helper' \in [Class -> Time \cup {Live, None}]
    BY <1>3 DEF EnterAsOf, TypeOK
  <2>3. found' \in Seq(Seq(Store) \X BOOLEAN) /\ mixed' \in BOOLEAN
    BY <1>3, FoundType DEF EnterAsOf
  <2> QED BY <1>3, <2>1, <2>2, <2>3 DEF EnterAsOf, Opens, TypeOK
<1>4. ASSUME NEW k \in DOMAIN open, EndUsing(k) PROVE TypeOK'
  <2>1. open[k].store \in Store
    <3>1. open[k] \in Context /\ open[k].kind = "store"
      BY <1>4 DEF EndUsing, TypeOK
    <3> QED BY <3>1 DEF Context
  <2>2. Front(stack) \in Seq(Store)
    BY SubSeqProperties DEF Front, TypeOK
  <2>3. open' \in Seq(Context) /\ found' \in Seq(Seq(Store) \X BOOLEAN) /\ mixed' \in BOOLEAN
    BY <1>4, ClosedType DEF EndUsing
  <2> QED BY <1>4, <2>1, <2>2, <2>3 DEF EndUsing, on_exit, TypeOK
<1>5. ASSUME NEW k \in DOMAIN open, ExitCacheOnly(k) PROVE TypeOK'
  <2>1. open[k].old \in BOOLEAN
    <3>1. open[k] \in Context /\ open[k].kind = "flags"
      BY <1>5 DEF ExitCacheOnly, TypeOK
    <3> QED BY <3>1 DEF Context
  <2>2. open' \in Seq(Context) /\ found' \in Seq(Seq(Store) \X BOOLEAN) /\ mixed' \in BOOLEAN
    BY <1>5, ClosedType DEF ExitCacheOnly
  <2> QED BY <1>5, <2>1, <2>2 DEF ExitCacheOnly, TypeOK
<1>6. ASSUME NEW k \in DOMAIN open, ExitAsOf(k) PROVE TypeOK'
  <2>1. open' \in Seq(Context) /\ found' \in Seq(Seq(Store) \X BOOLEAN) /\ mixed' \in BOOLEAN
    BY <1>6, ClosedType DEF ExitAsOf
  <2> QED BY <1>6, <2>1 DEF ExitAsOf, TypeOK
<1>7. ASSUME NEW c \in Class, Use(c) PROVE TypeOK'
  <2>1. Resolved(c) \in Time \cup {Live, None}
    BY FirstAsOfProps, MroType DEF Resolved, TypeOK
  <2> QED BY <1>7, <2>1 DEF Use, TypeOK
<1>8. CASE UNCHANGED vars
  BY <1>8 DEF vars, TypeOK
<1> QED BY <1>1, <1>2, <1>3, <1>4, <1>5, <1>6, <1>7, <1>8 DEF Next

LEMMA StepInv == IInv /\ [Next]_vars => IInv'
<1> SUFFICES ASSUME IInv, [Next]_vars PROVE IInv'
  OBVIOUS
<1> USE DEF IInv
<1>1. TypeOK'
  BY TypeStep
<1>2. ASSUME NEW s \in Store, BeginUsing(s) PROVE NoTimeLeak' /\ NotLeft'
  <2>1. [kind |-> "store", store |-> s] \in Context
    BY DEF Context
  <2> QED BY <1>2, <2>1, OtherOpened DEF BeginUsing, Opens
<1>3. ASSUME EnterCacheOnly PROVE NoTimeLeak' /\ NotLeft'
  <2>1. [kind |-> "flags", old |-> cache_only] \in Context
    BY DEF Context, TypeOK
  <2> QED BY <1>3, <2>1, OtherOpened DEF EnterCacheOnly, Opens
<1>4. ASSUME NEW t \in Time, NEW cs \in Lists, EnterAsOf(t, cs) PROVE NoTimeLeak' /\ NotLeft'
  BY <1>4, InvEnterAsOf
<1>5. ASSUME NEW k \in DOMAIN open, EndUsing(k) PROVE NoTimeLeak' /\ NotLeft'
  BY <1>5, OtherClosed DEF EndUsing, Closes
<1>6. ASSUME NEW k \in DOMAIN open, ExitCacheOnly(k) PROVE NoTimeLeak' /\ NotLeft'
  BY <1>6, OtherClosed DEF ExitCacheOnly, Closes
<1>7. ASSUME NEW k \in DOMAIN open, ExitAsOf(k) PROVE NoTimeLeak' /\ NotLeft'
  BY <1>7, InvExitAsOf
<1>8. ASSUME NEW c \in Class, Use(c) PROVE NoTimeLeak' /\ NotLeft'
  BY <1>8, InvUse
<1>9. ASSUME UNCHANGED vars PROVE NoTimeLeak' /\ NotLeft'
  BY <1>9 DEF vars, NoTimeLeak, NotLeft, ReadsInner, ReadsLive, ListedRead, IsInner
<1> QED BY <1>1, <1>2, <1>3, <1>4, <1>5, <1>6, <1>7, <1>8, <1>9 DEF Next

\* In every reachable state the helpers agree with the open as-of contexts.
THEOREM Invariance == Spec => []IInv
  BY InitInv, StepInv, PTL DEF Spec

-----------------------------------------------------------------------------
\* What is read follows from the helpers that are kept (s_storage_helper).
LEMMA InnermostRead == IInv => Innermost
<1> DEFINE covering(c) == {k \in DOMAIN open : Covers(open[k], c)}
           inner(c)    == CHOOSE k \in covering(c) : \A j \in covering(c) : j <= k
<1> SUFFICES ASSUME IInv, NEW c \in WithHistory, OneLine(c), ~left
             PROVE  s_storage_helper(c) = IF covering(c) = {} THEN Live ELSE open[inner(c)].time
  BY DEF Innermost
<1>1. c \in Class /\ helper[c] \in Time \cup {Live, None}
  BY ContextsAssumption DEF IInv, TypeOK
<1>2. CASE covering(c) = {}
  <2>1. helper[c] \notin Time
    BY <1>1, <1>2 DEF IInv, NoTimeLeak
  <2>2. \A b \in Range(Mro[c]) : helper[b] \notin Time
    BY <1>1, <1>2, MroType, BelowBelow DEF IInv, NoTimeLeak
  <2> QED BY <1>1, <1>2, <2>1, <2>2 DEF s_storage_helper, Resolved
<1>3. CASE covering(c) # {}
  <2>1. PICK k \in DOMAIN open : IsInner(c, k)
    BY <1>1, <1>3, InnerExists DEF IInv
  <2>2. inner(c) \in DOMAIN open /\ IsInner(c, inner(c))
    <3>1. \E i \in covering(c) : \A j \in covering(c) : j <= i
      BY <2>1 DEF IsInner
    <3>2. inner(c) \in covering(c) /\ \A j \in covering(c) : j <= inner(c)
      <4> HIDE DEF covering
      <4> QED BY <3>1
    <3> HIDE DEF inner
    <3> QED BY <3>2 DEF IsInner
  <2> HIDE DEF inner
  <2>3. CASE helper[c] \in Time
    BY <1>1, <1>3, <2>2, <2>3, ContextsAssumption DEF s_storage_helper, IInv, NotLeft, ReadsInner
  <2>4. CASE helper[c] = Live
    BY <2>1, <2>4 DEF IsInner, IInv, NotLeft, ReadsLive
  <2>5. CASE helper[c] = None
    <3>1. \E x \in Range(Mro[c]) : helper[x] \in Time
      BY <1>1, <2>2, CoveredBase
    <3>2. s_storage_helper(c) = FirstAsOf(c)
      BY <2>5, <3>1 DEF s_storage_helper, Resolved
    <3> QED BY <1>1, <1>3, <2>2, <3>2, FirstIsInner
  <2> QED BY <1>1, <2>3, <2>4, <2>5
<1> QED BY <1>2, <1>3

\* An as-of context scopes the reads of the classes it was given and of their
\* subclasses, and no longer than it is open (AsOfContext).
THEOREM AsOfReads == Spec => []AsOfScoped
<1>1. IInv => AsOfScoped
  BY InnermostRead DEF IInv, AsOfScoped
<1> QED BY <1>1, Invariance, PTL

-----------------------------------------------------------------------------
(* Nested contexts *)

\* The stack and the flag after a context was entered.
StackAfter(k) == IF open[k].kind = "store" THEN Append(found[k][1], open[k].store) ELSE found[k][1]
FlagAfter(k) ==
    IF open[k].kind = "asof" THEN found[k][2] ELSE IF open[k].kind = "flags" THEN TRUE ELSE FALSE

KeepsFlag ==
    \A k \in DOMAIN open :
        /\ open[k].kind = "store" => /\ bpc_flags[open[k].store] = found[k][2]
                                     /\ open[k].store \in Range(stack)
        /\ open[k].kind = "flags" => open[k].old = found[k][2]
StaysInUse ==
    \A j, k \in DOMAIN open : k < j /\ open[k].kind = "store" => open[k].store \in Range(found[j][1])
Chained ==
    /\ Len(found) = Len(open)
    /\ open # << >> => stack = StackAfter(Len(open)) /\ cache_only = FlagAfter(Len(open))
    /\ \A k \in 1..(Len(open) - 1) : found[k + 1] = <<StackAfter(k), FlagAfter(k)>>

Forgotten == mixed => found = << >>
Nested == ~mixed => KeepsFlag /\ StaysInUse /\ Chained

LEMMA InitNested == Init => Nested /\ Forgotten
  BY DEF Init, Nested, Forgotten, KeepsFlag, StaysInUse, Chained

LEMMA RangeAppend ==
    ASSUME NEW S, NEW q \in Seq(S), NEW e \in S
    PROVE  Range(q) \subseteq Range(Append(q, e)) /\ e \in Range(Append(q, e))
<1>1. Append(q, e) \in Seq(S) /\ Len(Append(q, e)) = Len(q) + 1 /\ Append(q, e)[Len(q) + 1] = e
  OBVIOUS
<1>2. \A i \in 1..Len(q) : Append(q, e)[i] = q[i]
  OBVIOUS
<1> QED BY <1>1, <1>2 DEF Range

\* A context is entered.
LEMMA OpenedNested ==
    ASSUME TypeOK, Nested, NEW context \in Context, NEW again \in BOOLEAN, Opens(context, again),
           ~mixed',
           /\ context.kind = "store" => /\ context.store \notin Range(stack)
                                        /\ stack' = Append(stack, context.store)
                                        /\ on_enter(context.store)
           /\ context.kind # "store" => UNCHANGED <<stack, bpc_flags>>
           /\ context.kind = "flags" => context.old = cache_only /\ cache_only' = TRUE
           /\ context.kind = "asof" => UNCHANGED cache_only
    PROVE  KeepsFlag' /\ StaysInUse' /\ Chained'
<1> PICK n \in Nat : n = Len(open) + 1
  BY DEF TypeOK
<1>1. /\ ~mixed /\ Len(open) \in Nat /\ Len(found) = Len(open)
      /\ DOMAIN open = 1..Len(open) /\ DOMAIN open' = 1..n /\ Len(open') = n /\ Len(found') = n
      /\ open'[n] = context /\ found'[n] = <<stack, cache_only>>
      /\ \A k \in DOMAIN open : open'[k] = open[k] /\ found'[k] = found[k]
  BY DEF TypeOK, Nested, Chained, Opens
<1>2. context.kind \in {"store", "flags", "asof"} /\ (context.kind = "store" => context.store \in Store)
  BY DEF Context
<1>3. Range(stack) \subseteq Range(stack') /\ (context.kind = "store" => context.store \in Range(stack'))
  BY <1>2, RangeAppend DEF TypeOK
<1>4. \A s \in Range(stack) : s \in Store /\ bpc_flags'[s] = bpc_flags[s]
  BY <1>2 DEF on_enter, TypeOK, Range
<1>5. n \in DOMAIN open' /\ \A k \in DOMAIN open' : k = n \/ k \in DOMAIN open
  BY <1>1
<1>6. KeepsFlag'
  <2> SUFFICES ASSUME NEW k \in DOMAIN open'
               PROVE  /\ open'[k].kind = "store" => /\ bpc_flags'[open'[k].store] = found'[k][2]
                                                    /\ open'[k].store \in Range(stack')
                      /\ open'[k].kind = "flags" => open'[k].old = found'[k][2]
    BY DEF KeepsFlag
  <2>1. CASE k = n
    BY <2>1, <1>1, <1>2, <1>3 DEF on_enter, TypeOK
  <2>2. CASE k \in DOMAIN open
    BY <2>2, <1>1, <1>3, <1>4 DEF Nested, KeepsFlag
  <2> QED BY <2>1, <2>2, <1>5
<1>7. StaysInUse'
  <2> SUFFICES ASSUME NEW j \in DOMAIN open', NEW k \in DOMAIN open', k < j, open'[k].kind = "store"
               PROVE  open'[k].store \in Range(found'[j][1])
    BY DEF StaysInUse
  <2>1. k \in DOMAIN open /\ open'[k] = open[k]
    BY <1>1
  <2>2. CASE j = n
    BY <2>1, <2>2, <1>1 DEF Nested, KeepsFlag
  <2>3. CASE j \in DOMAIN open
    BY <2>1, <2>3, <1>1 DEF Nested, StaysInUse
  <2> QED BY <2>2, <2>3, <1>5
<1>8. Chained'
  <2>1. stack' = StackAfter(n)' /\ cache_only' = FlagAfter(n)'
    <3>1. CASE context.kind = "store"
      <4>1. stack' = Append(stack, context.store) /\ cache_only' = FALSE
        BY <3>1 DEF on_enter
      <4>2. StackAfter(n)' = Append(stack, context.store)
        BY <1>1, <3>1 DEF StackAfter
      <4>3. FlagAfter(n)' = FALSE
        BY <1>1, <3>1 DEF FlagAfter
      <4> QED BY <4>1, <4>2, <4>3
    <3>2. CASE context.kind = "flags"
      <4>1. stack' = stack /\ cache_only' = TRUE
        BY <3>2
      <4> QED BY <1>1, <3>2, <4>1 DEF StackAfter, FlagAfter
    <3>3. CASE context.kind = "asof"
      BY <1>1, <3>3 DEF StackAfter, FlagAfter
    <3> QED BY <1>2, <3>1, <3>2, <3>3
  <2>2. ASSUME NEW k \in 1..(n - 1) PROVE found'[k + 1] = <<StackAfter(k)', FlagAfter(k)'>>
    <3>1. k \in DOMAIN open /\ StackAfter(k)' = StackAfter(k) /\ FlagAfter(k)' = FlagAfter(k)
      <4>1. k \in DOMAIN open
        BY <1>1
      <4>2. open'[k] = open[k] /\ found'[k] = found[k]
        BY <1>1, <4>1
      <4> QED BY <4>1, <4>2 DEF StackAfter, FlagAfter
    <3>2. CASE k = Len(open)
      <4>1. open # << >> /\ k + 1 = n
        BY <1>1, <3>1, <3>2
      <4> QED BY <1>1, <3>1, <3>2, <4>1 DEF Nested, Chained
    <3>3. CASE k # Len(open)
      <4>1. k \in 1..(Len(open) - 1) /\ k + 1 \in DOMAIN open
        BY <1>1, <3>1, <3>3
      <4> QED BY <1>1, <3>1, <4>1 DEF Nested, Chained
    <3> QED BY <3>2, <3>3
  <2> QED BY <1>1, <2>1, <2>2 DEF Chained
<1> QED BY <1>6, <1>7, <1>8

LEMMA FrontAppend ==
    ASSUME NEW S, NEW q \in Seq(S), NEW e \in S
    PROVE  Front(Append(q, e)) = q
<1>1. Append(q, e) \in Seq(S) /\ Len(Append(q, e)) = Len(q) + 1
  OBVIOUS
<1>2. \A i \in 1..Len(q) : Append(q, e)[i] = q[i] /\ q[i] \in S
  OBVIOUS
<1>3. /\ Front(Append(q, e)) \in Seq(S) /\ Len(Front(Append(q, e))) = Len(q)
      /\ \A i \in 1..Len(q) : Front(Append(q, e))[i] = q[i]
  BY <1>1, <1>2, SubSeqProperties DEF Front
<1> QED BY <1>3, SeqEqual

\* The context that was entered last is left.
LEMMA ClosedNested ==
    ASSUME TypeOK, Nested, NEW k \in DOMAIN open, Closes(k), ~mixed, ~mixed',
           /\ open[k].kind = "store" => stack' = Front(stack) /\ on_exit(open[k].store)
           /\ open[k].kind # "store" => UNCHANGED <<stack, bpc_flags>>
           /\ open[k].kind = "flags" => cache_only' = open[k].old
           /\ open[k].kind = "asof" => UNCHANGED cache_only
    PROVE  /\ <<stack', cache_only'>> = Last(found)
           /\ KeepsFlag' /\ StaysInUse' /\ Chained'
<1>1. k = Len(open) /\ Len(open) \in Nat \ {0} /\ Len(found) = Len(open) /\ DOMAIN open = 1..k
  <2>1. ~(Len(open) > 1 /\ k # Len(open))
    BY Zenon DEF Closes
  <2>2. Len(open) \in Nat /\ DOMAIN open = 1..Len(open) /\ Len(found) = Len(open)
    BY DEF TypeOK, Nested, Chained
  <2> QED BY <2>1, <2>2
<1>2. /\ DOMAIN open' = 1..(k - 1) /\ Len(open') = k - 1 /\ Len(found') = k - 1
      /\ \A i \in 1..(k - 1) : open'[i] = open[i] /\ found'[i] = found[i]
  <2>1. /\ Len(RemoveAt(open, k)) = k - 1 /\ RemoveAt(open, k) \in Seq(Context)
        /\ \A i \in 1..(k - 1) : RemoveAt(open, k)[i] = open[i]
    <3>1. open \in Seq(Context)
      BY DEF TypeOK
    <3>2. /\ RemoveAt(open, k) \in Seq(Context) /\ Len(RemoveAt(open, k)) = Len(open) - 1
          /\ \A i \in 1..(Len(open) - 1) : RemoveAt(open, k)[i] = open[IF i < k THEN i ELSE i + 1]
      BY <3>1, RemoveAtProps
    <3>3. \A i \in 1..(k - 1) : i < k
      BY <1>1
    <3> QED BY <1>1, <3>2, <3>3
  <2>2. Len(Front(found)) = k - 1 /\ \A i \in 1..(k - 1) : Front(found)[i] = found[i]
    <3>1. \A i \in 1..(k - 1) : found[i] \in Seq(Store) \X BOOLEAN
      BY <1>1 DEF TypeOK
    <3> QED BY <1>1, <3>1, SubSeqProperties DEF Front
  <2> QED BY <1>1, <2>1, <2>2 DEF Closes
<1>3. found[k] \in Seq(Store) \X BOOLEAN /\ open[k] \in Context
  BY <1>1 DEF TypeOK
<1>4. stack = StackAfter(k) /\ cache_only = FlagAfter(k)
  <2>1. open # << >>
    BY <1>1
  <2> QED BY <1>1, <2>1 DEF Nested, Chained
<1>5. stack' = found[k][1] /\ cache_only' = found[k][2] /\ UNCHANGED bpc_flags
  <2>1. CASE open[k].kind = "store"
    <3>1. stack = Append(found[k][1], open[k].store) /\ open[k].store \in Store
      BY <1>3, <1>4, <2>1 DEF StackAfter, Context
    <3>2. Front(Append(found[k][1], open[k].store)) = found[k][1]
      BY <1>3, <3>1, FrontAppend DEF Front
    <3>3. cache_only' = bpc_flags[open[k].store] /\ UNCHANGED bpc_flags
      BY <2>1 DEF on_exit
    <3> QED BY <2>1, <3>1, <3>2, <3>3 DEF Nested, KeepsFlag
  <2>2. CASE open[k].kind = "flags"
    BY <1>4, <2>2 DEF StackAfter, Nested, KeepsFlag
  <2>3. CASE open[k].kind = "asof"
    BY <1>4, <2>3 DEF StackAfter, FlagAfter
  <2> QED BY <1>3, <2>1, <2>2, <2>3 DEF Context
<1>6. <<stack', cache_only'>> = Last(found)
  BY <1>1, <1>3, <1>5 DEF Last
<1>7. StaysInUse'
  BY <1>1, <1>2 DEF Nested, StaysInUse
<1>8. KeepsFlag'
  <2> SUFFICES ASSUME NEW i \in 1..(k - 1)
               PROVE  /\ open[i].kind = "store" => /\ bpc_flags[open[i].store] = found[i][2]
                                                   /\ open[i].store \in Range(stack')
                      /\ open[i].kind = "flags" => open[i].old = found[i][2]
    BY <1>2, <1>5 DEF KeepsFlag
  <2>1. i \in DOMAIN open /\ i < k
    BY <1>1
  <2> QED BY <1>5, <2>1 DEF Nested, KeepsFlag, StaysInUse
<1>9. Chained'
  <2>1. \A i \in 1..(k - 1) : /\ StackAfter(i)' = StackAfter(i) /\ FlagAfter(i)' = FlagAfter(i)
                              /\ found[i + 1] = <<StackAfter(i), FlagAfter(i)>>
    BY <1>1, <1>2 DEF StackAfter, FlagAfter, Nested, Chained
  <2>2. ASSUME open' # << >>
        PROVE  stack' = StackAfter(k - 1)' /\ cache_only' = FlagAfter(k - 1)'
    <3>1. k - 1 \in 1..(k - 1) /\ (k - 1) + 1 = k
      BY <1>1, <1>2, <2>2
    <3> QED BY <1>5, <2>1, <3>1
  <2> QED BY <1>1, <1>2, <2>1, <2>2 DEF Chained
<1> QED BY <1>6, <1>7, <1>8, <1>9

LEMMA StepForgotten == Forgotten /\ [Next]_vars => Forgotten'
  BY DEF Forgotten, Next, vars, BeginUsing, EnterCacheOnly, EnterAsOf, EndUsing, ExitCacheOnly,
         ExitAsOf, Use, Opens, Closes

LEMMA StepNested == TypeOK /\ Nested /\ Forgotten /\ [Next]_vars => Nested'
<1> SUFFICES ASSUME TypeOK, Nested, Forgotten, [Next]_vars, ~mixed'
             PROVE  KeepsFlag' /\ StaysInUse' /\ Chained'
  BY DEF Nested
<1>1. ASSUME NEW s \in Store, BeginUsing(s) PROVE KeepsFlag' /\ StaysInUse' /\ Chained'
  <2> DEFINE context == [kind |-> "store", store |-> s]
  <2>1. context \in Context /\ (s \in Range(stack)) \in BOOLEAN
    BY DEF Context
  <2>2. Opens(context, s \in Range(stack)) /\ stack' = Append(stack, s) /\ on_enter(s)
    BY <1>1 DEF BeginUsing
  <2>3. s \notin Range(stack)
    BY <2>2, Zenon DEF Opens
  <2>4. context.kind = "store" /\ context.store = s
    OBVIOUS
  <2> HIDE DEF context
  <2> QED BY <2>1, <2>2, <2>3, <2>4, OpenedNested
<1>2. ASSUME EnterCacheOnly PROVE KeepsFlag' /\ StaysInUse' /\ Chained'
  <2> DEFINE context == [kind |-> "flags", old |-> cache_only]
  <2>1. context \in Context
    BY DEF Context, TypeOK
  <2>2. Opens(context, FALSE) /\ cache_only' = TRUE /\ UNCHANGED <<stack, bpc_flags>>
    BY <1>2 DEF EnterCacheOnly
  <2>3. context.kind = "flags" /\ context.old = cache_only
    OBVIOUS
  <2> HIDE DEF context
  <2> QED BY <2>1, <2>2, <2>3, OpenedNested
<1>3. ASSUME NEW t \in Time, NEW cs \in Lists, EnterAsOf(t, cs)
      PROVE  KeepsFlag' /\ StaysInUse' /\ Chained'
  <2> DEFINE context == [kind |-> "asof", time |-> t, classes |-> cs]
  <2>1. context \in Context
    BY DEF Context
  <2>2. Opens(context, FALSE) /\ UNCHANGED <<stack, bpc_flags, cache_only>>
    BY <1>3 DEF EnterAsOf
  <2>3. context.kind = "asof"
    OBVIOUS
  <2> HIDE DEF context
  <2> QED BY <2>1, <2>2, <2>3, OpenedNested
<1>4. ASSUME NEW k \in DOMAIN open, EndUsing(k) \/ ExitCacheOnly(k) \/ ExitAsOf(k)
      PROVE  KeepsFlag' /\ StaysInUse' /\ Chained'
  <2>1. CASE ~mixed
    BY <1>4, <2>1, ClosedNested DEF EndUsing, ExitCacheOnly, ExitAsOf
  <2>2. CASE mixed
    <3>1. Closes(k)
      BY <1>4 DEF EndUsing, ExitCacheOnly, ExitAsOf
    <3>2. ~(Len(open) > 1)
      BY <2>2, <3>1, Zenon DEF Closes
    <3>3. open \in Seq(Context) /\ open' = RemoveAt(open, k) /\ k \in 1..Len(open) /\ Len(open) \in Nat
      BY <3>1 DEF Closes, TypeOK
    <3>4. Len(open) = 1
      <4>1. \A n \in Nat : ~(n > 1) /\ k \in 1..n => n = 1
        OBVIOUS
      <4> QED BY <3>2, <3>3, <4>1
    <3>5. open' \in Seq(Context) /\ Len(open') = Len(open) - 1
      BY <3>3, RemoveAtProps
    <3>6. open' = << >> /\ DOMAIN open' = {} /\ Len(open') = 0
      BY <3>4, <3>5
    <3>7. found' = << >>
      <4>1. Front(<< >>) = << >>
        BY SubSeqEmpty DEF Front
      <4> QED BY <2>2, <3>1, <4>1 DEF Closes, Forgotten
    <3> QED BY <3>6, <3>7 DEF KeepsFlag, StaysInUse, Chained
  <2> QED BY <2>1, <2>2
<1>5. ASSUME NEW c \in Class, Use(c) PROVE KeepsFlag' /\ StaysInUse' /\ Chained'
  BY <1>5 DEF Use, Nested, KeepsFlag, StaysInUse, Chained, StackAfter, FlagAfter
<1>6. ASSUME UNCHANGED vars PROVE KeepsFlag' /\ StaysInUse' /\ Chained'
  BY <1>6 DEF vars, Nested, KeepsFlag, StaysInUse, Chained, StackAfter, FlagAfter
<1> QED BY <1>1, <1>2, <1>3, <1>4, <1>5, <1>6 DEF Next

\* Contexts that are nested put back the stores in use and the flag that they
\* found (TsStore.on_enter, on_exit, FlagsContext).
THEOREM RestoresFound == Spec => Restored
<1>1. TypeOK /\ Nested /\ [Next]_vars
        => [Len(open') < Len(open) /\ ~mixed /\ ~mixed' => <<stack, cache_only>>' = Last(found)]_vars
  <2> SUFFICES ASSUME TypeOK, Nested, Next, Len(open') < Len(open), ~mixed, ~mixed'
               PROVE  <<stack, cache_only>>' = Last(found)
    OBVIOUS
  <2>1. ASSUME NEW context, NEW again, Opens(context, again) PROVE FALSE
    <3>1. Len(open') = Len(open) + 1 /\ Len(open) \in Nat
      BY <2>1 DEF Opens, TypeOK
    <3> QED BY <3>1
  <2>2. PICK k \in DOMAIN open : EndUsing(k) \/ ExitCacheOnly(k) \/ ExitAsOf(k)
    <3>1. ASSUME UNCHANGED open PROVE FALSE
      BY <3>1 DEF TypeOK
    <3> QED BY <2>1, <3>1 DEF Next, BeginUsing, EnterCacheOnly, EnterAsOf, Use
  <2> QED BY <2>2, ClosedNested DEF EndUsing, ExitCacheOnly, ExitAsOf
<1>2. Init => TypeOK
  BY InitInv DEF IInv
<1> QED BY <1>1, <1>2, InitNested, StepNested, StepForgotten, TypeStep, PTL DEF Spec, Restored

-----------------------------------------------------------------------------
(* LogProcess *)

Msgs  == {Null, Text}
Procs == {"none", "running", "done", "died"}

LoggerOK == LOGGER \in 0..MaxLogger /\ proc \in [Loggers -> Procs]

\* Every queue is fed in order and taken in order.
QueueOK ==
    /\ put \in [Loggers -> Seq(Msgs)]
    /\ sent \in [Loggers -> Nat] /\ got \in [Loggers -> Nat]
    /\ \A n \in Loggers : got[n] <= sent[n] /\ sent[n] <= Len(put[n])

ThreadOK ==
    /\ DOMAIN thread = Thread
    /\ \A t \in Thread :
        /\ At(t, "put") => thread[t].msg \in Msgs
        /\ At(t, "join") => thread[t].logger \in Loggers

\* A process goes on until it has taken a sentinel, and no further.
NoSentinelBefore(n, k) == \A j \in 1..(k - 1) : put[n][j] # Null
TakenUpToSentinel ==
    \A n \in Loggers :
        /\ proc[n] \in {"none", "running"} => NoSentinelBefore(n, got[n] + 1)
        /\ proc[n] = "done" => /\ got[n] >= 1 /\ put[n][got[n]] = Null
                               /\ NoSentinelBefore(n, got[n])

LogInv == LoggerOK /\ QueueOK /\ ThreadOK /\ TakenUpToSentinel

-----------------------------------------------------------------------------
USE LogAssumption

LEMMA LogInitInv == LogInit => LogInv
  BY DEF LogInit, LogInv, LoggerOK, QueueOK, ThreadOK, TakenUpToSentinel, NoSentinelBefore,
         Loggers, Msgs, Procs, At

\* What is put at the end of a queue changes nothing of what was taken.
LEMMA AppendKeeps ==
    ASSUME QueueOK, TakenUpToSentinel, NEW n \in Loggers, NEW m \in Msgs,
           put' = [put EXCEPT ![n] = Append(@, m)],
           UNCHANGED <<sent, got, proc>>
    PROVE  QueueOK' /\ TakenUpToSentinel'
<1>1. \A k \in Loggers : /\ put'[k] \in Seq(Msgs) /\ Len(put'[k]) >= Len(put[k])
                         /\ \A j \in 1..Len(put[k]) : put'[k][j] = put[k][j]
  BY DEF QueueOK
<1>2. QueueOK'
  BY <1>1 DEF QueueOK
<1>3. TakenUpToSentinel'
  BY <1>1 DEF QueueOK, TakenUpToSentinel, NoSentinelBefore
<1> QED BY <1>2, <1>3

LEMMA LogStepInv == LogInv /\ [LogNext]_logVars => LogInv'
<1> SUFFICES ASSUME LogInv, [LogNext]_logVars PROVE LogInv'
  OBVIOUS
<1> USE DEF LogInv, LoggerOK, Msgs, Procs
<1>1. ASSUME NEW t \in Thread, Begin(t) PROVE LogInv'
  BY <1>1 DEF Begin, queue, Goes, At, ThreadOK, QueueOK, TakenUpToSentinel, NoSentinelBefore
<1>2. ASSUME NEW t \in Thread, LogCheck(t) PROVE LogInv'
  BY <1>2 DEF LogCheck, queue, Goes, At, ThreadOK, QueueOK, TakenUpToSentinel, NoSentinelBefore
<1>3. ASSUME NEW t \in Thread, End(t) PROVE LogInv'
  <2>1. LOGGER \in Loggers
    BY <1>3 DEF End, Loggers
  <2>2. QueueOK' /\ TakenUpToSentinel'
    BY <1>3, <2>1, AppendKeeps DEF End
  <2>3. ThreadOK'
    BY <1>3, <2>1 DEF End, Goes, At, ThreadOK
  <2> QED BY <1>3, <2>2, <2>3 DEF End
<1>4. ASSUME NEW t \in Thread, Create(t) PROVE LogInv'
  <2> PICK n \in Loggers : /\ proc[n] = "none" /\ proc' = [proc EXCEPT ![n] = "running"]
                           /\ LOGGER' = n
    BY <1>4 DEF Create
  <2>1. LoggerOK' /\ TakenUpToSentinel' /\ QueueOK'
    BY <1>4 DEF Create, Loggers, QueueOK, TakenUpToSentinel, NoSentinelBefore
  <2>2. ThreadOK'
    BY <1>4 DEF Create, Goes, At, ThreadOK
  <2> QED BY <2>1, <2>2
<1>5. ASSUME NEW t \in Thread, LogPut(t) PROVE LogInv'
  <2>1. ThreadOK' /\ LoggerOK'
    BY <1>5 DEF LogPut, Goes, At, ThreadOK
  <2>2. QueueOK' /\ TakenUpToSentinel'
    <3>1. CASE LOGGER = 0
      BY <1>5, <3>1 DEF LogPut, QueueOK, TakenUpToSentinel, NoSentinelBefore
    <3>2. CASE LOGGER # 0
      <4>1. LOGGER \in Loggers
        BY <3>2 DEF Loggers
      <4>2. thread[t].msg \in Msgs
        BY <1>5 DEF LogPut, ThreadOK
      <4>3. put' = [put EXCEPT ![LOGGER] = Append(@, thread[t].msg)] /\ UNCHANGED <<sent, got, proc>>
        BY <1>5, <3>2 DEF LogPut
      <4> QED BY <4>1, <4>2, <4>3, AppendKeeps
    <3> QED BY <3>1, <3>2
  <2> QED BY <2>1, <2>2
<1>6. ASSUME NEW t \in Thread, EndJoin(t) PROVE LogInv'
  BY <1>6 DEF EndJoin, queue, Goes, At, ThreadOK, QueueOK, TakenUpToSentinel, NoSentinelBefore, Loggers
<1>7. ASSUME NEW n \in Loggers, Feed(n) PROVE LogInv'
  <2>1. LoggerOK' /\ ThreadOK' /\ TakenUpToSentinel'
    BY <1>7 DEF Feed, At, ThreadOK, TakenUpToSentinel, NoSentinelBefore
  <2>2. \A k \in Loggers : sent'[k] = IF k = n THEN sent[n] + 1 ELSE sent[k]
    BY <1>7 DEF Feed, QueueOK
  <2>3. sent' \in [Loggers -> Nat]
    BY <1>7 DEF Feed, QueueOK
  <2>4. QueueOK'
    BY <1>7, <2>2, <2>3 DEF Feed, QueueOK
  <2> QED BY <2>1, <2>4
<1>8. ASSUME NEW n \in Loggers, Take(n) PROVE LogInv'
  <2>1. LoggerOK' /\ ThreadOK' /\ QueueOK'
    BY <1>8 DEF Take, At, ThreadOK, QueueOK
  <2>2. TakenUpToSentinel'
    <3>1. got'[n] = got[n] + 1 /\ NoSentinelBefore(n, got'[n])
      BY <1>8 DEF Take, QueueOK, TakenUpToSentinel
    <3> QED BY <1>8, <3>1 DEF Take, QueueOK, TakenUpToSentinel, NoSentinelBefore
  <2> QED BY <2>1, <2>2
<1>9. ASSUME NEW n \in Loggers, Die(n) PROVE LogInv'
  BY <1>9 DEF Die, At, ThreadOK, QueueOK, TakenUpToSentinel, NoSentinelBefore
<1>10. CASE Exit
  BY <1>10 DEF Exit, At, ThreadOK, QueueOK, TakenUpToSentinel, NoSentinelBefore
<1>11. CASE FeedersJoined
  BY <1>11 DEF FeedersJoined, queue, At, ThreadOK, QueueOK, TakenUpToSentinel, NoSentinelBefore
<1>12. CASE UNCHANGED logVars
  BY <1>12 DEF logVars, At, ThreadOK, QueueOK, TakenUpToSentinel, NoSentinelBefore
<1> QED BY <1>1, <1>2, <1>3, <1>4, <1>5, <1>6, <1>7, <1>8, <1>9, <1>10, <1>11, <1>12 DEF LogNext, Runs

\* In every reachable state the queues are well formed and each process has taken
\* exactly what precedes its first sentinel (logger_process).
THEOREM LogInvariance == LogSpec => []LogInv
  BY LogInitInv, LogStepInv, PTL DEF LogSpec

-----------------------------------------------------------------------------
\* A process that has ended has taken the first sentinel of its queue.
LEMMA DoneAtSentinel ==
    ASSUME LogInv, NEW n \in Loggers, proc[n] = "done"
    PROVE  got[n] = Sentinel(n)
<1> DEFINE P(k) == /\ k <= Len(put[n]) => put[n][k] = Null
                   /\ \A j \in 1..(k - 1) : put[n][j] # Null
<1>1. got[n] \in 1..(Len(put[n]) + 1) /\ got[n] <= Len(put[n]) /\ P(got[n])
  BY DEF LogInv, QueueOK, TakenUpToSentinel, NoSentinelBefore
<1>2. \A k \in 1..(Len(put[n]) + 1) : P(k) => k = got[n]
  BY <1>1 DEF LogInv, QueueOK
<1>3. Sentinel(n) = CHOOSE k \in 1..(Len(put[n]) + 1) : P(k)
  BY DEF Sentinel
<1> HIDE DEF P
<1> QED BY <1>1, <1>2, <1>3

\* When LOG.end returns, the process of its Logger has taken everything that was
\* put before the first None, unless it died.
THEOREM QueueDrained == LogSpec => Drained
<1> DEFINE A == \A t \in Thread :
         LET n == thread[t].logger
         IN  At(t, "join") /\ thread'[t] = Idle
                => proc[n] = "died" \/ got[n] = Sentinel(n)
<1>1. LogInv /\ [LogNext]_logVars => [A]_logVars
  <2> SUFFICES ASSUME LogInv, LogNext, NEW t \in Thread, At(t, "join"), thread'[t] = Idle
               PROVE  \/ proc[thread[t].logger] = "died"
                      \/ got[thread[t].logger] = Sentinel(thread[t].logger)
    OBVIOUS
  <2>1. thread[t] # Idle /\ thread[t].at = "join" /\ thread[t].logger \in Loggers
    BY DEF At, LogInv, ThreadOK
  <2>2. EndJoin(t)
    BY <2>1 DEF LogInv, ThreadOK, LogNext, Runs, Begin, LogCheck, End, Create, LogPut, EndJoin,
                Feed, Take, Die, Exit, FeedersJoined, Goes, At
  <2> QED BY <2>1, <2>2, DoneAtSentinel DEF EndJoin, Joined
<1> QED BY <1>1, LogInvariance, PTL DEF LogSpec, Drained
=============================================================================
