---------------------------- MODULE BasketProofs ----------------------------
(***************************************************************************)
(* What holds of Basket for any objects, bucketizers and quantities: the   *)
(* keys of the buckets match the bucketizers, a member whose trait has not *)
(* changed is in one bucket, the one that its tags describe, and sorting   *)
(* keeps the quantities of all members that it keeps.                      *)
(*                                                                         *)
(* Quantities are sums over the old buckets, folds of a recursive function *)
(* over sets.  The library's induction theorems are about operators, which *)
(* none of the backends can instantiate; induction is stated here of sets. *)
(***************************************************************************)
EXTENDS Basket, FiniteSetTheorems, SequenceTheorems,
        WellFoundedInduction, TLAPS

\* A set of numbers has a least one.
LEMMA Minimum ==
    ASSUME NEW T, T \subseteq Nat, T # {}
    PROVE  \E k \in T : \A j \in T : k <= j
<1>1. PICK R : R = OpToRel(<, Nat)
  OBVIOUS
<1>2. IsWellFoundedOn(R, Nat)
  BY <1>1, NatLessThanWellFounded
<1>3. \A x, y \in Nat : x < y => <<x, y>> \in R
  BY <1>1 DEF OpToRel
<1>4. PICK k \in T : \A j \in T : ~(<<j, k>> \in R)
  BY <1>2, WFMin
<1>5. ASSUME NEW j \in T PROVE k <= j
  <2>1. j \in Nat /\ k \in Nat
    OBVIOUS
  <2>2. ~(j < k)
    BY <1>3, <1>4, <2>1, Zenon
  <2> QED BY <2>1, <2>2
<1> QED BY <1>5

(***************************************************************************)
(* Tags                                                                    *)
(***************************************************************************)

\* Everything that a bucketizer can give.
Tag == {calc_bucket_tag(b, v) : b \in Bucketizer, v \in Class \cup Value}

\* The tags of an object are one for each bucketizer.
LEMMA TagsType ==
    ASSUME NEW bs \in Seq(Bucketizer), NEW o \in Obj, value \in [Obj -> Value]
    PROVE  Tags(bs, o) \in Seq(Tag) /\ Len(Tags(bs, o)) = Len(bs)
<1>1. ASSUME NEW k \in 1..Len(bs)
      PROVE  calc_bucket_tag(bs[k], calc_bucketizing_value(bs[k], o)) \in Tag
  <2>1. bs[k] \in Bucketizer
    OBVIOUS
  <2>2. calc_bucketizing_value(bs[k], o) \in Class \cup Value
    BY BasketAssumption DEF calc_bucketizing_value
  <2> QED BY <2>1, <2>2 DEF Tag
<1>2. DOMAIN bs = 1..Len(bs) /\ Len(bs) \in Nat
  OBVIOUS
<1> QED BY <1>1, <1>2 DEF Tags

\* The tags by bucketizers that follow others follow the others' tags.
LEMMA TagsConcat ==
    ASSUME NEW ps \in Seq(Bucketizer), NEW bs \in Seq(Bucketizer), NEW o \in Obj,
           value \in [Obj -> Value]
    PROVE  /\ Tags(ps \o bs, o) = Tags(ps, o) \o Tags(bs, o)
           /\ Fits(ps, o) /\ Fits(bs, o) => Fits(ps \o bs, o)
<1>0. /\ ps \o bs \in Seq(Bucketizer)
      /\ Len(ps \o bs) = Len(ps) + Len(bs)
      /\ \A k \in 1..Len(ps) + Len(bs) :
            (ps \o bs)[k] = IF k <= Len(ps) THEN ps[k] ELSE bs[k - Len(ps)]
  BY ConcatProperties, Zenon
<1>1. PICK cs \in Seq(Bucketizer) :
         /\ cs = ps \o bs
         /\ Len(cs) = Len(ps) + Len(bs)
         /\ \A k \in 1..Len(ps) + Len(bs) :
               cs[k] = IF k <= Len(ps) THEN ps[k] ELSE bs[k - Len(ps)]
  BY <1>0, Zenon
<1>2. /\ DOMAIN ps = 1..Len(ps) /\ DOMAIN bs = 1..Len(bs) /\ DOMAIN cs = 1..Len(cs)
      /\ Len(ps) \in Nat /\ Len(bs) \in Nat
  BY LenProperties
<1>3. PICK ta \in Seq(Tag) : ta = Tags(ps, o) /\ Len(ta) = Len(ps)
  BY TagsType
<1>4. PICK tb \in Seq(Tag) : tb = Tags(bs, o) /\ Len(tb) = Len(bs)
  BY TagsType
<1>5. PICK tc \in Seq(Tag) : tc = Tags(cs, o) /\ Len(tc) = Len(cs)
  BY TagsType
<1>b. /\ ta \o tb \in Seq(Tag)
       /\ Len(ta \o tb) = Len(ta) + Len(tb)
       /\ \A k \in 1..Len(ta) + Len(tb) :
             (ta \o tb)[k] = IF k <= Len(ta) THEN ta[k] ELSE tb[k - Len(ta)]
  BY ConcatProperties, Zenon
<1>6. PICK ts \in Seq(Tag) :
         /\ ts = ta \o tb
         /\ Len(ts) = Len(ta) + Len(tb)
         /\ \A k \in 1..Len(ta) + Len(tb) :
               ts[k] = IF k <= Len(ta) THEN ta[k] ELSE tb[k - Len(ta)]
  BY <1>b, Zenon
<1>7. ASSUME NEW k \in 1..Len(cs)
      PROVE  tc[k] = ts[k] /\ (Fits(ps, o) /\ Fits(bs, o) => tc[k] # None)
  <2>1. CASE k <= Len(ps)
    <3>1. cs[k] = ps[k] /\ k \in 1..Len(ps) /\ ts[k] = ta[k]
      BY <1>1, <1>2, <1>3, <1>4, <1>6, <2>1
    <3>2. ta[k] = tc[k]
      BY <1>2, <1>3, <1>5, <3>1 DEF Tags
    <3> QED BY <1>2, <1>3, <3>1, <3>2 DEF Fits
  <2>2. CASE ~(k <= Len(ps))
    <3>1. PICK j \in 1..Len(bs) : j = k - Len(ps)
      BY <1>1, <1>2, <2>2
    <3>2. cs[k] = bs[j] /\ ts[k] = tb[j]
      BY <1>1, <1>2, <1>3, <1>4, <1>6, <2>2, <3>1
    <3>3. tb[j] = tc[k]
      BY <1>2, <1>4, <1>5, <3>2 DEF Tags
    <3> QED BY <1>2, <1>4, <3>2, <3>3 DEF Fits
  <2> QED BY <2>1, <2>2
<1>8. tc = ts
  BY <1>1, <1>3, <1>4, <1>5, <1>6, <1>7, SeqEqual
<1> QED BY <1>1, <1>2, <1>3, <1>4, <1>5, <1>6, <1>7, <1>8 DEF Fits

\* By breakpoints: the tag is the number of the half-open interval that has the
\* value; the last one is closed if it is to be included.
LEMMA BreakpointInterval ==
    ASSUME NEW b \in Bucketizer, b.kind = "breakpoints", NEW v \in Int,
           BreakpointTag(b, v) # None
    PROVE  LET tag == BreakpointTag(b, v)
               n   == Len(b.points)
           IN  /\ tag \in 1..(n - 1)
               /\ b.points[tag] <= v
               /\ \/ v < b.points[tag + 1]
                  \/ v = b.points[n] /\ tag = n - 1 /\ b.include_last
<1>1. PICK p \in Seq(Int) : p = b.points
  BY BasketAssumption
<1>2. PICK n \in Nat : n = Len(p) /\ DOMAIN p = 1..n
  BY LenProperties
<1>3. n > 1 /\ \A i, j \in 1..n : p[i] \in Int /\ (i < j => p[i] < p[j])
  <2>1. n > 1 /\ \A i, j \in 1..n : i < j => p[i] < p[j]
    BY <1>1, <1>2, BasketAssumption
  <2>2. \A i \in 1..n : p[i] \in Int
    BY <1>2, ElementOfSeq
  <2> QED BY <2>1, <2>2
<1>4. PICK S \in SUBSET (1..n) : S = {k \in 1..n : p[k] <= v}
  OBVIOUS
<1>5. PICK c : c = Cardinality(S)
  OBVIOUS
<1>6. IsFiniteSet(1..n) /\ Cardinality(1..n) = n
  BY FS_Interval
<1>7. IsFiniteSet(S) /\ c \in Nat /\ c <= n
  BY <1>5, <1>6, FS_Subset, FS_CardinalityType
<1>8. ASSUME c >= 1 PROVE p[c] <= v
  <2>1. SUFFICES ASSUME p[c] > v PROVE FALSE
    BY <1>3, <1>7, <1>8
  <2>2. S \subseteq 1..(c - 1)
    BY <1>3, <1>4, <1>7, <1>8, <2>1
  <2>3. IsFiniteSet(1..(c - 1)) /\ Cardinality(1..(c - 1)) = c - 1
    BY <1>7, <1>8, FS_Interval
  <2>4. Cardinality(S) <= Cardinality(1..(c - 1))
    BY <2>2, <2>3, FS_Subset
  <2> QED BY <1>5, <1>7, <2>3, <2>4
<1>9. ASSUME c < n PROVE v < p[c + 1]
  <2>1. SUFFICES ASSUME p[c + 1] <= v PROVE FALSE
    BY <1>3, <1>7, <1>9
  <2>2. 1..(c + 1) \subseteq S
    BY <1>3, <1>4, <1>7, <1>9, <2>1
  <2>3. Cardinality(1..(c + 1)) = c + 1
    BY <1>7, FS_Interval
  <2>4. Cardinality(1..(c + 1)) <= Cardinality(S)
    BY <1>7, <2>2, FS_Subset
  <2> QED BY <1>5, <1>7, <2>3, <2>4
<1>10. bisect_right(p, v) = c
  BY <1>2, <1>4, <1>5 DEF bisect_right
<1>11. BreakpointTag(b, v) =
         CASE c = 0 -> None
           [] c = n -> IF b.include_last /\ v = p[n] THEN n - 1 ELSE None
           [] OTHER -> c
  BY <1>1, <1>2, <1>10 DEF BreakpointTag
<1>12. CASE c = 0
  BY <1>3, <1>11, <1>12
<1>13. CASE c = n
  <2>1. BreakpointTag(b, v) = n - 1 /\ b.include_last /\ v = p[n]
    BY <1>3, <1>11, <1>13
  <2>2. n - 1 \in 1..(n - 1) /\ p[n - 1] <= v
    BY <1>3, <2>1
  <2> QED BY <1>1, <1>2, <2>1, <2>2
<1>14. CASE c # 0 /\ c # n
  <2>1. BreakpointTag(b, v) = c
    BY <1>11, <1>14
  <2>2. c \in 1..(n - 1)
    BY <1>7, <1>14
  <2> QED BY <1>1, <1>2, <1>7, <1>8, <1>9, <1>14, <2>1, <2>2
<1> QED BY <1>12, <1>13, <1>14

\* By range: the tag is the label of the first interval that has the value.
LEMMA RangeInterval ==
    ASSUME NEW b \in Bucketizer, b.kind = "range", NEW v, RangeTag(b, v) # None
    PROVE  \E k \in DOMAIN b.intervals :
              /\ b.intervals[k].label = RangeTag(b, v) /\ Inside(b.intervals[k], v)
              /\ \A j \in DOMAIN b.intervals : j < k => ~Inside(b.intervals[j], v)
<1>1. PICK has : has = {k \in DOMAIN b.intervals : Inside(b.intervals[k], v)}
  OBVIOUS
<1>2. RangeTag(b, v) = IF has = {} THEN None
                       ELSE b.intervals[CHOOSE k \in has : \A j \in has : k <= j].label
  BY <1>1 DEF RangeTag
<1>3. has # {} /\ has \subseteq Nat /\ DOMAIN b.intervals \subseteq Nat
  BY <1>1, <1>2, BasketAssumption
<1>4. \E k \in has : \A j \in has : k <= j
  BY <1>3, Minimum
<1>5. PICK k : k = CHOOSE m \in has : \A j \in has : m <= j
  OBVIOUS
<1>6. k \in has /\ \A j \in has : k <= j
  BY <1>4, <1>5
<1>7. b.intervals[k].label = RangeTag(b, v)
  BY <1>2, <1>3, <1>5
<1>8. ASSUME NEW j \in DOMAIN b.intervals, j < k PROVE ~Inside(b.intervals[j], v)
  <2>1. j \in Nat /\ k \in Nat
    BY <1>3, <1>6
  <2> QED BY <1>1, <1>6, <1>8, <2>1
<1> QED BY <1>1, <1>6, <1>7, <1>8

\* The tag that a bucketizer gives an object describes the object.
LEMMA TagDescribes ==
    ASSUME NEW b \in Bucketizer, NEW o \in Obj, value \in [Obj -> Value],
           calc_bucket_tag(b, calc_bucketizing_value(b, o)) # None
    PROVE  Describes(b, calc_bucket_tag(b, calc_bucketizing_value(b, o)), o)
<1>1. b.kind \in {"class", "feature", "range", "breakpoints"} /\ value[o] \in Int
  BY BasketAssumption
<1>2. CASE b.kind = "class"
  BY <1>2 DEF Describes, calc_bucket_tag, calc_bucketizing_value, KnownTag
<1>3. CASE b.kind = "feature"
  BY <1>3 DEF Describes, calc_bucket_tag, calc_bucketizing_value, KnownTag
<1>4. CASE b.kind = "range"
  <2>1. calc_bucket_tag(b, calc_bucketizing_value(b, o)) = RangeTag(b, value[o])
    BY <1>4 DEF calc_bucket_tag, calc_bucketizing_value
  <2> QED BY <1>4, <2>1, RangeInterval DEF Describes
<1>5. CASE b.kind = "breakpoints"
  <2>1. calc_bucket_tag(b, calc_bucketizing_value(b, o)) = BreakpointTag(b, value[o])
    BY <1>5 DEF calc_bucket_tag, calc_bucketizing_value
  <2> QED BY <1>1, <1>5, <2>1, BreakpointInterval DEF Describes
<1> QED BY <1>1, <1>2, <1>3, <1>4, <1>5

(***************************************************************************)
(* The invariant                                                           *)
(***************************************************************************)

\* The key has a tag for each bucketizer, and a member whose trait has not
\* changed has exactly those tags.
RightKey(bs, t, members) ==
    /\ t \in Seq(Tag) /\ Len(t) = Len(bs)
    /\ \A o \in members : t = Tags(bs, o) /\ Fits(bs, o)

IInv ==
    /\ value \in [Obj -> Value]
    /\ bucketizers \in Seq(Bucketizer)
    /\ the_bucket # None => DOMAIN the_bucket \subseteq Obj
    /\ bucketizers = << >> => DOMAIN all_buckets = {}
    /\ bucketizers # << >> => the_bucket = new_bucket
    /\ \A t \in DOMAIN all_buckets :
          /\ DOMAIN all_buckets[t] \subseteq Obj
          /\ RightKey(bucketizers, t, DOMAIN all_buckets[t] \ changed)

\* The members are objects of the model.
LEMMA MembersAreObj ==
    ASSUME IInv, NEW t \in DOMAIN tags_buckets
    PROVE  /\ DOMAIN tags_buckets[t] \subseteq Obj
           /\ bucketizers # << >> => t \in DOMAIN all_buckets
           /\ bucketizers = << >> => t = << >>
           /\ bucketizers # << >> => tags_buckets[t] = all_buckets[t]
<1>1. CASE bucketizers # << >>
  BY <1>1 DEF tags_buckets, IInv
<1>2. CASE bucketizers = << >> /\ the_bucket = None
  <2>1. tags_buckets = << >>
    BY <1>2 DEF tags_buckets
  <2> QED BY <2>1
<1>3. CASE bucketizers = << >> /\ the_bucket # None
  <2>1. tags_buckets = [u \in {<< >>} |-> the_bucket]
    BY <1>3 DEF tags_buckets
  <2> QED BY <1>3, <2>1 DEF IInv
<1> QED BY <1>1, <1>2, <1>3

\* An object put by add() is in the bucket of its tags.
LEMMA AddKeeps == ASSUME IInv, NEW o \in Obj, NEW qty \in Qty, add(o, qty) PROVE IInv'
<1>1. /\ Fits(bucketizers, o) /\ UNCHANGED <<bucketizers, value>>
      /\ changed' = IF o \in Members THEN changed ELSE changed \ {o}
  BY DEF add
<1>2. \A p \in Obj : Tags(bucketizers, p)' = Tags(bucketizers, p)
                     /\ Fits(bucketizers, p)' = Fits(bucketizers, p)
  BY <1>1 DEF Tags, Fits, calc_bucketizing_value
<1>3. ASSUME NEW b PROVE DOMAIN _insert(b, o, qty) = DOMAIN b \cup {o}
  BY DEF _insert
<1>4. CASE bucketizers = << >>
  <2>1. the_bucket' = _insert(the_bucket, o, qty) /\ all_buckets' = all_buckets
    BY <1>4 DEF add
  <2>2. the_bucket # None
    BY <1>4 DEF add, Usable
  <2>3. DOMAIN the_bucket' \subseteq Obj
    BY <1>3, <2>1, <2>2 DEF IInv
  <2> QED BY <1>1, <1>4, <2>1, <2>3 DEF IInv
<1>5. CASE bucketizers # << >>
  <2>1. PICK key : key = Tags(bucketizers, o)
    OBVIOUS
  <2>2. PICK bucket : bucket = IF key \in DOMAIN all_buckets THEN all_buckets[key] ELSE new_bucket
    OBVIOUS
  <2>3. /\ all_buckets' = [t \in DOMAIN all_buckets \cup {key} |->
                             IF t = key THEN _insert(bucket, o, qty) ELSE all_buckets[t]]
        /\ the_bucket' = the_bucket
    BY <1>5, <2>1, <2>2 DEF add
  <2>4. key \in Seq(Tag) /\ Len(key) = Len(bucketizers)
    BY <2>1, TagsType DEF IInv
  <2>5. ASSUME NEW t \in DOMAIN all_buckets'
        PROVE  /\ DOMAIN all_buckets'[t] \subseteq Obj
               /\ t \in Seq(Tag) /\ Len(t) = Len(bucketizers')
               /\ \A p \in DOMAIN all_buckets'[t] \ changed' :
                     t = Tags(bucketizers, p)' /\ Fits(bucketizers, p)'
    <3>1. t \in Seq(Tag) /\ Len(t) = Len(bucketizers)
      BY <2>3, <2>4 DEF IInv, RightKey
    <3>2. ASSUME NEW p \in DOMAIN all_buckets'[t]
          PROVE  p \in Obj /\ (p \notin changed' => t = Tags(bucketizers, p) /\ Fits(bucketizers, p))
      <4>1. CASE p = o /\ t = key
        BY <1>1, <2>1, <4>1
      <4>2. CASE ~(p = o /\ t = key)
        <5>1. t \in DOMAIN all_buckets /\ p \in DOMAIN all_buckets[t]
          <6>1. CASE t = key
            <7>1. all_buckets'[t] = _insert(bucket, o, qty)
              BY <2>3, <6>1
            <7>2. p \in DOMAIN bucket \cup {o}
              BY <1>3, <3>2, <7>1, Zenon
            <7>3. p \in DOMAIN bucket
              BY <4>2, <6>1, <7>2
            <7> QED BY <2>2, <6>1, <7>3 DEF new_bucket
          <6>2. CASE t # key
            BY <2>3, <3>2, <6>2
          <6> QED BY <6>1, <6>2
        <5>2. p \in Members
          BY <1>5, <5>1 DEF Members, tags_buckets
        <5>3. p \notin changed' => p \notin changed
          BY <1>1, <5>2
        <5> QED BY <5>1, <5>3 DEF IInv, RightKey
      <4> QED BY <4>1, <4>2
    <3> QED BY <1>1, <1>2, <3>1, <3>2 DEF RightKey
  <2> QED BY <1>1, <1>5, <2>3, <2>5 DEF IInv, RightKey
<1> QED BY <1>4, <1>5

\* Sorting puts a member into the bucket of its tags.  Only a member whose trait
\* has changed keeps old tags, and only if bucketizers are added to others.
LEMMA SortedKey ==
    ASSUME IInv, NEW bs \in Seq(Bucketizer), NEW replace \in BOOLEAN,
           NEW key \in DOMAIN Sorted(bs, replace)
    PROVE  LET nb == IF replace THEN bs ELSE bucketizers \o bs
           IN  /\ DOMAIN Sorted(bs, replace)[key] \subseteq Obj
               /\ RightKey(nb, key, {o \in DOMAIN Sorted(bs, replace)[key] :
                                       replace \/ bucketizers = << >> \/ o \notin changed})
<1>0. \A o : DOMAIN Quantities(o)
                = {t \in DOMAIN tags_buckets : o \in DOMAIN tags_buckets[t]}
  BY DEF Quantities
<1>1. PICK nb : nb = IF replace THEN bs ELSE bucketizers \o bs
  OBVIOUS
<1>2. ASSUME NEW o \in Kept(bs), NEW t \in DOMAIN tags_buckets, o \in DOMAIN tags_buckets[t],
             key = SortKey(replace, t, Tags(bs, o))
      PROVE  /\ o \in Obj
             /\ key \in Seq(Tag) /\ Len(key) = Len(nb)
             /\ replace \/ bucketizers = << >> \/ o \notin changed =>
                   key = Tags(nb, o) /\ Fits(nb, o)
  <2>1. o \in Obj /\ value \in [Obj -> Value] /\ bucketizers \in Seq(Bucketizer)
    BY <1>2, MembersAreObj DEF IInv
  <2>2. Fits(bs, o)
    BY DEF Kept
  <2>3. Tags(bs, o) \in Seq(Tag) /\ Len(Tags(bs, o)) = Len(bs)
    BY <2>1, TagsType
  <2>4. CASE replace
    BY <1>1, <1>2, <2>1, <2>2, <2>3, <2>4 DEF SortKey
  <2>5. CASE ~replace
    <3>1. key = t \o Tags(bs, o) /\ nb = bucketizers \o bs
      BY <1>1, <1>2, <2>5 DEF SortKey
    <3>2. /\ t \in Seq(Tag) /\ Len(t) = Len(bucketizers)
          /\ bucketizers = << >> \/ o \notin changed =>
                t = Tags(bucketizers, o) /\ Fits(bucketizers, o)
      <4>1. CASE bucketizers = << >>
        <5>1. t = << >>
          BY <4>1, MembersAreObj
        <5>2. Tags(bucketizers, o) \in Seq(Tag) /\ Len(Tags(bucketizers, o)) = 0
          BY <2>1, <4>1, TagsType, Len(<< >>) = 0
        <5>3. Tags(bucketizers, o) = << >>
          BY <5>2, EmptySeq
        <5>4. DOMAIN bucketizers = {}
          BY <4>1
        <5>5. << >> \in Seq(Tag) /\ Len(<< >>) = 0
          BY EmptySeq
        <5> QED BY <4>1, <5>1, <5>3, <5>4, <5>5 DEF Fits
      <4>2. CASE bucketizers # << >>
        BY <1>2, <4>2, MembersAreObj DEF IInv, RightKey
      <4> QED BY <4>1, <4>2
    <3>3. key \in Seq(Tag) /\ Len(key) = Len(t) + Len(Tags(bs, o))
      BY <2>3, <3>1, <3>2, ConcatProperties
    <3>4. Len(nb) = Len(bucketizers) + Len(bs)
      BY <2>1, <3>1, ConcatProperties
    <3>5. bucketizers = << >> \/ o \notin changed => key = Tags(nb, o) /\ Fits(nb, o)
      BY <2>1, <2>2, <3>1, <3>2, TagsConcat
    <3> QED BY <2>1, <2>3, <2>5, <3>2, <3>3, <3>4, <3>5
  <2> QED BY <2>4, <2>5
<1>3. PICK o \in Kept(bs), t \in DOMAIN tags_buckets :
         o \in DOMAIN tags_buckets[t] /\ key = SortKey(replace, t, Tags(bs, o))
  BY <1>0 DEF Sorted
<1>4. ASSUME NEW m \in DOMAIN Sorted(bs, replace)[key]
      PROVE  m \in Kept(bs) /\ \E u \in DOMAIN tags_buckets :
                m \in DOMAIN tags_buckets[u] /\ key = SortKey(replace, u, Tags(bs, m))
  BY <1>0, <1>4 DEF Sorted
<1>5. key \in Seq(Tag) /\ Len(key) = Len(nb)
  BY <1>2, <1>3
<1>6. ASSUME NEW m \in DOMAIN Sorted(bs, replace)[key]
      PROVE  /\ m \in Obj
             /\ replace \/ bucketizers = << >> \/ m \notin changed =>
                   key = Tags(nb, m) /\ Fits(nb, m)
  BY <1>2, <1>4
<1> QED BY <1>1, <1>5, <1>6 DEF RightKey

\* A list of bucketizers stays one if it is added to, or set to another.
LEMMA StillTagged ==
    ASSUME NEW ps \in Seq(Bucketizer), NEW bs \in Seq(Bucketizer), NEW replace \in BOOLEAN,
           ~((replace \/ ps = << >>) /\ bs = << >>)
    PROVE  (IF replace THEN bs ELSE ps \o bs) # << >>
<1>1. CASE replace
  BY <1>1
<1>2. CASE ~replace
  <2>1. ps \o bs \in Seq(Bucketizer) /\ Len(ps \o bs) = Len(ps) + Len(bs)
    BY ConcatProperties
  <2>2. Len(ps) \in Nat /\ Len(bs) \in Nat
    BY LenProperties
  <2>3. Len(ps) # 0 \/ Len(bs) # 0
    BY <1>2, EmptySeq
  <2>4. Len(ps \o bs) # 0
    BY <2>1, <2>2, <2>3
  <2> QED BY <1>2, <2>4, EmptySeq
<1> QED BY <1>1, <1>2

\* Sorting keeps the invariant.
LEMMA SortKeeps ==
    ASSUME IInv, NEW bs \in Seq(Bucketizer), NEW replace \in BOOLEAN, add_bucketizers(bs, replace)
    PROVE  IInv'
<1>1. PICK nb : nb = IF replace THEN bs ELSE bucketizers \o bs
  OBVIOUS
<1>2. /\ bucketizers' = nb /\ value' = value
      /\ changed' = IF replace \/ bucketizers = << >> THEN {} ELSE changed
  BY <1>1 DEF add_bucketizers
<1>3. nb \in Seq(Bucketizer)
  BY <1>1, ConcatProperties DEF IInv
<1>4. CASE (replace \/ bucketizers = << >>) /\ bs = << >>
  <2>1. the_bucket' = Unsorted /\ all_buckets' = << >>
    BY <1>4 DEF add_bucketizers
  <2>2. nb = << >>
    BY <1>1, <1>4, ConcatEmptySeq DEF IInv
  <2>3. Members \subseteq Obj
    BY MembersAreObj DEF Members
  <2>4. Unsorted # None => DOMAIN Unsorted \subseteq Obj
    BY <2>3 DEF Unsorted
  <2>5. DOMAIN all_buckets' = {}
    BY <2>1
  <2> QED BY <1>2, <1>3, <2>1, <2>2, <2>4, <2>5 DEF IInv
<1>5. CASE ~((replace \/ bucketizers = << >>) /\ bs = << >>)
  <2>1. the_bucket' = new_bucket /\ all_buckets' = Sorted(bs, replace)
    BY <1>5 DEF add_bucketizers
  <2>2. nb # << >>
    BY <1>1, <1>5, StillTagged DEF IInv
  <2>3. DOMAIN the_bucket' \subseteq Obj
    BY <2>1 DEF new_bucket
  <2>4. ASSUME NEW t \in DOMAIN all_buckets'
        PROVE  /\ DOMAIN all_buckets'[t] \subseteq Obj
               /\ t \in Seq(Tag) /\ Len(t) = Len(bucketizers')
               /\ \A o \in DOMAIN all_buckets'[t] \ changed' :
                     t = Tags(bucketizers, o)' /\ Fits(bucketizers, o)'
    <3>1. /\ DOMAIN all_buckets'[t] \subseteq Obj
          /\ RightKey(nb, t, {o \in DOMAIN all_buckets'[t] :
                                replace \/ bucketizers = << >> \/ o \notin changed})
      BY <1>1, <2>1, SortedKey
    <3>2. ASSUME NEW o \in DOMAIN all_buckets'[t] \ changed'
          PROVE  t = Tags(nb, o) /\ Fits(nb, o)
      BY <1>2, <3>1 DEF RightKey
    <3>3. \A o : Tags(bucketizers, o)' = Tags(nb, o) /\ Fits(bucketizers, o)' = Fits(nb, o)
      BY <1>2 DEF Tags, Fits, calc_bucketizing_value
    <3> QED BY <1>2, <3>1, <3>2, <3>3 DEF RightKey
  <2> QED BY <1>2, <1>3, <2>1, <2>2, <2>3, <2>4 DEF IInv, RightKey
<1> QED BY <1>4, <1>5

\* The setter keeps the invariant, whether it clears the members or sorts them.
LEMMA SetterKeeps ==
    ASSUME IInv, NEW bs \in Seq(Bucketizer), bucketizers_set(bs)
    PROVE  IInv'
<1>1. CASE settings.reset_members
  <2>1. /\ the_bucket' = new_bucket /\ all_buckets' = << >> /\ bucketizers' = bs
        /\ value' = value
    BY <1>1 DEF bucketizers_set
  <2>2. DOMAIN all_buckets' = {} /\ DOMAIN the_bucket' \subseteq Obj
    BY <2>1 DEF new_bucket
  <2> QED BY <2>1, <2>2 DEF IInv
<1>2. CASE ~settings.reset_members
  BY <1>2, SortKeeps DEF bucketizers_set
<1> QED BY <1>1, <1>2

\* An object whose trait is set is one that has changed; the others keep their
\* tags.
LEMMA TraitKeeps ==
    ASSUME IInv, NEW o \in Obj, NEW v \in Value, SetTrait(o, v)
    PROVE  IInv'
<1>1. /\ value' = [value EXCEPT ![o] = v] /\ changed' = changed \cup {o}
      /\ UNCHANGED <<bucketizers, the_bucket, all_buckets>>
  BY DEF SetTrait
<1>2. ASSUME NEW p, p # o
      PROVE  Tags(bucketizers, p)' = Tags(bucketizers, p)
             /\ Fits(bucketizers, p)' = Fits(bucketizers, p)
  <2>1. ASSUME NEW b PROVE calc_bucketizing_value(b, p)' = calc_bucketizing_value(b, p)
    BY <1>1, <1>2 DEF calc_bucketizing_value, IInv
  <2> QED BY <1>1, <2>1 DEF Tags, Fits
<1> QED BY <1>1, <1>2 DEF IInv, RightKey

(***************************************************************************)
(* The theorems                                                            *)
(***************************************************************************)

\* The keys are right in every reachable state.
THEOREM Invariance == Spec => []IInv
<1>1. Init => IInv
  <2> SUFFICES ASSUME Init PROVE IInv
    OBVIOUS
  <2>1. /\ bucketizers = << >> /\ the_bucket = new_bucket /\ all_buckets = << >>
        /\ value \in [Obj -> Value]
    BY DEF Init
  <2>2. DOMAIN all_buckets = {} /\ DOMAIN the_bucket \subseteq Obj
    BY <2>1 DEF new_bucket
  <2> QED BY <2>1, <2>2 DEF IInv
<1>2. IInv /\ [Next]_vars => IInv'
  <2> SUFFICES ASSUME IInv, [Next]_vars PROVE IInv'
    OBVIOUS
  <2>1. ASSUME NEW o \in Obj, NEW qty \in Qty, add(o, qty) PROVE IInv'
    BY <2>1, AddKeeps
  <2>2. ASSUME NEW bs \in Schemes, AddBucketizers(bs) \/ bucketizers_set(bs) PROVE IInv'
    <3>1. bs \in Seq(Bucketizer)
      BY BasketAssumption
    <3> QED BY <2>2, <3>1, SortKeeps, SetterKeeps DEF AddBucketizers
  <2>3. ASSUME NEW o \in Obj, NEW v \in Value, SetTrait(o, v) PROVE IInv'
    BY <2>3, TraitKeeps
  <2>4. CASE UNCHANGED vars
    <3>1. \A o : Tags(bucketizers, o)' = Tags(bucketizers, o)
                 /\ Fits(bucketizers, o)' = Fits(bucketizers, o)
      BY <2>4 DEF vars, Tags, Fits, calc_bucketizing_value
    <3> QED BY <2>4, <3>1 DEF vars, IInv, RightKey
  <2> QED BY <2>1, <2>2, <2>3, <2>4 DEF Next
<1> QED BY <1>1, <1>2, PTL DEF Spec

\* However bucketizers are added and replaced, the keys have a tag for each of
\* them and a member whose trait has not changed is in one bucket only.
THEOREM MembersInPlace == Spec => []InPlace
<1>1. IInv => InPlace
  BY DEF IInv, InPlace, RightKey
<1> QED BY <1>1, Invariance, PTL

\* The tags of a bucket describe the members whose trait has not changed.
THEOREM BucketsDescribed == Spec => []TagsDescribe
<1>1. IInv => TagsDescribe
  <2> SUFFICES ASSUME IInv, NEW t \in DOMAIN all_buckets,
                      NEW o \in DOMAIN all_buckets[t] \ changed, NEW k \in DOMAIN t
               PROVE  Describes(bucketizers[k], t[k], o)
    BY DEF TagsDescribe
  <2>1. t = Tags(bucketizers, o) /\ Fits(bucketizers, o) /\ o \in Obj
    BY DEF IInv, RightKey
  <2>2. k \in DOMAIN bucketizers /\ bucketizers[k] \in Bucketizer
    <3>1. DOMAIN t = DOMAIN bucketizers
      BY <2>1 DEF Tags
    <3> QED BY <3>1, LenProperties, ElementOfSeq DEF IInv
  <2>3. /\ t[k] = calc_bucket_tag(bucketizers[k], calc_bucketizing_value(bucketizers[k], o))
        /\ t[k] # None
    BY <2>1, <2>2 DEF Tags, Fits
  <2> QED BY <2>1, <2>2, <2>3, TagDescribes DEF IInv
<1> QED BY <1>1, Invariance, PTL

(***************************************************************************)
(* Sums                                                                    *)
(***************************************************************************)

\* Induction over numbers, for a set.
LEMMA NumberInduction ==
    ASSUME NEW T, 0 \in T, \A k \in Nat : k \in T => k + 1 \in T
    PROVE  \A k \in Nat : k \in T
<1>1. PICK U : U = Nat \ T
  OBVIOUS
<1>2. SUFFICES ASSUME U # {} PROVE FALSE
  BY <1>1
<1>3. PICK k \in U : \A j \in U : k <= j
  BY <1>1, <1>2, Minimum
<1>4. k \in Nat /\ k # 0 /\ k \notin T
  BY <1>1, <1>3
<1>5. k - 1 \in Nat /\ ~(k <= k - 1) /\ (k - 1) + 1 = k
  BY <1>4
<1>6. k - 1 \in T
  BY <1>1, <1>3, <1>5
<1> QED BY <1>4, <1>5, <1>6

\* Induction over the subsets of a finite set: each from those with one less.
LEMMA SubsetInduction ==
    ASSUME NEW D, IsFiniteSet(D), NEW P, {} \in P,
           \A S \in SUBSET D : S # {} /\ (\A x \in S : S \ {x} \in P) => S \in P
    PROVE  \A S \in SUBSET D : S \in P
<1>1. PICK N : N = {n \in Nat : \A S \in SUBSET D : Cardinality(S) = n => S \in P}
  OBVIOUS
<1>2. \A S \in SUBSET D : IsFiniteSet(S) /\ Cardinality(S) \in Nat
  BY FS_Subset, FS_CardinalityType
<1>3. 0 \in N
  BY <1>1, <1>2, FS_EmptySet
<1>4. ASSUME NEW n \in Nat, n \in N PROVE n + 1 \in N
  <2>1. SUFFICES ASSUME NEW S \in SUBSET D, Cardinality(S) = n + 1 PROVE S \in P
    BY <1>1
  <2>2. S # {}
    <3>1. Cardinality({}) = 0 /\ n + 1 # 0
      BY FS_EmptySet
    <3> QED BY <2>1, <3>1
  <2>3. ASSUME NEW x \in S PROVE S \ {x} \in P
    <3>1. Cardinality(S \ {x}) = n
      BY <1>2, <2>1, FS_RemoveElement
    <3> QED BY <1>1, <1>4, <3>1
  <2> QED BY <2>2, <2>3
<1>5. \A n \in Nat : n \in N
  BY <1>3, <1>4, NumberInduction
<1> QED BY <1>1, <1>2, <1>5

\* The recursion that a sum is defined by, at s and over all subsets of S.
Adds(f, g, s) ==
    g[s] = IF s = {} THEN 0
           ELSE f[CHOOSE x \in s : TRUE] + g[s \ {CHOOSE x \in s : TRUE}]

IsSum(f, S, g) ==
    g = [s \in SUBSET S |->
            IF s = {} THEN 0
            ELSE f[CHOOSE x \in s : TRUE] + g[s \ {CHOOSE x \in s : TRUE}]]

\* The library's sum is the value of a solution.
LEMMA SumIs ==
    ASSUME NEW f, NEW S
    PROVE  SumFunctionOnSet(f, S) = (CHOOSE g : IsSum(f, S, g))[S]
BY DEF SumFunctionOnSet, FoldFunctionOnSet, MapThenFoldSet, IsSum

\* Sums over finite sets exist: by the size of the subsets.
LEMMA SumExists ==
    ASSUME NEW f, NEW S, IsFiniteSet(S)
    PROVE  \E g : IsSum(f, S, g)
<1>1. PICK N : N = {n \in Nat : \E g : \A s \in SUBSET S : Cardinality(s) <= n => Adds(f, g, s)}
  OBVIOUS
<1>2. \A s \in SUBSET S : IsFiniteSet(s) /\ Cardinality(s) \in Nat
                          /\ (Cardinality(s) = 0 <=> s = {})
  BY FS_Subset, FS_CardinalityType, FS_EmptySet
<1>3. 0 \in N
  <2>1. PICK g : g = [s \in SUBSET S |-> 0]
    OBVIOUS
  <2>2. ASSUME NEW s \in SUBSET S, Cardinality(s) <= 0 PROVE Adds(f, g, s)
    <3>1. s = {}
      BY <1>2, <2>2
    <3> QED BY <2>1, <3>1 DEF Adds
  <2> QED BY <1>1, <2>2
<1>4. ASSUME NEW n \in Nat, n \in N PROVE n + 1 \in N
  <2>1. PICK g : \A s \in SUBSET S : Cardinality(s) <= n => Adds(f, g, s)
    BY <1>1, <1>4
  <2>2. PICK h : h = [s \in SUBSET S |->
                        IF Cardinality(s) <= n THEN g[s]
                        ELSE f[CHOOSE x \in s : TRUE] + g[s \ {CHOOSE x \in s : TRUE}]]
    OBVIOUS
  <2>3. ASSUME NEW s \in SUBSET S, Cardinality(s) <= n + 1 PROVE Adds(f, h, s)
    <3>1. CASE s = {}
      <4>1. Cardinality(s) <= n
        BY <1>2, <3>1
      <4>2. h[s] = g[s] /\ Adds(f, g, s)
        BY <2>1, <2>2, <4>1
      <4> QED BY <3>1, <4>2 DEF Adds
    <3>2. CASE s # {}
      <4>1. PICK c : c = CHOOSE x \in s : TRUE
        OBVIOUS
      <4>2. c \in s
        BY <3>2, <4>1
      <4>3. Cardinality(s \ {c}) = Cardinality(s) - 1 /\ s \ {c} \in SUBSET S
        BY <1>2, <4>2, FS_RemoveElement
      <4>4. Cardinality(s) \in Nat
        BY <1>2
      <4>5. h[s \ {c}] = g[s \ {c}]
        BY <2>2, <2>3, <4>3, <4>4
      <4>6. Cardinality(s) <= n => g[s] = f[c] + g[s \ {c}]
        BY <2>1, <3>2, <4>1 DEF Adds
      <4>7. h[s] = f[c] + g[s \ {c}]
        BY <2>2, <4>1, <4>6
      <4> QED BY <3>2, <4>1, <4>5, <4>7 DEF Adds
    <3> QED BY <3>1, <3>2
  <2>4. \E e : \A s \in SUBSET S : Cardinality(s) <= n + 1 => Adds(f, e, s)
    BY <2>3
  <2> QED BY <1>1, <2>4
<1>5. Cardinality(S) \in N
  BY <1>2, <1>3, <1>4, NumberInduction
<1>6. PICK g : \A s \in SUBSET S : Cardinality(s) <= Cardinality(S) => Adds(f, g, s)
  BY <1>1, <1>5
<1>7. ASSUME NEW s \in SUBSET S PROVE Adds(f, g, s)
  BY <1>6, FS_Subset
<1>8. PICK h : h = [s \in SUBSET S |-> g[s]]
  OBVIOUS
<1>9. ASSUME NEW s \in SUBSET S
      PROVE  h[s] = IF s = {} THEN 0
                    ELSE f[CHOOSE x \in s : TRUE] + h[s \ {CHOOSE x \in s : TRUE}]
  <2>1. h[s] = g[s] /\ h[s \ {CHOOSE x \in s : TRUE}] = g[s \ {CHOOSE x \in s : TRUE}]
    BY <1>8
  <2> QED BY <1>7, <2>1 DEF Adds
<1>10. IsSum(f, S, h)
  BY <1>8, <1>9 DEF IsSum
<1> QED BY <1>10

\* and are the same, whatever larger set they are taken from.
LEMMA SumsAgree ==
    ASSUME NEW f, NEW S, NEW T \in SUBSET S, IsFiniteSet(T),
           NEW g, IsSum(f, S, g), NEW h, IsSum(f, T, h)
    PROVE  \A s \in SUBSET T : g[s] = h[s]
<1>1. PICK P : P = {s \in SUBSET T : g[s] = h[s]}
  OBVIOUS
<1>2. ASSUME NEW s \in SUBSET T PROVE Adds(f, g, s) /\ Adds(f, h, s)
  BY DEF IsSum, Adds
<1>3. {} \in P
  BY <1>1, <1>2 DEF Adds
<1>4. ASSUME NEW s \in SUBSET T, s # {}, \A x \in s : s \ {x} \in P PROVE s \in P
  <2>1. PICK c : c = CHOOSE x \in s : TRUE
    OBVIOUS
  <2>2. g[s \ {c}] = h[s \ {c}]
    BY <1>1, <1>4, <2>1
  <2>3. g[s] = f[c] + g[s \ {c}] /\ h[s] = f[c] + h[s \ {c}]
    BY <1>2, <1>4, <2>1 DEF Adds
  <2> QED BY <1>1, <2>2, <2>3
<1> QED BY <1>1, <1>3, <1>4, SubsetInduction

\* The sum over a set is that over what is left without one of its elements, and
\* that element.
LEMMA SumPick ==
    ASSUME NEW f, NEW S, IsFiniteSet(S)
    PROVE  SumFunctionOnSet(f, S) =
              IF S = {} THEN 0
              ELSE f[CHOOSE x \in S : TRUE] + SumFunctionOnSet(f, S \ {CHOOSE x \in S : TRUE})
<1>1. PICK c : c = CHOOSE x \in S : TRUE
  OBVIOUS
<1>2. PICK T \in SUBSET S : T = S \ {c}
  OBVIOUS
<1>3. IsFiniteSet(T)
  BY FS_Subset
<1>4. PICK g : g = CHOOSE k : IsSum(f, S, k)
  OBVIOUS
<1>5. PICK h : h = CHOOSE k : IsSum(f, T, k)
  OBVIOUS
<1>6. IsSum(f, S, g) /\ IsSum(f, T, h)
  BY <1>3, <1>4, <1>5, SumExists
<1>7. g[T] = h[T]
  BY <1>3, <1>6, SumsAgree
<1>8. SumFunctionOnSet(f, S) = g[S] /\ SumFunctionOnSet(f, T) = h[T]
  BY <1>4, <1>5, SumIs
<1>9. g[S] = IF S = {} THEN 0 ELSE f[c] + g[T]
  BY <1>1, <1>2, <1>6 DEF IsSum
<1> QED BY <1>1, <1>2, <1>7, <1>8, <1>9

\* The sum over nothing is 0.
LEMMA SumEmpty == \A f : SumFunctionOnSet(f, {}) = 0
BY SumPick, FS_EmptySet

\* A sum of integers is an integer,
LEMMA SumType ==
    ASSUME NEW f, NEW S, IsFiniteSet(S), \A x \in S : f[x] \in Int
    PROVE  \A T \in SUBSET S : SumFunctionOnSet(f, T) \in Int
<1>1. PICK P : P = {T \in SUBSET S : SumFunctionOnSet(f, T) \in Int}
  OBVIOUS
<1>2. {} \in P
  BY <1>1, SumEmpty
<1>3. ASSUME NEW T \in SUBSET S, T # {}, \A x \in T : T \ {x} \in P PROVE T \in P
  <2>1. PICK c : c = CHOOSE x \in T : TRUE
    OBVIOUS
  <2>2. c \in T
    BY <1>3, <2>1
  <2>3. SumFunctionOnSet(f, T \ {c}) \in Int /\ f[c] \in Int
    BY <1>1, <1>3, <2>2
  <2>4. SumFunctionOnSet(f, T) = f[c] + SumFunctionOnSet(f, T \ {c})
    <3>1. IsFiniteSet(T)
      BY FS_Subset
    <3> QED BY <1>3, <2>1, <3>1, SumPick
  <2> QED BY <1>1, <2>3, <2>4
<1>4. \A T \in SUBSET S : T \in P
  BY <1>2, <1>3, SubsetInduction
<1> QED BY <1>1, <1>4

\* only the values in the set matter,
LEMMA SumSame ==
    ASSUME NEW f, NEW g, NEW S, IsFiniteSet(S), \A x \in S : f[x] = g[x]
    PROVE  SumFunctionOnSet(f, S) = SumFunctionOnSet(g, S)
<1>1. PICK P : P = {T \in SUBSET S : SumFunctionOnSet(f, T) = SumFunctionOnSet(g, T)}
  OBVIOUS
<1>2. {} \in P
  BY <1>1, SumEmpty
<1>3. ASSUME NEW T \in SUBSET S, T # {}, \A x \in T : T \ {x} \in P PROVE T \in P
  <2>1. PICK c : c = CHOOSE x \in T : TRUE
    OBVIOUS
  <2>2. c \in T
    BY <1>3, <2>1
  <2>3. SumFunctionOnSet(f, T \ {c}) = SumFunctionOnSet(g, T \ {c}) /\ f[c] = g[c]
    BY <1>1, <1>3, <2>2
  <2>4. /\ SumFunctionOnSet(f, T) = f[c] + SumFunctionOnSet(f, T \ {c})
        /\ SumFunctionOnSet(g, T) = g[c] + SumFunctionOnSet(g, T \ {c})
    <3>1. IsFiniteSet(T)
      BY FS_Subset
    <3> QED BY <1>3, <2>1, <3>1, SumPick
  <2> QED BY <1>1, <2>3, <2>4
<1>4. \A T \in SUBSET S : T \in P
  BY <1>2, <1>3, SubsetInduction
<1> QED BY <1>1, <1>4

\* and any element may be the one that is added last.
LEMMA SumAdd ==
    ASSUME NEW f, NEW S, IsFiniteSet(S), \A x \in S : f[x] \in Int
    PROVE  \A T \in SUBSET S : \A x \in T :
              SumFunctionOnSet(f, T) = f[x] + SumFunctionOnSet(f, T \ {x})
<1>1. PICK P : P = {T \in SUBSET S : \A x \in T :
                       SumFunctionOnSet(f, T) = f[x] + SumFunctionOnSet(f, T \ {x})}
  OBVIOUS
<1>2. {} \in P
  BY <1>1
<1>3. ASSUME NEW T \in SUBSET S, T # {}, \A x \in T : T \ {x} \in P PROVE T \in P
  <2>1. PICK c : c = CHOOSE x \in T : TRUE
    OBVIOUS
  <2>2. c \in T
    BY <1>3, <2>1
  <2>3. SumFunctionOnSet(f, T) = f[c] + SumFunctionOnSet(f, T \ {c})
    <3>1. IsFiniteSet(T)
      BY FS_Subset
    <3> QED BY <1>3, <2>1, <3>1, SumPick
  <2>4. ASSUME NEW x \in T
        PROVE  SumFunctionOnSet(f, T) = f[x] + SumFunctionOnSet(f, T \ {x})
    <3>1. CASE x = c
      BY <2>3, <3>1
    <3>2. CASE x # c
      <4>1. /\ SumFunctionOnSet(f, T \ {c}) = f[x] + SumFunctionOnSet(f, (T \ {c}) \ {x})
            /\ SumFunctionOnSet(f, T \ {x}) = f[c] + SumFunctionOnSet(f, (T \ {x}) \ {c})
        BY <1>1, <1>3, <2>2, <3>2
      <4>2. PICK U \in SUBSET S : U = T \ {c, x}
        OBVIOUS
      <4>3. (T \ {c}) \ {x} = U /\ (T \ {x}) \ {c} = U
        BY <4>2
      <4>4. SumFunctionOnSet(f, U) \in Int /\ f[c] \in Int /\ f[x] \in Int
        BY <2>2, SumType
      <4>5. PICK u \in Int : u = SumFunctionOnSet(f, U)
        BY <4>4
      <4>6. SumFunctionOnSet(f, T \ {c}) = f[x] + u /\ SumFunctionOnSet(f, T \ {x}) = f[c] + u
        BY <4>1, <4>3, <4>5
      <4>7. f[c] + (f[x] + u) = f[x] + (f[c] + u)
        BY <4>4
      <4> QED BY <2>3, <4>6, <4>7
    <3> QED BY <3>1, <3>2
  <2> QED BY <1>1, <2>4
<1>4. \A T \in SUBSET S : T \in P
  BY <1>2, <1>3, SubsetInduction
<1> QED BY <1>1, <1>4

\* The elements of S that k maps to y.
Fibre(k, S, y) == {x \in S : k[x] = y}

\* What k maps S to.
Image(k, S) == {k[x] : x \in S}

\* The sums over the fibres of k.
Parts(f, k, S) == [y \in Image(k, S) |-> SumFunctionOnSet(f, Fibre(k, S, y))]

\* The image of a finite set is finite.
LEMMA FiniteImage ==
    ASSUME NEW S, IsFiniteSet(S), NEW k
    PROVE  IsFiniteSet(Image(k, S))
<1>1. PICK g : g = [x \in S |-> k[x]]
  OBVIOUS
<1>2. PICK T : T = Image(k, S)
  OBVIOUS
<1>3. g \in [S -> T] /\ \A y \in T : \E x \in S : g[x] = y
  BY <1>1, <1>2 DEF Image
<1>4. g \in Surjection(S, T)
  BY <1>3 DEF Surjection
<1> QED BY <1>2, <1>4, FS_Surjection

\* The sum of the sums over the fibres is the sum over all.
LEMMA SumParts ==
    ASSUME NEW f, NEW k, NEW S, IsFiniteSet(S), \A x \in S : f[x] \in Int
    PROVE  \A T \in SUBSET S :
              SumFunctionOnSet(Parts(f, k, T), Image(k, T)) = SumFunctionOnSet(f, T)
<1>1. PICK P : P = {T \in SUBSET S : SumFunctionOnSet(Parts(f, k, T), Image(k, T))
                                        = SumFunctionOnSet(f, T)}
  OBVIOUS
<1>2. {} \in P
  <2>1. Image(k, {}) = {}
    BY DEF Image
  <2>2. \A g : SumFunctionOnSet(g, {}) = 0
    BY SumEmpty
  <2> QED BY <1>1, <2>1, <2>2
<1>3. ASSUME NEW T \in SUBSET S, T # {}, \A x \in T : T \ {x} \in P PROVE T \in P
  <2>1. PICK x \in T : TRUE
    BY <1>3
  <2>2. PICK U \in SUBSET S : U = T \ {x}
    OBVIOUS
  <2>3. PICK y : y = k[x]
    OBVIOUS
  <2>4. PICK g : g = Parts(f, k, T)
    OBVIOUS
  <2>5. PICK h : h = Parts(f, k, U)
    OBVIOUS
  <2>6. PICK I : I = Image(k, T)
    OBVIOUS
  <2>7. PICK J : J = Image(k, U)
    OBVIOUS
  <2>8. PICK K : K = J \ {y}
    OBVIOUS
  <2>9. I = J \cup {y} /\ I \ {y} = K /\ y \in I
    BY <2>2, <2>3, <2>6, <2>7, <2>8 DEF Image
  <2>10. IsFiniteSet(T) /\ IsFiniteSet(U) /\ IsFiniteSet(I) /\ IsFiniteSet(J)
         /\ IsFiniteSet(K)
    BY <2>6, <2>7, <2>8, FiniteImage, FS_Subset
  <2>11. /\ \A z \in I : g[z] = SumFunctionOnSet(f, Fibre(k, T, z)) /\ g[z] \in Int
         /\ \A z \in J : h[z] = SumFunctionOnSet(f, Fibre(k, U, z)) /\ h[z] \in Int
    <3>1. \A z : Fibre(k, T, z) \in SUBSET S /\ Fibre(k, U, z) \in SUBSET S
      BY DEF Fibre
    <3> QED BY <2>4, <2>5, <2>6, <2>7, <3>1, SumType DEF Parts
  <2>12. \A z \in K : g[z] = h[z]
    <3>1. ASSUME NEW z \in K PROVE Fibre(k, T, z) = Fibre(k, U, z)
      BY <2>2, <2>3, <2>8 DEF Fibre
    <3> QED BY <2>8, <2>9, <2>11, <3>1
  <2>13. SumFunctionOnSet(g, K) = SumFunctionOnSet(h, K)
    BY <2>10, <2>12, SumSame
  <2>14. g[y] = f[x] + SumFunctionOnSet(f, Fibre(k, U, y))
    <3>1. Fibre(k, T, y) \in SUBSET S /\ x \in Fibre(k, T, y)
          /\ Fibre(k, T, y) \ {x} = Fibre(k, U, y)
      BY <2>2, <2>3 DEF Fibre
    <3>2. SumFunctionOnSet(f, Fibre(k, T, y))
             = f[x] + SumFunctionOnSet(f, Fibre(k, T, y) \ {x})
      BY <3>1, SumAdd
    <3> QED BY <2>9, <2>11, <3>1, <3>2
  <2>15. SumFunctionOnSet(g, I) = g[y] + SumFunctionOnSet(g, K)
    BY <2>9, <2>10, <2>11, SumAdd
  <2>16. SumFunctionOnSet(h, J) = SumFunctionOnSet(f, U)
    BY <1>1, <1>3, <2>1, <2>2, <2>5, <2>7
  <2>17. SumFunctionOnSet(f, Fibre(k, U, y)) + SumFunctionOnSet(h, K) = SumFunctionOnSet(h, J)
    <3>1. CASE y \in J
      BY <2>8, <2>10, <2>11, <3>1, SumAdd
    <3>2. CASE y \notin J
      <4>1. K = J /\ Fibre(k, U, y) = {}
        BY <2>3, <2>7, <2>8, <3>2 DEF Image, Fibre
      <4>2. SumFunctionOnSet(f, {}) = 0
        BY SumEmpty
      <4>3. SumFunctionOnSet(h, J) \in Int
        BY <2>10, <2>11, SumType
      <4> QED BY <4>1, <4>2, <4>3
    <3> QED BY <3>1, <3>2
  <2>18. SumFunctionOnSet(f, T) = f[x] + SumFunctionOnSet(f, U)
    BY <2>2, SumAdd
  <2>19. /\ f[x] \in Int /\ SumFunctionOnSet(f, Fibre(k, U, y)) \in Int
         /\ SumFunctionOnSet(h, K) \in Int
    <3>1. Fibre(k, U, y) \in SUBSET S
      BY DEF Fibre
    <3>2. SumFunctionOnSet(f, Fibre(k, U, y)) \in Int
      BY <3>1, SumType
    <3>3. K \in SUBSET J
      BY <2>8
    <3>4. SumFunctionOnSet(h, K) \in Int
      BY <2>10, <2>11, <3>3, SumType
    <3> QED BY <3>2, <3>4
  <2>20. SumFunctionOnSet(g, I) = SumFunctionOnSet(f, T)
    BY <2>13, <2>14, <2>15, <2>16, <2>17, <2>18, <2>19
  <2> QED BY <1>1, <2>4, <2>6, <2>20
<1>4. \A T \in SUBSET S : T \in P
  BY <1>2, <1>3, SubsetInduction
<1> QED BY <1>1, <1>4

(***************************************************************************)
(* Quantities                                                              *)
(***************************************************************************)

\* A finite bucket of integer quantities.
Stocked(bucket) == IsFiniteSet(DOMAIN bucket) /\ \A o \in DOMAIN bucket : bucket[o] \in Int

\* The buckets are finite, and so are their members and quantities.
StockInv ==
    /\ settings.bucket_shape \in {"SET", "DICT", "LIST"}
    /\ the_bucket # None => Stocked(the_bucket)
    /\ IsFiniteSet(DOMAIN all_buckets)
    /\ \A t \in DOMAIN all_buckets : Stocked(all_buckets[t])

\* The tags that o is under.
Tagged(o) == {t \in DOMAIN tags_buckets : o \in DOMAIN tags_buckets[t]}

\* A member is one that has a tag, and its quantities are finitely many integers.
LEMMA Stocks ==
    ASSUME StockInv
    PROVE  /\ IsFiniteSet(Members)
           /\ \A o : /\ DOMAIN Quantities(o) = Tagged(o)
                     /\ o \in Members <=> Tagged(o) # {}
                     /\ IsFiniteSet(Tagged(o))
                     /\ \A t \in Tagged(o) : Quantities(o)[t] \in Int
<1>1. IsFiniteSet(DOMAIN tags_buckets) /\ \A t \in DOMAIN tags_buckets : Stocked(tags_buckets[t])
  <2>1. CASE bucketizers # << >>
    BY <2>1 DEF StockInv, tags_buckets
  <2>2. CASE bucketizers = << >> /\ the_bucket = None
    <3>1. tags_buckets = << >> /\ DOMAIN << >> = {}
      BY <2>2 DEF tags_buckets
    <3> QED BY <3>1, FS_EmptySet
  <2>3. CASE bucketizers = << >> /\ the_bucket # None
    <3>1. tags_buckets = [t \in {<< >>} |-> the_bucket] /\ IsFiniteSet({<< >>})
      BY <2>3, FS_Singleton DEF tags_buckets
    <3> QED BY <2>3, <3>1 DEF StockInv
  <2> QED BY <2>1, <2>2, <2>3
<1>2. IsFiniteSet(Members)
  <2>1. PICK k : k = [t \in DOMAIN tags_buckets |-> DOMAIN tags_buckets[t]]
    OBVIOUS
  <2>2. PICK I : I = Image(k, DOMAIN tags_buckets)
    OBVIOUS
  <2>3. IsFiniteSet(I) /\ \A members \in I : IsFiniteSet(members)
    BY <1>1, <2>1, <2>2, FiniteImage DEF Image, Stocked
  <2>4. Members = UNION I
    BY <2>1, <2>2 DEF Members, Image
  <2> QED BY <2>3, <2>4, FS_UNION
<1>3. ASSUME NEW o
      PROVE  /\ DOMAIN Quantities(o) = Tagged(o)
             /\ o \in Members <=> Tagged(o) # {}
             /\ IsFiniteSet(Tagged(o))
             /\ \A t \in Tagged(o) : Quantities(o)[t] \in Int
  <2>1. Tagged(o) \in SUBSET DOMAIN tags_buckets
    BY DEF Tagged
  <2>2. IsFiniteSet(Tagged(o))
    BY <1>1, <2>1, FS_Subset
  <2>3. o \in Members <=> Tagged(o) # {}
    BY DEF Members, Tagged
  <2>4. DOMAIN Quantities(o) = Tagged(o) /\ \A t \in Tagged(o) : Quantities(o)[t] = tags_buckets[t][o]
    BY DEF Quantities, Tagged
  <2> QED BY <1>1, <2>2, <2>3, <2>4 DEF Stocked, Tagged
<1> QED BY <1>2, <1>3

\* What a new bucket gets of a member is an integer.
LEMMA GatheredType ==
    ASSUME StockInv, NEW o, NEW from \in SUBSET Tagged(o)
    PROVE  Gathered(o, from) \in Int
<1>1. SumFunctionOnSet(Quantities(o), from) \in Int
  BY Stocks, SumType
<1> QED BY <1>1 DEF Gathered

\* The keys that a member gets for its old ones.
NewKeys(bs, replace, o) == [t \in Tagged(o) |-> SortKey(replace, t, Tags(bs, o))]

\* The keys that it is under afterwards.
Keys(bs, replace, o) == Image(NewKeys(bs, replace, o), Tagged(o))

\* Sorting in these terms: a new bucket gathers the old tags that its key is for.
LEMMA SortedIs ==
    ASSUME StockInv, NEW bs, NEW replace
    PROVE  /\ DOMAIN Sorted(bs, replace) = UNION {Keys(bs, replace, o) : o \in Kept(bs)}
           /\ \A key \in DOMAIN Sorted(bs, replace) :
                 /\ DOMAIN Sorted(bs, replace)[key] = {o \in Kept(bs) : key \in Keys(bs, replace, o)}
                 /\ \A o \in DOMAIN Sorted(bs, replace)[key] :
                       Sorted(bs, replace)[key][o] =
                          Gathered(o, Fibre(NewKeys(bs, replace, o), Tagged(o), key))
<1>1. ASSUME NEW o
      PROVE  Keys(bs, replace, o)
                = {SortKey(replace, t, Tags(bs, o)) : t \in DOMAIN Quantities(o)}
  BY Stocks DEF Keys, NewKeys, Image
<1>2. ASSUME NEW o, NEW key
      PROVE  Fibre(NewKeys(bs, replace, o), Tagged(o), key)
                = {t \in DOMAIN Quantities(o) : SortKey(replace, t, Tags(bs, o)) = key}
  BY Stocks DEF NewKeys, Fibre
<1> QED BY <1>1, <1>2 DEF Sorted

\* What sorting makes is finite again.
LEMMA SortedStocked ==
    ASSUME StockInv, NEW bs, NEW replace
    PROVE  /\ IsFiniteSet(DOMAIN Sorted(bs, replace))
           /\ \A key \in DOMAIN Sorted(bs, replace) : Stocked(Sorted(bs, replace)[key])
<1>1. IsFiniteSet(Kept(bs))
  BY Stocks, FS_Subset DEF Kept
<1>2. IsFiniteSet(DOMAIN Sorted(bs, replace))
  <2>1. PICK k : k = [o \in Kept(bs) |-> Keys(bs, replace, o)]
    OBVIOUS
  <2>2. PICK I : I = Image(k, Kept(bs))
    OBVIOUS
  <2>3. ASSUME NEW o PROVE IsFiniteSet(Keys(bs, replace, o))
    BY Stocks, FiniteImage DEF Keys
  <2>4. IsFiniteSet(I) /\ \A keys \in I : IsFiniteSet(keys)
    BY <1>1, <2>1, <2>2, <2>3, FiniteImage DEF Image
  <2>5. I = {Keys(bs, replace, o) : o \in Kept(bs)}
    BY <2>1, <2>2 DEF Image
  <2>6. DOMAIN Sorted(bs, replace) = UNION I
    BY <2>5, SortedIs
  <2>7. IsFiniteSet(UNION I)
    BY <2>4, FS_UNION
  <2> QED BY <2>6, <2>7
<1>3. ASSUME NEW key \in DOMAIN Sorted(bs, replace)
      PROVE  Stocked(Sorted(bs, replace)[key])
  <2>1. PICK members \in SUBSET Kept(bs) : members = DOMAIN Sorted(bs, replace)[key]
    BY SortedIs
  <2>2. IsFiniteSet(members)
    BY <1>1, FS_Subset
  <2>3. ASSUME NEW o \in members PROVE Sorted(bs, replace)[key][o] \in Int
    <3>1. Fibre(NewKeys(bs, replace, o), Tagged(o), key) \in SUBSET Tagged(o)
      BY DEF Fibre
    <3>2. Gathered(o, Fibre(NewKeys(bs, replace, o), Tagged(o), key)) \in Int
      BY <3>1, GatheredType
    <3>3. Sorted(bs, replace)[key][o]
             = Gathered(o, Fibre(NewKeys(bs, replace, o), Tagged(o), key))
      BY <2>1, SortedIs
    <3> QED BY <3>2, <3>3
  <2> QED BY <2>1, <2>2, <2>3 DEF Stocked
<1> QED BY <1>2, <1>3

\* A single bucket of members is not None.
LEMMA UnsortedIs ==
    ASSUME IInv, StockInv
    PROVE  /\ Members = {} => Unsorted = None
           /\ Members # {} => /\ Unsorted # None /\ Stocked(Unsorted)
                              /\ DOMAIN Unsorted = Members
                              /\ \A o \in Members : Unsorted[o] = Gathered(o, Tagged(o))
<1>1. CASE Members = {}
  BY <1>1 DEF Unsorted
<1>2. CASE Members # {}
  <2>1. \A o : DOMAIN Quantities(o) = Tagged(o) /\ Gathered(o, Tagged(o)) \in Int
    BY Stocks, GatheredType
  <2>2. PICK b : b = [o \in Members |-> Gathered(o, Tagged(o))]
    OBVIOUS
  <2>3. Unsorted = b
    BY <1>2, <2>1, <2>2 DEF Unsorted
  <2>4. Members \in SUBSET Obj
    BY MembersAreObj DEF Members
  <2>5. b \in [Members -> Int]
    BY <2>1, <2>2
  <2>6. b # None
    BY <2>4, <2>5, BasketAssumption
  <2> QED BY <1>2, <2>2, <2>3, <2>5, <2>6, Stocks DEF Stocked
<1> QED BY <1>1, <1>2

\* Sorting keeps what there is of every member that it keeps.
LEMMA SortKeepsTotals ==
    ASSUME IInv, StockInv, NEW bs \in Seq(Bucketizer), NEW replace \in BOOLEAN,
           add_bucketizers(bs, replace)
    PROVE  /\ Members' = Kept(bs)
           /\ settings.bucket_shape # "SET" => \A o \in Members' : Total(o)' = Total(o)
<1>1. PICK nb : nb = IF replace THEN bs ELSE bucketizers \o bs
  OBVIOUS
<1>2. bucketizers' = nb
  BY <1>1 DEF add_bucketizers
<1>3. ASSUME NEW o
      PROVE  DOMAIN Quantities(o) = Tagged(o) /\ Total(o) = SumFunctionOnSet(Quantities(o), Tagged(o))
  BY Stocks DEF Total, SumFunction
<1>4. CASE (replace \/ bucketizers = << >>) /\ bs = << >>
  <2>1. the_bucket' = Unsorted
    BY <1>4 DEF add_bucketizers
  <2>2. nb = << >>
    BY <1>1, <1>4, ConcatEmptySeq DEF IInv
  <2>3. Kept(bs) = Members
    <3>1. DOMAIN bs = {}
      BY <1>4
    <3> QED BY <3>1 DEF Kept, Fits
  <2>4. CASE Members = {}
    <3>1. tags_buckets' = << >> /\ DOMAIN << >> = {}
      BY <1>2, <2>1, <2>2, <2>4, UnsortedIs DEF tags_buckets
    <3>2. Members' = {}
      BY <3>1 DEF Members
    <3> QED BY <2>3, <2>4, <3>2
  <2>5. CASE Members # {}
    <3>1. /\ Unsorted # None /\ DOMAIN Unsorted = Members
          /\ \A o \in Members : Unsorted[o] = Gathered(o, Tagged(o))
      BY <2>5, UnsortedIs
    <3>2. tags_buckets' = [t \in {<< >>} |-> Unsorted]
      BY <1>2, <2>1, <2>2, <3>1 DEF tags_buckets
    <3>3. Members' = Members
      BY <3>1, <3>2 DEF Members
    <3>4. ASSUME NEW o \in Members, settings.bucket_shape # "SET" PROVE Total(o)' = Total(o)
      <4>1. PICK q : q = Quantities(o)'
        OBVIOUS
      <4>2. q = [t \in {<< >>} |-> Total(o)]
        <5>1. Unsorted[o] = Total(o)
          BY <1>3, <3>1, <3>4 DEF Gathered
        <5>2. {t \in DOMAIN tags_buckets' : o \in DOMAIN tags_buckets'[t]} = {<< >>}
          BY <3>1, <3>2
        <5> QED BY <3>2, <4>1, <5>1, <5>2 DEF Quantities
      <4>3. Total(o) \in Int
        BY <1>3, Stocks, SumType
      <4>4. PICK S : S = {<< >>}
        OBVIOUS
      <4>5. SumFunctionOnSet(q, S) = q[<< >>] + SumFunctionOnSet(q, S \ {<< >>})
        <5>1. IsFiniteSet(S) /\ << >> \in S /\ S \in SUBSET S
          BY <4>4, FS_Singleton
        <5>2. \A t \in S : q[t] \in Int
          BY <4>2, <4>3, <4>4
        <5> QED BY <5>1, <5>2, SumAdd
      <4>6. SumFunctionOnSet(q, S \ {<< >>}) = 0
        BY <4>4, SumEmpty
      <4>7. SumFunctionOnSet(q, S) = Total(o)
        BY <4>2, <4>3, <4>4, <4>5, <4>6
      <4>8. Total(o)' = SumFunctionOnSet(q, DOMAIN q)
        BY <4>1 DEF Total, SumFunction
      <4> QED BY <4>2, <4>4, <4>7, <4>8
    <3> QED BY <2>3, <3>3, <3>4
  <2> QED BY <2>4, <2>5
<1>5. CASE ~((replace \/ bucketizers = << >>) /\ bs = << >>)
  <2>1. tags_buckets' = Sorted(bs, replace)
    <3>1. nb # << >>
      BY <1>1, <1>5, StillTagged DEF IInv
    <3>2. all_buckets' = Sorted(bs, replace)
      BY <1>5 DEF add_bucketizers
    <3> QED BY <1>2, <3>1, <3>2 DEF tags_buckets
  <2>2. ASSUME NEW o
        PROVE  {key \in DOMAIN Sorted(bs, replace) : o \in DOMAIN Sorted(bs, replace)[key]}
                  = IF o \in Kept(bs) THEN Keys(bs, replace, o) ELSE {}
    <3>1. DOMAIN Sorted(bs, replace) = UNION {Keys(bs, replace, m) : m \in Kept(bs)}
      BY SortedIs
    <3>2. ASSUME NEW key \in DOMAIN Sorted(bs, replace)
          PROVE  o \in DOMAIN Sorted(bs, replace)[key]
                    <=> o \in Kept(bs) /\ key \in Keys(bs, replace, o)
      <4>1. DOMAIN Sorted(bs, replace)[key] = {m \in Kept(bs) : key \in Keys(bs, replace, m)}
        BY SortedIs
      <4> QED BY <4>1, Zenon
    <3> QED BY <3>1, <3>2
  <2>3. Members' = Kept(bs)
    <3>1. Members' = {o \in Members' \cup Kept(bs) :
                        \E key \in DOMAIN Sorted(bs, replace) : o \in DOMAIN Sorted(bs, replace)[key]}
      BY <2>1 DEF Members
    <3>2. ASSUME NEW o \in Kept(bs) PROVE Keys(bs, replace, o) # {}
      <4>1. Tagged(o) # {}
        BY Stocks DEF Kept
      <4> QED BY <4>1 DEF Keys, Image
    <3> QED BY <2>2, <3>1, <3>2
  <2>4. ASSUME NEW o \in Kept(bs), settings.bucket_shape # "SET" PROVE Total(o)' = Total(o)
    <3>1. PICK k : k = NewKeys(bs, replace, o)
      OBVIOUS
    <3>2. PICK f : f = Quantities(o)
      OBVIOUS
    <3>3. PICK S : S = Tagged(o)
      OBVIOUS
    <3>4. PICK q : q = Quantities(o)'
      OBVIOUS
    <3>5. q = Parts(f, k, S)
      <4>1. {t \in DOMAIN tags_buckets' : o \in DOMAIN tags_buckets'[t]} = Image(k, S)
        BY <2>1, <2>2, <3>1, <3>3 DEF Keys
      <4>2. q = [t \in Image(k, S) |-> tags_buckets'[t][o]]
        BY <3>4, <4>1 DEF Quantities
      <4>3. ASSUME NEW t \in Image(k, S)
            PROVE  tags_buckets'[t][o] = SumFunctionOnSet(f, Fibre(k, S, t))
        <5>1. t \in DOMAIN Sorted(bs, replace) /\ o \in DOMAIN Sorted(bs, replace)[t]
          BY <2>1, <4>1
        <5>2. Sorted(bs, replace)[t][o] = Gathered(o, Fibre(k, S, t))
          BY <3>1, <3>3, <5>1, SortedIs
        <5> QED BY <2>1, <2>4, <3>2, <5>2 DEF Gathered
      <4> QED BY <4>2, <4>3 DEF Parts
    <3>6. IsFiniteSet(S) /\ \A t \in S : f[t] \in Int
      BY <3>2, <3>3, Stocks
    <3>7. SumFunctionOnSet(q, Image(k, S)) = SumFunctionOnSet(f, S)
      BY <3>5, <3>6, SumParts
    <3>8. DOMAIN q = Image(k, S)
      BY <3>5 DEF Parts
    <3>9. Total(o)' = SumFunctionOnSet(q, DOMAIN q)
      BY <3>4 DEF Total, SumFunction
    <3> QED BY <1>3, <3>2, <3>3, <3>7, <3>8, <3>9
  <2> QED BY <2>3, <2>4
<1> QED BY <1>4, <1>5

\* What is added to a bucket leaves it finite.
LEMMA InsertStocked ==
    ASSUME StockInv, NEW bucket, Stocked(bucket), NEW o, NEW qty \in Qty
    PROVE  Stocked(_insert(bucket, o, qty))
<1>1. PICK had \in Int : had = IF o \in DOMAIN bucket THEN bucket[o] ELSE 0
  BY DEF Stocked
<1>2. PICK has : has = CASE settings.bucket_shape = "SET"  -> 1
                         [] settings.bucket_shape = "LIST" -> had + 1
                         [] settings.bucket_shape = "DICT" -> had + qty
  OBVIOUS
<1>3. has \in Int
  <2>1. settings.bucket_shape \in {"SET", "DICT", "LIST"} /\ qty \in Int
    BY BasketAssumption DEF StockInv
  <2> QED BY <1>2, <2>1
<1>4. PICK b : b = [m \in DOMAIN bucket \cup {o} |-> IF m = o THEN has ELSE bucket[m]]
  OBVIOUS
<1>5. _insert(bucket, o, qty) = b
  BY <1>1, <1>2, <1>4 DEF _insert
<1>6. Stocked(b)
  <2>1. IsFiniteSet(DOMAIN bucket \cup {o})
    BY FS_AddElement DEF Stocked
  <2> QED BY <1>3, <1>4, <2>1 DEF Stocked
<1> QED BY <1>5, <1>6

\* No bucket has infinitely many members at first,
LEMMA EmptyStocked == Stocked(new_bucket) /\ DOMAIN << >> = {}
BY FS_EmptySet DEF Stocked, new_bucket

\* nor after all have been sorted,
LEMMA SortStocked ==
    ASSUME IInv, StockInv, NEW bs \in Seq(Bucketizer), NEW replace \in BOOLEAN,
           add_bucketizers(bs, replace)
    PROVE  StockInv'
<1>1. settings' = settings
  BY DEF add_bucketizers
<1>2. CASE (replace \/ bucketizers = << >>) /\ bs = << >>
  <2>1. the_bucket' = Unsorted /\ all_buckets' = << >>
    BY <1>2 DEF add_bucketizers
  <2>2. Unsorted # None => Stocked(Unsorted)
    BY UnsortedIs
  <2> QED BY <1>1, <2>1, <2>2, EmptyStocked, FS_EmptySet DEF StockInv, Stocked
<1>3. CASE ~((replace \/ bucketizers = << >>) /\ bs = << >>)
  <2>1. the_bucket' = new_bucket /\ all_buckets' = Sorted(bs, replace)
    BY <1>3 DEF add_bucketizers
  <2>2. /\ IsFiniteSet(DOMAIN all_buckets')
        /\ \A t \in DOMAIN all_buckets' : Stocked(all_buckets'[t])
    BY <2>1, SortedStocked
  <2> QED BY <1>1, <2>1, <2>2, EmptyStocked DEF StockInv, Stocked
<1> QED BY <1>2, <1>3

\* nor after one was added.
LEMMA AddStocked ==
    ASSUME StockInv, NEW o \in Obj, NEW qty \in Qty, add(o, qty)
    PROVE  StockInv'
<1>1. settings' = settings /\ Usable
  BY DEF add
<1>2. CASE bucketizers = << >>
  <2>1. the_bucket' = _insert(the_bucket, o, qty) /\ all_buckets' = all_buckets
    BY <1>2 DEF add
  <2>2. Stocked(the_bucket')
    BY <1>1, <1>2, <2>1, InsertStocked DEF Usable, StockInv
  <2> QED BY <1>1, <2>1, <2>2 DEF StockInv, Stocked
<1>3. CASE bucketizers # << >>
  <2>1. PICK key : key = Tags(bucketizers, o)
    OBVIOUS
  <2>2. PICK bucket : bucket = IF key \in DOMAIN all_buckets THEN all_buckets[key] ELSE new_bucket
    OBVIOUS
  <2>3. /\ all_buckets' = [t \in DOMAIN all_buckets \cup {key} |->
                             IF t = key THEN _insert(bucket, o, qty) ELSE all_buckets[t]]
        /\ the_bucket' = the_bucket
    BY <1>3, <2>1, <2>2 DEF add
  <2>4. Stocked(_insert(bucket, o, qty))
    <3>1. Stocked(bucket)
      BY <2>2, EmptyStocked DEF StockInv
    <3> QED BY <3>1, InsertStocked
  <2>5. IsFiniteSet(DOMAIN all_buckets \cup {key})
    BY FS_AddElement DEF StockInv
  <2>6. ASSUME NEW t \in DOMAIN all_buckets' PROVE Stocked(all_buckets'[t])
    BY <2>3, <2>4 DEF StockInv
  <2> QED BY <1>1, <2>3, <2>5, <2>6 DEF StockInv, Stocked
<1> QED BY <1>2, <1>3

\* Buckets stay finite, and their quantities integers.
LEMMA StockAlways == Spec => []StockInv
<1>1. Init => StockInv
  <2> SUFFICES ASSUME Init PROVE StockInv
    OBVIOUS
  <2>1. settings.bucket_shape \in {"SET", "DICT", "LIST"}
    BY DEF Init
  <2>2. the_bucket = new_bucket /\ all_buckets = << >>
    BY DEF Init
  <2> QED BY <2>1, <2>2, EmptyStocked, FS_EmptySet DEF StockInv
<1>2. IInv /\ StockInv /\ [Next]_vars => StockInv'
  <2> SUFFICES ASSUME IInv, StockInv, [Next]_vars PROVE StockInv'
    OBVIOUS
  <2>1. ASSUME NEW o \in Obj, NEW qty \in Qty, add(o, qty) PROVE StockInv'
    BY <2>1, AddStocked
  <2>2. ASSUME NEW bs \in Schemes, AddBucketizers(bs) PROVE StockInv'
    <3>1. bs \in Seq(Bucketizer)
      BY BasketAssumption
    <3> QED BY <2>2, <3>1, SortStocked DEF AddBucketizers
  <2>3. ASSUME NEW bs \in Schemes, bucketizers_set(bs) PROVE StockInv'
    <3>1. CASE ~settings.reset_members
      <4>1. bs \in Seq(Bucketizer)
        BY BasketAssumption
      <4> QED BY <2>3, <3>1, <4>1, SortStocked DEF bucketizers_set
    <3>2. CASE settings.reset_members
      <4>1. settings' = settings /\ the_bucket' = new_bucket /\ all_buckets' = << >>
        BY <2>3, <3>2 DEF bucketizers_set
      <4> QED BY <4>1, EmptyStocked, FS_EmptySet DEF StockInv, Stocked
    <3> QED BY <3>1, <3>2
  <2>4. ASSUME NEW o \in Obj, NEW v \in Value, SetTrait(o, v) PROVE StockInv'
    BY <2>4 DEF SetTrait, StockInv, Stocked
  <2>5. CASE UNCHANGED vars
    BY <2>5 DEF vars, StockInv, Stocked
  <2> QED BY <2>1, <2>2, <2>3, <2>4, <2>5 DEF Next
<1> QED BY <1>1, <1>2, Invariance, PTL DEF Spec

\* Sorting loses nothing but the members that some new bucketizer has no tag for,
\* and invents nothing: however old buckets are merged into new ones, the
\* quantities of a member add up to the same.
THEOREM SortingKeepsAll == Spec => SortingKeeps
<1> DEFINE Kind(bs) == AddBucketizers(bs) \/ (~settings.reset_members /\ bucketizers_set(bs))
           Keeps == \A bs \in Schemes : Kind(bs) =>
                       /\ Members' = {o \in Members : Fits(bs, o)}
                       /\ settings.bucket_shape # "SET" =>
                             \A o \in Members' : Total(o)' = Total(o)
<1>1. IInv /\ StockInv => Keeps
  <2> SUFFICES ASSUME IInv, StockInv, NEW bs \in Schemes, Kind(bs)
               PROVE  /\ Members' = {o \in Members : Fits(bs, o)}
                      /\ settings.bucket_shape # "SET" =>
                            \A o \in Members' : Total(o)' = Total(o)
    OBVIOUS
  <2>1. bs \in Seq(Bucketizer)
    BY BasketAssumption
  <2>2. \E replace \in BOOLEAN : add_bucketizers(bs, replace)
    BY DEF AddBucketizers, bucketizers_set
  <2> QED BY <2>1, <2>2, SortKeepsTotals DEF Kept
<1>2. IInv /\ StockInv => [UNCHANGED <<value, adds>> => Keeps]_vars
  BY <1>1
<1> QED BY <1>2, Invariance, StockAlways, PTL DEF SortingKeeps
=============================================================================
