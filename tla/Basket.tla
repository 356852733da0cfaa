------------------------------- MODULE Basket -------------------------------
(***************************************************************************)
(* A basket sorts the objects it is given into buckets: one, or one for    *)
(* each combination of the tags that its bucketizers give an object.       *)
(* Bucketizers may be added or replaced while there are members, and the   *)
(* traits that tags depend on may change while an object is in a bucket:   *)
(* it then stays where it was put, until all members are sorted anew.      *)
(*                                                                         *)
(* A bucket is a function from its members to quantities, whatever its     *)
(* shape: a list has its members as often as the quantity says, in a set   *)
(* the quantity is 1.                                                      *)
(***************************************************************************)
EXTENDS Integers, Sequences, FiniteSets, Functions

CONSTANTS
    Obj, Class, Value,
    ClassOf,     \* an object's class
    IsA,         \* the classes that a class is or inherits from
    BaseClass,   \* the base class of the basket
    Qty,         \* the quantities that are added
    Bucketizer,  \* records, see below
    Schemes,     \* the lists of bucketizers that a caller may give
    None,        \* no tag, no bucket
    MaxTags,     \* bound on the bucketizers of the basket
    MaxAdd       \* bound on additions

ASSUME BasketAssumption ==
    /\ ClassOf \in [Obj -> Class] /\ IsA \in [Class -> SUBSET Class]
    /\ Value \subseteq Int /\ Qty \subseteq Int
    /\ Schemes \subseteq Seq(Bucketizer)
    /\ \A b \in Bucketizer :
        /\ b.kind \in {"class", "feature", "range", "breakpoints"}
        /\ b.kind = "breakpoints" =>
            /\ b.points \in Seq(Int) /\ Len(b.points) > 1 /\ b.include_last \in BOOLEAN
            /\ \A i, j \in DOMAIN b.points : i < j => b.points[i] < b.points[j]
        /\ b.kind = "range" => DOMAIN b.intervals \subseteq Nat
    /\ None \notin Nat /\ \A members \in SUBSET Obj : None \notin [members -> Int]
    /\ MaxTags \in Nat /\ MaxAdd \in Nat

VARIABLES
    settings,     \* bucket_shape, subclasses_allowed, reset_members_on_set_bucketizers
    bucketizers,
    the_bucket,   \* the single bucket if there are no bucketizers
    all_buckets,  \* the others, by the tags of their members
    value,        \* the trait that bucketizers look at
    changed,      \* ghost: members whose trait has changed since all were sorted
    adds          \* how much of the bound is used up

vars == <<settings, bucketizers, the_bucket, all_buckets, value, changed, adds>>

new_bucket == [m \in {} |-> 0]

Init ==
    /\ settings \in [bucket_shape : {"SET", "DICT", "LIST"}, subclasses_allowed : BOOLEAN,
                     reset_members : BOOLEAN]
    /\ bucketizers = << >>
    /\ the_bucket = new_bucket /\ all_buckets = << >>
    /\ value \in [Obj -> Value]
    /\ changed = {} /\ adds = 0

-----------------------------------------------------------------------------
(* Bucketizers *)

calc_bucketizing_value(b, o) == IF b.kind = "class" THEN ClassOf[o] ELSE value[o]

\* By class or by feature: any tag, or the known ones.
KnownTag(b, v) == IF b.tags = {} \/ v \in b.tags THEN v ELSE None

Inside(interval, v) ==
    /\ interval.low <= v
    /\ IF interval.inclusive THEN v <= interval.high ELSE v < interval.high

\* By range: the first interval that has the value; ranges may overlap.
RangeTag(b, v) ==
    LET has == {k \in DOMAIN b.intervals : Inside(b.intervals[k], v)}
    IN  IF has = {} THEN None ELSE b.intervals[CHOOSE k \in has : \A j \in has : k <= j].label

\* A faulty bisect_right: that of bisect_left.
bisect_Left(points, v) == Cardinality({k \in DOMAIN points : points[k] < v})
bisect_right(points, v) == Cardinality({k \in DOMAIN points : points[k] <= v})

\* By breakpoints: the number of the interval.
BreakpointTag(b, v) ==
    LET k == bisect_right(b.points, v)
        n == Len(b.points)
    IN  CASE k = 0 -> None
          [] k = n -> IF b.include_last /\ v = b.points[n] THEN n - 1 ELSE None
          [] OTHER -> k

calc_bucket_tag(b, v) ==
    CASE b.kind = "range"       -> RangeTag(b, v)
      [] b.kind = "breakpoints" -> BreakpointTag(b, v)
      [] OTHER                  -> KnownTag(b, v)

Tags(bs, o) == [k \in DOMAIN bs |-> calc_bucket_tag(bs[k], calc_bucketizing_value(bs[k], o))]
Fits(bs, o) == \A k \in DOMAIN bs : Tags(bs, o)[k] # None

-----------------------------------------------------------------------------
(* add *)

\* The buckets as a function of tags: an untagged one has the empty sequence.
tags_buckets ==
    IF bucketizers # << >> THEN all_buckets
    ELSE IF the_bucket = None THEN << >> ELSE [t \in {<< >>} |-> the_bucket]

Members == UNION {DOMAIN tags_buckets[t] : t \in DOMAIN tags_buckets}

is_acceptable(o) ==
    IF settings.subclasses_allowed THEN BaseClass \in IsA[ClassOf[o]]
    ELSE ClassOf[o] = BaseClass

\* Sets and lists ignore the quantity.
_insert(bucket, o, qty) ==
    LET had == IF o \in DOMAIN bucket THEN bucket[o] ELSE 0
        has == CASE settings.bucket_shape = "SET"  -> 1
                 [] settings.bucket_shape = "LIST" -> had + 1
                 [] settings.bucket_shape = "DICT" -> had + qty
    IN  [m \in DOMAIN bucket \cup {o} |-> IF m = o THEN has ELSE bucket[m]]

\* add() and add_bucketizers() raise if the single bucket is None.
Usable == bucketizers = << >> => the_bucket # None

add(o, qty) ==
    /\ adds < MaxAdd /\ adds' = adds + 1
    /\ is_acceptable(o) /\ Fits(bucketizers, o) /\ Usable
    /\ LET key    == Tags(bucketizers, o)
           bucket == IF key \in DOMAIN all_buckets THEN all_buckets[key] ELSE new_bucket
       IN  IF bucketizers = << >>
           THEN the_bucket' = _insert(the_bucket, o, qty) /\ UNCHANGED all_buckets
           ELSE /\ all_buckets' = [t \in DOMAIN all_buckets \cup {key} |->
                                     IF t = key THEN _insert(bucket, o, qty) ELSE all_buckets[t]]
                /\ UNCHANGED the_bucket
    /\ changed' = IF o \in Members THEN changed ELSE changed \ {o}
    /\ UNCHANGED <<settings, bucketizers, value>>

-----------------------------------------------------------------------------
(* add_bucketizers and the setter of bucketizers *)

\* A faulty SortKey: the old tags stay in front of the new ones.
SortKey_Keeps(replace, tag, tags) == tag \o tags
SortKey(replace, tag, tags) == (IF replace THEN << >> ELSE tag) \o tags

\* What each of its buckets has of a member.
Quantities(o) ==
    [t \in {t \in DOMAIN tags_buckets : o \in DOMAIN tags_buckets[t]} |-> tags_buckets[t][o]]

\* A faulty Gathered: the quantity of one bucket only.
Gathered_One(o, from) == Quantities(o)[CHOOSE t \in from : TRUE]

\* What the new bucket has of a member after it got all it has in some old ones.
Gathered(o, from) ==
    IF settings.bucket_shape = "SET" THEN 1 ELSE SumFunctionOnSet(Quantities(o), from)

\* A member that some bucketizer has no tag for is dropped.
Kept(bs) == {o \in Members : Fits(bs, o)}

Sorted(bs, replace) ==
    LET new(o, t) == SortKey(replace, t, Tags(bs, o))
        keys(o) == {new(o, t) : t \in DOMAIN Quantities(o)}
        from(o, key) == {t \in DOMAIN Quantities(o) : new(o, t) = key}
    IN  [key \in UNION {keys(o) : o \in Kept(bs)} |->
            [o \in {m \in Kept(bs) : key \in keys(m)} |-> Gathered(o, from(o, key))]]

\* All members in one bucket; no bucket is made for none.
Unsorted ==
    IF Members = {} THEN None ELSE [o \in Members |-> Gathered(o, DOMAIN Quantities(o))]

add_bucketizers(bs, replace) ==
    LET use_the_bucket == (replace \/ bucketizers = << >>) /\ bs = << >>
    IN  /\ Usable
        /\ IF use_the_bucket
           THEN the_bucket' = Unsorted /\ all_buckets' = << >>
           ELSE the_bucket' = new_bucket /\ all_buckets' = Sorted(bs, replace)
        /\ bucketizers' = IF replace THEN bs ELSE bucketizers \o bs
        /\ changed' = IF replace \/ bucketizers = << >> THEN {} ELSE changed
        /\ UNCHANGED <<settings, value, adds>>

AddBucketizers(bs) ==
    /\ Len(bucketizers) + Len(bs) <= MaxTags
    /\ add_bucketizers(bs, FALSE)

\* Members are cleared, or sorted anew.
bucketizers_set(bs) ==
    IF settings.reset_members
    THEN /\ the_bucket' = new_bucket /\ all_buckets' = << >> /\ bucketizers' = bs
         /\ changed' = {}
         /\ UNCHANGED <<settings, value, adds>>
    ELSE add_bucketizers(bs, TRUE)

-----------------------------------------------------------------------------
\* The application sets the trait of an object.
SetTrait(o, v) ==
    /\ v # value[o]
    /\ value' = [value EXCEPT ![o] = v]
    /\ changed' = changed \cup {o}
    /\ UNCHANGED <<settings, bucketizers, the_bucket, all_buckets, adds>>

Next ==
    \/ \E o \in Obj, qty \in Qty : add(o, qty)
    \/ \E bs \in Schemes : AddBucketizers(bs) \/ bucketizers_set(bs)
    \/ \E o \in Obj, v \in Value : SetTrait(o, v)

Spec == Init /\ [][Next]_vars

-----------------------------------------------------------------------------
(* Properties *)

\* However bucketizers were added and replaced, every bucket has one tag for
\* each bucketizer, the single bucket is in use exactly if there are none, and
\* a member whose trait has not changed since is in one bucket only
\* (add_bucketizers() builds the new keys from the old ones).
InPlace ==
    /\ bucketizers = << >> => DOMAIN all_buckets = {}
    /\ bucketizers # << >> => the_bucket = new_bucket
    /\ \A t \in DOMAIN all_buckets : Len(t) = Len(bucketizers)
    /\ \A t, u \in DOMAIN all_buckets :
          t # u => DOMAIN all_buckets[t] \cap DOMAIN all_buckets[u] \subseteq changed

\* What a tag says of an object: the documented meaning of the intervals,
\* half-open but for the last one if it is to be included, and the first that
\* has the value where ranges overlap.
Describes(b, tag, o) ==
    LET v == value[o]
        n == Len(b.points)
    IN  CASE b.kind = "class"   -> tag = ClassOf[o] /\ (b.tags # {} => tag \in b.tags)
          [] b.kind = "feature" -> tag = v /\ (b.tags # {} => tag \in b.tags)
          [] b.kind = "range"   ->
                \E k \in DOMAIN b.intervals :
                    /\ b.intervals[k].label = tag /\ Inside(b.intervals[k], v)
                    /\ \A j \in DOMAIN b.intervals : j < k => ~Inside(b.intervals[j], v)
          [] b.kind = "breakpoints" ->
                /\ tag \in 1..(n - 1)
                /\ b.points[tag] <= v
                /\ \/ v < b.points[tag + 1]
                   \/ v = b.points[n] /\ tag = n - 1 /\ b.include_last

\* A member whose trait has not changed is where its tags say, each by its own
\* bucketizer, whether it was put there by add() or by a later sorting.
TagsDescribe ==
    \A t \in DOMAIN all_buckets : \A o \in DOMAIN all_buckets[t] \ changed :
        \A k \in DOMAIN t : Describes(bucketizers[k], t[k], o)

Total(o) == SumFunction(Quantities(o))

\* Sorting loses nothing but the members that some new bucketizer has no tag
\* for, and invents nothing: the quantity of each member, over all its
\* buckets, stays what it was (a set has no quantities).
SortingKeeps ==
    [][UNCHANGED <<value, adds>> =>
         \A bs \in Schemes :
           AddBucketizers(bs) \/ (~settings.reset_members /\ bucketizers_set(bs)) =>
             /\ Members' = {o \in Members : Fits(bs, o)}
             /\ settings.bucket_shape # "SET" => \A o \in Members' : Total(o)' = Total(o)]_vars
=============================================================================
