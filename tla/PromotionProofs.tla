-------------------------- MODULE PromotionProofs --------------------------
(***************************************************************************)
(* Theorems of Promotion.  Well-formedness (TypeInv) holds of any number of *)
(* machines.  What holds of the releases on origin is proved of a single    *)
(* machine, whatever is interrupted, yanked or committed meanwhile: of      *)
(* origin (OriginInv) and of the run that is about to change it (RunInv).   *)
(***************************************************************************)
EXTENDS Promotion, FiniteSetTheorems, SequenceTheorems, WellFoundedInduction, TLAPS

-----------------------------------------------------------------------------
(* Finite sets *)

\* A set of numbers has a least one.
LEMMA Minimum ==
    ASSUME NEW T, T \subseteq Nat, T # {}
    PROVE  \E k \in T : \A j \in T : k <= j
<1> DEFINE R == {ss \in Nat \X Nat : ss[1] < ss[2]}
<1>1. IsWellFoundedOn(R, Nat)
  BY NatLessThanWellFounded DEF OpToRel
<1>2. \E k \in T : \A j \in T : ~(<<j, k>> \in R)
  <2> HIDE DEF R
  <2> QED BY <1>1, WFMin
<1>3. \A j, k \in T : ~(<<j, k>> \in R) => k <= j
  OBVIOUS
<1> HIDE DEF R
<1> QED BY <1>2, <1>3

\* Induction, of a set of numbers.
LEMMA NumberInduction ==
    ASSUME NEW T, 0 \in T, \A k \in Nat : k \in T => k + 1 \in T
    PROVE  \A k \in Nat : k \in T
<1> SUFFICES ASSUME Nat \ T # {} PROVE FALSE
  OBVIOUS
<1>1. PICK k \in Nat \ T : \A j \in Nat \ T : k <= j
  BY Minimum
<1>2. k # 0 /\ k - 1 \in Nat /\ ~(k <= k - 1) /\ (k - 1) + 1 = k
  OBVIOUS
<1> QED BY <1>1, <1>2

\* A finite set that is not empty has a greatest element in any total order.
LEMMA Greatest ==
    ASSUME NEW S, IsFiniteSet(S), S # {}, NEW R,
           \A x, y \in S : x = y \/ <<x, y>> \in R \/ <<y, x>> \in R,
           \A x, y, z \in S : <<x, y>> \in R /\ <<y, z>> \in R => <<x, z>> \in R
    PROVE  \E x \in S : \A y \in S \ {x} : <<y, x>> \in R
<1> DEFINE Has(T) == \E x \in T : \A y \in T \ {x} : <<y, x>> \in R
           N == {n \in Nat : \A T \in SUBSET S : Cardinality(T) = n /\ T # {} => Has(T)}
<1>1. \A T \in SUBSET S : IsFiniteSet(T) /\ Cardinality(T) \in Nat
  BY FS_Subset, FS_CardinalityType
<1>2. 0 \in N
  BY <1>1, FS_EmptySet
<1>3. ASSUME NEW n \in Nat, n \in N PROVE n + 1 \in N
  <2> SUFFICES ASSUME NEW T \in SUBSET S, Cardinality(T) = n + 1, T # {} PROVE Has(T)
    OBVIOUS
  <2>1. PICK x \in T : TRUE
    OBVIOUS
  <2>2. PICK U \in SUBSET S : U = T \ {x}
    OBVIOUS
  <2>3. Cardinality(U) = n
    <3>1. Cardinality(U) = Cardinality(T) - 1
      BY <1>1, <2>1, <2>2, FS_RemoveElement
    <3> QED BY <3>1
  <2>4. CASE U = {}
    BY <2>1, <2>2, <2>4
  <2>5. CASE U # {}
    <3>1. PICK u \in U : \A y \in U \ {u} : <<y, u>> \in R
      BY <1>3, <2>3, <2>5
    <3>2. CASE <<x, u>> \in R
      BY <2>1, <2>2, <3>1, <3>2
    <3>3. CASE <<u, x>> \in R
      <4>1. \A y \in T \ {x} : y = u \/ <<y, u>> \in R
        BY <2>2, <3>1
      <4>2. \A y \in T \ {x} : <<y, x>> \in R
        BY <2>1, <2>2, <3>1, <3>3, <4>1
      <4> QED BY <2>1, <4>2
    <3> QED BY <2>1, <2>2, <3>1, <3>2, <3>3
  <2> QED BY <2>4, <2>5
<1>4. \A n \in Nat : n \in N
  <2> HIDE DEF N
  <2> QED BY <1>2, <1>3, NumberInduction
<1> QED BY <1>1, <1>4

-----------------------------------------------------------------------------
(* Versions *)

Version == Nat \X Nat

\* Before orders the versions totally.
LEMMA BeforeOrders ==
    ASSUME NEW u \in Version, NEW v \in Version, NEW w \in Version
    PROVE  /\ u = v \/ Before(u, v) \/ Before(v, u)
           /\ ~Before(u, u)
           /\ Before(u, v) /\ Before(v, w) => Before(u, w)
<1>1. /\ u = <<u[1], u[2]>> /\ u[1] \in Nat /\ u[2] \in Nat
      /\ v = <<v[1], v[2]>> /\ v[1] \in Nat /\ v[2] \in Nat
      /\ w[1] \in Nat /\ w[2] \in Nat
  BY DEF Version
<1>2. u = v <=> u[1] = v[1] /\ u[2] = v[2]
  BY <1>1
<1> HIDE DEF Version
<1> QED BY <1>1, <1>2 DEF Before, IsFinal

\* Latest is what its name says.
LEMMA LatestIs ==
    ASSUME NEW S, IsFiniteSet(S), S \subseteq Version, S # {}
    PROVE  /\ Latest(S) \in S /\ Latest(S) # None
           /\ \A w \in S \ {Latest(S)} : Before(w, Latest(S))
           /\ \A v \in S : (\A w \in S \ {v} : Before(w, v)) => v = Latest(S)
<1>1. PICK R : R = {vw \in Version \X Version : Before(vw[1], vw[2])}
  OBVIOUS
<1>2. \A v, w \in Version : <<v, w>> \in R <=> Before(v, w)
  BY <1>1
<1>3. \A x, y \in S : x = y \/ <<x, y>> \in R \/ <<y, x>> \in R
  BY <1>2, BeforeOrders
<1>4. \A x, y, z \in S : <<x, y>> \in R /\ <<y, z>> \in R => <<x, z>> \in R
  BY <1>2, BeforeOrders
<1>5. \E v \in S : \A w \in S \ {v} : <<w, v>> \in R
  BY <1>3, <1>4, Greatest
<1>6. \E v \in S : \A w \in S \ {v} : Before(w, v)
  BY <1>2, <1>5
<1>7. Latest(S) \in S /\ \A w \in S \ {Latest(S)} : Before(w, Latest(S))
  BY <1>6 DEF Latest
<1>8. ASSUME NEW v \in S, \A w \in S \ {v} : Before(w, v) PROVE v = Latest(S)
  <2> SUFFICES ASSUME v # Latest(S) PROVE FALSE
    OBVIOUS
  <2>1. Before(v, Latest(S)) /\ Before(Latest(S), v)
    BY <1>7, <1>8
  <2> QED BY <1>7, <2>1, BeforeOrders
<1>9. None \notin Version
  BY PlanAssumption DEF Version
<1> QED BY <1>7, <1>8, <1>9

\* There is no latest version only if there is none.
LEMMA LatestNone ==
    ASSUME NEW S, IsFiniteSet(S), S \subseteq Version
    PROVE  Latest(S) = None <=> S = {}
  BY LatestIs DEF Latest

\* A finite set of numbers has a greatest one, which NextRc chooses.
LEMMA GreatestNumber ==
    ASSUME NEW T, IsFiniteSet(T), T \subseteq Nat, T # {}
    PROVE  \E n \in T : \A k \in T : k <= n
<1>1. PICK R : R = {jk \in Nat \X Nat : jk[1] < jk[2]}
  OBVIOUS
<1>2. \A j, k \in Nat : <<j, k>> \in R <=> j < k
  BY <1>1
<1>3. \A x, y \in T : x = y \/ <<x, y>> \in R \/ <<y, x>> \in R
  <2> SUFFICES ASSUME NEW x \in T, NEW y \in T PROVE x = y \/ <<x, y>> \in R \/ <<y, x>> \in R
    OBVIOUS
  <2>1. x \in Nat /\ y \in Nat
    OBVIOUS
  <2>2. x < y \/ y < x \/ x = y
    BY <2>1
  <2> QED BY <1>2, <2>1, <2>2
<1>4. \A x, y, z \in T : <<x, y>> \in R /\ <<y, z>> \in R => <<x, z>> \in R
  BY <1>2
<1>5. PICK n \in T : \A k \in T \ {n} : <<k, n>> \in R
  BY <1>3, <1>4, Greatest
<1>6. ASSUME NEW k \in T PROVE k <= n
  <2>1. k \in Nat /\ n \in Nat
    OBVIOUS
  <2>2. k = n \/ k < n
    BY <1>2, <1>5, <2>1
  <2> QED BY <2>1, <2>2
<1> QED BY <1>6

-----------------------------------------------------------------------------
(* Clones *)

TagNames(r) == [pkg : PkgsIn(r), ver : Version, kind : TagKinds]
TagsOK(tags, r) ==
    /\ IsFiniteSet(DOMAIN tags) /\ DOMAIN tags \subseteq TagNames(r)
    /\ tags \in [DOMAIN tags -> Commit]

CloneOK(c, r) ==
    /\ c = [main |-> c.main, tags |-> c.tags, branch |-> c.branch, dirty |-> c.dirty]
    /\ c.main \in Seq(Commit) /\ c.main # << >>
    /\ TagsOK(c.tags, r)
    /\ c.branch \in [PkgsIn(r) \X Flavors -> Commit \cup {None}]
    /\ c.dirty \in BOOLEAN

StoresOK ==
    /\ origin = [r \in Repos |-> origin[r]]
    /\ \A r \in Repos : CloneOK(origin[r], r) /\ ~origin[r].dirty
    /\ clone = [m \in Machine |-> clone[m]]
    /\ \A m \in Machine : /\ clone[m] = [r \in Repos |-> clone[m][r]]
                          /\ \A r \in Repos : CloneOK(clone[m][r], r)

\* A function on a finite set has finitely many values.
LEMMA FiniteRange ==
    ASSUME NEW f, IsFiniteSet(DOMAIN f)
    PROVE  IsFiniteSet(Range(f))
<1>1. PICK g : g = [x \in DOMAIN f |-> f[x]]
  OBVIOUS
<1>2. g \in Surjection(DOMAIN f, Range(f))
  BY <1>1 DEF Surjection, Range
<1> QED BY <1>2, FS_Surjection

\* There are finitely many packages, each in its repository.
LEMMA PkgsFinite ==
    /\ \A r \in Repos : IsFiniteSet(PkgsIn(r))
    /\ \A p \in Pkgs : Repo(p) \in Repos /\ p \in PkgsIn(Repo(p))
<1>1. IsFiniteSet(Pkgs)
  BY PlanAssumption, FS_AddElement DEF Pkgs
<1>2. \A r \in Repos : IsFiniteSet(PkgsIn(r))
  BY <1>1, FS_Subset DEF PkgsIn
<1> QED BY <1>2 DEF PkgsIn, Repos, Repo

\* What references lead to is finitely much.
LEMMA ReachableFinite ==
    ASSUME NEW r \in Repos, NEW c, CloneOK(c, r)
    PROVE  IsFiniteSet(Reachable(c))
<1>1. IsFiniteSet(DOMAIN c.main)
  <2>1. DOMAIN c.main = 1..Len(c.main) /\ Len(c.main) \in Nat
    BY DEF CloneOK
  <2> QED BY <2>1, FS_Interval
<1>2. IsFiniteSet(DOMAIN c.branch)
  <2>1. IsFiniteSet(PkgsIn(r))
    BY PkgsFinite
  <2>2. IsFiniteSet(Flavors)
    <3>1. IsFiniteSet({"pre"})
      BY FS_Singleton
    <3>2. IsFiniteSet({"pre"} \cup {"prod"})
      BY <3>1, FS_AddElement
    <3>3. Flavors = {"pre"} \cup {"prod"}
      BY DEF Flavors
    <3> QED BY <3>2, <3>3
  <2>3. IsFiniteSet(PkgsIn(r) \X Flavors)
    BY <2>1, <2>2, FS_Product
  <2> QED BY <2>3 DEF CloneOK
<1>3. PICK X : X = Range(c.main) \cup Range(c.tags) \cup (Range(c.branch) \ {None})
  OBVIOUS
<1>4. IsFiniteSet(Range(c.main)) /\ IsFiniteSet(Range(c.tags)) /\ IsFiniteSet(Range(c.branch))
  BY <1>1, <1>2, FiniteRange DEF CloneOK, TagsOK
<1>5. IsFiniteSet(Range(c.branch) \ {None})
  BY <1>4, FS_Subset
<1>6. IsFiniteSet(Range(c.main) \cup Range(c.tags))
  BY <1>4, FS_Union
<1>7. IsFiniteSet(X)
  BY <1>3, <1>5, <1>6, FS_Union
<1>8. PICK g : g = [k \in X |-> k.id]
  OBVIOUS
<1>9. IsFiniteSet(Range(g))
  BY <1>7, <1>8, FiniteRange
<1>10. Reachable(c) = Range(g)
  BY <1>3, <1>8 DEF Reachable, Range
<1> QED BY <1>9, <1>10

\* There is always a commit id that is not in use.
LEMMA FreshIdType ==
    ASSUME StoresOK, NEW r \in Repos, NEW c, CloneOK(c, r)
    PROVE  FreshId(r, c) \in Nat
<1>1. PICK F : F = {Reachable(c), Reachable(origin[r])}
                   \cup {Reachable(clone[m][r]) : m \in Machine}
  OBVIOUS
<1>2. \A T \in F : IsFiniteSet(T)
  BY <1>1, ReachableFinite DEF StoresOK
<1>3. IsFiniteSet(F)
  <2>1. PICK g : g = [m \in Machine |-> Reachable(clone[m][r])]
    OBVIOUS
  <2>2. IsFiniteSet(Range(g)) /\ Range(g) = {Reachable(clone[m][r]) : m \in Machine}
    BY <2>1, FiniteRange, PromotionAssumption DEF Range
  <2>3. IsFiniteSet({Reachable(c), Reachable(origin[r])})
    <3>1. IsFiniteSet({Reachable(c)})
      BY FS_Singleton
    <3>2. IsFiniteSet({Reachable(c)} \cup {Reachable(origin[r])})
      BY <3>1, FS_AddElement
    <3>3. {Reachable(c), Reachable(origin[r])} = {Reachable(c)} \cup {Reachable(origin[r])}
      OBVIOUS
    <3> QED BY <3>2, <3>3
  <2> QED BY <1>1, <2>2, <2>3, FS_Union
<1>4. PICK T : T = UNION F
  OBVIOUS
<1>5. IsFiniteSet(T)
  BY <1>2, <1>3, <1>4, FS_UNION
<1>6. Cardinality(T) \in Nat
  BY <1>5, FS_CardinalityType
<1>7. \E n \in 0..Cardinality(T) : n \notin T
  <2> SUFFICES ASSUME 0..Cardinality(T) \subseteq T PROVE FALSE
    OBVIOUS
  <2>1. Cardinality(0..Cardinality(T)) <= Cardinality(T)
    BY <1>5, FS_Subset
  <2>2. Cardinality(0..Cardinality(T)) = Cardinality(T) + 1
    BY <1>6, FS_Interval
  <2> QED BY <1>6, <2>1, <2>2
<1>8. FreshId(r, c) = CHOOSE n \in 0..Cardinality(T) : n \notin T
  BY <1>1, <1>4 DEF FreshId
<1>9. (CHOOSE n \in 0..Cardinality(T) : n \notin T) \in 0..Cardinality(T)
  BY <1>7
<1> QED BY <1>6, <1>8, <1>9

\* What the changes of a clone leave alone, and that it stays one.
LEMMA TaggedIs ==
    ASSUME NEW r, NEW c, CloneOK(c, r), NEW name \in TagNames(r), NEW commit \in Commit,
           NEW d, d = Tagged(c, name, commit)
    PROVE  /\ CloneOK(d, r)
           /\ d.main = c.main /\ d.branch = c.branch /\ d.dirty = c.dirty
           /\ DOMAIN d.tags = DOMAIN c.tags \cup {name}
           /\ d.tags[name] = commit
           /\ \A n \in DOMAIN c.tags : n # name => d.tags[n] = c.tags[n]
<1>1. PICK t : t = [n \in DOMAIN c.tags \cup {name} |->
                        IF n = name THEN commit ELSE c.tags[n]]
  OBVIOUS
<1>2. d = [c EXCEPT !.tags = t]
  BY <1>1 DEF Tagged
<1>3. /\ d = [main |-> c.main, tags |-> t, branch |-> c.branch, dirty |-> c.dirty]
      /\ d.main = c.main /\ d.tags = t /\ d.branch = c.branch /\ d.dirty = c.dirty
  BY <1>2 DEF CloneOK
<1>4. IsFiniteSet(DOMAIN t)
  BY <1>1, FS_AddElement DEF CloneOK, TagsOK
<1>5. TagsOK(t, r)
  BY <1>1, <1>4 DEF CloneOK, TagsOK
<1> QED BY <1>1, <1>3, <1>5 DEF CloneOK

\* What deleting tags does to a clone.
LEMMA UntaggedIs ==
    ASSUME NEW r, NEW c, CloneOK(c, r), NEW names, NEW d, d = Untagged(c, names)
    PROVE  /\ CloneOK(d, r)
           /\ d.main = c.main /\ d.branch = c.branch /\ d.dirty = c.dirty
           /\ DOMAIN d.tags = DOMAIN c.tags \ names
           /\ \A n \in DOMAIN d.tags : d.tags[n] = c.tags[n]
<1>1. PICK t : t = [n \in DOMAIN c.tags \ names |-> c.tags[n]]
  OBVIOUS
<1>2. d = [c EXCEPT !.tags = t]
  BY <1>1 DEF Untagged
<1>3. /\ d = [main |-> c.main, tags |-> t, branch |-> c.branch, dirty |-> c.dirty]
      /\ d.main = c.main /\ d.tags = t /\ d.branch = c.branch /\ d.dirty = c.dirty
  BY <1>2 DEF CloneOK
<1>4. IsFiniteSet(DOMAIN t)
  BY <1>1, FS_Subset DEF CloneOK, TagsOK
<1>5. TagsOK(t, r)
  BY <1>1, <1>4 DEF CloneOK, TagsOK
<1> QED BY <1>1, <1>3, <1>5 DEF CloneOK

\* What setting release branches does to a clone.
LEMMA BranchIs ==
    ASSUME NEW r, NEW c, CloneOK(c, r),
           NEW k, k \in [PkgsIn(r) \X Flavors -> Commit \cup {None}],
           NEW d, d = [c EXCEPT !.branch = k]
    PROVE  /\ CloneOK(d, r)
           /\ d.main = c.main /\ d.tags = c.tags /\ d.dirty = c.dirty /\ d.branch = k
<1>1. /\ d = [main |-> c.main, tags |-> c.tags, branch |-> k, dirty |-> c.dirty]
      /\ d.main = c.main /\ d.tags = c.tags /\ d.branch = k /\ d.dirty = c.dirty
  BY DEF CloneOK
<1> QED BY <1>1 DEF CloneOK

\* What a commit on main does to a clone.
LEMMA MainIs ==
    ASSUME NEW r, NEW c, CloneOK(c, r), NEW main \in Seq(Commit), main # << >>,
           NEW d, d = [c EXCEPT !.main = main]
    PROVE  /\ CloneOK(d, r)
           /\ d.main = main /\ d.tags = c.tags /\ d.branch = c.branch /\ d.dirty = c.dirty
<1>1. /\ d = [main |-> main, tags |-> c.tags, branch |-> c.branch, dirty |-> c.dirty]
      /\ d.main = main /\ d.tags = c.tags /\ d.branch = c.branch /\ d.dirty = c.dirty
  BY DEF CloneOK
<1> QED BY <1>1 DEF CloneOK

\* main has a head.
LEMMA HeadIs ==
    ASSUME NEW r, NEW c, CloneOK(c, r)
    PROVE  Last(c.main) \in Commit
<1>1. Len(c.main) \in DOMAIN c.main
  BY EmptySeq DEF CloneOK
<1> QED BY <1>1 DEF CloneOK, Last

\* What a clone gets from origin.
LEMMA ReconciledIs ==
    ASSUME NEW r, NEW c, CloneOK(c, r), CloneOK(origin[r], r), NEW d, d = Reconciled(c, r)
    PROVE  /\ CloneOK(d, r)
           /\ d.main = c.main /\ d.branch = c.branch /\ d.dirty = c.dirty
           /\ DOMAIN d.tags = DOMAIN origin[r].tags
           /\ \A n \in DOMAIN d.tags :
                 d.tags[n] = IF n \in DOMAIN c.tags THEN c.tags[n] ELSE origin[r].tags[n]
<1>1. PICK t : t = [n \in DOMAIN origin[r].tags |->
                        IF n \in DOMAIN c.tags THEN c.tags[n] ELSE origin[r].tags[n]]
  OBVIOUS
<1>2. d = [c EXCEPT !.tags = t]
  BY <1>1 DEF Reconciled
<1>3. /\ d = [main |-> c.main, tags |-> t, branch |-> c.branch, dirty |-> c.dirty]
      /\ d.main = c.main /\ d.tags = t /\ d.branch = c.branch /\ d.dirty = c.dirty
  BY <1>2 DEF CloneOK
<1>4. TagsOK(t, r)
  BY <1>1 DEF CloneOK, TagsOK
<1> QED BY <1>1, <1>3, <1>4 DEF CloneOK

\* A reset leaves a well-formed clone.
LEMMA ResetIs ==
    ASSUME NEW r, NEW c, CloneOK(c, r), CloneOK(origin[r], r)
    PROVE  CloneOK(Reset(c, r), r)
<1>1. PICK d : d = Reconciled(c, r)
  OBVIOUS
<1>2. CloneOK(d, r)
  BY <1>1, ReconciledIs
<1>3. PICK e : e = [d EXCEPT !.main = origin[r].main, !.branch = origin[r].branch, !.dirty = FALSE]
  OBVIOUS
<1>4. /\ e = [main |-> origin[r].main, tags |-> d.tags, branch |-> origin[r].branch,
              dirty |-> FALSE]
      /\ e.main = origin[r].main /\ e.tags = d.tags /\ e.branch = origin[r].branch
      /\ e.dirty = FALSE
  BY <1>2, <1>3 DEF CloneOK
<1>5. CloneOK(e, r)
  BY <1>2, <1>4 DEF CloneOK
<1> QED BY <1>1, <1>3, <1>5 DEF Reset

\* What a push of references that the clone has does to origin.
LEMMA PushedIs ==
    ASSUME NEW r, NEW c, CloneOK(c, r), NEW o, CloneOK(o, r), NEW refs,
           Named(refs, "tag") \subseteq DOMAIN c.tags, IsFiniteSet(DOMAIN c.tags),
           NEW d, d = Pushed(c, o, refs)
    PROVE  /\ CloneOK(d, r)
           /\ d.dirty = o.dirty
           /\ \A b \in DOMAIN o.branch :
                d.branch[b] = IF b \in Named(refs, "branch") THEN c.branch[b] ELSE o.branch[b]
           /\ DOMAIN d.tags = (DOMAIN o.tags \ Named(refs, "delete")) \cup Named(refs, "tag")
           /\ \A n \in DOMAIN d.tags :
                d.tags[n] = IF n \in Named(refs, "tag") THEN c.tags[n] ELSE o.tags[n]
<1>1. PICK main : main = IF Named(refs, "main") = {} THEN o.main ELSE c.main
  OBVIOUS
<1>2. PICK k : k = [b \in DOMAIN o.branch |->
                            IF b \in Named(refs, "branch") THEN c.branch[b] ELSE o.branch[b]]
  OBVIOUS
<1>3. PICK t : t = [n \in (DOMAIN o.tags \ Named(refs, "delete")) \cup Named(refs, "tag") |->
                        IF n \in Named(refs, "tag") THEN c.tags[n] ELSE o.tags[n]]
  OBVIOUS
<1>4. d = [o EXCEPT !.main = main, !.branch = k, !.tags = t]
  BY <1>1, <1>2, <1>3 DEF Pushed
<1>5. /\ d = [main |-> main, tags |-> t, branch |-> k, dirty |-> o.dirty]
      /\ d.main = main /\ d.tags = t /\ d.branch = k /\ d.dirty = o.dirty
  BY <1>4 DEF CloneOK
<1>6. main \in Seq(Commit) /\ main # << >>
  BY <1>1 DEF CloneOK
<1>7. k \in [PkgsIn(r) \X Flavors -> Commit \cup {None}]
  BY <1>2 DEF CloneOK
<1>8. TagsOK(t, r)
  <2>1. IsFiniteSet(DOMAIN o.tags \cup DOMAIN c.tags)
    BY FS_Union DEF CloneOK, TagsOK
  <2>2. DOMAIN t \subseteq DOMAIN o.tags \cup DOMAIN c.tags
    BY <1>3
  <2>3. IsFiniteSet(DOMAIN t)
    BY <2>1, <2>2, FS_Subset
  <2> QED BY <1>3, <2>3 DEF CloneOK, TagsOK
<1>9. CloneOK(d, r)
  BY <1>5, <1>6, <1>7, <1>8 DEF CloneOK
<1> QED BY <1>2, <1>3, <1>5, <1>9

-----------------------------------------------------------------------------
(* Steps: what one takes for granted, and what it does *)

Pins == UNION {[S -> Version] : S \in SUBSET Siblings}

StepOK(step) ==
    /\ step.kind \in DOMAIN Phase /\ step.repo \in Repos
    /\ step.kind # "reset" => step.pkg \in Pkgs /\ step.repo = Repo(step.pkg)
    /\ step.kind \notin {"reset", "edit"} => step.ver \in Version /\ step.flavor \in Flavors
    /\ step.kind = "promote" => step.forward_pins \in Pins
    /\ step.kind = "edit" => step.pins \in Pins /\ step.tests \in Pins

\* The candidates a final may be stacked on.
Rcs(c, step) == {v \in Selection(c.tags, step.pkg) : v[1] = step.ver[1] /\ ~IsFinal(v)}

\* A step needs the release it stands on, which an earlier one may have to make.
Ready(c, todo, step) ==
    /\ step.kind = "promote" /\ step.flavor = "prod" => Rcs(c, step) # {}
    /\ step.kind = "trigger" =>
        \/ ReleaseName(step) \in DOMAIN c.tags
        \/ \E other \in todo : other.kind = "promote" /\ ReleaseName(other) = ReleaseName(step)
    /\ step.kind \in {"yank", "rollback"} => ReleaseName(step) \in DOMAIN c.tags
    /\ step.kind = "rollback" =>
        \A other \in todo : other.kind = "yank" => ReleaseName(other) # ReleaseName(step)

\* The tags of a package that a step may change.
Touched(step) ==
    CASE step.kind = "promote" -> {<<step.pkg, "release">>}
      [] step.kind = "marker"  -> {<<step.pkg, "marker">>}
      [] step.kind = "trigger" -> {<<step.pkg, "trigger">>}
      [] step.kind = "yank"    -> {<<step.pkg, k>> : k \in {"release", "trigger", "yanked"}}
      [] OTHER                 -> {}

\* What a step leaves to be pushed says what it did to the tags.
Left(c, step) == Bundled(c, step) \cup Isolated(c, step)
TagsAfter(c, d, refs) ==
    /\ DOMAIN d.tags = (DOMAIN c.tags \ Named(refs, "delete")) \cup Named(refs, "tag")
    /\ \A n \in DOMAIN c.tags : n \in DOMAIN d.tags /\ n \notin Named(refs, "tag")
                                   => d.tags[n] = c.tags[n]

\* Names of references, by operation.
LEMMA NamedIs ==
    /\ \A A, B, op : Named(A \cup B, op) = Named(A, op) \cup Named(B, op)
    /\ \A X : Named(Deletions(X), "delete") = X
    /\ \A X, op : op # "delete" => Named(Deletions(X), op) = {}
    /\ \A o, n : Named({Ref(o, n)}, o) = {n}
    /\ \A o, n, op : op # o => Named({Ref(o, n)}, op) = {}
    /\ \A op : Named({}, op) = {}
<1>1. \A A, B, op : Named(A \cup B, op) = Named(A, op) \cup Named(B, op)
  BY DEF Named
<1>2. \A o, n : Ref(o, n).op = o /\ Ref(o, n).name = n
  BY DEF Ref
<1>3. \A X : Named(Deletions(X), "delete") = X
  <2> SUFFICES ASSUME NEW X, NEW n PROVE n \in Named(Deletions(X), "delete") <=> n \in X
    OBVIOUS
  <2>1. ASSUME n \in X PROVE n \in Named(Deletions(X), "delete")
    <3>1. Ref("delete", n) \in {g \in Deletions(X) : g.op = "delete"}
      BY <1>2, <2>1 DEF Deletions
    <3> QED BY <1>2, <3>1 DEF Named
  <2> QED BY <1>2, <2>1 DEF Named, Deletions
<1>4. \A X, op : op # "delete" => Named(Deletions(X), op) = {}
  BY DEF Named, Deletions, Ref
<1>5. \A o, n : Named({Ref(o, n)}, o) = {n}
  <2> SUFFICES ASSUME NEW o, NEW n PROVE Named({Ref(o, n)}, o) = {n}
    OBVIOUS
  <2>1. {g \in {Ref(o, n)} : g.op = o} = {Ref(o, n)}
    BY <1>2
  <2> QED BY <1>2, <2>1 DEF Named
<1>6. \A o, n, op : op # o => Named({Ref(o, n)}, op) = {}
  BY DEF Named, Ref
<1>7. \A op : Named({}, op) = {}
  BY DEF Named
<1> QED BY <1>1, <1>3, <1>4, <1>5, <1>6, <1>7

\* The names in what a promotion leaves to be pushed.
LEMMA NamedTwo ==
    ASSUME NEW a, NEW b, NEW F, F = {Ref("branch", a), Ref("tag", b)}
    PROVE  Named(F, "branch") = {a} /\ Named(F, "tag") = {b} /\ Named(F, "delete") = {}
<1>1. PICK A : A = {Ref("branch", a)}
  OBVIOUS
<1>2. PICK B : B = {Ref("tag", b)}
  OBVIOUS
<1>3. /\ Named(A, "branch") = {a} /\ Named(A, "tag") = {} /\ Named(A, "delete") = {}
      /\ Named(B, "branch") = {} /\ Named(B, "tag") = {b} /\ Named(B, "delete") = {}
  BY <1>1, <1>2, NamedIs
<1>4. \A op : Named(A \cup B, op) = Named(A, op) \cup Named(B, op)
  BY NamedIs
<1>5. F = A \cup B
  BY <1>1, <1>2
<1> QED BY <1>3, <1>4, <1>5

Replacing(X, name) == Deletions(X) \cup {Ref("tag", name)}
\* The names in what a marker, a trigger or a yank leaves to be pushed.
LEMMA NamedDeletions ==
    ASSUME NEW X, NEW b, NEW F, F = Replacing(X, b)
    PROVE  Named(F, "branch") = {} /\ Named(F, "tag") = {b} /\ Named(F, "delete") = X
<1>1. PICK A : A = Deletions(X)
  OBVIOUS
<1>2. PICK B : B = {Ref("tag", b)}
  OBVIOUS
<1>3. /\ Named(A, "branch") = {} /\ Named(A, "tag") = {} /\ Named(A, "delete") = X
      /\ Named(B, "branch") = {} /\ Named(B, "tag") = {b} /\ Named(B, "delete") = {}
  BY <1>1, <1>2, NamedIs
<1>4. \A op : Named(A \cup B, op) = Named(A, op) \cup Named(B, op)
  BY NamedIs
<1>5. F = A \cup B
  BY <1>1, <1>2 DEF Replacing
<1> QED BY <1>3, <1>4, <1>5

\* Names of tags are well formed.
LEMMA NamesType ==
    ASSUME NEW p \in Pkgs, NEW v \in Version
    PROVE  /\ \A kind \in TagKinds : TagName(p, v, kind) \in TagNames(Repo(p))
           /\ v[1] \in Nat /\ v[2] \in Nat
           /\ Marker(p, v) \in TagNames(Repo(p)) /\ Marker(p, v).pkg = p
           /\ Marker(p, v).kind = "marker"
<1>1. v[1] \in Nat /\ v[2] \in Nat
  BY DEF Version
<1>2. p \in PkgsIn(Repo(p))
  BY PkgsFinite
<1>3. <<v[1] + 1, 0>> \in Version /\ <<v[1], v[2] + 1>> \in Version
  BY <1>1 DEF Version
<1>4. \A w \in Version, kind \in TagKinds : TagName(p, w, kind) \in TagNames(Repo(p))
  BY <1>2 DEF TagNames, TagName
<1>5. \E w \in Version : Marker(p, v) = TagName(p, w, "marker")
  BY <1>3 DEF Marker
<1>6. PICK w \in Version : Marker(p, v) = TagName(p, w, "marker")
  BY <1>5
<1>7. Marker(p, v).pkg = p /\ Marker(p, v).kind = "marker"
  BY <1>6 DEF TagName
<1>8. "marker" \in TagKinds
  BY DEF TagKinds
<1> QED BY <1>1, <1>4, <1>6, <1>7, <1>8

\* The versions a package's tags speak of are finitely many.
LEMMA SelectionIs ==
    ASSUME NEW r, NEW tags, TagsOK(tags, r), NEW p \in PkgsIn(r)
    PROVE  /\ Selection(tags, p) \subseteq Version /\ IsFiniteSet(Selection(tags, p))
           /\ \A v : v \in Selection(tags, p) <=> TagName(p, v, "release") \in DOMAIN tags
           /\ Generation(tags, p) \subseteq Version /\ IsFiniteSet(Generation(tags, p))
           /\ \A v : v \in Generation(tags, p) <=>
                \/ TagName(p, v, "release") \in DOMAIN tags
                \/ TagName(p, v, "yanked") \in DOMAIN tags
<1>1. \A n \in DOMAIN tags : n = [pkg |-> n.pkg, ver |-> n.ver, kind |-> n.kind] /\ n.ver \in Version
  BY DEF TagsOK, TagNames
<1>2. PICK g : g = [n \in DOMAIN tags |-> n.ver]
  OBVIOUS
<1>3. IsFiniteSet(Range(g))
  BY <1>2, FiniteRange DEF TagsOK
<1>4. Range(g) = {n.ver : n \in DOMAIN tags}
  BY <1>2 DEF Range
<1>5. Selection(tags, p) \subseteq Range(g) /\ Generation(tags, p) \subseteq Range(g)
  BY <1>4 DEF Selection, Generation, OfKind
<1>6. Range(g) \subseteq Version
  BY <1>1, <1>4
<1>7. IsFiniteSet(Selection(tags, p)) /\ IsFiniteSet(Generation(tags, p))
  BY <1>3, <1>5, FS_Subset
<1>8. \A v : v \in Selection(tags, p) <=> TagName(p, v, "release") \in DOMAIN tags
  <2>1. ASSUME NEW v \in Selection(tags, p) PROVE TagName(p, v, "release") \in DOMAIN tags
    <3>1. PICK n \in DOMAIN tags : n.pkg = p /\ n.kind = "release" /\ n.ver = v
      BY DEF Selection, OfKind
    <3>2. n = TagName(p, v, "release")
      BY <1>1, <3>1 DEF TagName
    <3> QED BY <3>2
  <2>2. ASSUME NEW v, TagName(p, v, "release") \in DOMAIN tags PROVE v \in Selection(tags, p)
    BY <2>2 DEF Selection, OfKind, TagName
  <2> QED BY <2>1, <2>2
<1>9. \A v : v \in Generation(tags, p) <=>
                \/ TagName(p, v, "release") \in DOMAIN tags
                \/ TagName(p, v, "yanked") \in DOMAIN tags
  <2>1. ASSUME NEW v \in Generation(tags, p)
        PROVE  \/ TagName(p, v, "release") \in DOMAIN tags
               \/ TagName(p, v, "yanked") \in DOMAIN tags
    <3>1. PICK n \in DOMAIN tags : n.pkg = p /\ n.kind \in {"release", "yanked"} /\ n.ver = v
      BY DEF Generation, OfKind
    <3>2. n = TagName(p, v, n.kind)
      BY <1>1, <3>1 DEF TagName
    <3> QED BY <3>1, <3>2
  <2>2. ASSUME NEW v, \/ TagName(p, v, "release") \in DOMAIN tags
                      \/ TagName(p, v, "yanked") \in DOMAIN tags
        PROVE  v \in Generation(tags, p)
    BY <2>2 DEF Generation, OfKind, TagName
  <2> QED BY <2>1, <2>2
<1> QED BY <1>5, <1>6, <1>7, <1>8, <1>9

\* New pins replace old ones and add none.
LEMMA MergedIs ==
    ASSUME NEW old \in [Siblings -> Version \cup {None}], NEW new \in Pins
    PROVE  /\ Merged(old, new) \in [Siblings -> Version \cup {None}]
           /\ \A s \in Siblings :
                Merged(old, new)[s] = IF s \in DOMAIN new THEN new[s] ELSE old[s]
           /\ DOMAIN new = {} => Merged(old, new) = old
<1>1. \A s \in DOMAIN new : new[s] \in Version
  BY DEF Pins
<1> HIDE DEF Version
<1> QED BY <1>1 DEF Merged

\* `pre` starts from main, `prod` from a candidate of the same micro version.
LEMMA BaseIs ==
    ASSUME NEW r, NEW c, CloneOK(c, r), NEW step, StepOK(step), step.kind = "promote",
           step.repo = r, step.flavor = "prod" => Rcs(c, step) # {}
    PROVE  /\ Base(c, step) \in Commit
           /\ step.flavor = "prod" =>
                \E v \in Rcs(c, step) :
                    /\ TagName(step.pkg, v, "release") \in DOMAIN c.tags
                    /\ Base(c, step) = c.tags[TagName(step.pkg, v, "release")]
<1>1. step.pkg \in PkgsIn(r) /\ step.flavor \in Flavors
  BY PkgsFinite DEF StepOK
<1>2. CASE step.flavor = "pre"
  BY <1>2, HeadIs DEF Base
<1>3. CASE step.flavor = "prod"
  <2>1. PICK S : S = Rcs(c, step)
    OBVIOUS
  <2>2. TagsOK(c.tags, r)
    BY DEF CloneOK
  <2>3. S \subseteq Selection(c.tags, step.pkg) /\ S # {}
    BY <1>3, <2>1 DEF Rcs
  <2>4. S \subseteq Version /\ IsFiniteSet(S)
    BY <1>1, <2>2, <2>3, SelectionIs, FS_Subset
  <2>5. Latest(S) \in S
    BY <2>3, <2>4, LatestIs
  <2>6. Base(c, step) = c.tags[TagName(step.pkg, Latest(S), "release")]
    BY <1>3, <2>1 DEF Base, Rcs
  <2>7. TagName(step.pkg, Latest(S), "release") \in DOMAIN c.tags
    BY <1>1, <2>2, <2>3, <2>5, SelectionIs
  <2> QED BY <2>1, <2>2, <2>5, <2>6, <2>7 DEF TagsOK
<1> QED BY <1>1, <1>2, <1>3 DEF Flavors

\* What PromoteStep does: a new tag and a branch that points where it does.
LEMMA PromotedIs ==
    ASSUME StoresOK, NEW r \in Repos, NEW c, CloneOK(c, r), NEW step, StepOK(step),
           step.kind = "promote", step.repo = r, step.flavor = "prod" => Rcs(c, step) # {},
           NEW d, d = Promoted(c, step)
    PROVE  /\ CloneOK(d, r)
           /\ d.main = c.main /\ d.dirty = c.dirty
           /\ DOMAIN d.tags = DOMAIN c.tags \cup {ReleaseName(step)}
           /\ \A n \in DOMAIN c.tags : n # ReleaseName(step) => d.tags[n] = c.tags[n]
           /\ \A b \in DOMAIN c.branch :
                d.branch[b] = IF b = <<step.pkg, step.flavor>> THEN d.tags[ReleaseName(step)]
                              ELSE c.branch[b]
           /\ d.tags[ReleaseName(step)].pin = Merged(Base(c, step).pin, step.forward_pins)
<1>1. PICK base : base = Base(c, step)
  OBVIOUS
<1>2. base \in Commit
  BY <1>1, BaseIs
<1>3. base.pin \in [Siblings -> Version \cup {None}]
  BY <1>2 DEF Commit, Version
<1>4. PICK pin : pin = Merged(base.pin, step.forward_pins)
  OBVIOUS
<1>5. step.forward_pins \in Pins
  BY DEF StepOK
<1>6. /\ pin \in [Siblings -> Version \cup {None}]
      /\ DOMAIN step.forward_pins = {} => pin = base.pin
  BY <1>3, <1>4, <1>5, MergedIs
<1>7. PICK id : id = FreshId(r, c)
  OBVIOUS
<1>8. id \in Nat
  BY <1>7, FreshIdType
<1>9. PICK pinned : pinned = [base EXCEPT !.id = id, !.pin = pin]
  OBVIOUS
<1>10. pinned \in Commit /\ pinned.pin = pin
  BY <1>2, <1>6, <1>8, <1>9 DEF Commit, Version
<1>11. PICK commit : commit = IF DOMAIN step.forward_pins # {} \/ step.reverse_pin # None
                              THEN pinned ELSE base
  OBVIOUS
<1>12. commit \in Commit /\ commit.pin = pin
  BY <1>2, <1>6, <1>10, <1>11
<1>13. PICK b : b = <<step.pkg, step.flavor>>
  OBVIOUS
<1>14. PICK k : k = [c.branch EXCEPT ![b] = commit]
  OBVIOUS
<1>15. PICK e : e = [c EXCEPT !.branch = k]
  OBVIOUS
<1>16. d = Tagged(e, ReleaseName(step), commit)
  BY <1>1, <1>4, <1>7, <1>9, <1>11, <1>13, <1>14, <1>15 DEF Promoted
<1>17. step.pkg \in Pkgs /\ step.flavor \in Flavors /\ step.ver \in Version /\ r = Repo(step.pkg)
  BY DEF StepOK
<1>18. b \in PkgsIn(r) \X Flavors
  BY <1>13, <1>17, PkgsFinite
<1>19. k \in [PkgsIn(r) \X Flavors -> Commit \cup {None}]
  BY <1>12, <1>14, <1>18 DEF CloneOK
<1>20. /\ CloneOK(e, r) /\ e.main = c.main /\ e.tags = c.tags /\ e.dirty = c.dirty
       /\ e.branch = k
  BY <1>15, <1>19, BranchIs
<1>21. ReleaseName(step) \in TagNames(r)
  BY <1>17, NamesType DEF ReleaseName, TagKinds
<1>22. PICK name : name = ReleaseName(step)
  OBVIOUS
<1>23. /\ CloneOK(d, r)
       /\ d.main = e.main /\ d.branch = e.branch /\ d.dirty = e.dirty
       /\ DOMAIN d.tags = DOMAIN e.tags \cup {name}
       /\ d.tags[name] = commit
       /\ \A n \in DOMAIN e.tags : n # name => d.tags[n] = e.tags[n]
  BY <1>12, <1>16, <1>20, <1>21, <1>22, TaggedIs
<1> QED BY <1>1, <1>4, <1>12, <1>13, <1>14, <1>20, <1>22, <1>23

\* MainEditStep touches main only.
LEMMA EditedIs ==
    ASSUME StoresOK, NEW r \in Repos, NEW c, CloneOK(c, r), NEW step, StepOK(step),
           step.kind = "edit", step.repo = r, NEW d, d = Edited(c, step)
    PROVE  /\ CloneOK(d, r)
           /\ d.tags = c.tags /\ d.branch = c.branch /\ d.dirty = c.dirty
<1>1. PICK head : head = Last(c.main)
  OBVIOUS
<1>2. head \in Commit
  BY <1>1, HeadIs
<1>3. head.pin \in [Siblings -> Version \cup {None}] /\ head.test \in [Siblings -> Version \cup {None}]
  BY <1>2 DEF Commit, Version
<1>4. PICK pin : pin = Merged(head.pin, step.pins)
  OBVIOUS
<1>5. PICK test : test = Merged(head.test, step.tests)
  OBVIOUS
<1>6. pin \in [Siblings -> Version \cup {None}] /\ test \in [Siblings -> Version \cup {None}]
  <2>1. step.pins \in Pins /\ step.tests \in Pins
    BY DEF StepOK
  <2> QED BY <1>3, <1>4, <1>5, <2>1, MergedIs
<1>7. PICK id : id = FreshId(r, c)
  OBVIOUS
<1>8. id \in Nat
  BY <1>7, FreshIdType
<1>9. PICK new : new = [head EXCEPT !.pin = pin, !.test = test]
  OBVIOUS
<1>10. new \in Commit
  BY <1>2, <1>6, <1>9 DEF Commit, Version
<1>11. PICK commit : commit = [new EXCEPT !.id = id]
  OBVIOUS
<1>12. commit \in Commit
  BY <1>8, <1>10, <1>11 DEF Commit
<1>13. PICK main : main = Append(c.main, commit)
  OBVIOUS
<1>14. main \in Seq(Commit) /\ main # << >>
  BY <1>12, <1>13, AppendProperties DEF CloneOK
<1>15. d = IF new = head THEN c ELSE [c EXCEPT !.main = main]
  BY <1>1, <1>4, <1>5, <1>7, <1>9, <1>11, <1>13 DEF Edited
<1>16. CASE new = head
  BY <1>15, <1>16
<1>17. CASE new # head
  BY <1>14, <1>15, <1>17, MainIs
<1> QED BY <1>16, <1>17

\* What MainDevMarkerStep does to the tags.
LEMMA MarkedIs ==
    ASSUME NEW r \in Repos, NEW c, CloneOK(c, r), NEW step, StepOK(step),
           step.kind = "marker", step.repo = r, NEW d, d = Marked(c, step)
    PROVE  /\ CloneOK(d, r)
           /\ d.main = c.main /\ d.branch = c.branch /\ d.dirty = c.dirty
           /\ DOMAIN d.tags = (DOMAIN c.tags \ StaleMarkers(c, step))
                              \cup {Marker(step.pkg, step.ver)}
           /\ \A n \in DOMAIN c.tags \cap DOMAIN d.tags :
                n # Marker(step.pkg, step.ver) => d.tags[n] = c.tags[n]
<1>1. PICK e : e = Untagged(c, StaleMarkers(c, step))
  OBVIOUS
<1>2. /\ CloneOK(e, r)
      /\ e.main = c.main /\ e.branch = c.branch /\ e.dirty = c.dirty
      /\ DOMAIN e.tags = DOMAIN c.tags \ StaleMarkers(c, step)
      /\ \A n \in DOMAIN e.tags : e.tags[n] = c.tags[n]
  BY <1>1, UntaggedIs
<1>3. PICK name : name = Marker(step.pkg, step.ver)
  OBVIOUS
<1>4. name \in TagNames(r)
  BY <1>3, NamesType DEF StepOK
<1>5. PICK head : head = Last(c.main)
  OBVIOUS
<1>6. head \in Commit
  BY <1>5, HeadIs
<1>7. d = Tagged(e, name, head)
  BY <1>1, <1>3, <1>5 DEF Marked
<1>8. /\ CloneOK(d, r)
      /\ d.main = e.main /\ d.branch = e.branch /\ d.dirty = e.dirty
      /\ DOMAIN d.tags = DOMAIN e.tags \cup {name}
      /\ \A n \in DOMAIN e.tags : n # name => d.tags[n] = e.tags[n]
  BY <1>2, <1>4, <1>6, <1>7, TaggedIs
<1> QED BY <1>2, <1>3, <1>8

\* What PublishTriggerStep does to the tags.
LEMMA TriggeredIs ==
    ASSUME NEW r \in Repos, NEW c, CloneOK(c, r), NEW step, StepOK(step),
           step.kind = "trigger", step.repo = r, ReleaseName(step) \in DOMAIN c.tags,
           NEW d, d = Triggered(c, step)
    PROVE  /\ CloneOK(d, r)
           /\ d.main = c.main /\ d.branch = c.branch /\ d.dirty = c.dirty
           /\ DOMAIN d.tags = (DOMAIN c.tags \ StaleTriggers(c, step)) \cup {Trigger(step)}
           /\ \A n \in DOMAIN c.tags \cap DOMAIN d.tags :
                n # Trigger(step) => d.tags[n] = c.tags[n]
           /\ d.tags[Trigger(step)] = c.tags[ReleaseName(step)]
<1>1. PICK e : e = Untagged(c, StaleTriggers(c, step))
  OBVIOUS
<1>2. /\ CloneOK(e, r)
      /\ e.main = c.main /\ e.branch = c.branch /\ e.dirty = c.dirty
      /\ DOMAIN e.tags = DOMAIN c.tags \ StaleTriggers(c, step)
      /\ \A n \in DOMAIN e.tags : e.tags[n] = c.tags[n]
  BY <1>1, UntaggedIs
<1>3. PICK name : name = Trigger(step)
  OBVIOUS
<1>4. name \in TagNames(r)
  BY <1>3, NamesType DEF StepOK, Trigger, TagKinds
<1>5. PICK commit : commit = c.tags[ReleaseName(step)]
  OBVIOUS
<1>6. commit \in Commit
  BY <1>5 DEF CloneOK, TagsOK
<1>7. d = Tagged(e, name, commit)
  BY <1>1, <1>3, <1>5 DEF Triggered
<1>8. /\ CloneOK(d, r)
      /\ d.main = e.main /\ d.branch = e.branch /\ d.dirty = e.dirty
      /\ DOMAIN d.tags = DOMAIN e.tags \cup {name}
      /\ d.tags[name] = commit
      /\ \A n \in DOMAIN e.tags : n # name => d.tags[n] = e.tags[n]
  BY <1>2, <1>4, <1>6, <1>7, TaggedIs
<1> QED BY <1>2, <1>3, <1>5, <1>8

\* What YankTagStep does to the tags.
LEMMA YankedIs ==
    ASSUME NEW r \in Repos, NEW c, CloneOK(c, r), NEW step, StepOK(step),
           step.kind = "yank", step.repo = r, ReleaseName(step) \in DOMAIN c.tags,
           NEW d, d = Yanked(c, step)
    PROVE  /\ CloneOK(d, r)
           /\ d.main = c.main /\ d.branch = c.branch /\ d.dirty = c.dirty
           /\ DOMAIN d.tags = (DOMAIN c.tags \ {ReleaseName(step), Trigger(step)})
                              \cup {YankedName(step)}
           /\ \A n \in DOMAIN c.tags \cap DOMAIN d.tags :
                n # YankedName(step) => d.tags[n] = c.tags[n]
           /\ d.tags[YankedName(step)] = c.tags[ReleaseName(step)]
<1>1. PICK name : name = YankedName(step)
  OBVIOUS
<1>2. PICK gone : gone = {ReleaseName(step), Trigger(step)}
  OBVIOUS
<1>3. name \in TagNames(r)
  BY <1>1, NamesType DEF StepOK, YankedName, TagKinds
<1>4. name \notin gone
  BY <1>1, <1>2 DEF YankedName, ReleaseName, Trigger, TagName
<1>5. PICK commit : commit = c.tags[ReleaseName(step)]
  OBVIOUS
<1>6. commit \in Commit
  BY <1>5 DEF CloneOK, TagsOK
<1>7. PICK e : e = Tagged(c, name, commit)
  OBVIOUS
<1>8. /\ CloneOK(e, r)
      /\ e.main = c.main /\ e.branch = c.branch /\ e.dirty = c.dirty
      /\ DOMAIN e.tags = DOMAIN c.tags \cup {name}
      /\ e.tags[name] = commit
      /\ \A n \in DOMAIN c.tags : n # name => e.tags[n] = c.tags[n]
  BY <1>3, <1>6, <1>7, TaggedIs
<1>9. d = Untagged(e, gone)
  BY <1>1, <1>2, <1>5, <1>7 DEF Yanked
<1>10. /\ CloneOK(d, r)
       /\ d.main = e.main /\ d.branch = e.branch /\ d.dirty = e.dirty
       /\ DOMAIN d.tags = DOMAIN e.tags \ gone
       /\ \A n \in DOMAIN d.tags : d.tags[n] = e.tags[n]
  BY <1>8, <1>9, UntaggedIs
<1> QED BY <1>1, <1>2, <1>4, <1>5, <1>8, <1>10

\* RollbackStep sets one branch to the commit of its release.
LEMMA RolledBackIs ==
    ASSUME NEW r \in Repos, NEW c, CloneOK(c, r), NEW step, StepOK(step),
           step.kind = "rollback", step.repo = r, ReleaseName(step) \in DOMAIN c.tags,
           NEW d, d = RolledBack(c, step)
    PROVE  /\ CloneOK(d, r)
           /\ d.main = c.main /\ d.tags = c.tags /\ d.dirty = c.dirty
           /\ \A b \in DOMAIN c.branch :
                d.branch[b] = IF b = <<step.pkg, step.flavor>> THEN c.tags[ReleaseName(step)]
                              ELSE c.branch[b]
<1>1. PICK commit : commit = c.tags[ReleaseName(step)]
  OBVIOUS
<1>2. commit \in Commit
  BY <1>1 DEF CloneOK, TagsOK
<1>3. PICK b : b = <<step.pkg, step.flavor>>
  OBVIOUS
<1>4. b \in PkgsIn(r) \X Flavors
  <2>1. step.pkg \in PkgsIn(r) /\ step.flavor \in Flavors
    BY PkgsFinite DEF StepOK
  <2> QED BY <1>3, <2>1
<1>5. PICK k : k = [c.branch EXCEPT ![b] = commit]
  OBVIOUS
<1>6. k \in [PkgsIn(r) \X Flavors -> Commit \cup {None}]
  BY <1>2, <1>4, <1>5 DEF CloneOK
<1>7. d = [c EXCEPT !.branch = k]
  BY <1>1, <1>3, <1>5 DEF RolledBack
<1>8. /\ CloneOK(d, r)
      /\ d.main = c.main /\ d.tags = c.tags /\ d.dirty = c.dirty
      /\ d.branch = k
  BY <1>6, <1>7, BranchIs
<1> QED BY <1>1, <1>3, <1>5, <1>8

\* What every step does.
Stands(c, step) ==
    /\ step.kind = "promote" /\ step.flavor = "prod" => Rcs(c, step) # {}
    /\ step.kind \in {"trigger", "yank", "rollback"} => ReleaseName(step) \in DOMAIN c.tags

\* What becomes stale is of the step's package and kind, and not what it makes.
LEMMA StaleIs ==
    ASSUME NEW r, NEW c, CloneOK(c, r), NEW step
    PROVE  /\ \A n \in StaleMarkers(c, step) :
                /\ n \in TagNames(r) /\ n.pkg = step.pkg /\ n.kind = "marker"
                /\ n # Marker(step.pkg, step.ver)
           /\ \A n \in StaleTriggers(c, step) :
                /\ n \in TagNames(r) /\ n.pkg = step.pkg /\ n.kind = "trigger"
                /\ n # Trigger(step)
  BY DEF CloneOK, TagsOK, StaleMarkers, StaleTriggers, OfKind

\* The fields of the names that a step makes.
LEMMA NameFields ==
    ASSUME NEW step
    PROVE  /\ ReleaseName(step).pkg = step.pkg /\ ReleaseName(step).kind = "release"
           /\ Trigger(step).pkg = step.pkg /\ Trigger(step).kind = "trigger"
           /\ YankedName(step).pkg = step.pkg /\ YankedName(step).kind = "yanked"
           /\ ReleaseName(step).ver = step.ver /\ Trigger(step).ver = step.ver
           /\ YankedName(step).ver = step.ver
  BY DEF ReleaseName, Trigger, YankedName, TagName

\* The references a step leaves, by what is to be done with them.
LEMMA LeftIs ==
    ASSUME NEW c, NEW step
    PROVE  /\ step.kind = "promote" =>
                /\ Named(Left(c, step), "tag") = {ReleaseName(step)}
                /\ Named(Left(c, step), "delete") = {}
                /\ Named(Left(c, step), "branch") = {<<step.pkg, step.flavor>>}
           /\ step.kind \in {"edit", "reset"} =>
                /\ Named(Left(c, step), "tag") = {} /\ Named(Left(c, step), "delete") = {}
                /\ Named(Left(c, step), "branch") = {}
           /\ step.kind = "marker" =>
                /\ Named(Left(c, step), "tag") = {Marker(step.pkg, step.ver)}
                /\ Named(Left(c, step), "delete") = StaleMarkers(c, step)
                /\ Named(Left(c, step), "branch") = {}
           /\ step.kind = "trigger" =>
                /\ Named(Left(c, step), "tag") = {Trigger(step)}
                /\ Named(Left(c, step), "delete") = StaleTriggers(c, step)
                /\ Named(Left(c, step), "branch") = {}
           /\ step.kind = "yank" =>
                /\ Named(Left(c, step), "tag") = {YankedName(step)}
                /\ Named(Left(c, step), "delete") = {ReleaseName(step), Trigger(step)}
                /\ Named(Left(c, step), "branch") = {}
           /\ step.kind = "rollback" =>
                /\ Named(Left(c, step), "tag") = {} /\ Named(Left(c, step), "delete") = {}
                /\ Named(Left(c, step), "branch") = {<<step.pkg, step.flavor>>}
<1>1. CASE step.kind = "promote"
  <2>1. PICK F, a, b : F = Left(c, step) /\ a = <<step.pkg, step.flavor>> /\ b = ReleaseName(step)
    OBVIOUS
  <2>2. F = {Ref("branch", a), Ref("tag", b)}
    BY <1>1, <2>1 DEF Left, Bundled, Isolated, BranchRef
  <2>3. Named(F, "branch") = {a} /\ Named(F, "tag") = {b} /\ Named(F, "delete") = {}
    BY <2>2, NamedTwo
  <2> QED BY <1>1, <2>1, <2>3
<1>2. CASE step.kind \in {"edit", "reset"}
  <2>1. Left(c, step) = {} \/ Left(c, step) = {Ref("main", step.repo)}
    BY <1>2 DEF Left, Bundled, Isolated
  <2>2. /\ Named(Left(c, step), "tag") = {} /\ Named(Left(c, step), "delete") = {}
        /\ Named(Left(c, step), "branch") = {}
    BY <2>1, NamedIs
  <2> QED BY <1>2, <2>2
<1>3. CASE step.kind = "marker"
  <2>1. PICK F, X, b : F = Left(c, step) /\ X = StaleMarkers(c, step) /\ b = Marker(step.pkg, step.ver)
    OBVIOUS
  <2>2. F = Replacing(X, b)
    BY <1>3, <2>1 DEF Left, Bundled, Isolated, Replacing
  <2>3. Named(F, "branch") = {} /\ Named(F, "tag") = {b} /\ Named(F, "delete") = X
    BY <2>2, NamedDeletions
  <2> QED BY <1>3, <2>1, <2>3
<1>4. CASE step.kind = "trigger"
  <2>1. PICK F, X, b : F = Left(c, step) /\ X = StaleTriggers(c, step) /\ b = Trigger(step)
    OBVIOUS
  <2>2. F = Replacing(X, b)
    BY <1>4, <2>1 DEF Left, Bundled, Isolated, Replacing
  <2>3. Named(F, "branch") = {} /\ Named(F, "tag") = {b} /\ Named(F, "delete") = X
    BY <2>2, NamedDeletions
  <2> QED BY <1>4, <2>1, <2>3
<1>5. CASE step.kind = "yank"
  <2>1. PICK F, X, b : F = Left(c, step) /\ X = {ReleaseName(step), Trigger(step)} /\ b = YankedName(step)
    OBVIOUS
  <2>2. F = Replacing(X, b)
    BY <1>5, <2>1 DEF Left, Bundled, Isolated, YankedRefs, Replacing
  <2>3. Named(F, "branch") = {} /\ Named(F, "tag") = {b} /\ Named(F, "delete") = X
    BY <2>2, NamedDeletions
  <2> QED BY <1>5, <2>1, <2>3
<1>6. CASE step.kind = "rollback"
  <2>1. Left(c, step) = {Ref("branch", <<step.pkg, step.flavor>>)}
    BY <1>6 DEF Left, Bundled, Isolated, BranchRef
  <2>2. /\ Named(Left(c, step), "tag") = {} /\ Named(Left(c, step), "delete") = {}
        /\ Named(Left(c, step), "branch") = {<<step.pkg, step.flavor>>}
    BY <2>1, NamedIs
  <2> QED BY <1>6, <2>2
<1> QED BY <1>1, <1>2, <1>3, <1>4, <1>5, <1>6

\* What a step does to the tags is what it leaves to be pushed of them.
LEMMA AppliedIs ==
    ASSUME StoresOK, NEW r \in Repos, NEW c, CloneOK(c, r), NEW step, StepOK(step),
           step.repo = r, step.kind # "reset", Stands(c, step),
           NEW d, d = Applied(c, step), NEW refs, refs = Left(c, step)
    PROVE  /\ CloneOK(d, r) /\ d.dirty = c.dirty
           /\ TagsAfter(c, d, refs)
           /\ Named(refs, "tag") \cap Named(refs, "delete") = {}
           /\ \A n \in Named(refs, "tag") \cup Named(refs, "delete") :
                n \in TagNames(r) /\ <<n.pkg, n.kind>> \in Touched(step)
<1>1. StepOK(step) /\ step.kind # "edit" =>
        /\ step.pkg \in Pkgs /\ step.ver \in Version /\ r = Repo(step.pkg)
  BY DEF StepOK
<1>2. step.kind # "edit" =>
        /\ ReleaseName(step) \in TagNames(r) /\ Trigger(step) \in TagNames(r)
        /\ YankedName(step) \in TagNames(r)
  BY <1>1, NamesType DEF ReleaseName, Trigger, YankedName, TagKinds
<1>3. CASE step.kind = "promote"
  <2>1. d = Promoted(c, step)
    BY <1>3 DEF Applied
  <2>2. /\ CloneOK(d, r) /\ d.dirty = c.dirty
        /\ DOMAIN d.tags = DOMAIN c.tags \cup {ReleaseName(step)}
        /\ \A n \in DOMAIN c.tags : n # ReleaseName(step) => d.tags[n] = c.tags[n]
    BY <1>3, <2>1, PromotedIs DEF Stands
  <2>3. Named(refs, "tag") = {ReleaseName(step)} /\ Named(refs, "delete") = {}
    BY <1>3, LeftIs
  <2>4. <<ReleaseName(step).pkg, ReleaseName(step).kind>> \in Touched(step)
    BY <1>3, NameFields DEF Touched
  <2>5. TagsAfter(c, d, refs)
    BY <2>2, <2>3 DEF TagsAfter
  <2> QED BY <1>2, <1>3, <2>2, <2>3, <2>4, <2>5
<1>4. CASE step.kind = "edit"
  <2>1. d = Edited(c, step)
    BY <1>4 DEF Applied
  <2>2. CloneOK(d, r) /\ d.dirty = c.dirty /\ d.tags = c.tags
    BY <1>4, <2>1, EditedIs
  <2>3. Named(refs, "tag") = {} /\ Named(refs, "delete") = {}
    BY <1>4, LeftIs
  <2> QED BY <2>2, <2>3 DEF TagsAfter
<1>5. CASE step.kind = "marker"
  <2>1. d = Marked(c, step)
    BY <1>5 DEF Applied
  <2>2. PICK name : name = Marker(step.pkg, step.ver)
    OBVIOUS
  <2>3. /\ CloneOK(d, r) /\ d.dirty = c.dirty
        /\ DOMAIN d.tags = (DOMAIN c.tags \ StaleMarkers(c, step)) \cup {name}
        /\ \A n \in DOMAIN c.tags \cap DOMAIN d.tags : n # name => d.tags[n] = c.tags[n]
    BY <1>5, <2>1, <2>2, MarkedIs
  <2>4. Named(refs, "tag") = {name} /\ Named(refs, "delete") = StaleMarkers(c, step)
    BY <1>5, <2>2, LeftIs
  <2>5. name \in TagNames(r) /\ name.pkg = step.pkg /\ name.kind = "marker"
    BY <1>1, <1>5, <2>2, NamesType
  <2>6. \A n \in StaleMarkers(c, step) :
            n \in TagNames(r) /\ n.pkg = step.pkg /\ n.kind = "marker" /\ n # name
    BY <2>2, StaleIs
  <2>7. <<step.pkg, "marker">> \in Touched(step)
    BY <1>5 DEF Touched
  <2>8. TagsAfter(c, d, refs)
    BY <2>3, <2>4 DEF TagsAfter
  <2> QED BY <2>3, <2>4, <2>5, <2>6, <2>7, <2>8
<1>6. CASE step.kind = "trigger"
  <2>1. d = Triggered(c, step)
    BY <1>6 DEF Applied
  <2>2. /\ CloneOK(d, r) /\ d.dirty = c.dirty
        /\ DOMAIN d.tags = (DOMAIN c.tags \ StaleTriggers(c, step)) \cup {Trigger(step)}
        /\ \A n \in DOMAIN c.tags \cap DOMAIN d.tags : n # Trigger(step) => d.tags[n] = c.tags[n]
    BY <1>6, <2>1, TriggeredIs DEF Stands
  <2>3. Named(refs, "tag") = {Trigger(step)} /\ Named(refs, "delete") = StaleTriggers(c, step)
    BY <1>6, LeftIs
  <2>4. \A n \in StaleTriggers(c, step) :
            n \in TagNames(r) /\ n.pkg = step.pkg /\ n.kind = "trigger" /\ n # Trigger(step)
    BY StaleIs
  <2>5. <<step.pkg, "trigger">> \in Touched(step)
    BY <1>6 DEF Touched
  <2>6. TagsAfter(c, d, refs)
    BY <2>2, <2>3 DEF TagsAfter
  <2>7. Trigger(step).pkg = step.pkg /\ Trigger(step).kind = "trigger"
    BY NameFields
  <2> QED BY <1>2, <1>6, <2>2, <2>3, <2>4, <2>5, <2>6, <2>7
<1>7. CASE step.kind = "yank"
  <2>1. d = Yanked(c, step)
    BY <1>7 DEF Applied
  <2>2. /\ CloneOK(d, r) /\ d.dirty = c.dirty
        /\ DOMAIN d.tags = (DOMAIN c.tags \ {ReleaseName(step), Trigger(step)})
                           \cup {YankedName(step)}
        /\ \A n \in DOMAIN c.tags \cap DOMAIN d.tags : n # YankedName(step) => d.tags[n] = c.tags[n]
    BY <1>7, <2>1, YankedIs DEF Stands
  <2>3. /\ Named(refs, "tag") = {YankedName(step)}
        /\ Named(refs, "delete") = {ReleaseName(step), Trigger(step)}
    BY <1>7, LeftIs
  <2>4. \A k \in {"release", "trigger", "yanked"} : <<step.pkg, k>> \in Touched(step)
    BY <1>7 DEF Touched
  <2>5. TagsAfter(c, d, refs)
    BY <2>2, <2>3 DEF TagsAfter
  <2>6. /\ ReleaseName(step).pkg = step.pkg /\ ReleaseName(step).kind = "release"
        /\ Trigger(step).pkg = step.pkg /\ Trigger(step).kind = "trigger"
        /\ YankedName(step).pkg = step.pkg /\ YankedName(step).kind = "yanked"
    BY NameFields
  <2> QED BY <1>2, <1>7, <2>2, <2>3, <2>4, <2>5, <2>6
<1>8. CASE step.kind = "rollback"
  <2>1. d = RolledBack(c, step)
    BY <1>8 DEF Applied
  <2>2. CloneOK(d, r) /\ d.dirty = c.dirty /\ d.tags = c.tags
    BY <1>8, <2>1, RolledBackIs DEF Stands
  <2>3. Named(refs, "tag") = {} /\ Named(refs, "delete") = {}
    BY <1>8, LeftIs
  <2> QED BY <2>2, <2>3 DEF TagsAfter
<1>9. step.kind \in {"promote", "edit", "marker", "trigger", "yank", "rollback"}
  BY DEF StepOK, Phase
<1> QED BY <1>3, <1>4, <1>5, <1>6, <1>7, <1>8, <1>9

-----------------------------------------------------------------------------
(* Plans: what the planner decides, and that its steps can be taken *)

\* Selecting a flavor.
LEMMA OfFlavorIs ==
    ASSUME NEW S, IsFiniteSet(S), S \subseteq Version, NEW f
    PROVE  /\ OfFlavor(S, f) \subseteq S /\ IsFiniteSet(OfFlavor(S, f))
           /\ \A v \in S : v \in OfFlavor(S, f) <=> FlavorOf(v) = f
<1>1. OfFlavor(S, f) \subseteq S
  BY DEF OfFlavor
<1>2. IsFiniteSet(OfFlavor(S, f))
  BY <1>1, FS_Subset
<1> QED BY <1>1, <1>2 DEF OfFlavor

\* The next micro version is beyond all finals, and that of a candidate or the next.
LEMMA TargetIs ==
    ASSUME NEW gen, IsFiniteSet(gen), gen \subseteq Version
    PROVE  /\ TargetVersion(gen) \in Nat
           /\ \A v \in gen : IsFinal(v) => v[1] + 1 <= TargetVersion(gen)
           /\ \/ \E v \in gen : IsFinal(v) /\ TargetVersion(gen) = v[1] + 1
              \/ /\ \A v \in gen : ~IsFinal(v)
                 /\ \/ gen = {} /\ TargetVersion(gen) = 1
                    \/ /\ \E v \in gen : TargetVersion(gen) = v[1]
                       /\ \A v \in gen : v[1] <= TargetVersion(gen)
<1>1. PICK F : F = OfFlavor(gen, "prod")
  OBVIOUS
<1>2. /\ F \subseteq gen /\ F \subseteq Version /\ IsFiniteSet(F)
      /\ \A v \in gen : v \in F <=> IsFinal(v)
  BY <1>1, OfFlavorIs DEF FlavorOf
<1>3. \A v \in Version : v[1] \in Nat /\ v[2] \in Nat
  BY DEF Version
<1>4. PICK target : target = TargetVersion(gen)
  OBVIOUS
<1>5. CASE F # {}
  <2>1. PICK final : final = Latest(F)
    OBVIOUS
  <2>2. final \in F /\ final # None /\ \A w \in F \ {final} : Before(w, final)
    BY <1>2, <1>5, <2>1, LatestIs
  <2>3. target = final[1] + 1
    BY <1>1, <1>4, <2>1, <2>2 DEF TargetVersion
  <2>4. final \in gen /\ IsFinal(final) /\ final[1] \in Nat
    BY <1>2, <1>3, <2>2
  <2>5. ASSUME NEW v \in gen, IsFinal(v) PROVE v[1] + 1 <= target
    <3>1. v \in F /\ v[1] \in Nat
      BY <1>2, <1>3, <2>5
    <3>2. v = final \/ v[1] <= final[1]
      BY <1>3, <2>2, <2>4, <2>5, <3>1 DEF Before
    <3> QED BY <2>3, <2>4, <3>1, <3>2
  <2>6. target \in Nat
    BY <2>3, <2>4
  <2> QED BY <1>4, <2>3, <2>4, <2>5, <2>6
<1>6. CASE F = {} /\ gen # {}
  <2>1. PICK last : last = Latest(gen)
    OBVIOUS
  <2>2. last \in gen /\ last # None /\ \A w \in gen \ {last} : Before(w, last)
    BY <1>6, <2>1, LatestIs
  <2>3. Latest(F) = None
    BY <1>2, <1>6, LatestNone
  <2>4. target = last[1]
    BY <1>1, <1>4, <1>6, <2>1, <2>3 DEF TargetVersion
  <2>5. last[1] \in Nat /\ \A v \in gen : ~IsFinal(v) /\ v[1] \in Nat
    BY <1>2, <1>3, <1>6, <2>2
  <2>6. ASSUME NEW v \in gen PROVE v[1] <= target
    <3>1. v = last \/ v[1] < last[1] \/ v[1] = last[1]
      BY <2>2 DEF Before
    <3> QED BY <2>4, <2>5, <3>1
  <2> QED BY <1>4, <2>2, <2>4, <2>5, <2>6
<1>7. CASE gen = {}
  <2>1. F = {}
    BY <1>2, <1>7
  <2>2. Latest(F) = None
    BY <1>2, <2>1, LatestNone
  <2>3. target = 1
    BY <1>1, <1>4, <1>7, <2>2 DEF TargetVersion
  <2> QED BY <1>4, <1>7, <2>3
<1> QED BY <1>5, <1>6, <1>7

\* The next candidate number is beyond all those taken.
LEMMA NextRcIs ==
    ASSUME NEW gen, IsFiniteSet(gen), gen \subseteq Version, NEW target
    PROVE  /\ NextRc(gen, target) \in Nat /\ NextRc(gen, target) # 0
           /\ \A v \in gen : v[1] = target /\ ~IsFinal(v) => v[2] < NextRc(gen, target)
<1>1. PICK R : R = {w \in OfFlavor(gen, "pre") : w[1] = target}
  OBVIOUS
<1>2. /\ R \subseteq gen
      /\ \A v \in gen : v[1] = target /\ ~IsFinal(v) => v \in R
  BY <1>1, OfFlavorIs DEF FlavorOf
<1>3. \A v \in gen : v[2] \in Nat
  BY DEF Version
<1>4. PICK g : g = [v \in R |-> v[2]]
  OBVIOUS
<1>5. IsFiniteSet(Range(g)) /\ Range(g) = {v[2] : v \in R}
  <2>1. IsFiniteSet(R)
    BY <1>2, FS_Subset
  <2> QED BY <1>4, <2>1, FiniteRange DEF Range
<1>6. PICK taken : taken = {0} \cup Range(g)
  OBVIOUS
<1>7. IsFiniteSet(taken)
  <2>1. IsFiniteSet(Range(g) \cup {0})
    BY <1>5, FS_AddElement
  <2>2. taken = Range(g) \cup {0}
    BY <1>6
  <2> QED BY <2>1, <2>2
<1>8. taken \subseteq Nat /\ taken # {}
  BY <1>2, <1>3, <1>5, <1>6
<1>9. \E n \in taken : \A k \in taken : k <= n
  BY <1>7, <1>8, GreatestNumber
<1>10. PICK n : n = CHOOSE k \in taken : \A j \in taken : j <= k
  OBVIOUS
<1>11. n \in taken /\ \A j \in taken : j <= n
  BY <1>9, <1>10
<1>12. NextRc(gen, target) = 1 + n
  BY <1>1, <1>5, <1>6, <1>10 DEF NextRc
<1>13. n \in Nat
  BY <1>8, <1>11
<1>14. ASSUME NEW v \in gen, v[1] = target, ~IsFinal(v) PROVE v[2] < 1 + n
  <2>1. v \in R
    BY <1>2, <1>14
  <2>2. v[2] \in taken /\ v[2] \in Nat
    BY <1>3, <1>5, <1>6, <2>1
  <2>3. v[2] <= n
    BY <1>11, <2>2
  <2> QED BY <1>13, <2>2, <2>3
<1> QED BY <1>12, <1>13, <1>14

\* The numbers of a package's releases: a micro version is the first, or follows a final.
GenOK(gen) == \A v \in gen : v[1] = 1 \/ \E f \in gen : IsFinal(f) /\ v[1] <= f[1] + 1

\* A new candidate is a new number, and with such numbers the greatest.
LEMMA NewRcIs ==
    ASSUME NEW r, NEW p \in PkgsIn(r), NEW tags, TagsOK(tags[p], r), NEW d, d = NewRc(p, tags)
    PROVE  /\ d.act = TRUE /\ d.ver \in Version /\ ~IsFinal(d.ver)
           /\ d.ver \notin Generation(tags[p], p)
           /\ GenOK(Generation(tags[p], p)) =>
                /\ \A w \in Generation(tags[p], p) : Before(w, d.ver)
                /\ GenOK(Generation(tags[p], p) \cup {d.ver})
<1>1. PICK gen : gen = Generation(tags[p], p)
  OBVIOUS
<1>2. gen \subseteq Version /\ IsFiniteSet(gen)
  <2>1. PICK t : t = tags[p]
    OBVIOUS
  <2>2. gen = Generation(t, p) /\ TagsOK(t, r)
    BY <1>1, <2>1
  <2> QED BY <2>2, SelectionIs
<1>3. PICK target : target = TargetVersion(gen)
  OBVIOUS
<1>4. PICK n : n = NextRc(gen, target)
  OBVIOUS
<1>5. d.act = TRUE /\ d.ver = <<target, n>>
  BY <1>1, <1>3, <1>4 DEF NewRc, Decision
<1>6. target \in Nat
  BY <1>2, <1>3, TargetIs
<1>7. /\ n \in Nat /\ n # 0
      /\ \A v \in gen : v[1] = target /\ ~IsFinal(v) => v[2] < n
  BY <1>2, <1>4, NextRcIs
<1>8. d.ver \in Version /\ ~IsFinal(d.ver) /\ d.ver[1] = target /\ d.ver[2] = n
  BY <1>5, <1>6, <1>7 DEF Version, IsFinal
<1>9. d.ver \notin gen
  BY <1>7, <1>8
<1>10. /\ \A v \in gen : IsFinal(v) => v[1] + 1 <= target
       /\ \/ \E v \in gen : IsFinal(v) /\ target = v[1] + 1
          \/ /\ \A v \in gen : ~IsFinal(v)
             /\ \/ gen = {} /\ target = 1
                \/ (\E v \in gen : target = v[1]) /\ (\A v \in gen : v[1] <= target)
  BY <1>2, <1>3, TargetIs
<1>11. \A v \in gen : v[1] \in Nat /\ v[2] \in Nat
  BY <1>2 DEF Version
<1>12. ASSUME GenOK(gen), NEW w \in gen PROVE Before(w, d.ver)
  <2>1. w[1] <= target
    <3>1. CASE \E v \in gen : IsFinal(v) /\ target = v[1] + 1
      <4>1. target \in Nat /\ 1 <= target
        BY <1>11, <3>1
      <4>2. w[1] = 1 \/ \E f \in gen : IsFinal(f) /\ w[1] <= f[1] + 1
        BY <1>12 DEF GenOK
      <4>3. CASE w[1] = 1
        BY <4>1, <4>3
      <4>4. CASE \E f \in gen : IsFinal(f) /\ w[1] <= f[1] + 1
        <5>1. PICK f \in gen : IsFinal(f) /\ w[1] <= f[1] + 1
          BY <4>4
        <5>2. f[1] + 1 <= target /\ f[1] \in Nat /\ w[1] \in Nat
          BY <1>10, <1>11, <5>1
        <5> QED BY <4>1, <5>1, <5>2
      <4> QED BY <4>2, <4>3, <4>4
    <3>2. CASE \A v \in gen : v[1] <= target
      BY <3>2
    <3> QED BY <1>10, <3>1, <3>2
  <2>2. CASE w[1] < target
    BY <1>8, <2>2 DEF Before
  <2>3. CASE w[1] = target
    <3>1. ~IsFinal(w)
      <4> SUFFICES ASSUME IsFinal(w) PROVE FALSE
        OBVIOUS
      <4>1. w[1] + 1 <= target /\ w[1] \in Nat
        BY <1>10, <1>11
      <4> QED BY <2>3, <4>1
    <3>2. w[2] < n
      BY <1>7, <2>3, <3>1
    <3> QED BY <1>8, <2>3, <3>1, <3>2 DEF Before
  <2>4. w[1] < target \/ w[1] = target
    BY <1>6, <1>11, <2>1
  <2> QED BY <2>2, <2>3, <2>4
<1>13. ASSUME GenOK(gen) PROVE GenOK(gen \cup {d.ver})
  <2>1. target = 1 \/ \E f \in gen : IsFinal(f) /\ target <= f[1] + 1
    <3>1. CASE \E v \in gen : IsFinal(v) /\ target = v[1] + 1
      BY <1>6, <3>1
    <3>2. CASE /\ \A v \in gen : ~IsFinal(v)
               /\ \/ gen = {} /\ target = 1
                  \/ (\E v \in gen : target = v[1]) /\ (\A v \in gen : v[1] <= target)
      BY <1>13, <3>2 DEF GenOK
    <3> QED BY <1>10, <3>1, <3>2
  <2> QED BY <1>8, <1>13, <2>1 DEF GenOK
<1> QED BY <1>1, <1>5, <1>8, <1>9, <1>12, <1>13

LocalOK(c) == c = [r \in Repos |-> c[r]] /\ \A r \in Repos : CloneOK(c[r], r)

\* The tags a plan is made from.
LEMMA TagsIs ==
    ASSUME NEW c, LocalOK(c), NEW tags, tags = Tags(c)
    PROVE  \A p \in Pkgs : /\ tags[p] = c[Repo(p)].tags /\ TagsOK(tags[p], Repo(p))
                           /\ p \in PkgsIn(Repo(p))
<1>1. SUFFICES ASSUME NEW p \in Pkgs
               PROVE  /\ tags[p] = c[Repo(p)].tags /\ TagsOK(tags[p], Repo(p))
                      /\ p \in PkgsIn(Repo(p))
  OBVIOUS
<1>2. tags[p] = c[Repo(p)].tags
  BY DEF Tags
<1>3. Repo(p) \in Repos /\ p \in PkgsIn(Repo(p))
  BY PkgsFinite
<1> QED BY <1>2, <1>3 DEF LocalOK, CloneOK

\* What is decided of a package that is not cut, and of one that is.
LEMMA CoordinatedIs ==
    ASSUME NEW c, LocalOK(c), NEW tags, tags = Tags(c), NEW p \in Pkgs, NEW changed \in BOOLEAN,
           Latest(Selection(tags[p], p)) = None => changed, NEW d, d = Coordinated(p, changed, tags)
    PROVE  /\ d.act = changed /\ d.ver \in Version
           /\ d.act => d = NewRc(p, tags)
           /\ ~d.act => /\ d.ver = Latest(Selection(tags[p], p))
                        /\ d.ver \in Selection(tags[p], p)
<1>1. TagsOK(tags[p], Repo(p)) /\ p \in PkgsIn(Repo(p))
  BY TagsIs
<1>2. CASE changed
  <2>1. d = NewRc(p, tags)
    BY <1>2 DEF Coordinated
  <2>2. d.act = TRUE /\ d.ver \in Version
    BY <1>1, <2>1, NewRcIs
  <2> QED BY <1>2, <2>1, <2>2
<1>3. CASE ~changed
  <2>1. PICK S : S = Selection(tags[p], p)
    OBVIOUS
  <2>2. d.act = FALSE /\ d.ver = Latest(S)
    BY <1>3, <2>1 DEF Coordinated, Decision
  <2>3. PICK t : t = tags[p]
    OBVIOUS
  <2>4. S \subseteq Version /\ IsFiniteSet(S)
    BY <1>1, <2>1, <2>3, SelectionIs
  <2>5. Latest(S) # None
    BY <1>3, <2>1
  <2>6. Latest(S) \in S
    BY <2>4, <2>5, LatestNone, LatestIs
  <2> QED BY <1>3, <2>1, <2>2, <2>4, <2>6
<1> QED BY <1>2, <1>3

\* PrePlan: every package has a version, and core is cut whenever a sibling is not
\* pinned by its latest release.
LEMMA DecidePreIs ==
    ASSUME NEW c, LocalOK(c), NEW tags, tags = Tags(c), NEW D, D = DecidePre(Heads(c), tags)
    PROVE  \A p \in Pkgs :
             /\ D[p].act \in BOOLEAN /\ D[p].ver \in Version
             /\ D[p].act => D[p] = NewRc(p, tags)
             /\ ~D[p].act => D[p].ver \in Selection(tags[p], p)
<1>1. PICK head : head = Heads(c)
  OBVIOUS
<1>2. \A p \in Pkgs : /\ FootprintChanged(p, head, tags) \in BOOLEAN
                      /\ Latest(Selection(tags[p], p)) = None => FootprintChanged(p, head, tags)
  BY DEF FootprintChanged
<1>3. PICK sib : sib = [s \in Siblings |->
                            Coordinated(s, FootprintChanged(s, head, tags), tags)]
  OBVIOUS
<1> DEFINE changes == FootprintChanged(Core, head, tags)
                      \/ \E s \in Siblings : /\ sib[s].ver # None
                                              /\ CurrentForward(tags)[s] # sib[s].ver
<1>4. D = [p \in Pkgs |-> IF p = Core THEN Coordinated(Core, changes, tags) ELSE sib[p]]
  BY <1>1, <1>3 DEF DecidePre
<1>5. changes \in BOOLEAN /\ (Latest(Selection(tags[Core], Core)) = None => changes)
  BY <1>2 DEF Pkgs
<1> HIDE DEF changes
<1>6. SUFFICES ASSUME NEW p \in Pkgs
               PROVE  \E changed \in BOOLEAN :
                        /\ Latest(Selection(tags[p], p)) = None => changed
                        /\ D[p] = Coordinated(p, changed, tags)
  <2>1. ASSUME NEW p \in Pkgs, NEW changed \in BOOLEAN,
               Latest(Selection(tags[p], p)) = None => changed,
               D[p] = Coordinated(p, changed, tags)
        PROVE  /\ D[p].act \in BOOLEAN /\ D[p].ver \in Version
               /\ D[p].act => D[p] = NewRc(p, tags)
               /\ ~D[p].act => D[p].ver \in Selection(tags[p], p)
    <3>1. PICK d : d = D[p]
      OBVIOUS
    <3>2. /\ d.act = changed /\ d.ver \in Version
          /\ d.act => d = NewRc(p, tags)
          /\ ~d.act => d.ver \in Selection(tags[p], p)
      BY <2>1, <3>1, CoordinatedIs
    <3> QED BY <3>1, <3>2
  <2> QED BY <1>6, <2>1
<1>7. CASE p = Core
  <2>1. D[p] = Coordinated(p, changes, tags)
    BY <1>7, <1>4
  <2> QED BY <1>7, <1>5, <2>1
<1>8. CASE p # Core
  <2>1. p \in Siblings
    BY <1>8 DEF Pkgs
  <2>2. D[p] = Coordinated(p, FootprintChanged(p, head, tags), tags)
    BY <1>3, <1>8, <1>4, <2>1
  <2> QED BY <1>2, <2>2
<1> QED BY <1>7, <1>8

\* ProdPlan: a final is stacked on the latest release, which is a candidate.
LEMMA DecideProdIs ==
    ASSUME NEW c, LocalOK(c), NEW tags, tags = Tags(c), NEW D, D = DecideProd(tags)
    PROVE  \A p \in Pkgs :
             /\ D[p].act \in BOOLEAN
             /\ ~D[p].act => D[p].ver = None
             /\ D[p].act =>
                  LET latest == Latest(Selection(tags[p], p))
                  IN  /\ latest \in Selection(tags[p], p) /\ ~IsFinal(latest)
                      /\ D[p].ver \in Version /\ D[p].ver[1] = latest[1] /\ D[p].ver[2] = 0
<1>1. SUFFICES ASSUME NEW p \in Pkgs, NEW latest, latest = Latest(Selection(tags[p], p))
               PROVE  /\ D[p].act \in BOOLEAN
                      /\ ~D[p].act => D[p].ver = None
                      /\ D[p].act =>
                          /\ latest \in Selection(tags[p], p) /\ ~IsFinal(latest)
                          /\ D[p].ver \in Version /\ D[p].ver[1] = latest[1] /\ D[p].ver[2] = 0
  OBVIOUS
<1>2. D[p] = IF latest = None \/ IsFinal(latest) THEN Decision(None, FALSE)
             ELSE Decision(<<latest[1], 0>>, TRUE)
  BY <1>1 DEF DecideProd
<1>3. CASE latest = None \/ IsFinal(latest)
  BY <1>2, <1>3 DEF Decision
<1>4. CASE ~(latest = None \/ IsFinal(latest))
  <2>1. PICK S, t : S = Selection(t, p) /\ t = tags[p]
    OBVIOUS
  <2>2. S \subseteq Version /\ IsFiniteSet(S)
    <3>1. TagsOK(t, Repo(p)) /\ p \in PkgsIn(Repo(p))
      BY <2>1, TagsIs
    <3> QED BY <2>1, <3>1, SelectionIs
  <2>3. latest \in S
    BY <1>1, <1>4, <2>1, <2>2, LatestNone, LatestIs
  <2>4. latest[1] \in Nat
    BY <2>2, <2>3 DEF Version
  <2>5. D[p].act = TRUE /\ D[p].ver = <<latest[1], 0>>
    BY <1>2, <1>4 DEF Decision
  <2>6. D[p].ver \in Version /\ D[p].ver[1] = latest[1] /\ D[p].ver[2] = 0
    BY <2>4, <2>5 DEF Version
  <2>7. latest \in Selection(tags[p], p)
    BY <2>1, <2>3
  <2> QED BY <1>4, <2>5, <2>6, <2>7
<1> QED BY <1>3, <1>4

\* What holds of the steps that are still to be taken: they are well formed, they can
\* be taken, and no two change the same tags.
Apart(todo) == \A s, t \in todo : s # t => Touched(s) \cap Touched(t) = {}
PlanOK(c, todo) ==
    /\ \A step \in todo : StepOK(step) /\ Ready(c[step.repo], todo, step)
    /\ Apart(todo)

\* Two steps that touch one tag are of one package and kind, or one is a yank.
LEMMA TouchedIs ==
    ASSUME NEW s, NEW t, Touched(s) \cap Touched(t) # {}
    PROVE  /\ s.pkg = t.pkg /\ (s.kind = t.kind \/ s.kind = "yank" \/ t.kind = "yank")
           /\ s.kind \in {"promote", "marker", "trigger", "yank"}
           /\ t.kind \in {"promote", "marker", "trigger", "yank"}
<1>1. \A u : \A x \in Touched(u) :
        /\ u.kind \in {"promote", "marker", "trigger", "yank"} /\ x[1] = u.pkg
        /\ \/ u.kind = "promote" /\ x[2] = "release"
           \/ u.kind = "marker" /\ x[2] = "marker"
           \/ u.kind = "trigger" /\ x[2] = "trigger"
           \/ u.kind = "yank"
  BY DEF Touched
<1> QED BY <1>1

\* Functions from siblings to versions are pins.
LEMMA PinsAre ==
    /\ NoPins \in Pins
    /\ \A S \in SUBSET Siblings : \A f : (\A s \in S : f[s] \in Version)
                                        => [s \in S |-> f[s]] \in Pins
<1>1. \A S \in SUBSET Siblings : \A g : g \in [S -> Version] => g \in Pins
  BY DEF Pins
<1>2. NoPins \in [{} -> Version]
  BY DEF NoPins
<1>3. {} \in SUBSET Siblings
  OBVIOUS
<1>4. NoPins \in Pins
  BY <1>1, <1>2, <1>3
<1>5. ASSUME NEW S \in SUBSET Siblings, NEW f, \A s \in S : f[s] \in Version
      PROVE  [s \in S |-> f[s]] \in Pins
  <2>1. [s \in S |-> f[s]] \in [S -> Version]
    BY <1>5
  <2> QED BY <1>1, <2>1
<1> QED BY <1>4, <1>5

\* A package that acts has a version, of its flavor; `prod` finalizes a candidate.
LEMMA DecidedIs ==
    ASSUME NEW c, LocalOK(c), NEW flavor \in Flavors, NEW D, D = Decided(c, flavor)
    PROVE  \A p \in Pkgs :
             /\ D[p].act \in BOOLEAN
             /\ D[p].act \/ D[p].ver # None => D[p].ver \in Version
             /\ flavor = "prod" /\ D[p].act =>
                  \E v \in Selection(c[Repo(p)].tags, p) :
                    /\ ~IsFinal(v) /\ v[1] = D[p].ver[1] /\ D[p].ver[2] = 0
                    /\ v = Latest(Selection(c[Repo(p)].tags, p))
<1>1. PICK tags : tags = Tags(c)
  OBVIOUS
<1>2. \A p \in Pkgs : tags[p] = c[Repo(p)].tags
  BY <1>1, TagsIs
<1>3. CASE flavor = "pre"
  <2>1. D = DecidePre(Heads(c), tags)
    BY <1>1, <1>3 DEF Decided
  <2>2. \A p \in Pkgs : D[p].act \in BOOLEAN /\ D[p].ver \in Version
    BY <1>1, <2>1, DecidePreIs
  <2> QED BY <1>3, <2>2
<1>4. CASE flavor = "prod"
  <2>1. D = DecideProd(tags)
    BY <1>1, <1>4 DEF Decided
  <2>2. ASSUME NEW p \in Pkgs
        PROVE  /\ D[p].act \in BOOLEAN
               /\ ~D[p].act => D[p].ver = None
               /\ D[p].act =>
                    /\ D[p].ver \in Version
                    /\ \E v \in Selection(tags[p], p) :
                         /\ ~IsFinal(v) /\ v[1] = D[p].ver[1] /\ D[p].ver[2] = 0
                         /\ v = Latest(Selection(tags[p], p))
    BY <1>1, <2>1, DecideProdIs
  <2> QED BY <1>2, <2>2
<1> QED BY <1>3, <1>4 DEF Flavors

\* The steps of `pre` and `prod`, kind by kind.
LEMMA PromoteStepsAre ==
    ASSUME NEW flavor, NEW publish, NEW D,
           NEW todo, todo = PromoteSteps(flavor, publish, D), NEW step \in todo
    PROVE  \E p \in Pkgs :
             /\ D[p].act
             /\ \/ step = PromoteStep(p, flavor, D)
                \/ step \in Epilogue(p, flavor, D)
                \/ step = Step("marker", p, D[p].ver, flavor)
                \/ step = TriggerStep(p, D[p].ver, flavor, FALSE)
  BY DEF PromoteSteps

\* The epilogue edits main, with well-formed pins.
LEMMA EpilogueIs ==
    ASSUME NEW flavor \in Flavors, NEW D, NEW p \in Pkgs, NEW step \in Epilogue(p, flavor, D),
           \A q \in Pkgs : D[q].act \/ D[q].ver # None => D[q].ver \in Version
    PROVE  /\ step.kind = "edit" /\ step.pkg = p /\ step.repo = Repo(p)
           /\ step.pins \in Pins /\ step.tests \in Pins
<1>1. PICK shown : shown = IF flavor = "pre" THEN {s \in Siblings : D[s].ver # None}
                           ELSE {s \in Siblings : D[s].act}
  OBVIOUS
<1>2. shown \subseteq Siblings /\ \A s \in shown : D[s].ver \in Version
  BY <1>1 DEF Pkgs
<1>3. PICK vers : vers = [q \in Pkgs |-> D[q].ver]
  OBVIOUS
<1>4. CASE p = Core
  <2>1. step = Edit(p, [s \in shown |-> D[s].ver], NoPins)
    BY <1>1, <1>4 DEF Epilogue
  <2>2. [s \in shown |-> D[s].ver] = [s \in shown |-> vers[s]]
    BY <1>2, <1>3 DEF Pkgs
  <2>3. \A s \in shown : vers[s] \in Version
    BY <1>2, <1>3 DEF Pkgs
  <2>4. [s \in shown |-> D[s].ver] \in Pins
    BY <1>2, <2>2, <2>3, PinsAre
  <2> QED BY <2>1, <2>4, PinsAre DEF Edit
<1>5. CASE p # Core
  <2>1. D[Core].ver # None /\ step = Edit(p, NoPins, [s \in {p} |-> D[Core].ver])
    BY <1>5 DEF Epilogue
  <2>2. p \in Siblings /\ D[Core].ver \in Version
    BY <1>5, <2>1 DEF Pkgs
  <2>3. [s \in {p} |-> D[Core].ver] \in [{p} -> Version]
    BY <2>2
  <2>4. [s \in {p} |-> D[Core].ver] \in Pins
    BY <2>2, <2>3 DEF Pins
  <2> QED BY <2>1, <2>4, PinsAre DEF Edit
<1> QED BY <1>4, <1>5

\* The pins of a release commit are well formed.
LEMMA ForwardPinsAre ==
    ASSUME NEW D, NEW p \in Pkgs,
           \A q \in Pkgs : D[q].act \/ D[q].ver # None => D[q].ver \in Version
    PROVE  ForwardPins(p, D) \in Pins
<1>1. CASE p # Core
  BY <1>1, PinsAre DEF ForwardPins
<1>2. CASE p = Core
  <2>1. PICK S : S = {t \in Siblings : D[t].ver # None}
    OBVIOUS
  <2>2. PICK vers : vers = [q \in Pkgs |-> D[q].ver]
    OBVIOUS
  <2>3. S \in SUBSET Siblings /\ \A s \in S : vers[s] \in Version /\ vers[s] = D[s].ver
    BY <2>1, <2>2 DEF Pkgs
  <2>4. ForwardPins(p, D) = [s \in S |-> vers[s]]
    BY <1>2, <2>1, <2>3 DEF ForwardPins
  <2> QED BY <2>3, <2>4, PinsAre
<1> QED BY <1>1, <1>2

\* The plans of `pre` and `prod` can be taken.
LEMMA PromotePlanOK ==
    ASSUME NEW c, LocalOK(c), NEW flavor \in Flavors, NEW publish,
           NEW D, D = Decided(c, flavor), NEW todo, todo = PromoteSteps(flavor, publish, D)
    PROVE  PlanOK(c, todo) /\ \A step \in todo : step.kind # "reset"
<1>1. \A p \in Pkgs :
             /\ D[p].act \in BOOLEAN
             /\ D[p].act \/ D[p].ver # None => D[p].ver \in Version
             /\ flavor = "prod" /\ D[p].act =>
                  \E v \in Selection(c[Repo(p)].tags, p) : ~IsFinal(v) /\ v[1] = D[p].ver[1]
  BY DecidedIs
<1>2. ASSUME NEW step \in todo
      PROVE  \E p \in Pkgs :
                /\ D[p].act /\ D[p].ver \in Version
                /\ \/ step = PromoteStep(p, flavor, D)
                   \/ step \in Epilogue(p, flavor, D)
                   \/ step = Step("marker", p, D[p].ver, flavor)
                   \/ step = TriggerStep(p, D[p].ver, flavor, FALSE)
  <2>1. PICK F : F = PromoteSteps(flavor, publish, D) /\ step \in F
    BY <1>2
  <2>2. PICK p \in Pkgs :
             /\ D[p].act
             /\ \/ step = PromoteStep(p, flavor, D)
                \/ step \in Epilogue(p, flavor, D)
                \/ step = Step("marker", p, D[p].ver, flavor)
                \/ step = TriggerStep(p, D[p].ver, flavor, FALSE)
    BY <2>1, PromoteStepsAre
  <2>3. D[p].ver \in Version
    BY <1>1, <2>2
  <2> QED BY <2>2, <2>3
<1>3. ASSUME NEW p \in Pkgs, NEW step, step = PromoteStep(p, flavor, D)
      PROVE  /\ step.kind = "promote" /\ step.repo = Repo(p) /\ step.pkg = p
             /\ step.flavor = flavor /\ step.ver = D[p].ver
             /\ step.forward_pins \in Pins
  BY <1>1, <1>3, ForwardPinsAre DEF PromoteStep
<1>4. ASSUME NEW p \in Pkgs, NEW step, step = Step("marker", p, D[p].ver, flavor)
      PROVE  /\ step.kind = "marker" /\ step.repo = Repo(p) /\ step.pkg = p
             /\ step.flavor = flavor /\ step.ver = D[p].ver
  BY <1>4 DEF Step
<1>5. ASSUME NEW p \in Pkgs, NEW step, step = TriggerStep(p, D[p].ver, flavor, FALSE)
      PROVE  /\ step.kind = "trigger" /\ step.repo = Repo(p) /\ step.pkg = p
             /\ step.flavor = flavor /\ step.ver = D[p].ver
  BY <1>5 DEF TriggerStep
<1>6. ASSUME NEW p \in Pkgs, NEW step \in Epilogue(p, flavor, D)
      PROVE  /\ step.kind = "edit" /\ step.repo = Repo(p) /\ step.pkg = p
             /\ step.pins \in Pins /\ step.tests \in Pins
  BY <1>1, <1>6, EpilogueIs
<1>7. ASSUME NEW step \in todo
      PROVE  /\ StepOK(step) /\ step.kind # "reset"
             /\ Ready(c[step.repo], todo, step)
  <2>1. PICK p \in Pkgs :
                /\ D[p].act /\ D[p].ver \in Version
                /\ \/ step = PromoteStep(p, flavor, D)
                   \/ step \in Epilogue(p, flavor, D)
                   \/ step = Step("marker", p, D[p].ver, flavor)
                   \/ step = TriggerStep(p, D[p].ver, flavor, FALSE)
    BY <1>2
  <2>2. Repo(p) \in Repos
    BY PkgsFinite
  <2>3. CASE step = PromoteStep(p, flavor, D)
    <3>1. /\ step.kind = "promote" /\ step.repo = Repo(p) /\ step.pkg = p
          /\ step.flavor = flavor /\ step.ver = D[p].ver /\ step.forward_pins \in Pins
      BY <1>3, <2>3
    <3>2. StepOK(step)
      BY <2>1, <2>2, <3>1 DEF StepOK, Phase
    <3>3. flavor = "prod" => Rcs(c[step.repo], step) # {}
      BY <1>1, <2>1, <3>1 DEF Rcs
    <3> QED BY <3>1, <3>2, <3>3 DEF Ready
  <2>4. CASE step \in Epilogue(p, flavor, D)
    <3>1. /\ step.kind = "edit" /\ step.repo = Repo(p) /\ step.pkg = p
          /\ step.pins \in Pins /\ step.tests \in Pins
      BY <1>6, <2>4
    <3> QED BY <2>1, <2>2, <3>1 DEF StepOK, Phase, Ready
  <2>5. CASE step = Step("marker", p, D[p].ver, flavor)
    <3>1. /\ step.kind = "marker" /\ step.repo = Repo(p) /\ step.pkg = p
          /\ step.flavor = flavor /\ step.ver = D[p].ver
      BY <1>4, <2>5
    <3> QED BY <2>1, <2>2, <3>1 DEF StepOK, Phase, Ready
  <2>6. CASE step = TriggerStep(p, D[p].ver, flavor, FALSE)
    <3>1. /\ step.kind = "trigger" /\ step.repo = Repo(p) /\ step.pkg = p
          /\ step.flavor = flavor /\ step.ver = D[p].ver
      BY <1>5, <2>6
    <3>2. PICK other : other = PromoteStep(p, flavor, D)
      OBVIOUS
    <3>3. other.kind = "promote" /\ other.pkg = p /\ other.ver = D[p].ver
      BY <1>3, <3>2
    <3>4. other \in todo
      BY <2>1, <3>2 DEF PromoteSteps
    <3>5. ReleaseName(other) = ReleaseName(step)
      BY <3>1, <3>3 DEF ReleaseName
    <3> QED BY <2>1, <2>2, <3>1, <3>3, <3>4, <3>5 DEF StepOK, Phase, Ready
  <2> QED BY <2>1, <2>3, <2>4, <2>5, <2>6
<1>8. ASSUME NEW s \in todo, NEW t \in todo, s # t PROVE Touched(s) \cap Touched(t) = {}
  <2>1. ASSUME NEW step \in todo, step.kind \in {"promote", "marker", "trigger", "yank"}
        PROVE  \/ step.kind = "promote" /\ step = PromoteStep(step.pkg, flavor, D)
               \/ step.kind = "marker" /\ step = Step("marker", step.pkg, D[step.pkg].ver, flavor)
               \/ /\ step.kind = "trigger"
                  /\ step = TriggerStep(step.pkg, D[step.pkg].ver, flavor, FALSE)
    <3>1. PICK p \in Pkgs :
                 \/ step = PromoteStep(p, flavor, D)
                 \/ step \in Epilogue(p, flavor, D)
                 \/ step = Step("marker", p, D[p].ver, flavor)
                 \/ step = TriggerStep(p, D[p].ver, flavor, FALSE)
      BY <1>2
    <3>2. CASE step = PromoteStep(p, flavor, D)
      BY <1>3, <3>2
    <3>3. CASE step \in Epilogue(p, flavor, D)
      BY <1>6, <2>1, <3>3
    <3>4. CASE step = Step("marker", p, D[p].ver, flavor)
      BY <1>4, <3>4
    <3>5. CASE step = TriggerStep(p, D[p].ver, flavor, FALSE)
      BY <1>5, <3>5
    <3> QED BY <3>1, <3>2, <3>3, <3>4, <3>5
  <2>2. SUFFICES ASSUME Touched(s) \cap Touched(t) # {} PROVE FALSE
    OBVIOUS
  <2>3. /\ s.pkg = t.pkg /\ (s.kind = t.kind \/ s.kind = "yank" \/ t.kind = "yank")
        /\ s.kind \in {"promote", "marker", "trigger", "yank"}
        /\ t.kind \in {"promote", "marker", "trigger", "yank"}
    BY <2>2, TouchedIs
  <2>4. s.kind # "yank" /\ t.kind # "yank"
    BY <2>1, <2>3
  <2>5. s = t
    <3>1. CASE s.kind = "promote"
      BY <2>1, <2>3, <2>4, <3>1
    <3>2. CASE s.kind = "marker"
      BY <2>1, <2>3, <2>4, <3>2
    <3>3. CASE s.kind = "trigger"
      BY <2>1, <2>3, <2>4, <3>3
    <3> QED BY <2>3, <2>4, <3>1, <3>2, <3>3
  <2> QED BY <1>8, <2>5
<1> QED BY <1>7, <1>8 DEF PlanOK, Apart

LatestOf(tags, p, flavor) == Latest(OfFlavor(Selection(tags[p], p), flavor))
\* `--publish-only` is for latest releases that have no trigger.
LEMMA TriggerStepsAre ==
    ASSUME NEW c, LocalOK(c), NEW tags, tags = Tags(c), NEW flavor \in Flavors,
           NEW todo, todo = TriggerSteps(tags, flavor), NEW step \in todo
    PROVE  \E p \in Pkgs :
             /\ step = TriggerStep(p, LatestOf(tags, p, flavor), flavor, TRUE)
             /\ LatestOf(tags, p, flavor) \in Selection(tags[p], p)
             /\ FlavorOf(LatestOf(tags, p, flavor)) = flavor
<1>1. PICK p \in Pkgs :
        /\ Latest(OfFlavor(Selection(tags[p], p), flavor)) # None
        /\ step = TriggerStep(p, Latest(OfFlavor(Selection(tags[p], p), flavor)), flavor, TRUE)
  BY DEF TriggerSteps
<1>2. PICK S, t : S = Selection(t, p) /\ t = tags[p]
  OBVIOUS
<1>3. S \subseteq Version /\ IsFiniteSet(S)
  <2>1. TagsOK(t, Repo(p)) /\ p \in PkgsIn(Repo(p))
    BY <1>2, TagsIs
  <2> QED BY <1>2, <2>1, SelectionIs
<1>4. PICK F : F = OfFlavor(S, flavor)
  OBVIOUS
<1>5. /\ F \subseteq S /\ IsFiniteSet(F) /\ F \subseteq Version
      /\ \A v \in S : v \in F <=> FlavorOf(v) = flavor
  BY <1>3, <1>4, OfFlavorIs
<1>6. Latest(F) \in F
  BY <1>1, <1>2, <1>4, <1>5, LatestNone, LatestIs
<1>7. PICK v : v = Latest(F)
  OBVIOUS
<1>8. v \in Selection(tags[p], p) /\ FlavorOf(v) = flavor
  BY <1>2, <1>5, <1>6, <1>7
<1> QED BY <1>1, <1>2, <1>4, <1>7, <1>8 DEF LatestOf

\* The plan of `--publish-only` can be taken.
LEMMA TriggerPlanOK ==
    ASSUME NEW c, LocalOK(c), NEW flavor \in Flavors,
           NEW todo, todo = TriggerSteps(Tags(c), flavor)
    PROVE  PlanOK(c, todo) /\ \A step \in todo : step.kind = "trigger"
<1>1. PICK tags : tags = Tags(c)
  OBVIOUS
<1>2. ASSUME NEW step \in todo
      PROVE  \E p \in Pkgs :
               /\ step = TriggerStep(p, LatestOf(tags, p, flavor), flavor, TRUE)
               /\ LatestOf(tags, p, flavor) \in Selection(tags[p], p)
  <2>1. todo = TriggerSteps(tags, flavor)
    BY <1>1
  <2> QED BY <1>1, <1>2, <2>1, TriggerStepsAre
<1>3. ASSUME NEW step \in todo
      PROVE  /\ step.kind = "trigger" /\ StepOK(step) /\ Ready(c[step.repo], todo, step)
             /\ step = TriggerStep(step.pkg, LatestOf(tags, step.pkg, flavor), flavor, TRUE)
  <2>1. PICK p \in Pkgs :
               /\ step = TriggerStep(p, LatestOf(tags, p, flavor), flavor, TRUE)
               /\ LatestOf(tags, p, flavor) \in Selection(tags[p], p)
    BY <1>2
  <2>2. PICK v : v = LatestOf(tags, p, flavor)
    OBVIOUS
  <2>3. /\ step.kind = "trigger" /\ step.repo = Repo(p) /\ step.pkg = p /\ step.ver = v
        /\ step.flavor = flavor
    BY <2>1, <2>2 DEF TriggerStep
  <2>4. PICK t : t = tags[p]
    OBVIOUS
  <2>5. t = c[Repo(p)].tags /\ TagsOK(t, Repo(p)) /\ p \in PkgsIn(Repo(p)) /\ Repo(p) \in Repos
    BY <1>1, <2>4, TagsIs, PkgsFinite
  <2>6. TagName(p, v, "release") \in DOMAIN t /\ v \in Version
    BY <2>1, <2>2, <2>4, <2>5, SelectionIs
  <2>7. StepOK(step)
    BY <2>3, <2>5, <2>6 DEF StepOK, Phase
  <2>8. Ready(c[step.repo], todo, step)
    BY <2>3, <2>5, <2>6 DEF Ready, ReleaseName
  <2> QED BY <2>1, <2>3, <2>7, <2>8
<1>4. Apart(todo)
  <2> SUFFICES ASSUME NEW s \in todo, NEW t \in todo, Touched(s) \cap Touched(t) # {}
               PROVE  s = t
    BY DEF Apart
  <2>1. s.pkg = t.pkg
    BY TouchedIs
  <2> QED BY <1>3, <2>1
<1> QED BY <1>3, <1>4 DEF PlanOK

\* Yank: what is yanked is the latest release, and what is rolled back to stays.
LEMMA YankStepsAre ==
    ASSUME NEW c, LocalOK(c), NEW tags, tags = Tags(c), NEW p \in Pkgs,
           NEW todo, todo = YankSteps(tags, p), NEW step \in todo
    PROVE  LET S == Selection(tags[p], p)
               v == Latest(S)
               prev == Latest(OfFlavor(S \ {v}, FlavorOf(v)))
           IN  /\ v \in S
               /\ \/ step = Step("yank", p, v, FlavorOf(v))
                  \/ step.kind = "edit" /\ step.pkg = Core /\ StepOK(step)
                  \/ step = Step("rollback", p, prev, FlavorOf(v)) /\ prev \in S \ {v}
               /\ Step("yank", p, v, FlavorOf(v)) \in todo
               /\ prev # None => Step("rollback", p, prev, FlavorOf(v)) \in todo
<1>1. PICK t : t = tags[p]
  OBVIOUS
<1>2. PICK S : S = Selection(t, p)
  OBVIOUS
<1>3. PICK v : v = Latest(S)
  OBVIOUS
<1>4. PICK prev : prev = Latest(OfFlavor(S \ {v}, FlavorOf(v)))
  OBVIOUS
<1>5. PICK Rest : Rest = [q \in Pkgs |-> Selection(tags[q], q) \ (IF q = p THEN {v} ELSE {})]
  OBVIOUS
<1>6. Rest[p] = S \ {v}
  BY <1>1, <1>2, <1>5
<1>7. PICK pinned : pinned = IF p = Core THEN Siblings ELSE {p}
  OBVIOUS
<1>8. v # None
  BY <1>1, <1>2, <1>3 DEF YankSteps
<1>9. \/ step = Step("yank", p, v, FlavorOf(v))
      \/ step = Edit(Core, [s \in pinned |-> Floor(Rest[s])], NoPins)
      \/ prev # None /\ step = Step("rollback", p, prev, FlavorOf(v))
  <2>1. pinned \subseteq Pkgs
    BY <1>7 DEF Pkgs
  <2>2. \/ step = Step("yank", p, v, FlavorOf(v))
        \/ step = Edit(Core, [s \in pinned |->
                    Floor(Selection(tags[s], s) \ (IF s = p THEN {v} ELSE {}))], NoPins)
        \/ prev # None /\ step = Step("rollback", p, prev, FlavorOf(v))
    BY <1>1, <1>2, <1>3, <1>4, <1>7, <1>8 DEF YankSteps
  <2>3. [s \in pinned |-> Floor(Selection(tags[s], s) \ (IF s = p THEN {v} ELSE {}))]
            = [s \in pinned |-> Floor(Rest[s])]
    BY <1>5, <2>1
  <2> QED BY <2>2, <2>3
<1>10. \A q \in Pkgs : /\ Selection(tags[q], q) \subseteq Version
                       /\ IsFiniteSet(Selection(tags[q], q))
  <2> SUFFICES ASSUME NEW q \in Pkgs, NEW u, u = tags[q]
               PROVE  Selection(u, q) \subseteq Version /\ IsFiniteSet(Selection(u, q))
    OBVIOUS
  <2>1. TagsOK(u, Repo(q)) /\ q \in PkgsIn(Repo(q))
    BY TagsIs
  <2> QED BY <2>1, SelectionIs
<1>11. S \subseteq Version /\ IsFiniteSet(S)
  BY <1>1, <1>2, <1>10
<1>12. v \in S
  BY <1>3, <1>8, <1>11, LatestNone, LatestIs
<1>13. ASSUME prev # None PROVE prev \in S \ {v}
  <2>1. PICK T : T = S \ {v}
    OBVIOUS
  <2>2. T \subseteq Version /\ IsFiniteSet(T)
    BY <1>11, <2>1, FS_Subset
  <2>3. PICK F : F = OfFlavor(T, FlavorOf(v))
    OBVIOUS
  <2>4. F \subseteq T /\ IsFiniteSet(F) /\ F \subseteq Version
    BY <2>2, <2>3, OfFlavorIs
  <2>5. Latest(F) \in F
    BY <1>4, <1>13, <2>1, <2>3, <2>4, LatestNone, LatestIs
  <2> QED BY <1>4, <2>1, <2>3, <2>4, <2>5
<1>14. ASSUME step = Edit(Core, [s \in pinned |-> Floor(Rest[s])], NoPins)
       PROVE  step.kind = "edit" /\ step.pkg = Core /\ StepOK(step)
  <2>1. PICK floor : floor = [s \in Pkgs |-> Floor(Rest[s])]
    OBVIOUS
  <2>2. ASSUME NEW s \in Pkgs PROVE floor[s] \in Version
    <3>1. PICK T : T = Rest[s]
      OBVIOUS
    <3>2. T \subseteq Selection(tags[s], s)
      BY <1>5, <3>1
    <3>3. T \subseteq Version /\ IsFiniteSet(T)
      BY <1>10, <3>2, FS_Subset
    <3>4. floor[s] = Floor(T)
      BY <2>1, <3>1
    <3>5. CASE T = {}
      BY <3>4, <3>5 DEF Floor, Version
    <3>6. CASE T # {}
      <4>1. Latest(T) \in T
        BY <3>3, <3>6, LatestIs
      <4> QED BY <3>3, <3>4, <3>6, <4>1 DEF Floor
    <3> QED BY <3>5, <3>6
  <2>3. pinned \in SUBSET Siblings
    BY <1>7 DEF Pkgs
  <2>4. [s \in pinned |-> Floor(Rest[s])] = [s \in pinned |-> floor[s]]
    BY <2>1, <2>3 DEF Pkgs
  <2>5. [s \in pinned |-> floor[s]] \in Pins
    <3>1. \A s \in pinned : floor[s] \in Version
      BY <2>2, <2>3 DEF Pkgs
    <3> QED BY <2>3, <3>1, PinsAre
  <2>6. /\ step.kind = "edit" /\ step.repo = Repo(Core) /\ step.pkg = Core
        /\ step.pins \in Pins /\ step.tests \in Pins
    BY <1>14, <2>4, <2>5, PinsAre DEF Edit
  <2>7. Core \in Pkgs /\ Repo(Core) \in Repos
    BY PkgsFinite DEF Pkgs
  <2> QED BY <2>6, <2>7 DEF StepOK, Phase
<1>15. /\ Step("yank", p, v, FlavorOf(v)) \in todo
       /\ prev # None => Step("rollback", p, prev, FlavorOf(v)) \in todo
  BY <1>1, <1>2, <1>3, <1>4, <1>8 DEF YankSteps
<1> QED BY <1>1, <1>2, <1>3, <1>4, <1>9, <1>12, <1>13, <1>14, <1>15

\* The plan of `yank` can be taken.
LEMMA YankPlanOK ==
    ASSUME NEW c, LocalOK(c), NEW p \in Pkgs, NEW todo, todo = YankSteps(Tags(c), p)
    PROVE  PlanOK(c, todo) /\ \A step \in todo : step.kind # "reset"
<1>1. PICK tags : tags = Tags(c)
  OBVIOUS
<1>2. PICK t : t = tags[p]
  OBVIOUS
<1>3. PICK S : S = Selection(t, p)
  OBVIOUS
<1>4. PICK v : v = Latest(S)
  OBVIOUS
<1>5. PICK prev : prev = Latest(OfFlavor(S \ {v}, FlavorOf(v)))
  OBVIOUS
<1>6. ASSUME NEW step \in todo
      PROVE  /\ v \in S
             /\ \/ step = Step("yank", p, v, FlavorOf(v))
                \/ step.kind = "edit" /\ step.pkg = Core /\ StepOK(step)
                \/ step = Step("rollback", p, prev, FlavorOf(v)) /\ prev \in S \ {v}
             /\ Step("yank", p, v, FlavorOf(v)) \in todo
             /\ prev # None => Step("rollback", p, prev, FlavorOf(v)) \in todo
  BY <1>1, <1>2, <1>3, <1>4, <1>5, YankStepsAre
<1>7. /\ t = c[Repo(p)].tags /\ TagsOK(t, Repo(p)) /\ p \in PkgsIn(Repo(p)) /\ Repo(p) \in Repos
  BY <1>1, <1>2, TagsIs, PkgsFinite
<1>8. /\ S \subseteq Version
      /\ \A w \in S : TagName(p, w, "release") \in DOMAIN t
  BY <1>3, <1>7, SelectionIs
<1>9. ASSUME NEW step, step = Step("yank", p, v, FlavorOf(v))
      PROVE  /\ step.kind = "yank" /\ step.repo = Repo(p) /\ step.pkg = p
             /\ step.ver = v /\ step.flavor \in Flavors
  BY <1>9 DEF Step, FlavorOf, Flavors
<1>10. ASSUME NEW step, step = Step("rollback", p, prev, FlavorOf(v))
       PROVE  /\ step.kind = "rollback" /\ step.repo = Repo(p) /\ step.pkg = p
              /\ step.ver = prev /\ step.flavor \in Flavors
  BY <1>10 DEF Step, FlavorOf, Flavors
<1>11. ASSUME NEW step \in todo
       PROVE  StepOK(step) /\ step.kind # "reset" /\ Ready(c[step.repo], todo, step)
  <2>1. CASE step = Step("yank", p, v, FlavorOf(v))
    <3>1. /\ step.kind = "yank" /\ step.repo = Repo(p) /\ step.pkg = p
          /\ step.ver = v /\ step.flavor \in Flavors
      BY <1>9, <2>1
    <3>2. v \in Version /\ ReleaseName(step) \in DOMAIN t
      BY <1>6, <1>8, <3>1 DEF ReleaseName
    <3>3. StepOK(step)
      BY <1>7, <3>1, <3>2 DEF StepOK, Phase
    <3>4. Ready(c[step.repo], todo, step)
      BY <1>7, <3>1, <3>2 DEF Ready
    <3> QED BY <3>1, <3>3, <3>4
  <2>2. CASE step.kind = "edit" /\ StepOK(step)
    BY <2>2 DEF Ready
  <2>3. CASE step = Step("rollback", p, prev, FlavorOf(v)) /\ prev \in S \ {v}
    <3>1. /\ step.kind = "rollback" /\ step.repo = Repo(p) /\ step.pkg = p
          /\ step.ver = prev /\ step.flavor \in Flavors
      BY <1>10, <2>3
    <3>2. prev \in Version /\ ReleaseName(step) \in DOMAIN t
      BY <1>8, <2>3, <3>1 DEF ReleaseName
    <3>3. ASSUME NEW other \in todo, other.kind = "yank"
          PROVE  ReleaseName(other) # ReleaseName(step)
      <4>1. other = Step("yank", p, v, FlavorOf(v))
        BY <1>6, <1>10, <3>3
      <4>2. other.ver = v
        BY <1>9, <4>1
      <4> QED BY <2>3, <3>1, <4>2 DEF ReleaseName, TagName
    <3>4. StepOK(step)
      BY <1>7, <3>1, <3>2 DEF StepOK, Phase
    <3>5. Ready(c[step.repo], todo, step)
      BY <1>7, <3>1, <3>2, <3>3 DEF Ready
    <3> QED BY <3>1, <3>4, <3>5
  <2> QED BY <1>6, <2>1, <2>2, <2>3
<1>12. Apart(todo)
  <2> SUFFICES ASSUME NEW s \in todo, NEW u \in todo, Touched(s) \cap Touched(u) # {}
               PROVE  s = u
    BY DEF Apart
  <2>1. /\ s.kind \in {"promote", "marker", "trigger", "yank"}
        /\ u.kind \in {"promote", "marker", "trigger", "yank"}
    BY TouchedIs
  <2>2. s = Step("yank", p, v, FlavorOf(v)) /\ u = Step("yank", p, v, FlavorOf(v))
    BY <1>6, <1>10, <2>1
  <2> QED BY <2>2
<1> QED BY <1>11, <1>12 DEF PlanOK

\* The plan of `resync` can be taken.
LEMMA ResetPlanOK ==
    ASSUME NEW c
    PROVE  PlanOK(c, ResetSteps) /\ \A step \in ResetSteps : step.kind = "reset"
<1>1. \A step \in ResetSteps : step.kind = "reset" /\ step.repo \in Repos
  BY DEF ResetSteps
<1>2. \A step \in ResetSteps : StepOK(step) /\ Touched(step) = {}
  BY <1>1 DEF StepOK, Phase, Touched
<1>3. \A step \in ResetSteps : Ready(c[step.repo], ResetSteps, step)
  BY <1>1 DEF Ready
<1> QED BY <1>1, <1>2, <1>3 DEF PlanOK, Apart

\* Every plan can be taken.
LEMMA StepsOK ==
    ASSUME NEW c, LocalOK(c), NEW cmd \in Commands, NEW todo, todo = Steps(c, cmd)
    PROVE  /\ PlanOK(c, todo)
           /\ \A step \in todo : step.kind = "reset" <=> cmd.name = "resync"
<1>1. CASE cmd \in [name : Flavors, publish : BOOLEAN]
  <2>1. PICK flavor, publish : flavor = cmd.name /\ publish = cmd.publish /\ flavor \in Flavors
    BY <1>1
  <2>2. PICK D : D = Decided(c, flavor)
    OBVIOUS
  <2>3. todo = PromoteSteps(flavor, publish, D)
    BY <2>1, <2>2 DEF Steps, Flavors
  <2>4. PlanOK(c, todo) /\ \A step \in todo : step.kind # "reset"
    BY <2>1, <2>2, <2>3, PromotePlanOK
  <2>5. cmd.name # "resync"
    BY <2>1 DEF Flavors
  <2> QED BY <2>4, <2>5
<1>2. CASE cmd \in [name : {"publish"}, flavor : Flavors]
  <2>1. cmd.name = "publish" /\ cmd.flavor \in Flavors
    BY <1>2
  <2>2. todo = TriggerSteps(Tags(c), cmd.flavor)
    BY <2>1 DEF Steps, Flavors
  <2> QED BY <2>1, <2>2, TriggerPlanOK
<1>3. CASE cmd \in [name : {"yank"}, pkg : Pkgs]
  <2>1. cmd.name = "yank" /\ cmd.pkg \in Pkgs
    BY <1>3
  <2>2. todo = YankSteps(Tags(c), cmd.pkg)
    BY <2>1 DEF Steps, Flavors
  <2> QED BY <2>1, <2>2, YankPlanOK
<1>4. CASE cmd \in [name : {"resync"}]
  <2>1. cmd.name = "resync"
    BY <1>4
  <2>2. todo = ResetSteps
    BY <2>1 DEF Steps, Flavors
  <2> QED BY <2>1, <2>2, ResetPlanOK
<1> QED BY <1>1, <1>2, <1>3, <1>4 DEF Commands

-----------------------------------------------------------------------------
(* Runs: what remains to be taken and to be pushed *)

RunShape(rn) ==
    /\ rn = [cmd |-> rn.cmd, planned |-> rn.planned, todo |-> rn.todo, refs |-> rn.refs,
             isolated |-> rn.isolated, first |-> rn.first]
    /\ rn.cmd \in Commands /\ rn.planned \in BOOLEAN
    /\ rn.refs = [r \in Repos |-> rn.refs[r]]
    /\ ~rn.planned => rn.todo = {} /\ rn.refs = NoRefs /\ rn.isolated = {}
    /\ \A step \in rn.todo : step.kind = "reset" <=> rn.cmd.name = "resync"
    /\ rn.cmd.name = "resync" => rn.refs = NoRefs /\ rn.isolated = {}
    /\ \A f \in rn.isolated : /\ f.op \in {"tag", "delete"} /\ f.name.kind = "trigger"
                              /\ f.name.pkg \in Pkgs

\* What is still to be pushed to a repository.
Pending(rn, r) == rn.refs[r] \cup {f \in rn.isolated : Repo(f.name.pkg) = r}
TagsOf(refs) == Named(refs, "tag") \cup Named(refs, "delete")

\* A tag that is to be pushed is there, and no step to come changes it.
RefsOK(rn, c) ==
    \A r \in Repos :
        /\ Named(Pending(rn, r), "tag") \subseteq DOMAIN c[r].tags
        /\ \A n \in TagsOf(Pending(rn, r)) :
            /\ n \in TagNames(r)
            /\ \A step \in rn.todo : <<n.pkg, n.kind>> \notin Touched(step)

RunOK(rn, c) == RunShape(rn) /\ PlanOK(c, rn.todo) /\ RefsOK(rn, c)

\* What is pushed by itself is of triggers.
LEMMA BundledFree ==
    ASSUME NEW c, NEW step
    PROVE  \A f \in Isolated(c, step) :
             f.op \in {"tag", "delete"} /\ f.name.kind = "trigger" /\ f.name.pkg = step.pkg
<1>1. CASE step.kind = "trigger"
  <2>1. Isolated(c, step) = Deletions(StaleTriggers(c, step)) \cup {Ref("tag", Trigger(step))}
    BY <1>1 DEF Isolated
  <2>2. \A n \in StaleTriggers(c, step) : n.kind = "trigger" /\ n.pkg = step.pkg
    BY DEF StaleTriggers, OfKind
  <2>3. Trigger(step).kind = "trigger" /\ Trigger(step).pkg = step.pkg
    BY NameFields
  <2> QED BY <2>1, <2>2, <2>3 DEF Deletions, Ref
<1>2. CASE step.kind # "trigger"
  BY <1>2 DEF Isolated
<1> QED BY <1>1, <1>2

\* A step to come can be taken, whatever it is.
LEMMA UpcomingStands ==
    ASSUME NEW c, NEW todo, PlanOK(c, todo), NEW step \in Upcoming(todo)
    PROVE  /\ step \in todo /\ StepOK(step) /\ Stands(c[step.repo], step)
           /\ \A other \in todo : ~Earlier(other, step)
<1>1. step \in todo /\ \A other \in todo : ~Earlier(other, step)
  BY DEF Upcoming
<1>2. StepOK(step) /\ Ready(c[step.repo], todo, step)
  BY <1>1 DEF PlanOK
<1>3. ASSUME step.kind = "trigger", NEW other \in todo, other.kind = "promote" PROVE FALSE
  <2>1. Phase[other.kind] < Phase[step.kind]
    BY <1>3 DEF Phase
  <2> QED BY <1>1, <2>1 DEF Earlier
<1>4. Stands(c[step.repo], step)
  BY <1>2, <1>3 DEF Ready, Stands
<1> QED BY <1>1, <1>2, <1>4

\* Only a yank takes a release away.
LEMMA ReleasesStay ==
    ASSUME NEW c, NEW d, NEW step, StepOK(step), TagsAfter(c, d, Left(c, step)),
           NEW n \in DOMAIN c.tags, n.kind = "release", n \notin DOMAIN d.tags
    PROVE  step.kind = "yank" /\ n = ReleaseName(step)
<1>1. n \in Named(Left(c, step), "delete")
  BY DEF TagsAfter
<1>2. step.kind \in {"promote", "edit", "reset", "marker", "trigger", "yank", "rollback"}
  BY DEF StepOK, Phase
<1>3. step.kind \notin {"promote", "edit", "reset", "rollback"}
  BY <1>1, LeftIs
<1>4. step.kind # "marker"
  <2>1. step.kind = "marker" => n \in StaleMarkers(c, step)
    BY <1>1, LeftIs
  <2> QED BY <2>1 DEF StaleMarkers, OfKind
<1>5. step.kind # "trigger"
  <2>1. step.kind = "trigger" => n \in StaleTriggers(c, step)
    BY <1>1, LeftIs
  <2> QED BY <2>1 DEF StaleTriggers, OfKind
<1>6. step.kind = "yank"
  BY <1>2, <1>3, <1>4, <1>5
<1>7. n \in {ReleaseName(step), Trigger(step)}
  BY <1>1, <1>6, LeftIs
<1>8. Trigger(step).kind = "trigger"
  BY NameFields
<1> QED BY <1>6, <1>7, <1>8

\* The steps that remain can be taken.
LEMMA ReadyStays ==
    ASSUME NEW c, LocalOK(c), NEW todo, PlanOK(c, todo), NEW step \in todo, step.kind # "reset",
           NEW d, CloneOK(d, step.repo), TagsAfter(c[step.repo], d, Left(c[step.repo], step)),
           NEW e, e = [c EXCEPT ![step.repo] = d],
           NEW other \in todo \ {step}, other.kind # "reset"
    PROVE  Ready(e[other.repo], todo \ {step}, other)
<1>1. StepOK(step) /\ StepOK(other) /\ Ready(c[other.repo], todo, other)
  BY DEF PlanOK
<1>2. step.repo \in Repos /\ other.repo \in Repos
  BY <1>1 DEF StepOK
<1>3. /\ step.repo = other.repo => e[other.repo] = d
      /\ step.repo # other.repo => e[other.repo] = c[other.repo]
  BY <1>2 DEF LocalOK
<1>4. Touched(step) \cap Touched(other) = {}
  BY DEF PlanOK, Apart
<1>5. ASSUME NEW n \in DOMAIN c[other.repo].tags, n.kind = "release",
             step.kind = "yank" => n # ReleaseName(step)
      PROVE  n \in DOMAIN e[other.repo].tags
  <2>1. CASE step.repo = other.repo
    BY <1>1, <1>3, <1>5, <2>1, ReleasesStay
  <2>2. CASE step.repo # other.repo
    BY <1>3, <1>5, <2>2
  <2> QED BY <2>1, <2>2
<1>6. ASSUME step.kind = "yank", other.kind \in {"promote", "trigger", "yank"}
      PROVE  step.pkg # other.pkg
  <2>1. \A k \in {"release", "trigger", "yanked"} : <<step.pkg, k>> \in Touched(step)
    BY <1>6 DEF Touched
  <2>2. <<other.pkg, "release">> \in Touched(other) \/ <<other.pkg, "trigger">> \in Touched(other)
    BY <1>6 DEF Touched
  <2> QED BY <1>4, <2>1, <2>2
<1>7. ASSUME NEW v, v \in Selection(c[other.repo].tags, other.pkg), other.kind = "promote"
      PROVE  v \in Selection(e[other.repo].tags, other.pkg)
  <2>1. other.pkg \in Pkgs /\ other.repo = Repo(other.pkg) /\ other.pkg \in PkgsIn(other.repo)
    BY <1>1, <1>7, PkgsFinite DEF StepOK
  <2>2. PICK t, u : t = c[other.repo].tags /\ u = e[other.repo].tags
    OBVIOUS
  <2>3. TagsOK(t, other.repo)
    BY <1>2, <2>2 DEF LocalOK, CloneOK
  <2>4. TagsOK(u, other.repo)
    <3>1. CASE step.repo = other.repo
      BY <1>3, <2>2, <3>1 DEF CloneOK
    <3>2. CASE step.repo # other.repo
      BY <1>3, <2>2, <2>3, <3>2
    <3> QED BY <3>1, <3>2
  <2>5. PICK n : n = TagName(other.pkg, v, "release")
    OBVIOUS
  <2>6. n \in DOMAIN t /\ n.kind = "release" /\ n.pkg = other.pkg
    <3>1. n \in DOMAIN t
      BY <1>7, <2>1, <2>2, <2>3, <2>5, SelectionIs
    <3> QED BY <2>5, <3>1 DEF TagName
  <2>7. step.kind = "yank" => n # ReleaseName(step)
    BY <1>6, <1>7, <2>6, NameFields
  <2>8. n \in DOMAIN u
    BY <1>5, <2>2, <2>6, <2>7
  <2> QED BY <2>1, <2>2, <2>4, <2>5, <2>8, SelectionIs
<1>8. ASSUME other.kind = "promote", other.flavor = "prod"
      PROVE  Rcs(e[other.repo], other) # {}
  <2>1. PICK v \in Selection(c[other.repo].tags, other.pkg) : v[1] = other.ver[1] /\ ~IsFinal(v)
    BY <1>1, <1>8 DEF Ready, Rcs
  <2>2. v \in Selection(e[other.repo].tags, other.pkg)
    BY <1>7, <1>8, <2>1
  <2> QED BY <2>1, <2>2 DEF Rcs
<1>9. ASSUME other.kind \in {"trigger", "yank"}, ReleaseName(other) \in DOMAIN c[other.repo].tags
      PROVE  ReleaseName(other) \in DOMAIN e[other.repo].tags
  <2>1. step.kind = "yank" => ReleaseName(other) # ReleaseName(step)
    BY <1>6, <1>9, NameFields
  <2> QED BY <1>5, <1>9, <2>1, NameFields
<1>10. ASSUME other.kind = "trigger"
       PROVE  \/ ReleaseName(other) \in DOMAIN e[other.repo].tags
              \/ \E o \in todo \ {step} : o.kind = "promote" /\ ReleaseName(o) = ReleaseName(other)
  <2>1. CASE ReleaseName(other) \in DOMAIN c[other.repo].tags
    BY <1>9, <1>10, <2>1
  <2>2. CASE \E o \in todo : o.kind = "promote" /\ ReleaseName(o) = ReleaseName(other)
    <3>1. PICK o \in todo : o.kind = "promote" /\ ReleaseName(o) = ReleaseName(other)
      BY <2>2
    <3>2. CASE o # step
      BY <3>1, <3>2
    <3>3. CASE o = step
      <4>1. step.pkg = other.pkg
        BY <3>1, <3>3, NameFields
      <4>2. step.repo = other.repo
        BY <1>1, <1>10, <3>1, <3>3, <4>1 DEF StepOK
      <4>3. Named(Left(c[step.repo], step), "tag") = {ReleaseName(step)}
        BY <3>1, <3>3, LeftIs
      <4>4. ReleaseName(step) \in DOMAIN d.tags
        BY <4>3 DEF TagsAfter
      <4> QED BY <1>3, <3>1, <3>3, <4>2, <4>4
    <3> QED BY <3>2, <3>3
  <2> QED BY <1>1, <1>10, <2>1, <2>2 DEF Ready
<1>11. ASSUME other.kind = "yank"
       PROVE  ReleaseName(other) \in DOMAIN e[other.repo].tags
  BY <1>1, <1>9, <1>11 DEF Ready
<1>12. ASSUME other.kind = "rollback"
       PROVE  /\ ReleaseName(other) \in DOMAIN e[other.repo].tags
              /\ \A o \in todo \ {step} : o.kind = "yank" => ReleaseName(o) # ReleaseName(other)
  <2>1. /\ ReleaseName(other) \in DOMAIN c[other.repo].tags
        /\ \A o \in todo : o.kind = "yank" => ReleaseName(o) # ReleaseName(other)
    BY <1>1, <1>12 DEF Ready
  <2> QED BY <1>5, <2>1, NameFields
<1> QED BY <1>8, <1>10, <1>11, <1>12 DEF Ready

\* A step adds what it leaves to what is to be pushed.
LEMMA PendingDone ==
    ASSUME NEW rn, RunShape(rn), NEW c, NEW step, StepOK(step), step.kind # "reset",
           NEW rn2, rn2 = Done(rn, c, step), NEW r \in Repos
    PROVE  Pending(rn2, r) = Pending(rn, r) \cup (IF r = step.repo THEN Left(c, step) ELSE {})
<1>1. step.repo \in Repos /\ step.repo = Repo(step.pkg)
  BY DEF StepOK
<1>2. PICK refs : refs = [rn.refs EXCEPT ![step.repo] = rn.refs[step.repo] \cup Bundled(c, step)]
  OBVIOUS
<1>3. rn2.refs = refs /\ rn2.isolated = rn.isolated \cup Isolated(c, step)
  BY <1>2 DEF Done, RunShape
<1>4. refs[r] = IF r = step.repo THEN rn.refs[r] \cup Bundled(c, step) ELSE rn.refs[r]
  BY <1>1, <1>2 DEF RunShape
<1>5. \A f \in Isolated(c, step) : Repo(f.name.pkg) = step.repo
  BY <1>1, BundledFree
<1> QED BY <1>3, <1>4, <1>5 DEF Pending, Left

\* A step leaves a run record.
LEMMA DoneShape ==
    ASSUME NEW rn, RunShape(rn), NEW c, NEW step \in rn.todo, StepOK(step), rn.planned,
           NEW rn2, rn2 = Done(rn, c, step)
    PROVE  /\ RunShape(rn2) /\ rn2.todo = rn.todo \ {step} /\ rn2.cmd = rn.cmd
           /\ step.kind = "reset" => rn2.refs = NoRefs /\ rn2.isolated = {}
<1>1. step.repo \in Repos
  BY DEF StepOK
<1>2. PICK refs : refs = [rn.refs EXCEPT ![step.repo] = rn.refs[step.repo] \cup Bundled(c, step)]
  OBVIOUS
<1>3. PICK isolated : isolated = rn.isolated \cup Isolated(c, step)
  OBVIOUS
<1>4. PICK first : first = IF rn.first = None /\ Bundled(c, step) # {} THEN step.repo ELSE rn.first
  OBVIOUS
<1>5. PICK todo : todo = rn.todo \ {step}
  OBVIOUS
<1>6. rn2 = [rn EXCEPT !.todo = todo, !.refs = refs, !.isolated = isolated, !.first = first]
  BY <1>2, <1>3, <1>4, <1>5 DEF Done
<1>7. /\ rn2 = [cmd |-> rn.cmd, planned |-> rn.planned, todo |-> todo, refs |-> refs,
                isolated |-> isolated, first |-> first]
      /\ rn2.cmd = rn.cmd /\ rn2.planned = rn.planned /\ rn2.todo = todo /\ rn2.refs = refs
      /\ rn2.isolated = isolated /\ rn2.first = first
  BY <1>6 DEF RunShape
<1>8. refs = [r \in Repos |-> refs[r]]
  BY <1>2 DEF RunShape
<1>9. ASSUME step.kind = "reset" PROVE refs = NoRefs /\ isolated = {}
  <2>1. rn.refs = NoRefs /\ rn.isolated = {}
    BY <1>9 DEF RunShape
  <2>2. Bundled(c, step) = {} /\ Isolated(c, step) = {}
    BY <1>9 DEF Bundled, Isolated
  <2> QED BY <1>1, <1>2, <1>3, <2>1, <2>2 DEF NoRefs
<1>10. \A f \in isolated : /\ f.op \in {"tag", "delete"} /\ f.name.kind = "trigger"
                           /\ f.name.pkg \in Pkgs
  <2>1. \A f \in Isolated(c, step) : f.op \in {"tag", "delete"} /\ f.name.kind = "trigger"
                                     /\ f.name.pkg = step.pkg
    BY BundledFree
  <2>2. Isolated(c, step) # {} => step.kind # "reset"
    BY DEF Isolated
  <2>3. step.kind # "reset" => step.pkg \in Pkgs
    BY DEF StepOK
  <2> QED BY <1>3, <2>1, <2>2, <2>3 DEF RunShape
<1>11. rn.cmd.name = "resync" => step.kind = "reset"
  BY DEF RunShape
<1>12. RunShape(rn2)
  BY <1>5, <1>7, <1>8, <1>9, <1>10, <1>11 DEF RunShape
<1> QED BY <1>5, <1>7, <1>9, <1>12

\* A step leaves a clone and a run whose other steps can still be taken.
LEMMA TakenOK ==
    ASSUME StoresOK, NEW m \in Machine, NEW rn, RunOK(rn, clone[m]), NEW step \in Upcoming(rn.todo),
           NEW d, d = Applied(clone[m][step.repo], step),
           NEW e, e = [clone[m] EXCEPT ![step.repo] = d],
           NEW rn2, rn2 = Done(rn, clone[m][step.repo], step)
    PROVE  CloneOK(d, step.repo) /\ RunOK(rn2, e)
<1>1. PICK c : c = clone[m]
  OBVIOUS
<1>2. LocalOK(c)
  BY <1>1 DEF StoresOK, LocalOK
<1>3. /\ RunShape(rn) /\ PlanOK(c, rn.todo) /\ RefsOK(rn, c)
  BY <1>1 DEF RunOK
<1>4. PICK todo : todo = rn.todo
  OBVIOUS
<1>5. step \in todo /\ StepOK(step) /\ Stands(c[step.repo], step)
  BY <1>3, <1>4, UpcomingStands
<1>6. PICK r \in Repos : r = step.repo
  BY <1>5 DEF StepOK
<1>7. CloneOK(c[r], r)
  BY <1>2 DEF LocalOK
<1>8. rn.planned
  BY <1>3, <1>4, <1>5 DEF RunShape
<1>9. /\ RunShape(rn2) /\ rn2.todo = todo \ {step} /\ rn2.cmd = rn.cmd
      /\ step.kind = "reset" => rn2.refs = NoRefs /\ rn2.isolated = {}
  BY <1>1, <1>3, <1>4, <1>5, <1>6, <1>8, DoneShape
<1>10. /\ e[r] = d /\ \A q \in Repos : q # r => e[q] = c[q]
  BY <1>1, <1>2, <1>6 DEF LocalOK
<1>11. CASE step.kind = "reset"
  <2>1. CloneOK(d, r)
    <3>1. PICK x : x = c[r]
      OBVIOUS
    <3>2. d = Reset(x, r)
      BY <1>1, <1>6, <1>11, <3>1 DEF Applied
    <3>3. CloneOK(x, r) /\ CloneOK(origin[r], r)
      BY <1>7, <3>1 DEF StoresOK
    <3>4. CloneOK(Reset(x, r), r)
      BY <3>3, ResetIs
    <3> QED BY <3>2, <3>4
  <2>2. \A other \in todo : other.kind = "reset" /\ StepOK(other)
    BY <1>3, <1>4, <1>5, <1>11 DEF RunShape, PlanOK
  <2>3. PlanOK(e, rn2.todo)
    BY <1>3, <1>4, <1>9, <2>2 DEF PlanOK, Apart, Ready
  <2>4. \A q \in Repos : Pending(rn2, q) = {}
    BY <1>9, <1>11 DEF Pending, NoRefs
  <2>5. RefsOK(rn2, e)
    BY <2>4, NamedIs DEF RefsOK, TagsOf
  <2> QED BY <1>6, <1>9, <2>1, <2>3, <2>5 DEF RunOK
<1>12. CASE step.kind # "reset"
  <2>1. PICK left : left = Left(c[r], step)
    OBVIOUS
  <2>2. d = Applied(c[r], step)
    BY <1>1, <1>6
  <2>3. /\ CloneOK(d, r) /\ TagsAfter(c[r], d, left)
        /\ Named(left, "tag") \cap Named(left, "delete") = {}
        /\ \A n \in Named(left, "tag") \cup Named(left, "delete") :
             n \in TagNames(r) /\ <<n.pkg, n.kind>> \in Touched(step)
    <3>1. PICK x : x = c[r]
      OBVIOUS
    <3>2. CloneOK(x, r) /\ Stands(x, step) /\ d = Applied(x, step) /\ left = Left(x, step)
      BY <1>5, <1>6, <1>7, <2>1, <2>2, <3>1
    <3>3. /\ CloneOK(d, r) /\ TagsAfter(x, d, left)
          /\ Named(left, "tag") \cap Named(left, "delete") = {}
          /\ \A n \in Named(left, "tag") \cup Named(left, "delete") :
               n \in TagNames(r) /\ <<n.pkg, n.kind>> \in Touched(step)
      BY <1>5, <1>6, <1>12, <3>2, AppliedIs
    <3> QED BY <3>1, <3>3
  <2>4. \A other \in todo : other.kind # "reset"
    BY <1>3, <1>4, <1>5, <1>12 DEF RunShape
  <2>5. ASSUME NEW other \in todo \ {step} PROVE Ready(e[other.repo], todo \ {step}, other)
    BY <1>1, <1>2, <1>3, <1>4, <1>5, <1>6, <1>12, <2>1, <2>3, <2>4, ReadyStays
  <2>6. PlanOK(e, todo \ {step})
    BY <1>3, <1>4, <2>5 DEF PlanOK, Apart
  <2>7. \A q \in Repos : Pending(rn2, q) = Pending(rn, q) \cup (IF q = r THEN left ELSE {})
    BY <1>1, <1>3, <1>5, <1>6, <1>12, <2>1, PendingDone
  <2>8. ASSUME NEW q \in Repos, NEW op
        PROVE  Named(Pending(rn2, q), op)
                 = Named(Pending(rn, q), op) \cup (IF q = r THEN Named(left, op) ELSE {})
    <3>1. CASE q = r
      <4>1. PICK A : A = Pending(rn, q)
        OBVIOUS
      <4>2. Pending(rn2, q) = A \cup left
        BY <2>7, <3>1, <4>1
      <4> QED BY <3>1, <4>1, <4>2, NamedIs
    <3>2. CASE q # r
      BY <2>7, <3>2
    <3> QED BY <3>1, <3>2
  <2>9. ASSUME NEW q \in Repos
        PROVE  /\ Named(Pending(rn2, q), "tag") \subseteq DOMAIN e[q].tags
               /\ \A n \in TagsOf(Pending(rn2, q)) :
                    /\ n \in TagNames(q)
                    /\ \A other \in todo \ {step} : <<n.pkg, n.kind>> \notin Touched(other)
    <3>1. /\ Named(Pending(rn, q), "tag") \subseteq DOMAIN c[q].tags
          /\ \A n \in TagsOf(Pending(rn, q)) :
                /\ n \in TagNames(q)
                /\ \A other \in todo : <<n.pkg, n.kind>> \notin Touched(other)
      BY <1>3, <1>4 DEF RefsOK
    <3>2. CASE q # r
      BY <1>10, <2>8, <3>1, <3>2 DEF TagsOf
    <3>3. CASE q = r
      <4>1. Named(Pending(rn2, q), "tag") \subseteq DOMAIN e[q].tags
        <5> SUFFICES ASSUME NEW n \in Named(Pending(rn2, q), "tag") PROVE n \in DOMAIN d.tags
          BY <1>10, <3>3
        <5>1. CASE n \in Named(left, "tag")
          BY <2>3, <5>1 DEF TagsAfter
        <5>2. CASE n \in Named(Pending(rn, q), "tag")
          <6>1. n \in DOMAIN c[r].tags /\ <<n.pkg, n.kind>> \notin Touched(step)
            BY <1>5, <3>1, <3>3, <5>2 DEF TagsOf
          <6>2. n \notin Named(left, "delete")
            BY <2>3, <6>1
          <6> QED BY <2>3, <6>1, <6>2 DEF TagsAfter
        <5> QED BY <2>8, <3>3, <5>1, <5>2
      <4>2. ASSUME NEW n \in TagsOf(left)
            PROVE  /\ n \in TagNames(q)
                   /\ \A other \in todo \ {step} : <<n.pkg, n.kind>> \notin Touched(other)
        <5>1. n \in TagNames(q) /\ <<n.pkg, n.kind>> \in Touched(step)
          BY <2>3, <3>3, <4>2 DEF TagsOf
        <5>2. \A other \in todo \ {step} : Touched(other) \cap Touched(step) = {}
          BY <1>3, <1>4, <1>5 DEF PlanOK, Apart
        <5> QED BY <5>1, <5>2
      <4>3. TagsOf(Pending(rn2, q)) = TagsOf(Pending(rn, q)) \cup TagsOf(left)
        BY <2>8, <3>3 DEF TagsOf
      <4> QED BY <3>1, <4>1, <4>2, <4>3
    <3> QED BY <3>2, <3>3
  <2>10. RefsOK(rn2, e)
    BY <1>9, <2>9 DEF RefsOK
  <2> QED BY <1>6, <1>9, <2>3, <2>6, <2>10 DEF RunOK
<1> QED BY <1>11, <1>12

-----------------------------------------------------------------------------
(* Type correctness, for any number of machines *)

UsedOK == used \in [src : 0..MaxSrc, fault : 0..MaxFault, prod : 0..MaxProd, yank : 0..MaxYank]
RunsOK ==
    /\ run = [m \in Machine |-> run[m]]
    /\ \A m \in Machine : run[m] # Idle => RunOK(run[m], clone[m])

TypeInv == StoresOK /\ RunsOK /\ UsedOK

\* The invariant has the type invariant.
LEMMA TypeInvType == ASSUME TypeInv PROVE TypeOK
<1>1. ASSUME NEW r \in Repos, NEW c, CloneOK(c, r) PROVE RepoOK(c, r)
  <2>1. Range(c.main) \subseteq Commit
    BY <1>1 DEF CloneOK, Range
  <2>2. \A n \in DOMAIN c.tags :
            /\ n.pkg \in PkgsIn(r) /\ n.ver \in Nat \X Nat /\ n.kind \in TagKinds
            /\ c.tags[n] \in Commit
    BY <1>1 DEF CloneOK, TagsOK, TagNames, Version
  <2> QED BY <1>1, <2>1, <2>2 DEF RepoOK, CloneOK
<1>2. \A r \in Repos : RepoOK(origin[r], r) /\ ~origin[r].dirty
  BY <1>1 DEF TypeInv, StoresOK
<1>3. \A m \in Machine, r \in Repos : RepoOK(clone[m][r], r)
  BY <1>1 DEF TypeInv, StoresOK
<1>4. \A m \in Machine : run[m] # Idle => run[m].cmd \in Commands
  BY DEF TypeInv, RunsOK, RunOK, RunShape
<1> QED BY <1>2, <1>3, <1>4 DEF TypeOK, TypeInv, UsedOK

\* An action that changes one repository of origin.
LEMMA OriginChanges ==
    ASSUME StoresOK, NEW r \in Repos, NEW o, CloneOK(o, r), ~o.dirty,
           origin' = [origin EXCEPT ![r] = o], clone' = clone
    PROVE  /\ StoresOK'
           /\ origin'[r] = o /\ \A q \in Repos : q # r => origin'[q] = origin[q]
<1>1. origin'[r] = o /\ \A q \in Repos : q # r => origin'[q] = origin[q]
  BY DEF StoresOK
<1>2. origin' = [q \in Repos |-> origin'[q]]
  BY DEF StoresOK
<1>3. \A q \in Repos : CloneOK(origin'[q], q) /\ ~origin'[q].dirty
  BY <1>1 DEF StoresOK
<1> QED BY <1>1, <1>2, <1>3 DEF StoresOK

\* An action that changes one repository of one clone.
LEMMA CloneChanges ==
    ASSUME StoresOK, NEW m \in Machine, NEW r \in Repos, NEW d, CloneOK(d, r),
           Changed(m, r, d), origin' = origin
    PROVE  /\ StoresOK'
           /\ clone'[m] = [clone[m] EXCEPT ![r] = d]
           /\ clone'[m][r] = d /\ \A q \in Repos : q # r => clone'[m][q] = clone[m][q]
           /\ \A n \in Machine : n # m => clone'[n] = clone[n]
<1>1. PICK e : e = [clone[m] EXCEPT ![r] = d]
  OBVIOUS
<1>2. clone' = [clone EXCEPT ![m] = e]
  BY <1>1 DEF Changed
<1>3. clone'[m] = e /\ \A n \in Machine : n # m => clone'[n] = clone[n]
  BY <1>2 DEF StoresOK
<1>4. e[r] = d /\ \A q \in Repos : q # r => e[q] = clone[m][q]
  BY <1>1 DEF StoresOK
<1>5. e = [q \in Repos |-> e[q]] /\ \A q \in Repos : CloneOK(e[q], q)
  BY <1>1, <1>4 DEF StoresOK
<1>6. clone' = [n \in Machine |-> clone'[n]]
  BY <1>2 DEF StoresOK
<1>7. \A n \in Machine : /\ clone'[n] = [q \in Repos |-> clone'[n][q]]
                         /\ \A q \in Repos : CloneOK(clone'[n][q], q)
  <2> SUFFICES ASSUME NEW n \in Machine
               PROVE  /\ clone'[n] = [q \in Repos |-> clone'[n][q]]
                      /\ \A q \in Repos : CloneOK(clone'[n][q], q)
    OBVIOUS
  <2>1. CASE n = m
    BY <1>3, <1>5, <2>1
  <2>2. CASE n # m
    BY <1>3, <2>2 DEF StoresOK
  <2> QED BY <2>1, <2>2
<1>8. StoresOK'
  BY <1>6, <1>7 DEF StoresOK
<1> QED BY <1>1, <1>3, <1>4, <1>8

\* An action that ends a run.
LEMMA IdlesIs ==
    ASSUME NEW m \in Machine, run = [n \in Machine |-> run[n]], Idles(m)
    PROVE  /\ run' = [n \in Machine |-> run'[n]] /\ run'[m] = Idle
           /\ \A n \in Machine : n # m => run'[n] = run[n]
  BY DEF Idles

\* An action that continues a run, or ends it if nothing is left.
LEMMA GoesIs ==
    ASSUME NEW m \in Machine, run = [n \in Machine |-> run[n]], NEW next, Goes(m, next)
    PROVE  /\ run' = [n \in Machine |-> run'[n]]
           /\ \/ run'[m] = next /\ run' = [run EXCEPT ![m] = next]
              \/ run'[m] = Idle /\ next.todo = {} /\ next.refs = NoRefs /\ next.isolated = {}
           /\ \A n \in Machine : n # m => run'[n] = run[n]
<1>1. CASE next.todo = {} /\ next.refs = NoRefs /\ next.isolated = {}
  BY <1>1, IdlesIs DEF Goes
<1>2. CASE ~(next.todo = {} /\ next.refs = NoRefs /\ next.isolated = {})
  <2>1. run' = [run EXCEPT ![m] = next]
    BY <1>2 DEF Goes
  <2> QED BY <2>1
<1> QED BY <1>1, <1>2

\* A run that has just begun.
LEMMA StartOK ==
    ASSUME NEW cmd \in Commands, NEW c
    PROVE  RunOK(Verified(cmd), c)
<1>1. PICK rn : rn = Verified(cmd)
  OBVIOUS
<1>2. /\ rn = [cmd |-> cmd, planned |-> FALSE, todo |-> {}, refs |-> NoRefs,
               isolated |-> {}, first |-> None]
      /\ rn.cmd = cmd /\ rn.planned = FALSE /\ rn.todo = {} /\ rn.refs = NoRefs
      /\ rn.isolated = {} /\ rn.first = None
  BY <1>1 DEF Verified
<1>3. rn.refs = [r \in Repos |-> rn.refs[r]]
  BY <1>2 DEF NoRefs
<1>4. RunShape(rn)
  BY <1>2, <1>3 DEF RunShape
<1>5. \A r \in Repos : Pending(rn, r) = {}
  BY <1>2 DEF Pending, NoRefs
<1>6. RefsOK(rn, c)
  BY <1>5, NamedIs DEF RefsOK, TagsOf
<1> QED BY <1>1, <1>2, <1>4, <1>6 DEF RunOK, PlanOK, Apart

\* A run that has just planned.
LEMMA PlannedOK ==
    ASSUME NEW c, LocalOK(c), NEW rn, RunOK(rn, c), ~rn.planned,
           NEW next, next = [rn EXCEPT !.planned = TRUE, !.todo = Steps(c, rn.cmd)]
    PROVE  RunOK(next, c)
<1>1. PICK todo : todo = Steps(c, rn.cmd)
  OBVIOUS
<1>2. rn.cmd \in Commands
  BY DEF RunOK, RunShape
<1>3. PlanOK(c, todo) /\ \A step \in todo : step.kind = "reset" <=> rn.cmd.name = "resync"
  BY <1>1, <1>2, StepsOK
<1>4. /\ next = [cmd |-> rn.cmd, planned |-> TRUE, todo |-> todo, refs |-> rn.refs,
                 isolated |-> rn.isolated, first |-> rn.first]
      /\ next.cmd = rn.cmd /\ next.planned = TRUE /\ next.todo = todo /\ next.refs = rn.refs
      /\ next.isolated = rn.isolated /\ next.first = rn.first
  BY <1>1 DEF RunOK, RunShape
<1>5. RunShape(next)
  BY <1>3, <1>4 DEF RunOK, RunShape
<1>6. rn.refs = NoRefs /\ rn.isolated = {}
  BY DEF RunOK, RunShape
<1>7. \A r \in Repos : Pending(next, r) = {}
  BY <1>4, <1>6 DEF Pending, NoRefs
<1>8. RefsOK(next, c)
  BY <1>7, NamedIs DEF RefsOK, TagsOf
<1> QED BY <1>3, <1>4, <1>5, <1>8 DEF RunOK

\* Less to push is as good.
LEMMA FewerOK ==
    ASSUME NEW c, NEW rn, RunOK(rn, c), NEW next, RunShape(next), next.todo = rn.todo,
           \A r \in Repos : Pending(next, r) \subseteq Pending(rn, r)
    PROVE  RunOK(next, c)
<1>1. \A r \in Repos : \A op : Named(Pending(next, r), op) \subseteq Named(Pending(rn, r), op)
  BY DEF Named
<1>2. RefsOK(next, c)
  BY <1>1 DEF RunOK, RefsOK, TagsOf
<1> QED BY <1>2 DEF RunOK

\* An action of one machine leaves the runs of the others as they are.
LEMMA OthersRun ==
    ASSUME RunsOK, NEW m \in Machine, run' = [n \in Machine |-> run'[n]],
           \A n \in Machine : n # m => run'[n] = run[n] /\ clone'[n] = clone[n],
           run'[m] # Idle => RunOK(run'[m], clone'[m])
    PROVE  RunsOK'
<1>1. ASSUME NEW n \in Machine, run'[n] # Idle PROVE RunOK(run'[n], clone'[n])
  <2>1. CASE n = m
    BY <1>1, <2>1
  <2>2. CASE n # m
    <3>1. run'[n] = run[n] /\ clone'[n] = clone[n]
      BY <2>2
    <3>2. RunOK(run[n], clone[n])
      BY <1>1, <3>1 DEF RunsOK
    <3> QED BY <3>1, <3>2
  <2> QED BY <2>1, <2>2
<1> QED BY <1>1 DEF RunsOK

\* TypeInv holds at first.
LEMMA TypeInit == ASSUME Init PROVE TypeInv
<1>1. PICK first : first = [id |-> 0, src |-> [p \in Pkgs |-> 0],
                            test |-> [s \in Siblings |-> None], pin |-> [s \in Siblings |-> None]]
  OBVIOUS
<1>2. first \in Commit
  BY <1>1 DEF Commit
<1>3. PICK repo : repo = [r \in Repos |->
        [main |-> <<first>>, tags |-> [n \in {} |-> first],
         branch |-> [b \in PkgsIn(r) \X Flavors |-> None], dirty |-> FALSE]]
  OBVIOUS
<1>4. /\ origin = repo /\ clone = [m \in Machine |-> repo] /\ run = [m \in Machine |-> Idle]
      /\ used = [src |-> 0, fault |-> 0, prod |-> 0, yank |-> 0]
  BY <1>1, <1>3 DEF Init
<1>5. ASSUME NEW r \in Repos PROVE CloneOK(repo[r], r) /\ ~repo[r].dirty
  <2>1. PICK c : c = repo[r]
    OBVIOUS
  <2>2. c = [main |-> <<first>>, tags |-> [n \in {} |-> first],
             branch |-> [b \in PkgsIn(r) \X Flavors |-> None], dirty |-> FALSE]
    BY <1>3, <1>5, <2>1
  <2>3. PICK t : t = c.tags
    OBVIOUS
  <2>4. t = [n \in {} |-> first] /\ DOMAIN t = {}
    BY <2>2, <2>3
  <2>5. TagsOK(t, r)
    BY <2>4, FS_EmptySet DEF TagsOK
  <2>6. c.main = <<first>> /\ c.main \in Seq(Commit) /\ c.main # << >>
    BY <1>2, <2>2
  <2>7. c.branch = [b \in PkgsIn(r) \X Flavors |-> None] /\ c.dirty = FALSE
    BY <2>2
  <2> QED BY <2>1, <2>2, <2>3, <2>5, <2>6, <2>7 DEF CloneOK
<1>6. StoresOK
  BY <1>3, <1>4, <1>5 DEF StoresOK
<1>7. UsedOK
  BY <1>4, PromotionAssumption DEF UsedOK
<1>8. RunsOK
  BY <1>4 DEF RunsOK
<1> QED BY <1>6, <1>7, <1>8 DEF TypeInv

\* A commit by somebody keeps TypeInv.
LEMMA TypeSource ==
    ASSUME TypeInv, NEW p \in Pkgs, SourceChange(p)
    PROVE  TypeInv'
<1>1. PICK r \in Repos : r = Repo(p)
  BY PkgsFinite
<1>2. PICK o : o = origin[r]
  OBVIOUS
<1>3. CloneOK(o, r) /\ ~o.dirty
  BY <1>2 DEF TypeInv, StoresOK
<1>4. PICK head : head = Last(o.main)
  OBVIOUS
<1>5. head \in Commit
  BY <1>3, <1>4, HeadIs
<1>6. PICK id : id = FreshId(r, o)
  OBVIOUS
<1>7. id \in Nat
  BY <1>3, <1>6, FreshIdType DEF TypeInv
<1>8. PICK src : src = [head.src EXCEPT ![p] = head.src[p] + 1]
  OBVIOUS
<1>9. src \in [Pkgs -> Nat]
  BY <1>5, <1>8 DEF Commit
<1>10. PICK new : new = [head EXCEPT !.id = id, !.src = src]
  OBVIOUS
<1>11. new \in Commit
  BY <1>5, <1>7, <1>9, <1>10 DEF Commit
<1>12. new = [head EXCEPT !.id = id, !.src[p] = head.src[p] + 1]
  BY <1>5, <1>8, <1>10 DEF Commit
<1>13. PICK main : main = Append(o.main, new)
  OBVIOUS
<1>14. main \in Seq(Commit) /\ main # << >>
  BY <1>3, <1>11, <1>13 DEF CloneOK
<1>15. PICK d : d = [o EXCEPT !.main = main]
  OBVIOUS
<1>16. CloneOK(d, r) /\ d.dirty = o.dirty
  BY <1>3, <1>14, <1>15, MainIs
<1>17. /\ origin' = [origin EXCEPT ![r] = d] /\ clone' = clone /\ run' = run
       /\ used.src < MaxSrc /\ used' = [used EXCEPT !.src = @ + 1]
  BY <1>1, <1>2, <1>4, <1>6, <1>12, <1>13, <1>15 DEF SourceChange
<1>18. StoresOK'
  BY <1>3, <1>16, <1>17, OriginChanges DEF TypeInv
<1>19. RunsOK'
  BY <1>17 DEF TypeInv, RunsOK
<1>20. UsedOK'
  BY <1>17, PromotionAssumption DEF TypeInv, UsedOK
<1> QED BY <1>18, <1>19, <1>20 DEF TypeInv

\* A pull keeps TypeInv.
LEMMA TypePull ==
    ASSUME TypeInv, NEW m \in Machine, NEW r \in Repos, Pull(m, r)
    PROVE  TypeInv'
<1>1. PICK c, main : c = clone[m][r] /\ main = origin[r].main
  OBVIOUS
<1>2. CloneOK(c, r) /\ main \in Seq(Commit) /\ main # << >>
  BY <1>1 DEF TypeInv, StoresOK, CloneOK
<1>3. PICK d : d = [c EXCEPT !.main = main]
  OBVIOUS
<1>4. CloneOK(d, r)
  BY <1>2, <1>3, MainIs
<1>5. /\ run[m] = Idle /\ Changed(m, r, d) /\ origin' = origin /\ run' = run /\ used' = used
  BY <1>1, <1>3 DEF Pull
<1>6. StoresOK' /\ \A n \in Machine : n # m => clone'[n] = clone[n]
  BY <1>4, <1>5, CloneChanges DEF TypeInv
<1>7. RunsOK'
  BY <1>5, <1>6, OthersRun DEF TypeInv, RunsOK
<1> QED BY <1>5, <1>6, <1>7 DEF TypeInv, UsedOK

\* A fetch leaves well-formed clones.
LEMMA FetchedIs ==
    ASSUME StoresOK, NEW m \in Machine, NEW e, e = Fetched(m)
    PROVE  e = [r \in Repos |-> e[r]] /\ \A r \in Repos : CloneOK(e[r], r)
<1>1. ASSUME NEW r \in Repos PROVE CloneOK(e[r], r)
  <2>1. PICK c : c = clone[m][r]
    OBVIOUS
  <2>2. CloneOK(c, r) /\ CloneOK(origin[r], r)
    BY <2>1 DEF StoresOK
  <2>3. PICK d : d = Reconciled(c, r)
    OBVIOUS
  <2>4. CloneOK(d, r)
    BY <2>2, <2>3, ReconciledIs
  <2>5. e[r] = c \/ e[r] = d
    BY <2>1, <2>3 DEF Fetched
  <2> QED BY <2>2, <2>4, <2>5
<1> QED BY <1>1 DEF Fetched

\* The command line keeps TypeInv.
LEMMA TypeStart ==
    ASSUME TypeInv, NEW m \in Machine, NEW cmd \in Commands, Start(m, cmd)
    PROVE  TypeInv'
<1>1. PICK e : e = Fetched(m)
  OBVIOUS
<1>2. e = [r \in Repos |-> e[r]] /\ \A r \in Repos : CloneOK(e[r], r)
  BY <1>1, FetchedIs DEF TypeInv
<1>3. PICK rn : rn = Verified(cmd)
  OBVIOUS
<1>4. /\ run[m] = Idle /\ origin' = origin
      /\ clone' = clone \/ clone' = [clone EXCEPT ![m] = e]
      /\ run' = run \/ run' = [run EXCEPT ![m] = rn]
  BY <1>1, <1>3 DEF Start
<1>5. clone = [n \in Machine |-> clone[n]] /\ run = [n \in Machine |-> run[n]]
  BY DEF TypeInv, StoresOK, RunsOK
<1>6. /\ clone' = [n \in Machine |-> clone'[n]]
      /\ \A n \in Machine : n # m => clone'[n] = clone[n]
      /\ clone'[m] = clone[m] \/ clone'[m] = e
  BY <1>4, <1>5
<1>7. StoresOK'
  <2>1. ASSUME NEW n \in Machine
        PROVE  clone'[n] = [r \in Repos |-> clone'[n][r]] /\ \A r \in Repos : CloneOK(clone'[n][r], r)
    <3>1. CASE clone'[n] = clone[n]
      BY <3>1 DEF TypeInv, StoresOK
    <3>2. CASE clone'[n] = e
      BY <1>2, <3>2
    <3> QED BY <1>6, <3>1, <3>2
  <2> QED BY <1>4, <1>6, <2>1 DEF TypeInv, StoresOK
<1>8. RunsOK'
  <2>1. /\ run' = [n \in Machine |-> run'[n]]
        /\ \A n \in Machine : n # m => run'[n] = run[n]
        /\ run'[m] = Idle \/ run'[m] = rn
    BY <1>4, <1>5
  <2>2. RunOK(rn, clone'[m])
    BY <1>3, StartOK
  <2> QED BY <1>6, <2>1, <2>2, OthersRun DEF TypeInv
<1>9. UsedOK'
  <2>1. PICK x, y, z \in {0, 1} : used' = [used EXCEPT !.fault = @ + x, !.prod = @ + y, !.yank = @ + z]
    <3>1. PICK once : once = [b \in BOOLEAN |-> IF b THEN 1 ELSE 0]
      OBVIOUS
    <3>2. \A b \in BOOLEAN : once[b] \in {0, 1}
      BY <3>1
    <3>3. used' = [used EXCEPT !.fault = @ + (IF Withholds(cmd) THEN 1 ELSE 0),
                                !.prod = @ + (IF cmd.name = "prod" THEN 1 ELSE 0),
                                !.yank = @ + (IF cmd.name = "yank" THEN 1 ELSE 0)]
      BY DEF Start
    <3> QED BY <3>3
  <2>2. used'.fault <= MaxFault /\ used'.prod <= MaxProd /\ used'.yank <= MaxYank
    BY DEF Start
  <2>3. UsedOK
    BY DEF TypeInv
  <2>4. /\ used.src \in 0..MaxSrc /\ used.fault \in Nat /\ used.prod \in Nat /\ used.yank \in Nat
        /\ used = [src |-> used.src, fault |-> used.fault, prod |-> used.prod, yank |-> used.yank]
    BY <2>3, PromotionAssumption DEF UsedOK
  <2>5. used' = [src |-> used.src, fault |-> used.fault + x, prod |-> used.prod + y,
                 yank |-> used.yank + z]
    BY <2>1, <2>4
  <2>6. used.fault + x \in Nat /\ used.prod + y \in Nat /\ used.yank + z \in Nat
    BY <2>4
  <2>7. used.fault + x <= MaxFault /\ used.prod + y <= MaxProd /\ used.yank + z <= MaxYank
    BY <2>2, <2>5
  <2>8. /\ used.fault + x \in 0..MaxFault /\ used.prod + y \in 0..MaxProd
        /\ used.yank + z \in 0..MaxYank
    BY <2>6, <2>7, PromotionAssumption
  <2> QED BY <2>4, <2>5, <2>8 DEF UsedOK
<1> QED BY <1>7, <1>8, <1>9 DEF TypeInv

\* Planning keeps TypeInv.
LEMMA TypePlan ==
    ASSUME TypeInv, NEW m \in Machine, Plan(m)
    PROVE  TypeInv'
<1>1. PICK rn, c : rn = run[m] /\ c = clone[m]
  OBVIOUS
<1>2. rn # Idle /\ ~rn.planned /\ origin' = origin /\ clone' = clone /\ used' = used
  BY <1>1 DEF Plan
<1>3. PICK next : next = [rn EXCEPT !.planned = TRUE, !.todo = Steps(c, rn.cmd)] /\ Goes(m, next)
  BY <1>1 DEF Plan
<1>4. LocalOK(c) /\ RunOK(rn, c)
  BY <1>1, <1>2 DEF TypeInv, StoresOK, RunsOK, LocalOK
<1>5. RunOK(next, c)
  BY <1>2, <1>3, <1>4, PlannedOK
<1>6. /\ run'[m] = next \/ run'[m] = Idle
      /\ \A n \in Machine : n # m => run'[n] = run[n]
  BY <1>3, GoesIs DEF TypeInv, RunsOK
<1>7. run' = [n \in Machine |-> run'[n]]
  BY <1>3, GoesIs DEF TypeInv, RunsOK
<1>8. RunsOK'
  BY <1>1, <1>2, <1>5, <1>6, <1>7, OthersRun DEF TypeInv
<1> QED BY <1>2, <1>8 DEF TypeInv, StoresOK, UsedOK

\* A step, taken or failed, keeps TypeInv.
LEMMA TypeApply ==
    ASSUME TypeInv, NEW m \in Machine, Apply(m)
    PROVE  TypeInv'
<1>1. PICK rn, c : rn = run[m] /\ c = clone[m]
  OBVIOUS
<1>2. rn # Idle /\ origin' = origin /\ used' = used
  BY <1>1 DEF Apply
<1>3. PICK step \in Upcoming(rn.todo) :
        IF Fails(c[step.repo], step) THEN Idles(m) /\ UNCHANGED clone
        ELSE Changed(m, step.repo, Applied(c[step.repo], step)) /\ Goes(m, Done(rn, c[step.repo], step))
  BY <1>1 DEF Apply
<1>4. RunOK(rn, c) /\ run = [n \in Machine |-> run[n]] /\ StoresOK
  BY <1>1, <1>2 DEF TypeInv, RunsOK
<1>5. CASE Fails(c[step.repo], step)
  <2>1. Idles(m) /\ clone' = clone
    BY <1>3, <1>5
  <2>2. RunsOK'
    BY <1>4, <2>1, IdlesIs, OthersRun DEF TypeInv
  <2> QED BY <1>2, <2>1, <2>2 DEF TypeInv, StoresOK, UsedOK
<1>6. CASE ~Fails(c[step.repo], step)
  <2>1. PICK d : d = Applied(c[step.repo], step)
    OBVIOUS
  <2>2. PICK next : next = Done(rn, c[step.repo], step)
    OBVIOUS
  <2>3. Changed(m, step.repo, d) /\ Goes(m, next)
    BY <1>3, <1>6, <2>1, <2>2
  <2>4. PICK e : e = [c EXCEPT ![step.repo] = d]
    OBVIOUS
  <2>5. CloneOK(d, step.repo) /\ RunOK(next, e)
    BY <1>1, <1>4, <2>1, <2>2, <2>4, TakenOK
  <2>6. step.repo \in Repos
    BY <1>4, UpcomingStands DEF RunOK, StepOK
  <2>7. StoresOK' /\ clone'[m] = e /\ \A n \in Machine : n # m => clone'[n] = clone[n]
    BY <1>1, <1>2, <1>4, <2>3, <2>4, <2>5, <2>6, CloneChanges
  <2>8. /\ run'[m] = next \/ run'[m] = Idle
        /\ \A n \in Machine : n # m => run'[n] = run[n]
    BY <1>4, <2>3, GoesIs
  <2>9. run' = [n \in Machine |-> run'[n]]
    BY <1>4, <2>3, GoesIs
  <2>10. RunsOK'
    BY <2>5, <2>7, <2>8, <2>9, OthersRun DEF TypeInv
  <2> QED BY <1>2, <2>7, <2>10 DEF TypeInv, UsedOK
<1> QED BY <1>5, <1>6

\* A push to one repository, or of one trigger: what is to be pushed is there.
LEMMA TypePush ==
    ASSUME TypeInv, NEW m \in Machine, run[m] # Idle, NEW r \in Repos, NEW refs,
           refs \subseteq Pending(run[m], r), NEW next, RunOK(next, clone[m]),
           PushTo(m, r, refs, next), clone' = clone, used' = used
    PROVE  TypeInv'
<1>1. PICK rn, c, o : rn = run[m] /\ c = clone[m][r] /\ o = origin[r]
  OBVIOUS
<1>2. StoresOK /\ RunOK(rn, clone[m]) /\ run = [n \in Machine |-> run[n]]
  BY <1>1 DEF TypeInv, RunsOK
<1>3. CloneOK(c, r) /\ CloneOK(o, r) /\ ~o.dirty
  BY <1>1, <1>2 DEF StoresOK
<1>4. Named(refs, "tag") \subseteq Named(Pending(rn, r), "tag")
  BY <1>1 DEF Named
<1>5. Named(refs, "tag") \subseteq DOMAIN c.tags
  BY <1>1, <1>2, <1>4 DEF RunOK, RefsOK
<1>6. CASE Accepted(c, o, refs)
  <2>1. PICK d : d = Pushed(c, o, refs)
    OBVIOUS
  <2>2. CloneOK(d, r) /\ d.dirty = o.dirty
    <3>1. IsFiniteSet(DOMAIN c.tags)
      BY <1>3 DEF CloneOK, TagsOK
    <3> QED BY <1>3, <1>5, <2>1, <3>1, PushedIs
  <2>3. origin' = [origin EXCEPT ![r] = d] /\ Goes(m, next)
    BY <1>1, <1>6, <2>1 DEF PushTo
  <2>4. StoresOK'
    BY <1>2, <1>3, <2>2, <2>3, OriginChanges
  <2>5. /\ run'[m] = next \/ run'[m] = Idle
        /\ \A n \in Machine : n # m => run'[n] = run[n]
    BY <1>2, <2>3, GoesIs
  <2>6. run' = [n \in Machine |-> run'[n]]
    BY <1>2, <2>3, GoesIs
  <2>7. RunsOK'
    BY <2>5, <2>6, OthersRun DEF TypeInv
  <2> QED BY <2>4, <2>7 DEF TypeInv, UsedOK
<1>7. CASE ~Accepted(c, o, refs)
  <2>1. Idles(m) /\ origin' = origin
    BY <1>1, <1>7 DEF PushTo
  <2>2. RunsOK'
    BY <1>2, <2>1, IdlesIs, OthersRun DEF TypeInv
  <2> QED BY <2>1, <2>2 DEF TypeInv, StoresOK, UsedOK
<1> QED BY <1>6, <1>7

\* A run whose references of one repository are pushed.
LEMMA BundleIs ==
    ASSUME NEW rn, NEW c, RunOK(rn, c), NEW r \in Repos, rn.planned,
           NEW next, next = [rn EXCEPT !.refs = [rn.refs EXCEPT ![r] = {}]]
    PROVE  /\ RunOK(next, c) /\ next.todo = rn.todo /\ next.cmd = rn.cmd
           /\ next.isolated = rn.isolated /\ next.first = rn.first /\ next.planned
           /\ \A q \in Repos : next.refs[q] = IF q = r THEN {} ELSE rn.refs[q]
           /\ rn.refs[r] \subseteq Pending(rn, r)
<1>1. RunShape(rn)
  BY DEF RunOK
<1>2. PICK refs : refs = [rn.refs EXCEPT ![r] = {}]
  OBVIOUS
<1>3. /\ next = [cmd |-> rn.cmd, planned |-> rn.planned, todo |-> rn.todo, refs |-> refs,
                 isolated |-> rn.isolated, first |-> rn.first]
      /\ next.cmd = rn.cmd /\ next.planned = rn.planned /\ next.todo = rn.todo
      /\ next.refs = refs /\ next.isolated = rn.isolated /\ next.first = rn.first
  BY <1>1, <1>2 DEF RunShape
<1>4. refs = [q \in Repos |-> IF q = r THEN {} ELSE rn.refs[q]]
  BY <1>1, <1>2 DEF RunShape
<1>5. rn.refs = NoRefs => refs = NoRefs
  BY <1>4 DEF NoRefs
<1>6. refs = [q \in Repos |-> refs[q]]
  BY <1>4
<1>7. RunShape(next)
  BY <1>1, <1>3, <1>5, <1>6 DEF RunShape
<1>8. \A q \in Repos : Pending(next, q) \subseteq Pending(rn, q)
  BY <1>3, <1>4 DEF Pending
<1>9. RunOK(next, c)
  BY <1>3, <1>7, <1>8, FewerOK
<1> QED BY <1>3, <1>4, <1>9 DEF Pending

\* A run one of whose trigger references is pushed.
LEMMA OneLessIs ==
    ASSUME NEW rn, NEW c, RunOK(rn, c), NEW f \in rn.isolated, rn.planned,
           NEW next, next = [rn EXCEPT !.isolated = rn.isolated \ {f}]
    PROVE  /\ RunOK(next, c) /\ next.todo = rn.todo /\ next.cmd = rn.cmd
           /\ next.isolated = rn.isolated \ {f} /\ next.refs = rn.refs
           /\ next.first = rn.first /\ next.planned
           /\ Repo(f.name.pkg) \in Repos /\ {f} \subseteq Pending(rn, Repo(f.name.pkg))
<1>1. RunShape(rn)
  BY DEF RunOK
<1>2. PICK isolated : isolated = rn.isolated \ {f}
  OBVIOUS
<1>3. /\ next = [cmd |-> rn.cmd, planned |-> rn.planned, todo |-> rn.todo, refs |-> rn.refs,
                 isolated |-> isolated, first |-> rn.first]
      /\ next.cmd = rn.cmd /\ next.planned = rn.planned /\ next.todo = rn.todo
      /\ next.refs = rn.refs /\ next.isolated = isolated /\ next.first = rn.first
  BY <1>1, <1>2 DEF RunShape
<1>4. RunShape(next)
  BY <1>1, <1>2, <1>3 DEF RunShape
<1>5. \A q \in Repos : Pending(next, q) \subseteq Pending(rn, q)
  BY <1>2, <1>3 DEF Pending
<1>6. RunOK(next, c)
  BY <1>3, <1>4, <1>5, FewerOK
<1>7. f.name.pkg \in Pkgs
  BY <1>1 DEF RunShape
<1>8. Repo(f.name.pkg) \in Repos
  BY <1>7, PkgsFinite
<1> QED BY <1>2, <1>3, <1>6, <1>8 DEF Pending

\* The push of a repository keeps TypeInv.
LEMMA TypePushRepo ==
    ASSUME TypeInv, NEW m \in Machine, PushRepo(m)
    PROVE  TypeInv'
<1>1. PICK rn : rn = run[m]
  OBVIOUS
<1>2. rn # Idle /\ rn.planned /\ clone' = clone /\ used' = used
  BY <1>1 DEF PushRepo, Pushing
<1>3. PICK r \in Repos : Bundle(m, r)
  BY DEF PushRepo
<1>4. PICK next : next = [rn EXCEPT !.refs = [rn.refs EXCEPT ![r] = {}]]
  OBVIOUS
<1>5. PushTo(m, r, rn.refs[r], next)
  BY <1>1, <1>3, <1>4 DEF Bundle
<1>6. RunOK(rn, clone[m])
  BY <1>1, <1>2 DEF TypeInv, RunsOK
<1>7. RunOK(next, clone[m]) /\ rn.refs[r] \subseteq Pending(rn, r)
  BY <1>2, <1>4, <1>6, BundleIs
<1> QED BY <1>1, <1>2, <1>5, <1>7, TypePush

\* The push of a trigger keeps TypeInv.
LEMMA TypePushIsolated ==
    ASSUME TypeInv, NEW m \in Machine, PushIsolated(m)
    PROVE  TypeInv'
<1>1. PICK rn : rn = run[m]
  OBVIOUS
<1>2. rn # Idle /\ rn.planned /\ clone' = clone /\ used' = used
  BY <1>1 DEF PushIsolated, Pushing
<1>3. PICK f \in rn.isolated :
        PushTo(m, Repo(f.name.pkg), {f}, [rn EXCEPT !.isolated = rn.isolated \ {f}])
  BY <1>1 DEF PushIsolated
<1>4. PICK next : next = [rn EXCEPT !.isolated = rn.isolated \ {f}]
  OBVIOUS
<1>5. RunOK(rn, clone[m])
  BY <1>1, <1>2 DEF TypeInv, RunsOK
<1>6. /\ RunOK(next, clone[m])
      /\ Repo(f.name.pkg) \in Repos /\ {f} \subseteq Pending(rn, Repo(f.name.pkg))
  BY <1>2, <1>4, <1>5, OneLessIs
<1>7. PushTo(m, Repo(f.name.pkg), {f}, next)
  BY <1>3, <1>4
<1> QED BY <1>1, <1>2, <1>6, <1>7, TypePush

\* A clone with uncommitted files.
LEMMA DirtyIs ==
    ASSUME NEW r, NEW c, CloneOK(c, r), NEW d, d = [c EXCEPT !.dirty = TRUE]
    PROVE  /\ CloneOK(d, r)
           /\ d.main = c.main /\ d.tags = c.tags /\ d.branch = c.branch /\ d.dirty = TRUE
<1>1. /\ d = [main |-> c.main, tags |-> c.tags, branch |-> c.branch, dirty |-> TRUE]
      /\ d.main = c.main /\ d.tags = c.tags /\ d.branch = c.branch /\ d.dirty = TRUE
  BY DEF CloneOK
<1> QED BY <1>1 DEF CloneOK

\* An interruption keeps TypeInv.
LEMMA TypeInterrupted ==
    ASSUME TypeInv, NEW m \in Machine, Interrupted(m)
    PROVE  TypeInv'
<1>1. PICK rn : rn = run[m]
  OBVIOUS
<1>2. /\ rn # Idle /\ Idles(m) /\ used.fault < MaxFault
      /\ used' = [used EXCEPT !.fault = @ + 1] /\ origin' = origin
  BY <1>1 DEF Interrupted
<1>3. RunOK(rn, clone[m]) /\ run = [n \in Machine |-> run[n]] /\ StoresOK
  BY <1>1, <1>2 DEF TypeInv, RunsOK
<1>4. StoresOK' /\ \A n \in Machine : n # m => clone'[n] = clone[n]
  <2>1. CASE clone' = clone
    BY <1>2, <1>3, <2>1 DEF StoresOK
  <2>2. CASE clone' # clone
    <3>1. PICK step \in Upcoming(rn.todo) :
             Changed(m, step.repo, [clone[m][step.repo] EXCEPT !.dirty = TRUE])
      BY <1>1, <2>2 DEF Interrupted
    <3>2. PICK r \in Repos : r = step.repo
      BY <1>3, UpcomingStands DEF RunOK, StepOK
    <3>3. PICK c : c = clone[m][r]
      OBVIOUS
    <3>4. CloneOK(c, r)
      BY <1>3, <3>3 DEF StoresOK
    <3>5. PICK d : d = [c EXCEPT !.dirty = TRUE]
      OBVIOUS
    <3>6. CloneOK(d, r)
      BY <3>4, <3>5, DirtyIs
    <3>7. Changed(m, r, d)
      BY <3>1, <3>2, <3>3, <3>5
    <3> QED BY <1>2, <1>3, <3>6, <3>7, CloneChanges
  <2> QED BY <2>1, <2>2
<1>5. RunsOK'
  BY <1>2, <1>3, <1>4, IdlesIs, OthersRun DEF TypeInv
<1>6. UsedOK'
  BY <1>2, PromotionAssumption DEF TypeInv, UsedOK
<1> QED BY <1>4, <1>5, <1>6 DEF TypeInv

\* Every step keeps TypeInv.
LEMMA TypeNext ==
    ASSUME TypeInv, [Next]_vars
    PROVE  TypeInv'
<1>1. CASE \E p \in Pkgs : SourceChange(p)
  BY <1>1, TypeSource
<1>2. CASE \E m \in Machine, r \in Repos : Pull(m, r)
  BY <1>2, TypePull
<1>3. CASE \E m \in Machine, cmd \in Commands : Start(m, cmd)
  BY <1>3, TypeStart
<1>4. CASE \E m \in Machine : Works(m)
  BY <1>4, TypePlan, TypeApply, TypePushRepo, TypePushIsolated DEF Works
<1>5. CASE \E m \in Machine : Interrupted(m)
  BY <1>5, TypeInterrupted
<1>6. CASE UNCHANGED vars
  BY <1>6 DEF TypeInv, StoresOK, RunsOK, UsedOK, vars
<1> QED BY <1>1, <1>2, <1>3, <1>4, <1>5, <1>6 DEF Next

\* Origin and the clones are well formed and what a run is about to push is there.
THEOREM TypeCorrect == Spec => []TypeOK
<1>1. Init => TypeInv
  BY TypeInit
<1>2. TypeInv /\ [Next]_vars => TypeInv'
  BY TypeNext
<1>3. TypeInv => TypeOK
  BY TypeInvType
<1> QED BY <1>1, <1>2, <1>3, PTL DEF Spec

-----------------------------------------------------------------------------
(* One machine: origin and the run that is about to change it.  old is what is *)
(* on origin, c the clones, both by repository.                                *)

OneMachine == \A i, j \in Machine : i = j

\* What a run has changed of the tags is what it is about to push.
Behind(tags, old, refs) ==
    /\ Named(refs, "tag") \cap Named(refs, "delete") = {}
    /\ DOMAIN tags = (DOMAIN old \ Named(refs, "delete")) \cup Named(refs, "tag")
    /\ \A n \in DOMAIN tags : n \notin Named(refs, "tag") => tags[n] = old[n]

TriggersOK(tags) ==
    \A n \in DOMAIN tags : n.kind = "trigger" =>
        LET release == TagName(n.pkg, n.ver, "release")
        IN  release \in DOMAIN tags /\ tags[release] = tags[n]

\* Micro versions are used up one by one, see GenOK.
Follows(gen, v) == v[1] = 1 \/ \E f \in gen : IsFinal(f) /\ v[1] <= f[1] + 1
Fresh(old, p, v) ==
    /\ \A w \in Selection(old, p) : Before(w, v)
    /\ IsFinal(v) \/ TagName(p, v, "yanked") \notin DOMAIN old
    /\ Follows(Generation(old, p), v)

\* The tags that are to be pushed with one repository.
TagsBundled(refs, tags, old) ==
    /\ \A n \in Named(refs, "tag") :
        /\ n.kind # "trigger"
        /\ n.kind = "release" => Fresh(old, n.pkg, n.ver)
        /\ n.kind = "yanked" => n.ver \in Generation(old, n.pkg)
    /\ \A n \in Named(refs, "delete") :
        /\ n.kind # "yanked"
        /\ n.kind = "release" =>
            /\ TagName(n.pkg, n.ver, "trigger") \in Named(refs, "delete")
            /\ TagName(n.pkg, n.ver, "yanked") \in Named(refs, "tag")
            /\ n \in DOMAIN old /\ tags[TagName(n.pkg, n.ver, "yanked")] = old[n]

TagsSent(rn, c, old) ==
    \A r \in Repos : /\ Behind(c[r].tags, old[r].tags, Pending(rn, r))
                     /\ TriggersOK(c[r].tags)
                     /\ TagsBundled(rn.refs[r], c[r].tags, old[r].tags)

\* The releases to come.
NewReleases(todo, old) ==
    \A step \in todo : step.kind = "promote" =>
        /\ Fresh(old[step.repo].tags, step.pkg, step.ver) /\ FlavorOf(step.ver) = step.flavor
        /\ \A other \in todo : other.kind \notin {"yank", "rollback"}

\* What a yank leaves of a flavor, and the branch that follows it.
Rest(todo, tags, p, f) ==
    OfFlavor(Selection(tags, p)
             \ {s.ver : s \in {t \in todo : t.kind = "yank" /\ t.pkg = p}}, f)
RollsBack(todo, p, f) ==
    \E step \in todo : step.kind = "rollback" /\ step.pkg = p /\ step.flavor = f
Rollbacks(todo, c) ==
    /\ \A step \in todo : step.kind = "rollback" =>
        step.ver = Latest(Rest(todo, c[step.repo].tags, step.pkg, step.flavor))
    /\ \A step \in todo : step.kind = "yank" =>
        /\ step.flavor = FlavorOf(step.ver)
        /\ \/ RollsBack(todo, step.pkg, step.flavor)
           \/ Rest(todo, c[step.repo].tags, step.pkg, step.flavor) = {}

SameReleases(tags, old, p, f) ==
    /\ OfFlavor(Selection(tags, p), f) = OfFlavor(Selection(old, p), f)
    /\ \A v \in OfFlavor(Selection(tags, p), f) :
        tags[TagName(p, v, "release")] = old[TagName(p, v, "release")]
PointsAt(tags, branch, p, f) ==
    LET releases == OfFlavor(Selection(tags, p), f)
    IN  releases # {} =>
            branch[<<p, f>>] = tags[TagName(p, Latest(releases), "release")]
Pointers(rn, c, old) ==
    \A p \in Pkgs, f \in Flavors :
        \/ RollsBack(rn.todo, p, f)
        \/ OfFlavor(Selection(c[Repo(p)].tags, p), f) = {}
        \/ IF <<p, f>> \in Named(rn.refs[Repo(p)], "branch")
           THEN PointsAt(c[Repo(p)].tags, c[Repo(p)].branch, p, f)
           ELSE SameReleases(c[Repo(p)].tags, old[Repo(p)].tags, p, f)

\* A pin is released, yanked, or about to be released.
Pinned(todo, c, s, v) ==
    \/ v \in Generation(c["siblings"].tags, s)
    \/ \E step \in todo : step.kind = "promote" /\ step.pkg = s /\ step.ver = v
PinsKept(todo, c) ==
    /\ \A v \in Selection(c["core"].tags, Core), s \in Siblings :
        LET pin == c["core"].tags[TagName(Core, v, "release")].pin[s]
        IN  pin # None => Pinned(todo, c, s, pin)
    /\ \A step \in todo : step.kind = "promote" /\ step.repo = "core" =>
        /\ \A s \in DOMAIN step.forward_pins : Pinned(todo, c, s, step.forward_pins[s])
        /\ step.flavor = "pre" => DOMAIN step.forward_pins = Siblings

\* The siblings' repository is pushed first.
Bundling(step) == step.repo = "siblings" /\ step.kind \notin {"trigger", "reset"}
SiblingsFirst(rn) ==
    /\ ~rn.planned => rn.first = None
    /\ rn.refs["siblings"] # {} => rn.first = "siblings"
    /\ (\E step \in rn.todo : Bundling(step)) =>
        \/ rn.first = "siblings"
        \/ /\ rn.first = None
           /\ \E step \in rn.todo : step.repo = "siblings" /\ step.kind \in {"promote", "yank"}

RunInv(rn, c, old) ==
    /\ TagsSent(rn, c, old) /\ NewReleases(rn.todo, old) /\ Rollbacks(rn.todo, c)
    /\ Pointers(rn, c, old) /\ PinsKept(rn.todo, c) /\ SiblingsFirst(rn)

OriginInv(old) ==
    /\ \A r \in Repos : TriggersOK(old[r].tags)
    /\ \A p \in Pkgs, f \in Flavors : PointsAt(old[Repo(p)].tags, old[Repo(p)].branch, p, f)
    /\ \A v \in Selection(old["core"].tags, Core), s \in Siblings :
        LET pin == old["core"].tags[TagName(Core, v, "release")].pin[s]
        IN  pin # None => pin \in Generation(old["siblings"].tags, s)
    /\ \A p \in Pkgs : GenOK(Generation(old[Repo(p)].tags, p))

RunsInv ==
    \A m \in Machine :
        run[m] # Idle /\ run[m].cmd.name # "resync" => RunInv(run[m], clone[m], origin)

IInv == TypeInv /\ OriginInv(origin) /\ RunsInv

-----------------------------------------------------------------------------
(* Tags that are ahead of origin's *)

\* A further set of references, of names that were not touched yet.
LEMMA BehindMore ==
    ASSUME NEW old, NEW c, NEW d, NEW P, NEW L, Behind(c.tags, old, P), TagsAfter(c, d, L),
           Named(L, "tag") \cap Named(L, "delete") = {}, TagsOf(P) \cap TagsOf(L) = {}
    PROVE  Behind(d.tags, old, P \cup L)
<1>1. \A op : Named(P \cup L, op) = Named(P, op) \cup Named(L, op)
  BY NamedIs
<1>2. PICK Q : Q = P \cup L
  OBVIOUS
<1>3. /\ Named(Q, "tag") = Named(P, "tag") \cup Named(L, "tag")
      /\ Named(Q, "delete") = Named(P, "delete") \cup Named(L, "delete")
  BY <1>1, <1>2
<1>4. Named(P, "tag") \cap Named(P, "delete") = {}
  BY DEF Behind
<1>5. /\ Named(P, "tag") \cap Named(L, "delete") = {}
      /\ Named(P, "delete") \cap Named(L, "tag") = {}
  BY DEF TagsOf
<1>6. Named(Q, "tag") \cap Named(Q, "delete") = {}
  BY <1>3, <1>4, <1>5
<1>7. DOMAIN d.tags = (DOMAIN old \ Named(Q, "delete")) \cup Named(Q, "tag")
  BY <1>3, <1>5 DEF Behind, TagsAfter
<1>8. ASSUME NEW n \in DOMAIN d.tags, n \notin Named(Q, "tag") PROVE d.tags[n] = old[n]
  <2>1. n \in DOMAIN c.tags /\ n \notin Named(P, "tag") /\ n \notin Named(L, "tag")
    BY <1>3, <1>8 DEF TagsAfter
  <2> QED BY <1>8, <2>1 DEF Behind, TagsAfter
<1> QED BY <1>2, <1>6, <1>7, <1>8 DEF Behind

\* Origin after some of the references were pushed.
TagsPushed(tags, old, refs, new) ==
    /\ DOMAIN new = (DOMAIN old \ Named(refs, "delete")) \cup Named(refs, "tag")
    /\ \A n \in DOMAIN new : new[n] = IF n \in Named(refs, "tag") THEN tags[n] ELSE old[n]

\* Some of the references are pushed: the rest are what origin is behind by.
LEMMA BehindLess ==
    ASSUME NEW tags, NEW old, NEW new, NEW A, TagsPushed(tags, old, A, new), NEW B, NEW P,
           P = A \cup B, Behind(tags, old, P)
    PROVE  Behind(tags, new, B)
<1>1. /\ DOMAIN new = (DOMAIN old \ Named(A, "delete")) \cup Named(A, "tag")
      /\ \A n \in DOMAIN new : new[n] = IF n \in Named(A, "tag") THEN tags[n] ELSE old[n]
  BY DEF TagsPushed
<1>2. \A op : Named(A \cup B, op) = Named(A, op) \cup Named(B, op)
  BY NamedIs
<1>3. /\ Named(P, "tag") = Named(A, "tag") \cup Named(B, "tag")
      /\ Named(P, "delete") = Named(A, "delete") \cup Named(B, "delete")
  BY <1>2
<1>4. Named(P, "tag") \cap Named(P, "delete") = {}
  BY DEF Behind
<1>5. Named(B, "tag") \cap Named(B, "delete") = {}
  BY <1>3, <1>4
<1>6. DOMAIN tags = (DOMAIN old \ Named(P, "delete")) \cup Named(P, "tag")
  BY DEF Behind
<1>7. DOMAIN tags = (DOMAIN new \ Named(B, "delete")) \cup Named(B, "tag")
  BY <1>1, <1>3, <1>4, <1>6
<1>8. ASSUME NEW n \in DOMAIN tags, n \notin Named(B, "tag") PROVE tags[n] = new[n]
  <2>1. n \in DOMAIN new
    BY <1>7, <1>8
  <2>2. CASE n \in Named(A, "tag")
    BY <1>1, <2>1, <2>2
  <2>3. CASE n \notin Named(A, "tag")
    BY <1>1, <1>3, <1>8, <2>1, <2>3 DEF Behind
  <2> QED BY <2>2, <2>3
<1> QED BY <1>5, <1>7, <1>8 DEF Behind

\* Two sets of tags that differ in triggers only.
Agree(t, u) ==
    \A n \in DOMAIN t \cup DOMAIN u : n.kind # "trigger" =>
        n \in DOMAIN t /\ n \in DOMAIN u /\ t[n] = u[n]

\* Origin that is behind by triggers only has the same releases.
LEMMA BehindAgree ==
    ASSUME NEW tags, NEW old, NEW B, Behind(tags, old, B), \A n \in TagsOf(B) : n.kind = "trigger"
    PROVE  Agree(tags, old)
BY DEF Behind, Agree, TagsOf

\* Tags that agree but for triggers speak of the same releases.
LEMMA AgreeIs ==
    ASSUME NEW r, NEW t, TagsOK(t, r), NEW u, TagsOK(u, r), Agree(t, u), NEW p \in PkgsIn(r)
    PROVE  /\ Selection(t, p) = Selection(u, p) /\ Generation(t, p) = Generation(u, p)
           /\ \A v \in Selection(t, p) :
                t[TagName(p, v, "release")] = u[TagName(p, v, "release")]
           /\ \A f : SameReleases(t, u, p, f)
<1>1. /\ \A v : v \in Selection(t, p) <=> TagName(p, v, "release") \in DOMAIN t
      /\ \A v : v \in Generation(t, p) <=> \/ TagName(p, v, "release") \in DOMAIN t
                                           \/ TagName(p, v, "yanked") \in DOMAIN t
  BY SelectionIs
<1>2. /\ \A v : v \in Selection(u, p) <=> TagName(p, v, "release") \in DOMAIN u
      /\ \A v : v \in Generation(u, p) <=> \/ TagName(p, v, "release") \in DOMAIN u
                                           \/ TagName(p, v, "yanked") \in DOMAIN u
  BY SelectionIs
<1>3. \A v, kind : TagName(p, v, kind).kind = kind
  BY DEF TagName
<1>4. \A v, kind : kind # "trigger" =>
        /\ TagName(p, v, kind) \in DOMAIN t <=> TagName(p, v, kind) \in DOMAIN u
        /\ TagName(p, v, kind) \in DOMAIN t => t[TagName(p, v, kind)] = u[TagName(p, v, kind)]
  BY <1>3 DEF Agree
<1>5. Selection(t, p) = Selection(u, p)
  BY <1>1, <1>2, <1>4
<1>6. Generation(t, p) = Generation(u, p)
  BY <1>1, <1>2, <1>4
<1>7. \A v \in Selection(t, p) : t[TagName(p, v, "release")] = u[TagName(p, v, "release")]
  BY <1>1, <1>4
<1>8. \A f : SameReleases(t, u, p, f)
  BY <1>5, <1>7 DEF SameReleases, OfFlavor
<1> QED BY <1>5, <1>6, <1>7, <1>8

-----------------------------------------------------------------------------
(* The run before its steps *)

\* A change of main alone.
SameTags(old, new) ==
    \A r \in Repos : new[r].tags = old[r].tags /\ new[r].branch = old[r].branch

\* What holds of origin is of its tags and release branches only.
LEMMA OriginSame ==
    ASSUME NEW old, NEW new, SameTags(old, new), OriginInv(old)
    PROVE  OriginInv(new)
<1>1. \A r \in Repos : new[r].tags = old[r].tags /\ new[r].branch = old[r].branch
  BY DEF SameTags
<1>2. \A p \in Pkgs : Repo(p) \in Repos
  BY PkgsFinite
<1>3. {"siblings", "core"} \subseteq Repos
  BY DEF Repos
<1>4. \A r \in Repos : TriggersOK(new[r].tags)
  BY <1>1 DEF OriginInv
<1>5. \A p \in Pkgs, f \in Flavors : PointsAt(new[Repo(p)].tags, new[Repo(p)].branch, p, f)
  BY <1>1, <1>2 DEF OriginInv
<1>6. \A v \in Selection(new["core"].tags, Core), s \in Siblings :
        LET pin == new["core"].tags[TagName(Core, v, "release")].pin[s]
        IN  pin # None => pin \in Generation(new["siblings"].tags, s)
  BY <1>1, <1>3 DEF OriginInv
<1>7. \A p \in Pkgs : GenOK(Generation(new[Repo(p)].tags, p))
  BY <1>1, <1>2 DEF OriginInv
<1> QED BY <1>4, <1>5, <1>6, <1>7 DEF OriginInv

\* What holds of a run is of origin's tags and release branches only.
LEMMA RunSame ==
    ASSUME NEW old, NEW new, SameTags(old, new), NEW rn, NEW c, PlanOK(c, rn.todo),
           RunInv(rn, c, old)
    PROVE  RunInv(rn, c, new)
<1>1. \A r \in Repos : new[r].tags = old[r].tags
  BY DEF SameTags
<1>2. \A p \in Pkgs : Repo(p) \in Repos
  BY PkgsFinite
<1>3. \A step \in rn.todo : step.repo \in Repos
  BY DEF PlanOK, StepOK
<1>4. TagsSent(rn, c, new)
  BY <1>1 DEF RunInv, TagsSent
<1>5. NewReleases(rn.todo, new)
  BY <1>1, <1>3 DEF RunInv, NewReleases
<1>6. Pointers(rn, c, new)
  BY <1>1, <1>2 DEF RunInv, Pointers
<1> QED BY <1>4, <1>5, <1>6 DEF RunInv

\* A run that was verified starts from origin's tags.
LEMMA VerifiedInv ==
    ASSUME NEW old, OriginInv(old), NEW c, \A r \in Repos : c[r].tags = old[r].tags,
           NEW rn, NEW cmd, rn = Verified(cmd)
    PROVE  RunInv(rn, c, old)
<1>1. /\ rn.todo = {} /\ rn.isolated = {} /\ rn.first = None /\ ~rn.planned
      /\ rn.refs = NoRefs
  BY DEF Verified
<1>2. \A r \in Repos : rn.refs[r] = {}
  BY <1>1 DEF NoRefs
<1>3. \A r \in Repos : Pending(rn, r) = {}
  BY <1>1, <1>2 DEF Pending
<1>4. \A op : Named({}, op) = {}
  BY NamedIs
<1>5. TagsSent(rn, c, old)
  <2> SUFFICES ASSUME NEW r \in Repos
               PROVE  /\ Behind(c[r].tags, old[r].tags, Pending(rn, r))
                      /\ TriggersOK(c[r].tags)
                      /\ TagsBundled(rn.refs[r], c[r].tags, old[r].tags)
    BY DEF TagsSent
  <2>1. TriggersOK(c[r].tags)
    BY DEF OriginInv
  <2>2. Behind(c[r].tags, old[r].tags, {})
    BY <1>4 DEF Behind
  <2>3. TagsBundled({}, c[r].tags, old[r].tags)
    BY <1>4 DEF TagsBundled
  <2> QED BY <1>2, <1>3, <2>1, <2>2, <2>3
<1>6. NewReleases(rn.todo, old) /\ Rollbacks(rn.todo, c)
  BY <1>1 DEF NewReleases, Rollbacks
<1>7. Pointers(rn, c, old)
  <2>1. \A p \in Pkgs : Repo(p) \in Repos
    BY PkgsFinite
  <2>2. ASSUME NEW p \in Pkgs, NEW f \in Flavors
        PROVE  /\ Named(rn.refs[Repo(p)], "branch") = {}
               /\ SameReleases(c[Repo(p)].tags, old[Repo(p)].tags, p, f)
    BY <1>2, <1>4, <2>1 DEF SameReleases
  <2> QED BY <2>2 DEF Pointers
<1>8. PinsKept(rn.todo, c)
  <2>1. {"siblings", "core"} \subseteq Repos
    BY DEF Repos
  <2>2. ASSUME NEW v \in Selection(c["core"].tags, Core), NEW s \in Siblings,
               c["core"].tags[TagName(Core, v, "release")].pin[s] # None
        PROVE  Pinned(rn.todo, c, s, c["core"].tags[TagName(Core, v, "release")].pin[s])
    <3>1. c["core"].tags = old["core"].tags /\ c["siblings"].tags = old["siblings"].tags
      BY <2>1
    <3> QED BY <2>2, <3>1 DEF OriginInv, Pinned
  <2> QED BY <1>1, <2>2 DEF PinsKept
<1>9. SiblingsFirst(rn)
  <2>1. rn.refs["siblings"] = {}
    BY <1>2 DEF Repos
  <2> QED BY <1>1, <2>1 DEF SiblingsFirst
<1> QED BY <1>5, <1>6, <1>7, <1>8, <1>9 DEF RunInv

\* Nothing was released yet.
LEMMA OriginInit ==
    ASSUME Init
    PROVE  OriginInv(origin)
<1>1. \A r \in Repos : DOMAIN origin[r].tags = {}
  BY DEF Init
<1>2. \A p \in Pkgs : Repo(p) \in Repos
  BY PkgsFinite
<1>3. {"siblings", "core"} \subseteq Repos
  BY DEF Repos
<1>4. \A t, p : DOMAIN t = {} => Selection(t, p) = {} /\ Generation(t, p) = {}
  BY DEF Selection, Generation, OfKind
<1>5. \A r \in Repos : TriggersOK(origin[r].tags)
  BY <1>1 DEF TriggersOK
<1>6. \A p \in Pkgs, f \in Flavors : PointsAt(origin[Repo(p)].tags, origin[Repo(p)].branch, p, f)
  BY <1>1, <1>2, <1>4 DEF PointsAt, OfFlavor
<1>7. \A p \in Pkgs : GenOK(Generation(origin[Repo(p)].tags, p))
  BY <1>1, <1>2, <1>4 DEF GenOK
<1>8. Selection(origin["core"].tags, Core) = {}
  BY <1>1, <1>3, <1>4
<1> QED BY <1>5, <1>6, <1>7, <1>8 DEF OriginInv

-----------------------------------------------------------------------------
(* Plans *)

\* What a plan promises of the steps it is made of, for clones that are at origin.
CorePins(todo, c) ==
    \A step \in todo : step.kind = "promote" /\ step.repo = "core" =>
        /\ \A s \in DOMAIN step.forward_pins : Pinned(todo, c, s, step.forward_pins[s])
        /\ step.flavor = "pre" => DOMAIN step.forward_pins = Siblings
SiblingsToo(todo) ==
    (\E step \in todo : Bundling(step)) =>
        \E step \in todo : step.repo = "siblings" /\ step.kind \in {"promote", "yank"}
PlanInv(todo, c) ==
    NewReleases(todo, c) /\ Rollbacks(todo, c) /\ CorePins(todo, c) /\ SiblingsToo(todo)

\* Core has a repository of its own.
LEMMA RepoIs ==
    /\ \A s \in Siblings : s \in Pkgs /\ s # Core /\ Repo(s) = "siblings"
    /\ Core \in Pkgs /\ Repo(Core) = "core"
    /\ \A p \in Pkgs : (Repo(p) = "core" <=> p = Core) /\ (Repo(p) = "siblings" <=> p \in Siblings)
    /\ "siblings" \in Repos /\ "core" \in Repos
BY PlanAssumption DEF Pkgs, Repo, Repos

\* A release that is decided on is new and of the flavor that was asked for.
LEMMA DecidedFresh ==
    ASSUME NEW c, LocalOK(c), NEW flavor \in Flavors, NEW D, D = Decided(c, flavor),
           NEW p \in Pkgs, D[p].act, NEW t, t = c[Repo(p)].tags, GenOK(Generation(t, p))
    PROVE  Fresh(t, p, D[p].ver) /\ FlavorOf(D[p].ver) = flavor
<1>1. PICK tags : tags = Tags(c)
  OBVIOUS
<1>2. tags[p] = t /\ TagsOK(t, Repo(p)) /\ p \in PkgsIn(Repo(p)) /\ Repo(p) \in Repos
  BY <1>1, TagsIs, PkgsFinite
<1>3. PICK S, gen, v : S = Selection(t, p) /\ gen = Generation(t, p) /\ v = D[p].ver
  OBVIOUS
<1>4. /\ S \subseteq Version /\ IsFiniteSet(S) /\ gen \subseteq Version
      /\ \A w : w \in S <=> TagName(p, w, "release") \in DOMAIN t
      /\ \A w : w \in gen <=> \/ TagName(p, w, "release") \in DOMAIN t
                              \/ TagName(p, w, "yanked") \in DOMAIN t
  BY <1>2, <1>3, SelectionIs
<1>5. GenOK(gen)
  BY <1>3
<1>6. CASE flavor = "pre"
  <2>1. D = DecidePre(Heads(c), tags)
    BY <1>1, <1>6 DEF Decided
  <2>2. D[p] = NewRc(p, tags)
    BY <1>1, <2>1, DecidePreIs
  <2>3. PICK d : d = D[p]
    OBVIOUS
  <2>4. /\ d.ver \in Version /\ ~IsFinal(d.ver) /\ d.ver \notin Generation(tags[p], p)
        /\ GenOK(Generation(tags[p], p)) =>
                /\ \A w \in Generation(tags[p], p) : Before(w, d.ver)
                /\ GenOK(Generation(tags[p], p) \cup {d.ver})
    <3>1. PICK r : r = Repo(p)
      OBVIOUS
    <3>2. p \in PkgsIn(r) /\ TagsOK(tags[p], r) /\ d = NewRc(p, tags)
      BY <1>2, <2>2, <2>3, <3>1
    <3> QED BY <3>2, NewRcIs
  <2>5. /\ v \in Version /\ ~IsFinal(v) /\ v \notin gen
        /\ \A w \in gen : Before(w, v)
        /\ GenOK(gen \cup {v})
    BY <1>2, <1>3, <1>5, <2>3, <2>4
  <2>6. Follows(gen, v)
    BY <2>5 DEF Follows, GenOK
  <2>7. \A w \in S : Before(w, v)
    BY <1>4, <2>5
  <2>8. TagName(p, v, "yanked") \notin DOMAIN t
    BY <1>4, <2>5
  <2>9. FlavorOf(v) = flavor
    BY <1>6, <2>5 DEF FlavorOf
  <2> QED BY <1>3, <2>6, <2>7, <2>8, <2>9 DEF Fresh
<1>7. CASE flavor = "prod"
  <2>1. D = DecideProd(tags)
    BY <1>1, <1>7 DEF Decided
  <2>2. PICK latest : latest = Latest(S)
    OBVIOUS
  <2>3. latest \in S /\ ~IsFinal(latest) /\ v \in Version /\ v[1] = latest[1] /\ v[2] = 0
    BY <1>1, <1>2, <1>3, <2>1, <2>2, DecideProdIs
  <2>4. \A w \in S \ {latest} : Before(w, latest)
    BY <1>4, <2>2, <2>3, LatestIs
  <2>5. latest \in Version /\ IsFinal(v) /\ Before(latest, v)
    BY <1>4, <2>3 DEF Before, IsFinal
  <2>6. ASSUME NEW w \in S PROVE Before(w, v)
    <3>1. w \in Version
      BY <1>4
    <3>2. w = latest \/ Before(w, latest)
      BY <2>4
    <3>3. Before(w, latest) /\ Before(latest, v) => Before(w, v)
      BY <2>3, <2>5, <3>1, BeforeOrders
    <3> QED BY <2>5, <3>2, <3>3
  <2>7. latest \in gen
    BY <1>4, <2>3
  <2>8. Follows(gen, v)
    BY <1>5, <2>3, <2>7 DEF Follows, GenOK
  <2>9. FlavorOf(v) = flavor
    BY <1>7, <2>5 DEF FlavorOf
  <2> QED BY <1>3, <2>5, <2>6, <2>8, <2>9 DEF Fresh
<1> QED BY <1>6, <1>7 DEF Flavors

\* The version of a sibling that is not cut again was released.
LEMMA DecidedPins ==
    ASSUME NEW c, LocalOK(c), NEW flavor \in Flavors, NEW D, D = Decided(c, flavor),
           NEW s \in Siblings
    PROVE  /\ ~D[s].act /\ D[s].ver # None => D[s].ver \in Generation(c["siblings"].tags, s)
           /\ flavor = "pre" => D[s].ver # None
<1>1. PICK tags : tags = Tags(c)
  OBVIOUS
<1>2. s \in Pkgs /\ Repo(s) = "siblings"
  BY RepoIs
<1>3. PICK t : t = tags[s]
  OBVIOUS
<1>4. t = c["siblings"].tags /\ TagsOK(t, Repo(s)) /\ s \in PkgsIn(Repo(s))
  BY <1>1, <1>2, <1>3, TagsIs
<1>5. Selection(t, s) \subseteq Generation(t, s)
  BY <1>4, SelectionIs
<1>6. CASE flavor = "pre"
  <2>1. D = DecidePre(Heads(c), tags)
    BY <1>1, <1>6 DEF Decided
  <2>2. D[s].ver \in Version /\ (~D[s].act => D[s].ver \in Selection(t, s))
    BY <1>1, <1>2, <1>3, <2>1, DecidePreIs
  <2>3. D[s].ver # None
    BY <2>2, PlanAssumption DEF Version
  <2> QED BY <1>4, <1>5, <2>2, <2>3
<1>7. CASE flavor = "prod"
  <2>1. D = DecideProd(tags)
    BY <1>1, <1>7 DEF Decided
  <2>2. ~D[s].act => D[s].ver = None
    BY <1>1, <1>2, <2>1, DecideProdIs
  <2> QED BY <1>7, <2>2
<1> QED BY <1>6, <1>7 DEF Flavors

\* What `pre` and `prod` plan: new versions in order, whose pins resolve.
LEMMA PromotePlanInv ==
    ASSUME NEW c, LocalOK(c), \A p \in Pkgs : GenOK(Generation(c[Repo(p)].tags, p)),
           NEW flavor \in Flavors, NEW publish, NEW D, D = Decided(c, flavor),
           NEW todo, todo = PromoteSteps(flavor, publish, D)
    PROVE  PlanInv(todo, c)
<1>1. ASSUME NEW step \in todo
      PROVE  \E p \in Pkgs :
                /\ D[p].act /\ step.pkg = p /\ step.repo = Repo(p)
                /\ step.kind \in {"promote", "edit", "marker", "trigger"}
                /\ step.kind = "promote" =>
                    /\ step.flavor = flavor /\ step.ver = D[p].ver
                    /\ step.forward_pins = ForwardPins(p, D)
  <2>1. PICK F : F = PromoteSteps(flavor, publish, D) /\ step \in F
    BY <1>1
  <2>2. PICK p \in Pkgs :
             /\ D[p].act
             /\ \/ step = PromoteStep(p, flavor, D)
                \/ step \in Epilogue(p, flavor, D)
                \/ step = Step("marker", p, D[p].ver, flavor)
                \/ step = TriggerStep(p, D[p].ver, flavor, FALSE)
    BY <2>1, PromoteStepsAre
  <2>3. CASE step \in Epilogue(p, flavor, D)
    <3>1. \A q \in Pkgs : D[q].act \/ D[q].ver # None => D[q].ver \in Version
      BY DecidedIs
    <3>2. step.kind = "edit" /\ step.pkg = p /\ step.repo = Repo(p)
      BY <2>3, <3>1, EpilogueIs
    <3> QED BY <2>2, <3>2
  <2>4. CASE step = PromoteStep(p, flavor, D)
    BY <2>2, <2>4 DEF PromoteStep
  <2>5. CASE step = Step("marker", p, D[p].ver, flavor)
    BY <2>2, <2>5 DEF Step
  <2>6. CASE step = TriggerStep(p, D[p].ver, flavor, FALSE)
    BY <2>2, <2>6 DEF TriggerStep
  <2> QED BY <2>2, <2>3, <2>4, <2>5, <2>6
<1>2. ASSUME NEW p \in Pkgs, D[p].act
      PROVE  \E step \in todo : /\ step.kind = "promote" /\ step.pkg = p /\ step.repo = Repo(p)
                                /\ step.ver = D[p].ver
  <2>1. PICK step : step = PromoteStep(p, flavor, D)
    OBVIOUS
  <2>2. step \in todo
    BY <1>2, <2>1 DEF PromoteSteps
  <2>3. /\ step.kind = "promote" /\ step.pkg = p /\ step.repo = Repo(p) /\ step.ver = D[p].ver
    BY <2>1 DEF PromoteStep
  <2> QED BY <2>2, <2>3
<1>3. NewReleases(todo, c)
  <2> SUFFICES ASSUME NEW step \in todo, step.kind = "promote"
               PROVE  /\ Fresh(c[step.repo].tags, step.pkg, step.ver)
                      /\ FlavorOf(step.ver) = step.flavor
                      /\ \A other \in todo : other.kind \notin {"yank", "rollback"}
    BY DEF NewReleases
  <2>1. PICK p \in Pkgs : /\ D[p].act /\ step.pkg = p /\ step.repo = Repo(p)
                          /\ step.flavor = flavor /\ step.ver = D[p].ver
    BY <1>1
  <2>2. PICK t : t = c[Repo(p)].tags
    OBVIOUS
  <2>3. GenOK(Generation(t, p))
    BY <2>2
  <2>4. Fresh(t, p, D[p].ver) /\ FlavorOf(D[p].ver) = flavor
    BY <2>1, <2>2, <2>3, DecidedFresh
  <2>5. \A other \in todo : other.kind \notin {"yank", "rollback"}
    BY <1>1
  <2> QED BY <2>1, <2>2, <2>4, <2>5
<1>4. Rollbacks(todo, c)
  <2>1. \A step \in todo : step.kind \notin {"yank", "rollback"}
    BY <1>1
  <2> QED BY <2>1 DEF Rollbacks
<1>5. CorePins(todo, c)
  <2> SUFFICES ASSUME NEW step \in todo, step.kind = "promote", step.repo = "core"
               PROVE  /\ \A s \in DOMAIN step.forward_pins :
                            Pinned(todo, c, s, step.forward_pins[s])
                      /\ step.flavor = "pre" => DOMAIN step.forward_pins = Siblings
    BY DEF CorePins
  <2>1. step.flavor = flavor /\ step.forward_pins = ForwardPins(Core, D)
    BY <1>1, RepoIs
  <2>2. PICK f : f = step.forward_pins
    OBVIOUS
  <2>3. /\ DOMAIN f = {s \in Siblings : D[s].ver # None}
        /\ \A s \in DOMAIN f : f[s] = D[s].ver
    BY <2>1, <2>2 DEF ForwardPins
  <2>4. \A s \in Siblings :
          /\ ~D[s].act /\ D[s].ver # None => D[s].ver \in Generation(c["siblings"].tags, s)
          /\ flavor = "pre" => D[s].ver # None
    BY DecidedPins
  <2>5. ASSUME NEW s \in DOMAIN f PROVE Pinned(todo, c, s, f[s])
    <3>1. s \in Siblings /\ s \in Pkgs /\ D[s].ver # None /\ f[s] = D[s].ver
      BY <2>3, RepoIs
    <3>2. CASE D[s].act
      <4>1. \E other \in todo : other.kind = "promote" /\ other.pkg = s /\ other.ver = f[s]
        BY <1>2, <3>1, <3>2
      <4> QED BY <4>1 DEF Pinned
    <3>3. CASE ~D[s].act
      BY <2>4, <3>1, <3>3 DEF Pinned
    <3> QED BY <3>2, <3>3
  <2>6. flavor = "pre" => DOMAIN f = Siblings
    BY <2>3, <2>4
  <2> QED BY <2>1, <2>2, <2>5, <2>6
<1>6. SiblingsToo(todo)
  <2> SUFFICES ASSUME NEW step \in todo, Bundling(step)
               PROVE  \E other \in todo :
                        other.repo = "siblings" /\ other.kind \in {"promote", "yank"}
    BY DEF SiblingsToo
  <2>1. PICK p \in Pkgs : D[p].act /\ step.repo = Repo(p)
    BY <1>1
  <2>2. Repo(p) = "siblings"
    BY <2>1 DEF Bundling
  <2> QED BY <1>2, <2>1, <2>2
<1> QED BY <1>3, <1>4, <1>5, <1>6 DEF PlanInv

\* `--publish-only` plans no release.
LEMMA TriggerPlanInv ==
    ASSUME NEW c, NEW todo, \A step \in todo : step.kind = "trigger"
    PROVE  PlanInv(todo, c)
<1>1. NewReleases(todo, c) /\ Rollbacks(todo, c) /\ CorePins(todo, c)
  BY DEF NewReleases, Rollbacks, CorePins
<1>2. SiblingsToo(todo)
  BY DEF SiblingsToo, Bundling
<1> QED BY <1>1, <1>2 DEF PlanInv

\* What `yank` plans: the branch goes back to the release before.
LEMMA YankPlanInv ==
    ASSUME NEW c, LocalOK(c), NEW p \in Pkgs, NEW todo, todo = YankSteps(Tags(c), p)
    PROVE  PlanInv(todo, c)
<1>1. PICK tags : tags = Tags(c)
  OBVIOUS
<1>2. PICK t : t = tags[p]
  OBVIOUS
<1>3. PICK S : S = Selection(t, p)
  OBVIOUS
<1>4. PICK v : v = Latest(S)
  OBVIOUS
<1>5. PICK prev : prev = Latest(OfFlavor(S \ {v}, FlavorOf(v)))
  OBVIOUS
<1>6. ASSUME NEW step \in todo
      PROVE  /\ v \in S
             /\ \/ step = Step("yank", p, v, FlavorOf(v))
                \/ step.kind = "edit" /\ step.pkg = Core /\ StepOK(step)
                \/ step = Step("rollback", p, prev, FlavorOf(v)) /\ prev \in S \ {v}
             /\ Step("yank", p, v, FlavorOf(v)) \in todo
             /\ prev # None => Step("rollback", p, prev, FlavorOf(v)) \in todo
  BY <1>1, <1>2, <1>3, <1>4, <1>5, YankStepsAre
<1>7. t = c[Repo(p)].tags /\ TagsOK(t, Repo(p)) /\ p \in PkgsIn(Repo(p))
  BY <1>1, <1>2, TagsIs, PkgsFinite
<1>8. S \subseteq Version /\ IsFiniteSet(S)
  BY <1>3, <1>7, SelectionIs
<1>9. ASSUME NEW step, step = Step("yank", p, v, FlavorOf(v))
      PROVE  /\ step.kind = "yank" /\ step.repo = Repo(p) /\ step.pkg = p
             /\ step.ver = v /\ step.flavor = FlavorOf(v)
  BY <1>9 DEF Step
<1>10. ASSUME NEW step, step = Step("rollback", p, prev, FlavorOf(v))
       PROVE  /\ step.kind = "rollback" /\ step.repo = Repo(p) /\ step.pkg = p
              /\ step.ver = prev /\ step.flavor = FlavorOf(v)
  BY <1>10 DEF Step
<1>11. \A step \in todo :
          /\ step.kind \in {"yank", "edit", "rollback"}
          /\ step.kind = "edit" => step.repo = "core"
          /\ step.kind # "edit" => step.repo = Repo(p) /\ step.pkg = p /\ step.flavor = FlavorOf(v)
          /\ step.kind = "yank" => step.ver = v
          /\ step.kind = "rollback" => step.ver = prev
  BY <1>6, <1>9, <1>10, RepoIs DEF StepOK
<1>12. NewReleases(todo, c) /\ CorePins(todo, c)
  BY <1>11 DEF NewReleases, CorePins
<1>13. ASSUME NEW step \in todo
       PROVE  \E yank \in todo : yank.kind = "yank" /\ yank.repo = Repo(p) /\ yank.pkg = p /\ yank.ver = v
  BY <1>6, <1>9, <1>13
<1>14. ASSUME NEW step \in todo
       PROVE  Rest(todo, c[Repo(p)].tags, p, FlavorOf(v)) = OfFlavor(S \ {v}, FlavorOf(v))
  <2>1. PICK Y : Y = {s.ver : s \in {x \in todo : x.kind = "yank" /\ x.pkg = p}}
    OBVIOUS
  <2>2. Y = {v}
    BY <1>11, <1>13, <1>14, <2>1
  <2> QED BY <1>3, <1>7, <2>1, <2>2 DEF Rest
<1>15. Rollbacks(todo, c)
  <2>1. ASSUME NEW step \in todo, step.kind = "rollback"
        PROVE  step.ver = Latest(Rest(todo, c[step.repo].tags, step.pkg, step.flavor))
    BY <1>5, <1>11, <1>14, <2>1
  <2>2. ASSUME NEW step \in todo, step.kind = "yank"
        PROVE  /\ step.flavor = FlavorOf(step.ver)
               /\ \/ RollsBack(todo, step.pkg, step.flavor)
                  \/ Rest(todo, c[step.repo].tags, step.pkg, step.flavor) = {}
    <3>1. CASE prev = None
      <4>1. PICK F : F = OfFlavor(S \ {v}, FlavorOf(v))
        OBVIOUS
      <4>2. F \subseteq Version /\ IsFiniteSet(F)
        <5>1. F \subseteq S
          BY <4>1 DEF OfFlavor
        <5> QED BY <1>8, <5>1, FS_Subset
      <4>3. F = {}
        BY <1>5, <3>1, <4>1, <4>2, LatestNone
      <4> QED BY <1>11, <1>14, <2>2, <4>1, <4>3
    <3>2. CASE prev # None
      <4>1. Step("rollback", p, prev, FlavorOf(v)) \in todo
        BY <1>6, <3>2
      <4>2. RollsBack(todo, p, FlavorOf(v))
        BY <1>10, <4>1 DEF RollsBack
      <4> QED BY <1>11, <2>2, <4>2
    <3> QED BY <3>1, <3>2
  <2> QED BY <2>1, <2>2 DEF Rollbacks
<1>16. SiblingsToo(todo)
  <2> SUFFICES ASSUME NEW step \in todo, Bundling(step)
               PROVE  \E other \in todo :
                        other.repo = "siblings" /\ other.kind \in {"promote", "yank"}
    BY DEF SiblingsToo
  <2>1. Repo(p) = "siblings"
    BY <1>11 DEF Bundling
  <2> QED BY <1>13, <2>1
<1> QED BY <1>12, <1>15, <1>16 DEF PlanInv

\* Every plan but that of `resync`, which pushes nothing.
LEMMA StepsInv ==
    ASSUME NEW c, LocalOK(c), \A p \in Pkgs : GenOK(Generation(c[Repo(p)].tags, p)),
           NEW cmd \in Commands, cmd.name # "resync", NEW todo, todo = Steps(c, cmd)
    PROVE  PlanInv(todo, c)
<1>1. CASE cmd.name \in Flavors
  <2>1. PICK flavor \in Flavors : flavor = cmd.name
    BY <1>1
  <2>2. PICK publish : publish = cmd.publish
    OBVIOUS
  <2>3. PICK D : D = Decided(c, flavor)
    OBVIOUS
  <2>4. todo = PromoteSteps(flavor, publish, D)
    BY <1>1, <2>1, <2>2, <2>3 DEF Steps, Flavors
  <2> QED BY <2>3, <2>4, PromotePlanInv
<1>2. CASE cmd.name = "publish"
  <2>1. cmd.flavor \in Flavors
    BY <1>2 DEF Commands, Flavors
  <2>2. PICK flavor \in Flavors : flavor = cmd.flavor
    BY <2>1
  <2>3. todo = TriggerSteps(Tags(c), flavor)
    BY <1>2, <2>2 DEF Steps, Flavors
  <2>4. \A step \in todo : step.kind = "trigger"
    BY <2>3, TriggerPlanOK
  <2> QED BY <2>4, TriggerPlanInv
<1>3. CASE cmd.name = "yank"
  <2>1. cmd.pkg \in Pkgs
    BY <1>3 DEF Commands, Flavors
  <2>2. PICK p \in Pkgs : p = cmd.pkg
    BY <2>1
  <2>3. todo = YankSteps(Tags(c), p)
    BY <1>3, <2>2 DEF Steps, Flavors
  <2> QED BY <2>3, YankPlanInv
<1> QED BY <1>1, <1>2, <1>3 DEF Commands

\* A clone that origin is not behind has its tags.
LEMMA BehindNothing ==
    ASSUME NEW r, NEW t, TagsOK(t, r), NEW u, TagsOK(u, r), Behind(t, u, {})
    PROVE  t = u
<1>1. \A op : Named({}, op) = {}
  BY NamedIs
<1>2. DOMAIN t = DOMAIN u /\ \A n \in DOMAIN t : t[n] = u[n]
  BY <1>1 DEF Behind
<1>3. t \in [DOMAIN t -> Commit] /\ u \in [DOMAIN u -> Commit]
  BY DEF TagsOK
<1> QED BY <1>2, <1>3

\* A plan is made from origin's tags, hence its releases are new there.
LEMMA PlannedInv ==
    ASSUME NEW c, LocalOK(c), NEW old, LocalOK(old), OriginInv(old), NEW rn, RunOK(rn, c),
           ~rn.planned, rn.cmd.name # "resync", RunInv(rn, c, old),
           NEW next, next = [rn EXCEPT !.planned = TRUE, !.todo = Steps(c, rn.cmd)]
    PROVE  RunInv(next, c, old)
<1>1. /\ rn.todo = {} /\ rn.refs = NoRefs /\ rn.isolated = {} /\ rn.cmd \in Commands
      /\ rn = [cmd |-> rn.cmd, planned |-> rn.planned, todo |-> rn.todo, refs |-> rn.refs,
               isolated |-> rn.isolated, first |-> rn.first]
  BY DEF RunOK, RunShape
<1>2. rn.first = None
  BY DEF RunInv, SiblingsFirst
<1>3. PICK todo : todo = Steps(c, rn.cmd)
  OBVIOUS
<1>4. /\ next.todo = todo /\ next.refs = rn.refs /\ next.isolated = rn.isolated
      /\ next.first = None /\ next.planned
  BY <1>1, <1>2, <1>3
<1>5. \A r \in Repos : rn.refs[r] = {} /\ Pending(rn, r) = {} /\ Pending(next, r) = {}
  BY <1>1, <1>4 DEF NoRefs, Pending
<1>6. ASSUME NEW r \in Repos PROVE c[r].tags = old[r].tags
  <2>1. PICK t, u : t = c[r].tags /\ u = old[r].tags
    OBVIOUS
  <2>2. TagsOK(t, r) /\ TagsOK(u, r)
    BY <2>1 DEF LocalOK, CloneOK
  <2>3. Behind(t, u, {})
    BY <1>5, <2>1 DEF RunInv, TagsSent
  <2> QED BY <2>1, <2>2, <2>3, BehindNothing
<1>7. \A p \in Pkgs : Repo(p) \in Repos
  BY PkgsFinite
<1>8. \A p \in Pkgs : GenOK(Generation(c[Repo(p)].tags, p))
  BY <1>6, <1>7 DEF OriginInv
<1>9. PlanInv(todo, c)
  BY <1>1, <1>3, <1>8, StepsInv
<1>10. TagsSent(next, c, old)
  BY <1>4, <1>5 DEF RunInv, TagsSent
<1>11. \A step \in todo : step.repo \in Repos
  BY <1>1, <1>3, StepsOK DEF PlanOK, StepOK
<1>12. NewReleases(todo, old)
  BY <1>6, <1>9, <1>11 DEF PlanInv, NewReleases
<1>13. Pointers(next, c, old)
  <2>1. ASSUME NEW p \in Pkgs, NEW f \in Flavors
        PROVE  /\ Named(next.refs[Repo(p)], "branch") = {}
               /\ SameReleases(c[Repo(p)].tags, old[Repo(p)].tags, p, f)
    <3>1. Named({}, "branch") = {}
      BY NamedIs
    <3> QED BY <1>4, <1>5, <1>6, <1>7, <3>1 DEF SameReleases
  <2> QED BY <2>1 DEF Pointers
<1>14. PinsKept(todo, c)
  <2>1. \A s, v : Pinned({}, c, s, v) => Pinned(todo, c, s, v)
    BY DEF Pinned
  <2>2. PinsKept({}, c)
    BY <1>1 DEF RunInv
  <2>3. ASSUME NEW v \in Selection(c["core"].tags, Core), NEW s \in Siblings,
               c["core"].tags[TagName(Core, v, "release")].pin[s] # None
        PROVE  Pinned(todo, c, s, c["core"].tags[TagName(Core, v, "release")].pin[s])
    BY <2>1, <2>2, <2>3 DEF PinsKept
  <2> QED BY <1>9, <2>3 DEF PlanInv, CorePins, PinsKept
<1>15. SiblingsFirst(next)
  <2>1. next.refs["siblings"] = {}
    BY <1>4, <1>5, RepoIs
  <2> QED BY <1>4, <1>9, <2>1 DEF PlanInv, SiblingsToo, SiblingsFirst
<1>16. Rollbacks(todo, c)
  BY <1>9 DEF PlanInv
<1> QED BY <1>4, <1>10, <1>12, <1>13, <1>14, <1>15, <1>16 DEF RunInv

-----------------------------------------------------------------------------
(* One step of a run *)

\* What a step does to the tags of releases, yanked ones and triggers.
LeftTags(x, d, step, L) ==
    /\ \A n \in Named(L, "tag") :
        /\ n.kind = "release" => /\ step.kind = "promote" /\ n = ReleaseName(step)
                                 /\ n \notin DOMAIN x.tags
        /\ n.kind = "yanked" => step.kind = "yank" /\ n = YankedName(step)
        /\ n.kind = "trigger" =>
            /\ step.kind = "trigger" /\ TagName(n.pkg, n.ver, "release") \in DOMAIN d.tags
            /\ d.tags[TagName(n.pkg, n.ver, "release")] = d.tags[n]
    /\ \A n \in Named(L, "delete") :
        /\ n.kind # "yanked"
        /\ n.kind = "release" => step.kind = "yank" /\ n = ReleaseName(step)
    /\ step.kind = "yank" =>
        /\ ReleaseName(step) \in DOMAIN x.tags /\ YankedName(step) \in Named(L, "tag")
        /\ ReleaseName(step) \in Named(L, "delete") /\ Trigger(step) \in Named(L, "delete")
        /\ d.tags[YankedName(step)] = x.tags[ReleaseName(step)]
    /\ step.kind = "promote" => ReleaseName(step) \in Named(L, "tag")

\* What a step leaves to be pushed, by its kind.
LEMMA LeftTagsIs ==
    ASSUME NEW r \in Repos, NEW x, CloneOK(x, r), NEW step, StepOK(step), step.repo = r,
           step.kind # "reset", Stands(x, step), ~Fails(x, step),
           NEW d, d = Applied(x, step), NEW L, L = Left(x, step)
    PROVE  LeftTags(x, d, step, L)
<1>1. /\ ReleaseName(step).pkg = step.pkg /\ ReleaseName(step).kind = "release"
      /\ Trigger(step).pkg = step.pkg /\ Trigger(step).kind = "trigger"
      /\ YankedName(step).pkg = step.pkg /\ YankedName(step).kind = "yanked"
      /\ Trigger(step).ver = step.ver
  BY NameFields
<1>2. CASE step.kind = "promote"
  <2>1. Named(L, "tag") = {ReleaseName(step)} /\ Named(L, "delete") = {}
    BY <1>2, LeftIs
  <2>2. ReleaseName(step) \notin DOMAIN x.tags
    BY <1>2 DEF Fails
  <2> QED BY <1>1, <1>2, <2>1, <2>2 DEF LeftTags
<1>3. CASE step.kind = "edit"
  <2>1. Named(L, "tag") = {} /\ Named(L, "delete") = {}
    BY <1>3, LeftIs
  <2> QED BY <1>3, <2>1 DEF LeftTags
<1>4. CASE step.kind = "rollback"
  <2>1. Named(L, "tag") = {} /\ Named(L, "delete") = {}
    BY <1>4, LeftIs
  <2> QED BY <1>4, <2>1 DEF LeftTags
<1>5. CASE step.kind = "marker"
  <2>1. Named(L, "tag") = {Marker(step.pkg, step.ver)} /\ Named(L, "delete") = StaleMarkers(x, step)
    BY <1>5, LeftIs
  <2>2. \A n \in StaleMarkers(x, step) : n.kind = "marker"
    BY StaleIs
  <2>3. Marker(step.pkg, step.ver).kind = "marker"
    BY DEF Marker, TagName
  <2> QED BY <1>5, <2>1, <2>2, <2>3 DEF LeftTags
<1>6. CASE step.kind = "trigger"
  <2>1. Named(L, "tag") = {Trigger(step)} /\ Named(L, "delete") = StaleTriggers(x, step)
    BY <1>6, LeftIs
  <2>2. \A n \in StaleTriggers(x, step) : n.kind = "trigger"
    BY StaleIs
  <2>3. ReleaseName(step) \in DOMAIN x.tags
    BY <1>6 DEF Stands
  <2>4. d = Triggered(x, step)
    BY <1>6 DEF Applied
  <2>5. /\ DOMAIN d.tags = (DOMAIN x.tags \ StaleTriggers(x, step)) \cup {Trigger(step)}
        /\ \A n \in DOMAIN x.tags \cap DOMAIN d.tags :
                n # Trigger(step) => d.tags[n] = x.tags[n]
        /\ d.tags[Trigger(step)] = x.tags[ReleaseName(step)]
    BY <1>6, <2>3, <2>4, TriggeredIs
  <2>6. TagName(Trigger(step).pkg, Trigger(step).ver, "release") = ReleaseName(step)
    BY <1>1 DEF ReleaseName
  <2>7. ReleaseName(step) \in DOMAIN d.tags
    BY <1>1, <2>2, <2>3, <2>5
  <2>8. d.tags[ReleaseName(step)] = d.tags[Trigger(step)]
    BY <1>1, <2>3, <2>5, <2>7
  <2> QED BY <1>1, <1>6, <2>1, <2>2, <2>6, <2>7, <2>8 DEF LeftTags
<1>7. CASE step.kind = "yank"
  <2>1. /\ Named(L, "tag") = {YankedName(step)}
        /\ Named(L, "delete") = {ReleaseName(step), Trigger(step)}
    BY <1>7, LeftIs
  <2>2. ReleaseName(step) \in DOMAIN x.tags
    BY <1>7 DEF Stands
  <2>3. d = Yanked(x, step)
    BY <1>7 DEF Applied
  <2>4. d.tags[YankedName(step)] = x.tags[ReleaseName(step)]
    BY <1>7, <2>2, <2>3, YankedIs
  <2> QED BY <1>1, <1>7, <2>1, <2>2, <2>4 DEF LeftTags
<1> QED BY <1>2, <1>3, <1>4, <1>5, <1>6, <1>7 DEF StepOK, Phase

\* A run rn on clones c after one of its steps.
Took(rn, c, step, rn2, e) ==
    LET x == c[step.repo]
        d == e[step.repo]
        L == Left(x, step)
    IN  /\ LocalOK(c) /\ LocalOK(e) /\ RunOK(rn, c) /\ RunOK(rn2, e)
        /\ step \in Upcoming(rn.todo) /\ step.kind # "reset" /\ ~Fails(x, step)
        /\ d = Applied(x, step)
        /\ \A q \in Repos : q # step.repo => e[q] = c[q] /\ rn2.refs[q] = rn.refs[q]
        /\ rn2.refs[step.repo] = rn.refs[step.repo] \cup Bundled(x, step)
        /\ rn2.todo = rn.todo \ {step} /\ rn2.planned /\ rn.planned
        /\ rn2.first = IF rn.first = None /\ Bundled(x, step) # {} THEN step.repo ELSE rn.first
        /\ TagsAfter(x, d, L) /\ LeftTags(x, d, step, L)
        /\ Named(L, "tag") \cap Named(L, "delete") = {}
        /\ \A n \in TagsOf(L) : n \in TagNames(step.repo) /\ <<n.pkg, n.kind>> \in Touched(step)
        /\ \A q \in Repos :
            Pending(rn2, q) = Pending(rn, q) \cup (IF q = step.repo THEN L ELSE {})

\* What holds of a step that was taken, which is all that the lemmas below use.
LEMMA TookIs ==
    ASSUME StoresOK, NEW m \in Machine, NEW c, c = clone[m], NEW rn, RunOK(rn, c),
           NEW step \in Upcoming(rn.todo), step.kind # "reset", ~Fails(c[step.repo], step),
           NEW d, d = Applied(c[step.repo], step), NEW e, e = [c EXCEPT ![step.repo] = d],
           NEW rn2, rn2 = Done(rn, c[step.repo], step)
    PROVE  Took(rn, c, step, rn2, e)
<1>1. LocalOK(c)
  BY DEF StoresOK, LocalOK
<1>2. RunShape(rn) /\ PlanOK(c, rn.todo)
  BY DEF RunOK
<1>3. step \in rn.todo /\ StepOK(step) /\ Stands(c[step.repo], step)
  BY <1>2, UpcomingStands
<1>4. PICK r \in Repos : r = step.repo
  BY <1>3 DEF StepOK
<1>5. PICK x : x = c[r]
  OBVIOUS
<1>6. PICK L : L = Left(x, step)
  OBVIOUS
<1>7. CloneOK(x, r) /\ Stands(x, step) /\ ~Fails(x, step) /\ d = Applied(x, step)
  BY <1>1, <1>3, <1>4, <1>5 DEF LocalOK
<1>8. /\ CloneOK(d, r) /\ TagsAfter(x, d, L)
      /\ Named(L, "tag") \cap Named(L, "delete") = {}
      /\ \A n \in Named(L, "tag") \cup Named(L, "delete") :
            n \in TagNames(r) /\ <<n.pkg, n.kind>> \in Touched(step)
  BY <1>3, <1>4, <1>6, <1>7, AppliedIs
<1>9. LeftTags(x, d, step, L)
  BY <1>3, <1>4, <1>6, <1>7, LeftTagsIs
<1>10. /\ e = [q \in Repos |-> e[q]] /\ e[r] = d
       /\ \A q \in Repos : q # r => e[q] = c[q]
  BY <1>1, <1>4 DEF LocalOK
<1>11. LocalOK(e)
  BY <1>1, <1>8, <1>10 DEF LocalOK
<1>12. RunOK(rn2, e)
  BY TakenOK
<1>13. rn.planned
  BY <1>2, <1>3 DEF RunShape
<1>14. \A q \in Repos : Pending(rn2, q) = Pending(rn, q) \cup (IF q = r THEN L ELSE {})
  BY <1>2, <1>3, <1>4, <1>5, <1>6, PendingDone
<1>15. PICK refs : refs = [rn.refs EXCEPT ![r] = @ \cup Bundled(x, step)]
  OBVIOUS
<1>16. /\ rn2.todo = rn.todo \ {step} /\ rn2.planned /\ rn2.refs = refs
       /\ rn2.first = IF rn.first = None /\ Bundled(x, step) # {} THEN r ELSE rn.first
  BY <1>2, <1>4, <1>5, <1>13, <1>15 DEF RunShape, Done
<1>17. /\ refs[r] = rn.refs[r] \cup Bundled(x, step)
       /\ \A q \in Repos : q # r => refs[q] = rn.refs[q]
  BY <1>2, <1>15 DEF RunShape
<1> QED BY <1>1, <1>4, <1>5, <1>6, <1>7, <1>8, <1>9, <1>10, <1>11, <1>12, <1>13, <1>14, <1>16, <1>17
        DEF Took, TagsOf

\* Fewer references have fewer names.
LEMMA NamedFewer ==
    ASSUME NEW A, NEW B, A \subseteq B
    PROVE  \A op : Named(A, op) \subseteq Named(B, op)
BY DEF Named

\* The names a step touches are not among those that are to be pushed already.
LEMMA TookApart ==
    ASSUME NEW rn, NEW c, NEW step, NEW rn2, NEW e, Took(rn, c, step, rn2, e),
           NEW r, r = step.repo, NEW L, L = Left(c[r], step)
    PROVE  /\ r \in Repos /\ step \in rn.todo /\ StepOK(step)
           /\ TagsOf(Pending(rn, r)) \cap TagsOf(L) = {}
           /\ \A n \in TagsOf(Pending(rn, r)) : <<n.pkg, n.kind>> \notin Touched(step)
<1>1. PlanOK(c, rn.todo) /\ RefsOK(rn, c)
  BY DEF Took, RunOK
<1>2. step \in rn.todo /\ StepOK(step)
  BY <1>1, UpcomingStands DEF Took
<1>3. r \in Repos
  BY <1>2 DEF StepOK
<1>4. \A n \in TagsOf(Pending(rn, r)) : <<n.pkg, n.kind>> \notin Touched(step)
  BY <1>1, <1>2, <1>3 DEF RefsOK
<1>5. \A n \in TagsOf(L) : <<n.pkg, n.kind>> \in Touched(step)
  BY DEF Took
<1> QED BY <1>2, <1>3, <1>4, <1>5

\* Triggers stay on their releases.
LEMMA TriggersStay ==
    ASSUME NEW x, NEW d, NEW step, NEW L, NEW r, TagsOK(x.tags, r), TagsOK(d.tags, r), TagsAfter(x, d, L),
           Named(L, "tag") \cap Named(L, "delete") = {}, LeftTags(x, d, step, L),
           TriggersOK(x.tags)
    PROVE  TriggersOK(d.tags)
<1> SUFFICES ASSUME NEW n \in DOMAIN d.tags, n.kind = "trigger",
                    NEW release, release = TagName(n.pkg, n.ver, "release")
             PROVE  release \in DOMAIN d.tags /\ d.tags[release] = d.tags[n]
  BY DEF TriggersOK
<1>1. release.kind = "release" /\ release.pkg = n.pkg /\ release.ver = n.ver
  BY DEF TagName
<1>2. CASE n \in Named(L, "tag")
  BY <1>2 DEF LeftTags
<1>3. CASE n \notin Named(L, "tag")
  <2>1. n \in DOMAIN x.tags /\ n \notin Named(L, "delete") /\ d.tags[n] = x.tags[n]
    BY <1>3 DEF TagsAfter
  <2>2. release \in DOMAIN x.tags /\ x.tags[release] = x.tags[n]
    BY <2>1 DEF TriggersOK
  <2>3. release \notin Named(L, "tag")
    BY <1>1, <2>2 DEF LeftTags
  <2>4. release \notin Named(L, "delete")
    <3> SUFFICES ASSUME release \in Named(L, "delete") PROVE FALSE
      OBVIOUS
    <3>1. step.kind = "yank" /\ release = ReleaseName(step)
      BY <1>1 DEF LeftTags
    <3>2. n.pkg = step.pkg /\ n.ver = step.ver
      BY <1>1, <3>1 DEF ReleaseName, TagName
    <3>3. n = Trigger(step)
      <4>1. n = [pkg |-> n.pkg, ver |-> n.ver, kind |-> n.kind]
        BY DEF TagsOK, TagNames
      <4> QED BY <3>2, <4>1 DEF Trigger, TagName
    <3>4. Trigger(step) \in Named(L, "delete")
      BY <3>1 DEF LeftTags
    <3> QED BY <2>1, <3>3, <3>4
  <2>5. release \in DOMAIN d.tags /\ d.tags[release] = x.tags[release]
    BY <2>2, <2>3, <2>4 DEF TagsAfter
  <2> QED BY <2>1, <2>2, <2>5
<1> QED BY <1>2, <1>3

\* What is bundled is all of what a step leaves, but for triggers.
LEMMA BundledIs ==
    ASSUME NEW x, NEW step
    PROVE  /\ step.kind # "trigger" => Bundled(x, step) = Left(x, step)
           /\ step.kind = "trigger" => Bundled(x, step) = {}
           /\ step.kind \in {"promote", "yank"} => Bundled(x, step) # {}
           /\ step.kind \in {"trigger", "reset"} => Bundled(x, step) = {}
<1>1. step.kind # "trigger" => Isolated(x, step) = {}
  BY DEF Isolated
<1>2. step.kind \in {"trigger", "reset"} => Bundled(x, step) = {}
  BY DEF Bundled
<1>3. step.kind = "promote" => BranchRef(step) \in Bundled(x, step)
  BY DEF Bundled
<1>4. step.kind = "yank" => Ref("tag", YankedName(step)) \in Bundled(x, step)
  BY DEF Bundled, YankedRefs
<1> QED BY <1>1, <1>2, <1>3, <1>4 DEF Left

\* A step keeps what is said of tags to be pushed.
LEMMA TookTags ==
    ASSUME NEW rn, NEW c, NEW step, NEW rn2, NEW e, Took(rn, c, step, rn2, e), NEW old,
           LocalOK(old), TagsSent(rn, c, old), NewReleases(rn.todo, old)
    PROVE  TagsSent(rn2, e, old)
<1>1. PICK r : r = step.repo
  OBVIOUS
<1>2. PICK L : L = Left(c[r], step)
  OBVIOUS
<1>3. /\ r \in Repos /\ step \in rn.todo /\ StepOK(step)
      /\ TagsOf(Pending(rn, r)) \cap TagsOf(L) = {}
      /\ \A n \in TagsOf(Pending(rn, r)) : <<n.pkg, n.kind>> \notin Touched(step)
  BY <1>1, <1>2, TookApart
<1>4. PICK x, d, u, P : x = c[r] /\ d = e[r] /\ u = old[r].tags /\ P = Pending(rn, r)
  OBVIOUS
<1>5. /\ Behind(x.tags, u, P) /\ TriggersOK(x.tags) /\ TagsBundled(rn.refs[r], x.tags, u)
  BY <1>3, <1>4 DEF TagsSent
<1>6. /\ TagsAfter(x, d, L) /\ LeftTags(x, d, step, L)
      /\ Named(L, "tag") \cap Named(L, "delete") = {}
      /\ CloneOK(x, r) /\ CloneOK(d, r) /\ CloneOK(old[r], r)
      /\ \A n \in TagsOf(L) : n \in TagNames(r) /\ <<n.pkg, n.kind>> \in Touched(step)
      /\ Pending(rn2, r) = P \cup L /\ rn2.refs[r] = rn.refs[r] \cup Bundled(x, step)
  BY <1>1, <1>2, <1>3, <1>4 DEF Took, LocalOK
<1>7. TagsOK(x.tags, r) /\ TagsOK(d.tags, r) /\ TagsOK(u, r)
  BY <1>4, <1>6 DEF CloneOK
<1>8. Behind(d.tags, u, P \cup L)
  <2>1. TagsOf(P) \cap TagsOf(L) = {}
    BY <1>3, <1>4
  <2> QED BY <1>5, <1>6, <2>1, BehindMore
<1>9. TriggersOK(d.tags)
  BY <1>5, <1>6, <1>7, TriggersStay
<1>10. PICK A, B : A = rn.refs[r] /\ B = Bundled(x, step)
  OBVIOUS
<1>11. \A op : Named(A, op) \subseteq Named(P, op)
  <2>1. A \subseteq P
    BY <1>4, <1>10 DEF Pending
  <2> QED BY <2>1, NamedFewer
<1>12. step.kind # "trigger" => B = L
  BY <1>2, <1>4, <1>10, BundledIs
<1>13. step.kind = "trigger" => B = {}
  BY <1>10, BundledIs
<1>14. Named(B, "tag") \subseteq Named(L, "tag") /\ Named(B, "delete") \subseteq Named(L, "delete")
  <2>1. B \subseteq L
    BY <1>2, <1>4, <1>10 DEF Left
  <2> QED BY <2>1, NamedFewer
<1>15. ASSUME NEW n \in TagsOf(P), n \in DOMAIN x.tags \/ n \in DOMAIN d.tags
       PROVE  n \in DOMAIN x.tags /\ n \in DOMAIN d.tags /\ d.tags[n] = x.tags[n]
  <2>1. n \notin Named(L, "tag") /\ n \notin Named(L, "delete")
    BY <1>3, <1>4, <1>15 DEF TagsOf
  <2> QED BY <1>6, <1>15, <2>1 DEF TagsAfter
<1>16. ASSUME NEW n \in Named(B, "tag")
       PROVE  /\ n.kind # "trigger"
              /\ n.kind = "release" => Fresh(u, n.pkg, n.ver)
              /\ n.kind = "yanked" => n.ver \in Generation(u, n.pkg)
  <2>1. n \in Named(L, "tag") /\ step.kind # "trigger"
    BY <1>13, <1>14, <1>16, NamedIs
  <2>2. n.kind # "trigger"
    BY <1>6, <2>1 DEF LeftTags
  <2>3. ASSUME n.kind = "release" PROVE Fresh(u, n.pkg, n.ver)
    <3>1. step.kind = "promote" /\ n = ReleaseName(step)
      BY <1>6, <2>1, <2>3 DEF LeftTags
    <3>2. n.pkg = step.pkg /\ n.ver = step.ver
      BY <3>1, NameFields
    <3> QED BY <1>1, <1>3, <1>4, <3>1, <3>2 DEF NewReleases
  <2>4. ASSUME n.kind = "yanked" PROVE n.ver \in Generation(u, n.pkg)
    <3>1. step.kind = "yank" /\ n = YankedName(step)
      BY <1>6, <2>1, <2>4 DEF LeftTags
    <3>2. n.pkg = step.pkg /\ n.ver = step.ver /\ ReleaseName(step).pkg = step.pkg
          /\ ReleaseName(step).kind = "release"
      BY <3>1, NameFields
    <3>3. ReleaseName(step) \in DOMAIN x.tags
      BY <1>6, <3>1 DEF LeftTags
    <3>4. <<step.pkg, "release">> \in Touched(step)
      BY <3>1 DEF Touched
    <3>5. ReleaseName(step) \notin TagsOf(P)
      BY <1>3, <1>4, <3>2, <3>4
    <3>6. ReleaseName(step) \in DOMAIN u
      BY <1>5, <3>3, <3>5 DEF Behind, TagsOf
    <3>7. step.pkg \in PkgsIn(r)
      BY <1>1, <1>3, <3>1, PkgsFinite DEF StepOK
    <3>8. step.ver \in Generation(u, step.pkg)
      BY <1>7, <3>6, <3>7, SelectionIs DEF ReleaseName
    <3> QED BY <3>2, <3>8
  <2> QED BY <2>2, <2>3, <2>4
<1>17. ASSUME NEW n \in Named(B, "delete")
       PROVE  /\ n.kind # "yanked"
              /\ n.kind = "release" =>
                    /\ TagName(n.pkg, n.ver, "trigger") \in Named(B, "delete")
                    /\ TagName(n.pkg, n.ver, "yanked") \in Named(B, "tag")
                    /\ n \in DOMAIN u /\ d.tags[TagName(n.pkg, n.ver, "yanked")] = u[n]
  <2>1. n \in Named(L, "delete") /\ step.kind # "trigger"
    BY <1>13, <1>14, <1>17, NamedIs
  <2>2. n.kind # "yanked"
    BY <1>6, <2>1 DEF LeftTags
  <2>3. ASSUME n.kind = "release"
        PROVE  /\ TagName(n.pkg, n.ver, "trigger") \in Named(B, "delete")
               /\ TagName(n.pkg, n.ver, "yanked") \in Named(B, "tag")
               /\ n \in DOMAIN u /\ d.tags[TagName(n.pkg, n.ver, "yanked")] = u[n]
    <3>1. step.kind = "yank" /\ n = ReleaseName(step)
      BY <1>6, <2>1, <2>3 DEF LeftTags
    <3>2. n.pkg = step.pkg /\ n.ver = step.ver
      BY <3>1, NameFields
    <3>3. /\ TagName(n.pkg, n.ver, "trigger") = Trigger(step)
          /\ TagName(n.pkg, n.ver, "yanked") = YankedName(step)
      BY <3>2 DEF Trigger, YankedName
    <3>4. /\ n \in DOMAIN x.tags /\ d.tags[YankedName(step)] = x.tags[n]
          /\ Trigger(step) \in Named(L, "delete") /\ YankedName(step) \in Named(L, "tag")
      BY <1>6, <3>1 DEF LeftTags
    <3>5. <<n.pkg, n.kind>> \in Touched(step)
      BY <2>3, <3>1, <3>2 DEF Touched
    <3>6. n \notin TagsOf(P)
      BY <1>3, <1>4, <3>5
    <3>7. n \in DOMAIN u /\ x.tags[n] = u[n]
      BY <1>5, <3>4, <3>6 DEF Behind, TagsOf
    <3> QED BY <1>12, <2>1, <3>3, <3>4, <3>7
  <2> QED BY <2>2, <2>3
<1>18. ASSUME NEW n \in Named(A, "delete"), n.kind = "release"
       PROVE  /\ TagName(n.pkg, n.ver, "trigger") \in Named(A, "delete")
              /\ TagName(n.pkg, n.ver, "yanked") \in Named(A, "tag")
              /\ n \in DOMAIN u /\ d.tags[TagName(n.pkg, n.ver, "yanked")] = u[n]
  <2>1. PICK y : y = TagName(n.pkg, n.ver, "yanked")
    OBVIOUS
  <2>2. /\ TagName(n.pkg, n.ver, "trigger") \in Named(A, "delete")
        /\ y \in Named(A, "tag") /\ n \in DOMAIN u /\ x.tags[y] = u[n]
    BY <1>5, <1>10, <1>18, <2>1 DEF TagsBundled
  <2>3. y \in TagsOf(P) /\ y \in DOMAIN x.tags
    BY <1>5, <1>11, <2>2 DEF TagsOf, Behind
  <2> QED BY <1>15, <2>1, <2>2, <2>3
<1>19. TagsBundled(A \cup B, d.tags, u)
  <2>1. \A op : Named(A \cup B, op) = Named(A, op) \cup Named(B, op)
    BY NamedIs
  <2>2. PICK T, X : T = Named(A \cup B, "tag") /\ X = Named(A \cup B, "delete")
    OBVIOUS
  <2>3. T = Named(A, "tag") \cup Named(B, "tag") /\ X = Named(A, "delete") \cup Named(B, "delete")
    BY <2>1, <2>2
  <2>4. \A n \in T : /\ n.kind # "trigger"
                     /\ n.kind = "release" => Fresh(u, n.pkg, n.ver)
                     /\ n.kind = "yanked" => n.ver \in Generation(u, n.pkg)
    BY <1>5, <1>10, <1>16, <2>3 DEF TagsBundled
  <2>5. \A n \in X : n.kind # "yanked"
    BY <1>5, <1>10, <1>17, <2>3 DEF TagsBundled
  <2>6. \A n \in X : n.kind = "release" =>
            /\ TagName(n.pkg, n.ver, "trigger") \in X /\ TagName(n.pkg, n.ver, "yanked") \in T
            /\ n \in DOMAIN u /\ d.tags[TagName(n.pkg, n.ver, "yanked")] = u[n]
    BY <1>17, <1>18, <2>3
  <2> QED BY <2>2, <2>4, <2>5, <2>6 DEF TagsBundled
<1> SUFFICES ASSUME NEW q \in Repos
             PROVE  /\ Behind(e[q].tags, old[q].tags, Pending(rn2, q))
                    /\ TriggersOK(e[q].tags)
                    /\ TagsBundled(rn2.refs[q], e[q].tags, old[q].tags)
  BY DEF TagsSent
<1>20. CASE q = r
  BY <1>4, <1>6, <1>8, <1>9, <1>10, <1>19, <1>20
<1>21. CASE q # r
  <2>1. e[q] = c[q] /\ rn2.refs[q] = rn.refs[q] /\ Pending(rn2, q) = Pending(rn, q)
    <3>1. e[q] = c[q] /\ rn2.refs[q] = rn.refs[q]
      BY <1>1, <1>21 DEF Took
    <3>2. Pending(rn2, q) = Pending(rn, q) \cup {}
      BY <1>1, <1>21 DEF Took
    <3> QED BY <3>1, <3>2
  <2> QED BY <2>1 DEF TagsSent
<1> QED BY <1>20, <1>21

\* What a step does to the releases of a package.
LEMMA ReleasesAfter ==
    ASSUME NEW r, NEW x, NEW d, TagsOK(x.tags, r), TagsOK(d.tags, r), NEW step, NEW L,
           TagsAfter(x, d, L), Named(L, "tag") \cap Named(L, "delete") = {},
           LeftTags(x, d, step, L), NEW p \in PkgsIn(r),
           NEW S, S = Selection(x.tags, p), NEW T, T = Selection(d.tags, p)
    PROVE  /\ \A v \in T \ S : step.kind = "promote" /\ p = step.pkg /\ v = step.ver
           /\ \A v \in S \ T : step.kind = "yank" /\ p = step.pkg /\ v = step.ver
           /\ step.kind = "promote" /\ p = step.pkg => step.ver \in T /\ step.ver \notin S
           /\ step.kind = "yank" /\ p = step.pkg => step.ver \in S /\ step.ver \notin T
           /\ \A v \in S \cap T :
                d.tags[TagName(p, v, "release")] = x.tags[TagName(p, v, "release")]
           /\ Generation(x.tags, p) \subseteq Generation(d.tags, p)
<1>1. /\ \A v : v \in S <=> TagName(p, v, "release") \in DOMAIN x.tags
      /\ \A v : v \in Generation(x.tags, p) <=> \/ TagName(p, v, "release") \in DOMAIN x.tags
                                                \/ TagName(p, v, "yanked") \in DOMAIN x.tags
  BY SelectionIs
<1>2. /\ \A v : v \in T <=> TagName(p, v, "release") \in DOMAIN d.tags
      /\ \A v : v \in Generation(d.tags, p) <=> \/ TagName(p, v, "release") \in DOMAIN d.tags
                                                \/ TagName(p, v, "yanked") \in DOMAIN d.tags
  BY SelectionIs
<1>3. \A v, kind : /\ TagName(p, v, kind).kind = kind /\ TagName(p, v, kind).pkg = p
                   /\ TagName(p, v, kind).ver = v
  BY DEF TagName
<1>4. \A v : TagName(p, v, "release") = ReleaseName(step) => p = step.pkg /\ v = step.ver
  BY <1>3 DEF ReleaseName, TagName
<1>5. ASSUME NEW v \in T \ S PROVE step.kind = "promote" /\ p = step.pkg /\ v = step.ver
  <2>1. TagName(p, v, "release") \in Named(L, "tag")
    BY <1>1, <1>2 DEF TagsAfter
  <2> QED BY <1>3, <1>4, <2>1 DEF LeftTags
<1>6. ASSUME NEW v \in S \ T PROVE step.kind = "yank" /\ p = step.pkg /\ v = step.ver
  <2>1. TagName(p, v, "release") \in Named(L, "delete")
    BY <1>1, <1>2 DEF TagsAfter
  <2> QED BY <1>3, <1>4, <2>1 DEF LeftTags
<1>7. ASSUME step.kind = "promote", p = step.pkg PROVE step.ver \in T /\ step.ver \notin S
  <2>1. TagName(p, step.ver, "release") = ReleaseName(step)
    BY <1>7 DEF ReleaseName
  <2>2. ReleaseName(step) \in Named(L, "tag")
    BY <1>7 DEF LeftTags
  <2>3. ReleaseName(step) \notin DOMAIN x.tags
    BY <1>3, <2>1, <2>2 DEF LeftTags
  <2>4. ReleaseName(step) \in DOMAIN d.tags
    BY <2>2 DEF TagsAfter
  <2> QED BY <1>1, <1>2, <2>1, <2>3, <2>4
<1>8. ASSUME step.kind = "yank", p = step.pkg PROVE step.ver \in S /\ step.ver \notin T
  <2>1. TagName(p, step.ver, "release") = ReleaseName(step)
    BY <1>8 DEF ReleaseName
  <2>2. ReleaseName(step) \in DOMAIN x.tags /\ ReleaseName(step) \in Named(L, "delete")
    BY <1>8 DEF LeftTags
  <2>3. ReleaseName(step) \notin DOMAIN d.tags
    BY <2>2 DEF TagsAfter
  <2> QED BY <1>1, <1>2, <2>1, <2>2, <2>3
<1>9. ASSUME NEW v \in S \cap T
      PROVE  d.tags[TagName(p, v, "release")] = x.tags[TagName(p, v, "release")]
  <2>1. PICK n : n = TagName(p, v, "release")
    OBVIOUS
  <2>2. n \in DOMAIN x.tags /\ n \in DOMAIN d.tags /\ n.kind = "release"
    BY <1>1, <1>2, <1>3, <2>1
  <2>3. n \notin Named(L, "tag")
    BY <2>2 DEF LeftTags
  <2> QED BY <2>1, <2>2, <2>3 DEF TagsAfter
<1>10. ASSUME NEW v \in Generation(x.tags, p) PROVE v \in Generation(d.tags, p)
  <2>1. CASE TagName(p, v, "yanked") \in DOMAIN x.tags
    <3>1. TagName(p, v, "yanked") \notin Named(L, "delete")
      BY <1>3 DEF LeftTags
    <3>2. TagName(p, v, "yanked") \in DOMAIN d.tags
      BY <2>1, <3>1 DEF TagsAfter
    <3> QED BY <1>2, <3>2
  <2>2. CASE TagName(p, v, "release") \in DOMAIN x.tags
    <3>1. CASE v \in T
      BY <1>2, <3>1
    <3>2. CASE v \notin T
      <4>1. step.kind = "yank" /\ p = step.pkg /\ v = step.ver
        BY <1>1, <1>6, <2>2, <3>2
      <4>2. YankedName(step) \in DOMAIN d.tags
        BY <4>1 DEF LeftTags, TagsAfter
      <4> QED BY <1>2, <4>1, <4>2 DEF YankedName
    <3> QED BY <3>1, <3>2
  <2> QED BY <1>1, <2>1, <2>2
<1> QED BY <1>5, <1>6, <1>7, <1>8, <1>9, <1>10

\* The same of a run: in the repository of the step, and in the other.
LEMMA TookReleases ==
    ASSUME NEW rn, NEW c, NEW step, NEW rn2, NEW e, Took(rn, c, step, rn2, e), NEW p \in Pkgs,
           NEW t, t = c[Repo(p)].tags, NEW u, u = e[Repo(p)].tags,
           NEW S, S = Selection(t, p), NEW T, T = Selection(u, p)
    PROVE  /\ \A v \in T \ S : step.kind = "promote" /\ p = step.pkg /\ v = step.ver
           /\ \A v \in S \ T : step.kind = "yank" /\ p = step.pkg /\ v = step.ver
           /\ step.kind = "promote" /\ p = step.pkg => step.ver \in T /\ step.ver \notin S
           /\ step.kind = "yank" /\ p = step.pkg => step.ver \in S /\ step.ver \notin T
           /\ \A v \in S \cap T : u[TagName(p, v, "release")] = t[TagName(p, v, "release")]
           /\ Generation(t, p) \subseteq Generation(u, p)
           /\ S \subseteq Version /\ IsFiniteSet(S) /\ T \subseteq Version /\ IsFiniteSet(T)
           /\ \A v : v \in T <=> TagName(p, v, "release") \in DOMAIN u
<1>1. PICK r \in Repos : r = Repo(p)
  BY PkgsFinite
<1>2. p \in PkgsIn(r)
  BY <1>1, PkgsFinite
<1>3. StepOK(step) /\ step.repo \in Repos
  BY UpcomingStands DEF Took, RunOK, StepOK
<1>4. PICK x, d : x = c[r] /\ d = e[r]
  OBVIOUS
<1>5. t = x.tags /\ u = d.tags
  BY <1>1, <1>4
<1>6. TagsOK(t, r) /\ TagsOK(u, r)
  <2>1. LocalOK(c) /\ LocalOK(e)
    BY DEF Took
  <2>2. CloneOK(x, r) /\ CloneOK(d, r)
    BY <1>4, <2>1 DEF LocalOK
  <2> QED BY <1>5, <2>2 DEF CloneOK
<1>7. /\ S \subseteq Version /\ IsFiniteSet(S) /\ T \subseteq Version /\ IsFiniteSet(T)
      /\ \A v : v \in T <=> TagName(p, v, "release") \in DOMAIN u
  BY <1>2, <1>6, SelectionIs
<1>8. CASE step.repo = r
  <2>1. PICK L : L = Left(x, step)
    OBVIOUS
  <2>2. /\ TagsAfter(x, d, L) /\ Named(L, "tag") \cap Named(L, "delete") = {}
        /\ LeftTags(x, d, step, L)
    BY <1>4, <1>8, <2>1 DEF Took
  <2>3. TagsOK(x.tags, r) /\ TagsOK(d.tags, r) /\ S = Selection(x.tags, p) /\ T = Selection(d.tags, p)
    BY <1>5, <1>6
  <2>4. /\ \A v \in T \ S : step.kind = "promote" /\ p = step.pkg /\ v = step.ver
        /\ \A v \in S \ T : step.kind = "yank" /\ p = step.pkg /\ v = step.ver
        /\ step.kind = "promote" /\ p = step.pkg => step.ver \in T /\ step.ver \notin S
        /\ step.kind = "yank" /\ p = step.pkg => step.ver \in S /\ step.ver \notin T
        /\ \A v \in S \cap T :
             d.tags[TagName(p, v, "release")] = x.tags[TagName(p, v, "release")]
        /\ Generation(x.tags, p) \subseteq Generation(d.tags, p)
    BY <1>2, <2>2, <2>3, ReleasesAfter
  <2> QED BY <1>5, <1>7, <2>4
<1>9. CASE step.repo # r
  <2>1. d = x
    BY <1>4, <1>9 DEF Took
  <2>2. t = u /\ S = T
    BY <1>5, <2>1
  <2>3. step.kind \in {"promote", "yank"} => p # step.pkg
    BY <1>1, <1>3, <1>9 DEF StepOK
  <2> QED BY <1>7, <2>2, <2>3
<1> QED BY <1>8, <1>9

\* Steps other than releases leave the versions that will be there.
LEMMA RestAfter ==
    ASSUME NEW rn, NEW c, NEW step, NEW rn2, NEW e, Took(rn, c, step, rn2, e), NEW p \in Pkgs,
           step.kind # "promote", NEW f
    PROVE  Rest(rn2.todo, e[Repo(p)].tags, p, f) = Rest(rn.todo, c[Repo(p)].tags, p, f)
<1>1. PICK t, u : t = c[Repo(p)].tags /\ u = e[Repo(p)].tags
  OBVIOUS
<1>2. PICK S, T : S = Selection(t, p) /\ T = Selection(u, p)
  OBVIOUS
<1>3. /\ \A v \in T \ S : step.kind = "promote" /\ p = step.pkg /\ v = step.ver
      /\ \A v \in S \ T : step.kind = "yank" /\ p = step.pkg /\ v = step.ver
      /\ step.kind = "yank" /\ p = step.pkg => step.ver \in S /\ step.ver \notin T
  BY <1>1, <1>2, TookReleases
<1>4. rn2.todo = rn.todo \ {step} /\ step \in rn.todo
  BY DEF Took, Upcoming
<1>5. PICK Y, Z : /\ Y = {s.ver : s \in {x \in rn.todo : x.kind = "yank" /\ x.pkg = p}}
                  /\ Z = {s.ver : s \in {x \in rn2.todo : x.kind = "yank" /\ x.pkg = p}}
  OBVIOUS
<1>6. Z \subseteq Y /\ \A v \in Y \ Z : step.kind = "yank" /\ step.pkg = p /\ v = step.ver
  BY <1>4, <1>5
<1>7. step.kind = "yank" /\ step.pkg = p => step.ver \in Y
  BY <1>4, <1>5
<1>8. T \ Z = S \ Y
  <2>1. ASSUME NEW v \in T \ Z PROVE v \in S \ Y
    BY <1>3, <1>6, <2>1
  <2>2. ASSUME NEW v \in S \ Y PROVE v \in T \ Z
    BY <1>3, <1>6, <1>7, <2>2
  <2> QED BY <2>1, <2>2
<1> QED BY <1>1, <1>2, <1>5, <1>8 DEF Rest

\* A step keeps what is said of branches to be rolled back.
LEMMA TookRollbacks ==
    ASSUME NEW rn, NEW c, NEW step, NEW rn2, NEW e, Took(rn, c, step, rn2, e), NEW old,
           Rollbacks(rn.todo, c), NewReleases(rn.todo, old)
    PROVE  Rollbacks(rn2.todo, e)
<1>1. rn2.todo = rn.todo \ {step} /\ step \in rn.todo
  BY DEF Took, Upcoming
<1>2. PlanOK(c, rn.todo)
  BY DEF Took, RunOK
<1>3. ASSUME NEW s \in rn2.todo, s.kind \in {"yank", "rollback"}
      PROVE  /\ step.kind # "promote"
             /\ s.pkg \in Pkgs /\ s.repo = Repo(s.pkg) /\ s \in rn.todo /\ s # step
  <2>1. s \in rn.todo /\ s # step
    BY <1>1
  <2>2. step.kind # "promote"
    BY <1>1, <1>3, <2>1 DEF NewReleases
  <2>3. StepOK(s)
    BY <1>2, <2>1 DEF PlanOK
  <2> QED BY <1>3, <2>1, <2>2, <2>3 DEF StepOK
<1>4. ASSUME NEW s \in rn2.todo, s.kind \in {"yank", "rollback"}, NEW f
      PROVE  Rest(rn2.todo, e[s.repo].tags, s.pkg, f) = Rest(rn.todo, c[s.repo].tags, s.pkg, f)
  <2>1. PICK p \in Pkgs : p = s.pkg /\ s.repo = Repo(p)
    BY <1>3, <1>4
  <2>2. Rest(rn2.todo, e[Repo(p)].tags, p, f) = Rest(rn.todo, c[Repo(p)].tags, p, f)
    BY <1>3, <1>4, RestAfter
  <2> QED BY <2>1, <2>2
<1>5. ASSUME NEW s \in rn2.todo, s.kind = "rollback"
      PROVE  s.ver = Latest(Rest(rn2.todo, e[s.repo].tags, s.pkg, s.flavor))
  <2>1. Rest(rn2.todo, e[s.repo].tags, s.pkg, s.flavor) = Rest(rn.todo, c[s.repo].tags, s.pkg, s.flavor)
    BY <1>4, <1>5
  <2>2. s \in rn.todo
    BY <1>3, <1>5
  <2> QED BY <1>5, <2>1, <2>2 DEF Rollbacks
<1>6. ASSUME NEW s \in rn2.todo, s.kind = "yank"
      PROVE  /\ s.flavor = FlavorOf(s.ver)
             /\ \/ RollsBack(rn2.todo, s.pkg, s.flavor)
                \/ Rest(rn2.todo, e[s.repo].tags, s.pkg, s.flavor) = {}
  <2>1. Rest(rn2.todo, e[s.repo].tags, s.pkg, s.flavor) = Rest(rn.todo, c[s.repo].tags, s.pkg, s.flavor)
    BY <1>4, <1>6
  <2>2. s \in rn.todo
    BY <1>3, <1>6
  <2>3. /\ s.flavor = FlavorOf(s.ver)
        /\ \/ RollsBack(rn.todo, s.pkg, s.flavor)
           \/ Rest(rn.todo, c[s.repo].tags, s.pkg, s.flavor) = {}
    BY <1>6, <2>2 DEF Rollbacks
  <2>4. step.kind # "rollback"
    <3>1. ~Earlier(s, step)
      BY <2>2 DEF Took, Upcoming
    <3> QED BY <1>6, <3>1 DEF Earlier, Phase
  <2>5. RollsBack(rn.todo, s.pkg, s.flavor) => RollsBack(rn2.todo, s.pkg, s.flavor)
    BY <1>1, <2>4 DEF RollsBack
  <2> QED BY <2>1, <2>3, <2>5
<1> QED BY <1>5, <1>6 DEF Rollbacks

\* A version that is there, or will be, stays so when a step is taken.
LEMMA TookPinned ==
    ASSUME NEW rn, NEW c, NEW step, NEW rn2, NEW e, Took(rn, c, step, rn2, e), NEW s \in Siblings,
           NEW v, Pinned(rn.todo, c, s, v)
    PROVE  Pinned(rn2.todo, e, s, v)
<1>1. s \in Pkgs /\ Repo(s) = "siblings"
  BY RepoIs
<1>2. PICK t, u : t = c[Repo(s)].tags /\ u = e[Repo(s)].tags
  OBVIOUS
<1>3. PICK S, T : S = Selection(t, s) /\ T = Selection(u, s)
  OBVIOUS
<1>4. /\ step.kind = "promote" /\ s = step.pkg => step.ver \in T
      /\ Generation(t, s) \subseteq Generation(u, s)
  BY <1>1, <1>2, <1>3, TookReleases
<1>5. T \subseteq Generation(u, s)
  BY <1>3 DEF Selection, Generation, OfKind
<1>6. rn2.todo = rn.todo \ {step}
  BY DEF Took
<1>7. CASE v \in Generation(c["siblings"].tags, s)
  BY <1>1, <1>2, <1>4, <1>7 DEF Pinned
<1>8. CASE \E other \in rn.todo : other.kind = "promote" /\ other.pkg = s /\ other.ver = v
  <2>1. PICK other \in rn.todo : other.kind = "promote" /\ other.pkg = s /\ other.ver = v
    BY <1>8
  <2>2. CASE other = step
    BY <1>1, <1>2, <1>4, <1>5, <2>1, <2>2 DEF Pinned
  <2>3. CASE other # step
    BY <1>6, <2>1, <2>3 DEF Pinned
  <2> QED BY <2>2, <2>3
<1> QED BY <1>7, <1>8 DEF Pinned

\* A step keeps what is said of pins.
LEMMA TookPins ==
    ASSUME StoresOK, NEW rn, NEW c, NEW step, NEW rn2, NEW e, Took(rn, c, step, rn2, e),
           PinsKept(rn.todo, c)
    PROVE  PinsKept(rn2.todo, e)
<1>1. /\ rn2.todo = rn.todo \ {step} /\ step \in rn.todo
      /\ LocalOK(c) /\ LocalOK(e) /\ PlanOK(c, rn.todo) /\ step \in Upcoming(rn.todo)
  BY DEF Took, Upcoming, RunOK
<1>2. Core \in Pkgs /\ Repo(Core) = "core" /\ "core" \in Repos
  BY RepoIs
<1>3. PICK t, u : t = c[Repo(Core)].tags /\ u = e[Repo(Core)].tags
  OBVIOUS
<1>4. PICK S, T : S = Selection(t, Core) /\ T = Selection(u, Core)
  OBVIOUS
<1>5. /\ \A v \in T \ S : step.kind = "promote" /\ Core = step.pkg /\ v = step.ver
      /\ \A v \in S \cap T : u[TagName(Core, v, "release")] = t[TagName(Core, v, "release")]
  BY <1>2, <1>3, <1>4, TookReleases
<1>6. \A v \in S, s \in Siblings : LET pin == t[TagName(Core, v, "release")].pin[s]
                                   IN  pin # None => Pinned(rn.todo, c, s, pin)
  BY <1>2, <1>3, <1>4 DEF PinsKept
<1>7. ASSUME NEW v \in T, NEW s \in Siblings, NEW pin, pin = u[TagName(Core, v, "release")].pin[s],
             pin # None
      PROVE  Pinned(rn.todo, c, s, pin)
  <2>1. CASE v \in S
    BY <1>5, <1>6, <1>7, <2>1
  <2>2. CASE v \notin S
    <3>1. step.kind = "promote" /\ Core = step.pkg /\ v = step.ver
      BY <1>5, <2>2
    <3>2. StepOK(step) /\ Stands(c[step.repo], step)
      BY <1>1, UpcomingStands
    <3>3. PICK r \in Repos : r = step.repo /\ r = "core"
      BY <1>2, <3>1, <3>2 DEF StepOK
    <3>4. PICK x, d : x = c[r] /\ d = e[r]
      OBVIOUS
    <3>5. CloneOK(x, r)
      BY <1>1, <3>4 DEF LocalOK
    <3>6. d = Applied(x, step)
      BY <3>3, <3>4 DEF Took
    <3>7. d = Promoted(x, step)
      BY <3>1, <3>6 DEF Applied
    <3>8. step.flavor = "prod" => Rcs(x, step) # {}
      BY <3>1, <3>2, <3>3, <3>4 DEF Stands
    <3>9. d.tags[ReleaseName(step)].pin = Merged(Base(x, step).pin, step.forward_pins)
      <4>1. /\ CloneOK(x, r) /\ StepOK(step) /\ step.kind = "promote" /\ step.repo = r
            /\ (step.flavor = "prod" => Rcs(x, step) # {}) /\ d = Promoted(x, step)
        BY <3>1, <3>2, <3>3, <3>5, <3>7, <3>8
      <4> QED BY <4>1, PromotedIs
    <3>10. /\ Base(x, step) \in Commit
           /\ step.flavor = "prod" =>
                \E w \in Rcs(x, step) :
                    /\ TagName(step.pkg, w, "release") \in DOMAIN x.tags
                    /\ Base(x, step) = x.tags[TagName(step.pkg, w, "release")]
      BY <3>1, <3>2, <3>3, <3>5, <3>8, BaseIs
    <3>11. PICK f, b : f = step.forward_pins /\ b = Base(x, step).pin
      OBVIOUS
    <3>12. f \in Pins /\ b \in [Siblings -> Version \cup {None}]
      BY <3>1, <3>2, <3>10, <3>11 DEF StepOK, Commit, Version
    <3>13. Merged(b, f)[s] = IF s \in DOMAIN f THEN f[s] ELSE b[s]
      BY <3>12, MergedIs
    <3>14. pin = IF s \in DOMAIN f THEN f[s] ELSE b[s]
      <4>1. u = d.tags
        BY <1>2, <1>3, <3>3, <3>4
      <4>2. TagName(Core, v, "release") = ReleaseName(step)
        BY <3>1 DEF ReleaseName
      <4> QED BY <1>7, <3>9, <3>11, <3>13, <4>1, <4>2
    <3>15. /\ \A q \in DOMAIN f : Pinned(rn.todo, c, q, f[q])
           /\ step.flavor = "pre" => DOMAIN f = Siblings
      BY <1>1, <3>1, <3>3, <3>11 DEF PinsKept
    <3>16. CASE s \in DOMAIN f
      BY <3>14, <3>15, <3>16
    <3>17. CASE s \notin DOMAIN f
      <4>1. step.flavor = "prod"
        BY <3>1, <3>2, <3>15, <3>17 DEF StepOK, Flavors
      <4>2. PICK w \in Rcs(x, step) : Base(x, step) = x.tags[TagName(step.pkg, w, "release")]
        BY <3>10, <4>1
      <4>3. w \in S /\ x.tags = t
        BY <1>2, <1>3, <1>4, <3>1, <3>3, <3>4, <4>2 DEF Rcs
      <4>4. pin = t[TagName(Core, w, "release")].pin[s]
        BY <3>1, <3>11, <3>14, <3>17, <4>2, <4>3
      <4> QED BY <1>6, <1>7, <4>3, <4>4
    <3> QED BY <3>16, <3>17
  <2> QED BY <2>1, <2>2
<1>8. \A v \in Selection(e["core"].tags, Core), s \in Siblings :
        LET pin == e["core"].tags[TagName(Core, v, "release")].pin[s]
        IN  pin # None => Pinned(rn2.todo, e, s, pin)
  BY <1>2, <1>3, <1>4, <1>7, TookPinned
<1>9. ASSUME NEW other \in rn2.todo, other.kind = "promote", other.repo = "core"
      PROVE  /\ \A s \in DOMAIN other.forward_pins :
                    Pinned(rn2.todo, e, s, other.forward_pins[s])
             /\ other.flavor = "pre" => DOMAIN other.forward_pins = Siblings
  <2>1. other \in rn.todo
    BY <1>1
  <2>2. StepOK(other)
    BY <1>1, <2>1 DEF PlanOK
  <2>3. DOMAIN other.forward_pins \subseteq Siblings
    BY <1>9, <2>2 DEF StepOK, Pins
  <2>4. /\ \A s \in DOMAIN other.forward_pins : Pinned(rn.todo, c, s, other.forward_pins[s])
        /\ other.flavor = "pre" => DOMAIN other.forward_pins = Siblings
    BY <1>9, <2>1 DEF PinsKept
  <2> QED BY <2>3, <2>4, TookPinned
<1> QED BY <1>8, <1>9 DEF PinsKept

\* A step keeps the siblings' repository first.
LEMMA TookSiblings ==
    ASSUME NEW rn, NEW c, NEW step, NEW rn2, NEW e, Took(rn, c, step, rn2, e), SiblingsFirst(rn)
    PROVE  SiblingsFirst(rn2)
<1>1. PICK x, B : x = c[step.repo] /\ B = Bundled(x, step)
  OBVIOUS
<1>2. /\ rn2.todo = rn.todo \ {step} /\ step \in rn.todo /\ rn2.planned
      /\ rn2.first = IF rn.first = None /\ B # {} THEN step.repo ELSE rn.first
      /\ rn2.refs[step.repo] = rn.refs[step.repo] \cup B
      /\ \A q \in Repos : q # step.repo => rn2.refs[q] = rn.refs[q]
      /\ step.kind # "reset" /\ PlanOK(c, rn.todo)
  BY <1>1 DEF Took, Upcoming, RunOK
<1>3. StepOK(step)
  BY <1>2 DEF PlanOK
<1>4. /\ step.kind = "trigger" => B = {}
      /\ step.kind \in {"promote", "yank"} => B # {}
  BY <1>1, BundledIs
<1>5. "siblings" # None
  BY PlanAssumption DEF Repos
<1>6. rn.first = "siblings" => rn2.first = "siblings"
  BY <1>2, <1>5
<1>7. ASSUME rn2.refs["siblings"] # {} PROVE rn2.first = "siblings"
  <2>1. CASE rn.refs["siblings"] # {}
    BY <1>6, <2>1 DEF SiblingsFirst
  <2>2. CASE rn.refs["siblings"] = {}
    <3>1. step.repo = "siblings" /\ B # {}
      BY <1>2, <1>7, <2>2, RepoIs
    <3>2. Bundling(step)
      BY <1>2, <1>4, <3>1 DEF Bundling
    <3>3. rn.first = "siblings" \/ rn.first = None
      BY <1>2, <3>2 DEF SiblingsFirst
    <3> QED BY <1>2, <1>6, <3>1, <3>3
  <2> QED BY <2>1, <2>2
<1>8. ASSUME NEW other \in rn2.todo, Bundling(other), rn2.first # "siblings"
      PROVE  /\ rn2.first = None
             /\ \E s \in rn2.todo : s.repo = "siblings" /\ s.kind \in {"promote", "yank"}
  <2>1. other \in rn.todo /\ rn.first # "siblings"
    BY <1>2, <1>6, <1>8
  <2>2. /\ rn.first = None
        /\ \E s \in rn.todo : s.repo = "siblings" /\ s.kind \in {"promote", "yank"}
    BY <1>8, <2>1 DEF SiblingsFirst
  <2>3. PICK s \in rn.todo : s.repo = "siblings" /\ s.kind \in {"promote", "yank"}
    BY <2>2
  <2>4. ~(step.repo = "siblings" /\ step.kind \in {"promote", "yank"})
    BY <1>2, <1>4, <1>8, <2>2
  <2>5. s \in rn2.todo
    BY <1>2, <2>3, <2>4
  <2>6. ~Earlier(s, step)
    BY <2>3 DEF Took, Upcoming
  <2>7. step.kind \in {"promote", "yank"}
    BY <1>2, <1>3, <2>3, <2>6 DEF Earlier, Phase, StepOK
  <2>8. step.repo = "siblings"
    BY <1>3, <2>3, <2>6, <2>7 DEF Earlier, Phase, StepOK, Repos
  <2> QED BY <2>4, <2>7, <2>8
<1> QED BY <1>2, <1>7, <1>8 DEF SiblingsFirst

\* The branch a step sets.
Sets(step, p, f) == step.kind \in {"promote", "rollback"} /\ step.pkg = p /\ step.flavor = f

\* A step sets the release branch it is for, and no other.
LEMMA TookBranch ==
    ASSUME StoresOK, NEW rn, NEW c, NEW step, NEW rn2, NEW e, Took(rn, c, step, rn2, e),
           NEW p \in Pkgs, NEW f \in Flavors
    PROVE  /\ <<p, f>> \in Named(rn2.refs[Repo(p)], "branch") <=>
                <<p, f>> \in Named(rn.refs[Repo(p)], "branch") \/ Sets(step, p, f)
           /\ ~Sets(step, p, f) => e[Repo(p)].branch[<<p, f>>] = c[Repo(p)].branch[<<p, f>>]
           /\ Sets(step, p, f) => /\ step.ver \in Selection(e[Repo(p)].tags, p)
                                  /\ e[Repo(p)].branch[<<p, f>>]
                                        = e[Repo(p)].tags[TagName(p, step.ver, "release")]
<1>1. /\ LocalOK(c) /\ LocalOK(e) /\ PlanOK(c, rn.todo) /\ step \in Upcoming(rn.todo)
      /\ step.kind # "reset"
  BY DEF Took, RunOK
<1>2. StepOK(step) /\ Stands(c[step.repo], step)
  BY <1>1, UpcomingStands
<1>3. PICK r \in Repos : r = Repo(p)
  BY PkgsFinite
<1>4. Sets(step, p, f) => step.repo = r
  BY <1>2, <1>3 DEF Sets, StepOK
<1>5. CASE step.repo # r
  <2>1. e[r] = c[r] /\ rn2.refs[r] = rn.refs[r]
    BY <1>5 DEF Took
  <2> QED BY <1>3, <1>4, <1>5, <2>1
<1>6. CASE step.repo = r
  <2>1. PICK x, d, B : x = c[r] /\ d = e[r] /\ B = Bundled(x, step)
    OBVIOUS
  <2>2. CloneOK(x, r) /\ CloneOK(d, r) /\ d = Applied(x, step) /\ Stands(x, step)
    <3>1. d = Applied(x, step)
      BY <1>6, <2>1 DEF Took
    <3> QED BY <1>1, <1>2, <1>6, <2>1, <3>1 DEF LocalOK
  <2>3. rn2.refs[r] = rn.refs[r] \cup B
    BY <1>6, <2>1 DEF Took
  <2>4. <<p, f>> \in Named(B, "branch") <=> Sets(step, p, f)
    <3>1. Named({}, "branch") = {}
      BY NamedIs
    <3>2. CASE step.kind = "trigger"
      <4>1. B = {}
        BY <2>1, <3>2, BundledIs
      <4> QED BY <3>1, <3>2, <4>1 DEF Sets
    <3>3. CASE step.kind # "trigger"
      <4>1. B = Left(x, step)
        BY <2>1, <3>3, BundledIs
      <4>2. CASE step.kind \in {"promote", "rollback"}
        <5>1. Named(B, "branch") = {<<step.pkg, step.flavor>>}
          BY <4>1, <4>2, LeftIs
        <5> QED BY <4>2, <5>1 DEF Sets
      <4>3. CASE step.kind \notin {"promote", "rollback"}
        <5>1. Named(B, "branch") = {}
          BY <1>1, <1>2, <3>3, <4>1, <4>3, LeftIs DEF StepOK, Phase
        <5> QED BY <4>3, <5>1 DEF Sets
      <4> QED BY <4>2, <4>3
    <3> QED BY <3>2, <3>3
  <2>5. <<p, f>> \in Named(rn2.refs[r], "branch") <=>
            <<p, f>> \in Named(rn.refs[r], "branch") \/ Sets(step, p, f)
    <3>1. Named(rn.refs[r] \cup B, "branch") = Named(rn.refs[r], "branch") \cup Named(B, "branch")
      BY NamedIs
    <3> QED BY <2>3, <2>4, <3>1
  <2>6. <<p, f>> \in DOMAIN x.branch
    <3>1. p \in PkgsIn(r)
      BY <1>3, PkgsFinite
    <3> QED BY <2>2, <3>1 DEF CloneOK
  <2>7. CASE step.kind = "promote"
    <3>1. d = Promoted(x, step)
      BY <2>2, <2>7 DEF Applied
    <3>2. step.flavor = "prod" => Rcs(x, step) # {}
      BY <2>2, <2>7 DEF Stands
    <3>3. /\ DOMAIN d.tags = DOMAIN x.tags \cup {ReleaseName(step)}
          /\ \A b \in DOMAIN x.branch :
                d.branch[b] = IF b = <<step.pkg, step.flavor>> THEN d.tags[ReleaseName(step)]
                              ELSE x.branch[b]
      BY <1>2, <1>6, <2>2, <2>7, <3>1, <3>2, PromotedIs
    <3>4. d.branch[<<p, f>>] = IF Sets(step, p, f) THEN d.tags[ReleaseName(step)]
                               ELSE x.branch[<<p, f>>]
      BY <2>6, <2>7, <3>3 DEF Sets
    <3>5. step.pkg = p => ReleaseName(step) = TagName(p, step.ver, "release")
      BY DEF ReleaseName
    <3>6. step.pkg = p => step.ver \in Selection(d.tags, p)
      <4>1. TagsOK(d.tags, r) /\ p \in PkgsIn(r)
        BY <1>3, <2>2, PkgsFinite DEF CloneOK
      <4> QED BY <3>3, <3>5, <4>1, SelectionIs
    <3> QED BY <1>3, <2>1, <2>5, <3>4, <3>5, <3>6 DEF Sets
  <2>8. CASE step.kind = "rollback"
    <3>1. d = RolledBack(x, step)
      BY <2>2, <2>8 DEF Applied
    <3>2. ReleaseName(step) \in DOMAIN x.tags
      BY <2>2, <2>8 DEF Stands
    <3>3. /\ d.tags = x.tags
          /\ \A b \in DOMAIN x.branch :
                d.branch[b] = IF b = <<step.pkg, step.flavor>> THEN x.tags[ReleaseName(step)]
                              ELSE x.branch[b]
      BY <1>2, <1>6, <2>2, <2>8, <3>1, <3>2, RolledBackIs
    <3>4. d.branch[<<p, f>>] = IF Sets(step, p, f) THEN d.tags[ReleaseName(step)]
                               ELSE x.branch[<<p, f>>]
      BY <2>6, <2>8, <3>3 DEF Sets
    <3>5. step.pkg = p => ReleaseName(step) = TagName(p, step.ver, "release")
      BY DEF ReleaseName
    <3>6. step.pkg = p => step.ver \in Selection(d.tags, p)
      <4>1. TagsOK(d.tags, r) /\ p \in PkgsIn(r)
        BY <1>3, <2>2, PkgsFinite DEF CloneOK
      <4> QED BY <3>2, <3>3, <3>5, <4>1, SelectionIs
    <3> QED BY <1>3, <2>1, <2>5, <3>4, <3>5, <3>6 DEF Sets
  <2>9. CASE step.kind \notin {"promote", "rollback"}
    <3>1. d.branch = x.branch
      <4>1. CASE step.kind = "edit"
        BY <1>2, <1>6, <2>2, <4>1, EditedIs DEF Applied
      <4>2. CASE step.kind = "marker"
        BY <1>2, <1>6, <2>2, <4>2, MarkedIs DEF Applied
      <4>3. CASE step.kind = "trigger"
        <5>1. d = Triggered(x, step) /\ ReleaseName(step) \in DOMAIN x.tags
          BY <2>2, <4>3 DEF Applied, Stands
        <5> QED BY <1>2, <1>6, <2>2, <4>3, <5>1, TriggeredIs
      <4>4. CASE step.kind = "yank"
        <5>1. d = Yanked(x, step) /\ ReleaseName(step) \in DOMAIN x.tags
          BY <2>2, <4>4 DEF Applied, Stands
        <5> QED BY <1>2, <1>6, <2>2, <4>4, <5>1, YankedIs
      <4> QED BY <1>1, <1>2, <2>9, <4>1, <4>2, <4>3, <4>4 DEF StepOK, Phase
    <3>2. ~Sets(step, p, f)
      BY <2>9 DEF Sets
    <3> QED BY <1>3, <2>1, <2>5, <3>1, <3>2
  <2> QED BY <2>7, <2>8, <2>9
<1> QED BY <1>5, <1>6


\* The pointers of the branches: where a step moves a release, it or one to come moves
\* the branch.
LEMMA TookPointers ==
    ASSUME StoresOK, NEW rn, NEW c, NEW step, NEW rn2, NEW e, Took(rn, c, step, rn2, e), NEW old,
           LocalOK(old), TagsSent(rn, c, old), NewReleases(rn.todo, old), Rollbacks(rn.todo, c),
           Pointers(rn, c, old)
    PROVE  Pointers(rn2, e, old)
<1> SUFFICES ASSUME NEW p \in Pkgs, NEW f \in Flavors, ~RollsBack(rn2.todo, p, f),
                    OfFlavor(Selection(e[Repo(p)].tags, p), f) # {}
             PROVE  IF <<p, f>> \in Named(rn2.refs[Repo(p)], "branch")
                    THEN PointsAt(e[Repo(p)].tags, e[Repo(p)].branch, p, f)
                    ELSE SameReleases(e[Repo(p)].tags, old[Repo(p)].tags, p, f)
  BY DEF Pointers
<1>1. PICK r \in Repos : r = Repo(p) /\ p \in PkgsIn(r)
  BY PkgsFinite
<1>2. PICK t, u, k, l : t = c[r].tags /\ u = e[r].tags /\ k = c[r].branch /\ l = e[r].branch
  OBVIOUS
<1>3. PICK S, T : S = Selection(t, p) /\ T = Selection(u, p)
  OBVIOUS
<1>4. PICK F, G : F = OfFlavor(S, f) /\ G = OfFlavor(T, f)
  OBVIOUS
<1>5. /\ \A v \in T \ S : step.kind = "promote" /\ p = step.pkg /\ v = step.ver
      /\ \A v \in S \ T : step.kind = "yank" /\ p = step.pkg /\ v = step.ver
      /\ step.kind = "yank" /\ p = step.pkg => step.ver \in S /\ step.ver \notin T
      /\ \A v \in S \cap T : u[TagName(p, v, "release")] = t[TagName(p, v, "release")]
      /\ S \subseteq Version /\ IsFiniteSet(S) /\ T \subseteq Version /\ IsFiniteSet(T)
  BY <1>1, <1>2, <1>3, TookReleases
<1>6. /\ F \subseteq S /\ IsFiniteSet(F) /\ \A v \in S : v \in F <=> FlavorOf(v) = f
      /\ G \subseteq T /\ IsFiniteSet(G) /\ \A v \in T : v \in G <=> FlavorOf(v) = f
  BY <1>4, <1>5, OfFlavorIs
<1>7. /\ <<p, f>> \in Named(rn2.refs[r], "branch") <=>
                <<p, f>> \in Named(rn.refs[r], "branch") \/ Sets(step, p, f)
      /\ ~Sets(step, p, f) => l[<<p, f>>] = k[<<p, f>>]
      /\ Sets(step, p, f) => step.ver \in T /\ l[<<p, f>>] = u[TagName(p, step.ver, "release")]
  BY <1>1, <1>2, <1>3, TookBranch
<1>8. /\ rn2.todo = rn.todo \ {step} /\ step \in rn.todo /\ PlanOK(c, rn.todo)
      /\ \A other \in rn.todo : ~Earlier(other, step)
  BY DEF Took, Upcoming, RunOK
<1>9. StepOK(step)
  BY <1>8 DEF PlanOK
<1>10. G # {}
  BY <1>1, <1>2, <1>3, <1>4
<1>11. CASE Sets(step, p, f) /\ step.kind = "promote"
  <2>1. step.pkg = p /\ step.flavor = f /\ step.repo = r
    BY <1>1, <1>9, <1>11 DEF Sets, StepOK
  <2>2. PICK o : o = old[r].tags
    OBVIOUS
  <2>3. \A n \in TagsOf(Pending(rn, r)) : <<n.pkg, n.kind>> \notin Touched(step)
    BY <2>1, TookApart
  <2>4. Behind(t, o, Pending(rn, r)) /\ Fresh(o, p, step.ver) /\ FlavorOf(step.ver) = f
    BY <1>1, <1>2, <1>8, <1>11, <2>1, <2>2 DEF TagsSent, NewReleases
  <2>5. TagsOK(t, r) /\ TagsOK(o, r)
    BY <1>1, <1>2, <2>2 DEF Took, LocalOK, CloneOK
  <2>6. ASSUME NEW v \in S PROVE Before(v, step.ver)
    <3>1. PICK n : n = TagName(p, v, "release")
      OBVIOUS
    <3>2. n \in DOMAIN t /\ n.pkg = p /\ n.kind = "release"
      BY <1>1, <1>3, <2>5, <3>1, SelectionIs DEF TagName
    <3>3. <<n.pkg, n.kind>> \in Touched(step)
      BY <1>11, <2>1, <3>2 DEF Touched
    <3>4. n \notin TagsOf(Pending(rn, r))
      BY <2>3, <3>3
    <3>5. n \in DOMAIN o
      BY <2>4, <3>2, <3>4 DEF Behind, TagsOf
    <3>6. v \in Selection(o, p)
      BY <1>1, <2>5, <3>1, <3>5, SelectionIs
    <3> QED BY <2>4, <3>6 DEF Fresh
  <2>7. step.ver \in G
    BY <1>6, <1>7, <1>11, <2>4
  <2>8. \A w \in G \ {step.ver} : Before(w, step.ver)
    BY <1>5, <1>6, <2>6
  <2>9. G \subseteq Version
    BY <1>5, <1>6
  <2>10. Latest(G) = step.ver
    BY <1>6, <1>10, <2>7, <2>8, <2>9, LatestIs
  <2>11. PointsAt(u, l, p, f)
    BY <1>3, <1>4, <1>7, <1>11, <2>10 DEF PointsAt
  <2> QED BY <1>1, <1>2, <1>7, <1>11, <2>11
<1>12. CASE Sets(step, p, f) /\ step.kind = "rollback"
  <2>1. step.pkg = p /\ step.flavor = f /\ step.repo = r
    BY <1>1, <1>9, <1>12 DEF Sets, StepOK
  <2>2. \A other \in rn.todo : other.kind # "yank"
    BY <1>8, <1>12 DEF Earlier, Phase
  <2>3. S = T
    BY <1>5, <1>12
  <2>4. Rest(rn.todo, t, p, f) = F
    <3>1. {s.ver : s \in {x \in rn.todo : x.kind = "yank" /\ x.pkg = p}} = {}
      BY <2>2
    <3>2. S \ {} = S
      OBVIOUS
    <3> QED BY <1>3, <1>4, <3>1, <3>2 DEF Rest
  <2>5. step.ver = Latest(F)
    BY <1>2, <1>8, <1>12, <2>1, <2>4 DEF Rollbacks
  <2>6. F = G
    BY <1>4, <2>3
  <2>7. PointsAt(u, l, p, f)
    BY <1>3, <1>4, <1>7, <1>12, <2>5, <2>6 DEF PointsAt
  <2> QED BY <1>1, <1>2, <1>7, <1>12, <2>7
<1>13. ASSUME ~Sets(step, p, f) PROVE ~RollsBack(rn.todo, p, f)
  BY <1>8, <1>13 DEF RollsBack, Sets
<1>14. CASE ~Sets(step, p, f) /\ step.kind = "yank" /\ step.pkg = p /\ step.flavor = f
  <2>1. step.repo = r
    BY <1>1, <1>9, <1>14 DEF StepOK
  <2>2. Rest(rn.todo, t, p, f) = {}
    BY <1>2, <1>8, <1>13, <1>14, <2>1 DEF Rollbacks
  <2>3. Rest(rn2.todo, u, p, f) = {}
    BY <1>1, <1>2, <1>14, <2>2, RestAfter
  <2>4. \A other \in rn2.todo : ~(other.kind = "yank" /\ other.pkg = p)
    <3>1. SUFFICES ASSUME NEW other \in rn2.todo, other.kind = "yank", other.pkg = p PROVE FALSE
      OBVIOUS
    <3>2. <<p, "release">> \in Touched(other) \cap Touched(step)
      BY <1>14, <3>1 DEF Touched
    <3> QED BY <1>8, <3>1, <3>2 DEF PlanOK, Apart
  <2>5. Rest(rn2.todo, u, p, f) = G
    <3>1. {s.ver : s \in {x \in rn2.todo : x.kind = "yank" /\ x.pkg = p}} = {}
      BY <2>4
    <3>2. T \ {} = T
      OBVIOUS
    <3> QED BY <1>3, <1>4, <3>1, <3>2 DEF Rest
  <2> QED BY <1>10, <2>3, <2>5
<1>15. CASE ~Sets(step, p, f) /\ ~(step.kind = "yank" /\ step.pkg = p /\ step.flavor = f)
  <2>1. ASSUME NEW v \in T \ S PROVE v \notin G
    <3>1. step.kind = "promote" /\ p = step.pkg /\ v = step.ver
      BY <1>5, <2>1
    <3>2. FlavorOf(v) = step.flavor
      BY <1>8, <3>1 DEF NewReleases
    <3>3. step.flavor # f
      BY <1>15, <3>1 DEF Sets
    <3> QED BY <1>6, <3>2, <3>3
  <2>2. ASSUME NEW v \in S \ T PROVE v \notin F
    <3>1. step.kind = "yank" /\ p = step.pkg /\ v = step.ver
      BY <1>5, <2>2
    <3>2. FlavorOf(v) = step.flavor
      BY <1>8, <3>1 DEF Rollbacks
    <3> QED BY <1>6, <1>15, <3>1, <3>2
  <2>3. F = G
    BY <1>6, <2>1, <2>2
  <2>4. \A v \in G : u[TagName(p, v, "release")] = t[TagName(p, v, "release")]
    BY <1>5, <1>6, <2>3
  <2>5. Latest(G) \in G
    BY <1>5, <1>6, <1>10, LatestIs
  <2>6. IF <<p, f>> \in Named(rn.refs[r], "branch") THEN PointsAt(t, k, p, f)
        ELSE SameReleases(t, old[r].tags, p, f)
    BY <1>1, <1>2, <1>3, <1>4, <1>10, <1>13, <1>15, <2>3 DEF Pointers
  <2>7. CASE <<p, f>> \in Named(rn.refs[r], "branch")
    <3>1. PointsAt(t, k, p, f)
      BY <2>6, <2>7
    <3>2. k[<<p, f>>] = t[TagName(p, Latest(F), "release")]
      BY <1>3, <1>4, <1>10, <2>3, <3>1 DEF PointsAt
    <3>3. l[<<p, f>>] = u[TagName(p, Latest(G), "release")]
      BY <1>7, <1>15, <2>3, <2>4, <2>5, <3>2
    <3>4. PointsAt(u, l, p, f)
      BY <1>3, <1>4, <3>3 DEF PointsAt
    <3> QED BY <1>1, <1>2, <1>7, <2>7, <3>4
  <2>8. CASE <<p, f>> \notin Named(rn.refs[r], "branch")
    <3>1. SameReleases(t, old[r].tags, p, f)
      BY <2>6, <2>8
    <3>2. SameReleases(u, old[r].tags, p, f)
      BY <1>3, <1>4, <2>3, <2>4, <3>1 DEF SameReleases
    <3> QED BY <1>1, <1>2, <1>7, <1>15, <2>8, <3>2
  <2> QED BY <2>7, <2>8
<1> QED BY <1>11, <1>12, <1>14, <1>15 DEF Sets

\* Taking a step keeps what holds of its run.
LEMMA TookInv ==
    ASSUME StoresOK, NEW rn, NEW c, NEW step, NEW rn2, NEW e, Took(rn, c, step, rn2, e), NEW old,
           LocalOK(old), RunInv(rn, c, old)
    PROVE  RunInv(rn2, e, old)
<1>1. /\ TagsSent(rn, c, old) /\ NewReleases(rn.todo, old) /\ Rollbacks(rn.todo, c)
      /\ Pointers(rn, c, old) /\ PinsKept(rn.todo, c) /\ SiblingsFirst(rn)
  BY DEF RunInv
<1>2. rn2.todo \subseteq rn.todo
  BY DEF Took
<1>3. NewReleases(rn2.todo, old)
  BY <1>1, <1>2 DEF NewReleases
<1>4. TagsSent(rn2, e, old)
  BY <1>1, TookTags
<1>5. Rollbacks(rn2.todo, e)
  BY <1>1, TookRollbacks
<1>6. Pointers(rn2, e, old)
  BY <1>1, TookPointers
<1>7. PinsKept(rn2.todo, e)
  BY <1>1, TookPins
<1>8. SiblingsFirst(rn2)
  BY <1>1, TookSiblings
<1> QED BY <1>3, <1>4, <1>5, <1>6, <1>7, <1>8 DEF RunInv


-----------------------------------------------------------------------------
(* One push of a run *)

\* The references A are pushed to r by run rn, which is rn2 after that: all that is
\* bundled for r, or a trigger when nothing is bundled.
Sending(rn, r, A, rn2) ==
    /\ r \in Repos /\ rn.todo = {} /\ rn2.todo = {} /\ rn2.planned /\ rn2.first = rn.first
    /\ A = rn.refs[r] \/ (rn.refs[r] = {} /\ \A n \in TagsOf(A) : n.kind = "trigger")
    /\ Named(A, "branch") = Named(rn.refs[r], "branch")
    /\ rn2.refs[r] = {} /\ \A q \in Repos : q # r => rn2.refs[q] = rn.refs[q]
    /\ Pending(rn, r) = A \cup Pending(rn2, r)
    /\ \A q \in Repos : q # r => Pending(rn2, q) = Pending(rn, q)
    /\ \A q \in Repos : rn.refs[q] = {} => \A n \in TagsOf(Pending(rn, q)) : n.kind = "trigger"
    /\ \A n \in TagsOf(Pending(rn2, r)) : n.kind = "trigger"
    /\ r = "core" => rn.refs["siblings"] = {}

\* They are accepted, where old was on origin and new is.
Sent(rn, c, old, r, A, rn2, new) ==
    /\ Sending(rn, r, A, rn2)
    /\ LocalOK(c) /\ LocalOK(old) /\ LocalOK(new)
    /\ \A q \in Repos : q # r => new[q] = old[q]
    /\ \A b \in DOMAIN old[r].branch :
         new[r].branch[b] = IF b \in Named(A, "branch") THEN c[r].branch[b] ELSE old[r].branch[b]
    /\ TagsPushed(c[r].tags, old[r].tags, A, new[r].tags)

\* What is pushed of releases and yanked ones.
LEMMA SentTags ==
    ASSUME NEW rn, NEW c, NEW old, NEW r, NEW A, NEW rn2, NEW new, Sent(rn, c, old, r, A, rn2, new),
           TagsSent(rn, c, old), NEW t, t = c[r].tags, NEW u, u = old[r].tags,
           NEW w, w = new[r].tags
    PROVE  /\ TagsOK(t, r) /\ TagsOK(u, r) /\ TagsOK(w, r)
           /\ Behind(t, w, Pending(rn2, r)) /\ Agree(t, w)
           /\ Named(A, "tag") \subseteq DOMAIN t
           /\ \A n \in Named(A, "tag") :
                /\ n.kind = "release" => Fresh(u, n.pkg, n.ver)
                /\ n.kind = "yanked" => n.ver \in Generation(u, n.pkg)
           /\ \A n \in Named(A, "delete") :
                /\ n.kind # "yanked"
                /\ n.kind = "release" =>
                    /\ TagName(n.pkg, n.ver, "trigger") \in Named(A, "delete")
                    /\ TagName(n.pkg, n.ver, "yanked") \in Named(A, "tag")
                    /\ n \in DOMAIN u /\ t[TagName(n.pkg, n.ver, "yanked")] = u[n]
<1>1. r \in Repos /\ LocalOK(c) /\ LocalOK(old) /\ LocalOK(new)
  BY DEF Sent, Sending
<1>2. TagsOK(t, r) /\ TagsOK(u, r) /\ TagsOK(w, r)
  BY <1>1 DEF LocalOK, CloneOK
<1>3. Behind(t, u, Pending(rn, r)) /\ TagsBundled(rn.refs[r], t, u)
  BY <1>1 DEF TagsSent
<1>4. PICK B : B = Pending(rn2, r)
  OBVIOUS
<1>5. Pending(rn, r) = A \cup B /\ \A n \in TagsOf(B) : n.kind = "trigger"
  BY <1>4 DEF Sent, Sending
<1>6. TagsPushed(t, u, A, w)
  BY DEF Sent, Sending
<1>7. Behind(t, w, B)
  <2>1. PICK P : P = Pending(rn, r)
    OBVIOUS
  <2>2. P = A \cup B /\ Behind(t, u, P)
    BY <1>3, <1>5, <2>1
  <2> QED BY <1>6, <2>2, BehindLess
<1>8. Agree(t, w)
  BY <1>5, <1>7, BehindAgree
<1>9. Named(A, "tag") \subseteq DOMAIN t
  <2>1. Named(A, "tag") \subseteq Named(Pending(rn, r), "tag")
    <3>1. A \subseteq Pending(rn, r)
      BY <1>5
    <3> QED BY <3>1, NamedFewer
  <2> QED BY <1>3, <2>1 DEF Behind
<1>10. CASE A = rn.refs[r]
  <2>1. TagsBundled(A, t, u)
    BY <1>3, <1>10
  <2> QED BY <1>2, <1>4, <1>7, <1>8, <1>9, <2>1 DEF TagsBundled
<1>11. CASE \A n \in TagsOf(A) : n.kind = "trigger"
  <2>1. /\ \A n \in Named(A, "tag") : n.kind = "trigger"
        /\ \A n \in Named(A, "delete") : n.kind = "trigger"
    BY <1>11 DEF TagsOf
  <2> QED BY <1>2, <1>4, <1>7, <1>8, <1>9, <2>1
<1> QED BY <1>10, <1>11 DEF Sent, Sending

\* The releases of a package on origin before and after.
Kept(u, w, p) ==
    /\ \A v \in Selection(u, p) :
        \/ v \in Selection(w, p)
           /\ w[TagName(p, v, "release")] = u[TagName(p, v, "release")]
        \/ /\ TagName(p, v, "yanked") \in DOMAIN w
           /\ w[TagName(p, v, "yanked")] = u[TagName(p, v, "release")]
    /\ \A v \in Selection(w, p) \ Selection(u, p) : Fresh(u, p, v)

\* A push keeps origin's releases, and new ones come after them.
LEMMA SentReleases ==
    ASSUME NEW rn, NEW c, NEW old, NEW r, NEW A, NEW rn2, NEW new, Sent(rn, c, old, r, A, rn2, new),
           TagsSent(rn, c, old), NEW u, u = old[r].tags, NEW w, w = new[r].tags,
           NEW p \in PkgsIn(r), GenOK(Generation(u, p))
    PROVE  /\ Kept(u, w, p)
           /\ Generation(u, p) \subseteq Generation(w, p) /\ GenOK(Generation(w, p))
<1>1. PICK t : t = c[r].tags
  OBVIOUS
<1>2. /\ TagsOK(t, r) /\ TagsOK(u, r) /\ TagsOK(w, r)
      /\ \A n \in Named(A, "tag") :
            /\ n.kind = "release" => Fresh(u, n.pkg, n.ver)
            /\ n.kind = "yanked" => n.ver \in Generation(u, n.pkg)
      /\ \A n \in Named(A, "delete") :
            /\ n.kind # "yanked"
            /\ n.kind = "release" =>
                /\ TagName(n.pkg, n.ver, "yanked") \in Named(A, "tag")
                /\ t[TagName(n.pkg, n.ver, "yanked")] = u[n]
  BY <1>1, SentTags
<1>3. /\ DOMAIN w = (DOMAIN u \ Named(A, "delete")) \cup Named(A, "tag")
      /\ \A n \in DOMAIN w : w[n] = IF n \in Named(A, "tag") THEN t[n] ELSE u[n]
  BY <1>1 DEF Sent, Sending, TagsPushed
<1>4. PICK S, T : S = Selection(u, p) /\ T = Selection(w, p)
  OBVIOUS
<1>5. PICK g, h : g = Generation(u, p) /\ h = Generation(w, p)
  OBVIOUS
<1>6. /\ S \subseteq Version /\ \A v : v \in S <=> TagName(p, v, "release") \in DOMAIN u
      /\ \A v : v \in g <=> \/ TagName(p, v, "release") \in DOMAIN u
                            \/ TagName(p, v, "yanked") \in DOMAIN u
  BY <1>2, <1>4, <1>5, SelectionIs
<1>7. /\ \A v : v \in T <=> TagName(p, v, "release") \in DOMAIN w
      /\ \A v : v \in h <=> \/ TagName(p, v, "release") \in DOMAIN w
                            \/ TagName(p, v, "yanked") \in DOMAIN w
  BY <1>2, <1>4, <1>5, SelectionIs
<1>8. \A v, kind : /\ TagName(p, v, kind).kind = kind /\ TagName(p, v, kind).pkg = p
                   /\ TagName(p, v, kind).ver = v
  BY DEF TagName
<1>9. ASSUME NEW v \in S
      PROVE  \/ v \in T /\ w[TagName(p, v, "release")] = u[TagName(p, v, "release")]
             \/ /\ TagName(p, v, "yanked") \in DOMAIN w
                /\ w[TagName(p, v, "yanked")] = u[TagName(p, v, "release")]
  <2>1. PICK n, y : n = TagName(p, v, "release") /\ y = TagName(p, v, "yanked")
    OBVIOUS
  <2>2. n \in DOMAIN u /\ n.kind = "release" /\ n.pkg = p /\ n.ver = v
    BY <1>6, <1>8, <2>1
  <2>3. CASE n \in Named(A, "delete")
    <3>1. y \in Named(A, "tag") /\ t[y] = u[n]
      BY <1>2, <2>1, <2>2, <2>3
    <3> QED BY <1>3, <2>1, <3>1
  <2>4. CASE n \notin Named(A, "delete")
    <3>1. n \notin Named(A, "tag")
      <4>1. SUFFICES ASSUME Fresh(u, p, v) PROVE FALSE
        BY <1>2, <2>2
      <4>2. Before(v, v)
        BY <1>4, <4>1 DEF Fresh
      <4> QED BY <1>6, <4>2, BeforeOrders
    <3> QED BY <1>3, <1>7, <2>1, <2>2, <2>4, <3>1
  <2> QED BY <2>3, <2>4
<1>10. ASSUME NEW v \in T \ S PROVE Fresh(u, p, v)
  <2>1. PICK n : n = TagName(p, v, "release")
    OBVIOUS
  <2>2. n \in DOMAIN w /\ n \notin DOMAIN u /\ n.kind = "release" /\ n.pkg = p /\ n.ver = v
    BY <1>6, <1>7, <1>8, <2>1
  <2>3. n \in Named(A, "tag")
    BY <1>3, <2>2
  <2> QED BY <1>2, <2>2, <2>3
<1>11. ASSUME NEW v \in g PROVE v \in h
  <2>1. CASE TagName(p, v, "release") \in DOMAIN u
    BY <1>6, <1>7, <1>9, <2>1
  <2>2. CASE TagName(p, v, "yanked") \in DOMAIN u
    <3>1. TagName(p, v, "yanked") \notin Named(A, "delete")
      BY <1>2, <1>8
    <3> QED BY <1>3, <1>7, <2>2, <3>1
  <2> QED BY <1>6, <2>1, <2>2
<1>12. ASSUME NEW v \in h PROVE v \in g \/ Follows(g, v)
  <2>1. CASE v \in T
    BY <1>4, <1>5, <1>6, <1>10, <2>1 DEF Fresh
  <2>2. CASE TagName(p, v, "yanked") \in DOMAIN w
    <3>1. CASE TagName(p, v, "yanked") \in Named(A, "tag")
      BY <1>2, <1>5, <1>8, <3>1
    <3>2. CASE TagName(p, v, "yanked") \notin Named(A, "tag")
      BY <1>3, <1>6, <2>2, <3>2
    <3> QED BY <3>1, <3>2
  <2> QED BY <1>7, <2>1, <2>2
<1>13. GenOK(h)
  <2>1. GenOK(g)
    BY <1>5
  <2>2. \A v \in h : Follows(g, v)
    BY <1>12, <2>1 DEF GenOK, Follows
  <2>3. g \subseteq h
    BY <1>11
  <2> QED BY <2>2, <2>3 DEF GenOK, Follows
<1> QED BY <1>4, <1>5, <1>9, <1>10, <1>11, <1>13 DEF Kept

\* A push keeps origin's triggers on their releases.
LEMMA SentTriggers ==
    ASSUME NEW rn, NEW c, NEW old, NEW r, NEW A, NEW rn2, NEW new, Sent(rn, c, old, r, A, rn2, new),
           TagsSent(rn, c, old), NEW u, u = old[r].tags, TriggersOK(u), NEW w, w = new[r].tags
    PROVE  TriggersOK(w)
<1>1. PICK t : t = c[r].tags
  OBVIOUS
<1>2. /\ TagsOK(t, r) /\ TagsOK(u, r) /\ TagsOK(w, r) /\ Agree(t, w)
      /\ Named(A, "tag") \subseteq DOMAIN t
      /\ \A n \in Named(A, "tag") : n.kind = "release" => Fresh(u, n.pkg, n.ver)
      /\ \A n \in Named(A, "delete") :
            n.kind = "release" => TagName(n.pkg, n.ver, "trigger") \in Named(A, "delete")
  BY <1>1, SentTags
<1>3. /\ DOMAIN w = (DOMAIN u \ Named(A, "delete")) \cup Named(A, "tag")
      /\ \A n \in DOMAIN w : w[n] = IF n \in Named(A, "tag") THEN t[n] ELSE u[n]
  BY <1>1 DEF Sent, Sending, TagsPushed
<1>4. TriggersOK(t)
  BY <1>1 DEF Sent, Sending, TagsSent
<1> SUFFICES ASSUME NEW n \in DOMAIN w, n.kind = "trigger",
                    NEW rel, rel = TagName(n.pkg, n.ver, "release")
             PROVE  rel \in DOMAIN w /\ w[rel] = w[n]
  BY DEF TriggersOK
<1>5. rel.kind = "release" /\ rel.pkg = n.pkg /\ rel.ver = n.ver
  BY DEF TagName
<1>6. CASE n \in Named(A, "tag")
  <2>1. rel \in DOMAIN t /\ t[rel] = t[n] /\ w[n] = t[n]
    BY <1>2, <1>3, <1>4, <1>6 DEF TriggersOK
  <2> QED BY <1>2, <1>5, <2>1 DEF Agree
<1>7. CASE n \notin Named(A, "tag")
  <2>1. n \in DOMAIN u /\ n \notin Named(A, "delete") /\ w[n] = u[n]
    BY <1>3, <1>7
  <2>2. rel \in DOMAIN u /\ u[rel] = u[n]
    BY <2>1 DEF TriggersOK
  <2>3. n = [pkg |-> n.pkg, ver |-> n.ver, kind |-> n.kind] /\ n.pkg \in PkgsIn(r) /\ n.ver \in Version
    BY <1>2, <2>1 DEF TagsOK, TagNames
  <2>4. rel \notin Named(A, "delete")
    <3>1. TagName(rel.pkg, rel.ver, "trigger") = n
      BY <1>5, <2>3 DEF TagName
    <3> QED BY <1>2, <1>5, <2>1, <3>1
  <2>5. rel \notin Named(A, "tag")
    <3>1. SUFFICES ASSUME Fresh(u, n.pkg, n.ver) PROVE FALSE
      BY <1>2, <1>5
    <3>2. n.ver \in Selection(u, n.pkg)
      BY <1>2, <2>2, <2>3, SelectionIs
    <3>3. Before(n.ver, n.ver)
      BY <3>1, <3>2 DEF Fresh
    <3> QED BY <2>3, <3>3, BeforeOrders
  <2> QED BY <1>3, <2>1, <2>2, <2>4, <2>5
<1> QED BY <1>6, <1>7


\* The branches that go with the releases were bundled with them.
LEMMA SentPointers ==
    ASSUME NEW rn, NEW c, NEW old, NEW r, NEW A, NEW rn2, NEW new, Sent(rn, c, old, r, A, rn2, new),
           TagsSent(rn, c, old), Pointers(rn, c, old), NEW p \in PkgsIn(r), NEW f \in Flavors,
           PointsAt(old[r].tags, old[r].branch, p, f)
    PROVE  /\ PointsAt(new[r].tags, new[r].branch, p, f)
           /\ SameReleases(c[r].tags, new[r].tags, p, f)
<1>1. p \in Pkgs /\ r = Repo(p) /\ r \in Repos
  BY PkgsFinite DEF PkgsIn, Sent, Sending
<1>2. PICK t, u, w : t = c[r].tags /\ u = old[r].tags /\ w = new[r].tags
  OBVIOUS
<1>3. TagsOK(t, r) /\ TagsOK(u, r) /\ TagsOK(w, r) /\ Agree(t, w)
  BY <1>2, SentTags
<1>4. /\ Selection(t, p) = Selection(w, p)
      /\ \A v \in Selection(t, p) : t[TagName(p, v, "release")] = w[TagName(p, v, "release")]
      /\ SameReleases(t, w, p, f)
  BY <1>3, AgreeIs
<1>5. PICK S, F : S = Selection(w, p) /\ F = OfFlavor(S, f)
  OBVIOUS
<1>6. S \subseteq Version /\ IsFiniteSet(S)
  BY <1>3, <1>5, SelectionIs
<1>7. F \subseteq S /\ IsFiniteSet(F)
  BY <1>5, <1>6, OfFlavorIs
<1> SUFFICES ASSUME F # {}
             PROVE  new[r].branch[<<p, f>>] = w[TagName(p, Latest(F), "release")]
  BY <1>2, <1>4, <1>5 DEF PointsAt
<1>8. Latest(F) \in F
  BY <1>6, <1>7, LatestIs
<1>9. <<p, f>> \in DOMAIN old[r].branch
  <2>1. LocalOK(old)
    BY DEF Sent
  <2> QED BY <1>1, <2>1 DEF LocalOK, CloneOK
<1>10. new[r].branch[<<p, f>>] = IF <<p, f>> \in Named(rn.refs[r], "branch")
                                 THEN c[r].branch[<<p, f>>] ELSE old[r].branch[<<p, f>>]
  BY <1>9 DEF Sent, Sending
<1>11. ~RollsBack(rn.todo, p, f)
  BY DEF Sent, Sending, RollsBack
<1>12. IF <<p, f>> \in Named(rn.refs[r], "branch") THEN PointsAt(t, c[r].branch, p, f)
       ELSE SameReleases(t, u, p, f)
  BY <1>1, <1>2, <1>4, <1>5, <1>11 DEF Pointers
<1>13. CASE <<p, f>> \in Named(rn.refs[r], "branch")
  <2>1. PointsAt(t, c[r].branch, p, f)
    BY <1>12, <1>13
  <2>2. c[r].branch[<<p, f>>] = t[TagName(p, Latest(F), "release")]
    BY <1>4, <1>5, <2>1 DEF PointsAt
  <2> QED BY <1>4, <1>5, <1>7, <1>8, <1>10, <1>13, <2>2
<1>14. CASE <<p, f>> \notin Named(rn.refs[r], "branch")
  <2>1. SameReleases(t, u, p, f)
    BY <1>12, <1>14
  <2>2. /\ OfFlavor(Selection(u, p), f) = F
        /\ \A v \in F : t[TagName(p, v, "release")] = u[TagName(p, v, "release")]
    BY <1>4, <1>5, <2>1 DEF SameReleases
  <2>3. PointsAt(u, old[r].branch, p, f)
    BY <1>2
  <2>4. old[r].branch[<<p, f>>] = u[TagName(p, Latest(F), "release")]
    BY <2>2, <2>3 DEF PointsAt
  <2> QED BY <1>4, <1>5, <1>7, <1>8, <1>10, <1>14, <2>2, <2>4
<1> QED BY <1>13, <1>14

\* A core that is pushed pins what is there: the siblings went first.
LEMMA SentPins ==
    ASSUME NEW rn, NEW c, NEW old, NEW r, NEW A, NEW rn2, NEW new, Sent(rn, c, old, r, A, rn2, new),
           RunInv(rn, c, old), OriginInv(old), NEW v \in Selection(new["core"].tags, Core),
           NEW s \in Siblings, NEW pin, pin = new["core"].tags[TagName(Core, v, "release")].pin[s],
           pin # None
    PROVE  pin \in Generation(new["siblings"].tags, s)
<1>1. TagsSent(rn, c, old) /\ PinsKept(rn.todo, c)
  BY DEF RunInv
<1>2. /\ r \in Repos /\ LocalOK(c) /\ LocalOK(old) /\ LocalOK(new) /\ rn.todo = {}
      /\ \A q \in Repos : q # r => new[q] = old[q]
  BY DEF Sent, Sending
<1>3. /\ s \in Pkgs /\ Repo(s) = "siblings" /\ Core \in Pkgs /\ Repo(Core) = "core"
      /\ "siblings" \in Repos /\ "core" \in Repos
  BY RepoIs
<1>4. s \in PkgsIn("siblings") /\ Core \in PkgsIn("core")
  BY <1>3 DEF PkgsIn
<1>5. CASE r = "core"
  <2>1. PICK t, w : t = c["core"].tags /\ w = new["core"].tags
    OBVIOUS
  <2>2. TagsOK(t, "core") /\ TagsOK(w, "core") /\ Agree(t, w)
    BY <1>1, <1>5, <2>1, SentTags
  <2>3. /\ Selection(t, Core) = Selection(w, Core)
        /\ \A x \in Selection(t, Core) :
                t[TagName(Core, x, "release")] = w[TagName(Core, x, "release")]
    BY <1>4, <2>2, AgreeIs
  <2>4. v \in Selection(t, Core) /\ pin = t[TagName(Core, v, "release")].pin[s]
    BY <2>1, <2>3
  <2>5. Pinned(rn.todo, c, s, pin)
    BY <1>1, <2>1, <2>4 DEF PinsKept
  <2>6. pin \in Generation(c["siblings"].tags, s)
    BY <1>2, <2>5 DEF Pinned
  <2>7. PICK a, b, B : a = c["siblings"].tags /\ b = old["siblings"].tags /\ B = Pending(rn, "siblings")
    OBVIOUS
  <2>8. TagsOK(a, "siblings") /\ TagsOK(b, "siblings")
    BY <1>2, <1>3, <2>7 DEF LocalOK, CloneOK
  <2>9. \A n \in TagsOf(B) : n.kind = "trigger"
    BY <1>3, <1>5, <2>7 DEF Sent, Sending
  <2>10. Behind(a, b, B)
    BY <1>1, <1>3, <2>7 DEF TagsSent
  <2>11. Agree(a, b)
    BY <2>9, <2>10, BehindAgree
  <2>12. Generation(a, s) = Generation(b, s)
    BY <1>4, <2>8, <2>11, AgreeIs
  <2> QED BY <1>2, <1>3, <1>5, <2>6, <2>7, <2>12
<1>6. CASE r = "siblings"
  <2>1. new["core"] = old["core"]
    BY <1>2, <1>3, <1>6
  <2>2. pin \in Generation(old["siblings"].tags, s)
    BY <2>1 DEF OriginInv
  <2>3. PICK u, w : u = old[r].tags /\ w = new[r].tags
    OBVIOUS
  <2>4. GenOK(Generation(u, s))
    BY <1>3, <1>6, <2>3 DEF OriginInv
  <2>5. Generation(u, s) \subseteq Generation(w, s)
    BY <1>1, <1>4, <1>6, <2>3, <2>4, SentReleases
  <2> QED BY <1>6, <2>2, <2>3, <2>5
<1> QED BY <1>2, <1>5, <1>6 DEF Repos

\* A push keeps what holds of origin.
LEMMA SentOrigin ==
    ASSUME NEW rn, NEW c, NEW old, NEW r, NEW A, NEW rn2, NEW new, Sent(rn, c, old, r, A, rn2, new),
           RunInv(rn, c, old), OriginInv(old)
    PROVE  /\ OriginInv(new)
           /\ \A p \in Pkgs : Kept(old[Repo(p)].tags, new[Repo(p)].tags, p)
<1>1. TagsSent(rn, c, old) /\ Pointers(rn, c, old)
  BY DEF RunInv
<1>2. r \in Repos /\ \A q \in Repos : q # r => new[q] = old[q]
  BY DEF Sent, Sending
<1>3. \A p \in Pkgs : Repo(p) \in Repos /\ (Repo(p) = r => p \in PkgsIn(r))
  BY PkgsFinite DEF PkgsIn
<1>4. PICK u, w : u = old[r].tags /\ w = new[r].tags
  OBVIOUS
<1>5. TriggersOK(w)
  BY <1>1, <1>2, <1>4, SentTriggers DEF OriginInv
<1>6. \A q \in Repos : TriggersOK(new[q].tags)
  BY <1>2, <1>4, <1>5 DEF OriginInv
<1>7. ASSUME NEW p \in Pkgs, NEW f \in Flavors
      PROVE  PointsAt(new[Repo(p)].tags, new[Repo(p)].branch, p, f)
  <2>1. PICK q \in Repos : q = Repo(p)
    BY <1>3
  <2>2. PointsAt(old[q].tags, old[q].branch, p, f)
    BY <2>1 DEF OriginInv
  <2>3. CASE q = r
    <3>1. PointsAt(old[r].tags, old[r].branch, p, f) /\ p \in PkgsIn(r)
      BY <1>3, <2>1, <2>2, <2>3
    <3> QED BY <1>1, <2>1, <2>3, <3>1, SentPointers
  <2>4. CASE q # r
    BY <1>2, <2>1, <2>2, <2>4
  <2> QED BY <2>3, <2>4
<1>8. ASSUME NEW p \in Pkgs
      PROVE  /\ Kept(old[Repo(p)].tags, new[Repo(p)].tags, p)
             /\ GenOK(Generation(new[Repo(p)].tags, p))
  <2>1. PICK q \in Repos : q = Repo(p)
    BY <1>3
  <2>2. GenOK(Generation(old[q].tags, p))
    BY <2>1 DEF OriginInv
  <2>3. CASE q = r
    <3>1. p \in PkgsIn(r) /\ GenOK(Generation(u, p))
      BY <1>3, <1>4, <2>1, <2>2, <2>3
    <3>2. Kept(u, w, p) /\ GenOK(Generation(w, p))
      BY <1>1, <1>4, <3>1, SentReleases
    <3> QED BY <1>4, <2>1, <2>3, <3>2
  <2>4. CASE q # r
    BY <1>2, <2>1, <2>2, <2>4 DEF Kept
  <2> QED BY <2>3, <2>4
<1>9. \A v \in Selection(new["core"].tags, Core), s \in Siblings :
        LET pin == new["core"].tags[TagName(Core, v, "release")].pin[s]
        IN  pin # None => pin \in Generation(new["siblings"].tags, s)
  BY SentPins
<1> QED BY <1>6, <1>7, <1>8, <1>9 DEF OriginInv

\* A push keeps what holds of its run.
LEMMA SentRun ==
    ASSUME NEW rn, NEW c, NEW old, NEW r, NEW A, NEW rn2, NEW new, Sent(rn, c, old, r, A, rn2, new),
           RunInv(rn, c, old), OriginInv(old)
    PROVE  RunInv(rn2, c, new)
<1>1. TagsSent(rn, c, old) /\ Pointers(rn, c, old) /\ PinsKept(rn.todo, c) /\ SiblingsFirst(rn)
  BY DEF RunInv
<1>2. /\ r \in Repos /\ rn.todo = {} /\ rn2.todo = {} /\ rn2.planned /\ rn2.first = rn.first
      /\ rn2.refs[r] = {}
      /\ \A q \in Repos : q # r => rn2.refs[q] = rn.refs[q] /\ new[q] = old[q]
                                   /\ Pending(rn2, q) = Pending(rn, q)
  BY DEF Sent, Sending
<1>3. PICK t, u, w : t = c[r].tags /\ u = old[r].tags /\ w = new[r].tags
  OBVIOUS
<1>4. Behind(t, w, Pending(rn2, r))
  BY <1>1, <1>3, SentTags
<1>5. \A op : Named({}, op) = {}
  BY NamedIs
<1>6. TagsSent(rn2, c, new)
  <2>1. TagsBundled({}, t, w)
    BY <1>5 DEF TagsBundled
  <2>2. TriggersOK(t)
    BY <1>1, <1>2, <1>3 DEF TagsSent
  <2>3. ASSUME NEW q \in Repos
        PROVE  /\ Behind(c[q].tags, new[q].tags, Pending(rn2, q))
               /\ TriggersOK(c[q].tags)
               /\ TagsBundled(rn2.refs[q], c[q].tags, new[q].tags)
    <3>1. CASE q = r
      BY <1>2, <1>3, <1>4, <2>1, <2>2, <3>1
    <3>2. CASE q # r
      BY <1>1, <1>2, <3>2 DEF TagsSent
    <3> QED BY <3>1, <3>2
  <2> QED BY <2>3 DEF TagsSent
<1>7. NewReleases(rn2.todo, new) /\ Rollbacks(rn2.todo, c)
  BY <1>2 DEF NewReleases, Rollbacks
<1>8. Pointers(rn2, c, new)
  <2> SUFFICES ASSUME NEW p \in Pkgs, NEW f \in Flavors
               PROVE  \/ RollsBack(rn2.todo, p, f)
                      \/ OfFlavor(Selection(c[Repo(p)].tags, p), f) = {}
                      \/ IF <<p, f>> \in Named(rn2.refs[Repo(p)], "branch")
                         THEN PointsAt(c[Repo(p)].tags, c[Repo(p)].branch, p, f)
                         ELSE SameReleases(c[Repo(p)].tags, new[Repo(p)].tags, p, f)
    BY DEF Pointers
  <2>1. PICK q \in Repos : q = Repo(p)
    BY PkgsFinite
  <2>2. CASE q = r
    <3>1. p \in PkgsIn(r) /\ PointsAt(old[r].tags, old[r].branch, p, f)
      BY <2>1, <2>2 DEF OriginInv, PkgsIn
    <3>2. SameReleases(c[r].tags, new[r].tags, p, f)
      BY <1>1, <3>1, SentPointers
    <3> QED BY <1>2, <1>5, <2>1, <2>2, <3>2
  <2>3. CASE q # r
    BY <1>1, <1>2, <2>1, <2>3 DEF Pointers
  <2> QED BY <2>2, <2>3
<1>9. PinsKept(rn2.todo, c)
  BY <1>1, <1>2
<1>10. SiblingsFirst(rn2)
  BY <1>1, <1>2, RepoIs DEF SiblingsFirst
<1> QED BY <1>6, <1>7, <1>8, <1>9, <1>10 DEF RunInv


-----------------------------------------------------------------------------
(* The steps of the specification *)

AllKept == \A p \in Pkgs : Kept(origin[Repo(p)].tags, origin'[Repo(p)].tags, p)
StepInv == OriginInv(origin)' /\ RunsInv' /\ AllKept

\* Releases are kept where tags are.
LEMMA TagsKept ==
    ASSUME SameTags(origin, origin')
    PROVE  AllKept
<1>1. \A p \in Pkgs : origin'[Repo(p)].tags = origin[Repo(p)].tags
  BY PkgsFinite DEF SameTags
<1> QED BY <1>1 DEF AllKept, Kept

\* A step that leaves origin alone.
LEMMA OwnStep ==
    ASSUME OneMachine, OriginInv(origin), origin' = origin, NEW m \in Machine,
           run'[m] # Idle /\ run'[m].cmd.name # "resync" => RunInv(run'[m], clone'[m], origin)
    PROVE  StepInv
<1>1. OriginInv(origin)'
  BY DEF OriginInv
<1>2. RunsInv'
  BY DEF OneMachine, RunsInv
<1>3. AllKept
  BY TagsKept DEF SameTags
<1> QED BY <1>1, <1>2, <1>3 DEF StepInv

\* Origin and the clones are well formed.
LEMMA LocalsOK ==
    ASSUME TypeInv
    PROVE  LocalOK(origin) /\ \A m \in Machine : LocalOK(clone[m])
BY DEF TypeInv, StoresOK, LocalOK

\* A commit by somebody: tags and branches of origin stay.
LEMMA InvSource ==
    ASSUME IInv, NEW p \in Pkgs, SourceChange(p)
    PROVE  StepInv
<1>1. PICK r \in Repos : r = Repo(p)
  BY PkgsFinite
<1>2. PICK o : o = origin[r]
  OBVIOUS
<1>3. TypeInv /\ OriginInv(origin)
  BY DEF IInv, RunsInv
<1>4. CloneOK(o, r) /\ origin = [q \in Repos |-> origin[q]]
  BY <1>2, <1>3 DEF TypeInv, StoresOK
<1>5. PICK main : origin' = [origin EXCEPT ![r] = [o EXCEPT !.main = main]]
  BY <1>1, <1>2 DEF SourceChange
<1>6. PICK d : d = [o EXCEPT !.main = main]
  OBVIOUS
<1>7. d.tags = o.tags /\ d.branch = o.branch
  BY <1>4, <1>6 DEF CloneOK
<1>8. SameTags(origin, origin')
  BY <1>2, <1>4, <1>5, <1>6, <1>7 DEF SameTags
<1>9. clone' = clone /\ run' = run
  BY DEF SourceChange
<1>10. OriginInv(origin')
  BY <1>3, <1>8, OriginSame
<1>11. OriginInv(origin)'
  BY <1>10
<1>12. RunsInv'
  <2>1. ASSUME NEW m \in Machine, run[m] # Idle, run[m].cmd.name # "resync"
        PROVE  RunInv(run[m], clone[m], origin')
    <3>1. PlanOK(clone[m], run[m].todo)
      BY <1>3, <2>1 DEF TypeInv, RunsOK, RunOK
    <3>2. RunInv(run[m], clone[m], origin)
      BY <2>1 DEF IInv, RunsInv
    <3> QED BY <1>8, <3>1, <3>2, RunSame
  <2> QED BY <1>9, <2>1 DEF RunsInv
<1> QED BY <1>8, <1>11, <1>12, TagsKept DEF StepInv

\* A pull: no run is in progress.
LEMMA InvPull ==
    ASSUME OneMachine, IInv, NEW m \in Machine, NEW r \in Repos, Pull(m, r)
    PROVE  StepInv
<1>1. run'[m] = Idle /\ origin' = origin
  BY DEF Pull
<1> QED BY <1>1, OwnStep DEF IInv, RunsInv

\* The command line: a run begins only if its clones have origin's tags.
LEMMA InvStart ==
    ASSUME OneMachine, IInv, NEW m \in Machine, NEW cmd \in Commands, Start(m, cmd)
    PROVE  StepInv
<1>1. TypeInv /\ OriginInv(origin)
  BY DEF IInv, RunsInv
<1>2. PICK e, rn : e = Fetched(m) /\ rn = Verified(cmd)
  OBVIOUS
<1>3. /\ run[m] = Idle /\ origin' = origin
      /\ clone' = IF cmd.name = "resync" THEN clone ELSE [clone EXCEPT ![m] = e]
      /\ run' = IF cmd.name = "resync" \/ \A r \in Repos : Synced(clone[m][r], r)
                THEN [run EXCEPT ![m] = rn] ELSE run
  BY <1>2 DEF Start
<1>4. clone = [n \in Machine |-> clone[n]] /\ run = [n \in Machine |-> run[n]]
  BY <1>1 DEF TypeInv, StoresOK, RunsOK
<1>5. rn.cmd = cmd
  BY <1>2 DEF Verified
<1> SUFFICES ASSUME run'[m] # Idle, run'[m].cmd.name # "resync"
             PROVE  RunInv(run'[m], clone'[m], origin)
  BY <1>1, <1>3, OwnStep
<1>6. cmd.name # "resync" /\ (\A r \in Repos : Synced(clone[m][r], r)) /\ run'[m] = rn
  BY <1>3, <1>4, <1>5
<1>7. clone'[m] = e
  BY <1>3, <1>4, <1>6
<1>8. ASSUME NEW r \in Repos PROVE e[r].tags = origin[r].tags
  <2>1. PICK c : c = clone[m][r]
    OBVIOUS
  <2>2. CloneOK(c, r) /\ CloneOK(origin[r], r)
    BY <1>1, <2>1 DEF TypeInv, StoresOK
  <2>3. ~c.dirty /\ \A n \in DOMAIN c.tags \cap DOMAIN origin[r].tags : c.tags[n] = origin[r].tags[n]
    BY <1>6, <2>1 DEF Synced
  <2>4. PICK d : d = Reconciled(c, r)
    OBVIOUS
  <2>5. e[r] = d
    BY <1>2, <1>6, <2>1, <2>3, <2>4 DEF Fetched, Repos
  <2>6. /\ DOMAIN d.tags = DOMAIN origin[r].tags
        /\ \A n \in DOMAIN d.tags :
             d.tags[n] = IF n \in DOMAIN c.tags THEN c.tags[n] ELSE origin[r].tags[n]
    BY <2>2, <2>4, ReconciledIs
  <2>7. CloneOK(d, r)
    BY <2>2, <2>4, ReconciledIs
  <2>8. \A n \in DOMAIN d.tags : d.tags[n] = origin[r].tags[n]
    BY <2>3, <2>6
  <2>9. d.tags \in [DOMAIN d.tags -> Commit] /\ origin[r].tags \in [DOMAIN origin[r].tags -> Commit]
    BY <2>2, <2>7 DEF CloneOK, TagsOK
  <2> QED BY <2>5, <2>6, <2>8, <2>9
<1> QED BY <1>1, <1>2, <1>6, <1>7, <1>8, VerifiedInv

\* Planning.
LEMMA InvPlan ==
    ASSUME OneMachine, IInv, NEW m \in Machine, Plan(m)
    PROVE  StepInv
<1>1. TypeInv /\ OriginInv(origin)
  BY DEF IInv, RunsInv
<1>2. PICK rn, c : rn = run[m] /\ c = clone[m]
  OBVIOUS
<1>3. rn # Idle /\ ~rn.planned /\ origin' = origin /\ clone' = clone
  BY <1>2 DEF Plan
<1>4. PICK next : next = [rn EXCEPT !.planned = TRUE, !.todo = Steps(c, rn.cmd)] /\ Goes(m, next)
  BY <1>2 DEF Plan
<1>5. RunOK(rn, c) /\ LocalOK(c) /\ LocalOK(origin)
  BY <1>1, <1>2, <1>3, LocalsOK DEF TypeInv, RunsOK
<1>6. next.cmd = rn.cmd
  BY <1>4, <1>5 DEF RunOK, RunShape
<1>7. run'[m] = next \/ run'[m] = Idle
  BY <1>1, <1>4, GoesIs DEF TypeInv, RunsOK
<1>8. ASSUME rn.cmd.name # "resync" PROVE RunInv(next, c, origin)
  <2>1. RunInv(rn, c, origin)
    BY <1>2, <1>3, <1>8 DEF IInv, RunsInv
  <2> QED BY <1>1, <1>3, <1>4, <1>5, <1>8, <2>1, PlannedInv
<1>9. run'[m] # Idle /\ run'[m].cmd.name # "resync" => RunInv(run'[m], clone'[m], origin)
  BY <1>2, <1>3, <1>6, <1>7, <1>8
<1> QED BY <1>1, <1>3, <1>9, OwnStep

\* A step, taken or failed.
LEMMA InvApply ==
    ASSUME OneMachine, IInv, NEW m \in Machine, Apply(m)
    PROVE  StepInv
<1>1. TypeInv /\ OriginInv(origin)
  BY DEF IInv, RunsInv
<1>2. PICK rn, c : rn = run[m] /\ c = clone[m]
  OBVIOUS
<1>3. rn # Idle /\ origin' = origin
  BY <1>2 DEF Apply
<1>4. PICK step \in Upcoming(rn.todo) :
        IF Fails(c[step.repo], step) THEN Idles(m) /\ UNCHANGED clone
        ELSE Changed(m, step.repo, Applied(c[step.repo], step)) /\ Goes(m, Done(rn, c[step.repo], step))
  BY <1>2 DEF Apply
<1>5. /\ RunOK(rn, c) /\ LocalOK(c) /\ LocalOK(origin) /\ StoresOK
      /\ run = [n \in Machine |-> run[n]]
  BY <1>1, <1>2, <1>3, LocalsOK DEF TypeInv, RunsOK
<1>6. CASE Fails(c[step.repo], step)
  <2>1. run'[m] = Idle
    BY <1>4, <1>5, <1>6, IdlesIs
  <2> QED BY <1>1, <1>3, <2>1, OwnStep
<1>7. CASE ~Fails(c[step.repo], step)
  <2>1. PICK d : d = Applied(c[step.repo], step)
    OBVIOUS
  <2>2. PICK next : next = Done(rn, c[step.repo], step)
    OBVIOUS
  <2>3. Changed(m, step.repo, d) /\ Goes(m, next)
    BY <1>4, <1>7, <2>1, <2>2
  <2>4. PICK e : e = [c EXCEPT ![step.repo] = d]
    OBVIOUS
  <2>5. CloneOK(d, step.repo)
    BY <1>2, <1>5, <2>1, <2>2, <2>4, TakenOK
  <2>6. step \in rn.todo /\ StepOK(step) /\ RunShape(rn)
    BY <1>5, UpcomingStands DEF RunOK
  <2>7. clone'[m] = e
    BY <1>2, <1>3, <1>5, <2>3, <2>4, <2>5, <2>6, CloneChanges DEF StepOK
  <2>8. run'[m] = next \/ run'[m] = Idle
    BY <1>5, <2>3, GoesIs
  <2>9. next.cmd = rn.cmd
    BY <2>2, <2>6 DEF Done, RunShape
  <2>10. ASSUME rn.cmd.name # "resync" PROVE RunInv(next, e, origin)
    <3>1. step.kind # "reset"
      BY <2>6, <2>10 DEF RunShape
    <3>2. Took(rn, c, step, next, e)
      BY <1>2, <1>5, <1>7, <2>1, <2>2, <2>4, <3>1, TookIs
    <3>3. RunInv(rn, c, origin)
      BY <1>2, <1>3, <2>10 DEF IInv, RunsInv
    <3> QED BY <1>5, <3>2, <3>3, TookInv
  <2>11. run'[m] # Idle /\ run'[m].cmd.name # "resync" => RunInv(run'[m], clone'[m], origin)
    BY <2>7, <2>8, <2>9, <2>10
  <2> QED BY <1>1, <1>3, <2>11, OwnStep
<1> QED BY <1>6, <1>7

\* An interruption ends the run.
LEMMA InvInterrupted ==
    ASSUME OneMachine, IInv, NEW m \in Machine, Interrupted(m)
    PROVE  StepInv
<1>1. run = [n \in Machine |-> run[n]]
  BY DEF IInv, RunsInv, TypeInv, RunsOK
<1>2. run'[m] = Idle /\ origin' = origin
  BY <1>1, IdlesIs DEF Interrupted
<1> QED BY <1>2, OwnStep DEF IInv, RunsInv


\* Any push: accepted, or the end of the run.
LEMMA InvPush ==
    ASSUME OneMachine, IInv, NEW m \in Machine, NEW rn, rn = run[m], rn # Idle,
           NEW r, NEW A, NEW next, Sending(rn, r, A, next), next.cmd = rn.cmd,
           rn.cmd.name # "resync", PushTo(m, r, A, next), clone' = clone
    PROVE  StepInv
<1>1. TypeInv /\ OriginInv(origin) /\ r \in Repos
  BY DEF IInv, RunsInv, Sending
<1>2. PICK c, x, o : c = clone[m] /\ x = clone[m][r] /\ o = origin[r]
  OBVIOUS
<1>3. StoresOK /\ RunOK(rn, c) /\ run = [n \in Machine |-> run[n]]
  BY <1>1, <1>2 DEF TypeInv, RunsOK
<1>4. RunInv(rn, c, origin)
  BY <1>2 DEF IInv, RunsInv
<1>5. CloneOK(x, r) /\ CloneOK(o, r) /\ ~o.dirty
  BY <1>1, <1>2, <1>3 DEF StoresOK
<1>6. CASE ~Accepted(x, o, A)
  <2>1. Idles(m) /\ origin' = origin
    BY <1>2, <1>6 DEF PushTo
  <2>2. run'[m] = Idle
    BY <1>3, <2>1, IdlesIs
  <2> QED BY <1>1, <2>1, <2>2, OwnStep
<1>7. CASE Accepted(x, o, A)
  <2>1. PICK d : d = Pushed(x, o, A)
    OBVIOUS
  <2>2. origin' = [origin EXCEPT ![r] = d] /\ Goes(m, next)
    BY <1>2, <1>7, <2>1 DEF PushTo
  <2>3. Named(A, "tag") \subseteq DOMAIN x.tags
    <3>1. A \subseteq Pending(rn, r)
      BY DEF Sending
    <3>2. Named(A, "tag") \subseteq Named(Pending(rn, r), "tag")
      BY <3>1, NamedFewer
    <3> QED BY <1>1, <1>2, <1>3, <3>2 DEF RunOK, RefsOK
  <2>4. IsFiniteSet(DOMAIN x.tags)
    BY <1>5 DEF CloneOK, TagsOK
  <2>5. /\ CloneOK(d, r) /\ d.dirty = o.dirty
        /\ \A b \in DOMAIN o.branch :
             d.branch[b] = IF b \in Named(A, "branch") THEN x.branch[b] ELSE o.branch[b]
        /\ DOMAIN d.tags = (DOMAIN o.tags \ Named(A, "delete")) \cup Named(A, "tag")
        /\ \A n \in DOMAIN d.tags :
             d.tags[n] = IF n \in Named(A, "tag") THEN x.tags[n] ELSE o.tags[n]
    BY <1>5, <2>1, <2>3, <2>4, PushedIs
  <2>6. StoresOK' /\ origin'[r] = d /\ \A q \in Repos : q # r => origin'[q] = origin[q]
    BY <1>1, <1>3, <1>5, <2>2, <2>5, OriginChanges
  <2>7. PICK new : new = origin'
    OBVIOUS
  <2>8. LocalOK(c) /\ LocalOK(origin) /\ LocalOK(new)
    <3>1. LocalOK(c) /\ LocalOK(origin)
      BY <1>1, <1>2, LocalsOK
    <3>2. LocalOK(new)
      BY <2>6, <2>7 DEF StoresOK, LocalOK
    <3> QED BY <3>1, <3>2
  <2>9. TagsPushed(x.tags, o.tags, A, d.tags)
    BY <2>5 DEF TagsPushed
  <2>10. Sent(rn, c, origin, r, A, next, new)
    <3>1. c[r] = x /\ origin[r] = o /\ new[r] = d /\ \A q \in Repos : q # r => new[q] = origin[q]
      BY <1>2, <2>6, <2>7
    <3> QED BY <2>5, <2>8, <2>9, <3>1 DEF Sent
  <2>11. OriginInv(new) /\ \A p \in Pkgs : Kept(origin[Repo(p)].tags, new[Repo(p)].tags, p)
    BY <1>1, <1>4, <2>10, SentOrigin
  <2>12. RunInv(next, c, new)
    BY <1>1, <1>4, <2>10, SentRun
  <2>13. run'[m] = next \/ run'[m] = Idle
    BY <1>3, <2>2, GoesIs
  <2>14. OriginInv(origin)'
    BY <2>7, <2>11
  <2>15. RunsInv'
    <3>1. run'[m] # Idle => RunInv(run'[m], clone'[m], origin')
      BY <1>2, <2>7, <2>12, <2>13
    <3> QED BY <3>1 DEF OneMachine, RunsInv
  <2>16. AllKept
    BY <2>7, <2>11 DEF AllKept
  <2> QED BY <2>14, <2>15, <2>16 DEF StepInv
<1> QED BY <1>6, <1>7

\* What is pushed by itself is of triggers.
LEMMA IsolatedTags ==
    ASSUME NEW rn, RunShape(rn), NEW X, X \subseteq rn.isolated
    PROVE  \A n \in TagsOf(X) : n.kind = "trigger"
BY DEF RunShape, TagsOf, Named

\* The push of a repository.
LEMMA InvPushRepo ==
    ASSUME OneMachine, IInv, NEW m \in Machine, PushRepo(m)
    PROVE  StepInv
<1>1. PICK rn : rn = run[m]
  OBVIOUS
<1>2. rn # Idle /\ rn.planned /\ rn.todo = {} /\ clone' = clone
  BY <1>1 DEF PushRepo, Pushing
<1>3. PICK r \in Repos : /\ rn.refs[r] # {} /\ Bundle(m, r)
                         /\ (r = rn.first \/ rn.refs[rn.first] = {})
  BY <1>1 DEF PushRepo
<1>4. PICK next : next = [rn EXCEPT !.refs = [rn.refs EXCEPT ![r] = {}]]
  OBVIOUS
<1>5. PICK A : A = rn.refs[r]
  OBVIOUS
<1>6. PushTo(m, r, A, next)
  BY <1>1, <1>3, <1>4, <1>5 DEF Bundle
<1>7. RunOK(rn, clone[m]) /\ RunShape(rn)
  BY <1>1, <1>2 DEF IInv, RunsInv, TypeInv, RunsOK, RunOK
<1>8. /\ next.todo = rn.todo /\ next.cmd = rn.cmd
      /\ next.isolated = rn.isolated /\ next.first = rn.first /\ next.planned
      /\ \A q \in Repos : next.refs[q] = IF q = r THEN {} ELSE rn.refs[q]
  <2>1. PICK refs : refs = [rn.refs EXCEPT ![r] = {}]
    OBVIOUS
  <2>2. /\ next.todo = rn.todo /\ next.cmd = rn.cmd /\ next.isolated = rn.isolated
        /\ next.first = rn.first /\ next.planned /\ next.refs = refs
    BY <1>2, <1>4, <1>7, <2>1 DEF RunShape
  <2>3. \A q \in Repos : refs[q] = IF q = r THEN {} ELSE rn.refs[q]
    BY <1>7, <2>1 DEF RunShape
  <2> QED BY <2>2, <2>3
<1>9. rn.cmd.name # "resync"
  BY <1>3, <1>7 DEF RunShape, NoRefs
<1>10. r = "core" => rn.refs["siblings"] = {}
  <2>1. SiblingsFirst(rn)
    BY <1>1, <1>2, <1>9 DEF IInv, RunsInv, RunInv
  <2> QED BY <1>3, <2>1 DEF SiblingsFirst
<1>11. \A q \in Repos : rn.refs[q] = {} => \A n \in TagsOf(Pending(rn, q)) : n.kind = "trigger"
  <2>1. \A q \in Repos : rn.refs[q] = {} => Pending(rn, q) \subseteq rn.isolated
    BY DEF Pending
  <2> QED BY <1>7, <2>1, IsolatedTags
<1>12. \A n \in TagsOf(Pending(next, r)) : n.kind = "trigger"
  <2>1. Pending(next, r) \subseteq rn.isolated
    BY <1>8 DEF Pending
  <2> QED BY <1>7, <2>1, IsolatedTags
<1>13. Pending(rn, r) = A \cup Pending(next, r)
  BY <1>5, <1>8 DEF Pending
<1>14. \A q \in Repos : q # r => Pending(next, q) = Pending(rn, q)
  BY <1>8 DEF Pending
<1>15. Sending(rn, r, A, next)
  BY <1>2, <1>5, <1>8, <1>10, <1>11, <1>12, <1>13, <1>14 DEF Sending
<1> QED BY <1>1, <1>2, <1>6, <1>8, <1>9, <1>15, InvPush

\* The push of a trigger.
LEMMA InvPushIsolated ==
    ASSUME OneMachine, IInv, NEW m \in Machine, PushIsolated(m)
    PROVE  StepInv
<1>1. PICK rn : rn = run[m]
  OBVIOUS
<1>2. rn # Idle /\ rn.planned /\ rn.todo = {} /\ clone' = clone /\ rn.refs = NoRefs
  BY <1>1 DEF PushIsolated, Pushing
<1>3. PICK f \in rn.isolated :
        PushTo(m, Repo(f.name.pkg), {f}, [rn EXCEPT !.isolated = rn.isolated \ {f}])
  BY <1>1 DEF PushIsolated
<1>4. PICK next : next = [rn EXCEPT !.isolated = rn.isolated \ {f}]
  OBVIOUS
<1>5. PICK r, A : r = Repo(f.name.pkg) /\ A = {f}
  OBVIOUS
<1>6. PushTo(m, r, A, next)
  BY <1>3, <1>4, <1>5
<1>7. RunOK(rn, clone[m]) /\ RunShape(rn)
  BY <1>1, <1>2 DEF IInv, RunsInv, TypeInv, RunsOK, RunOK
<1>8. /\ next.todo = rn.todo /\ next.cmd = rn.cmd
      /\ next.isolated = rn.isolated \ {f} /\ next.refs = rn.refs
      /\ next.first = rn.first /\ next.planned /\ r \in Repos
  BY <1>2, <1>4, <1>5, <1>7, OneLessIs
<1>9. rn.cmd.name # "resync"
  BY <1>3, <1>7 DEF RunShape
<1>10. \A q \in Repos : rn.refs[q] = {}
  BY <1>2 DEF NoRefs
<1>11. \A q \in Repos : \A n \in TagsOf(Pending(rn, q)) : n.kind = "trigger"
  <2>1. \A q \in Repos : Pending(rn, q) \subseteq rn.isolated
    BY <1>10 DEF Pending
  <2> QED BY <1>7, <2>1, IsolatedTags
<1>12. \A n \in TagsOf(Pending(next, r)) : n.kind = "trigger"
  <2>1. Pending(next, r) \subseteq rn.isolated
    BY <1>8, <1>10 DEF Pending
  <2> QED BY <1>7, <2>1, IsolatedTags
<1>13. \A n \in TagsOf(A) : n.kind = "trigger"
  BY <1>3, <1>5, <1>7, IsolatedTags
<1>14. Named(A, "branch") = {}
  <2>1. f.op # "branch"
    BY <1>3, <1>7 DEF RunShape
  <2> QED BY <1>5, <2>1 DEF Named
<1>15. Named(rn.refs[r], "branch") = {}
  <2>1. Named({}, "branch") = {}
    BY NamedIs
  <2> QED BY <1>8, <1>10, <2>1
<1>16. Pending(rn, r) = A \cup Pending(next, r)
  BY <1>3, <1>5, <1>8 DEF Pending
<1>17. \A q \in Repos : q # r => Pending(next, q) = Pending(rn, q)
  BY <1>5, <1>8 DEF Pending
<1>18. Sending(rn, r, A, next)
  BY <1>2, <1>8, <1>10, <1>11, <1>12, <1>13, <1>14, <1>15, <1>16, <1>17, RepoIs DEF Sending
<1> QED BY <1>1, <1>2, <1>6, <1>8, <1>9, <1>18, InvPush


-----------------------------------------------------------------------------
(* One machine: what holds of the releases on origin *)

\* IInv holds at first: there are no tags and no runs.
LEMMA InvInit == ASSUME Init PROVE IInv
<1>1. TypeInv /\ OriginInv(origin)
  BY TypeInit, OriginInit
<1>2. RunsInv
  BY DEF Init, RunsInv
<1> QED BY <1>1, <1>2 DEF IInv

\* Every step keeps IInv and the releases.
LEMMA InvNext ==
    ASSUME OneMachine, IInv, [Next]_vars
    PROVE  IInv' /\ AllKept
<1>1. TypeInv'
  <2>1. TypeInv
    BY DEF IInv
  <2> QED BY <2>1, TypeNext
<1>2. StepInv
  <2>1. CASE \E p \in Pkgs : SourceChange(p)
    BY <2>1, InvSource
  <2>2. CASE \E m \in Machine, r \in Repos : Pull(m, r)
    BY <2>2, InvPull
  <2>3. CASE \E m \in Machine, cmd \in Commands : Start(m, cmd)
    BY <2>3, InvStart
  <2>4. CASE \E m \in Machine : Works(m)
    BY <2>4, InvPlan, InvApply, InvPushRepo, InvPushIsolated DEF Works
  <2>5. CASE \E m \in Machine : Interrupted(m)
    BY <2>5, InvInterrupted
  <2>6. CASE UNCHANGED vars
    <3>1. origin' = origin /\ clone' = clone /\ run' = run
      BY <2>6 DEF vars
    <3>2. OriginInv(origin)' /\ RunsInv'
      BY <3>1 DEF IInv, RunsInv
    <3>3. AllKept
      BY <3>1, TagsKept DEF SameTags
    <3> QED BY <3>2, <3>3 DEF StepInv
  <2> QED BY <2>1, <2>2, <2>3, <2>4, <2>5, <2>6 DEF Next
<1> QED BY <1>1, <1>2 DEF StepInv, IInv

\* A pin of a published core was published, whatever was interrupted where.
THEOREM PinsCorrect == ASSUME OneMachine PROVE Spec => []PinsResolve
<1>1. ASSUME IInv PROVE PinsResolve
  <2> SUFFICES ASSUME NEW v \in Selection(OnOrigin(Core), Core), NEW s \in Siblings,
                      NEW pin, pin = OnOrigin(Core)[TagName(Core, v, "release")].pin[s],
                      pin # None
               PROVE  \E kind \in {"release", "yanked"} : TagName(s, pin, kind) \in DOMAIN OnOrigin(s)
    BY DEF PinsResolve
  <2>1. OnOrigin(Core) = origin["core"].tags /\ OnOrigin(s) = origin["siblings"].tags
    BY RepoIs DEF OnOrigin
  <2>2. pin \in Generation(origin["siblings"].tags, s)
    BY <1>1, <2>1 DEF IInv, OriginInv
  <2>3. TagsOK(origin["siblings"].tags, "siblings")
    BY <1>1, RepoIs DEF IInv, TypeInv, StoresOK, CloneOK
  <2>4. s \in PkgsIn("siblings")
    BY RepoIs DEF PkgsIn
  <2> QED BY <2>1, <2>2, <2>3, <2>4, SelectionIs
<1>2. Init => IInv
  BY InvInit
<1>3. IInv /\ [Next]_vars => IInv'
  BY InvNext
<1> QED BY <1>1, <1>2, <1>3, PTL DEF Spec

\* A publish trigger stands on the commit of its release.
THEOREM TriggersCorrect == ASSUME OneMachine PROVE Spec => []TriggerHasRelease
<1>1. ASSUME IInv PROVE TriggerHasRelease
  <2>1. \A p \in Pkgs : TriggersOK(OnOrigin(p))
    BY <1>1, PkgsFinite DEF IInv, OriginInv, OnOrigin
  <2> QED BY <2>1 DEF TriggerHasRelease, TriggersOK, OfKind
<1>2. Init => IInv
  BY InvInit
<1>3. IInv /\ [Next]_vars => IInv'
  BY InvNext
<1> QED BY <1>1, <1>2, <1>3, PTL DEF Spec

\* The branches point at the latest releases.
THEOREM PointersCorrect == ASSUME OneMachine PROVE Spec => []PointerAtLatest
<1>1. ASSUME IInv PROVE PointerAtLatest
  <2> SUFFICES ASSUME NEW p \in Pkgs, NEW f \in Flavors,
                      NEW F, F = OfFlavor(Selection(OnOrigin(p), p), f), Latest(F) # None
               PROVE  origin[Repo(p)].branch[<<p, f>>] = OnOrigin(p)[TagName(p, Latest(F), "release")]
    BY DEF PointerAtLatest
  <2>1. PointsAt(OnOrigin(p), origin[Repo(p)].branch, p, f)
    BY <1>1 DEF IInv, OriginInv, OnOrigin
  <2>2. F # {}
    BY DEF Latest
  <2> QED BY <2>1, <2>2 DEF PointsAt
<1>2. Init => IInv
  BY InvInit
<1>3. IInv /\ [Next]_vars => IInv'
  BY InvNext
<1> QED BY <1>1, <1>2, <1>3, PTL DEF Spec

\* A release is never moved or lost, and a new one comes after those before it and is
\* a number that was not used.
THEOREM KeptCorrect == ASSUME OneMachine PROVE Spec => ReleasesKept
<1>1. ASSUME IInv, [Next]_vars, NEW p \in Pkgs, NEW old, old = OnOrigin(p),
             NEW new, new = OnOrigin(p)'
      PROVE  /\ \A v \in Selection(old, p) :
                \/ v \in Selection(new, p) /\ Release(new, p, v) = Release(old, p, v)
                \/ /\ TagName(p, v, "yanked") \in DOMAIN new
                   /\ new[TagName(p, v, "yanked")] = Release(old, p, v)
             /\ \A v \in Selection(new, p) \ Selection(old, p) :
                /\ \A w \in Selection(old, p) : Before(w, v)
                /\ IsFinal(v) \/ TagName(p, v, "yanked") \notin DOMAIN old
  <2>1. AllKept
    BY <1>1, InvNext
  <2>2. Kept(old, new, p)
    BY <1>1, <2>1 DEF AllKept, OnOrigin
  <2> QED BY <2>2 DEF Kept, Fresh, Release
<1>2. Init => IInv
  BY InvInit
<1>3. IInv /\ [Next]_vars => IInv'
  BY InvNext
<1>4. IInv /\ [Next]_vars =>
        [\A p \in Pkgs :
            LET old == OnOrigin(p) new == OnOrigin(p)'
            IN  /\ \A v \in Selection(old, p) :
                    \/ v \in Selection(new, p) /\ Release(new, p, v) = Release(old, p, v)
                    \/ /\ TagName(p, v, "yanked") \in DOMAIN new
                       /\ new[TagName(p, v, "yanked")] = Release(old, p, v)
                /\ \A v \in Selection(new, p) \ Selection(old, p) :
                    /\ \A w \in Selection(old, p) : Before(w, v)
                    /\ IsFinal(v) \/ TagName(p, v, "yanked") \notin DOMAIN old]_vars
  BY <1>1
<1> QED BY <1>2, <1>3, <1>4, PTL DEF Spec, ReleasesKept
=============================================================================
