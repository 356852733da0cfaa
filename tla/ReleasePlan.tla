---------------------------- MODULE ReleasePlan ----------------------------
(***************************************************************************)
(* The planner of xx-promote and the version arithmetic under it: which    *)
(* packages a `pre` or `prod` run cuts, under which version, with which    *)
(* pins.  Every decision is a function of the tags of the local clones and *)
(* of what their main branches hold.                                       *)
(*                                                                         *)
(* A version <<t, n>> is the n-th release candidate of micro version t, or *)
(* its final if n is 0.  A package's tags are of four kinds: "release",    *)
(* "yanked" (a release renamed), "marker" (the setuptools-scm dev marker   *)
(* on main) and "trigger" (the tag the publish workflow listens to).       *)
(***************************************************************************)
EXTENDS Integers, FiniteSets, Sequences

CONSTANTS
    Core,      \* the core package; it has a repository of its own
    Siblings,  \* the packages core pins; they share the other repository
    None       \* no version

Pkgs  == Siblings \cup {Core}
Repos == {"siblings", "core"}
Repo(p) == IF p = Core THEN "core" ELSE "siblings"

Flavors == {"pre", "prod"}

ASSUME PlanAssumption ==
    /\ Core \notin Siblings /\ IsFiniteSet(Siblings)
    /\ None \notin (Nat \X Nat) \cup Repos

-----------------------------------------------------------------------------
(* Versions *)

IsFinal(v) == v[2] = 0
FlavorOf(v) == IF IsFinal(v) THEN "prod" ELSE "pre"

\* PEP 440: a final comes after all of its release candidates.
Before(v, w) ==
    \/ v[1] < w[1]
    \/ v[1] = w[1] /\ ~IsFinal(v) /\ (IsFinal(w) \/ v[2] < w[2])

Latest(S) ==
    IF S = {} THEN None ELSE CHOOSE v \in S : \A w \in S \ {v} : Before(w, v)

OfFlavor(S, f) == {v \in S : FlavorOf(v) = f}

\* The micro version the next `pre` is for.
TargetVersion(gen) ==
    LET final == Latest(OfFlavor(gen, "prod"))
    IN  CASE final # None -> final[1] + 1
          [] final = None /\ gen # {} -> Latest(gen)[1]
          [] OTHER -> 1

NextRc(gen, target) ==
    LET taken == {0} \cup {v[2] : v \in {w \in OfFlavor(gen, "pre") : w[1] = target}}
    IN  1 + CHOOSE n \in taken : \A k \in taken : k <= n

-----------------------------------------------------------------------------
(* Tags.  A clone's tags are a function from tag names to commits. *)

TagName(p, v, kind) == [pkg |-> p, ver |-> v, kind |-> kind]

OfKind(tags, p, kinds) ==
    {n \in DOMAIN tags : n.pkg = p /\ n.kind \in kinds}

\* The versions to select from, and those whose numbers are taken.
Selection(tags, p)  == {n.ver : n \in OfKind(tags, p, {"release"})}
\* A yanked number is free again.
Generation_Released(tags, p) == {n.ver : n \in OfKind(tags, p, {"release"})}
Generation(tags, p) == {n.ver : n \in OfKind(tags, p, {"release", "yanked"})}

\* The marker steps back, and from a final below zero.
Marker_Behind(p, v) == TagName(p, <<v[1], v[2] - 1>>, "marker")

\* The marker on main: {T}rc(N+1).dev after rcN, {next_micro(T)}rc0.dev after T.
Marker(p, v) ==
    TagName(p, IF IsFinal(v) THEN <<v[1] + 1, 0>> ELSE <<v[1], v[2] + 1>>, "marker")

-----------------------------------------------------------------------------
(* Plans.  head[p] is the commit of main in p's repository, tags[p] the tags
   there.  A commit records the sources of the packages, the test groups of the
   siblings and core's pins. *)

\* The commit of a package's latest release carries the sources of its fork
\* from main, which is what the footprint is compared with.  Core's is exempt
\* from edits of its pins, a sibling's is not exempt from those of its test group.
FootprintChanged(p, head, tags) ==
    LET latest == Latest(Selection(tags[p], p))
        fork   == tags[p][TagName(p, latest, "release")]
    IN  \/ latest = None
        \/ head[p].src[p] # fork.src[p]
        \/ p # Core /\ head[p].test[p] # fork.test[p]

\* The exact pins core's latest release was published with.
CurrentForward(tags) ==
    LET latest == Latest(Selection(tags[Core], Core))
    IN  IF latest = None THEN [s \in Siblings |-> None]
        ELSE tags[Core][TagName(Core, latest, "release")].pin

Decision(version, act) == [ver |-> version, act |-> act]

\* The number is the next one of the generation, those of yanked releases included.
NewRc(p, tags) ==
    LET gen    == Generation(tags[p], p)
        target == TargetVersion(gen)
    IN  Decision(<<target, NextRc(gen, target)>>, TRUE)

Coordinated(p, changed, tags) ==
    IF changed THEN NewRc(p, tags)
    ELSE Decision(Latest(Selection(tags[p], p)), FALSE)

\* PrePlan._decide: core is cut again when a pin of its latest release lags.
DecidePre(head, tags) ==
    LET sib  == [s \in Siblings |->
                    Coordinated(s, FootprintChanged(s, head, tags), tags)]
        lags == \E s \in Siblings : /\ sib[s].ver # None
                                    /\ CurrentForward(tags)[s] # sib[s].ver
    IN  [p \in Pkgs |->
            IF p = Core
            THEN Coordinated(Core, FootprintChanged(Core, head, tags) \/ lags, tags)
            ELSE sib[p]]

\* ProdPlan._decide: a package whose latest release is a candidate is finalized.
DecideProd(tags) ==
    [p \in Pkgs |->
        LET latest == Latest(Selection(tags[p], p))
        IN  IF latest = None \/ IsFinal(latest) THEN Decision(None, FALSE)
            ELSE Decision(<<latest[1], 0>>, TRUE)]

NoPins == [s \in {} |-> None]

\* The pins of the decided siblings, which are written on core's release commit:
\* the others stay as they are there.  A sibling's has core as its test group.
ForwardPins(p, decided) ==
    IF p # Core THEN NoPins
    ELSE [s \in {t \in Siblings : decided[t].ver # None} |-> decided[s].ver]
ReversePin(p, decided) == IF p = Core THEN None ELSE decided[Core].ver
=============================================================================
