----------------------------- MODULE Promotion -----------------------------
(***************************************************************************)
(* xx-promote: a run verifies that its clones are at origin, plans, applies *)
(* every step to the clones, and only then pushes, once per repository and *)
(* then once for each publish trigger.  A run may be interrupted anywhere;  *)
(* `resync` throws local work away.                                        *)
(*                                                                         *)
(* Origin and git are external: a push is applied as a whole or not at all, *)
(* main moves forward only, and a tag that is there is not overwritten.    *)
(***************************************************************************)
EXTENDS ReleasePlan, FiniteSets, SequencesExt

CONSTANTS
    Machine,      \* clones of the two repositories, each with its operator
    Idle,         \* no run in progress
    MaxSrc,       \* bound on source changes
    MaxFault,     \* bound on interrupted runs and on runs with --no-publish
    MaxProd,      \* bound on `prod` runs
    MaxYank       \* bound on `yank` runs

ASSUME PromotionAssumption ==
    IsFiniteSet(Machine) /\ {MaxSrc, MaxFault, MaxProd, MaxYank} \subseteq Nat

VARIABLES
    origin,  \* the two repositories on the server
    clone,   \* each machine's clones
    run,     \* each machine's run, see below
    used     \* how much of the bounds is used up

vars == <<origin, clone, run, used>>

PkgsIn(r) == {p \in Pkgs : Repo(p) = r}
Heads(c)  == [p \in Pkgs |-> Last(c[Repo(p)].main)]
Tags(c)   == [p \in Pkgs |-> c[Repo(p)].tags]

\* git's commit ids: one that no reference leads to may be used again.  c is
\* the clone that is being changed.
Reachable(c) ==
    {k.id : k \in Range(c.main) \cup Range(c.tags) \cup (Range(c.branch) \ {None})}
FreshId(r, c) ==
    LET taken == UNION ({Reachable(c), Reachable(origin[r])}
                        \cup {Reachable(clone[m][r]) : m \in Machine})
    IN  CHOOSE n \in 0..Cardinality(taken) : n \notin taken

\* A run: its steps, once they are known, until they are taken; by repository the
\* references that remain to be pushed, those of publish triggers, and the
\* repository of the first one.
NoRefs == [r \in Repos |-> {}]
Verified(cmd) == [cmd |-> cmd, planned |-> FALSE, todo |-> {}, refs |-> NoRefs,
                  isolated |-> {}, first |-> None]

Idles(m) == run' = [run EXCEPT ![m] = Idle]
Goes(m, next) ==
    IF next.todo = {} /\ next.refs = NoRefs /\ next.isolated = {} THEN Idles(m)
    ELSE run' = [run EXCEPT ![m] = next]

-----------------------------------------------------------------------------
(* Steps: what one of them does to a clone, and what it leaves to be pushed *)

Ref(op, name) == [op |-> op, name |-> name]
Deletions(names) == {Ref("delete", n) : n \in names}

Merged(old, new) == [k \in DOMAIN old |-> IF k \in DOMAIN new THEN new[k] ELSE old[k]]
Tagged(c, name, commit) ==
    [c EXCEPT !.tags = [n \in DOMAIN c.tags \cup {name} |->
                            IF n = name THEN commit ELSE c.tags[n]]]
Untagged(c, names) ==
    [c EXCEPT !.tags = [n \in DOMAIN c.tags \ names |-> c.tags[n]]]

YankedName(step)  == TagName(step.pkg, step.ver, "yanked")
ReleaseName(step) == TagName(step.pkg, step.ver, "release")
Trigger(step)     == TagName(step.pkg, step.ver, "trigger")

\* PromoteStep: the release branch is set to the base, the pins are committed
\* there unless there are none, and the commit is tagged.
Base(c, step) ==
    IF step.flavor = "pre" THEN Last(c.main)
    ELSE LET rcs == {v \in Selection(c.tags, step.pkg) :
                        v[1] = step.ver[1] /\ ~IsFinal(v)}
         IN  c.tags[TagName(step.pkg, Latest(rcs), "release")]

Promoted(c, step) ==
    LET base   == Base(c, step)
        pinned == [base EXCEPT !.id = FreshId(step.repo, c),
                               !.pin = Merged(base.pin, step.forward_pins)]
        commit == IF DOMAIN step.forward_pins # {} \/ step.reverse_pin # None
                  THEN pinned ELSE base
    IN  Tagged([c EXCEPT !.branch[<<step.pkg, step.flavor>>] = commit],
               ReleaseName(step), commit)

\* MainEditStep: write_forward_pins says whether it changed anything,
\* write_test_group does not, and a commit of nothing fails.
Edited(c, step) ==
    LET head == Last(c.main)
        new  == [head EXCEPT !.pin = Merged(head.pin, step.pins),
                             !.test = Merged(head.test, step.tests)]
    IN  IF new = head THEN c
        ELSE [c EXCEPT !.main = Append(c.main, [new EXCEPT !.id = FreshId(step.repo, c)])]

EditFails(c, step) ==
    DOMAIN step.tests # {} /\ Merged(Last(c.main).test, step.tests) = Last(c.main).test

\* MainDevMarkerStep: one marker, on the present head of main.
StaleMarkers(c, step) ==
    OfKind(c.tags, step.pkg, {"marker"}) \ {Marker(step.pkg, step.ver)}
Marked(c, step) ==
    Tagged(Untagged(c, StaleMarkers(c, step)), Marker(step.pkg, step.ver), Last(c.main))

\* PublishTriggerStep: with create_only the older triggers stay.
StaleTriggers(c, step) ==
    IF step.create_only THEN {}
    ELSE {n \in OfKind(c.tags, step.pkg, {"trigger"}) :
            FlavorOf(n.ver) = step.flavor /\ n # Trigger(step)}
Triggered(c, step) ==
    Tagged(Untagged(c, StaleTriggers(c, step)), Trigger(step), c.tags[ReleaseName(step)])

\* YankTagStep and RollbackStep.
Yanked(c, step) ==
    Untagged(Tagged(c, YankedName(step), c.tags[ReleaseName(step)]),
             {ReleaseName(step), Trigger(step)})
RolledBack_Stays(c, step) == c
RolledBack(c, step) ==
    [c EXCEPT !.branch[<<step.pkg, step.flavor>>] = c.tags[ReleaseName(step)]]

\* A plain fetch of tags keeps those that only the clone has.
Reconciled_KeepsLocal(c, r) == [c EXCEPT !.tags = @ @@ origin[r].tags]

\* ResetRepoStep and the reconciliation of require_synced go by the names of
\* the tags: one that both sides have keeps its local commit.
Reconciled(c, r) ==
    [c EXCEPT !.tags = [n \in DOMAIN origin[r].tags |->
                            IF n \in DOMAIN c.tags THEN c.tags[n] ELSE origin[r].tags[n]]]
Reset(c, r) ==
    [Reconciled(c, r) EXCEPT !.main = origin[r].main, !.branch = origin[r].branch,
                             !.dirty = FALSE]

Applied(c, step) ==
    CASE step.kind = "promote"  -> Promoted(c, step)
      [] step.kind = "edit"     -> Edited(c, step)
      [] step.kind = "marker"   -> Marked(c, step)
      [] step.kind = "trigger"  -> Triggered(c, step)
      [] step.kind = "yank"     -> Yanked(c, step)
      [] step.kind = "rollback" -> RolledBack(c, step)
      [] step.kind = "reset"    -> Reset(c, step.repo)

Fails(c, step) ==
    \/ step.kind = "edit" /\ EditFails(c, step)
    \/ step.kind = "promote" /\ ReleaseName(step) \in DOMAIN c.tags
    \/ step.kind = "trigger" /\ Trigger(step) \in DOMAIN c.tags
    \/ step.kind = "yank" /\ YankedName(step) \in DOMAIN c.tags
    \/ c.dirty /\ step.kind \in {"promote", "edit"}

\* tags_to_push, bundled per repository, and isolated_tags_to_push.
BranchRef(step) == Ref("branch", <<step.pkg, step.flavor>>)
YankedRefs_NoTrigger(step) ==
    Deletions({ReleaseName(step)}) \cup {Ref("tag", YankedName(step))}
YankedRefs(step) ==
    Deletions({ReleaseName(step), Trigger(step)}) \cup {Ref("tag", YankedName(step))}
Bundled(c, step) ==
    CASE step.kind = "promote"  -> {BranchRef(step), Ref("tag", ReleaseName(step))}
      [] step.kind = "edit"     -> {Ref("main", step.repo)}
      [] step.kind = "marker"   -> Deletions(StaleMarkers(c, step))
                                   \cup {Ref("tag", Marker(step.pkg, step.ver))}
      [] step.kind = "yank"     -> YankedRefs(step)
      [] step.kind = "rollback" -> {BranchRef(step)}
      [] OTHER                  -> {}

Isolated(c, step) ==
    IF step.kind = "trigger"
    THEN Deletions(StaleTriggers(c, step)) \cup {Ref("tag", Trigger(step))}
    ELSE {}

-----------------------------------------------------------------------------
(* Plans: sets of steps, which are taken in the order of their kinds and, among *)
(* those of a kind, core last.  The order of the siblings is left open.         *)

Phase == [yank |-> 1, promote |-> 1, reset |-> 1, rollback |-> 2, edit |-> 3,
          marker |-> 4, trigger |-> 5]
Earlier(a, b) ==
    \/ Phase[a.kind] < Phase[b.kind]
    \/ Phase[a.kind] = Phase[b.kind] /\ a.repo = "siblings" /\ b.repo = "core"
Upcoming(todo) == {step \in todo : \A other \in todo : ~Earlier(other, step)}

Step(kind, p, v, flavor) ==
    [kind |-> kind, repo |-> Repo(p), pkg |-> p, ver |-> v, flavor |-> flavor]
TriggerStep(p, v, flavor, create_only) ==
    [kind |-> "trigger", repo |-> Repo(p), pkg |-> p, ver |-> v, flavor |-> flavor,
     create_only |-> create_only]
Edit(p, pins, tests) ==
    [kind |-> "edit", repo |-> Repo(p), pkg |-> p, pins |-> pins, tests |-> tests]

\* The main epilogue of one acting package.
Epilogue(p, flavor, decided) ==
    LET shown == IF flavor = "pre" THEN {s \in Siblings : decided[s].ver # None}
                 ELSE {s \in Siblings : decided[s].act}
    IN  CASE p = Core /\ shown # {} ->
                {Edit(p, [s \in shown |-> decided[s].ver], NoPins)}
          [] p # Core /\ flavor = "prod" /\ decided[Core].ver # None ->
                {Edit(p, NoPins, [s \in {p} |-> decided[Core].ver])}
          [] OTHER -> {}

\* _promote_steps: releases, the edits of main, markers, triggers.
Decided(c, flavor) ==
    IF flavor = "pre" THEN DecidePre(Heads(c), Tags(c)) ELSE DecideProd(Tags(c))
PromoteStep(p, flavor, decided) ==
    [kind |-> "promote", repo |-> Repo(p), pkg |-> p, flavor |-> flavor,
     ver |-> decided[p].ver, forward_pins |-> ForwardPins(p, decided),
     reverse_pin |-> ReversePin(p, decided)]
PromoteSteps(flavor, publish, decided) ==
    LET acting == {p \in Pkgs : decided[p].act}
    IN  {PromoteStep(p, flavor, decided) : p \in acting}
        \cup (UNION {Epilogue(p, flavor, decided) : p \in acting})
        \cup {Step("marker", p, decided[p].ver, flavor) : p \in acting}
        \cup {TriggerStep(p, decided[p].ver, flavor, FALSE) : p \in {q \in acting : publish}}

\* _publish_trigger_steps: the latest release of the flavor, if it has no trigger.
TriggerSteps(tags, flavor) ==
    LET latest(p)  == Latest(OfFlavor(Selection(tags[p], p), flavor))
        missing(p) == latest(p) # None /\ TagName(p, latest(p), "trigger") \notin DOMAIN tags[p]
    IN  {TriggerStep(p, latest(p), flavor, TRUE) : p \in {q \in Pkgs : missing(q)}}

\* Yank.steps_get for the latest release of p: main goes back to the pins of
\* what remains.  There is nothing to yank before the first release.
Floor(S) == IF S = {} THEN <<0, 0>> ELSE Latest(S)
YankSteps(tags, p) ==
    LET v       == Latest(Selection(tags[p], p))
        rest(q) == Selection(tags[q], q) \ (IF q = p THEN {v} ELSE {})
        prev    == Latest(OfFlavor(rest(p), FlavorOf(v)))
        pinned  == IF p = Core THEN Siblings ELSE {p}
    IN  IF v = None THEN {}
        ELSE {Step("yank", p, v, FlavorOf(v)),
              Edit(Core, [s \in pinned |-> Floor(rest(s))], NoPins)}
             \cup (IF prev = None THEN {} ELSE {Step("rollback", p, prev, FlavorOf(v))})

ResetSteps == {[kind |-> "reset", repo |-> r] : r \in Repos}

\* The plan of a command for clones c.
Steps(c, cmd) ==
    CASE cmd.name \in Flavors -> PromoteSteps(cmd.name, cmd.publish, Decided(c, cmd.name))
      [] cmd.name = "publish"  -> TriggerSteps(Tags(c), cmd.flavor)
      [] cmd.name = "yank"     -> YankSteps(Tags(c), cmd.pkg)
      [] cmd.name = "resync"   -> ResetSteps

-----------------------------------------------------------------------------
\* A run without --push leaves what one leaves that is interrupted before its
\* pushes, and is not a command of its own.
Commands ==
    [name : Flavors, publish : BOOLEAN]
    \cup [name : {"publish"}, flavor : Flavors]
    \cup [name : {"yank"}, pkg : Pkgs]
    \cup [name : {"resync"}]

Withholds(cmd) == cmd.name \in Flavors /\ ~cmd.publish

Init ==
    LET first == [id |-> 0, src |-> [p \in Pkgs |-> 0],
                  test |-> [s \in Siblings |-> None], pin |-> [s \in Siblings |-> None]]
        repo(r) == [main |-> <<first>>, tags |-> [n \in {} |-> first],
                    branch |-> [b \in PkgsIn(r) \X Flavors |-> None], dirty |-> FALSE]
    IN  /\ origin = [r \in Repos |-> repo(r)]
        /\ clone = [m \in Machine |-> origin]
        /\ run = [m \in Machine |-> Idle]
        /\ used = [src |-> 0, fault |-> 0, prod |-> 0, yank |-> 0]

\* Somebody commits to main and pushes.
SourceChange(p) ==
    LET o    == origin[Repo(p)]
        head == Last(o.main)
        new  == [head EXCEPT !.id = FreshId(Repo(p), o), !.src[p] = head.src[p] + 1]
    IN  /\ used.src < MaxSrc
        /\ origin' = [origin EXCEPT ![Repo(p)] = [o EXCEPT !.main = Append(o.main, new)]]
        /\ used' = [used EXCEPT !.src = @ + 1]
        /\ UNCHANGED <<clone, run>>

Changed(m, r, c) == clone' = [clone EXCEPT ![m] = [clone[m] EXCEPT ![r] = c]]

Pull(m, r) ==
    /\ run[m] = Idle
    /\ ~clone[m][r].dirty /\ IsStrictPrefix(clone[m][r].main, origin[r].main)
    /\ Changed(m, r, [clone[m][r] EXCEPT !.main = origin[r].main])
    /\ UNCHANGED <<origin, run, used>>

\* require_synced, one repository after the other.  Its `git fetch --prune
\* --prune-tags` drops and gets tags by name, and fails if a tag that both sides
\* have is not the same commit.
Synced(c, r) ==
    /\ ~c.dirty /\ c.main = origin[r].main
    /\ \A n \in DOMAIN c.tags \cap DOMAIN origin[r].tags : c.tags[n] = origin[r].tags[n]
Fetched(m) ==
    [r \in Repos |->
        IF clone[m][r].dirty \/ (r = "core" /\ ~Synced(clone[m]["siblings"], "siblings"))
        THEN clone[m][r] ELSE Reconciled(clone[m][r], r)]

\* The command line: everything but `resync` is verified first.
Start(m, cmd) ==
    LET once(b) == IF b THEN 1 ELSE 0
    IN  /\ run[m] = Idle
        /\ used' = [used EXCEPT !.fault = @ + once(Withholds(cmd)),
                                !.prod = @ + once(cmd.name = "prod"),
                                !.yank = @ + once(cmd.name = "yank")]
        /\ used'.fault <= MaxFault /\ used'.prod <= MaxProd /\ used'.yank <= MaxYank
        /\ clone' = IF cmd.name = "resync" THEN clone ELSE [clone EXCEPT ![m] = Fetched(m)]
        /\ run' = IF cmd.name = "resync" \/ \A r \in Repos : Synced(clone[m][r], r)
                  THEN [run EXCEPT ![m] = Verified(cmd)] ELSE run
        /\ UNCHANGED origin

\* The steps are computed once, before the first of them is taken.
Plan(m) ==
    /\ run[m] # Idle /\ ~run[m].planned
    /\ \E todo \in {Steps(clone[m], run[m].cmd)} :
          Goes(m, [run[m] EXCEPT !.planned = TRUE, !.todo = todo])
    /\ UNCHANGED <<origin, clone, used>>

\* run_steps up to the pushes: the steps change the clones one after the other,
\* and one that fails ends the run.
Done(rn, c, step) ==
    [rn EXCEPT !.todo = rn.todo \ {step},
               !.refs = [rn.refs EXCEPT ![step.repo] = @ \cup Bundled(c, step)],
               !.isolated = rn.isolated \cup Isolated(c, step),
               !.first = IF rn.first = None /\ Bundled(c, step) # {} THEN step.repo ELSE rn.first]
Apply(m) ==
    /\ run[m] # Idle
    /\ \E step \in Upcoming(run[m].todo) :
         LET c == clone[m][step.repo]
         IN  IF Fails(c, step) THEN Idles(m) /\ UNCHANGED clone
             ELSE Changed(m, step.repo, Applied(c, step)) /\ Goes(m, Done(run[m], c, step))
    /\ UNCHANGED <<origin, used>>

\* What git push does with a list of references of one repository.
Named(refs, op) == {f.name : f \in {g \in refs : g.op = op}}
Accepted(c, o, refs) ==
    /\ \A n \in Named(refs, "tag") \cap DOMAIN o.tags : o.tags[n] = c.tags[n]
    /\ Named(refs, "main") # {} => IsPrefix(o.main, c.main)

Pushed(c, o, refs) ==
    [o EXCEPT !.main = IF Named(refs, "main") = {} THEN o.main ELSE c.main,
              !.branch = [b \in DOMAIN o.branch |->
                            IF b \in Named(refs, "branch") THEN c.branch[b] ELSE o.branch[b]],
              !.tags = [n \in (DOMAIN o.tags \ Named(refs, "delete")) \cup Named(refs, "tag") |->
                            IF n \in Named(refs, "tag") THEN c.tags[n] ELSE o.tags[n]]]

PushTo(m, r, refs, rest) ==
    IF Accepted(clone[m][r], origin[r], refs)
    THEN /\ origin' = [origin EXCEPT ![r] = Pushed(clone[m][r], origin[r], refs)]
         /\ Goes(m, rest)
    ELSE Idles(m) /\ UNCHANGED origin

Pushing(m) == run[m] # Idle /\ run[m].planned /\ run[m].todo = {}
Bundle(m, r) ==
    PushTo(m, r, run[m].refs[r], [run[m] EXCEPT !.refs = [run[m].refs EXCEPT ![r] = {}]])

\* The repository of core goes first.
PushRepo_CoreFirst(m) ==
    /\ Pushing(m)
    /\ \E r \in Repos : /\ run[m].refs[r] # {} /\ (r = "core" \/ run[m].refs["core"] = {})
                         /\ Bundle(m, r)
    /\ UNCHANGED <<clone, used>>

\* Once per repository, in the order of their first steps.
PushRepo(m) ==
    /\ Pushing(m)
    /\ \E r \in Repos : /\ run[m].refs[r] # {}
                         /\ (r = run[m].first \/ run[m].refs[run[m].first] = {})
                         /\ Bundle(m, r)
    /\ UNCHANGED <<clone, used>>

\* Then trigger by trigger, the stale ones of a package before its new one.
Sooner(f, g) ==
    \/ f.name.pkg # Core /\ g.name.pkg = Core
    \/ f.name.pkg = g.name.pkg /\ f.op = "delete" /\ g.op = "tag"
PushIsolated(m) ==
    /\ Pushing(m) /\ run[m].refs = NoRefs
    /\ \E f \in run[m].isolated :
         /\ \A g \in run[m].isolated : ~Sooner(g, f)
         /\ PushTo(m, Repo(f.name.pkg), {f}, [run[m] EXCEPT !.isolated = run[m].isolated \ {f}])
    /\ UNCHANGED <<clone, used>>

\* A run is killed, or a git command fails for reasons of its own, between two
\* repositories, two pushes, or two steps.  A step that writes files may leave
\* them uncommitted.
Interrupted(m) ==
    /\ run[m] # Idle /\ used.fault < MaxFault
    /\ Idles(m)
    /\ used' = [used EXCEPT !.fault = @ + 1]
    /\ \/ UNCHANGED clone
       \/ \E step \in Upcoming(run[m].todo) :
            /\ step.kind \in {"promote", "edit"}
            /\ Changed(m, step.repo, [clone[m][step.repo] EXCEPT !.dirty = TRUE])
    /\ UNCHANGED origin

Works(m) == Plan(m) \/ Apply(m) \/ PushRepo(m) \/ PushIsolated(m)

Next ==
    \/ \E p \in Pkgs : SourceChange(p)
    \/ \E m \in Machine, r \in Repos : Pull(m, r)
    \/ \E m \in Machine, cmd \in Commands : Start(m, cmd)
    \/ \E m \in Machine : Works(m) \/ Interrupted(m)

Spec == Init /\ [][Next]_vars

\* The operators follow the README: whatever happened, `resync`, `pre --push`
\* and `pre --publish-only --push` are run again, in any order.
Recovery ==
    {[name |-> "pre", publish |-> TRUE],
     [name |-> "publish", flavor |-> "pre"],
     [name |-> "resync"]}

\* A run goes on until it is over.  This is WF_vars(Works(m)), written out because
\* Works(m) is enabled exactly while a run is in progress.
FairSpec ==
    /\ Spec
    /\ \A m \in Machine : []<>(run[m] = Idle) \/ []<><<Works(m)>>_vars
    /\ \A m \in Machine, cmd \in Recovery : SF_vars(Start(m, cmd))

-----------------------------------------------------------------------------
Commit == [id : Nat, src : [Pkgs -> Nat], test : [Siblings -> (Nat \X Nat) \cup {None}],
           pin : [Siblings -> (Nat \X Nat) \cup {None}]]

TagKinds == {"release", "yanked", "marker", "trigger"}

RepoOK(c, r) ==
    /\ Range(c.main) \subseteq Commit /\ c.main # << >>
    /\ \A n \in DOMAIN c.tags :
        /\ n.pkg \in PkgsIn(r) /\ n.ver \in Nat \X Nat /\ n.kind \in TagKinds
        /\ c.tags[n] \in Commit
    /\ c.branch \in [PkgsIn(r) \X Flavors -> Commit \cup {None}]
    /\ c.dirty \in BOOLEAN

\* Clones and origin are well formed, every run is of a known command.
TypeOK ==
    /\ \A r \in Repos : RepoOK(origin[r], r) /\ ~origin[r].dirty
    /\ \A m \in Machine, r \in Repos : RepoOK(clone[m][r], r)
    /\ \A m \in Machine : run[m] # Idle => run[m].cmd \in Commands
    /\ used \in [src : 0..MaxSrc, fault : 0..MaxFault, prod : 0..MaxProd, yank : 0..MaxYank]

OnOrigin(p) == origin[Repo(p)].tags

\* A published core never pins a sibling version that was never published: the
\* siblings' repository is pushed first (xx_promote.py, run_steps), and the tags
\* of a release only ever change into _yanked ones.
PinsResolve ==
    \A v \in Selection(OnOrigin(Core), Core), s \in Siblings :
        LET pin == OnOrigin(Core)[TagName(Core, v, "release")].pin[s]
        IN  pin # None => \E kind \in {"release", "yanked"} :
                TagName(s, pin, kind) \in DOMAIN OnOrigin(s)

\* A publish trigger on origin stands on the commit of its release: the workflow
\* never builds something else than what is tagged (PublishTriggerStep).
TriggerHasRelease ==
    \A p \in Pkgs : \A n \in OfKind(OnOrigin(p), p, {"trigger"}) :
        LET release == TagName(p, n.ver, "release")
        IN  release \in DOMAIN OnOrigin(p) /\ OnOrigin(p)[release] = OnOrigin(p)[n]

\* The pre and prod branches point at the latest release of their kind, after
\* interrupted runs and yanks too (RollbackStep).
PointerAtLatest ==
    \A p \in Pkgs, f \in Flavors :
        LET latest == Latest(OfFlavor(Selection(OnOrigin(p), p), f))
        IN  latest # None =>
                origin[Repo(p)].branch[<<p, f>>] = OnOrigin(p)[TagName(p, latest, "release")]

\* A release is never moved, and vanishes only into its _yanked name; a new one
\* comes after every release before it and does not use a yanked number again.
\* A final that was yanked is the exception: `prod` makes it again.
Release(tags, p, v) == tags[TagName(p, v, "release")]
ReleasesKept ==
    [][\A p \in Pkgs :
        LET old == OnOrigin(p) new == OnOrigin(p)'
        IN  /\ \A v \in Selection(old, p) :
                \/ v \in Selection(new, p) /\ Release(new, p, v) = Release(old, p, v)
                \/ /\ TagName(p, v, "yanked") \in DOMAIN new
                   /\ new[TagName(p, v, "yanked")] = Release(old, p, v)
            /\ \A v \in Selection(new, p) \ Selection(old, p) :
                /\ \A w \in Selection(old, p) : Before(w, v)
                /\ IsFinal(v) \/ TagName(p, v, "yanked") \notin DOMAIN old]_vars

\* Origin and all clones agree, what is on main is released, core pins the
\* siblings' latest releases, and the latest candidates have their triggers.
Released ==
    LET tags == [p \in Pkgs |-> OnOrigin(p)]
        head == [p \in Pkgs |-> Last(origin[Repo(p)].main)]
    IN  /\ \A m \in Machine : clone[m] = origin
        /\ \A p \in Pkgs : ~FootprintChanged(p, head, tags)
        /\ CurrentForward(tags) = [s \in Siblings |-> Latest(Selection(tags[s], s))]
        /\ \A p \in Pkgs :
            TagName(p, Latest(OfFlavor(Selection(tags[p], p), "pre")), "trigger") \in DOMAIN tags[p]

\* However runs were interrupted, repeating the documented recovery brings
\* everything on main out (dev_10x/README.md, "atomic recovery").
Recovered == <>[]Released
=============================================================================
