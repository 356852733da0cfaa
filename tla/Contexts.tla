------------------------------ MODULE Contexts ------------------------------
(***************************************************************************)
(* The contexts that replace state of the whole process: a store in use    *)
(* (`with store`), CACHE_ONLY, and AsOfContext.  A store in use is on the   *)
(* stack of its resource type and keeps the flags it found in itself; a    *)
(* flags context keeps those it found; an as-of context puts helpers into   *)
(* the classes it was given and forgets those of all their subclasses,     *)
(* which look for one along their bases when they are next used.           *)
(*                                                                         *)
(* begin_using and end_using need not be nested: fixtures, threads and     *)
(* sessions of one process end contexts in any order.                      *)
(***************************************************************************)
EXTENDS Naturals, Sequences, SequencesExt

CONSTANTS
    Class, Store, Time,
    Mro,          \* the traitable classes a class is or inherits from, in order
    WithHistory,  \* the classes that keep history
    Root,         \* Traitable
    Lists,        \* the sets of classes that as-of contexts are given
    Live,         \* the helper of a class that reads the present
    None,         \* no helper
    MaxOpen       \* bound on open contexts

ASSUME ContextsAssumption ==
    /\ Mro \in [Class -> Seq(Class)] /\ Root \in Class
    /\ WithHistory \subseteq Class /\ Lists \subseteq SUBSET (WithHistory \cup {Root})
    /\ \A c \in Class : c \in Range(Mro[c])
    /\ \A a, b, c \in Class :
        a \in Range(Mro[b]) /\ b \in Range(Mro[c]) => a \in Range(Mro[c])
    /\ \A c \in Class : \A i, j \in DOMAIN Mro[c] :
        i < j => Mro[c][i] \notin Range(Mro[Mro[c][j]])
    /\ None \notin Time /\ Live \notin Time /\ Live # None
    /\ MaxOpen \in Nat

VARIABLES
    helper,     \* s_storage_helper_cached: a time is a StorableHelperAsOf
    stack,      \* the resource stack of TS_STORE
    bpc_flags,  \* the flags that a store keeps
    cache_only, \* the CACHE_ONLY flag of the process
    open,       \* the open contexts, in the order in which they were entered
    mixed,      \* ghost: a context was left before one that was entered later,
                \* or a store was entered while it was in use
    found,      \* ghost: the stack and the flag the open contexts found, unless mixed
    left        \* ghost: an as-of context was left while another one was open

vars == <<helper, stack, bpc_flags, cache_only, open, mixed, found, left>>

Init ==
    /\ helper = [c \in Class |-> None]
    /\ stack = << >> /\ bpc_flags = [s \in Store |-> FALSE]
    /\ cache_only = FALSE
    /\ open = << >> /\ mixed = FALSE /\ found = << >> /\ left = FALSE

Opens(context, again) ==
    /\ Len(open) < MaxOpen
    /\ open' = Append(open, context)
    /\ mixed' = (mixed \/ again)
    /\ found' = IF mixed' THEN << >> ELSE Append(found, <<stack, cache_only>>)
    /\ UNCHANGED left

Closes(k) ==
    /\ open' = RemoveAt(open, k)
    /\ mixed' = (Len(open) > 1 /\ (mixed \/ k # Len(open)))
    /\ found' = IF mixed' THEN << >> ELSE Front(found)

-----------------------------------------------------------------------------
(* Stores in use, and CACHE_ONLY *)

\* The flag is reset before it is kept.
on_enter_KeepsNew(s) ==
    /\ bpc_flags' = [bpc_flags EXCEPT ![s] = FALSE]
    /\ cache_only' = FALSE

on_enter(s) ==
    /\ bpc_flags' = [bpc_flags EXCEPT ![s] = cache_only]
    /\ cache_only' = FALSE

on_exit(s) == cache_only' = bpc_flags[s] /\ UNCHANGED bpc_flags

BeginUsing(s) ==
    /\ Opens([kind |-> "store", store |-> s], s \in Range(stack))
    /\ stack' = Append(stack, s)
    /\ on_enter(s)
    /\ UNCHANGED helper

\* What is popped need not be the store that ends.
EndUsing(k) ==
    /\ open[k].kind = "store" /\ Closes(k)
    /\ stack' = Front(stack)
    /\ on_exit(open[k].store)
    /\ UNCHANGED <<helper, left>>

EnterCacheOnly ==
    /\ Opens([kind |-> "flags", old |-> cache_only], FALSE)
    /\ cache_only' = TRUE
    /\ UNCHANGED <<helper, stack, bpc_flags>>

ExitCacheOnly(k) ==
    /\ open[k].kind = "flags" /\ Closes(k)
    /\ cache_only' = open[k].old
    /\ UNCHANGED <<helper, stack, bpc_flags, left>>

-----------------------------------------------------------------------------
(* AsOfContext and the helpers of the classes *)

\* Only the listed classes and those just below them.
Below_Direct(cs) ==
    {c \in Class : c \in cs \/ (Len(Mro[c]) > 1 /\ Mro[c][2] \in cs)}

\* The classes that _reset_storage_helpers visits.
Below(cs) == {c \in Class : Range(Mro[c]) \cap cs # {}}

\* The helper of the first base that has an as-of helper.
FirstAsOf(c) ==
    LET at == {k \in DOMAIN Mro[c] : helper[Mro[c][k]] \in Time}
    IN  helper[Mro[c][CHOOSE k \in at : \A j \in at : k <= j]]

Resolved(c) ==
    IF c \in WithHistory /\ \E b \in Range(Mro[c]) : helper[b] \in Time
    THEN FirstAsOf(c) ELSE Live

s_storage_helper(c) == IF helper[c] # None THEN helper[c] ELSE Resolved(c)

\* The class is used: the helper is kept in it.
Use(c) ==
    /\ helper[c] = None
    /\ helper' = [helper EXCEPT ![c] = Resolved(c)]
    /\ UNCHANGED <<stack, bpc_flags, cache_only, open, mixed, found, left>>

EnterAsOf(t, cs) ==
    /\ Opens([kind |-> "asof", time |-> t, classes |-> cs], FALSE)
    /\ helper' = [c \in Class |-> IF c \in cs THEN t
                                  ELSE IF c \in Below(cs) THEN None ELSE helper[c]]
    /\ UNCHANGED <<stack, bpc_flags, cache_only>>

\* Nothing is put back for the contexts that are still open.
ExitAsOf(k) ==
    /\ open[k].kind = "asof" /\ Closes(k)
    /\ helper' = [c \in Class |-> IF c \in Below(open[k].classes) THEN None ELSE helper[c]]
    /\ left' = \E j \in DOMAIN open \ {k} : open[j].kind = "asof"
    /\ UNCHANGED <<stack, bpc_flags, cache_only>>

-----------------------------------------------------------------------------
Next ==
    \/ \E s \in Store : BeginUsing(s)
    \/ EnterCacheOnly
    \/ \E t \in Time, cs \in Lists : EnterAsOf(t, cs)
    \/ \E k \in DOMAIN open : EndUsing(k) \/ ExitCacheOnly(k) \/ ExitAsOf(k)
    \/ \E c \in Class : Use(c)

Spec == Init /\ [][Next]_vars

-----------------------------------------------------------------------------
Covers(context, c) == context.kind = "asof" /\ c \in Below(context.classes)

\* A class that reads the past does so for a context that is open: no helper of
\* a context outlives it in any class of the tree, in whatever order contexts end.
NoTimeLeak ==
    \A c \in Class : helper[c] \in Time =>
        \E k \in DOMAIN open : Covers(open[k], c) /\ open[k].time = helper[c]

\* Until an as-of context is left inside another, a class that keeps history is
\* read at the time of the innermost context that covers it.  A class of several
\* bases takes the first base's instead.
OneLine(c) ==
    \A a, b \in Range(Mro[c]) : a \in Range(Mro[b]) \/ b \in Range(Mro[a])
Innermost ==
    \A c \in WithHistory :
        LET covering == {k \in DOMAIN open : Covers(open[k], c)}
            inner    == CHOOSE k \in covering : \A j \in covering : j <= k
        IN  OneLine(c) /\ ~left =>
                s_storage_helper(c) = IF covering = {} THEN Live ELSE open[inner].time

\* AsOfContext: "scope trait reads to a historical point in time"
\* (GETTING_STARTED.md), for the listed classes and their subclasses, and no longer.
AsOfScoped == NoTimeLeak /\ Innermost

\* A context that ends puts back the stores and the flag that it found, if contexts
\* are nested and no store is in use twice: it keeps one set of flags only.
Restored ==
    [][Len(open') < Len(open) /\ ~mixed /\ ~mixed'
         => <<stack, cache_only>>' = Last(found)]_vars
=============================================================================
