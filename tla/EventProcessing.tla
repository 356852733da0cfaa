-------------------------- MODULE EventProcessing --------------------------
(***************************************************************************)
(* Processing events by watermark.  Writers save events, which their       *)
(* store's clock stamps (_at) and which become visible when the saving     *)
(* transaction commits.  An EventProcessor repeats                         *)
(* process_pending_events: for each input class it reads the class's       *)
(* store clock (once per store), takes one millisecond off as the          *)
(* watermark, and loads the events strictly between its last watermark     *)
(* and this one; it calls a handler for each in the order of _at, then     *)
(* saves itself, and the watermarks with it.                               *)
(*                                                                         *)
(* A handler is modelled by two effects: it counts the event in the        *)
(* processor's own traits, which are saved with the watermarks, and it     *)
(* saves an output, which is permanent at once.                            *)
(***************************************************************************)
EXTENDS Integers, Sequences, FiniteSets

CONSTANTS
    Event,        \* the events that may be saved
    Input,        \* s_input_event_classes: a sequence of classes
    ClassOf,      \* the class of each event
    StoreOf,      \* the store of each class
    Processor,    \* processes running the processor of one identity
    Millisecond,  \* ticks of the stores' clocks per millisecond
    MaxFault,     \* bound on the faults of each kind
    MaxFaults,    \* bound on the faults of all kinds
    MaxTime       \* bound on the clocks

Fault == {"crash", "save", "ack", "handler"}

Class == {Input[k] : k \in 1..Len(Input)}
Store == {StoreOf[c] : c \in Class}
Time  == 0..MaxTime

ASSUME EventAssumption ==
    /\ Input \in Seq(Class)
    /\ ClassOf \in [Event -> Class]
    /\ StoreOf \in [Class -> Store]
    /\ Millisecond \in Nat \ {0}
    /\ MaxFault \in [Fault -> Nat] /\ MaxFaults \in Nat
    /\ MaxTime \in Nat /\ MaxTime > Millisecond

\* What is saved of a processor: its watermarks (0: none yet) and its tally.
Progress == [last : [Class -> Time], tally : [Event -> Nat]]

VARIABLES
    clock,    \* the clock of each store
    at,       \* _at of each event, 0 while it is not saved
    visible,  \* the events whose save is committed
    exposed,  \* ghost: the events that the millisecond does not protect
    proc,     \* the processor in each process
    saved,    \* its document
    out,      \* how often the output of each event has been saved
    faults    \* faults of each kind so far

vars == <<clock, at, visible, exposed, proc, saved, out, faults>>

StoreOfEvent(e) == StoreOf[ClassOf[e]]

NoProgress == [last |-> [c \in Class |-> 0], tally |-> [e \in Event |-> 0]]

\* A processor between two calls.  next is the input class to fetch, wm the
\* watermarks taken so far, batch the events fetched and not yet processed;
\* fresh says that its revision is the one of the document.
Idle(mine, fresh) ==
    [mine |-> mine, fresh |-> fresh, next |-> 1,
     wm |-> [s \in Store |-> 0], batch |-> {}]

Init == /\ clock = [s \in Store |-> Millisecond + 1]
        /\ at = [e \in Event |-> 0]
        /\ visible = {}
        /\ exposed = {}
        /\ proc = [p \in Processor |-> Idle(NoProgress, TRUE)]
        /\ saved = NoProgress
        /\ out = [e \in Event |-> 0]
        /\ faults = [kind \in Fault |-> 0]

(***************************************************************************)
(* Stores and writers.                                                     *)
(***************************************************************************)
Unfinished(s) == {e \in Event \ visible : at[e] # 0 /\ StoreOfEvent(e) = s}

\* Nothing keeps the clock from running on while a transaction is open.
Tick(s) ==
    /\ clock[s] < MaxTime
    /\ clock' = [clock EXCEPT ![s] = @ + 1]
    /\ UNCHANGED <<at, visible, exposed, proc, saved, out, faults>>

\* Bounded: no event is saved in the last millisecond of the clock.
SaveEvent(e) ==
    /\ at[e] = 0
    /\ clock[StoreOfEvent(e)] < MaxTime - Millisecond
    /\ at' = [at EXCEPT ![e] = clock[StoreOfEvent(e)]]
    /\ UNCHANGED <<clock, visible, exposed, proc, saved, out, faults>>

\* Exposed: an event that is committed more than a millisecond after its stamp.
Late(e) == clock[StoreOfEvent(e)] > at[e] + Millisecond
CommitEvent(e) ==
    /\ e \in Unfinished(StoreOfEvent(e))
    /\ visible' = visible \cup {e}
    /\ exposed' = exposed \cup {f \in {e} : Late(f)}
    /\ UNCHANGED <<clock, at, proc, saved, out, faults>>

RollbackEvent(e) ==
    /\ e \in Unfinished(StoreOfEvent(e))
    /\ at' = [at EXCEPT ![e] = 0]
    /\ exposed' = exposed \ {e}
    /\ UNCHANGED <<clock, visible, proc, saved, out, faults>>

(***************************************************************************)
(* pending_events                                                          *)
(***************************************************************************)
Fetching(p) == proc[p].next <= Len(Input)

NextClass(p) == Input[proc[p].next]

\* Faulty: events of the current millisecond are not held back.
WatermarkNow(s) == clock[s]

Watermark(s) == clock[s] - Millisecond

\* Exposed: an event that is stamped exactly at a watermark.
StampedAt(s, t) == {e \in Event : StoreOfEvent(e) = s /\ at[e] = t}
ReadClock(p) ==
    LET s == StoreOf[NextClass(p)] IN
    /\ Fetching(p)
    /\ proc[p].wm[s] = 0
    /\ exposed' = exposed \cup StampedAt(s, Watermark(s))
    /\ proc' = [proc EXCEPT ![p] = [proc[p] EXCEPT !.wm[s] = Watermark(s)]]
    /\ UNCHANGED <<clock, at, visible, saved, out, faults>>

\* Faulty: the last watermark is ignored.
PendingAll(c, last, wm) == {e \in visible : ClassOf[e] = c /\ at[e] < wm}

\* Faulty: there is no upper bound.
PendingUnbounded(c, last, wm) ==
    {e \in visible : ClassOf[e] = c /\ last < at[e]}

\* Strictly between the two watermarks; without a last one, all before wm.
Pending(c, last, wm) ==
    {e \in visible : ClassOf[e] = c /\ last < at[e] /\ at[e] < wm}

\* Faulty: each class takes a watermark of its own.
FetchOwnClock(p) ==
    /\ Fetching(p)
    /\ LET c  == NextClass(p)
           wm == proc[p].wm[StoreOf[c]]
       IN /\ wm # 0
          /\ proc' = [proc EXCEPT ![p] = [proc[p] EXCEPT
                 !.batch = @ \cup Pending(c, proc[p].mine.last[c], Watermark(StoreOf[c])),
                 !.next = @ + 1]]
    /\ UNCHANGED <<clock, at, visible, exposed, saved, out, faults>>

Fetch(p) ==
    /\ Fetching(p)
    /\ LET c  == NextClass(p)
           wm == proc[p].wm[StoreOf[c]]
       IN /\ wm # 0
          /\ proc' = [proc EXCEPT ![p] = [proc[p] EXCEPT
                 !.batch = @ \cup Pending(c, proc[p].mine.last[c], wm),
                 !.next = @ + 1]]
    /\ UNCHANGED <<clock, at, visible, exposed, saved, out, faults>>

(***************************************************************************)
(* process_pending_events and advance                                      *)
(***************************************************************************)
Earliest(b) == {e \in b : \A f \in b : at[e] <= at[f]}

Count(progress, e) == [progress EXCEPT !.tally[e] = @ + 1]

Process(p) ==
    /\ ~Fetching(p)
    /\ \E e \in Earliest(proc[p].batch) :
          /\ proc' = [proc EXCEPT ![p] = [proc[p] EXCEPT !.batch = @ \ {e},
                                                         !.mine = Count(@, e)]]
          /\ out' = [out EXCEPT ![e] = @ + 1]
    /\ UNCHANGED <<clock, at, visible, exposed, saved, faults>>

Processed(p) == ~Fetching(p) /\ proc[p].batch = {}

\* The processor as advance() leaves it in memory.
Advanced(p) ==
    [proc[p].mine EXCEPT !.last = [c \in Class |-> proc[p].wm[StoreOf[c]]]]

\* Faulty: a save that ignores the revision.
AdvanceUnchecked(p) ==
    /\ Processed(p)
    /\ saved' = Advanced(p)
    /\ proc' = [proc EXCEPT ![p] = Idle(Advanced(p), FALSE)]
    /\ UNCHANGED <<clock, at, visible, exposed, out, faults>>

\* The save finds the revision current.  It moves the revision on, for p and
\* past every other process, if it changes the document.
Advance(p) ==
    /\ Processed(p)
    /\ proc[p].fresh
    /\ saved' = Advanced(p)
    /\ proc' = [q \in Processor |->
           IF q = p THEN Idle(Advanced(p), TRUE)
                    ELSE [proc[q] EXCEPT !.fresh = @ /\ saved' = saved]]
    /\ UNCHANGED <<clock, at, visible, exposed, out, faults>>

\* The save finds a newer revision; its RC(False) is ignored.
AdvanceStale(p) ==
    /\ Processed(p)
    /\ ~proc[p].fresh
    /\ proc' = [proc EXCEPT ![p] = Idle(Advanced(p), FALSE)]
    /\ UNCHANGED <<clock, at, visible, exposed, saved, out, faults>>

(***************************************************************************)
(* Faults                                                                  *)
(***************************************************************************)
FaultOf(kind) == /\ faults[kind] < MaxFault[kind]
                 /\ faults["crash"] + faults["save"] + faults["ack"]
                       + faults["handler"] < MaxFaults
                 /\ faults' = [faults EXCEPT ![kind] = @ + 1]

\* Faulty: a processor that goes back to its document when its save failed.
SaveFailsReload(p) ==
    /\ FaultOf("save")
    /\ Processed(p)
    /\ proc' = [proc EXCEPT ![p] = Idle(saved, TRUE)]
    /\ UNCHANGED <<clock, at, visible, exposed, saved, out>>

\* The save fails without reaching the store; its RC(False) is ignored.
SaveFails(p) ==
    /\ FaultOf("save")
    /\ Processed(p)
    /\ proc' = [proc EXCEPT ![p] = Idle(Advanced(p), proc[p].fresh)]
    /\ UNCHANGED <<clock, at, visible, exposed, saved, out>>

\* The save takes effect but its acknowledgement is lost: set_revision is not
\* reached and the process keeps the old revision.
SaveUnacknowledged(p) ==
    /\ FaultOf("ack")
    /\ Processed(p)
    /\ proc[p].fresh
    /\ saved' = Advanced(p)
    /\ proc' = [q \in Processor |->
           IF q = p THEN Idle(Advanced(p), saved' = saved)
                    ELSE [proc[q] EXCEPT !.fresh = @ /\ saved' = saved]]
    /\ UNCHANGED <<clock, at, visible, exposed, out>>

\* Faulty: the watermarks advance although the batch is not finished.
HandlerFailsAdvanced(p) ==
    /\ FaultOf("handler")
    /\ ~Fetching(p) /\ proc[p].batch # {}
    /\ proc' = [proc EXCEPT ![p] = Idle(Advanced(p), proc[p].fresh)]
    /\ UNCHANGED <<clock, at, visible, exposed, saved, out>>

\* A handler raises, before any effect of its own; the caller calls
\* process_pending_events again.
HandlerFails(p) ==
    /\ FaultOf("handler")
    /\ ~Fetching(p) /\ proc[p].batch # {}
    /\ proc' = [proc EXCEPT ![p] = Idle(proc[p].mine, proc[p].fresh)]
    /\ UNCHANGED <<clock, at, visible, exposed, saved, out>>

\* A process dies; the new one loads the document.
Restart(p) ==
    /\ FaultOf("crash")
    /\ proc' = [proc EXCEPT ![p] = Idle(saved, TRUE)]
    /\ UNCHANGED <<clock, at, visible, exposed, saved, out>>

-----------------------------------------------------------------------------
Writers == \/ \E s \in Store : Tick(s)
           \/ \E e \in Event : SaveEvent(e) \/ CommitEvent(e) \/ RollbackEvent(e)

Step(p) == ReadClock(p) \/ Fetch(p) \/ Process(p) \/ Advance(p) \/ AdvanceStale(p)

Faults(p) == SaveFails(p) \/ SaveUnacknowledged(p) \/ HandlerFails(p) \/ Restart(p)

Next == Writers \/ \E p \in Processor : Step(p) \/ Faults(p)

Spec == Init /\ [][Next]_vars

\* The application calls process_pending_events for ever, and time passes.
FairSpec == /\ Spec
            /\ \A s \in Store : WF_vars(Tick(s))
            /\ \A e \in Event : WF_vars(CommitEvent(e))
            /\ \A p \in Processor : WF_vars(Step(p))

(***************************************************************************)
(* Properties                                                              *)
(***************************************************************************)
\* Types; and a processor holds only events that it could see when it fetched
\* them and that lie before the watermark it will save (event_processor.py:58).
TypeOK ==
    /\ clock \in [Store -> Time]
    /\ at \in [Event -> Time]
    /\ visible \subseteq Event /\ exposed \subseteq Event
    /\ proc \in [Processor -> [mine : Progress, fresh : BOOLEAN,
                               next : 1..Len(Input) + 1,
                               wm : [Store -> Time],
                               batch : SUBSET visible]]
    /\ \A p \in Processor : \A e \in proc[p].batch :
          at[e] < proc[p].wm[StoreOfEvent(e)]
    /\ saved \in Progress
    /\ out \in [Event -> Nat]
    /\ faults \in [Fault -> Nat]

\* An event is missed for two reasons only: it was committed more than a
\* millisecond after its stamp, or stamped exactly at a watermark, where the
\* intervals of two fetches leave a gap.  Every other event at or before a saved
\* watermark of its class is counted in the same document, however late or
\* misplaced those beside it are (event_processor.py:51-60, 64-66).
NoneMissed ==
    \A e \in visible \ exposed :
        at[e] <= saved.last[ClassOf[e]] => saved.tally[e] > 0

\* No event counts twice in the processor's saved state, whatever crashes,
\* fails or runs twice: watermark and tally are saved together.
CountedOnce == \A e \in Event : saved.tally[e] <= 1

\* A processor first counts the events of one store in the order of their
\* stamps, across event classes and across calls.
InOrder ==
    [][\A e \in Event : out'[e] > out[e] =>
          \A p \in Processor, f \in Event :
             (/\ proc[p].mine.tally[e] = 0 /\ proc'[p].mine.tally[e] = 1
              /\ proc[p].mine.tally[f] > 0
              /\ StoreOfEvent(e) = StoreOfEvent(f)) => at[f] <= at[e]]_vars

\* A saved watermark never goes back, however many processes save it.
WatermarkForward ==
    [][\A c \in Class : saved'.last[c] >= saved.last[c]]_saved

\* A process saves an output once, and once more for a restart or a handler
\* that raised; neither a failed advance(), whose result is ignored
\* (event_processor.py:66), nor a stale revision brings events back.
OutputsBounded ==
    \A e \in Event :
        out[e] <= Cardinality(Processor) + faults["crash"] + faults["handler"]

\* Every event that becomes visible is counted in the saved state in the end,
\* unless it is one of those exposed.
EventuallyCounted ==
    \A e \in Event : (e \in visible) ~> (saved.tally[e] > 0 \/ e \in exposed)
=============================================================================
