----------------------- MODULE EventProcessingProofs -----------------------
(***************************************************************************)
(* Theorems of EventProcessing, for any events, classes, stores, processes *)
(* and faults: types; that only exposed events can be missed; that saved   *)
(* watermarks never go back; that events count at most once and in the     *)
(* order of their stamps, if no handler raises; and how often an output    *)
(* can be saved.                                                           *)
(***************************************************************************)
EXTENDS EventProcessing, FiniteSetTheorems, TLAPS

(***************************************************************************)
(* The inductive invariant.  World is about stores and events; Sound(r) is *)
(* about one processor r, whose parts are stated of a record so that a     *)
(* step of the writers can be shown to preserve them for any record.       *)
(***************************************************************************)
ProcType == [mine : Progress, fresh : BOOLEAN, next : 1..Len(Input) + 1,
             wm : [Store -> Time], batch : SUBSET Event]

World ==
    /\ clock \in [Store -> Time]
    /\ \A s \in Store : clock[s] > Millisecond
    /\ at \in [Event -> Time]
    /\ visible \subseteq Event
    /\ \A e \in visible : at[e] # 0

\* What is in the batch was visible and lies before the new watermark.
Held(r) == \A e \in r.batch : e \in visible /\ at[e] < r.wm[StoreOfEvent(e)]

\* A watermark is a millisecond old when it is taken, and exposes the events
\* that it hits.
Safe(s, t) ==
    t # 0 => /\ t + Millisecond <= clock[s]
             /\ StampedAt(s, t) \subseteq exposed

SafeLast(g) == \A c \in Class : Safe(StoreOf[c], g.last[c])

\* What lies at or before the watermarks of g is counted in g, or exposed.
Covered(g) ==
    \A e \in visible \ exposed : at[e] <= g.last[ClassOf[e]] => g.tally[e] > 0

\* What lies before the new watermark of a class already fetched is counted,
\* in the batch, or exposed.
Fetched(r) ==
    \A k \in 1..Len(Input) :
        k < r.next =>
            /\ r.wm[StoreOf[Input[k]]] # 0
            /\ \A e \in visible \ exposed :
                  (ClassOf[e] = Input[k] /\ at[e] < r.wm[StoreOf[Input[k]]])
                     => e \in r.batch \/ r.mine.tally[e] > 0

Sound(g) == g \in Progress /\ SafeLast(g) /\ Covered(g)

SoundProc(r) ==
    /\ r \in ProcType
    /\ Sound(r.mine)
    /\ \A s \in Store : Safe(s, r.wm[s])
    /\ Fetched(r)

TInv ==
    /\ World
    /\ exposed \subseteq Event
    /\ proc \in [Processor -> ProcType]
    /\ \A p \in Processor : Held(proc[p])
    /\ saved \in Progress
    /\ out \in [Event -> Nat]
    /\ faults \in [Fault -> Nat]

IInv ==
    /\ TInv
    /\ Sound(saved)
    /\ \A p \in Processor : SoundProc(proc[p])

(***************************************************************************)
(* Types.                                                                  *)
(***************************************************************************)
\* The sequence of classes, and the maps from events and classes.
LEMMA Classes ==
    /\ Len(Input) \in Nat
    /\ \A k \in 1..Len(Input) : Input[k] \in Class
    /\ \A c \in Class : StoreOf[c] \in Store
    /\ \A e \in Event : ClassOf[e] \in Class /\ StoreOfEvent(e) \in Store
    /\ Millisecond \in Nat \ {0}
    /\ MaxTime \in Nat /\ MaxTime > Millisecond
<1>1. Len(Input) \in Nat
  BY EventAssumption
<1>2. \A c \in Class : StoreOf[c] \in Store
  BY DEF Store
<1>3. \A e \in Event : ClassOf[e] \in Class
  BY EventAssumption
<1> QED
  BY <1>1, <1>2, <1>3, EventAssumption DEF Class, StoreOfEvent

\* A processor between two calls is well typed and holds nothing.
LEMMA IdleType ==
    ASSUME NEW g \in Progress, NEW b \in BOOLEAN
    PROVE  /\ Idle(g, b) \in ProcType
           /\ Idle(g, b).mine = g /\ Idle(g, b).next = 1
           /\ Idle(g, b).batch = {}
           /\ Idle(g, b).wm = [s \in Store |-> 0]
           /\ Held(Idle(g, b))
  BY Classes DEF Idle, ProcType, Held, Time

\* What advance() leaves in memory is well typed.
LEMMA AdvancedType ==
    ASSUME NEW p \in Processor, proc[p] \in ProcType
    PROVE  /\ Advanced(p) \in Progress
           /\ Advanced(p).tally = proc[p].mine.tally
           /\ \A c \in Class : Advanced(p).last[c] = proc[p].wm[StoreOf[c]]
<1>1. proc[p].mine \in Progress /\ proc[p].wm \in [Store -> Time]
  BY DEF ProcType
<1>2. [c \in Class |-> proc[p].wm[StoreOf[c]]] \in [Class -> Time]
  BY <1>1, Classes
<1> QED
  BY <1>1, <1>2 DEF Advanced, Progress

\* Loading a batch, one part of which was there before.
LEMMA FetchType ==
    ASSUME NEW p \in Processor, World, proc[p] \in ProcType, Held(proc[p]), Fetch(p)
    PROVE  \E r \in ProcType :
              /\ proc' = [proc EXCEPT ![p] = r]
              /\ Held(r)
              /\ r.mine = proc[p].mine /\ r.wm = proc[p].wm
              /\ r.next = proc[p].next + 1
              /\ r.batch = proc[p].batch
                   \cup Pending(NextClass(p), proc[p].mine.last[NextClass(p)],
                                proc[p].wm[StoreOf[NextClass(p)]])
<1> DEFINE c == NextClass(p)
           new == Pending(c, proc[p].mine.last[c], proc[p].wm[StoreOf[c]])
           r == [proc[p] EXCEPT !.batch = @ \cup new, !.next = @ + 1]
<1>1. proc[p].next \in 1..Len(Input)
  BY Classes DEF Fetch, Fetching, ProcType
<1>2. new \subseteq Event /\ \A e \in new : /\ e \in visible
                                            /\ at[e] < proc[p].wm[StoreOfEvent(e)]
  BY DEF Pending, World, StoreOfEvent
<1>3. r \in ProcType
  <2>1. proc[p].batch \cup new \in SUBSET Event
    BY <1>2 DEF ProcType
  <2>2. proc[p].next + 1 \in 1..Len(Input) + 1
    BY <1>1, Classes
  <2> QED
    BY <2>1, <2>2 DEF ProcType
<1>4. /\ r.mine = proc[p].mine /\ r.wm = proc[p].wm
      /\ r.next = proc[p].next + 1 /\ r.batch = proc[p].batch \cup new
  BY DEF ProcType
<1>5. Held(r)
  BY <1>2, <1>4 DEF Held
<1>6. proc' = [proc EXCEPT ![p] = r]
  BY DEF Fetch
<1> QED
  BY <1>3, <1>4, <1>5, <1>6

\* Taking a store's watermark.
LEMMA ReadClockType ==
    ASSUME NEW p \in Processor, World, proc[p] \in ProcType, Held(proc[p]), ReadClock(p)
    PROVE  LET s == StoreOf[NextClass(p)] IN
           \E r \in ProcType :
              /\ proc' = [proc EXCEPT ![p] = r]
              /\ Held(r)
              /\ proc[p].wm[s] = 0
              /\ s \in Store
              /\ r.mine = proc[p].mine /\ r.next = proc[p].next
              /\ r.batch = proc[p].batch
              /\ r.wm = [proc[p].wm EXCEPT ![s] = Watermark(s)]
<1> DEFINE s == StoreOf[NextClass(p)]
           r == [proc[p] EXCEPT !.wm[s] = Watermark(s)]
<1>1. s \in Store
  BY Classes DEF ReadClock, Fetching, NextClass, ProcType
<1>2. Watermark(s) \in Time
  BY <1>1, Classes DEF World, Watermark, Time
<1>3. r = [proc[p] EXCEPT !.wm = [proc[p].wm EXCEPT ![s] = Watermark(s)]]
  BY DEF ProcType
<1>4. [proc[p].wm EXCEPT ![s] = Watermark(s)] \in [Store -> Time]
  BY <1>2 DEF ProcType
<1>5. r \in ProcType
  BY <1>3, <1>4 DEF ProcType
<1>6. /\ r.mine = proc[p].mine /\ r.next = proc[p].next
      /\ r.batch = proc[p].batch
      /\ r.wm = [proc[p].wm EXCEPT ![s] = Watermark(s)]
  BY <1>3 DEF ProcType
<1>7. Held(r)
  <2> SUFFICES ASSUME NEW e \in r.batch
               PROVE  e \in visible /\ at[e] < r.wm[StoreOfEvent(e)]
    BY DEF Held
  <2>1. e \in Event /\ e \in visible /\ at[e] < proc[p].wm[StoreOfEvent(e)]
    BY <1>6 DEF Held, ProcType
  <2>2. at[e] \in Nat /\ StoreOfEvent(e) \in Store
    BY <2>1, Classes DEF World, Time
  <2>3. StoreOfEvent(e) # s
    BY <2>1, <2>2 DEF ReadClock
  <2> QED
    BY <1>6, <2>1, <2>2, <2>3 DEF ProcType
<1>8. proc[p].wm[s] = 0 /\ proc' = [proc EXCEPT ![p] = r]
  BY DEF ReadClock
<1> QED
  BY <1>1, <1>5, <1>6, <1>7, <1>8

\* Handling one event of the batch.
LEMMA ProcessType ==
    ASSUME NEW p \in Processor, TInv, Process(p)
    PROVE  /\ out' \in [Event -> Nat]
           /\ \E r \in ProcType : \E e \in Earliest(proc[p].batch) :
              /\ e \in proc[p].batch
              /\ out' = [out EXCEPT ![e] = @ + 1]
              /\ proc' = [proc EXCEPT ![p] = r]
              /\ Held(r)
              /\ r.wm = proc[p].wm /\ r.next = proc[p].next
              /\ r.batch = proc[p].batch \ {e}
              /\ r.mine.last = proc[p].mine.last
              /\ r.mine.tally = [proc[p].mine.tally
                   EXCEPT ![e] = proc[p].mine.tally[e] + 1]
<1> PICK e \in Earliest(proc[p].batch) :
      /\ proc' = [proc EXCEPT ![p] = [proc[p] EXCEPT !.batch = @ \ {e},
                                                     !.mine = Count(@, e)]]
      /\ out' = [out EXCEPT ![e] = @ + 1]
  BY DEF Process
<1>1. proc[p] \in ProcType /\ e \in proc[p].batch /\ e \in Event
  BY DEF TInv, ProcType, Earliest
<1> DEFINE g == Count(proc[p].mine, e)
           r == [proc[p] EXCEPT !.batch = @ \ {e}, !.mine = g]
<1>2. /\ g \in Progress
      /\ g.last = proc[p].mine.last
      /\ g.tally = [proc[p].mine.tally EXCEPT ![e] = @ + 1]
  <2>1. proc[p].mine \in Progress
    BY <1>1 DEF ProcType
  <2>2. g = [proc[p].mine EXCEPT !.tally = [proc[p].mine.tally EXCEPT ![e] = @ + 1]]
    BY <2>1 DEF Count, Progress
  <2>3. [proc[p].mine.tally EXCEPT ![e] = @ + 1] \in [Event -> Nat]
    BY <1>1, <2>1 DEF Progress
  <2> QED
    BY <2>1, <2>2, <2>3 DEF Progress
<1>3. r \in ProcType
  BY <1>1, <1>2 DEF ProcType
<1>4. /\ r.wm = proc[p].wm /\ r.next = proc[p].next
      /\ r.batch = proc[p].batch \ {e} /\ r.mine = g
  BY <1>1 DEF ProcType
<1>5. Held(r)
  BY <1>4 DEF Held, TInv
<1>6. proc' = [proc EXCEPT ![p] = r]
  BY <1>1 DEF TInv
<1>7. out' \in [Event -> Nat]
  BY <1>1 DEF TInv
<1> HIDE DEF r, g
<1> QED
  BY <1>1, <1>2, <1>3, <1>4, <1>5, <1>6, <1>7

\* The writers keep the types, and no event leaves the visible ones or has its
\* stamp changed while it is visible.
LEMMA WritersWorld ==
    ASSUME World, Writers
    PROVE  /\ World'
           /\ visible \subseteq visible'
           /\ \A e \in visible : at'[e] = at[e] /\ (e \in exposed => e \in exposed')
           /\ UNCHANGED <<proc, saved, out, faults>>
<1>1. ASSUME NEW s \in Store, Tick(s)
      PROVE  World' /\ UNCHANGED <<at, visible, exposed, proc, saved, out, faults>>
  <2>1. clock[s] + 1 \in Time
    BY <1>1, Classes DEF Tick, World, Time
  <2>2. clock' \in [Store -> Time] /\ \A t \in Store : clock'[t] > Millisecond
    BY <1>1, <2>1, Classes DEF Tick, World, Time
  <2> QED
    BY <1>1, <2>2 DEF Tick, World
<1>2. ASSUME NEW e \in Event, SaveEvent(e)
      PROVE  /\ World'
             /\ \A f \in visible : at'[f] = at[f]
             /\ UNCHANGED <<visible, exposed, proc, saved, out, faults>>
  <2>1. clock[StoreOfEvent(e)] \in Time
    BY Classes DEF World
  <2> QED
    BY <1>2, <2>1 DEF SaveEvent, World
<1>3. ASSUME NEW e \in Event, CommitEvent(e)
      PROVE  /\ World' /\ visible \subseteq visible' /\ exposed \subseteq exposed'
             /\ UNCHANGED <<at, proc, saved, out, faults>>
  BY <1>3 DEF CommitEvent, Unfinished, World
<1>4. ASSUME NEW e \in Event, RollbackEvent(e)
      PROVE  /\ World'
             /\ \A f \in visible : at'[f] = at[f] /\ (f \in exposed => f \in exposed')
             /\ UNCHANGED <<visible, proc, saved, out, faults>>
  BY <1>4, Classes DEF RollbackEvent, Unfinished, World, Time
<1> QED
  BY <1>1, <1>2, <1>3, <1>4 DEF Writers

\* advance() and the faults leave processors that hold nothing, or only lose
\* the current revision.
LEMMA OtherSteps ==
    ASSUME TInv, NEW p \in Processor,
           Advance(p) \/ AdvanceStale(p) \/ Faults(p)
    PROVE  /\ UNCHANGED <<clock, at, visible, exposed, out>>
           /\ faults' \in [Fault -> Nat]
           /\ saved' = saved
              \/ (Processed(p) /\ proc[p].fresh /\ saved' = Advanced(p))
           /\ \E g \in Progress, b \in [Processor -> BOOLEAN] :
                 /\ \/ g = saved
                    \/ g = proc[p].mine
                    \/ Processed(p) /\ g = Advanced(p)
                 /\ proc' = [q \in Processor |->
                        IF q = p THEN Idle(g, b[q])
                                 ELSE [proc[q] EXCEPT !.fresh = b[q]]]
<1>1. proc[p] \in ProcType /\ saved \in Progress /\ proc[p].fresh \in BOOLEAN
      /\ proc[p].mine \in Progress
  BY DEF TInv, ProcType
<1>2. Advanced(p) \in Progress
  BY <1>1, AdvancedType
<1>3. ASSUME Advance(p) \/ SaveUnacknowledged(p)
      PROVE  \E g \in Progress, b \in [Processor -> BOOLEAN] :
                 /\ Processed(p) /\ g = Advanced(p)
                 /\ proc' = [q \in Processor |->
                        IF q = p THEN Idle(g, b[q])
                                 ELSE [proc[q] EXCEPT !.fresh = b[q]]]
  <2> PICK x \in BOOLEAN : proc' = [q \in Processor |->
           IF q = p THEN Idle(Advanced(p), x)
                    ELSE [proc[q] EXCEPT !.fresh = @ /\ saved' = saved]]
    BY <1>3 DEF Advance, SaveUnacknowledged
  <2> DEFINE b == [q \in Processor |->
                     IF q = p THEN x ELSE proc[q].fresh /\ saved' = saved]
  <2>1. b \in [Processor -> BOOLEAN]
    BY DEF TInv, ProcType
  <2>2. proc' = [q \in Processor |->
            IF q = p THEN Idle(Advanced(p), b[q])
                     ELSE [proc[q] EXCEPT !.fresh = b[q]]]
    OBVIOUS
  <2>3. Processed(p)
    BY <1>3 DEF Advance, SaveUnacknowledged
  <2> QED
    BY <1>2, <2>1, <2>2, <2>3
<1>4. ASSUME NEW g \in Progress, NEW x \in BOOLEAN,
             proc' = [proc EXCEPT ![p] = Idle(g, x)]
      PROVE  \E b \in [Processor -> BOOLEAN] :
                 proc' = [q \in Processor |->
                        IF q = p THEN Idle(g, b[q])
                                 ELSE [proc[q] EXCEPT !.fresh = b[q]]]
  <2> DEFINE b == [q \in Processor |-> IF q = p THEN x ELSE proc[q].fresh]
  <2>1. b \in [Processor -> BOOLEAN]
    BY DEF TInv, ProcType
  <2>2. \A q \in Processor : [proc[q] EXCEPT !.fresh = proc[q].fresh] = proc[q]
    BY DEF TInv, ProcType
  <2>3. proc' = [q \in Processor |->
            IF q = p THEN Idle(g, b[q])
                     ELSE [proc[q] EXCEPT !.fresh = b[q]]]
    BY <1>4, <2>2 DEF TInv
  <2> QED
    BY <2>1, <2>3
<1>5. faults' \in [Fault -> Nat]
  <2>1. faults' = faults
        \/ \E kind \in Fault : faults' = [faults EXCEPT ![kind] = @ + 1]
    BY DEF Fault, Advance, AdvanceStale, Faults, SaveFails, SaveUnacknowledged,
       HandlerFails, Restart, FaultOf
  <2> QED
    BY <2>1 DEF TInv
<1>6. UNCHANGED <<clock, at, visible, exposed, out>>
  BY DEF Advance, AdvanceStale, Faults, SaveFails, SaveUnacknowledged,
     HandlerFails, Restart
<1>7. saved' = saved \/ (Processed(p) /\ proc[p].fresh /\ saved' = Advanced(p))
  BY DEF Advance, AdvanceStale, Faults, SaveFails, SaveUnacknowledged,
     HandlerFails, Restart
<1>8. CASE Advance(p) \/ SaveUnacknowledged(p)
  <2>1. PICK g \in Progress, b \in [Processor -> BOOLEAN] :
           /\ Processed(p) /\ g = Advanced(p)
           /\ proc' = [q \in Processor |->
                  IF q = p THEN Idle(g, b[q])
                           ELSE [proc[q] EXCEPT !.fresh = b[q]]]
    BY <1>3, <1>8
  <2> QED
    BY <1>5, <1>6, <1>7, <2>1
<1>9. CASE AdvanceStale(p) \/ SaveFails(p) \/ HandlerFails(p) \/ Restart(p)
  <2>1. PICK g \in Progress, x \in BOOLEAN :
           /\ \/ g = saved
              \/ g = proc[p].mine
              \/ Processed(p) /\ g = Advanced(p)
           /\ proc' = [proc EXCEPT ![p] = Idle(g, x)]
    BY <1>1, <1>2, <1>9 DEF AdvanceStale, SaveFails, HandlerFails, Restart
  <2> QED
    BY <1>4, <1>5, <1>6, <1>7, <2>1
<1> QED
  BY <1>8, <1>9 DEF Faults

\* A processor that only loses the current revision is as it was.
LEMMA FreshOnly ==
    ASSUME NEW r \in ProcType, NEW b \in BOOLEAN
    PROVE  /\ [r EXCEPT !.fresh = b] \in ProcType
           /\ [r EXCEPT !.fresh = b].mine = r.mine
           /\ [r EXCEPT !.fresh = b].next = r.next
           /\ [r EXCEPT !.fresh = b].wm = r.wm
           /\ [r EXCEPT !.fresh = b].batch = r.batch
  BY DEF ProcType

LEMMA TypeInit == Init => TInv
<1> SUFFICES ASSUME Init PROVE TInv
  OBVIOUS
<1>1. NoProgress \in Progress
  BY Classes DEF NoProgress, Progress, Time
<1>2. World /\ exposed \subseteq Event
  BY Classes DEF Init, World, Time
<1>3. /\ proc \in [Processor -> ProcType]
      /\ \A p \in Processor : Held(proc[p])
  BY <1>1, IdleType DEF Init
<1>4. out \in [Event -> Nat] /\ faults \in [Fault -> Nat] /\ saved \in Progress
  BY <1>1, Classes DEF Init
<1> QED
  BY <1>2, <1>3, <1>4 DEF TInv

\* Only events are exposed.
LEMMA ExposedNext == TInv /\ [Next]_vars => exposed' \subseteq Event
<1> SUFFICES ASSUME TInv, [Next]_vars PROVE exposed' \subseteq Event
  OBVIOUS
<1>1. ASSUME NEW s \in Store, Tick(s) PROVE exposed' = exposed
  BY <1>1 DEF Tick
<1>2. ASSUME NEW e \in Event, SaveEvent(e) \/ CommitEvent(e) \/ RollbackEvent(e)
      PROVE  exposed' \subseteq exposed \cup {e}
  BY <1>2 DEF SaveEvent, CommitEvent, RollbackEvent
<1>3. ASSUME NEW p \in Processor, Step(p) \/ Faults(p)
      PROVE  exposed' \subseteq exposed \cup Event
  BY <1>3 DEF Step, Faults, ReadClock, StampedAt, Fetch, Process, Advance,
     AdvanceStale, SaveFails, SaveUnacknowledged, HandlerFails, Restart
<1> QED
  BY <1>1, <1>2, <1>3 DEF Next, Writers, TInv, vars

LEMMA TypeNext == TInv /\ [Next]_vars => TInv'
<1> SUFFICES ASSUME TInv, [Next]_vars PROVE TInv'
  OBVIOUS
<1>0. exposed' \subseteq Event
  BY ExposedNext
<1>1. CASE Writers
  <2>1. /\ World' /\ visible \subseteq visible'
        /\ \A e \in visible : at'[e] = at[e]
        /\ UNCHANGED <<proc, saved, out, faults>>
    BY <1>1, WritersWorld DEF TInv
  <2>2. \A p \in Processor : Held(proc[p])'
    BY <2>1 DEF Held, TInv
  <2> QED
    BY <1>0, <2>1, <2>2 DEF TInv
<1>2. ASSUME NEW p \in Processor, NEW r \in ProcType, Held(r),
             proc' = [proc EXCEPT ![p] = r],
             UNCHANGED <<clock, at, visible>>
      PROVE  /\ World'
             /\ proc' \in [Processor -> ProcType]
             /\ \A q \in Processor : Held(proc[q])'
  <2>1. World' /\ Held(r)'
    BY <1>2 DEF TInv, World, Held, StoreOfEvent
  <2>2. proc' \in [Processor -> ProcType]
    BY <1>2 DEF TInv
  <2>3. \A q \in Processor : Held(proc[q])'
    BY <1>2, <2>1 DEF TInv, Held, StoreOfEvent
  <2> QED
    BY <2>1, <2>2, <2>3
<1>3. ASSUME NEW p \in Processor, ReadClock(p) PROVE TInv'
  BY <1>0, <1>2, <1>3, ReadClockType DEF TInv, ReadClock
<1>4. ASSUME NEW p \in Processor, Fetch(p) PROVE TInv'
  BY <1>0, <1>2, <1>4, FetchType DEF TInv, Fetch
<1>5. ASSUME NEW p \in Processor, Process(p) PROVE TInv'
  BY <1>0, <1>2, <1>5, ProcessType DEF TInv, Process
<1>6. ASSUME NEW p \in Processor, Advance(p) \/ AdvanceStale(p) \/ Faults(p)
      PROVE  TInv'
  <2>1. /\ UNCHANGED <<clock, at, visible, out>>
        /\ faults' \in [Fault -> Nat]
        /\ saved' = saved \/ saved' = Advanced(p)
    BY <1>6, OtherSteps
  <2>2. PICK g \in Progress, b \in [Processor -> BOOLEAN] :
           proc' = [q \in Processor |->
                  IF q = p THEN Idle(g, b[q])
                           ELSE [proc[q] EXCEPT !.fresh = b[q]]]
    BY <1>6, OtherSteps
  <2>3. proc' \in [Processor -> ProcType]
    BY <2>2, IdleType, FreshOnly DEF TInv
  <2>4. ASSUME NEW q \in Processor PROVE Held(proc[q])'
    <3>1. CASE q = p
      <4>1. proc'[q].batch = {}
        BY <2>2, <3>1, IdleType
      <4> QED
        BY <4>1 DEF Held
    <3>2. CASE q # p
      <4>1. /\ proc[q] \in ProcType /\ b[q] \in BOOLEAN
            /\ proc'[q] = [proc[q] EXCEPT !.fresh = b[q]]
        BY <2>2, <3>2 DEF TInv
      <4>2. proc'[q].batch = proc[q].batch /\ proc'[q].wm = proc[q].wm
        BY <4>1, FreshOnly
      <4> QED
        BY <2>1, <4>2 DEF Held, TInv, StoreOfEvent
    <3> QED
      BY <3>1, <3>2
  <2>5. saved' \in Progress
    BY <2>1, AdvancedType DEF TInv
  <2>6. World'
    BY <2>1 DEF TInv, World
  <2> QED
    BY <1>0, <2>1, <2>3, <2>4, <2>5, <2>6 DEF TInv
<1>7. CASE UNCHANGED vars
  <2>1. World'
    BY <1>7 DEF TInv, World, vars
  <2> QED
    BY <1>0, <1>7, <2>1 DEF TInv, Held, StoreOfEvent, vars
<1> QED
  BY <1>1, <1>3, <1>4, <1>5, <1>6, <1>7 DEF Next, Step

\* Every variable has its type, and a processor holds only events that it could
\* see when it fetched them and that lie before the watermark it will save.
THEOREM TypeCorrect == Spec => []TypeOK
<1>1. Init => TInv
  BY TypeInit
<1>2. TInv /\ [Next]_vars => TInv'
  BY TypeNext
<1>3. TInv => TypeOK
  BY DEF TInv, World, TypeOK, ProcType, Held
<1> QED
  BY <1>1, <1>2, <1>3, PTL DEF Spec

(***************************************************************************)
(* Only exposed events are missed.  A watermark is a millisecond old when  *)
(* it is taken, and no stamp is given at or before it from then on.  An    *)
(* event that is committed within a millisecond of its stamp thus becomes  *)
(* visible while its stamp is at or after every watermark taken so far,    *)
(* and the events stamped at one are exposed when it is taken.             *)
(***************************************************************************)

\* A watermark stays safe: later stamps are later than it.
LEMMA WritersSafe ==
    ASSUME World, Writers, NEW s \in Store, NEW t \in Time, Safe(s, t)
    PROVE  Safe(s, t)'
<1> SUFFICES ASSUME t # 0
             PROVE  /\ t + Millisecond <= clock'[s]
                    /\ \A e \in Event :
                          (StoreOfEvent(e) = s /\ at'[e] = t) => e \in exposed'
  BY DEF Safe, StampedAt, StoreOfEvent
<1>1. /\ t \in Nat /\ clock \in [Store -> Time] /\ Millisecond \in Nat \ {0}
      /\ at \in [Event -> Time]
      /\ clock[s] \in Nat /\ t + Millisecond <= clock[s]
      /\ \A e \in Event : (StoreOfEvent(e) = s /\ at[e] = t) => e \in exposed
  BY Classes DEF World, Safe, StampedAt, Time
<1>2. ASSUME NEW u \in Store, Tick(u)
      PROVE  /\ t + Millisecond <= clock'[s]
             /\ \A e \in Event :
                   (StoreOfEvent(e) = s /\ at'[e] = t) => e \in exposed'
  BY <1>1, <1>2 DEF Tick
<1>3. ASSUME NEW f \in Event, SaveEvent(f)
      PROVE  /\ t + Millisecond <= clock'[s]
             /\ \A e \in Event :
                   (StoreOfEvent(e) = s /\ at'[e] = t) => e \in exposed'
  BY <1>1, <1>3 DEF SaveEvent
<1>4. ASSUME NEW f \in Event, CommitEvent(f) \/ RollbackEvent(f)
      PROVE  /\ t + Millisecond <= clock'[s]
             /\ \A e \in Event :
                   (StoreOfEvent(e) = s /\ at'[e] = t) => e \in exposed'
  BY <1>1, <1>4 DEF CommitEvent, RollbackEvent
<1> QED
  BY <1>2, <1>3, <1>4 DEF Writers

\* An event that becomes visible and is not exposed is later than any safe
\* watermark.
LEMMA NewlyVisible ==
    ASSUME World, Writers,
           NEW e \in visible' \ visible, e \notin exposed',
           NEW t \in Time, Safe(StoreOfEvent(e), t)
    PROVE  e \in Event /\ t < at'[e]
<1>1. CommitEvent(e)
  BY DEF Writers, Tick, SaveEvent, RollbackEvent, CommitEvent, Unfinished
<1>2. /\ e \in Event /\ at[e] # 0 /\ at' = at
      /\ ~Late(e) /\ e \notin exposed
  BY <1>1 DEF CommitEvent, Unfinished
<1>3. /\ at[e] \in Nat /\ clock[StoreOfEvent(e)] \in Nat /\ t \in Nat
      /\ Millisecond \in Nat
  BY <1>2, Classes DEF World, Time
<1>4. clock[StoreOfEvent(e)] <= at[e] + Millisecond
  BY <1>2, <1>3 DEF Late
<1>5. t # 0 => t + Millisecond <= clock[StoreOfEvent(e)] /\ at[e] # t
  BY <1>2 DEF Safe, StampedAt
<1> QED
  BY <1>2, <1>3, <1>4, <1>5

\* The writers leave sound progress sound.
LEMMA WritersSound ==
    ASSUME World, Writers, NEW g, Sound(g)
    PROVE  Sound(g)'
<1>1. /\ g \in Progress
      /\ \A c \in Class : g.last[c] \in Time /\ Safe(StoreOf[c], g.last[c])
  BY DEF Sound, SafeLast, Progress
<1>2. \A c \in Class : Safe(StoreOf[c], g.last[c])'
  BY <1>1, WritersSafe, Classes
<1>3. ASSUME NEW e \in visible' \ exposed', at'[e] <= g.last[ClassOf[e]]
      PROVE  g.tally[e] > 0
  <2>1. e \in Event /\ ClassOf[e] \in Class
    BY WritersWorld, Classes DEF World
  <2>2. at'[e] \in Nat /\ g.last[ClassOf[e]] \in Nat
    BY <1>1, <2>1, WritersWorld DEF World, Time
  <2>3. e \in visible
    BY <1>1, <1>3, <2>1, <2>2, NewlyVisible DEF StoreOfEvent
  <2>4. at[e] <= g.last[ClassOf[e]] /\ e \notin exposed
    BY <1>3, <2>3, WritersWorld
  <2> QED
    BY <2>3, <2>4 DEF Sound, Covered
<1> QED
  BY <1>1, <1>2, <1>3 DEF Sound, SafeLast, Covered

\* The writers leave a sound processor sound.
LEMMA WritersSoundProc ==
    ASSUME World, Writers, NEW r, SoundProc(r)
    PROVE  SoundProc(r)'
<1>1. r \in ProcType /\ \A s \in Store : r.wm[s] \in Time /\ Safe(s, r.wm[s])
  BY DEF SoundProc, ProcType
<1>2. \A s \in Store : Safe(s, r.wm[s])'
  BY <1>1, WritersSafe
<1>3. Sound(r.mine)'
  BY WritersSound DEF SoundProc
<1>4. ASSUME NEW k \in 1..Len(Input), k < r.next,
             NEW e \in visible' \ exposed', ClassOf[e] = Input[k],
             at'[e] < r.wm[StoreOf[Input[k]]]
      PROVE  e \in r.batch \/ r.mine.tally[e] > 0
  <2>1. e \in Event /\ StoreOfEvent(e) \in Store
        /\ StoreOfEvent(e) = StoreOf[Input[k]]
    BY <1>4, WritersWorld, Classes DEF World, StoreOfEvent
  <2>2. at'[e] \in Nat /\ r.wm[StoreOfEvent(e)] \in Nat
    BY <1>1, <2>1, WritersWorld DEF World, Time
  <2>3. e \in visible
    BY <1>1, <1>4, <2>1, <2>2, NewlyVisible
  <2>4. at[e] < r.wm[StoreOf[Input[k]]] /\ e \notin exposed
    BY <1>4, <2>3, WritersWorld
  <2> QED
    BY <1>4, <2>3, <2>4 DEF SoundProc, Fetched
<1>5. \A k \in 1..Len(Input) : k < r.next => r.wm[StoreOf[Input[k]]] # 0
  BY DEF SoundProc, Fetched
<1> QED
  BY <1>1, <1>2, <1>3, <1>4, <1>5 DEF SoundProc, Fetched

\* What is sound stays so while stores and visible events stay as they are and
\* no exposed event loses that mark.
LEMMA ExposeMore ==
    ASSUME UNCHANGED <<clock, at, visible>>, exposed \subseteq exposed',
           NEW g, Sound(g)
    PROVE  Sound(g)'
  BY DEF Sound, SafeLast, Safe, StampedAt, Covered, StoreOfEvent

LEMMA ExposeMoreProc ==
    ASSUME UNCHANGED <<clock, at, visible>>, exposed \subseteq exposed',
           NEW r, SoundProc(r)
    PROVE  SoundProc(r)'
<1>1. Sound(r.mine)'
  BY ExposeMore DEF SoundProc
<1>2. \A s \in Store : Safe(s, r.wm[s])'
  BY DEF SoundProc, Safe, StampedAt, StoreOfEvent
<1>3. Fetched(r)'
  BY DEF SoundProc, Fetched
<1> QED
  BY <1>1, <1>2, <1>3 DEF SoundProc

\* A processor between two calls is sound if what it holds is.
LEMMA IdleSound ==
    ASSUME NEW g, NEW b \in BOOLEAN, Sound(g)
    PROVE  SoundProc(Idle(g, b))
<1>1. g \in Progress
  BY DEF Sound
<1>2. /\ Idle(g, b) \in ProcType /\ Idle(g, b).mine = g /\ Idle(g, b).next = 1
      /\ Idle(g, b).wm = [s \in Store |-> 0]
  BY <1>1, IdleType
<1>3. \A s \in Store : Safe(s, Idle(g, b).wm[s])
  BY <1>2 DEF Safe
<1>4. Fetched(Idle(g, b))
  BY <1>2, Classes DEF Fetched
<1> QED
  BY <1>2, <1>3, <1>4 DEF SoundProc

\* Once the batch is done, everything at or before the new watermarks counts.
LEMMA AdvancedSound ==
    ASSUME NEW p \in Processor, World, SoundProc(proc[p]), Processed(p)
    PROVE  Sound(Advanced(p))
<1>1. /\ proc[p] \in ProcType
      /\ Advanced(p) \in Progress
      /\ Advanced(p).tally = proc[p].mine.tally
      /\ \A c \in Class : Advanced(p).last[c] = proc[p].wm[StoreOf[c]]
  BY AdvancedType DEF SoundProc
<1>2. SafeLast(Advanced(p))
  BY <1>1, Classes DEF SafeLast, SoundProc
<1>3. ASSUME NEW e \in visible \ exposed, at[e] <= Advanced(p).last[ClassOf[e]]
      PROVE  Advanced(p).tally[e] > 0
  <2>1. e \in Event /\ ClassOf[e] \in Class /\ StoreOf[ClassOf[e]] \in Store
    BY Classes DEF World
  <2>2. PICK k \in 1..Len(Input) : ClassOf[e] = Input[k]
    BY <2>1 DEF Class
  <2>3. k < proc[p].next
    BY <1>1, Classes DEF Processed, Fetching, ProcType
  <2>4. at[e] <= proc[p].wm[StoreOf[ClassOf[e]]]
    BY <1>1, <1>3, <2>1
  <2>5. at[e] # proc[p].wm[StoreOf[ClassOf[e]]]
    BY <2>1, <2>2, <2>3 DEF SoundProc, Safe, StampedAt, Fetched, StoreOfEvent
  <2>6. at[e] < proc[p].wm[StoreOf[ClassOf[e]]]
    <3>1. at[e] \in Nat /\ proc[p].wm[StoreOf[ClassOf[e]]] \in Nat
      BY <1>1, <2>1 DEF ProcType, World, Time
    <3> QED
      BY <2>4, <2>5, <3>1
  <2>7. e \in proc[p].batch \/ proc[p].mine.tally[e] > 0
    BY <2>2, <2>3, <2>6 DEF SoundProc, Fetched
  <2> QED
    BY <1>1, <2>7 DEF Processed
<1> QED
  BY <1>1, <1>2, <1>3 DEF Sound, Covered

\* Taking a watermark: it is a millisecond old, and what it hits is exposed.
LEMMA ReadClockSound ==
    ASSUME NEW p \in Processor, TInv, SoundProc(proc[p]), ReadClock(p)
    PROVE  \E r : proc' = [proc EXCEPT ![p] = r] /\ SoundProc(r)'
<1> DEFINE s == StoreOf[NextClass(p)]
<1>1. proc[p] \in ProcType /\ World /\ Held(proc[p])
  BY DEF TInv
<1>2. PICK r \in ProcType :
         /\ proc' = [proc EXCEPT ![p] = r]
         /\ proc[p].wm[s] = 0 /\ s \in Store
         /\ r.mine = proc[p].mine /\ r.next = proc[p].next
         /\ r.batch = proc[p].batch
         /\ r.wm = [proc[p].wm EXCEPT ![s] = Watermark(s)]
  BY <1>1, ReadClockType
<1>3. PICK old, u, t : old = proc[p] /\ u = s /\ t = Watermark(s)
  OBVIOUS
<1>4. UNCHANGED <<clock, at, visible>> /\ exposed \subseteq exposed'
  BY DEF ReadClock
<1>5. SoundProc(old)'
  BY <1>3, <1>4, ExposeMoreProc
<1>6. Safe(u, t)'
  <2>1. t + Millisecond <= clock[u]
    BY <1>1, <1>2, <1>3, Classes DEF Watermark, World, Time
  <2>2. StampedAt(u, t) \subseteq exposed'
    BY <1>3 DEF ReadClock
  <2> QED
    BY <1>4, <2>1, <2>2 DEF Safe, StampedAt, StoreOfEvent
<1>7. /\ r.mine = old.mine /\ r.next = old.next /\ r.batch = old.batch
      /\ r.wm = [old.wm EXCEPT ![u] = t]
      /\ old.wm \in [Store -> Time] /\ old.wm[u] = 0 /\ u \in Store
  BY <1>1, <1>2, <1>3 DEF ProcType
<1>8. \A v \in Store : Safe(v, r.wm[v])'
  BY <1>5, <1>6, <1>7 DEF SoundProc
<1>9. Fetched(r)'
  <2>1. ASSUME NEW k \in 1..Len(Input), k < r.next
        PROVE  r.wm[StoreOf[Input[k]]] = old.wm[StoreOf[Input[k]]]
    <3>1. old.wm[StoreOf[Input[k]]] # 0
      BY <1>5, <1>7, <2>1 DEF SoundProc, Fetched
    <3>2. StoreOf[Input[k]] \in Store
      BY Classes
    <3> QED
      BY <1>7, <3>1, <3>2
  <2> QED
    BY <1>5, <1>7, <2>1 DEF SoundProc, Fetched
<1>10. SoundProc(r)'
  BY <1>2, <1>5, <1>7, <1>8, <1>9 DEF SoundProc
<1> QED
  BY <1>2, <1>10

\* Fetching a class: what lies between the watermarks is in the batch, what
\* lies at or before the last one is counted.
LEMMA FetchSound ==
    ASSUME NEW p \in Processor, TInv, SoundProc(proc[p]), Fetch(p)
    PROVE  \E r : proc' = [proc EXCEPT ![p] = r] /\ SoundProc(r)
<1> DEFINE c == NextClass(p)
           new == Pending(c, proc[p].mine.last[c], proc[p].wm[StoreOf[c]])
<1>1. proc[p] \in ProcType /\ World /\ Held(proc[p])
  BY DEF TInv
<1>2. PICK r \in ProcType :
         /\ proc' = [proc EXCEPT ![p] = r]
         /\ r.mine = proc[p].mine /\ r.wm = proc[p].wm
         /\ r.next = proc[p].next + 1
         /\ r.batch = proc[p].batch \cup new
  BY <1>1, FetchType
<1>3. /\ proc[p].next \in 1..Len(Input) /\ c = Input[proc[p].next]
      /\ c \in Class
  BY <1>1, Classes DEF Fetch, Fetching, NextClass, ProcType
<1>4. proc[p].wm[StoreOf[c]] # 0
  BY DEF Fetch
<1>5. ASSUME NEW e \in visible \ exposed, ClassOf[e] = c, at[e] < proc[p].wm[StoreOf[c]]
      PROVE  e \in new \/ proc[p].mine.tally[e] > 0
  <2>1. at[e] \in Nat /\ proc[p].mine.last[c] \in Nat
    BY <1>1, <1>3 DEF World, ProcType, Progress, Time
  <2>2. CASE proc[p].mine.last[c] < at[e]
    BY <1>5, <2>2 DEF Pending
  <2>3. CASE at[e] <= proc[p].mine.last[c]
    BY <1>5, <2>3 DEF SoundProc, Sound, Covered
  <2> QED
    BY <2>1, <2>2, <2>3
<1>6. Fetched(r)
  <2> SUFFICES ASSUME NEW k \in 1..Len(Input), k < r.next
               PROVE  /\ r.wm[StoreOf[Input[k]]] # 0
                      /\ \A e \in visible \ exposed :
                            (ClassOf[e] = Input[k] /\ at[e] < r.wm[StoreOf[Input[k]]])
                               => e \in r.batch \/ r.mine.tally[e] > 0
    BY DEF Fetched
  <2>1. CASE k < proc[p].next
    BY <1>2, <2>1 DEF SoundProc, Fetched
  <2>2. CASE k = proc[p].next
    BY <1>2, <1>3, <1>4, <1>5, <2>2
  <2> QED
    BY <1>2, <1>3, <2>1, <2>2, Classes
<1>7. SoundProc(r)
  BY <1>2, <1>6 DEF SoundProc
<1> QED
  BY <1>2, <1>7

\* An event leaves the batch as it is counted.
LEMMA ProcessSound ==
    ASSUME NEW p \in Processor, TInv, SoundProc(proc[p]), Process(p)
    PROVE  \E r : proc' = [proc EXCEPT ![p] = r] /\ SoundProc(r)
<1>1. PICK r \in ProcType : \E e \in Earliest(proc[p].batch) :
         /\ e \in proc[p].batch
         /\ out' = [out EXCEPT ![e] = @ + 1]
         /\ proc' = [proc EXCEPT ![p] = r]
         /\ Held(r)
         /\ r.wm = proc[p].wm /\ r.next = proc[p].next
         /\ r.batch = proc[p].batch \ {e}
         /\ r.mine.last = proc[p].mine.last
         /\ r.mine.tally = [proc[p].mine.tally
                   EXCEPT ![e] = proc[p].mine.tally[e] + 1]
  BY ProcessType, ZenonT(60)
<1>2. PICK e \in proc[p].batch :
         /\ r.wm = proc[p].wm /\ r.next = proc[p].next
         /\ r.batch = proc[p].batch \ {e}
         /\ r.mine.last = proc[p].mine.last
         /\ r.mine.tally = [proc[p].mine.tally
                   EXCEPT ![e] = proc[p].mine.tally[e] + 1]
  BY <1>1
<1>3. /\ proc[p].mine.tally \in [Event -> Nat] /\ e \in Event
      /\ r.mine \in Progress
  BY <1>1, <1>2 DEF TInv, ProcType, Progress
<1>4. /\ r.mine.tally[e] > 0
      /\ \A f \in Event : proc[p].mine.tally[f] > 0 => r.mine.tally[f] > 0
  BY <1>2, <1>3
<1>5. Sound(r.mine)
  BY <1>2, <1>3, <1>4 DEF SoundProc, Sound, SafeLast, Covered, TInv, World
<1>6. Fetched(r)
  BY <1>2, <1>4 DEF SoundProc, Fetched, TInv, World
<1>7. SoundProc(r)
  BY <1>2, <1>5, <1>6 DEF SoundProc
<1> QED
  BY <1>1, <1>7

LEMMA InvInit == Init => IInv
<1> SUFFICES ASSUME Init PROVE IInv
  OBVIOUS
<1>1. TInv
  BY TypeInit
<1>3. Sound(NoProgress)
  <2>1. NoProgress \in Progress
    BY Classes DEF NoProgress, Progress, Time
  <2> QED
    BY <2>1 DEF Init, Sound, SafeLast, Safe, Covered, NoProgress
<1>4. \A p \in Processor : SoundProc(proc[p])
  BY <1>3, IdleSound DEF Init
<1>5. Sound(saved)
  BY <1>3 DEF Init
<1> QED
  BY <1>1, <1>4, <1>5 DEF IInv

LEMMA InvNext == IInv /\ [Next]_vars => IInv'
<1> SUFFICES ASSUME IInv, [Next]_vars PROVE IInv'
  OBVIOUS
<1> USE DEF IInv
<1>1. TInv'
  BY TypeNext
<1>2. CASE Writers
  <2>1. World /\ proc' = proc /\ saved' = saved
    BY <1>2, WritersWorld DEF TInv
  <2>2. Sound(saved)'
    <3>1. PICK g : g = saved
      OBVIOUS
    <3>2. Sound(g)'
      BY <1>2, <2>1, <3>1, WritersSound
    <3> QED
      BY <2>1, <3>1, <3>2
  <2>3. ASSUME NEW p \in Processor PROVE SoundProc(proc[p])'
    <3>1. PICK r : r = proc[p]
      OBVIOUS
    <3>2. SoundProc(r)'
      BY <1>2, <2>1, <3>1, WritersSoundProc
    <3> QED
      BY <2>1, <3>1, <3>2
  <2> QED
    BY <1>1, <2>2, <2>3
<1>3. ASSUME UNCHANGED <<clock, at, visible, saved>>, exposed \subseteq exposed',
             NEW p \in Processor, NEW r, proc' = [proc EXCEPT ![p] = r],
             SoundProc(r)'
      PROVE  IInv'
  <2>1. Sound(saved)'
    <3>1. PICK g : g = saved
      OBVIOUS
    <3>2. Sound(g)'
      BY <1>3, <3>1, ExposeMore
    <3> QED
      BY <1>3, <3>1, <3>2
  <2>2. ASSUME NEW q \in Processor PROVE SoundProc(proc[q])'
    <3>1. CASE q = p
      BY <1>3, <3>1 DEF TInv
    <3>2. CASE q # p
      <4>1. PICK o : o = proc[q]
        OBVIOUS
      <4>2. SoundProc(o)' /\ proc'[q] = o
        BY <1>3, <3>2, <4>1, ExposeMoreProc DEF TInv
      <4> QED
        BY <4>2
    <3> QED
      BY <3>1, <3>2
  <2> QED
    BY <1>1, <2>1, <2>2
<1>4. ASSUME NEW p \in Processor, ReadClock(p) PROVE IInv'
  <2>1. PICK r : proc' = [proc EXCEPT ![p] = r] /\ SoundProc(r)'
    BY <1>4, ReadClockSound
  <2>2. UNCHANGED <<clock, at, visible, saved>> /\ exposed \subseteq exposed'
    BY <1>4 DEF ReadClock
  <2> QED
    BY <1>3, <2>1, <2>2
<1>5. ASSUME UNCHANGED <<clock, at, visible, exposed>>,
             NEW g, Sound(g), saved' = g,
             NEW f, proc' = f, \A p \in Processor : SoundProc(f[p])
      PROVE  IInv'
  <2>1. Sound(saved)'
    BY <1>5, ExposeMore
  <2>2. \A p \in Processor : SoundProc(f[p])'
    BY <1>5, ExposeMoreProc
  <2> QED
    BY <1>1, <1>5, <2>1, <2>2
<1>6. ASSUME NEW p \in Processor, Fetch(p) \/ Process(p) PROVE IInv'
  <2>1. PICK r : proc' = [proc EXCEPT ![p] = r] /\ SoundProc(r)
    BY <1>6, FetchSound, ProcessSound
  <2>2. UNCHANGED <<clock, at, visible, saved>> /\ exposed' = exposed
    BY <1>6 DEF Fetch, Process
  <2>3. SoundProc(r)'
    BY <2>1, <2>2, ExposeMoreProc
  <2> QED
    BY <1>3, <2>1, <2>2, <2>3
<1>7. ASSUME NEW p \in Processor, Advance(p) \/ AdvanceStale(p) \/ Faults(p)
      PROVE  IInv'
  <2>1. /\ UNCHANGED <<clock, at, visible, exposed>>
        /\ saved' = saved \/ (Processed(p) /\ saved' = Advanced(p))
    BY <1>7, OtherSteps
  <2>2. PICK g \in Progress, b \in [Processor -> BOOLEAN] :
           /\ \/ g = saved
              \/ g = proc[p].mine
              \/ Processed(p) /\ g = Advanced(p)
           /\ proc' = [q \in Processor |->
                  IF q = p THEN Idle(g, b[q])
                           ELSE [proc[q] EXCEPT !.fresh = b[q]]]
    BY <1>7, OtherSteps
  <2>3. Processed(p) => Sound(Advanced(p))
    BY AdvancedSound DEF TInv
  <2>4. Sound(g)
    BY <2>2, <2>3 DEF SoundProc
  <2>5. PICK f : f = proc'
    OBVIOUS
  <2>6. ASSUME NEW q \in Processor PROVE SoundProc(f[q])
    <3>1. CASE q = p
      BY <2>2, <2>4, <2>5, <3>1, IdleSound
    <3>2. CASE q # p
      <4>1. /\ proc[q] \in ProcType /\ b[q] \in BOOLEAN
            /\ f[q] = [proc[q] EXCEPT !.fresh = b[q]]
        BY <2>2, <2>5, <3>2 DEF TInv
      <4>2. /\ f[q] \in ProcType
            /\ f[q].mine = proc[q].mine /\ f[q].next = proc[q].next
            /\ f[q].wm = proc[q].wm /\ f[q].batch = proc[q].batch
        BY <4>1, FreshOnly
      <4> QED
        BY <4>2 DEF SoundProc, Fetched
    <3> QED
      BY <3>1, <3>2
  <2>7. PICK h : h = saved'
    OBVIOUS
  <2>8. Sound(h)
    BY <2>1, <2>3, <2>7
  <2> QED
    BY <1>5, <2>1, <2>5, <2>6, <2>7, <2>8
<1>8. CASE UNCHANGED vars
  <2>1. PICK f : f = proc'
    OBVIOUS
  <2>2. PICK g : g = saved'
    OBVIOUS
  <2>3. \A q \in Processor : SoundProc(f[q])
    BY <1>8, <2>1 DEF vars
  <2>4. UNCHANGED <<clock, at, visible, exposed>> /\ Sound(g)
    BY <1>8, <2>2 DEF vars
  <2> QED
    BY <1>5, <2>1, <2>2, <2>3, <2>4
<1> QED
  BY <1>2, <1>4, <1>6, <1>7, <1>8 DEF Next, Step

\* An event at or before a saved watermark of its class is counted in the same
\* document, unless it was committed more than a millisecond after its stamp or
\* is stamped exactly at a watermark.  Commits may take any time, and any number
\* of processes run the processor, restart, or fail to save.
THEOREM NoEventMissed == Spec => []NoneMissed
<1>1. Init => IInv
  BY InvInit
<1>2. IInv /\ [Next]_vars => IInv'
  BY InvNext
<1>3. IInv => NoneMissed
  BY DEF IInv, Sound, Covered, NoneMissed
<1> QED
  BY <1>1, <1>2, <1>3, PTL DEF Spec

(***************************************************************************)
(* Watermarks only move forward.  A watermark is a millisecond older than  *)
(* its store's clock, so the next one taken is no earlier, and what is     *)
(* fetched lies after the last one.  A process whose revision is current   *)
(* is no further back than the document.  No assumption on the commits, on *)
(* the stamps or on the faults is needed.                                  *)
(***************************************************************************)
Aged(g) == \A c \in Class : g.last[c] + Millisecond <= clock[StoreOf[c]]

Paced(r) ==
    /\ Aged(r.mine)
    /\ \A s \in Store :
          r.wm[s] # 0 =>
             /\ r.wm[s] + Millisecond <= clock[s]
             /\ \A c \in Class : StoreOf[c] = s => r.mine.last[c] <= r.wm[s]
    /\ \A k \in 1..Len(Input) : k < r.next => r.wm[StoreOf[Input[k]]] # 0
    /\ \A e \in r.batch : r.mine.last[ClassOf[e]] < at[e]

\* The watermarks of g are no further back than those of h.
NotBehind(g, h) == \A c \in Class : h.last[c] <= g.last[c]

PacedInv ==
    /\ TInv
    /\ Aged(saved)
    /\ \A p \in Processor :
          /\ Paced(proc[p])
          /\ proc[p].fresh => NotBehind(proc[p].mine, saved)

\* The clocks do not go back.
LEMMA ClocksGrow ==
    ASSUME World, Writers
    PROVE  \A s \in Store : /\ clock[s] \in Nat /\ clock'[s] \in Nat
                            /\ clock[s] <= clock'[s]
<1>1. clock \in [Store -> Time] /\ \A s \in Store : clock[s] \in Nat
  BY Classes DEF World, Time
<1>2. ASSUME NEW t \in Store, Tick(t)
      PROVE  \A s \in Store : clock'[s] \in Nat /\ clock[s] <= clock'[s]
  BY <1>1, <1>2 DEF Tick
<1>3. (\E e \in Event : SaveEvent(e) \/ CommitEvent(e) \/ RollbackEvent(e))
         => clock' = clock
  BY DEF SaveEvent, CommitEvent, RollbackEvent
<1> QED
  BY <1>1, <1>2, <1>3 DEF Writers

LEMMA WritersAged ==
    ASSUME World, Writers, NEW g \in Progress, Aged(g)
    PROVE  Aged(g)'
<1> SUFFICES ASSUME NEW c \in Class
             PROVE  g.last[c] + Millisecond <= clock'[StoreOf[c]]
  BY DEF Aged
<1>1. /\ StoreOf[c] \in Store /\ Millisecond \in Nat
      /\ g.last[c] + Millisecond <= clock[StoreOf[c]]
      /\ g.last[c] \in Nat
  BY Classes DEF Aged, Progress, Time
<1> QED
  BY <1>1, ClocksGrow

\* The writers leave the pace of any processor as it is.
LEMMA WritersPaced ==
    ASSUME World, Writers, NEW r \in ProcType, Held(r), Paced(r)
    PROVE  Paced(r)'
<1>1. r.mine \in Progress /\ r.wm \in [Store -> Time] /\ r.batch \subseteq Event
  BY DEF ProcType
<1>2. Aged(r.mine)'
  BY <1>1, WritersAged DEF Paced
<1>3. ASSUME NEW s \in Store, r.wm[s] # 0
      PROVE  r.wm[s] + Millisecond <= clock'[s]
  <2>1. /\ r.wm[s] + Millisecond <= clock[s]
        /\ r.wm[s] \in Nat /\ Millisecond \in Nat
    BY <1>1, <1>3, Classes DEF Paced, Time
  <2> QED
    BY <2>1, ClocksGrow
<1>4. \A e \in r.batch : at'[e] = at[e]
  BY WritersWorld DEF Held
<1> QED
  BY <1>2, <1>3, <1>4 DEF Paced

\* Between two calls only the watermarks matter.
LEMMA IdlePaced ==
    ASSUME NEW g \in Progress, NEW b \in BOOLEAN, Aged(g)
    PROVE  Paced(Idle(g, b))
<1>1. /\ Idle(g, b).mine = g /\ Idle(g, b).next = 1
      /\ Idle(g, b).wm = [s \in Store |-> 0] /\ Idle(g, b).batch = {}
  BY IdleType
<1> QED
  BY <1>1, Classes DEF Paced

\* Once every class is fetched every watermark is taken, a millisecond old and
\* no earlier than the last one.
LEMMA AdvancedAhead ==
    ASSUME NEW p \in Processor, proc[p] \in ProcType, Paced(proc[p]), ~Fetching(p)
    PROVE  /\ Aged(Advanced(p))
           /\ NotBehind(Advanced(p), proc[p].mine)
<1> SUFFICES ASSUME NEW c \in Class
             PROVE  /\ Advanced(p).last[c] + Millisecond <= clock[StoreOf[c]]
                    /\ proc[p].mine.last[c] <= Advanced(p).last[c]
  BY DEF Aged, NotBehind
<1>1. PICK k \in 1..Len(Input) : c = Input[k]
  BY DEF Class
<1>2. k < proc[p].next
  BY Classes DEF Fetching, ProcType
<1>3. proc[p].wm[StoreOf[c]] # 0
  BY <1>1, <1>2 DEF Paced
<1>4. StoreOf[c] \in Store /\ Advanced(p).last[c] = proc[p].wm[StoreOf[c]]
  BY Classes, AdvancedType
<1> QED
  BY <1>3, <1>4 DEF Paced

LEMMA ReadClockPaced ==
    ASSUME NEW p \in Processor, TInv, Paced(proc[p]), ReadClock(p)
    PROVE  \E r \in ProcType : /\ proc' = [proc EXCEPT ![p] = r]
                               /\ Paced(r) /\ r.mine = proc[p].mine
<1> DEFINE s == StoreOf[NextClass(p)]
<1>1. proc[p] \in ProcType /\ World /\ Held(proc[p])
  BY DEF TInv
<1>2. PICK r \in ProcType :
         /\ proc' = [proc EXCEPT ![p] = r]
         /\ proc[p].wm[s] = 0 /\ s \in Store
         /\ r.mine = proc[p].mine /\ r.next = proc[p].next
         /\ r.batch = proc[p].batch
         /\ r.wm = [proc[p].wm EXCEPT ![s] = Watermark(s)]
  BY <1>1, ReadClockType
<1>3. /\ Watermark(s) + Millisecond <= clock[s]
      /\ Watermark(s) \in Nat /\ Watermark(s) # 0
      /\ \A c \in Class : StoreOf[c] = s => proc[p].mine.last[c] <= Watermark(s)
  <2>1. clock[s] \in Nat /\ clock[s] > Millisecond /\ Millisecond \in Nat
    BY <1>1, <1>2, Classes DEF World, Time
  <2>2. \A c \in Class : /\ proc[p].mine.last[c] \in Nat
                         /\ proc[p].mine.last[c] + Millisecond <= clock[StoreOf[c]]
    BY <1>1 DEF Paced, Aged, ProcType, Progress, Time
  <2> QED
    BY <2>1, <2>2 DEF Watermark
<1>4. proc[p].wm \in [Store -> Time]
  BY <1>1 DEF ProcType
<1>5. \A t \in Store : r.wm[t] = IF t = s THEN Watermark(s) ELSE proc[p].wm[t]
  BY <1>2, <1>4
<1>6. ASSUME NEW k \in 1..Len(Input), k < r.next
      PROVE  r.wm[StoreOf[Input[k]]] # 0
  BY <1>2, <1>3, <1>5, <1>6, Classes DEF Paced
<1>7. \A t \in Store :
          r.wm[t] # 0 =>
             /\ r.wm[t] + Millisecond <= clock[t]
             /\ \A c \in Class : StoreOf[c] = t => r.mine.last[c] <= r.wm[t]
  BY <1>2, <1>3, <1>5 DEF Paced
<1>8. Paced(r)
  BY <1>2, <1>6, <1>7 DEF Paced
<1> QED
  BY <1>2, <1>8

LEMMA FetchPaced ==
    ASSUME NEW p \in Processor, TInv, Paced(proc[p]), Fetch(p)
    PROVE  \E r \in ProcType : /\ proc' = [proc EXCEPT ![p] = r]
                               /\ Paced(r) /\ r.mine = proc[p].mine
<1> DEFINE c == NextClass(p)
           new == Pending(c, proc[p].mine.last[c], proc[p].wm[StoreOf[c]])
<1>1. proc[p] \in ProcType /\ World /\ Held(proc[p])
  BY DEF TInv
<1>2. PICK r \in ProcType :
         /\ proc' = [proc EXCEPT ![p] = r]
         /\ r.mine = proc[p].mine /\ r.wm = proc[p].wm
         /\ r.next = proc[p].next + 1
         /\ r.batch = proc[p].batch \cup new
  BY <1>1, FetchType
<1>3. /\ proc[p].next \in 1..Len(Input) /\ c = Input[proc[p].next]
      /\ proc[p].wm[StoreOf[c]] # 0
  BY <1>1, Classes DEF Fetch, Fetching, NextClass, ProcType
<1>4. \A k \in 1..Len(Input) : k < r.next => r.wm[StoreOf[Input[k]]] # 0
  <2> SUFFICES ASSUME NEW k \in 1..Len(Input), k < r.next
               PROVE  proc[p].wm[StoreOf[Input[k]]] # 0
    BY <1>2
  <2>1. k < proc[p].next \/ k = proc[p].next
    BY <1>2, <1>3, Classes
  <2> QED
    BY <1>3, <2>1 DEF Paced
<1>5. \A e \in new : proc[p].mine.last[ClassOf[e]] < at[e]
  BY DEF Pending
<1>6. Paced(r)
  BY <1>2, <1>4, <1>5 DEF Paced
<1> QED
  BY <1>2, <1>6

LEMMA ProcessPaced ==
    ASSUME NEW p \in Processor, TInv, Paced(proc[p]), Process(p)
    PROVE  \E r \in ProcType : /\ proc' = [proc EXCEPT ![p] = r]
                               /\ Paced(r) /\ r.mine.last = proc[p].mine.last
<1>1. PICK r \in ProcType : \E e \in Earliest(proc[p].batch) :
         /\ proc' = [proc EXCEPT ![p] = r]
         /\ r.wm = proc[p].wm /\ r.next = proc[p].next
         /\ r.batch = proc[p].batch \ {e}
         /\ r.mine.last = proc[p].mine.last
  BY ProcessType, ZenonT(60)
<1>2. Paced(r)
  BY <1>1 DEF Paced, Aged
<1> QED
  BY <1>1, <1>2

\* A processor that another process advances past loses its revision; one that
\* has a current revision after a step of its own had it before, or holds what
\* is saved.
LEMMA FreshSteps ==
    ASSUME TInv, NEW p \in Processor,
           Advance(p) \/ AdvanceStale(p) \/ Faults(p),
           NEW q \in Processor, proc'[q].fresh
    PROVE  \/ q = p /\ proc'[q].mine = saved'
           \/ /\ proc[q].fresh /\ saved' = saved
              /\ \/ proc'[q].mine = proc[q].mine
                 \/ q = p /\ Processed(p) /\ proc'[q].mine = Advanced(p)
<1>1. \A t \in Processor : proc[t] \in ProcType /\ proc[t].fresh \in BOOLEAN
  BY DEF TInv, ProcType
<1>2. \A g, b : Idle(g, b).mine = g /\ Idle(g, b).fresh = b
  BY DEF Idle
<1>3. ASSUME Advance(p) \/ SaveUnacknowledged(p), q # p
      PROVE  proc[q].fresh /\ saved' = saved /\ proc'[q].mine = proc[q].mine
  <2>1. proc'[q] = [proc[q] EXCEPT !.fresh = @ /\ saved' = saved]
    BY <1>3 DEF Advance, SaveUnacknowledged
  <2>2. proc'[q].fresh = (proc[q].fresh /\ saved' = saved)
        /\ proc'[q].mine = proc[q].mine
    BY <1>1, <2>1 DEF ProcType
  <2> QED
    BY <2>2
<1>4. ASSUME Advance(p) \/ SaveUnacknowledged(p), q = p
      PROVE  proc'[q].mine = saved'
  <2>1. saved' = Advanced(p)
    BY <1>4 DEF Advance, SaveUnacknowledged
  <2>2. CASE Advance(p)
    <3>1. proc'[p] = Idle(Advanced(p), TRUE)
      BY <2>2 DEF Advance
    <3> QED
      BY <1>4, <2>1, <3>1 DEF Idle
  <2>3. CASE SaveUnacknowledged(p)
    <3>1. proc'[p] = Idle(Advanced(p), saved' = saved)
      BY <2>3 DEF SaveUnacknowledged
    <3> QED
      BY <1>4, <2>1, <3>1 DEF Idle
  <2> QED
    BY <1>4, <2>2, <2>3
<1>5. ASSUME AdvanceStale(p) \/ SaveFails(p) \/ HandlerFails(p) \/ Restart(p), q # p
      PROVE  proc'[q] = proc[q] /\ saved' = saved
  BY <1>5 DEF AdvanceStale, SaveFails, HandlerFails, Restart, TInv
<1>6. ASSUME AdvanceStale(p) \/ SaveFails(p) \/ HandlerFails(p) \/ Restart(p), q = p
      PROVE  \/ proc'[q].mine = saved'
             \/ /\ proc[q].fresh /\ saved' = saved
                /\ \/ proc'[q].mine = proc[q].mine
                   \/ Processed(p) /\ proc'[q].mine = Advanced(p)
  <2>1. CASE AdvanceStale(p)
    <3>1. proc'[p] = Idle(Advanced(p), FALSE)
      BY <2>1 DEF AdvanceStale, TInv
    <3>2. ~proc'[p].fresh
      BY <3>1 DEF Idle
    <3> QED
      BY <1>6, <3>2
  <2>2. CASE SaveFails(p)
    BY <1>2, <1>6, <2>2 DEF SaveFails, TInv
  <2>3. CASE HandlerFails(p)
    BY <1>2, <1>6, <2>3 DEF HandlerFails, TInv
  <2>4. CASE Restart(p)
    BY <1>2, <1>6, <2>4 DEF Restart, TInv
  <2> QED
    BY <1>6, <2>1, <2>2, <2>3, <2>4
<1> QED
  BY <1>3, <1>4, <1>5, <1>6 DEF Faults

LEMMA PacedInit == Init => PacedInv
<1> SUFFICES ASSUME Init PROVE PacedInv
  OBVIOUS
<1>1. NoProgress \in Progress /\ \A c \in Class : NoProgress.last[c] = 0
  BY Classes DEF NoProgress, Progress, Time
<1>2. Aged(NoProgress)
  BY <1>1, Classes DEF Init, Aged
<1>3. \A p \in Processor : /\ proc[p] = Idle(NoProgress, TRUE)
                           /\ proc[p].mine = NoProgress
                           /\ Paced(proc[p])
  BY <1>1, <1>2, IdlePaced, IdleType DEF Init
<1>4. NotBehind(NoProgress, NoProgress)
  BY <1>1 DEF NotBehind
<1> QED
  BY <1>2, <1>3, <1>4, TypeInit DEF Init, PacedInv

LEMMA PacedNext == PacedInv /\ [Next]_vars => PacedInv'
<1> SUFFICES ASSUME PacedInv, [Next]_vars PROVE PacedInv'
  OBVIOUS
<1> USE DEF PacedInv
<1>1. TInv'
  BY TypeNext
\* The parts of the invariant, of what a step leaves.
<1>2. ASSUME NEW g, saved' = g, Aged(g)',
             NEW f, proc' = f, \A p \in Processor : Paced(f[p])',
             \A p \in Processor : f[p].fresh => NotBehind(f[p].mine, g)
      PROVE  PacedInv'
  <2>1. Aged(saved)' /\ \A p \in Processor : Paced(proc[p])'
    BY <1>2
  <2>2. \A p \in Processor : proc'[p].fresh => NotBehind(proc[p].mine, saved)'
    BY <1>2 DEF NotBehind
  <2> QED
    BY <1>1, <2>1, <2>2
<1>3. CASE Writers
  <2>1. World /\ proc' = proc /\ saved' = saved
    BY <1>3, WritersWorld DEF TInv
  <2>2. PICK g : g = saved
    OBVIOUS
  <2>3. PICK f : f = proc
    OBVIOUS
  <2>4. Aged(g)'
    BY <1>3, <2>1, <2>2, WritersAged DEF TInv
  <2>5. \A p \in Processor : Paced(f[p])'
    <3> SUFFICES ASSUME NEW p \in Processor PROVE Paced(f[p])'
      OBVIOUS
    <3>1. PICK r : r = f[p]
      OBVIOUS
    <3>2. r \in ProcType /\ Held(r) /\ Paced(r)
      BY <2>3, <3>1 DEF TInv
    <3>3. Paced(r)'
      BY <1>3, <2>1, <3>2, WritersPaced
    <3> QED
      BY <3>1, <3>3
  <2> QED
    BY <1>2, <2>1, <2>2, <2>3, <2>4, <2>5
<1>4. ASSUME UNCHANGED <<clock, at, visible>>
      PROVE  /\ \A g : Aged(g) => Aged(g)'
             /\ \A r : Paced(r) => Paced(r)'
  BY <1>4 DEF Paced, Aged
<1>5. ASSUME NEW p \in Processor, ReadClock(p) \/ Fetch(p) \/ Process(p)
      PROVE  PacedInv'
  <2>1. PICK r \in ProcType : /\ proc' = [proc EXCEPT ![p] = r]
                              /\ Paced(r) /\ r.mine.last = proc[p].mine.last
    BY <1>5, ReadClockPaced, FetchPaced, ProcessPaced
  <2>2. UNCHANGED <<clock, at, visible, saved>>
    BY <1>5 DEF ReadClock, Fetch, Process
  <2>3. r.fresh = proc[p].fresh
    <3>1. proc[p] \in ProcType /\ proc'[p] = r
      BY <2>1 DEF TInv
    <3>2. CASE ReadClock(p)
      <4>1. proc'[p] = [proc[p] EXCEPT !.wm[StoreOf[NextClass(p)]]
                                          = Watermark(StoreOf[NextClass(p)])]
        BY <3>2 DEF ReadClock, TInv
      <4> QED
        BY <3>1, <4>1 DEF ProcType
    <3>3. CASE Fetch(p)
      BY <3>1, <3>3 DEF Fetch, TInv, ProcType
    <3>4. CASE Process(p)
      <4>1. PICK e \in Earliest(proc[p].batch) :
               proc'[p] = [proc[p] EXCEPT !.batch = @ \ {e},
                                          !.mine = Count(@, e)]
        BY <3>4 DEF Process, TInv
      <4> QED
        BY <3>1, <4>1 DEF ProcType
    <3> QED
      BY <1>5, <3>2, <3>3, <3>4
  <2>4. PICK f : f = proc'
    OBVIOUS
  <2>5. \A q \in Processor : /\ Paced(f[q])
                             /\ f[q].fresh => NotBehind(f[q].mine, saved)
    BY <2>1, <2>3, <2>4 DEF TInv, NotBehind
  <2>6. PICK g : g = saved
    OBVIOUS
  <2> QED
    BY <1>2, <1>4, <2>2, <2>4, <2>5, <2>6
<1>6. ASSUME NEW p \in Processor, Advance(p) \/ AdvanceStale(p) \/ Faults(p)
      PROVE  PacedInv'
  <2>1. /\ UNCHANGED <<clock, at, visible>>
        /\ saved' = saved \/ (Processed(p) /\ saved' = Advanced(p))
    BY <1>6, OtherSteps
  <2>2. PICK g \in Progress, b \in [Processor -> BOOLEAN] :
           /\ \/ g = saved
              \/ g = proc[p].mine
              \/ Processed(p) /\ g = Advanced(p)
           /\ proc' = [q \in Processor |->
                  IF q = p THEN Idle(g, b[q])
                           ELSE [proc[q] EXCEPT !.fresh = b[q]]]
    BY <1>6, OtherSteps
  <2>3. Processed(p) => Aged(Advanced(p)) /\ NotBehind(Advanced(p), proc[p].mine)
    BY AdvancedAhead DEF TInv, Processed
  <2>4. Aged(g)
    BY <2>2, <2>3 DEF Paced
  <2>5. PICK f : f = proc'
    OBVIOUS
  <2>6. ASSUME NEW q \in Processor PROVE Paced(f[q])
    <3>1. CASE q = p
      BY <2>2, <2>4, <2>5, <3>1, IdlePaced
    <3>2. CASE q # p
      <4>1. /\ proc[q] \in ProcType /\ b[q] \in BOOLEAN
            /\ f[q] = [proc[q] EXCEPT !.fresh = b[q]]
        BY <2>2, <2>5, <3>2 DEF TInv
      <4>2. /\ f[q].mine = proc[q].mine /\ f[q].next = proc[q].next
            /\ f[q].wm = proc[q].wm /\ f[q].batch = proc[q].batch
        BY <4>1, FreshOnly
      <4> QED
        BY <4>2 DEF Paced
    <3> QED
      BY <3>1, <3>2
  <2>7. PICK h : h = saved'
    OBVIOUS
  <2>8. Aged(h)
    BY <2>1, <2>3, <2>7
  <2>9. ASSUME NEW q \in Processor, f[q].fresh PROVE NotBehind(f[q].mine, h)
    <3>1. \/ q = p /\ f[q].mine = h
          \/ /\ proc[q].fresh /\ h = saved
             /\ \/ f[q].mine = proc[q].mine
                \/ q = p /\ Processed(p) /\ f[q].mine = Advanced(p)
      BY <1>6, <2>5, <2>7, <2>9, FreshSteps
    <3>2. \A c \in Class : /\ h.last[c] \in Nat
                           /\ saved.last[c] \in Nat
                           /\ proc[q].mine.last[c] \in Nat
                           /\ f[q].mine.last[c] \in Nat
      <4>1. /\ h \in Progress /\ saved \in Progress
            /\ proc[q].mine \in Progress /\ f[q].mine \in Progress
        BY <1>1, <2>5, <2>7 DEF TInv, ProcType
      <4> QED
        BY <4>1 DEF Progress, Time
    <3> QED
      BY <2>3, <3>1, <3>2 DEF NotBehind
  <2> QED
    BY <1>2, <1>4, <2>1, <2>5, <2>6, <2>7, <2>8, <2>9
<1>7. CASE UNCHANGED vars
  <2>1. UNCHANGED <<clock, at, visible>> /\ proc' = proc /\ saved' = saved
    BY <1>7 DEF vars
  <2>2. PICK g : g = saved
    OBVIOUS
  <2>3. PICK f : f = proc
    OBVIOUS
  <2> QED
    BY <1>2, <1>4, <2>1, <2>2, <2>3
<1> QED
  BY <1>3, <1>5, <1>6, <1>7 DEF Next, Step

LEMMA PacedAlways == Spec => []PacedInv
<1>1. Init => PacedInv
  BY PacedInit
<1>2. PacedInv /\ [Next]_vars => PacedInv'
  BY PacedNext
<1> QED
  BY <1>1, <1>2, PTL DEF Spec

\* A saved watermark never goes back: only a process whose revision is current
\* saves, and its watermarks are no further back than those it replaces.
THEOREM WatermarksForward == Spec => WatermarkForward
<1>1. PacedInv /\ [Next]_vars
         => [\A c \in Class : saved'.last[c] >= saved.last[c]]_saved
  <2> SUFFICES ASSUME PacedInv, [Next]_vars, saved' # saved, NEW c \in Class
               PROVE  saved'.last[c] >= saved.last[c]
    OBVIOUS
  <2>1. PICK p \in Processor : Advance(p) \/ AdvanceStale(p) \/ Faults(p)
    <3>1. ~Writers
      BY WritersWorld DEF PacedInv, TInv
    <3> QED
      BY <3>1 DEF Next, Step, ReadClock, Fetch, Process, vars
  <2>2. Processed(p) /\ proc[p].fresh /\ saved' = Advanced(p)
    BY <2>1, OtherSteps DEF PacedInv
  <2>3. NotBehind(Advanced(p), proc[p].mine) /\ NotBehind(proc[p].mine, saved)
    BY <2>2, AdvancedAhead DEF PacedInv, TInv, Processed
  <2>4. /\ Advanced(p).last[c] \in Nat /\ proc[p].mine.last[c] \in Nat
        /\ saved.last[c] \in Nat
    <3>1. /\ Advanced(p) \in Progress /\ proc[p].mine \in Progress
          /\ saved \in Progress
      BY AdvancedType DEF PacedInv, TInv, ProcType
    <3> QED
      BY <3>1 DEF Progress, Time
  <2> QED
    BY <2>2, <2>3, <2>4 DEF NotBehind
<1> QED
  BY <1>1, PacedAlways, PTL DEF Spec, WatermarkForward

(***************************************************************************)
(* No event counts twice, and the events of one store count in the order   *)
(* of their stamps.  What has counted lies before the last watermark, or,  *)
(* while a batch is processed, before the new one and no later than what   *)
(* is left of the batch.  That is lost when a handler raises in the middle *)
(* of a batch, since the next call fetches what was counted again.         *)
(***************************************************************************)
\* Classes of one store have one watermark.
InStep(g) == \A c, d \in Class : StoreOf[c] = StoreOf[d] => g.last[c] = g.last[d]

AtMostOnce(g) == \A e \in Event : g.tally[e] <= 1

AllFetched(r) == Len(Input) < r.next

CountedBefore(g) ==
    \A e \in Event : g.tally[e] > 0 => e \in visible /\ at[e] < g.last[ClassOf[e]]

\* What r counted in this call.
CountedNow(r, e) ==
    /\ AllFetched(r)
    /\ at[e] < r.wm[StoreOfEvent(e)]
    /\ \A f \in r.batch : at[e] <= at[f]

OnceSaved(g) == InStep(g) /\ AtMostOnce(g) /\ CountedBefore(g)

Once(r) ==
    /\ InStep(r.mine) /\ AtMostOnce(r.mine)
    /\ \A e \in r.batch : r.mine.tally[e] = 0
    /\ \A e \in Event :
          r.mine.tally[e] > 0 =>
             /\ e \in visible
             /\ at[e] < r.mine.last[ClassOf[e]] \/ CountedNow(r, e)

OnceInv == PacedInv /\ OnceSaved(saved) /\ \A p \in Processor : Once(proc[p])

\* How a call ends: with a save that reaches the store or not, in a new
\* process, or in a handler that raises.
LEMMA CallEnds ==
    ASSUME TInv, NEW p \in Processor,
           Advance(p) \/ AdvanceStale(p) \/ Faults(p)
    PROVE  \/ /\ Processed(p) /\ proc'[p].mine = Advanced(p)
              /\ faults'["crash"] = faults["crash"]
              /\ faults'["handler"] = faults["handler"]
           \/ /\ proc'[p].mine = saved /\ saved' = saved
              /\ faults'["crash"] = faults["crash"] + 1
              /\ faults'["handler"] = faults["handler"]
           \/ /\ proc'[p].mine = proc[p].mine /\ saved' = saved
              /\ faults'["crash"] = faults["crash"]
              /\ faults'["handler"] = faults["handler"] + 1
              /\ faults["handler"] < MaxFault["handler"]
<1>1. \A g, b : Idle(g, b).mine = g
  BY DEF Idle
<1>2. faults \in [Fault -> Nat] /\ {"crash", "save", "ack", "handler"} = Fault
  BY DEF TInv, Fault
<1>3. CASE Advance(p)
  <2>1. proc'[p] = Idle(Advanced(p), TRUE) /\ Processed(p) /\ faults' = faults
    BY <1>3 DEF Advance
  <2> QED
    BY <1>1, <2>1
<1>4. CASE AdvanceStale(p)
  <2>1. proc'[p] = Idle(Advanced(p), FALSE) /\ Processed(p) /\ faults' = faults
    BY <1>4 DEF AdvanceStale, TInv
  <2> QED
    BY <1>1, <2>1
<1>5. CASE SaveFails(p)
  <2>1. proc'[p] = Idle(Advanced(p), proc[p].fresh) /\ Processed(p)
    BY <1>5 DEF SaveFails, TInv
  <2> QED
    BY <1>1, <1>2, <1>5, <2>1 DEF SaveFails, FaultOf
<1>6. CASE SaveUnacknowledged(p)
  <2>1. proc'[p] = Idle(Advanced(p), saved' = saved) /\ Processed(p)
    BY <1>6 DEF SaveUnacknowledged
  <2>2. proc'[p].mine = Advanced(p)
    BY <2>1 DEF Idle
  <2> QED
    BY <1>2, <1>6, <2>1, <2>2 DEF SaveUnacknowledged, FaultOf
<1>7. CASE HandlerFails(p)
  <2>1. proc'[p] = Idle(proc[p].mine, proc[p].fresh) /\ saved' = saved
    BY <1>7 DEF HandlerFails, TInv
  <2> QED
    BY <1>1, <1>2, <1>7, <2>1 DEF HandlerFails, FaultOf
<1>8. CASE Restart(p)
  <2>1. proc'[p] = Idle(saved, TRUE) /\ saved' = saved
    BY <1>8 DEF Restart, TInv
  <2> QED
    BY <1>1, <1>2, <1>8, <2>1 DEF Restart, FaultOf
<1> QED
  BY <1>3, <1>4, <1>5, <1>6, <1>7, <1>8 DEF Faults

\* The writers do not touch what has counted or is in a batch.
LEMMA WritersOnceSaved ==
    ASSUME World, Writers, NEW g \in Progress, OnceSaved(g)
    PROVE  OnceSaved(g)'
<1>1. CountedBefore(g)'
  BY WritersWorld DEF OnceSaved, CountedBefore
<1> QED
  BY <1>1 DEF OnceSaved, InStep, AtMostOnce

LEMMA WritersOnce ==
    ASSUME World, Writers, NEW r \in ProcType, Held(r), Once(r)
    PROVE  Once(r)'
<1> SUFFICES ASSUME NEW e \in Event, r.mine.tally[e] > 0
             PROVE  /\ e \in visible'
                    /\ at'[e] < r.mine.last[ClassOf[e]] \/ CountedNow(r, e)'
  BY DEF Once, InStep, AtMostOnce
<1>1. e \in visible /\ (at[e] < r.mine.last[ClassOf[e]] \/ CountedNow(r, e))
  BY DEF Once
<1>2. at'[e] = at[e] /\ e \in visible' /\ \A f \in r.batch : at'[f] = at[f]
  BY <1>1, WritersWorld DEF Held
<1>3. CountedNow(r, e) => CountedNow(r, e)'
  BY <1>2 DEF CountedNow, AllFetched, StoreOfEvent
<1> QED
  BY <1>1, <1>2, <1>3

\* Between two calls.
LEMMA IdleOnce ==
    ASSUME NEW g \in Progress, NEW b \in BOOLEAN, OnceSaved(g)
    PROVE  Once(Idle(g, b))
<1>1. Idle(g, b).mine = g /\ Idle(g, b).batch = {}
  BY IdleType
<1> QED
  BY <1>1 DEF Once, OnceSaved, CountedBefore

\* What counted before the last watermark, or in this call, lies before the
\* new watermark.
LEMMA AdvancedOnce ==
    ASSUME NEW p \in Processor, World, proc[p] \in ProcType, Paced(proc[p]),
           Once(proc[p]), Processed(p)
    PROVE  OnceSaved(Advanced(p))
<1>1. /\ Advanced(p) \in Progress
      /\ Advanced(p).tally = proc[p].mine.tally
      /\ \A c \in Class : Advanced(p).last[c] = proc[p].wm[StoreOf[c]]
  BY AdvancedType
<1>2. InStep(Advanced(p)) /\ AtMostOnce(Advanced(p))
  BY <1>1 DEF Once, InStep, AtMostOnce
<1>3. ASSUME NEW e \in Event, proc[p].mine.tally[e] > 0
      PROVE  e \in visible /\ at[e] < Advanced(p).last[ClassOf[e]]
  <2>1. /\ e \in visible
        /\ at[e] < proc[p].mine.last[ClassOf[e]] \/ CountedNow(proc[p], e)
    BY <1>3 DEF Once
  <2>2. ClassOf[e] \in Class
    BY Classes
  <2>3. CASE CountedNow(proc[p], e)
    BY <1>1, <2>1, <2>2, <2>3 DEF CountedNow, StoreOfEvent
  <2>4. CASE at[e] < proc[p].mine.last[ClassOf[e]]
    <3>1. proc[p].mine.last[ClassOf[e]] <= Advanced(p).last[ClassOf[e]]
      BY <2>2, AdvancedAhead DEF Processed, NotBehind
    <3>2. /\ at[e] \in Nat /\ proc[p].mine.last[ClassOf[e]] \in Nat
          /\ Advanced(p).last[ClassOf[e]] \in Nat
      BY <1>1, <2>2 DEF World, ProcType, Progress, Time
    <3> QED
      BY <2>1, <2>4, <3>1, <3>2
  <2> QED
    BY <2>1, <2>3, <2>4
<1> QED
  BY <1>1, <1>2, <1>3 DEF OnceSaved, CountedBefore

\* While it fetches, a processor has counted nothing in this call.
LEMMA ReadClockOnce ==
    ASSUME NEW p \in Processor, TInv, Once(proc[p]), ReadClock(p)
    PROVE  \E r \in ProcType : proc' = [proc EXCEPT ![p] = r] /\ Once(r)
<1>1. proc[p] \in ProcType /\ World /\ Held(proc[p])
  BY DEF TInv
<1>2. PICK r \in ProcType :
         /\ proc' = [proc EXCEPT ![p] = r]
         /\ r.mine = proc[p].mine /\ r.next = proc[p].next
         /\ r.batch = proc[p].batch
  BY <1>1, ReadClockType
<1>3. ~AllFetched(proc[p])
  BY <1>1, Classes DEF AllFetched, ReadClock, Fetching, ProcType
<1>4. Once(r)
  BY <1>2, <1>3 DEF Once, CountedNow
<1> QED
  BY <1>2, <1>4

LEMMA FetchOnce ==
    ASSUME NEW p \in Processor, TInv, Once(proc[p]), Fetch(p)
    PROVE  \E r \in ProcType : proc' = [proc EXCEPT ![p] = r] /\ Once(r)
<1> DEFINE c == NextClass(p)
           new == Pending(c, proc[p].mine.last[c], proc[p].wm[StoreOf[c]])
<1>1. proc[p] \in ProcType /\ World /\ Held(proc[p])
  BY DEF TInv
<1>2. PICK r \in ProcType :
         /\ proc' = [proc EXCEPT ![p] = r]
         /\ r.mine = proc[p].mine /\ r.wm = proc[p].wm
         /\ r.batch = proc[p].batch \cup new
  BY <1>1, FetchType
<1>3. ~AllFetched(proc[p])
  BY <1>1, Classes DEF AllFetched, Fetch, Fetching, ProcType
<1>4. \A e \in Event : proc[p].mine.tally[e] > 0 =>
         e \in visible /\ at[e] < proc[p].mine.last[ClassOf[e]]
  BY <1>3 DEF Once, CountedNow
<1>5. ASSUME NEW e \in new
      PROVE  proc[p].mine.tally[e] = 0
  <2>1. e \in Event /\ ClassOf[e] \in Class /\ proc[p].mine.last[ClassOf[e]] < at[e]
    BY <1>1, Classes DEF Pending, World
  <2>2. /\ at[e] \in Nat /\ proc[p].mine.last[ClassOf[e]] \in Nat
        /\ proc[p].mine.tally[e] \in Nat
    BY <1>1, <2>1 DEF World, ProcType, Progress, Time
  <2> QED
    BY <1>4, <2>1, <2>2
<1>6. Once(r)
  BY <1>2, <1>4, <1>5 DEF Once
<1> QED
  BY <1>2, <1>6

\* The event of a batch that is processed has not counted, and none of the
\* batch is earlier.
LEMMA ProcessOnce ==
    ASSUME NEW p \in Processor, TInv, Once(proc[p]), Process(p)
    PROVE  \E r \in ProcType : proc' = [proc EXCEPT ![p] = r] /\ Once(r)
<1>1. PICK r \in ProcType : \E e \in Earliest(proc[p].batch) :
         /\ e \in proc[p].batch
         /\ out' = [out EXCEPT ![e] = @ + 1]
         /\ proc' = [proc EXCEPT ![p] = r]
         /\ Held(r)
         /\ r.wm = proc[p].wm /\ r.next = proc[p].next
         /\ r.batch = proc[p].batch \ {e}
         /\ r.mine.last = proc[p].mine.last
         /\ r.mine.tally = [proc[p].mine.tally
                   EXCEPT ![e] = proc[p].mine.tally[e] + 1]
  BY ProcessType, ZenonT(60)
<1>2. PICK e \in Earliest(proc[p].batch) :
         /\ e \in proc[p].batch
         /\ r.wm = proc[p].wm /\ r.next = proc[p].next
         /\ r.batch = proc[p].batch \ {e}
         /\ r.mine.last = proc[p].mine.last
         /\ r.mine.tally = [proc[p].mine.tally
                   EXCEPT ![e] = proc[p].mine.tally[e] + 1]
  BY <1>1
<1>3. /\ proc[p] \in ProcType /\ World /\ Held(proc[p])
      /\ proc[p].mine.tally \in [Event -> Nat] /\ e \in Event
  BY <1>1, <1>2 DEF TInv, ProcType, Progress
<1>4. AllFetched(r)
  BY <1>2, <1>3, Classes DEF AllFetched, Process, Fetching, ProcType
<1>5. /\ e \in visible /\ at[e] < proc[p].wm[StoreOfEvent(e)]
      /\ proc[p].mine.tally[e] = 0
      /\ \A f \in proc[p].batch : at[e] <= at[f]
  BY <1>2, <1>3 DEF Held, Once, Earliest
<1>6. \A f \in Event : r.mine.tally[f] =
          IF f = e THEN 1 ELSE proc[p].mine.tally[f]
  BY <1>2, <1>3, <1>5
<1>7. InStep(r.mine) /\ AtMostOnce(r.mine)
  BY <1>2, <1>6 DEF Once, InStep, AtMostOnce
<1>8. \A f \in r.batch : r.mine.tally[f] = 0
  BY <1>2, <1>3, <1>6 DEF Once, ProcType
<1>9. ASSUME NEW f \in Event, r.mine.tally[f] > 0
      PROVE  /\ f \in visible
             /\ at[f] < r.mine.last[ClassOf[f]] \/ CountedNow(r, f)
  <2>1. CASE f = e
    BY <1>2, <1>4, <1>5, <2>1 DEF CountedNow
  <2>2. CASE f # e
    <3>1. /\ f \in visible
          /\ at[f] < proc[p].mine.last[ClassOf[f]] \/ CountedNow(proc[p], f)
      BY <1>6, <1>9, <2>2 DEF Once
    <3>2. CountedNow(proc[p], f) => CountedNow(r, f)
      BY <1>2, <1>4 DEF CountedNow
    <3> QED
      BY <1>2, <3>1, <3>2
  <2> QED
    BY <2>1, <2>2
<1>10. Once(r)
  BY <1>7, <1>8, <1>9 DEF Once
<1> QED
  BY <1>1, <1>10

LEMMA OnceInit == Init => OnceInv
<1> SUFFICES ASSUME Init PROVE OnceInv
  OBVIOUS
<1>1. /\ NoProgress \in Progress
      /\ \A c \in Class : NoProgress.last[c] = 0
      /\ \A e \in Event : NoProgress.tally[e] = 0
  BY Classes DEF NoProgress, Progress, Time
<1>2. OnceSaved(NoProgress)
  BY <1>1 DEF OnceSaved, InStep, AtMostOnce, CountedBefore
<1>3. \A p \in Processor : Once(proc[p])
  BY <1>1, <1>2, IdleOnce DEF Init
<1> QED
  BY <1>2, <1>3, PacedInit DEF Init, OnceInv

LEMMA OnceNext ==
    ASSUME MaxFault["handler"] = 0
    PROVE  OnceInv /\ [Next]_vars => OnceInv'
<1> SUFFICES ASSUME OnceInv, [Next]_vars PROVE OnceInv'
  OBVIOUS
<1>1. PacedInv' /\ PacedInv /\ TInv
  BY PacedNext DEF OnceInv, PacedInv
\* The parts of the invariant, of what a step leaves.
<1>2. ASSUME NEW g, saved' = g, OnceSaved(g)',
             NEW f, proc' = f, \A p \in Processor : Once(f[p])'
      PROVE  OnceInv'
  <2>1. OnceSaved(saved)' /\ \A p \in Processor : Once(proc[p])'
    BY <1>2
  <2> QED
    BY <1>1, <2>1 DEF OnceInv
<1>3. CASE Writers
  <2>1. World /\ proc' = proc /\ saved' = saved
    BY <1>1, <1>3, WritersWorld DEF TInv
  <2>2. PICK g : g = saved
    OBVIOUS
  <2>3. PICK f : f = proc
    OBVIOUS
  <2>4. OnceSaved(g)'
    BY <1>1, <1>3, <2>1, <2>2, WritersOnceSaved DEF TInv, OnceInv
  <2>5. \A p \in Processor : Once(f[p])'
    <3> SUFFICES ASSUME NEW p \in Processor PROVE Once(f[p])'
      OBVIOUS
    <3>1. PICK r : r = f[p]
      OBVIOUS
    <3>2. r \in ProcType /\ Held(r) /\ Once(r)
      BY <1>1, <2>3, <3>1 DEF TInv, OnceInv
    <3>3. Once(r)'
      BY <1>3, <2>1, <3>2, WritersOnce
    <3> QED
      BY <3>1, <3>3
  <2> QED
    BY <1>2, <2>1, <2>2, <2>3, <2>4, <2>5
<1>4. ASSUME UNCHANGED <<clock, at, visible>>
      PROVE  /\ \A g : OnceSaved(g) => OnceSaved(g)'
             /\ \A r : Once(r) => Once(r)'
  BY <1>4 DEF OnceSaved, InStep, AtMostOnce, CountedBefore, Once, CountedNow,
     AllFetched, StoreOfEvent
<1>5. ASSUME NEW p \in Processor, ReadClock(p) \/ Fetch(p) \/ Process(p)
      PROVE  OnceInv'
  <2>1. PICK r \in ProcType : proc' = [proc EXCEPT ![p] = r] /\ Once(r)
    BY <1>1, <1>5, ReadClockOnce, FetchOnce, ProcessOnce DEF OnceInv
  <2>2. UNCHANGED <<clock, at, visible, saved>>
    BY <1>5 DEF ReadClock, Fetch, Process
  <2>3. PICK f : f = proc'
    OBVIOUS
  <2>4. \A q \in Processor : Once(f[q])
    BY <1>1, <2>1, <2>3 DEF TInv, OnceInv
  <2>5. PICK g : g = saved
    OBVIOUS
  <2> QED
    BY <1>2, <1>4, <2>2, <2>3, <2>4, <2>5 DEF OnceInv
<1>6. ASSUME NEW p \in Processor, Advance(p) \/ AdvanceStale(p) \/ Faults(p)
      PROVE  OnceInv'
  <2>1. /\ UNCHANGED <<clock, at, visible>>
        /\ saved' = saved \/ (Processed(p) /\ saved' = Advanced(p))
    BY <1>1, <1>6, OtherSteps
  <2>2. PICK g \in Progress, b \in [Processor -> BOOLEAN] :
           proc' = [q \in Processor |->
                  IF q = p THEN Idle(g, b[q])
                           ELSE [proc[q] EXCEPT !.fresh = b[q]]]
    BY <1>1, <1>6, OtherSteps
  <2>3. Processed(p) => OnceSaved(Advanced(p))
    BY <1>1, AdvancedOnce DEF TInv, OnceInv, PacedInv
  <2>4. proc'[p].mine = g
    BY <2>2 DEF Idle
  <2>5. \/ g = saved
        \/ Processed(p) /\ g = Advanced(p)
    <3>1. \/ Processed(p) /\ proc'[p].mine = Advanced(p)
          \/ proc'[p].mine = saved
          \/ faults["handler"] < 0
      BY <1>1, <1>6, CallEnds
    <3>2. faults["handler"] \in Nat
      BY <1>1 DEF TInv, Fault
    <3> QED
      BY <2>4, <3>1, <3>2
  <2>6. OnceSaved(g)
    BY <2>3, <2>5 DEF OnceInv
  <2>7. PICK f : f = proc'
    OBVIOUS
  <2>8. ASSUME NEW q \in Processor PROVE Once(f[q])
    <3>1. CASE q = p
      BY <2>2, <2>6, <2>7, <3>1, IdleOnce
    <3>2. CASE q # p
      <4>1. /\ proc[q] \in ProcType /\ b[q] \in BOOLEAN
            /\ f[q] = [proc[q] EXCEPT !.fresh = b[q]]
        BY <1>1, <2>2, <2>7, <3>2 DEF TInv
      <4>2. /\ f[q].mine = proc[q].mine /\ f[q].next = proc[q].next
            /\ f[q].wm = proc[q].wm /\ f[q].batch = proc[q].batch
        BY <4>1, FreshOnly
      <4> QED
        BY <4>2 DEF OnceInv, Once, CountedNow, AllFetched
    <3> QED
      BY <3>1, <3>2
  <2>9. PICK h : h = saved'
    OBVIOUS
  <2>10. OnceSaved(h)
    BY <2>1, <2>3, <2>9 DEF OnceInv
  <2> QED
    BY <1>2, <1>4, <2>1, <2>7, <2>8, <2>9, <2>10
<1>7. CASE UNCHANGED vars
  <2>1. UNCHANGED <<clock, at, visible>> /\ proc' = proc /\ saved' = saved
    BY <1>7 DEF vars
  <2>2. PICK g : g = saved
    OBVIOUS
  <2>3. PICK f : f = proc
    OBVIOUS
  <2> QED
    BY <1>2, <1>4, <2>1, <2>2, <2>3 DEF OnceInv
<1> QED
  BY <1>3, <1>5, <1>6, <1>7 DEF Next, Step

LEMMA OnceAlways ==
    ASSUME MaxFault["handler"] = 0
    PROVE  Spec => []OnceInv
<1>1. Init => OnceInv
  BY OnceInit
<1>2. OnceInv /\ [Next]_vars => OnceInv'
  BY OnceNext
<1> QED
  BY <1>1, <1>2, PTL DEF Spec

\* While no handler raises, an event counts at most once in the saved state,
\* whatever the commits, stamps, crashes, failed saves and rival processes.
THEOREM CountsOnce ==
    ASSUME MaxFault["handler"] = 0
    PROVE  Spec => []CountedOnce
<1>1. OnceInv => CountedOnce
  BY DEF OnceInv, OnceSaved, AtMostOnce, CountedOnce
<1> QED
  BY <1>1, OnceAlways, PTL

\* While no handler raises, a processor counts the events of one store in the
\* order of their stamps, across classes and across calls.
THEOREM CountsInOrder ==
    ASSUME MaxFault["handler"] = 0
    PROVE  Spec => InOrder
<1> DEFINE Ordered ==
      \A e \in Event : out'[e] > out[e] =>
          \A p \in Processor, f \in Event :
             (/\ proc[p].mine.tally[e] = 0 /\ proc'[p].mine.tally[e] = 1
              /\ proc[p].mine.tally[f] > 0
              /\ StoreOfEvent(e) = StoreOfEvent(f)) => at[f] <= at[e]
<1>1. OnceInv /\ [Next]_vars => Ordered
  <2> SUFFICES ASSUME OnceInv, [Next]_vars,
                      NEW p \in Processor, NEW e \in Event, NEW f \in Event,
                      proc[p].mine.tally[e] = 0, proc'[p].mine.tally[e] = 1,
                      out'[e] > out[e],
                      proc[p].mine.tally[f] > 0,
                      StoreOfEvent(e) = StoreOfEvent(f)
               PROVE  at[f] <= at[e]
    OBVIOUS
  <2>1. TInv /\ World /\ proc[p] \in ProcType /\ Once(proc[p]) /\ Paced(proc[p])
    BY DEF OnceInv, PacedInv, TInv
  <2>2. out[e] \in Nat
    BY <2>1 DEF TInv
  <2>3. out' # out
    BY <2>2
  <2>4. PICK q \in Processor : Process(q)
    <3>1. ~Writers
      BY <2>1, <2>3, WritersWorld
    <3>2. \A q \in Processor : Advance(q) \/ AdvanceStale(q) \/ Faults(q) => out' = out
      BY <2>1, OtherSteps
    <3> QED
      BY <2>3, <3>1, <3>2 DEF Next, Step, ReadClock, Fetch, vars
  <2>5. PICK r \in ProcType : \E d \in Earliest(proc[q].batch) :
         /\ d \in proc[q].batch
         /\ out' = [out EXCEPT ![d] = @ + 1]
         /\ proc' = [proc EXCEPT ![q] = r]
         /\ Held(r)
         /\ r.wm = proc[q].wm /\ r.next = proc[q].next
         /\ r.batch = proc[q].batch \ {d}
         /\ r.mine.last = proc[q].mine.last
         /\ r.mine.tally = [proc[q].mine.tally
                   EXCEPT ![d] = proc[q].mine.tally[d] + 1]
    BY <2>1, <2>4, ProcessType, ZenonT(60)
  <2>6. PICK d \in Earliest(proc[q].batch) :
         /\ d \in proc[q].batch
         /\ proc' = [proc EXCEPT ![q] = r]
         /\ r.mine.tally = [proc[q].mine.tally
                   EXCEPT ![d] = proc[q].mine.tally[d] + 1]
    BY <2>5
  <2>7. p = q
    BY <2>1, <2>6 DEF TInv
  <2>8. d = e
    <3>1. r.mine.tally[e] = 1 /\ proc[p].mine.tally[e] = 0
      <4>1. proc'[p] = r
        BY <2>1, <2>6, <2>7 DEF TInv
      <4> QED
        BY <4>1
    <3>2. proc[p].mine.tally \in [Event -> Nat]
      BY <2>1 DEF ProcType, Progress
    <3> QED
      BY <2>6, <2>7, <3>1, <3>2
  <2>9. /\ e \in proc[p].batch /\ \A g \in proc[p].batch : at[e] <= at[g]
        /\ proc[p].mine.last[ClassOf[e]] < at[e]
    BY <2>1, <2>6, <2>7, <2>8 DEF Paced, Earliest
  <2>10. CASE CountedNow(proc[p], f)
    BY <2>9, <2>10 DEF CountedNow
  <2>11. CASE at[f] < proc[p].mine.last[ClassOf[f]]
    <3>1. proc[p].mine.last[ClassOf[f]] = proc[p].mine.last[ClassOf[e]]
      BY <2>1, Classes DEF Once, InStep, StoreOfEvent
    <3>2. at[e] \in Nat /\ at[f] \in Nat /\ proc[p].mine.last[ClassOf[e]] \in Nat
      BY <2>1, Classes DEF World, ProcType, Progress, Time
    <3> QED
      BY <2>9, <2>11, <3>1, <3>2
  <2> QED
    BY <2>1, <2>10, <2>11 DEF Once
<1>2. OnceInv /\ [Next]_vars => [Ordered]_vars
  BY <1>1
<1> QED
  BY <1>2, OnceAlways, PTL DEF Spec, InOrder

(***************************************************************************)
(* Outputs.  A processor has settled an event once it lies before its last *)
(* watermark, or before the new one and no longer in the batch.  It saves  *)
(* an output of an event only as it settles it, and forgets that it did    *)
(* only in a restart or when a handler raises.                             *)
(***************************************************************************)
Settled(r, e) ==
    /\ e \in visible
    /\ \/ at[e] < r.mine.last[ClassOf[e]]
       \/ AllFetched(r) /\ at[e] < r.wm[StoreOfEvent(e)] /\ e \notin r.batch

Settlers(e) == {p \in Processor : Settled(proc[p], e)}

Repeats == faults["crash"] + faults["handler"]

OutInv ==
    /\ PacedInv
    /\ \A e \in Event : out[e] <= Cardinality(Settlers(e)) + Repeats

\* Set sizes: of a larger set, of one with a new member, of one that lost one.
LEMMA Sizes ==
    ASSUME IsFiniteSet(Processor), NEW S \in SUBSET Processor,
           NEW T \in SUBSET Processor, NEW p \in Processor
    PROVE  /\ Cardinality(S) \in Nat /\ Cardinality(T) \in Nat
           /\ S \subseteq T => Cardinality(S) <= Cardinality(T)
           /\ (S \subseteq T /\ p \in T \ S) => Cardinality(S) + 1 <= Cardinality(T)
           /\ S \ {p} \subseteq T => Cardinality(S) <= Cardinality(T) + 1
<1>1. IsFiniteSet(S) /\ IsFiniteSet(T)
  BY FS_Subset
<1>2. Cardinality(S) \in Nat /\ Cardinality(T) \in Nat
  BY <1>1, FS_CardinalityType
<1>3. S \subseteq T => Cardinality(S) <= Cardinality(T)
  BY <1>1, FS_Subset
<1>4. ASSUME S \subseteq T, p \in T \ S PROVE Cardinality(S) + 1 <= Cardinality(T)
  <2>1. Cardinality(S \cup {p}) = Cardinality(S) + 1
    BY <1>1, <1>4, FS_AddElement
  <2>2. Cardinality(S \cup {p}) <= Cardinality(T)
    <3>1. S \cup {p} \subseteq T
      BY <1>4
    <3> QED
      BY <1>1, <3>1, FS_Subset
  <2> QED
    BY <2>1, <2>2
<1>5. ASSUME S \ {p} \subseteq T PROVE Cardinality(S) <= Cardinality(T) + 1
  <2>1. /\ IsFiniteSet(S \ {p})
        /\ Cardinality(S \ {p}) = IF p \in S THEN Cardinality(S) - 1 ELSE Cardinality(S)
    BY <1>1, FS_RemoveElement
  <2>2. Cardinality(S \ {p}) <= Cardinality(T)
    BY <1>1, <1>5, FS_Subset
  <2> QED
    BY <1>2, <2>1, <2>2
<1> QED
  BY <1>2, <1>3, <1>4, <1>5

\* What is settled stays settled while events are saved.
LEMMA WritersSettled ==
    ASSUME TInv, Writers, NEW p \in Processor, NEW e \in Event, Settled(proc[p], e)
    PROVE  Settled(proc[p], e)'
<1>1. e \in visible' /\ at'[e] = at[e] /\ proc' = proc
  BY WritersWorld DEF TInv, Settled
<1> QED
  BY <1>1 DEF Settled, AllFetched, StoreOfEvent

\* A watermark or a batch is taken while only the last watermark settles.
LEMMA FetchingSettled ==
    ASSUME TInv, NEW q \in Processor, ReadClock(q) \/ Fetch(q),
           NEW p \in Processor, NEW e \in Event, Settled(proc[p], e)
    PROVE  Settled(proc[p], e)'
<1>1. proc[q] \in ProcType /\ Held(proc[q]) /\ World /\ UNCHANGED <<at, visible>>
  BY DEF TInv, ReadClock, Fetch
<1>2. PICK r \in ProcType : proc' = [proc EXCEPT ![q] = r] /\ r.mine = proc[q].mine
  BY <1>1, ReadClockType, FetchType
<1>3. ~AllFetched(proc[q])
  BY <1>1, Classes DEF AllFetched, ReadClock, Fetch, Fetching, ProcType
<1>4. CASE p = q
  <2>1. proc'[p] = r
    BY <1>2, <1>4 DEF TInv
  <2>2. at[e] < proc[p].mine.last[ClassOf[e]] /\ e \in visible
    BY <1>3, <1>4 DEF Settled
  <2> QED
    BY <1>1, <1>2, <1>4, <2>1, <2>2 DEF Settled
<1>5. CASE p # q
  <2>1. proc'[p] = proc[p]
    BY <1>2, <1>5 DEF TInv
  <2> QED
    BY <1>1, <2>1 DEF Settled, AllFetched, StoreOfEvent
<1> QED
  BY <1>4, <1>5

\* Processing an event settles it, for one more processor, and saves one
\* output of it.
LEMMA ProcessSettled ==
    ASSUME PacedInv, NEW q \in Processor, Process(q)
    PROVE  \E d \in Event :
              /\ out' = [out EXCEPT ![d] = @ + 1]
              /\ ~Settled(proc[q], d) /\ Settled(proc[q], d)'
              /\ \A p \in Processor, e \in Event :
                    Settled(proc[p], e) => Settled(proc[p], e)'
<1>1. TInv /\ proc[q] \in ProcType /\ Held(proc[q]) /\ World /\ Paced(proc[q])
      /\ UNCHANGED <<clock, at, visible, saved, faults>>
  BY DEF PacedInv, TInv, Process
<1>2. PICK r \in ProcType : \E d \in Earliest(proc[q].batch) :
         /\ d \in proc[q].batch
         /\ out' = [out EXCEPT ![d] = @ + 1]
         /\ proc' = [proc EXCEPT ![q] = r]
         /\ Held(r)
         /\ r.wm = proc[q].wm /\ r.next = proc[q].next
         /\ r.batch = proc[q].batch \ {d}
         /\ r.mine.last = proc[q].mine.last
         /\ r.mine.tally = [proc[q].mine.tally
                   EXCEPT ![d] = proc[q].mine.tally[d] + 1]
  BY <1>1, ProcessType, ZenonT(60)
<1>3. PICK d \in Earliest(proc[q].batch) :
         /\ d \in proc[q].batch
         /\ out' = [out EXCEPT ![d] = @ + 1]
         /\ r.wm = proc[q].wm /\ r.next = proc[q].next
         /\ r.batch = proc[q].batch \ {d}
         /\ r.mine.last = proc[q].mine.last
  BY <1>2
<1>4. /\ proc'[q] = r
      /\ \A p \in Processor \ {q} : proc'[p] = proc[p]
  BY <1>1, <1>2 DEF TInv
<1>5. /\ d \in Event /\ d \in visible /\ at[d] < proc[q].wm[StoreOfEvent(d)]
      /\ proc[q].mine.last[ClassOf[d]] < at[d]
  BY <1>1, <1>3 DEF Held, Paced, ProcType
<1>6. ~Settled(proc[q], d)
  <2>1. at[d] \in Nat /\ proc[q].mine.last[ClassOf[d]] \in Nat
    BY <1>1, <1>5, Classes DEF World, ProcType, Progress, Time
  <2> QED
    BY <1>3, <1>5, <2>1 DEF Settled
<1>7. AllFetched(r)
  BY <1>1, <1>3, Classes DEF AllFetched, Process, Fetching, ProcType
<1>8. Settled(r, d)'
  BY <1>1, <1>3, <1>5, <1>7 DEF Settled, AllFetched, StoreOfEvent
<1>9. ASSUME NEW p \in Processor, NEW e \in Event, Settled(proc[p], e)
      PROVE  Settled(proc[p], e)'
  <2>1. CASE p = q
    BY <1>1, <1>3, <1>4, <1>9, <2>1 DEF Settled, AllFetched, StoreOfEvent
  <2>2. CASE p # q
    BY <1>1, <1>4, <1>9, <2>2 DEF Settled, AllFetched, StoreOfEvent
  <2> QED
    BY <2>1, <2>2
<1>10. Settled(proc[q], d)'
  BY <1>4, <1>8 DEF Settled, AllFetched
<1> QED
  BY <1>3, <1>5, <1>6, <1>9, <1>10

\* The end of a call unsettles events for one processor at most, and only in a
\* restart or after a handler that raised.
LEMMA EndSettled ==
    ASSUME PacedInv, NEW q \in Processor,
           Advance(q) \/ AdvanceStale(q) \/ Faults(q),
           NEW e \in Event
    PROVE  /\ \A p \in Processor \ {q} : Settled(proc[p], e) => Settled(proc[p], e)'
           /\ \/ /\ Settled(proc[q], e) => Settled(proc[q], e)'
                 /\ Repeats' = Repeats
              \/ Repeats' = Repeats + 1
<1>1. TInv /\ proc[q] \in ProcType /\ World /\ Paced(proc[q])
      /\ ClassOf[e] \in Class
  BY Classes DEF PacedInv, TInv
<1>2. /\ UNCHANGED <<clock, at, visible, out>>
      /\ faults' \in [Fault -> Nat]
  BY <1>1, OtherSteps
<1>3. PICK g \in Progress, b \in [Processor -> BOOLEAN] :
         proc' = [p \in Processor |->
                IF p = q THEN Idle(g, b[p])
                         ELSE [proc[p] EXCEPT !.fresh = b[p]]]
  BY <1>1, OtherSteps
<1>4. ASSUME NEW p \in Processor \ {q}, Settled(proc[p], e)
      PROVE  Settled(proc[p], e)'
  <2>1. /\ proc[p] \in ProcType /\ b[p] \in BOOLEAN
        /\ proc'[p] = [proc[p] EXCEPT !.fresh = b[p]]
    BY <1>1, <1>3 DEF TInv
  <2>2. /\ proc'[p].mine = proc[p].mine /\ proc'[p].next = proc[p].next
        /\ proc'[p].wm = proc[p].wm /\ proc'[p].batch = proc[p].batch
    BY <2>1, FreshOnly
  <2> QED
    BY <1>2, <1>4, <2>2 DEF Settled, AllFetched, StoreOfEvent
<1>5. ASSUME Processed(q), proc'[q].mine = Advanced(q), Settled(proc[q], e)
      PROVE  Settled(proc[q], e)'
  <2>1. /\ Advanced(q) \in Progress
        /\ Advanced(q).last[ClassOf[e]] = proc[q].wm[StoreOfEvent(e)]
        /\ proc[q].mine.last[ClassOf[e]] <= Advanced(q).last[ClassOf[e]]
    BY <1>1, <1>5, AdvancedType, AdvancedAhead DEF StoreOfEvent, Processed, NotBehind
  <2>2. /\ at[e] \in Nat /\ proc[q].mine.last[ClassOf[e]] \in Nat
        /\ Advanced(q).last[ClassOf[e]] \in Nat
    BY <1>1, <2>1 DEF World, ProcType, Progress, Time
  <2>3. e \in visible /\ at[e] < Advanced(q).last[ClassOf[e]]
    BY <1>5, <2>1, <2>2 DEF Settled
  <2> QED
    BY <1>2, <1>5, <2>3 DEF Settled
<1>6. faults["crash"] \in Nat /\ faults["handler"] \in Nat
  BY <1>1 DEF TInv, Fault
<1>7. \/ Processed(q) /\ proc'[q].mine = Advanced(q) /\ Repeats' = Repeats
      \/ Repeats' = Repeats + 1
  BY <1>1, <1>6, CallEnds DEF Repeats
<1> QED
  BY <1>4, <1>5, <1>7

LEMMA OutInit == ASSUME IsFiniteSet(Processor) PROVE Init => OutInv
<1> SUFFICES ASSUME Init, NEW e \in Event
             PROVE  out[e] <= Cardinality(Settlers(e)) + Repeats
  BY PacedInit DEF OutInv
<1>1. out[e] = 0 /\ Repeats = 0
  BY DEF Init, Repeats, Fault
<1>2. Cardinality(Settlers(e)) \in Nat
  BY FS_Subset, FS_CardinalityType DEF Settlers
<1> QED
  BY <1>1, <1>2

LEMMA OutNext ==
    ASSUME IsFiniteSet(Processor)
    PROVE  OutInv /\ [Next]_vars => OutInv'
<1> SUFFICES ASSUME OutInv, [Next]_vars, NEW e \in Event
             PROVE  out'[e] <= Cardinality(Settlers(e)') + Repeats'
  BY PacedNext DEF OutInv
<1>1. PacedInv /\ TInv /\ out[e] \in Nat /\ Repeats \in Nat
      /\ out[e] <= Cardinality(Settlers(e)) + Repeats
  BY DEF OutInv, PacedInv, TInv, Repeats, Fault
<1>2. Settlers(e) \in SUBSET Processor /\ Settlers(e)' \in SUBSET Processor
  BY DEF Settlers
<1>3. ASSUME \A p \in Processor : Settled(proc[p], e) => Settled(proc[p], e)'
      PROVE  Settlers(e) \subseteq Settlers(e)'
  BY <1>3 DEF Settlers
<1>4. ASSUME UNCHANGED <<out, faults>>,
             \A p \in Processor : Settled(proc[p], e) => Settled(proc[p], e)'
      PROVE  out'[e] <= Cardinality(Settlers(e)') + Repeats'
  <2>1. CASE Processor = {}
    <3>1. Settlers(e) = Settlers(e)'
      BY <2>1, <1>2
    <3> QED
      BY <1>1, <1>4, <3>1 DEF Repeats
  <2>2. CASE Processor # {}
    <3>1. /\ Cardinality(Settlers(e)) \in Nat /\ Cardinality(Settlers(e)') \in Nat
          /\ Cardinality(Settlers(e)) <= Cardinality(Settlers(e)')
      BY <1>2, <1>3, <1>4, <2>2, Sizes
    <3> QED
      BY <1>1, <1>4, <3>1 DEF Repeats
  <2> QED
    BY <2>1, <2>2
<1>5. CASE Writers
  BY <1>1, <1>4, <1>5, WritersWorld, WritersSettled DEF TInv
<1>6. ASSUME NEW q \in Processor, ReadClock(q) \/ Fetch(q)
      PROVE  out'[e] <= Cardinality(Settlers(e)') + Repeats'
  BY <1>1, <1>4, <1>6, FetchingSettled DEF ReadClock, Fetch
<1>7. ASSUME NEW q \in Processor, Process(q)
      PROVE  out'[e] <= Cardinality(Settlers(e)') + Repeats'
  <2>1. PICK d \in Event :
              /\ out' = [out EXCEPT ![d] = @ + 1]
              /\ ~Settled(proc[q], d) /\ Settled(proc[q], d)'
              /\ \A p \in Processor, f \in Event :
                    Settled(proc[p], f) => Settled(proc[p], f)'
    BY <1>1, <1>7, ProcessSettled
  <2>2. Settlers(e) \subseteq Settlers(e)'
    BY <1>3, <2>1
  <2>3. Repeats' = Repeats /\ out \in [Event -> Nat]
    BY <1>1, <1>7 DEF Process, Repeats, TInv
  <2>4. /\ Cardinality(Settlers(e)) \in Nat /\ Cardinality(Settlers(e)') \in Nat
        /\ Cardinality(Settlers(e)) <= Cardinality(Settlers(e)')
    BY <1>2, <2>2, Sizes
  <2>5. CASE e = d
    <3>1. q \in Settlers(e)' /\ q \notin Settlers(e)
      BY <2>1, <2>5 DEF Settlers
    <3>2. Cardinality(Settlers(e)) + 1 <= Cardinality(Settlers(e)')
      BY <1>2, <2>2, <3>1, Sizes
    <3>3. out'[e] = out[e] + 1
      BY <2>1, <2>3, <2>5
    <3> QED
      BY <1>1, <2>3, <2>4, <3>2, <3>3
  <2>6. CASE e # d
    <3>1. out'[e] = out[e]
      BY <2>1, <2>3, <2>6
    <3> QED
      BY <1>1, <2>3, <2>4, <3>1
  <2> QED
    BY <2>5, <2>6
<1>8. ASSUME NEW q \in Processor, Advance(q) \/ AdvanceStale(q) \/ Faults(q)
      PROVE  out'[e] <= Cardinality(Settlers(e)') + Repeats'
  <2>1. out' = out
    BY <1>1, <1>8, OtherSteps
  <2>2. /\ \A p \in Processor \ {q} : Settled(proc[p], e) => Settled(proc[p], e)'
        /\ \/ /\ Settled(proc[q], e) => Settled(proc[q], e)'
              /\ Repeats' = Repeats
           \/ Repeats' = Repeats + 1
    BY <1>1, <1>8, EndSettled
  <2>3. Settlers(e) \ {q} \subseteq Settlers(e)'
    BY <2>2 DEF Settlers
  <2>4. /\ Cardinality(Settlers(e)) \in Nat /\ Cardinality(Settlers(e)') \in Nat
        /\ Cardinality(Settlers(e)) <= Cardinality(Settlers(e)') + 1
    BY <1>2, <2>3, Sizes
  <2>5. CASE Repeats' = Repeats + 1
    BY <1>1, <2>1, <2>4, <2>5
  <2>6. CASE /\ Settled(proc[q], e) => Settled(proc[q], e)'
             /\ Repeats' = Repeats
    <3>1. Settlers(e) \subseteq Settlers(e)'
      BY <2>3, <2>6 DEF Settlers
    <3>2. Cardinality(Settlers(e)) <= Cardinality(Settlers(e)')
      BY <1>2, <3>1, Sizes
    <3> QED
      BY <1>1, <2>1, <2>4, <2>6, <3>2
  <2> QED
    BY <2>2, <2>5, <2>6
<1>9. CASE UNCHANGED vars
  <2>1. \A p \in Processor : Settled(proc[p], e) => Settled(proc[p], e)'
    BY <1>9 DEF vars, Settled, AllFetched, StoreOfEvent
  <2> QED
    BY <1>4, <1>9, <2>1 DEF vars
<1> QED
  BY <1>5, <1>6, <1>7, <1>8, <1>9 DEF Next, Step

\* The output of an event is saved at most once by each process, and once more
\* for every restart and every handler that raised, whatever saves fail or find
\* a newer revision.
THEOREM OutputsAreBounded ==
    ASSUME IsFiniteSet(Processor)
    PROVE  Spec => []OutputsBounded
<1>1. Init => OutInv
  BY OutInit
<1>2. OutInv /\ [Next]_vars => OutInv'
  BY OutNext
<1>3. OutInv => OutputsBounded
  <2> SUFFICES ASSUME OutInv, NEW e \in Event
               PROVE  out[e] <= Cardinality(Processor) + faults["crash"] + faults["handler"]
    BY DEF OutputsBounded
  <2>1. Settlers(e) \subseteq Processor
    BY DEF Settlers
  <2>2. /\ Cardinality(Settlers(e)) \in Nat /\ Cardinality(Processor) \in Nat
        /\ Cardinality(Settlers(e)) <= Cardinality(Processor)
    BY <2>1, FS_Subset, FS_CardinalityType
  <2>3. /\ out[e] \in Nat /\ faults["crash"] \in Nat /\ faults["handler"] \in Nat
        /\ out[e] <= Cardinality(Settlers(e)) + (faults["crash"] + faults["handler"])
    BY DEF OutInv, PacedInv, TInv, Repeats, Fault
  <2> QED
    BY <2>2, <2>3
<1> QED
  BY <1>1, <1>2, <1>3, PTL DEF Spec
=============================================================================
