------------------------- MODULE MCEventProcessing -------------------------
(***************************************************************************)
(* Small instances of EventProcessing: two event classes, in one store or  *)
(* in two.                                                                 *)
(***************************************************************************)
EXTENDS EventProcessing, TLC

CONSTANTS e1, e2, placed, filled, s1, s2, p1, p2

Events  == {e1, e2}
Inputs  == <<placed, filled>>
Classes == e1 :> placed @@ e2 :> filled

OneStore  == placed :> s1 @@ filled :> s1
TwoStores == placed :> s1 @@ filled :> s2

OneProcessor  == {p1}
TwoProcessors == {p1, p2}
Symmetry      == Permutations(TwoProcessors)

Faults4(crash, save, ack, handler) ==
    "crash" :> crash @@ "save" :> save @@ "ack" :> ack @@ "handler" :> handler

NoFault      == Faults4(0, 0, 0, 0)
SaveFaults   == Faults4(1, 1, 1, 0)
LoopFaults   == Faults4(1, 1, 0, 1)
AckFault     == Faults4(0, 0, 1, 0)
=============================================================================
