---------------------------- MODULE MCUnionStore ----------------------------
EXTENDS UnionStore

CONSTANTS c1, c2

MCSymmetry == Permutations(Client)

\* The clients work on the first document; two more tell the orders apart.
MCOthers == (<<2, "head">> :> 1) @@ (<<2, "tail">> :> 2) @@ (<<3, "tail">> :> 1)
MCStored == {f @@ MCOthers : f \in UNION {[there -> Value] : there \in SUBSET ({1} \X Side)}}
=============================================================================
