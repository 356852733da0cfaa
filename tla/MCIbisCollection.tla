-------------------------- MODULE MCIbisCollection --------------------------
(***************************************************************************)
(* A small instance of IbisCollection: a key that becomes a column, name,  *)
(* and one that stays in _data, tags, and is indexed there.                *)
(***************************************************************************)
EXTENDS IbisCollection, TLC

CONSTANTS p1, p2, name, tags, v

Processes == {p1, p2}
Keys      == {name, tags}

Document(n, t) == name :> n @@ tags :> t

Docs == {Document(v, Missing), Document(Null, v)}

\* p1 runs with use_ts_store_transactions, p2 without.
OwnTxs == p1 :> TRUE @@ p2 :> FALSE
=============================================================================
