----------------------------- MODULE MCBuckets -----------------------------
(***************************************************************************)
(* Buckets for TLC: three levels, the least for which a merge has shadows, *)
(* and enough ledgers for the last level to commit one.                    *)
(***************************************************************************)
EXTENDS Buckets

CONSTANTS k1, k2, v1

MCGenesis == [Empty EXCEPT ![k1] = v1]
MCBatches ==
    {Empty, [Empty EXCEPT ![k1] = v1], [Empty EXCEPT ![k1] = Dead], [Empty EXCEPT ![k2] = v1]}
=============================================================================
