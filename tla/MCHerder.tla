------------------------------ MODULE MCHerder ------------------------------
(* Herder for TLC, and two comments of the code as properties.             *)
EXTENDS Herder

\* HerderImpl.h:149 calls mTrackingSCP's index "the ledger index that was last
\* externalized": it does not move back.
TrackingForward == [][h.tracking # 0 /\ h'.tracking # 0 => h'.tracking >= h.tracking]_vars

\* valueExternalized says of a transaction set it does not find that this "only
\* occurs if this node has fallen behind": never to a node in sync that never
\* lost track of consensus.
FetchesOnlyBehind ==
    [][isSynced(h) /\ h.tracking # 0 /\ ~h'.lost =>
          h'.fault # "recursion" /\ h'.catchup = h.catchup]_vars
=============================================================================
