-------------------------- MODULE MCHistoryPublish --------------------------
(* HistoryPublish with two checkpoints that share one bucket.              *)
EXTENDS HistoryPublish

CONSTANTS b1, b2

\* b1 is in both checkpoints, so the second publish does not send it.
MCBucketsOf == <<{b1}, {b1, b2}>>
MCBucketsOfSmall == <<{b1}, {b1}>>

=============================================================================
