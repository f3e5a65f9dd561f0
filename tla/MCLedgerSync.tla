---------------------------- MODULE MCLedgerSync ----------------------------
(***************************************************************************)
(* LedgerSync for TLC.  Checkpoints every 3 ledgers instead of every 64:   *)
(* a block with a first, a middle and a last ledger.                       *)
(***************************************************************************)
EXTENDS LedgerSync
=============================================================================
