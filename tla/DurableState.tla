--------------------------- MODULE DurableState ---------------------------
(***************************************************************************)
(* What a store of ledger state promises, whatever it is made of: there is *)
(* the state in memory and the state that survives the process; a batch is *)
(* applied to a state that is durable, becomes durable as a whole or is    *)
(* lost as a whole, and nothing else changes either of them.  How a batch  *)
(* changes the state is a parameter, so one specification can be shown to  *)
(* implement this one under several views of its state.                    *)
(***************************************************************************)
EXTENDS Integers

CONSTANTS
    Batches,       \* what may be applied to a state
    Apply(_, _),   \* what [seq, state] becomes with a batch
    Start          \* the state that is there from the beginning

VARIABLES
    mem, disk,     \* [seq, state]: batches applied so far and their result
    last           \* the batch being applied, until it is durable

Init == mem = [seq |-> 1, state |-> Start] /\ disk = mem

AddBatch ==
    /\ mem = disk
    /\ last' \in Batches
    /\ mem' = [seq |-> mem.seq + 1, state |-> Apply(mem, last')]
    /\ disk' = disk

Commit == disk' = mem /\ mem' = mem

Restart == mem' = disk /\ disk' = disk

Next == AddBatch \/ Commit \/ Restart

Spec == Init /\ [][Next]_<<mem, disk>>
=============================================================================
