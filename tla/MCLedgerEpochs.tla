--------------------------- MODULE MCLedgerEpochs ---------------------------
(***************************************************************************)
(* The ledger over three epochs of four slots, with three accounts that    *)
(* register and leave: elections, skipped slots and skipped epochs, a      *)
(* validator minting twice in an epoch, and elections that fail.           *)
(***************************************************************************)
EXTENDS DposLedger

MCAddress == 1..3
MCGenesisValidators == <<2, 1>>
MCGenesisBalance == [a \in MCAddress |-> 1]
MCCoinbase == [a \in MCAddress |-> 3]
MCTxTypes == {"RegCandidate", "UnregCandidate"}
MCValues == {0}

=============================================================================
