--------------------------- MODULE MCLedgerVotes ---------------------------
(***************************************************************************)
(* The ledger with three accounts, two of them genesis validators, that    *)
(* vote, register and leave: the interplay of the candidate, delegate and  *)
(* vote tries over two epochs.                                             *)
(***************************************************************************)
EXTENDS DposLedger

MCAddress == 1..3
MCGenesisValidators == <<1, 2>>
MCGenesisBalance == [a \in MCAddress |-> 0]
MCCoinbase == [a \in MCAddress |-> a]
MCTxTypes == DposTypes
MCValues == {0, 1}

=============================================================================
