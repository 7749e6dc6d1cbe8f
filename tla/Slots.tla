------------------------------- MODULE Slots -------------------------------
(***************************************************************************)
(* Time in the DPoS engine (consensus/dpos/dpos.go, epoch_context.go):     *)
(* epochs, the slots of an epoch and the validator whose turn a slot is.   *)
(* Times are in seconds.  Addresses are numbers because the election       *)
(* breaks ties by their order.                                             *)
(***************************************************************************)
EXTENDS Integers, Sequences, FiniteSets

CONSTANTS
  Address,           \* the accounts
  EpochInterval,     \* epochInterval
  BlockInterval,     \* genesis.BlockInterval
  MaxValidatorSize   \* genesis.MaxValidatorSize

ASSUME AddressAssumption == Address \subseteq Nat \ {0} /\ IsFiniteSet(Address)

ASSUME EpochIntervalAssumption == EpochInterval \in Nat \ {0}

\* The code divides by both without a check.
ASSUME BlockIntervalAssumption == BlockInterval \in Nat \ {0}

ASSUME MaxValidatorSizeAssumption == MaxValidatorSize \in Nat \ {0}

\* The zero address, and what TryGet returns for a key that is not in a trie.
NoAddress == 0

EpochOf(time) == time \div EpochInterval

PrevSlot(now) == ((now - 1) \div BlockInterval) * BlockInterval

NextSlot(now) == ((now + BlockInterval - 1) \div BlockInterval) * BlockInterval

\* lookupValidator: the validator whose turn it is at a time, NoAddress for
\* its errors (the time is no slot of its epoch, or there is no validator).
lookupValidator(validators, now) ==
  LET offset == now % EpochInterval
  IN  IF offset % BlockInterval # 0 \/ validators = <<>>
      THEN NoAddress
      ELSE validators[((offset \div BlockInterval) % Len(validators)) + 1]

\* The validators an election needs, and the witnesses a confirmation needs:
\* two thirds of the seats and one.
SafeSize == (MaxValidatorSize * 2) \div 3 + 1

ConsensusSize == (MaxValidatorSize * 2) \div 3 + 1

=============================================================================
