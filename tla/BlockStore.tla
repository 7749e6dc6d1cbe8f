----------------------------- MODULE BlockStore -----------------------------
(***************************************************************************)
(* The block database of one node (core/blockchain.go): which blocks,      *)
(* states and DPoS tries are in memory and on disk, the canonical number   *)
(* index, the three heads, imports with their reorganisations, the pruning *)
(* of old states, a clean stop, a crash at any write, and the restart that *)
(* repairs the head.  A block is the sequence of choices that leads to it  *)
(* from genesis <<>>; a DPoS block has difficulty 1, so the total          *)
(* difficulty of a block is its number, which is its length.               *)
(***************************************************************************)
EXTENDS Integers, Sequences, Functions

CONSTANTS
  Blocks,          \* the block tree, closed under Parent
  TxsOf,           \* the transactions of each block
  TriesInMemory,   \* triesInMemory: 128 in the code
  Archive,         \* cacheConfig.Disabled
  Rewinds,         \* the numbers debug_setHead is called with
  TornWrites       \* may a crash fall between two writes of one insert?

Genesis == <<>>
None == <<"none">>
Txs == UNION {TxsOf[b] : b \in Blocks}
Numbers == {Len(b) : b \in Blocks}

(* The ancestor of b that has number n, its parent, and all of them, b     *)
(* included.                                                               *)
Ancestor(b, n) == SubSeq(b, 1, n)
Parent(b) == Ancestor(b, Len(b) - 1)
Ancestors(b) == {Ancestor(b, n) : n \in 0 .. Len(b)}

(* The blocks that lead to b from its ancestor with number n, without it.  *)
Branch(b, n) == [i \in 1 .. Len(b) - n |-> Ancestor(b, n + i)]

ASSUME BlocksAssumption ==
  /\ Genesis \in Blocks /\ None \notin Blocks
  /\ Blocks \subseteq Seq(UNION {Range(b) : b \in Blocks})
  /\ \A b \in Blocks : Ancestors(b) \subseteq Blocks

(* Genesis has no transactions, and a chain none twice: the nonce of the   *)
(* second would be too low.                                                *)
ASSUME TxsAssumption ==
  /\ TxsOf[Genesis] = {}
  /\ \A b \in Blocks : \A c, e \in Ancestors(b) : c # e => TxsOf[c] \cap TxsOf[e] = {}

ASSUME StoreAssumption ==
  /\ TriesInMemory \in Nat \ {0} /\ Rewinds \subseteq Nat
  /\ Archive \in BOOLEAN /\ TornWrites \in BOOLEAN

VARIABLES
  known,      \* blocks whose header, body and total difficulty are on disk
  canonical,  \* the number -> hash index on disk
  stored,     \* the LastBlock, LastHeader and LastFast hashes on disk
  current,    \* currentBlock, currentHeader and currentFastBlock in memory
  lookup,     \* the transaction lookup entries on disk
  triegc,     \* states held in memory, in the order they were written
  onDisk,     \* states on disk
  dpos,       \* blocks whose DPoS tries are on disk
  work,       \* blocks the running insertChain has still to process
  inserts,    \* blocks the running WriteBlockWithState has still to insert
  obsolete,   \* transactions it then removes from the lookup entries
  status      \* "up", or how the process ended

vars == <<known, canonical, stored, current, lookup, triegc, onDisk, dpos,
          work, inserts, obsolete, status>>

Heads(b) == [block |-> b, header |-> b, fast |-> b]

InMemory == Range(triegc)

HasState(b) == b \in InMemory \cup onDisk

HasBlockAndState(b) == b \in known /\ HasState(b)

Init ==
  /\ known = {Genesis}
  /\ canonical = [n \in Numbers |-> IF n = 0 THEN Genesis ELSE None]
  /\ stored = Heads(Genesis)
  /\ current = Heads(Genesis)
  /\ lookup = [t \in Txs |-> None]
  /\ triegc = <<>>
  /\ onDisk = {Genesis}
  /\ dpos = {Genesis}
  /\ work = <<>>
  /\ inserts = <<>>
  /\ obsolete = {}
  /\ status = "up"

Idle == status = "up" /\ work = <<>> /\ inserts = <<>>

(* A panic or a power cut: the memory is gone, the disk stays.             *)
Die(how) ==
  /\ status' = how
  /\ triegc' = <<>>
  /\ work' = <<>>
  /\ inserts' = <<>>
  /\ obsolete' = {}

-----------------------------------------------------------------------------
(* insertChain of one block whose parent is known.  A known block that is  *)
(* not above the head is ignored.                                          *)
Import(b) ==
  /\ Parent(b) \in known
  /\ IF HasBlockAndState(b) THEN Len(b) > Len(current.block)
                            ELSE HasState(Parent(b))
  /\ work' = <<b>>
  /\ UNCHANGED <<known, canonical, stored, current, lookup, triegc, onDisk,
                 dpos, inserts, obsolete, status>>

Pruned(b) ==
  Parent(b) \in known /\ ~HasBlockAndState(b) /\ ~HasState(Parent(b))

(* ErrPrunedAncestor below the head: the block is stored, not processed.   *)
WriteBlockWithoutState(b) ==
  /\ Pruned(b)
  /\ Len(current.block) > Len(b)
  /\ known' = known \cup {b}
  /\ UNCHANGED <<canonical, stored, current, lookup, triegc, onDisk, dpos,
                 work, inserts, obsolete, status>>

(* The length of b's highest ancestor that has a state: the walk that      *)
(* collects the blocks to process again ends there.                        *)
Base(b) ==
  CHOOSE n \in 0 .. Len(b) - 1 :
    /\ HasState(Ancestor(b, n))
    /\ \A m \in n + 1 .. Len(b) - 1 : ~HasState(Ancestor(b, m))

(* ErrPrunedAncestor at or above the head: the ancestors without state are *)
(* processed again before the block.  The walk dereferences a nil block    *)
(* where an ancestor is missing.                                           *)
ImportPruned(b) ==
  /\ Pruned(b)
  /\ Len(current.block) <= Len(b)
  /\ IF \A n \in Base(b) .. Len(b) - 1 : Ancestor(b, n) \in known
       THEN /\ work' = Branch(b, Base(b))
            /\ UNCHANGED <<triegc, inserts, obsolete, status>>
       ELSE Die("panic")
  /\ UNCHANGED <<known, canonical, stored, current, lookup, onDisk, dpos>>

InsertChain ==
  /\ Idle
  /\ \E b \in Blocks \ {Genesis} :
       Import(b) \/ WriteBlockWithoutState(b) \/ ImportPruned(b)

-----------------------------------------------------------------------------
(* The tries of blocks above a number.                                     *)
TriesAbove(tries, number) ==
  LET above[i \in 0 .. Len(tries)] ==
        IF i = 0 THEN <<>>
        ELSE IF Len(tries[i]) > number THEN Append(above[i - 1], tries[i])
        ELSE above[i - 1]
  IN  above[Len(tries)]

(* The garbage collection of WriteBlockWithState.  Over its memory limit   *)
(* the trie database flushes its oldest tries, not the one just written,   *)
(* which fits the limit on its own; past the time limit the                *)
(* canonical state TriesInMemory below the block is committed; then every  *)
(* state at that number or below is dropped from memory.                   *)
CollectGarbage(b) ==
  LET tries == IF b \in InMemory THEN triegc ELSE Append(triegc, b)
      chosen == Len(b) - TriesInMemory
  IN  IF Archive
        THEN onDisk' = onDisk \cup {b} /\ UNCHANGED triegc
        ELSE IF chosen <= 0
          THEN triegc' = tries /\ UNCHANGED onDisk
          ELSE \E capped \in 0 .. Len(triegc), late \in BOOLEAN :
                 /\ onDisk' = onDisk \cup Range(SubSeq(tries, 1, capped))
                      \cup (IF late THEN {canonical[chosen]} \cap Range(tries)
                                    ELSE {})
                 /\ triegc' = TriesAbove(SubSeq(tries, capped + 1, Len(tries)), chosen)

(* GetHeaderByNumber returned nil and its number is read.                  *)
NoHeaderToPrune(b) ==
  /\ ~Archive
  /\ Len(b) > TriesInMemory
  /\ canonical[Len(b) - TriesInMemory] = None

CommonLength(b, c) ==
  CHOOSE n \in 0 .. Len(b) :
    /\ Ancestor(b, n) \in Ancestors(c)
    /\ \A m \in n + 1 .. Len(b) : Ancestor(b, m) \notin Ancestors(c)

BranchTxs(b, n) == UNION {TxsOf[c] : c \in Range(Branch(b, n))}

(* Mutant of Reorg: the lookup entries of every dropped block are removed. *)
ReorgForgetsDropped(b) ==
  LET n == CommonLength(b, current.block)
      linked == \A m \in n .. Len(b) - 1 : Ancestor(b, m) \in known
  IN  /\ inserts' = IF linked THEN Branch(b, n) ELSE <<>>
      /\ obsolete' = IF linked THEN BranchTxs(current.block, n) ELSE {}
      /\ work' = IF linked THEN Tail(work) ELSE <<>>

(* reorg, up to its first insert; an extension of the head only inserts    *)
(* the block.  A branch with a missing block is an error and leaves the    *)
(* head alone.                                                             *)
Reorg(b) ==
  LET old == current.block
      n == CommonLength(b, old)
      linked == \A m \in n .. Len(b) - 1 : Ancestor(b, m) \in known
  IN  /\ inserts' = IF linked THEN Branch(b, n) ELSE <<>>
      /\ obsolete' = IF linked THEN BranchTxs(old, n) \ BranchTxs(b, n) ELSE {}
      /\ work' = IF linked THEN Tail(work) ELSE <<>>

(* Mutant of WriteBlockWithState: a block one below the head may win.      *)
LowerBlockWins(b) ==
  /\ CollectGarbage(b)
  /\ known' = known \cup {b}
  /\ dpos' = dpos \cup {b}
  /\ \/ Len(b) + 1 >= Len(current.block) /\ Reorg(b)
     \/ /\ Len(b) <= Len(current.block)
        /\ work' = Tail(work)
        /\ UNCHANGED <<inserts, obsolete>>
  /\ UNCHANGED <<canonical, stored, current, lookup, status>>

(* WriteBlockWithState up to the first change of the head: the block, its  *)
(* state and its DPoS tries are written, and the fork choice is made.      *)
WriteBlockWithState(b) ==
  /\ CollectGarbage(b)
  /\ known' = known \cup {b}
  /\ dpos' = dpos \cup {b}
  /\ \/ /\ Len(b) >= Len(current.block)
        /\ Reorg(b)
     \/ /\ Len(b) <= Len(current.block)
        /\ work' = Tail(work)
        /\ UNCHANGED <<inserts, obsolete>>
  /\ UNCHANGED <<canonical, stored, current, lookup, status>>

(* One round of insertChain: the parent's DPoS tries and state are opened, *)
(* and the block is processed and written.                                 *)
Process ==
  /\ status = "up"
  /\ inserts = <<>>
  /\ work # <<>>
  /\ LET b == Head(work)
         opened == Parent(b) \in dpos /\ HasState(Parent(b))
     IN  \/ /\ opened /\ ~NoHeaderToPrune(b)
            /\ WriteBlockWithState(b)
         \/ /\ opened /\ NoHeaderToPrune(b)
            /\ known' = known \cup {b}
            /\ Die("panic")
            /\ UNCHANGED <<canonical, stored, current, lookup, onDisk, dpos>>
         \/ /\ ~opened
            /\ work' = <<>>
            /\ UNCHANGED <<known, canonical, stored, current, lookup, triegc,
                           onDisk, dpos, inserts, obsolete, status>>

(* insert: the index entry, then the head; the other two heads follow only *)
(* when the index entry was another one.                                   *)
Moved(heads, b) ==
  IF canonical[Len(b)] # b THEN Heads(b) ELSE [heads EXCEPT !.block = b]

(* One insert of the import, with the lookup entries of the block; the     *)
(* last one also drops the entries of the transactions that were lost.     *)
Insert ==
  /\ status = "up"
  /\ inserts # <<>>
  /\ LET b == Head(inserts)
         gone == IF Len(inserts) = 1 THEN obsolete ELSE {}
     IN  /\ canonical' = [canonical EXCEPT ![Len(b)] = b]
         /\ stored' = Moved(stored, b)
         /\ current' = Moved(current, b)
         /\ lookup' = [t \in Txs |-> IF t \in TxsOf[b] THEN b
                                     ELSE IF t \in gone THEN None ELSE lookup[t]]
         /\ obsolete' = obsolete \ gone
  /\ inserts' = Tail(inserts)
  /\ UNCHANGED <<known, triegc, onDisk, dpos, work, status>>

-----------------------------------------------------------------------------
(* Stop: a running import ends after its current block; the states of the  *)
(* head, of its parent and of the block TriesInMemory - 1 below the head   *)
(* are committed, and everything else in memory is let go.                 *)
Stop ==
  /\ status = "up"
  /\ inserts = <<>>
  /\ LET n == Len(current.block)
         recent == {canonical[n - d] :
                      d \in {d \in {0, 1, TriesInMemory - 1} : n > d}}
     IN  onDisk' = IF Archive THEN onDisk
                              ELSE onDisk \cup (recent \cap InMemory)
  /\ Die("clean")
  /\ UNCHANGED <<known, canonical, stored, current, lookup, dpos>>

(* The process dies between two writes that belong to different blocks, or *)
(* between an import's writes of a block and its insert.                   *)
Crash ==
  /\ status = "up"
  /\ Die("crash")
  /\ UNCHANGED <<known, canonical, stored, current, lookup, onDisk, dpos>>

(* It dies inside WriteBlockWithState: the block is on disk, on an archive *)
(* node its state too, the DPoS tries are not.                             *)
CrashWriting ==
  /\ status = "up"
  /\ inserts = <<>>
  /\ work # <<>>
  /\ Parent(Head(work)) \in dpos
  /\ HasState(Parent(Head(work)))
  /\ known' = known \cup {Head(work)}
  /\ onDisk' = IF Archive THEN onDisk \cup {Head(work)} ELSE onDisk
  /\ Die("crash")
  /\ UNCHANGED <<canonical, stored, current, lookup, dpos>>

(* It dies inside an insert, after the index entry, the head block hash or *)
(* the head header hash.                                                   *)
CrashInserting ==
  /\ TornWrites
  /\ status = "up"
  /\ inserts # <<>>
  /\ LET b == Head(inserts)
         after == Moved(stored, b)
     IN  /\ canonical' = [canonical EXCEPT ![Len(b)] = b]
         /\ stored' \in {stored,
                         [stored EXCEPT !.block = b],
                         [after EXCEPT !.fast = stored.fast]}
  /\ Die("crash")
  /\ UNCHANGED <<known, current, lookup, onDisk, dpos>>

(* Mutant of Repaired: the head is kept as soon as its block is there.     *)
RepairSeesBlocks(b) ==
  CHOOSE c \in Ancestors(b) :
    /\ c \in known
    /\ \A e \in Ancestors(b) : e \in known => Len(e) <= Len(c)

(* repair: the highest ancestor of the head whose state can be opened.     *)
Repaired(b) ==
  CHOOSE c \in Ancestors(b) :
    /\ c \in onDisk
    /\ \A e \in Ancestors(b) : e \in onDisk => Len(e) <= Len(c)

(* NewBlockChain and loadLastState; only the header hash is written back.  *)
Start ==
  /\ status # "up"
  /\ LET block == Repaired(stored.block)
         header == IF stored.header \in known THEN stored.header ELSE block
         fast == IF stored.fast \in known THEN stored.fast ELSE block
     IN  /\ current' = [block |-> block, header |-> header, fast |-> fast]
         /\ stored' = [stored EXCEPT !.header = header]
  /\ status' = "up"
  /\ UNCHANGED <<known, canonical, lookup, triegc, onDisk, dpos, work,
                 inserts, obsolete>>

(* Mutant of SetHead: the head block does not follow the head header.      *)
SetHeadKeepsBlock(n) ==
  /\ Idle
  /\ LET h == current.header
         header == IF Len(h) > n THEN Ancestor(h, n) ELSE h
     IN  /\ known' = known \ {b \in Ancestors(h) : Len(b) > n}
         /\ canonical' = [i \in Numbers |-> IF n < i /\ i <= Len(h) THEN None
                                                                 ELSE canonical[i]]
         /\ current' = [current EXCEPT !.header = header]
         /\ stored' = [stored EXCEPT !.header = header]
  /\ UNCHANGED <<lookup, triegc, onDisk, dpos, work, inserts, obsolete, status>>

(* SetHead: the header chain is cut and its blocks deleted, with their     *)
(* index entries; the head block follows, or falls back to genesis when    *)
(* its state is gone.                                                      *)
SetHead(n) ==
  /\ Idle
  /\ LET h == current.header
         header == IF Len(h) > n THEN Ancestor(h, n) ELSE h
         Below(b) == IF Len(header) < Len(b) THEN header ELSE b
         block == IF HasState(Below(current.block)) THEN Below(current.block)
                                                    ELSE Genesis
         fast == IF Below(current.fast) \in known' THEN Below(current.fast)
                                                   ELSE block
     IN  /\ known' = known \ {b \in Ancestors(h) : Len(b) > n}
         /\ canonical' = [i \in Numbers |-> IF n < i /\ i <= Len(h) THEN None
                                                                 ELSE canonical[i]]
         /\ current' = [block |-> block, header |-> header, fast |-> fast]
         /\ stored' = [block |-> block, header |-> header,
                       fast |-> Below(current.fast)]
  /\ UNCHANGED <<lookup, triegc, onDisk, dpos, work, inserts, obsolete, status>>

Rewind == \E n \in Rewinds : SetHead(n)

Next ==
  \/ InsertChain \/ Process \/ Insert \/ Stop \/ Crash \/ CrashWriting
  \/ CrashInserting \/ Start \/ Rewind

Spec == Init /\ [][Next]_vars

-----------------------------------------------------------------------------
(* Every variable has its type.                                            *)
TypeOK ==
  /\ known \subseteq Blocks
  /\ canonical \in [Numbers -> Blocks \cup {None}]
  /\ {stored, current} \subseteq
       [block : Blocks, header : Blocks, fast : Blocks]
  /\ lookup \in [Txs -> Blocks \cup {None}]
  /\ triegc \in Seq(Blocks) /\ IsInjective(triegc)
  /\ onDisk \subseteq Blocks /\ dpos \subseteq Blocks
  /\ {work, inserts} \subseteq Seq(Blocks)
  /\ obsolete \subseteq Txs
  /\ status \in {"up", "clean", "crash", "panic"}

(* Whatever crashed, was pruned or was rewound, the head a running node    *)
(* works on between two imports of a block is a stored block whose state   *)
(* and whose DPoS tries can be opened: it can serve its state, mine, and   *)
(* accept a child.                                                         *)
HeadIsUsable ==
  status = "up" /\ inserts = <<>> =>
    /\ HasBlockAndState(current.block)
    /\ current.block \in dpos

(* The number index agrees with the head: what GetBlockByNumber returns up *)
(* to the head's number are the head's ancestors.                          *)
IndexFollowsHead ==
  status = "up" =>
    \A n \in 0 .. Len(current.block) :
      canonical[n] = Ancestor(current.block, n)

(* A transaction of the canonical chain is found under its own block by    *)
(* hash, whatever reorganisations moved it between branches.               *)
LookupsFindCanonicalTxs ==
  Idle => \A b \in Ancestors(current.block) : \A t \in TxsOf[b] : lookup[t] = b

(* After a clean stop the next start comes back to the same head.          *)
CleanStopKeepsHead == status = "clean" => Repaired(stored.block) = current.block

(* No import dereferences a missing block or header.                       *)
ImportsNeverPanic == status # "panic"

(* A running node comes through everything.  The head it works on can be   *)
(* opened, with its state and its DPoS tries, whatever was pruned or torn  *)
(* by a crash inside an insert; while no insert is torn, a start after a   *)
(* clean stop comes back to the same head, and no import dereferences a    *)
(* missing block or header.                                                *)
RestartsSafely ==
  /\ TypeOK
  /\ Rewinds = {} => HeadIsUsable
  /\ Rewinds = {} /\ ~TornWrites => CleanStopKeepsHead /\ ImportsNeverPanic

(* Through reorganisations, crashes and rewinds, the number index up to    *)
(* the head names the head's ancestors, and a transaction of the canonical *)
(* chain is found under its own block.                                     *)
ChainIsIndexed == ~TornWrites => IndexFollowsHead /\ LookupsFindCanonicalTxs

(* The chain a reader sees through the index, or would see after a restart *)
(* from what is on disk now.                                               *)
VisibleChain ==
  LET head == IF status = "up" THEN current.block ELSE Repaired(stored.block)
  IN  [n \in 1 .. Len(head) |-> canonical[n]]

Abstract == INSTANCE CanonicalChain WITH chain <- VisibleChain, pending <- inserts

(* That chain only changes as CanonicalChain allows.                       *)
ImplementsCanonicalChain == Abstract!Spec
=============================================================================
