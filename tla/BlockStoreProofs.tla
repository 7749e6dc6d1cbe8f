-------------------------- MODULE BlockStoreProofs --------------------------
(***************************************************************************)
(* The rest of the steps keep the invariant of BlockStoreInvariant: the    *)
(* processing of a block with its fork choice and its garbage collection,  *)
(* a crash inside an insert, and SetHead. It gives the three results: a    *)
(* node restarts safely, its index and lookup entries follow its head, and *)
(* the chain it shows implements CanonicalChain.                           *)
(***************************************************************************)
EXTENDS BlockStoreInvariant

-----------------------------------------------------------------------------
(* A crash inside an insert.                                               *)
LEMMA CrashInsertingInv == Inv /\ CrashInserting => Inv'
<1> SUFFICES ASSUME Inv, CrashInserting PROVE Inv'
  OBVIOUS
<1>0. PICK b : b = Head(inserts)
  OBVIOUS
<1>1. /\ TornWrites /\ status = "up" /\ inserts # <<>> /\ Die("crash")
      /\ UNCHANGED <<known, current, lookup, onDisk, dpos>>
      /\ canonical' = [canonical EXCEPT ![Len(b)] = b]
      /\ stored' \in {stored, [stored EXCEPT !.block = b],
                      [Moved(stored, b) EXCEPT !.fast = stored.fast]}
  BY <1>0 DEF CrashInserting
<1>2. b \in Blocks /\ b \in Range(inserts)
  BY <1>0, <1>1, InsertIs
<1>3. stored \in [block : Blocks, header : Blocks, fast : Blocks]
  BY DEF Inv, TypeOK
<1>4. /\ stored' \in [block : Blocks, header : Blocks, fast : Blocks]
      /\ stored'.block \in {stored.block, b} /\ stored'.header \in {stored.header, b}
  BY <1>1, <1>2, <1>3 DEF Moved, Heads
<1>5. /\ canonical \in [Numbers -> Blocks \cup {None}] /\ Len(b) \in Numbers
  BY <1>2, Zenon DEF Inv, TypeOK, Numbers
<1>6. /\ canonical'[Len(b)] = b
      /\ \A n \in Numbers : n # Len(b) => canonical'[n] = canonical[n]
      /\ canonical' \in [Numbers -> Blocks \cup {None}]
  BY <1>1, <1>2, <1>5
<1>7. /\ status' = "crash"
      /\ triegc' = <<>> /\ work' = <<>> /\ inserts' = <<>> /\ obsolete' = {}
  BY <1>1 DEF Die
<1>8. /\ Range(triegc') = {} /\ Range(work') = {} /\ Range(inserts') = {}
      /\ IsInjective(triegc')
  BY <1>7 DEF Range, IsInjective
<1>9. TypeOK'
  BY <1>1, <1>4, <1>6, <1>7, <1>8 DEF Inv, TypeOK
<1>10. NothingInMemory'
  BY <1>7 DEF NothingInMemory
<1>11. Rooted'
  BY <1>1, <1>6 DEF Inv, Rooted
<1>12. DposComplete'
  BY <1>1, <1>2, <1>4, <1>7, <1>8 DEF Inv, DposComplete
<1>13. ChainsKnown'
  BY <1>1, <1>2, <1>4, <1>8 DEF Inv, ChainsKnown
<1>14. HeadBelowStored'
  BY <1>7 DEF HeadBelowStored
<1>15. InsertsSwitch'
  <2>1. (inserts = <<>> /\ obsolete = {} /\ current.block \in Blocks)'
    BY <1>1, <1>7 DEF Inv, TypeOK
  <2> QED
    BY <2>1, NothingToSwitch, PTL
<1>16. IndexFollowsStored' /\ IndexCoversStates'
  BY <1>1 DEF IndexFollowsStored, IndexCoversStates
<1>17. NeverCut'
  BY <1>1, <1>7 DEF Inv, NeverCut
<1> QED
  BY <1>9, <1>10, <1>11, <1>12, <1>13, <1>14, <1>15, <1>16, <1>17 DEF Inv

-----------------------------------------------------------------------------
(* SetHead: the new head block is on the old head's chain or on the old    *)
(* header's, no higher than the number that was asked for if blocks were   *)
(* removed, and so is the new header.                                      *)
LEMMA SetHeadIs ==
  ASSUME Inv, NEW n \in Rewinds, SetHead(n)
  PROVE  /\ stored'.block = current'.block /\ stored'.header = current'.header
         /\ {stored', current'} \subseteq [block : Blocks, header : Blocks, fast : Blocks]
         /\ stored'.header \in Ancestors(stored.header)
         /\ stored'.block \in Ancestors(current.block) \cup Ancestors(stored.header)
         /\ Len(stored'.block) <= Len(stored'.header)
         /\ known' \subseteq known
         /\ \A e \in known : Len(e) <= Len(stored'.header) => e \in known'
         /\ canonical' \in [Numbers -> Blocks \cup {None}]
         /\ \A i \in Numbers : canonical'[i] = None \/ canonical'[i] = canonical[i]
         /\ \A i \in Numbers : i <= Len(stored'.header) => canonical'[i] = canonical[i]
<1> DEFINE h == current.header
           header == IF Len(h) > n THEN Ancestor(h, n) ELSE h
           Below(b) == IF Len(header) < Len(b) THEN header ELSE b
           block == IF HasState(Below(current.block)) THEN Below(current.block) ELSE Genesis
           fast == IF Below(current.fast) \in known' THEN Below(current.fast) ELSE block
<1>1. /\ status = "up"
      /\ known' = known \ {b \in Ancestors(h) : Len(b) > n}
      /\ canonical' = [i \in Numbers |-> IF n < i /\ i <= Len(h) THEN None ELSE canonical[i]]
      /\ current' = [block |-> block, header |-> header, fast |-> fast]
      /\ stored' = [block |-> block, header |-> header, fast |-> Below(current.fast)]
  BY DEF SetHead, Idle
<1>2. /\ current \in [block : Blocks, header : Blocks, fast : Blocks]
      /\ h = stored.header /\ h \in Blocks /\ Len(h) \in Nat /\ n \in Nat
      /\ current.block \in Blocks /\ Len(current.block) \in Nat
      /\ canonical \in [Numbers -> Blocks \cup {None}]
  BY <1>1, HeadIs, BlockIsSeq, StoreAssumption DEF Inv, TypeOK
<1>3. /\ header \in Ancestors(h) /\ header \in Blocks /\ Len(header) \in Nat
      /\ Len(header) <= Len(h)
      /\ Len(h) > n => Len(header) = n
  BY <1>2, OwnAncestor, AncestorIsBlock
<1>4. Len(header) <= n \/ Len(h) <= n
  BY <1>2, <1>3
<1> HIDE DEF header
<1>5. \A b \in Blocks : Below(b) \in Blocks /\ Below(b) \in {header, b} /\ Len(Below(b)) <= Len(header)
  BY <1>3, BlockIsSeq
<1>6. /\ block \in Blocks /\ Len(block) <= Len(header)
      /\ block \in Ancestors(current.block) \cup Ancestors(h)
  <2>1. Genesis \in Ancestors(current.block) /\ current.block \in Ancestors(current.block)
    BY <1>2, OwnAncestor
  <2>2. Len(Genesis) <= Len(header)
    BY <1>3, GenesisIs
  <2> QED
    BY <1>2, <1>3, <1>5, <2>1, <2>2, GenesisIs
<1> HIDE DEF Below, block
<1>7. fast \in Blocks /\ Below(current.fast) \in Blocks
  BY <1>2, <1>5, <1>6
<1> HIDE DEF fast
<1>8. /\ stored'.block = block /\ current'.block = block
      /\ stored'.header = header /\ current'.header = header
      /\ {stored', current'} \subseteq [block : Blocks, header : Blocks, fast : Blocks]
  BY <1>1, <1>3, <1>6, <1>7
<1>9. known' \subseteq known /\ \A e \in known : Len(e) <= Len(header) => e \in known'
  <2>1. ASSUME NEW e \in known, Len(e) <= Len(header) PROVE e \notin {b \in Ancestors(h) : Len(b) > n}
    <3> SUFFICES ASSUME e \in Ancestors(h), Len(e) > n PROVE FALSE
      OBVIOUS
    <3>1. Len(e) \in 0 .. Len(h)
      BY <1>2, AncestorsAreChain
    <3> QED
      BY <1>2, <1>3, <1>4, <2>1, <3>1
  <2> QED
    BY <1>1, <2>1
<1>10. /\ canonical' \in [Numbers -> Blocks \cup {None}]
       /\ \A i \in Numbers : canonical'[i] = None \/ canonical'[i] = canonical[i]
  BY <1>1, <1>2
<1>11. ASSUME NEW i \in Numbers, i <= Len(header) PROVE canonical'[i] = canonical[i]
  <2>1. i \in Nat
    BY BlockIsSeq DEF Numbers
  <2>2. ~(n < i /\ i <= Len(h))
    BY <1>2, <1>3, <1>4, <1>11, <2>1
  <2> QED
    BY <1>1, <2>2
<1> QED
  BY <1>2, <1>3, <1>6, <1>8, <1>9, <1>10, <1>11

(* SetHead keeps the invariant: what the index loses lies above the head.  *)
LEMMA RewindInv == Inv /\ Rewind => Inv'
<1> SUFFICES ASSUME Inv, NEW n \in Rewinds, SetHead(n) PROVE Inv'
  BY DEF Rewind
<1>0. PICK b, h : b = stored'.block /\ h = stored'.header
  OBVIOUS
<1>1. /\ b = current'.block /\ h = current'.header
      /\ {stored', current'} \subseteq [block : Blocks, header : Blocks, fast : Blocks]
      /\ h \in Ancestors(stored.header)
      /\ b \in Ancestors(current.block) \cup Ancestors(stored.header)
      /\ Len(b) <= Len(h)
      /\ known' \subseteq known
      /\ \A e \in known : Len(e) <= Len(h) => e \in known'
      /\ canonical' \in [Numbers -> Blocks \cup {None}]
      /\ \A i \in Numbers : canonical'[i] = None \/ canonical'[i] = canonical[i]
      /\ \A i \in Numbers : i <= Len(h) => canonical'[i] = canonical[i]
  BY <1>0, SetHeadIs
<1>2. /\ status = "up" /\ work = <<>> /\ inserts = <<>>
      /\ UNCHANGED <<lookup, triegc, onDisk, dpos, work, inserts, obsolete, status>>
  BY DEF SetHead, Idle
<1>3. /\ stored.block \in Blocks /\ stored.header \in Blocks /\ current.block \in Blocks
      /\ Ancestors(current.block) \subseteq known /\ current.block \in dpos
      /\ ~TornWrites => Follows(current.block) /\ Finds(current.block)
  BY <1>2, HeadIs
<1>4. /\ b \in Blocks /\ h \in Blocks /\ Len(b) \in Nat /\ Len(h) \in Nat
  BY <1>0, <1>1, BlockIsSeq
<1>5. Ancestors(b) \subseteq known /\ Ancestors(h) \subseteq known
  <2>1. Ancestors(b) \subseteq Ancestors(current.block) \/ Ancestors(b) \subseteq Ancestors(stored.header)
    BY <1>1, <1>3, AncestorsAreChain
  <2>2. Ancestors(h) \subseteq Ancestors(stored.header)
    BY <1>1, <1>3, AncestorsAreChain
  <2> QED
    BY <1>3, <2>1, <2>2 DEF Inv, ChainsKnown
<1>6. Ancestors(b) \subseteq known' /\ Ancestors(h) \subseteq known'
  <2>1. ASSUME NEW e \in Ancestors(b) \cup Ancestors(h) PROVE Len(e) <= Len(h)
    BY <1>1, <1>4, AncestorsAreChain
  <2> QED
    BY <1>1, <1>5, <2>1
<1>7. b \in dpos /\ h \in dpos
  BY <1>1, <1>3 DEF Inv, DposComplete
<1>8. Range(work) = {} /\ Range(inserts) = {}
  BY <1>2 DEF Range
<1>9. TypeOK'
  BY <1>1, <1>2 DEF Inv, TypeOK
<1>10. NothingInMemory'
  BY <1>2 DEF NothingInMemory
<1>11. Rooted'
  <2>1. Genesis \in known'
    BY <1>4, <1>6, OwnAncestor
  <2> QED
    BY <1>1, <1>2, <2>1 DEF Inv, Rooted
<1>12. DposComplete'
  BY <1>0, <1>2, <1>7 DEF Inv, DposComplete
<1>13. ChainsKnown'
  BY <1>0, <1>2, <1>6, <1>8 DEF ChainsKnown
<1>14. HeadBelowStored'
  <2>1. \A e \in Ancestors(b) : ~(Len(e) > Len(b))
    BY <1>4, AncestorsAreChain
  <2> QED
    BY <1>0, <1>1, <1>4, <2>1, OwnAncestor DEF HeadBelowStored
<1>15. InsertsSwitch'
  <2>1. (inserts = <<>> /\ obsolete = {} /\ current.block \in Blocks)'
    BY <1>1, <1>2, <1>4 DEF Inv, InsertsSwitch
  <2> QED
    BY <2>1, NothingToSwitch, PTL
<1>16. IndexFollowsStored'
  <2> SUFFICES ASSUME ~TornWrites PROVE Follows(b)' /\ Follows(h)' /\ Finds(b)' /\ Finds(h)'
    BY <1>0 DEF IndexFollowsStored, Follows, Finds
  <2>1. \A c \in {current.block, stored.header} : Follows(c) /\ Finds(c) /\ c \in Blocks
    BY <1>3 DEF Inv, IndexFollowsStored
  <2>2. ASSUME NEW c \in {current.block, stored.header}, NEW e \in Ancestors(c), Len(e) <= Len(h)
        PROVE  Follows(e)' /\ Finds(e)'
    <3>1. /\ e \in Blocks /\ Len(e) \in 0 .. Len(c) /\ Ancestors(e) \subseteq Ancestors(c)
          /\ \A m \in 0 .. Len(e) : Ancestor(e, m) = Ancestor(c, m)
          /\ Len(c) \in Nat
      BY <2>1, AncestorsAreChain, BlockIsSeq
    <3>2. \A m \in 0 .. Len(e) : m \in Numbers /\ m <= Len(h) /\ m \in 0 .. Len(c)
      BY <1>4, <2>2, <3>1, NumbersAre
    <3>3. Follows(e)'
      BY <1>1, <2>1, <3>1, <3>2 DEF Follows
    <3>4. Finds(e)'
      BY <1>2, <2>1, <3>1 DEF Finds
    <3> QED
      BY <3>3, <3>4
  <2>3. Len(h) <= Len(h)
    BY <1>4
  <2> QED
    BY <1>1, <2>2, <2>3
<1>17. Rewinds # {}
  OBVIOUS
<1>18. NeverCut' /\ IndexCoversStates'
  BY <1>17 DEF NeverCut, IndexCoversStates
<1> QED
  BY <1>9, <1>10, <1>11, <1>12, <1>13, <1>14, <1>15, <1>16, <1>18 DEF Inv

-----------------------------------------------------------------------------
(* The fork choice of WriteBlockWithState for a block that is not below    *)
(* the head: where the block's chain leaves the head's, and what the       *)
(* reorganisation is then about to do.                                     *)
LEMMA ReorgIs ==
  ASSUME Inv, status = "up", inserts = <<>>, NEW b \in Blocks, b # Genesis, Parent(b) \in known,
         Len(b) >= Len(current.block), Reorg(b)
  PROVE  \/ /\ inserts' = <<>> /\ obsolete' = {}
            /\ \E m \in 0 .. Len(b) - 1 : Ancestor(b, m) \notin known
         \/ \E k \in 0 .. Len(b) :
              /\ inserts' = Branch(b, k) /\ work' = Tail(work)
              /\ Ancestor(b, k) \in Ancestors(current.block)
              /\ k \in 0 .. Len(current.block)
              /\ \A m \in 0 .. k : Ancestor(b, m) = Ancestor(current.block, m)
              /\ \A e \in Ancestors(b) : e = b \/ e \in known
              /\ \A e \in Ancestors(b) : TxsOf[e] \cap obsolete' = {}
              /\ \A m \in k + 1 .. Len(b) : Ancestor(b, m) \notin Ancestors(current.block)
              /\ obsolete' \subseteq Txs
              /\ k = Len(current.block) => obsolete' = {}
              /\ k = Len(b) => b = current.block
<1> DEFINE old == current.block
           k == CommonLength(b, old)
           linked == \A m \in k .. Len(b) - 1 : Ancestor(b, m) \in known
<1>1. /\ inserts' = IF linked THEN Branch(b, k) ELSE <<>>
      /\ obsolete' = IF linked THEN BranchTxs(old, k) \ BranchTxs(b, k) ELSE {}
      /\ work' = IF linked THEN Tail(work) ELSE <<>>
  BY DEF Reorg
<1>2. /\ old \in Blocks /\ Len(old) \in Nat /\ Len(b) \in Nat /\ Ancestors(old) \subseteq known
  BY HeadIs, BlockIsSeq
<1>3. /\ k \in 0 .. Len(b) /\ k \in 0 .. Len(old)
      /\ \A m \in 0 .. k : Ancestor(b, m) = Ancestor(old, m)
      /\ \A m \in k + 1 .. Len(b) : Ancestor(b, m) \notin Ancestors(old)
  BY <1>2, CommonIs
<1> HIDE DEF k, old
<1>4. CASE ~linked
  <2>1. \A m \in k .. Len(b) - 1 : m \in 0 .. Len(b) - 1
    BY <1>2, <1>3
  <2> QED
    BY <1>1, <1>4, <2>1
<1>5. CASE linked
  <2>1. Ancestor(b, k) \in Ancestors(old)
    BY <1>2, <1>3, AncestorIsBlock
  <2>2. ASSUME NEW e \in Ancestors(b), e # b PROVE e \in known
    <3>1. Len(e) \in 0 .. Len(b) /\ e = Ancestor(b, Len(e)) /\ ~(Len(b) <= Len(e))
      BY <2>2, AncestorsAreChain
    <3>2. CASE Len(e) >= k
      BY <1>2, <1>3, <1>5, <3>1, <3>2
    <3>3. CASE ~(Len(e) >= k)
      <4>1. Len(e) \in 0 .. k /\ Len(e) \in 0 .. Len(old)
        BY <1>2, <1>3, <3>1, <3>3
      <4> QED
        BY <1>2, <1>3, <3>1, <4>1, AncestorIsBlock
    <3> QED
      BY <3>2, <3>3
  <2>3. /\ Range(Branch(b, k)) = {Ancestor(b, m) : m \in k + 1 .. Len(b)}
        /\ Range(Branch(old, k)) = {Ancestor(old, m) : m \in k + 1 .. Len(old)}
    BY <1>2, <1>3, BranchIsChain
  <2>4. ASSUME NEW e \in Ancestors(b) PROVE TxsOf[e] \cap obsolete' = {}
    <3>1. Len(e) \in 0 .. Len(b) /\ e = Ancestor(b, Len(e))
      BY AncestorsAreChain
    <3>2. CASE Len(e) > k
      <4>1. e \in Range(Branch(b, k))
        BY <1>2, <1>3, <2>3, <3>1, <3>2
      <4>2. TxsOf[e] \subseteq BranchTxs(b, k)
        BY <4>1 DEF BranchTxs
      <4> QED
        BY <1>1, <1>5, <4>2
    <3>3. CASE ~(Len(e) > k)
      <4>1. Len(e) \in 0 .. k /\ Len(e) \in 0 .. Len(old)
        BY <1>2, <1>3, <3>1, <3>3
      <4>2. e = Ancestor(old, Len(e)) /\ e \in Ancestors(old)
        BY <1>2, <1>3, <3>1, <4>1, AncestorIsBlock
      <4>3. ASSUME NEW c \in Range(Branch(old, k)) PROVE TxsOf[e] \cap TxsOf[c] = {}
        <5>1. PICK m \in k + 1 .. Len(old) : c = Ancestor(old, m)
          BY <2>3
        <5>2. m \in 0 .. Len(old)
          BY <1>2, <1>3
        <5>3. c \in Ancestors(old) /\ Len(c) = m
          BY <1>2, <5>1, <5>2, AncestorIsBlock
        <5>4. c # e
          BY <1>3, <4>1, <5>3
        <5> QED
          BY <1>2, <4>2, <5>3, <5>4, TxsAssumption
      <4>4. TxsOf[e] \cap BranchTxs(old, k) = {}
        BY <4>3 DEF BranchTxs
      <4> QED
        BY <1>1, <1>5, <4>4
    <3> QED
      BY <3>2, <3>3
  <2>5. obsolete' \subseteq Txs
    <3>1. Range(Branch(old, k)) \subseteq Blocks
      BY <1>2, <1>3, BranchIsChain, RangeIs
    <3>2. BranchTxs(old, k) \subseteq Txs
      BY <3>1 DEF BranchTxs, Txs
    <3> QED
      BY <1>1, <1>5, <3>2
  <2>6. ASSUME k = Len(old) PROVE obsolete' = {}
    <3>1. Branch(old, k) = <<>>
      BY <1>2, <1>3, <2>6, BranchIsChain
    <3>2. BranchTxs(old, k) = {}
      BY <3>1 DEF BranchTxs, Range
    <3> QED
      BY <1>1, <1>5, <3>2
  <2>7. ASSUME k = Len(b) PROVE b = old
    <3>1. Ancestor(b, k) = b /\ b = Ancestor(old, k) /\ Ancestor(old, Len(old)) = old
      BY <1>2, <1>3, <2>7, AncestorEnds
    <3>2. k = Len(old)
      BY <1>2, <1>3, <2>7 DEF old
    <3> QED
      BY <3>1, <3>2
  <2>8. inserts' = Branch(b, k) /\ work' = Tail(work)
    BY <1>1, <1>5
  <2>9. \A e \in Ancestors(b) : e = b \/ e \in known
    BY <2>2
  <2> HIDE DEF linked
  <2> QED
    BY <1>3, <2>1, <2>4, <2>5, <2>6, <2>7, <2>8, <2>9 DEF old
<1> QED
  BY <1>4, <1>5

(* A block is processed and written.                                       *)
LEMMA WriteInv ==
  ASSUME Inv, status = "up", inserts = <<>>, work # <<>>, NEW b, b = Head(work),
         Parent(b) \in dpos, HasState(Parent(b)), WriteBlockWithState(b)
  PROVE  Inv'
<1>1. /\ b \in Blocks /\ b # Genesis /\ Parent(b) \in known
      /\ Tail(work) \in Seq(Blocks) /\ Range(Tail(work)) \subseteq Range(work)
      /\ Rewinds = {} => \A e \in known \cup {b} : Ancestors(e) \subseteq known \cup {b}
  BY HeadOfWork
<1>2. /\ CollectGarbage(b) /\ known' = known \cup {b} /\ dpos' = dpos \cup {b}
      /\ UNCHANGED <<canonical, stored, current, lookup, status>>
  BY DEF WriteBlockWithState
<1>3. /\ triegc' \in Seq(Blocks) /\ IsInjective(triegc')
      /\ onDisk \subseteq onDisk' /\ onDisk' \subseteq Blocks
      /\ \A e : HasState(e)' => HasState(e) \/ e = b
      /\ HasState(b)'
      /\ \A e \in Blocks : HasState(e) /\ Len(e) > Len(b) - TriesInMemory => HasState(e)'
      /\ Archive => onDisk' = onDisk \cup {b} /\ triegc' = triegc
      /\ ~Archive => onDisk' \subseteq onDisk \cup InMemory
  BY <1>1, <1>2, GarbageCollected DEF Inv
<1>4. /\ stored.block \in Blocks /\ stored.header \in Blocks
      /\ current.block \in Blocks /\ Len(current.block) \in Nat
      /\ current.block \in Ancestors(stored.block)
      /\ Ancestors(current.block) \subseteq Ancestors(stored.block)
      /\ Ancestors(current.block) \subseteq known
      /\ ~TornWrites => Follows(current.block) /\ Finds(current.block)
  BY HeadIs
<1>5. /\ Len(b) \in Nat /\ Ancestors(b) = Ancestors(Parent(b)) \cup {b}
      /\ Ancestors(b) \subseteq Blocks /\ b \in Ancestors(b)
      /\ TriesInMemory \in Nat /\ TriesInMemory > 0
      /\ Range(inserts) = {} /\ obsolete = {} /\ Range(<<>>) = {}
  BY <1>1, BlockIsSeq, ParentChain, OwnAncestor, StoreAssumption
     DEF Range, Inv, InsertsSwitch
(* The three outcomes of the fork choice.                                  *)
<1> DEFINE Stays == Len(b) <= Len(current.block) /\ work' = Tail(work)
           Unlinked == \E m \in 0 .. Len(b) - 1 : Ancestor(b, m) \notin known
           Switches(k) == /\ inserts' = Branch(b, k) /\ work' = Tail(work)
                          /\ Ancestor(b, k) \in Ancestors(current.block)
                          /\ k \in 0 .. Len(current.block)
                          /\ \A m \in 0 .. k : Ancestor(b, m) = Ancestor(current.block, m)
                          /\ \A e \in Ancestors(b) : e = b \/ e \in known
                          /\ \A e \in Ancestors(b) : TxsOf[e] \cap obsolete' = {}
                          /\ \A m \in k + 1 .. Len(b) :
                               Ancestor(b, m) \notin Ancestors(current.block)
                          /\ obsolete' \subseteq Txs
                          /\ k = Len(current.block) => obsolete' = {}
                          /\ k = Len(b) => b = current.block
<1>6. \/ /\ inserts' = <<>> /\ obsolete' = {}
         /\ Stays \/ Unlinked
      \/ \E k \in 0 .. Len(b) : Switches(k)
  <2>1. CASE Len(b) >= Len(current.block) /\ Reorg(b)
    BY <1>1, <2>1, ReorgIs
  <2>2. CASE Len(b) <= Len(current.block) /\ work' = Tail(work) /\ UNCHANGED <<inserts, obsolete>>
    BY <1>5, <2>2
  <2> QED
    BY <2>1, <2>2 DEF WriteBlockWithState
<1>7. work' \in {Tail(work), <<>>}
  BY DEF WriteBlockWithState, Reorg
<1>8. ASSUME Unlinked
      PROVE  /\ Rewinds # {}
             /\ b \notin Ancestors(stored.block)
  <2>1. PICK m \in 0 .. Len(b) - 1 : Ancestor(b, m) \notin known
    BY <1>8
  <2>2. m \in 0 .. Len(b) /\ m # Len(b)
    BY <1>5
  <2>3. Ancestor(b, m) \in Ancestors(b) /\ Ancestor(b, m) # b
    BY <1>1, <2>2, AncestorIsBlock
  <2>4. ASSUME b \in Ancestors(stored.block) PROVE FALSE
    BY <1>4, <2>1, <2>3, <2>4, AncestorsAreChain DEF Inv, ChainsKnown
  <2> QED
    BY <1>1, <2>1, <2>3, <2>4
<1>9. ASSUME NEW k \in 0 .. Len(b), Switches(k)
      PROVE  /\ Branch(b, k) \in Seq(Blocks) /\ Range(Branch(b, k)) \subseteq Ancestors(b)
             /\ Branch(b, k) = <<>> <=> k = Len(b)
             /\ k < Len(b) => b \in Range(Branch(b, k))
  <2>1. /\ Branch(b, k) \in Seq(Blocks)
        /\ Branch(b, k) = <<>> <=> k = Len(b)
        /\ Range(Branch(b, k)) = {Ancestor(b, m) : m \in k + 1 .. Len(b)}
    BY <1>1, BranchIsChain
  <2>2. \A m \in k + 1 .. Len(b) : m \in 0 .. Len(b)
    BY <1>5
  <2>3. Range(Branch(b, k)) \subseteq Ancestors(b)
    BY <1>1, <2>1, <2>2, AncestorIsBlock
  <2>4. ASSUME k < Len(b) PROVE b \in Range(Branch(b, k))
    <3>1. Len(b) \in k + 1 .. Len(b) /\ b = Ancestor(b, Len(b))
      BY <1>1, <1>5, <2>4, AncestorEnds
    <3> QED
      BY <2>1, <3>1
  <2> QED
    BY <2>1, <2>3, <2>4
<1> HIDE DEF Stays, Unlinked, Switches
<1>10. inserts' \in Seq(Blocks) /\ Range(inserts') \subseteq Ancestors(b) /\ obsolete' \subseteq Txs
  <2>1. <<>> \in Seq(Blocks)
    OBVIOUS
  <2>2. CASE inserts' = <<>> /\ obsolete' = {}
    BY <1>5, <2>1, <2>2
  <2>3. ASSUME NEW k \in 0 .. Len(b), Switches(k)
        PROVE  inserts' \in Seq(Blocks) /\ Range(inserts') \subseteq Ancestors(b) /\ obsolete' \subseteq Txs
    BY <1>9, <2>3 DEF Switches
  <2> QED
    BY <1>6, <2>2, <2>3
<1>11. work' \in Seq(Blocks) /\ Range(work') \subseteq Range(work)
  <2>1. <<>> \in Seq(Blocks)
    OBVIOUS
  <2> QED
    BY <1>1, <1>5, <1>7, <2>1, Zenon
<1>12. \A e \in Range(inserts') : Ancestors(e) \subseteq Ancestors(b)
  BY <1>1, <1>10, AncestorsAreChain
<1>13. inserts' # <<>> => Ancestors(b) \subseteq known'
  BY <1>2, <1>6 DEF Switches
<1>14. TypeOK'
  BY <1>1, <1>2, <1>3, <1>10, <1>11 DEF Inv, TypeOK
<1>15. NothingInMemory'
  BY <1>2 DEF NothingInMemory
<1>16. Rooted'
  BY <1>2, <1>3 DEF Inv, Rooted
<1>17. DposComplete'
  <2>1. Ancestors(b) \subseteq dpos'
    BY <1>2, <1>5 DEF Inv, DposComplete
  <2> QED
    BY <1>2, <1>3, <1>10, <2>1 DEF Inv, DposComplete
<1>18. ChainsKnown'
  <2>1. ASSUME NEW e \in Range(inserts') PROVE Ancestors(e) \subseteq known'
    <3>1. inserts' # <<>>
      BY <1>5
    <3> QED
      BY <1>12, <1>13, <3>1
  <2> QED
    BY <1>2, <1>11, <2>1 DEF Inv, ChainsKnown
<1>19. HeadBelowStored'
  <2> SUFFICES ASSUME NEW e \in Ancestors(stored.block), HasState(e)',
                      Len(e) > Len(current.block)
               PROVE  e \in Range(inserts')
    BY <1>2 DEF Inv, HeadBelowStored
  <2>1. e = b
    BY <1>3, <1>5 DEF Inv, HeadBelowStored
  <2>2. ~Stays /\ ~Unlinked
    BY <1>4, <1>5, <1>8, <2>1 DEF Stays
  <2>3. PICK k \in 0 .. Len(b) : Switches(k)
    BY <1>6, <2>2
  <2>4. k < Len(b)
    <3>1. k = Len(b) => b = current.block
      BY <2>3 DEF Switches
    <3> QED
      BY <1>4, <1>5, <2>1, <3>1
  <2> QED
    BY <1>9, <2>1, <2>3, <2>4 DEF Switches
<1>20. InsertsSwitch'
  <2>1. CASE inserts' = <<>> /\ obsolete' = {}
    <3>1. (inserts = <<>> /\ obsolete = {} /\ current.block \in Blocks)'
      BY <1>2, <1>4, <2>1
    <3> QED
      BY <3>1, NothingToSwitch, PTL
  <2>2. ASSUME NEW k \in 0 .. Len(b), Switches(k) PROVE InsertsSwitch'
    <3>1. inserts' = <<>> => obsolete' = {}
      BY <1>9, <2>2 DEF Switches
    <3>2. \/ TornWrites \/ obsolete' = {}
          \/ k < Len(b) /\ canonical[k + 1] # Ancestor(b, k + 1)
      <4> SUFFICES ASSUME ~TornWrites, obsolete' # {}
                   PROVE  k < Len(b) /\ canonical[k + 1] # Ancestor(b, k + 1)
        BY Zenon
      <4>1. k < Len(b) /\ k < Len(current.block) /\ k \in Nat
        <5>1. /\ k \in 0 .. Len(current.block)
              /\ k = Len(current.block) => obsolete' = {}
              /\ k = Len(b) => b = current.block
          BY <2>2 DEF Switches
        <5> QED
          BY <1>4, <1>5, <5>1
      <4>2. k + 1 \in 0 .. Len(current.block) /\ k + 1 \in k + 1 .. Len(b)
        BY <1>4, <1>5, <4>1
      <4>3. canonical[k + 1] = Ancestor(current.block, k + 1)
        BY <1>4, <4>2 DEF Follows
      <4>4. canonical[k + 1] \in Ancestors(current.block)
        BY <1>4, <4>2, <4>3, AncestorIsBlock
      <4> QED
        BY <2>2, <4>1, <4>2, <4>4 DEF Switches
    <3>3. Switching(b, k)'
      BY <1>2, <1>3, <2>2, <3>2, Zenon DEF Switching, Switches
    <3> QED
      BY <1>1, <3>1, <3>3 DEF InsertsSwitch
  <2> QED
    BY <1>6, <2>1, <2>2
<1>21. IndexFollowsStored'
  BY <1>2 DEF Inv, IndexFollowsStored, Follows, Finds
<1>22. NeverCut'
  <2> SUFFICES ASSUME Rewinds = {}
               PROVE  inserts' = <<>> => HasState(current.block)'
    BY <1>1, <1>2 DEF NeverCut
  <2>1. ~Unlinked
    BY <1>8
  <2>2. PICK c : c = current.block
    OBVIOUS
  <2>3. ASSUME Stays PROVE HasState(c)'
    <3>1. HasState(c)
      BY <2>2 DEF Inv, NeverCut
    <3>2. Len(c) > Len(b) - TriesInMemory
      BY <1>4, <1>5, <2>2, <2>3 DEF Stays
    <3> QED
      BY <1>3, <1>4, <2>2, <3>1, <3>2
  <2>4. ASSUME NEW k \in 0 .. Len(b), Switches(k), inserts' = <<>> PROVE c = b
    BY <1>9, <2>2, <2>4 DEF Switches
  <2>5. inserts' = <<>> => HasState(c)'
    BY <1>3, <1>6, <2>1, <2>3, <2>4
  <2> QED
    BY <1>2, <2>2, <2>5 DEF HasState
<1>23. IndexCoversStates'
  <2> SUFFICES ASSUME Rewinds = {}, ~TornWrites
               PROVE  /\ ~Archive => /\ \A e \in onDisk' : Filled(e)'
                                     /\ \A e \in InMemory' : Filled(e)' \/ e \in Range(inserts')
                      /\ CleanStopKeepsHead' /\ ImportsNeverPanic'
    BY DEF IndexCoversStates
  <2>1. CleanStopKeepsHead' /\ ImportsNeverPanic'
    BY <1>2 DEF CleanStopKeepsHead, ImportsNeverPanic
  <2>2. \A e : Filled(e)' <=> Filled(e)
    BY <1>2 DEF Filled
  <2>3. ~Archive => \A e : HasState(e) => Filled(e)
    BY <1>5 DEF Inv, IndexCoversStates, HasState
  <2>4. ASSUME Len(b) <= Len(current.block) PROVE Filled(b)
    <3> SUFFICES ASSUME NEW m \in 1 .. Len(b) PROVE canonical[m] # None
      BY DEF Filled
    <3>1. m \in 0 .. Len(current.block)
      BY <1>4, <1>5, <2>4
    <3>2. canonical[m] = Ancestor(current.block, m) /\ Ancestor(current.block, m) \in Blocks
      BY <1>4, <3>1, AncestorIsBlock DEF Follows
    <3> QED
      BY <3>2, BlocksAssumption
  <2>5. Filled(b) \/ b \in Range(inserts')
    <3>1. ASSUME Stays PROVE Filled(b)
      BY <2>4, <3>1 DEF Stays
    <3>2. ASSUME NEW k \in 0 .. Len(b), Switches(k) PROVE Filled(b) \/ b \in Range(inserts')
      <4>1. CASE k < Len(b)
        BY <1>9, <3>2, <4>1 DEF Switches
      <4>2. CASE ~(k < Len(b))
        <5>1. k = Len(b)
          BY <1>5, <4>2
        <5>2. b = current.block
          BY <3>2, <5>1 DEF Switches
        <5> QED
          BY <1>5, <2>4, <5>2
      <4> QED
        BY <4>1, <4>2
    <3> QED
      BY <1>6, <1>8, <3>1, <3>2
  <2>6. ASSUME ~Archive, NEW e \in onDisk' PROVE Filled(e)'
    BY <1>3, <2>2, <2>3, <2>6 DEF HasState
  <2>7. ASSUME ~Archive, NEW e \in InMemory' PROVE Filled(e)' \/ e \in Range(inserts')
    <3>1. HasState(e)'
      BY StatesNext DEF InMemory
    <3> QED
      BY <1>3, <2>2, <2>3, <2>5, <2>7, <3>1
  <2> QED
    BY <2>1, <2>6, <2>7
<1> QED
  BY <1>14, <1>15, <1>16, <1>17, <1>18, <1>19, <1>20, <1>21, <1>22, <1>23 DEF Inv

(* One round of insertChain.                                               *)
LEMMA ProcessInv == Inv /\ Process => Inv'
<1> SUFFICES ASSUME Inv, Process PROVE Inv'
  OBVIOUS
<1>0. PICK b : b = Head(work)
  OBVIOUS
<1> DEFINE opened == Parent(b) \in dpos /\ HasState(Parent(b))
<1>1. /\ status = "up" /\ inserts = <<>> /\ work # <<>>
      /\ \/ opened /\ ~NoHeaderToPrune(b) /\ WriteBlockWithState(b)
         \/ /\ opened /\ NoHeaderToPrune(b) /\ known' = known \cup {b} /\ Die("panic")
            /\ UNCHANGED <<canonical, stored, current, lookup, onDisk, dpos>>
         \/ /\ ~opened /\ work' = <<>>
            /\ UNCHANGED <<known, canonical, stored, current, lookup, triegc,
                           onDisk, dpos, inserts, obsolete, status>>
  BY <1>0 DEF Process
<1>2. /\ b \in Blocks /\ b # Genesis /\ Parent(b) \in known
      /\ Rewinds = {} => \A e \in known \cup {b} : Ancestors(e) \subseteq known \cup {b}
  BY <1>0, <1>1, HeadOfWork
<1>3. known \subseteq Blocks /\ onDisk \subseteq Blocks
  BY DEF Inv, TypeOK
<1>4. CASE opened /\ ~NoHeaderToPrune(b) /\ WriteBlockWithState(b)
  BY <1>0, <1>1, <1>4, WriteInv
<1>5. CASE /\ opened /\ NoHeaderToPrune(b) /\ known' = known \cup {b} /\ Die("panic")
           /\ UNCHANGED <<canonical, stored, current, lookup, onDisk, dpos>>
  <2>1. ~(Rewinds = {} /\ ~TornWrites)
    <3> SUFFICES ASSUME Rewinds = {}, ~TornWrites PROVE FALSE
      OBVIOUS
    <3>1. /\ ~Archive /\ Len(b) > TriesInMemory
          /\ canonical[Len(b) - TriesInMemory] = None
      BY <1>5 DEF NoHeaderToPrune
    <3>2. Filled(Parent(b))
      <4>1. Range(inserts) = {}
        BY <1>1 DEF Range
      <4> QED
        BY <1>5, <3>1, <4>1 DEF Inv, IndexCoversStates, HasState
    <3>3. Len(b) - TriesInMemory \in 1 .. Len(Parent(b))
      BY <1>2, <3>1, ParentChain, StoreAssumption, BlockIsSeq
    <3> QED
      BY <3>1, <3>2, <3>3 DEF Filled
  <2>2. known' \subseteq Blocks /\ known \subseteq known'
    BY <1>2, <1>3, <1>5
  <2> QED
    BY <1>1, <1>2, <1>3, <1>5, <2>1, <2>2, DieStep
<1>6. CASE /\ ~opened /\ work' = <<>>
           /\ UNCHANGED <<known, canonical, stored, current, lookup, triegc,
                          onDisk, dpos, inserts, obsolete, status>>
  <2>1. Range(work') = {} /\ work' \in Seq(Blocks)
    BY <1>6 DEF Range
  <2>2. Rewinds = {} => \A e \in known : Ancestors(e) \subseteq known
    BY DEF Inv, NeverCut
  <2> QED
    BY <1>1, <1>3, <1>6, <2>1, <2>2, QuietStep
<1> QED
  BY <1>1, <1>4, <1>5, <1>6

(* Every step keeps the invariant.                                         *)
LEMMA StepInv == Inv /\ [Next]_vars => Inv'
<1>1. Inv /\ UNCHANGED vars => Inv'
  <2> SUFFICES ASSUME Inv, UNCHANGED vars PROVE Inv'
    OBVIOUS
  <2>1. TypeOK' /\ NothingInMemory' /\ Rooted' /\ DposComplete' /\ ChainsKnown'
    BY DEF vars, Inv, TypeOK, NothingInMemory, Rooted, DposComplete, ChainsKnown
  <2>2. HeadBelowStored' /\ InsertsSwitch' /\ NeverCut'
    BY DEF vars, Inv, HeadBelowStored, InsertsSwitch, Switching, NeverCut, HasState, InMemory
  <2>3. IndexFollowsStored' /\ (Rewinds = {} /\ ~TornWrites => ImportsNeverPanic')
    BY Zenon DEF vars, Inv, IndexFollowsStored, Follows, Finds, IndexCoversStates, ImportsNeverPanic
  <2>4. CleanStopKeepsHead' <=> CleanStopKeepsHead
    BY DEF vars, CleanStopKeepsHead, Repaired
  <2>5. IndexCoversStates'
    BY <2>3, <2>4 DEF vars, Inv, IndexCoversStates, Filled, InMemory
  <2> QED
    BY <2>1, <2>2, <2>3, <2>5 DEF Inv
<1> QED
  BY <1>1, InsertChainInv, ProcessInv, InsertInv, StopInv, CrashInv, CrashWritingInv,
     CrashInsertingInv, StartInv, RewindInv DEF Next

(* The invariant holds of every behaviour.                                 *)
LEMMA InvHolds == Spec => []Inv
BY InitInv, StepInv, PTL DEF Spec

-----------------------------------------------------------------------------
(* RestartsSafely holds in every behaviour.                                *)
THEOREM StoreRestartsSafely == Spec => []RestartsSafely
<1>1. Inv => RestartsSafely
  <2> SUFFICES ASSUME Inv PROVE RestartsSafely
    OBVIOUS
  <2>1. TypeOK
    BY DEF Inv
  <2>2. Rewinds = {} => HeadIsUsable
    <3> SUFFICES ASSUME Rewinds = {}, status = "up", inserts = <<>>
                 PROVE  HasBlockAndState(current.block) /\ current.block \in dpos
      BY DEF HeadIsUsable
    <3>1. current.block \in known /\ current.block \in dpos
      BY HeadIs, OwnAncestor
    <3>2. HasState(current.block)
      BY DEF Inv, NeverCut
    <3> QED
      BY <3>1, <3>2 DEF HasBlockAndState
  <2>3. Rewinds = {} /\ ~TornWrites => CleanStopKeepsHead /\ ImportsNeverPanic
    BY DEF Inv, IndexCoversStates
  <2> QED
    BY <2>1, <2>2, <2>3 DEF RestartsSafely
<1> QED
  BY <1>1, InvHolds, PTL

(* ChainIsIndexed holds in every behaviour.                                *)
THEOREM StoreIsIndexed == Spec => []ChainIsIndexed
<1>1. Inv => ChainIsIndexed
  <2> SUFFICES ASSUME Inv, ~TornWrites PROVE IndexFollowsHead /\ LookupsFindCanonicalTxs
    BY DEF ChainIsIndexed
  <2>1. status = "up" => Follows(current.block) /\ Finds(current.block)
    BY HeadIs
  <2> QED
    BY <2>1 DEF IndexFollowsHead, LookupsFindCanonicalTxs, Idle, Follows, Finds
<1> QED
  BY <1>1, InvHolds, PTL

-----------------------------------------------------------------------------
(* The refinement of CanonicalChain, while no insert is torn: the visible  *)
(* chain is then the chain of one block.                                   *)
ChainOf(b) == [n \in 1 .. Len(b) |-> Ancestor(b, n)]

VisibleHead == IF status = "up" THEN current.block ELSE Repaired(stored.block)

(* The chain a reader sees is that of one block, the head or what a        *)
(* restart would make the head.                                            *)
LEMMA VisibleIs ==
  Inv /\ ~TornWrites => /\ VisibleHead \in Blocks /\ VisibleHead \in Ancestors(stored.block)
                        /\ stored.block \in Blocks
                        /\ status # "up" => VisibleHead \in onDisk
                        /\ VisibleChain = ChainOf(VisibleHead)
<1> SUFFICES ASSUME Inv, ~TornWrites
             PROVE  /\ VisibleHead \in Blocks /\ VisibleHead \in Ancestors(stored.block)
                    /\ stored.block \in Blocks
                    /\ status # "up" => VisibleHead \in onDisk
                    /\ VisibleChain = ChainOf(VisibleHead)
  BY Zenon
<1>1. stored.block \in Blocks /\ Genesis \in onDisk
  BY DEF Inv, TypeOK, Rooted
<1>2. VisibleHead \in Ancestors(stored.block)
  BY <1>1, HeadIs, RepairedIs, HighestIs DEF VisibleHead
<1>3. status # "up" => VisibleHead \in onDisk
  BY <1>1, RepairedIs, HighestIs DEF VisibleHead
<1>4. /\ VisibleHead \in Blocks /\ Len(VisibleHead) \in 0 .. Len(stored.block)
      /\ \A m \in 0 .. Len(VisibleHead) : Ancestor(VisibleHead, m) = Ancestor(stored.block, m)
      /\ Len(VisibleHead) \in Nat /\ Len(stored.block) \in Nat
  BY <1>1, <1>2, AncestorsAreChain, BlockIsSeq
<1>5. Follows(stored.block)
  BY DEF Inv, IndexFollowsStored
<1>6. ASSUME NEW n \in 1 .. Len(VisibleHead) PROVE canonical[n] = Ancestor(VisibleHead, n)
  <2>1. n \in 0 .. Len(VisibleHead) /\ n \in 0 .. Len(stored.block)
    BY <1>4
  <2> QED
    BY <1>4, <1>5, <2>1 DEF Follows
<1>7. VisibleChain = [n \in 1 .. Len(VisibleHead) |-> canonical[n]]
  BY DEF VisibleChain, VisibleHead
<1>8. VisibleChain = ChainOf(VisibleHead)
  BY <1>6, <1>7 DEF ChainOf
<1> QED
  BY <1>1, <1>2, <1>3, <1>4, <1>8

(* The chain of a block has the block's ancestors.                         *)
LEMMA ChainOfIs ==
  ASSUME NEW b \in Blocks
  PROVE  /\ ChainOf(b) \in Seq(Blocks) /\ Len(ChainOf(b)) = Len(b) /\ Len(b) \in Nat
         /\ \A n \in 1 .. Len(b) : ChainOf(b)[n] = Ancestor(b, n)
<1>1. Len(b) \in Nat /\ \A n \in 1 .. Len(b) : Ancestor(b, n) \in Blocks
  BY BlockIsSeq, AncestorIsBlock
<1> QED
  BY <1>1 DEF ChainOf

(* The chain of an ancestor is a cut of the chain.                         *)
LEMMA ChainCut ==
  ASSUME NEW b \in Blocks, NEW e \in Ancestors(b)
  PROVE  ChainOf(e) = SubSeq(ChainOf(b), 1, Len(e)) /\ Len(e) \in 0 .. Len(b)
<1>1. /\ e \in Blocks /\ Len(e) \in 0 .. Len(b) /\ Len(b) \in Nat
      /\ \A m \in 0 .. Len(e) : Ancestor(e, m) = Ancestor(b, m)
  BY AncestorsAreChain, BlockIsSeq
<1>2. /\ ChainOf(b) \in Seq(Blocks) /\ Len(ChainOf(b)) = Len(b)
      /\ \A n \in 1 .. Len(b) : ChainOf(b)[n] = Ancestor(b, n)
      /\ ChainOf(e) \in Seq(Blocks) /\ Len(ChainOf(e)) = Len(e)
      /\ \A n \in 1 .. Len(e) : ChainOf(e)[n] = Ancestor(e, n)
  BY <1>1, ChainOfIs
<1> DEFINE s == SubSeq(ChainOf(b), 1, Len(e))
<1>3. \A i \in 1 .. Len(e) : ChainOf(b)[i] \in Blocks
  BY <1>1, <1>2
<1>4. s \in Seq(Blocks) /\ Len(s) = Len(e) /\ \A i \in 1 .. Len(e) : s[i] = ChainOf(b)[i]
  BY <1>1, <1>2, <1>3
<1> HIDE DEF s
<1>5. \A i \in 1 .. Len(e) : s[i] = ChainOf(e)[i]
  BY <1>1, <1>2, <1>4
<1>6. s = ChainOf(e)
  BY <1>2, <1>4, <1>5, SameSeq, Zenon
<1> QED
  BY <1>1, <1>6 DEF s

(* The blocks of a branch, put after the chain it leaves, are a chain.     *)
LEMMA ChainAdopts ==
  ASSUME NEW old \in Blocks, NEW tip \in Blocks, NEW k \in 0 .. Len(tip), k \in 0 .. Len(old),
         \A m \in 0 .. k : Ancestor(tip, m) = Ancestor(old, m),
         NEW j \in 1 .. Len(tip) - k
  PROVE  /\ SubSeq(ChainOf(old), 1, k) \o SubSeq(Branch(tip, k), 1, j)
              = ChainOf(Ancestor(tip, k + j))
         /\ k + j \in 0 .. Len(tip) /\ Branch(tip, k)[j] = Ancestor(tip, k + j)
<1>1. Len(old) \in Nat /\ Len(tip) \in Nat /\ k \in Nat /\ k + j \in 0 .. Len(tip) /\ j \in Nat
  BY BlockIsSeq
<1> DEFINE e == Ancestor(tip, k + j)
           s == SubSeq(ChainOf(old), 1, k)
           t == SubSeq(Branch(tip, k), 1, j)
<1>2. /\ e \in Blocks /\ Len(e) = k + j
      /\ \A m \in 0 .. k + j : Ancestor(e, m) = Ancestor(tip, m)
  BY <1>1, AncestorIsBlock, AncestorOfAncestor
<1>3. /\ ChainOf(old) \in Seq(Blocks) /\ Len(ChainOf(old)) = Len(old)
      /\ \A n \in 1 .. Len(old) : ChainOf(old)[n] = Ancestor(old, n)
      /\ ChainOf(e) \in Seq(Blocks) /\ Len(ChainOf(e)) = k + j
      /\ \A n \in 1 .. k + j : ChainOf(e)[n] = Ancestor(e, n)
  BY <1>2, ChainOfIs
<1>4. /\ Branch(tip, k) \in Seq(Blocks) /\ Len(Branch(tip, k)) = Len(tip) - k
      /\ \A i \in 1 .. Len(tip) - k : Branch(tip, k)[i] = Ancestor(tip, k + i)
  BY BranchIsChain, Zenon DEF Branch
<1>5. s \in Seq(Blocks) /\ Len(s) = k /\ \A i \in 1 .. k : s[i] = ChainOf(old)[i]
  <2>1. \A i \in 1 .. k : ChainOf(old)[i] \in Blocks
    BY <1>1, <1>3
  <2> QED
    BY <1>1, <2>1
<1>6. t \in Seq(Blocks) /\ Len(t) = j /\ \A i \in 1 .. j : t[i] = Branch(tip, k)[i]
  <2>1. \A i \in 1 .. j : Branch(tip, k)[i] \in Blocks
    BY <1>1, <1>4
  <2> QED
    BY <1>1, <2>1
<1> HIDE DEF e, s, t
<1>7. /\ s \o t \in Seq(Blocks) /\ Len(s \o t) = k + j
      /\ \A i \in 1 .. k + j : (s \o t)[i] = IF i <= k THEN s[i] ELSE t[i - k]
  BY <1>1, <1>5, <1>6
<1>8. ASSUME NEW i \in 1 .. k + j PROVE (s \o t)[i] = ChainOf(e)[i]
  <2>1. ChainOf(e)[i] = Ancestor(tip, i)
    BY <1>1, <1>2, <1>3
  <2>2. CASE i <= k
    <3>1. i \in 1 .. k /\ i \in 0 .. k /\ i \in 1 .. Len(old)
      BY <1>1, <2>2
    <3> QED
      BY <1>3, <1>5, <1>7, <2>1, <2>2, <3>1, Zenon
  <2>3. CASE ~(i <= k)
    <3>1. i - k \in 1 .. j /\ i - k \in 1 .. Len(tip) - k /\ k + (i - k) = i
      BY <1>1, <2>3
    <3>2. t[i - k] = Ancestor(tip, i)
      BY <1>4, <1>6, <3>1
    <3> QED
      BY <1>7, <2>1, <2>3, <3>2
  <2> QED
    BY <2>2, <2>3, Zenon
<1>9. s \o t = ChainOf(e)
  BY <1>3, <1>7, <1>8, SameSeq, Zenon
<1> QED
  BY <1>1, <1>4, <1>9 DEF e, s, t

(* The same of the next state.                                             *)
LEMMA VisibleNext ==
  ASSUME Inv', ~TornWrites
  PROVE  /\ VisibleHead' \in Blocks /\ VisibleHead' \in Ancestors(stored'.block)
         /\ status' # "up" => VisibleHead' \in onDisk'
         /\ VisibleChain' = ChainOf(VisibleHead')
<1>1. (Inv /\ ~TornWrites)'
  OBVIOUS
<1>2. (/\ VisibleHead \in Blocks /\ VisibleHead \in Ancestors(stored.block)
       /\ stored.block \in Blocks
       /\ status # "up" => VisibleHead \in onDisk
       /\ VisibleChain = ChainOf(VisibleHead))'
  BY <1>1, VisibleIs, PTL
<1> QED
  BY <1>2 DEF ChainOf, Ancestors, Ancestor

(* A step that leaves no insert, with the head at an ancestor of what it   *)
(* was or at a block that was being inserted, is a cut.                    *)
LEMMA CutStep ==
  ASSUME Inv, Inv', ~TornWrites, status = "up", inserts' = <<>>,
         VisibleHead' \in Ancestors(current.block) \/ VisibleHead' \in Range(inserts)
  PROVE  Abstract!Cut
<1>1. PICK e : e = VisibleHead'
  OBVIOUS
<1>2. PICK cur : cur = current.block
  OBVIOUS
<1>3. e \in Blocks /\ VisibleChain' = ChainOf(e)
  BY <1>1, VisibleNext
<1>4. cur \in Blocks /\ VisibleChain = ChainOf(cur) /\ Len(cur) \in Nat /\ Len(e) \in Nat
  BY <1>2, <1>3, VisibleIs, BlockIsSeq DEF VisibleHead
<1>5. Len(ChainOf(e)) = Len(e) /\ ChainOf(e) = SubSeq(ChainOf(e), 1, Len(e))
  BY <1>3, ChainOfIs, ChainCut, OwnAncestor
<1>6. CASE e \in Ancestors(cur)
  <2>1. ChainOf(e) = SubSeq(ChainOf(cur), 1, Len(e)) /\ Len(e) \in 0 .. Len(ChainOf(cur))
    BY <1>4, <1>6, ChainCut, ChainOfIs
  <2>2. Abstract!Adopted(0) = ChainOf(cur)
    BY <1>4 DEF Abstract!Adopted
  <2>3. 0 \in 0 .. Len(inserts)
    BY DEF Inv, TypeOK
  <2>4. \E m \in 0 .. Len(Abstract!Adopted(0)) : VisibleChain' = SubSeq(Abstract!Adopted(0), 1, m)
    BY <1>3, <2>1, <2>2
  <2> QED
    BY <2>3, <2>4 DEF Abstract!Cut
<1>7. CASE e \in Range(inserts)
  <2>1. PICK j \in 1 .. Len(inserts) : e = inserts[j]
    BY <1>7 DEF Range
  <2>2. inserts \in Seq(Blocks) /\ inserts # <<>> /\ Len(inserts) \in Nat
    BY <2>1 DEF Inv, TypeOK
  <2>3. PICK tip \in Blocks : \E k \in 0 .. Len(tip) :
          /\ Switching(tip, k) /\ k \in Nat /\ k \in 0 .. Len(cur)
          /\ \A m \in 0 .. k : Ancestor(tip, m) = Ancestor(cur, m)
          /\ Len(inserts) = Len(tip) - k /\ Len(Head(inserts)) = k + 1
    BY <1>2, <2>2, InsertIs
  <2>4. PICK k \in 0 .. Len(tip) :
          /\ Switching(tip, k) /\ k \in Nat /\ k \in 0 .. Len(cur)
          /\ \A m \in 0 .. k : Ancestor(tip, m) = Ancestor(cur, m)
          /\ Len(inserts) = Len(tip) - k /\ Len(Head(inserts)) = k + 1
    BY <2>3
  <2>5. inserts = Branch(tip, k) /\ j \in 1 .. Len(tip) - k
    BY <2>4 DEF Switching
  <2>6. SubSeq(ChainOf(cur), 1, k) \o SubSeq(inserts, 1, j) = ChainOf(e)
    <3>1. /\ SubSeq(ChainOf(cur), 1, k) \o SubSeq(Branch(tip, k), 1, j)
                = ChainOf(Ancestor(tip, k + j))
          /\ Branch(tip, k)[j] = Ancestor(tip, k + j)
      BY <1>4, <2>4, <2>5, ChainAdopts, Zenon
    <3> QED
      BY <2>1, <2>5, <3>1, Zenon
  <2>7. Len(inserts[1]) - 1 = k /\ j # 0 /\ j \in 0 .. Len(inserts)
    BY <2>2, <2>4
  <2>8. Abstract!Adopted(j) = ChainOf(e)
    BY <1>4, <2>6, <2>7, Zenon DEF Abstract!Adopted
  <2>9. \E m \in 0 .. Len(Abstract!Adopted(j)) : VisibleChain' = SubSeq(Abstract!Adopted(j), 1, m)
    <3>1. Len(e) \in 0 .. Len(ChainOf(e)) /\ VisibleChain' = SubSeq(ChainOf(e), 1, Len(e))
      BY <1>3, <1>4, <1>5
    <3> QED
      BY <2>8, <3>1, Zenon
  <2> QED
    BY <2>7, <2>9 DEF Abstract!Cut
<1> QED
  BY <1>1, <1>2, <1>6, <1>7

(* A process that ends is one, whatever it had committed of what it held.  *)
LEMMA DieCuts ==
  ASSUME Inv, Inv', ~TornWrites, status = "up", status' # "up", inserts' = <<>>,
         UNCHANGED stored,
         \A e \in Ancestors(stored.block) :
           e \in onDisk' => HasState(e) \/ Len(e) <= Len(current.block)
  PROVE  Abstract!Cut
<1>1. PICK e : e = VisibleHead'
  OBVIOUS
<1>2. e \in Ancestors(stored.block) /\ (HasState(e) \/ Len(e) <= Len(current.block))
  BY <1>1, VisibleNext
<1>3. CASE Len(e) <= Len(current.block)
  <2>1. /\ stored.block \in Blocks /\ current.block \in Ancestors(stored.block)
        /\ current.block \in Blocks
    BY HeadIs
  <2>2. /\ e \in Blocks /\ Len(e) \in Nat /\ Len(current.block) \in Nat
        /\ e = Ancestor(stored.block, Len(e))
        /\ \A m \in 0 .. Len(current.block) : Ancestor(current.block, m) = Ancestor(stored.block, m)
    BY <1>2, <2>1, AncestorsAreChain, BlockIsSeq
  <2>3. Len(e) \in 0 .. Len(current.block) /\ e = Ancestor(current.block, Len(e))
    BY <1>3, <2>2
  <2>4. e \in Ancestors(current.block)
    BY <2>3 DEF Ancestors
  <2> QED
    BY <1>1, <2>4, CutStep
<1>4. CASE ~(Len(e) <= Len(current.block))
  <2>1. Len(e) > Len(current.block)
    BY <1>2, <1>4, HeadIs, AncestorsAreChain, BlockIsSeq
  <2>2. e \in Range(inserts)
    BY <1>2, <1>4, <2>1 DEF Inv, HeadBelowStored
  <2> QED
    BY <1>1, <2>2, CutStep
<1> QED
  BY <1>3, <1>4

(* A step that moves neither the head nor the inserts changes nothing.     *)
LEMMA StayStep ==
  ASSUME Inv, Inv', ~TornWrites, inserts' = inserts, VisibleHead' = VisibleHead
  PROVE  UNCHANGED Abstract!vars
<1>1. VisibleChain' = ChainOf(VisibleHead') /\ VisibleChain = ChainOf(VisibleHead)
  BY VisibleNext, VisibleIs
<1> QED
  BY <1>1 DEF Abstract!vars

(* A stop and the crashes cut the chain.                                   *)
LEMMA StopMaps ==
  ASSUME Inv, Inv', ~TornWrites, Stop \/ Crash \/ CrashWriting
  PROVE  Abstract!Cut
<1>1. CASE Stop
  <2>1. onDisk' \subseteq onDisk \cup InMemory
    BY <1>1 DEF Stop
  <2> QED
    BY <1>1, <2>1, DieCuts DEF Stop, Die, HasState
<1>2. CASE Crash
  BY <1>2, DieCuts DEF Crash, Die, HasState
<1>3. CASE CrashWriting
  <2>1. /\ status = "up" /\ status' # "up" /\ inserts = <<>> /\ inserts' = <<>>
        /\ UNCHANGED stored
        /\ onDisk' = IF Archive THEN onDisk \cup {Head(work)} ELSE onDisk
    BY <1>3 DEF CrashWriting, Die
  <2>2. ASSUME NEW e \in Ancestors(stored.block), Archive PROVE Len(e) <= Len(current.block)
    <3>1. stored.block \in Blocks /\ current.block \in Blocks /\ Len(current.block) \in Nat
      BY <2>1, HeadIs
    <3>2. e \in Blocks /\ Len(e) \in Nat
      BY <3>1, AncestorsAreChain, BlockIsSeq
    <3>3. e \in onDisk
      BY <2>2, <3>1 DEF Inv, DposComplete
    <3>4. ~(Len(e) > Len(current.block))
      BY <2>1, <3>3 DEF Inv, HeadBelowStored, HasState, Range
    <3> QED
      BY <3>1, <3>2, <3>4
  <2> QED
    BY <2>1, <2>2, DieCuts DEF HasState
<1> QED
  BY <1>1, <1>2, <1>3

(* A restart shows the chain that was visible before it.                   *)
LEMMA StartMaps ==
  ASSUME Inv, Inv', ~TornWrites, Start
  PROVE  UNCHANGED Abstract!vars
<1>1. status # "up" /\ status' = "up" /\ inserts' = inserts
  BY DEF Start
<1>2. current'.block = Repaired(stored.block)
  BY StartIs
<1> QED
  BY <1>1, <1>2, StayStep DEF VisibleHead

(* An insert adopts the next block of the branch.                          *)
LEMMA InsertMaps ==
  ASSUME Inv, Inv', ~TornWrites, Insert
  PROVE  Abstract!Adopt
<1>1. PICK b : b = Head(inserts)
  OBVIOUS
<1>2. PICK cur : cur = current.block
  OBVIOUS
<1>3. /\ status = "up" /\ status' = "up" /\ inserts # <<>> /\ inserts' = Tail(inserts)
      /\ current' = Moved(current, b) /\ inserts \in Seq(Blocks)
  BY <1>1 DEF Insert, Inv, TypeOK
<1>4. PICK tip \in Blocks : \E k \in 0 .. Len(tip) :
        /\ Switching(tip, k) /\ k < Len(tip) /\ k \in Nat /\ k \in 0 .. Len(cur)
        /\ \A m \in 0 .. k : Ancestor(tip, m) = Ancestor(cur, m)
        /\ b = Ancestor(tip, k + 1) /\ b \in Blocks /\ Len(b) = k + 1
  BY <1>1, <1>2, <1>3, InsertIs
<1>5. PICK k \in 0 .. Len(tip) :
        /\ Switching(tip, k) /\ k < Len(tip) /\ k \in Nat /\ k \in 0 .. Len(cur)
        /\ \A m \in 0 .. k : Ancestor(tip, m) = Ancestor(cur, m)
        /\ b = Ancestor(tip, k + 1) /\ b \in Blocks /\ Len(b) = k + 1
  BY <1>4
<1>6. current'.block = b
  BY <1>3, <1>5, MovedIs DEF Inv, TypeOK
<1>7. VisibleChain' = ChainOf(b)
  BY <1>3, <1>6, VisibleNext DEF VisibleHead
<1>8. cur \in Blocks /\ VisibleChain = ChainOf(cur)
  BY <1>2, <1>3, VisibleIs DEF VisibleHead
<1>9. inserts = Branch(tip, k) /\ 1 \in 1 .. Len(tip) - k
  BY <1>5, BlockIsSeq DEF Switching
<1>10. SubSeq(ChainOf(cur), 1, k) \o SubSeq(Branch(tip, k), 1, 1) = ChainOf(Ancestor(tip, k + 1))
  BY <1>5, <1>8, <1>9, ChainAdopts, Zenon
<1>11. Len(inserts[1]) - 1 = k
  BY <1>1, <1>3, <1>5
<1>12. Abstract!Adopted(1) = ChainOf(b)
  <2>1. Abstract!Adopted(1) = SubSeq(VisibleChain, 1, Len(inserts[1]) - 1) \o SubSeq(inserts, 1, 1)
    BY DEF Abstract!Adopted
  <2> QED
    BY <1>5, <1>8, <1>9, <1>10, <1>11, <2>1, Zenon
<1> QED
  BY <1>3, <1>7, <1>12 DEF Abstract!Adopt

(* SetHead cuts: on the header's chain too, a block no higher than the     *)
(* head is the head's ancestor, since the index names one block a number.  *)
LEMMA RewindMaps ==
  ASSUME Inv, Inv', ~TornWrites, Rewind
  PROVE  Abstract!Cut
<1>1. PICK n \in Rewinds : SetHead(n)
  BY DEF Rewind
<1>2. status = "up" /\ status' = "up" /\ inserts = <<>> /\ inserts' = <<>>
  BY <1>1 DEF SetHead, Idle
<1>3. PICK e : e = current'.block
  OBVIOUS
<1>4. /\ stored.block \in Blocks /\ stored.header \in Blocks /\ current.block \in Blocks
      /\ Follows(current.block) /\ current.header = stored.header
  BY <1>2, HeadIs
<1>5. Follows(stored.header)
  BY DEF Inv, IndexFollowsStored
<1>6. e \in Ancestors(current.block) \cup Ancestors(stored.header)
  BY <1>1, <1>3, SetHeadIs
<1>7. Len(e) <= Len(current.block)
  <2>1. Len(current.block) \in Nat /\ Len(current.header) \in Nat /\ Len(Genesis) = 0
    BY <1>4, BlockIsSeq, GenesisIs, Zenon
  <2> DEFINE h == current.header
             header == IF Len(h) > n THEN Ancestor(h, n) ELSE h
             below == IF Len(header) < Len(current.block) THEN header ELSE current.block
  <2>2. e = IF HasState(below) THEN below ELSE Genesis
    BY <1>1, <1>3 DEF SetHead
  <2>3. Len(header) \in Nat
    <3>1. CASE Len(h) > n
      BY <1>4, <2>1, <3>1, AncestorIsBlock, StoreAssumption
    <3> QED
      BY <2>1, <3>1
  <2>4. Len(below) <= Len(current.block)
    BY <2>1, <2>3
  <2> HIDE DEF below
  <2> QED
    BY <2>1, <2>2, <2>4
<1>8. e \in Ancestors(current.block)
  <2>1. CASE e \in Ancestors(stored.header)
    <3>1. /\ e \in Blocks /\ Len(e) \in 0 .. Len(stored.header)
          /\ e = Ancestor(stored.header, Len(e)) /\ Len(current.block) \in Nat
      BY <1>4, <2>1, AncestorsAreChain, BlockIsSeq
    <3>2. Len(e) \in 0 .. Len(current.block)
      BY <1>7, <3>1
    <3>3. e = Ancestor(current.block, Len(e))
      BY <1>4, <1>5, <3>1, <3>2 DEF Follows
    <3> QED
      BY <3>2, <3>3, Zenon DEF Ancestors
  <2> QED
    BY <1>6, <2>1
<1>9. VisibleHead' = e
  BY <1>2, <1>3 DEF VisibleHead
<1> QED
  BY <1>2, <1>8, <1>9, CutStep

(* The first round of an import leaves the chain, or ends the process.     *)
LEMMA InsertChainMaps ==
  ASSUME Inv, Inv', ~TornWrites, InsertChain
  PROVE  Abstract!Cut \/ UNCHANGED Abstract!vars
<1>1. status = "up" /\ UNCHANGED <<stored, current, onDisk>>
  BY DEF InsertChain, Idle, Import, WriteBlockWithoutState, ImportPruned
<1>2. CASE inserts' = inserts /\ status' = "up"
  <2>1. VisibleHead' = VisibleHead
    BY <1>1, <1>2 DEF VisibleHead
  <2> QED
    BY <1>2, <2>1, StayStep
<1>3. CASE Die("panic")
  BY <1>1, <1>3, DieCuts DEF Die, HasState
<1> QED
  BY <1>1, <1>2, <1>3 DEF InsertChain, Import, WriteBlockWithoutState, ImportPruned

(* The fork choice of WriteBlockWithState switches, or leaves the chain.   *)
LEMMA WriteMaps ==
  ASSUME Inv, Inv', ~TornWrites, status = "up", inserts = <<>>,
         NEW b \in Blocks, b # Genesis, Parent(b) \in known, WriteBlockWithState(b)
  PROVE  Abstract!Switch \/ UNCHANGED Abstract!vars
<1>1. /\ UNCHANGED <<current, status>>
      /\ \/ Len(b) >= Len(current.block) /\ Reorg(b)
         \/ inserts' = inserts
  BY DEF WriteBlockWithState
<1>2. VisibleHead' = VisibleHead /\ VisibleHead = current.block
  BY <1>1 DEF VisibleHead
<1>3. CASE inserts' = inserts
  BY <1>2, <1>3, StayStep
<1>4. CASE Len(b) >= Len(current.block) /\ Reorg(b) /\ inserts' # inserts
  <2>1. PICK k \in 0 .. Len(b) :
          /\ inserts' = Branch(b, k) /\ k \in 0 .. Len(current.block)
          /\ \A m \in 0 .. k : Ancestor(b, m) = Ancestor(current.block, m)
    BY <1>4, ReorgIs
  <2>2. /\ Len(b) \in Nat /\ current.block \in Blocks /\ Len(current.block) \in Nat
        /\ Len(b) > k
    <3>1. current.block \in Blocks /\ Len(b) \in Nat /\ Len(current.block) \in Nat
      BY HeadIs, BlockIsSeq, Zenon
    <3>2. k # Len(b)
      <4>1. k = Len(b) => Len(Branch(b, k)) = 0
        BY <3>1, BranchIsChain
      <4> QED
        BY <1>4, <2>1, <4>1, BranchIsChain
    <3> QED
      BY <3>1, <3>2, LastOf, Zenon
  <2>3. /\ VisibleChain = ChainOf(current.block) /\ Len(VisibleChain) = Len(current.block)
        /\ \A m \in 1 .. Len(current.block) : VisibleChain[m] = Ancestor(current.block, m)
        /\ VisibleChain' = VisibleChain
    BY <1>2, <2>2, VisibleIs, VisibleNext, ChainOfIs
  <2>4. SubSeq(b, 1, k) = IF k = 0 THEN <<>> ELSE VisibleChain[k]
    <3>1. CASE k = 0
      BY <3>1, AncestorEnds DEF Ancestor, Genesis
    <3>2. CASE k # 0
      <4>1. k \in 1 .. Len(current.block) /\ k \in 0 .. k
        BY <2>1, <3>2
      <4> QED
        BY <2>1, <2>3, <3>2, <4>1, Zenon DEF Ancestor
    <3> QED
      BY <3>1, <3>2
  <2>5. inserts' = [i \in 1 .. Len(b) - k |-> SubSeq(b, 1, k + i)]
    BY <2>1 DEF Branch, Ancestor
  <2>6. k \in 0 .. Len(VisibleChain) /\ Len(b) > k /\ Len(b) >= Len(VisibleChain)
    BY <1>4, <2>1, <2>2, <2>3
  <2> QED
    BY <2>3, <2>4, <2>5, <2>6 DEF Abstract!Switch
<1> QED
  BY <1>1, <1>3, <1>4

(* A further round switches to a branch, leaves the chain, or ends the     *)
(* process.                                                                *)
LEMMA ProcessMaps ==
  ASSUME Inv, Inv', ~TornWrites, Process
  PROVE  Abstract!Switch \/ Abstract!Cut \/ UNCHANGED Abstract!vars
<1>1. PICK b : b = Head(work)
  OBVIOUS
<1>2. status = "up" /\ inserts = <<>> /\ work # <<>>
  BY DEF Process
<1>3. b \in Blocks /\ b # Genesis /\ Parent(b) \in known
  BY <1>1, <1>2, HeadOfWork
<1>4. CASE WriteBlockWithState(b)
  BY <1>2, <1>3, <1>4, WriteMaps
<1>5. CASE Die("panic") /\ UNCHANGED <<stored, onDisk>>
  BY <1>2, <1>5, DieCuts DEF Die, HasState
<1>6. CASE UNCHANGED <<current, inserts, status>>
  <2>1. VisibleHead' = VisibleHead
    BY <1>2, <1>6 DEF VisibleHead
  <2> QED
    BY <1>6, <2>1, StayStep
<1> QED
  BY <1>1, <1>4, <1>5, <1>6 DEF Process

(* Every step is a step of CanonicalChain or leaves its variables.         *)
LEMMA StepMaps ==
  ASSUME ~TornWrites
  PROVE  Inv /\ Inv' /\ [Next]_vars => [Abstract!Next]_(Abstract!vars)
<1> SUFFICES ASSUME Inv, Inv', [Next]_vars
             PROVE  Abstract!Next \/ UNCHANGED Abstract!vars
  OBVIOUS
<1>1. CASE InsertChain
  BY <1>1, InsertChainMaps DEF Abstract!Next
<1>2. CASE Process
  BY <1>2, ProcessMaps DEF Abstract!Next
<1>3. CASE Insert
  BY <1>3, InsertMaps DEF Abstract!Next
<1>4. CASE Stop \/ Crash \/ CrashWriting
  BY <1>4, StopMaps DEF Abstract!Next
<1>5. CASE Start
  BY <1>5, StartMaps
<1>6. CASE Rewind
  BY <1>6, RewindMaps DEF Abstract!Next
<1>7. CASE UNCHANGED vars
  <2>1. VisibleHead' = VisibleHead /\ inserts' = inserts
    BY <1>7 DEF vars, VisibleHead, Repaired
  <2> QED
    BY <2>1, StayStep
<1>8. ~CrashInserting
  BY DEF CrashInserting
<1> QED
  BY <1>1, <1>2, <1>3, <1>4, <1>5, <1>6, <1>7, <1>8 DEF Next

(* Only genesis is there at first: the visible chain is empty.             *)
LEMMA InitMaps == Init => Abstract!Init
<1> SUFFICES ASSUME Init PROVE Abstract!Init
  OBVIOUS
<1>1. status = "up" /\ current.block = Genesis /\ inserts = <<>> /\ Len(Genesis) = 0
  BY GenesisIs DEF Init, Heads
<1>2. VisibleChain = [n \in 1 .. 0 |-> canonical[n]]
  BY <1>1 DEF VisibleChain
<1>3. VisibleChain \in Seq({}) /\ Len(VisibleChain) = 0
  BY <1>2
<1>4. VisibleChain = <<>>
  BY <1>3
<1> QED
  BY <1>1, <1>4 DEF Abstract!Init

(* While no insert is torn by a crash, the block database implements       *)
(* CanonicalChain: through imports, reorganisations, pruning, stops,       *)
(* crashes, restarts and rewinds, the chain its index shows, or would show *)
(* after a restart, is switched to a branch that ends no lower, block by   *)
(* block, or cut, and never rewritten otherwise.                           *)
THEOREM StoreImplementsChain ==
  ASSUME ~TornWrites
  PROVE  Spec => ImplementsCanonicalChain
<1>1. Inv /\ Inv' /\ [Next]_vars => [Abstract!Next]_(Abstract!vars)
  BY StepMaps
<1> QED
  BY <1>1, InitMaps, InvHolds, PTL DEF Spec, ImplementsCanonicalChain, Abstract!Spec
=============================================================================
