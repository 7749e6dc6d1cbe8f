-------------------------- MODULE DposChainProofs --------------------------
(***************************************************************************)
(* Proofs about the chain, for every set of nodes, every timing, every     *)
(* validator list and any number of crashes.                               *)
(*                                                                         *)
(* First what the operations of DposChain do to the blocks and to the      *)
(* state of one node: lemmas about values, without variables.  The         *)
(* invariant of a node, NodeOK, takes the values of the node's variables   *)
(* as arguments, and a lemma says that each operation keeps it.  The       *)
(* inductive invariant of the chain, ChainInv, says that NodeOK holds of   *)
(* every node.  The proof that a step keeps it names the new values of the *)
(* variables and the lemmas about values the step is made of.  The         *)
(* properties of DposChain follow from ChainInv.                           *)
(***************************************************************************)
EXTENDS ConfirmationProofs

-----------------------------------------------------------------------------
(* The invariant of a node.                                                *)

(* What OffSlotBlocksStayHome says of one block in n's database.           *)
HomeOrInSlot(n, b, i) ==
  \/ b[i].validator = n
  \/ /\ lookupValidator(b[i - 1].validators, b[i].time) = b[i].validator
     /\ b[i - 1].time + BlockInterval <= b[i].time

SlotsKept(n, b) == \A i \in 2 .. Len(b) : HomeOrInSlot(n, b, i)

(* loadConfirmedBlockHeader, as a function of confirmed[n] and stored[n].  *)
Loaded(C, S) == IF C # NoBlock THEN C ELSE IF S # NoBlock THEN S ELSE Genesis

(* A chain on which consensusSize validators signed c or built on it.      *)
Witness(c, b) == IsAncestor(c, b) /\ Cardinality(Witnesses(b, Len(c))) >= ConsensusSize

Witnessed(K, c) == c # Genesis => \E b \in K : Witness(c, b)

(* Every prefix of a block with its tries has its tries.                   *)
Complete(T) == \A b \in T : \A i \in 1 .. Len(b) : SubSeq(b, 1, i) \in T

(* What is confirmed in memory is what is stored, or nothing was stored.   *)
StoreKept(C, S) == C = NoBlock \/ C = S \/ (C = Genesis /\ S = NoBlock)

(* A block a node may have written, or be sealing, at time t: the tries of *)
(* its parent are there, and only the node's own may be ahead of the time. *)
BlockOK(n, T, t, b) == /\ b \in Chain /\ Parent(b) \in T /\ SlotsKept(n, b)
                       /\ Header(b).validator = n \/ Header(b).time <= t

(* A node with known = K, tries = T, head = H, confirmed = C, stored = S   *)
(* and task = G, at time t and after x crashes.                            *)
NodeOK(n, K, T, H, C, S, G, t, x) ==
  /\ K \subseteq Chain /\ T \subseteq K /\ H \in T /\ Genesis \in T
  /\ Complete(T)
  /\ x = 0 => \A b \in K : Len(b) <= Len(H)
  /\ \A b \in K : SlotsKept(n, b)
  /\ \A b \in (K \ {Genesis}) \cup G : BlockOK(n, T, t, b)
  /\ C \in K \cup {NoBlock} /\ S \in K \cup {NoBlock}
  /\ StoreKept(C, S)
  /\ Witnessed(K, Loaded(C, S))

(* A block whose parent has its tries can be added to them.                *)
LEMMA CompleteAdd ==
  ASSUME NEW T, T \subseteq BlockType, Complete(T), NEW b \in BlockType, Parent(b) \in T
  PROVE  Complete(T \cup {b})
<1> SUFFICES ASSUME NEW i \in 1 .. Len(b) PROVE SubSeq(b, 1, i) \in T \cup {b}
  BY DEF Complete
<1>1. Len(b) \in Nat /\ Len(Parent(b)) = Len(b) - 1
  BY ParentIs
<1>2. CASE i = Len(b)
  BY <1>2, PrefixFull
<1>3. CASE i # Len(b)
  <2>1. i \in 1 .. Len(b) - 1 /\ i \in 1 .. Len(Parent(b))
    BY <1>1, <1>3
  <2>2. SubSeq(b, 1, i) = SubSeq(Parent(b), 1, i)
    BY <2>1, PrefixOfParent
  <2> QED
    BY <2>1, <2>2, Zenon DEF Complete
<1> QED
  BY <1>2, <1>3

(* WriteBlockWithState keeps the invariant.                                *)
LEMMA WriteOK ==
  ASSUME NEW n, NEW K, NEW T, NEW H, NEW C, NEW S, NEW G, NEW t, NEW x,
         NodeOK(n, K, T, H, C, S, G, t, x),
         NEW b, BlockOK(n, T, t, b), NEW h \in ForkChoice(H, b)
  PROVE  NodeOK(n, K \cup {b}, T \cup {b}, h, C, S, G, t, x)
<1>1. /\ K \subseteq BlockType /\ T \subseteq BlockType /\ b \in BlockType /\ H \in BlockType
      /\ b \in Chain /\ Parent(b) \in T /\ SlotsKept(n, b)
  BY DEF NodeOK, BlockOK, Chain
<1>2. Complete(T \cup {b})
  BY <1>1, CompleteAdd DEF NodeOK
<1>3. /\ h \in T \cup {b}
      /\ x = 0 => \A d \in K \cup {b} : Len(d) <= Len(h)
  <2>1. \A d \in BlockType : Len(d) \in Nat
    BY HeaderTypes
  <2>2. x = 0 => \A d \in K : Len(d) <= Len(H)
    BY DEF NodeOK
  <2>3. h \in {b, H} /\ Len(h) >= Len(H) /\ Len(h) >= Len(b)
    BY <1>1, <2>1 DEF ForkChoice
  <2>4. H \in T
    BY DEF NodeOK
  <2> QED
    BY <1>1, <2>1, <2>2, <2>3, <2>4
<1>4. \A d \in ((K \cup {b}) \ {Genesis}) \cup G : BlockOK(n, T \cup {b}, t, d)
  BY DEF NodeOK, BlockOK
<1>5. Witnessed(K \cup {b}, Loaded(C, S))
  BY DEF NodeOK, Witnessed
<1> QED
  BY <1>1, <1>2, <1>3, <1>4, <1>5, Zenon DEF NodeOK, BlockOK

(* So does a crash inside it, which leaves the head behind, or on one of   *)
(* the blocks inserted.                                                    *)
LEMMA InterruptedOK ==
  ASSUME NEW n, NEW K, NEW T, NEW H, NEW C, NEW S, NEW G, NEW t, NEW x,
         NodeOK(n, K, T, H, C, S, G, t, x),
         NEW b, BlockOK(n, T, t, b), NEW y, y # 0
  PROVE  /\ NodeOK(n, K \cup {b}, T, H, C, S, G, t, y)
         /\ \A h \in Inserted(H, b) \cup {H} :
              NodeOK(n, K \cup {b}, T \cup {b}, h, C, S, G, t, y)
<1>1. /\ T \subseteq BlockType /\ b \in BlockType /\ H \in T
      /\ b \in Chain /\ Parent(b) \in T /\ SlotsKept(n, b)
  BY DEF NodeOK, BlockOK, Chain
<1>2. Complete(T \cup {b})
  BY <1>1, CompleteAdd DEF NodeOK
<1>3. \A h \in Inserted(H, b) \cup {H} : h \in T \cup {b}
  <2>1. \A i \in 1 .. Len(b) : SubSeq(b, 1, i) \in T \cup {b}
    BY <1>2, Zenon DEF Complete
  <2> QED
    BY <1>1, <2>1, Zenon DEF Inserted
<1>4. /\ \A d \in ((K \cup {b}) \ {Genesis}) \cup G : BlockOK(n, T \cup {b}, t, d)
      /\ \A d \in ((K \cup {b}) \ {Genesis}) \cup G : BlockOK(n, T, t, d)
  BY DEF NodeOK, BlockOK
<1>5. Witnessed(K \cup {b}, Loaded(C, S))
  BY DEF NodeOK, Witnessed
<1>6. NodeOK(n, K \cup {b}, T, H, C, S, G, t, y)
  BY <1>1, <1>4, <1>5, Zenon DEF NodeOK
<1>7. ASSUME NEW h \in Inserted(H, b) \cup {H}
      PROVE  NodeOK(n, K \cup {b}, T \cup {b}, h, C, S, G, t, y)
  BY <1>1, <1>2, <1>3, <1>4, <1>5, Zenon DEF NodeOK
<1> QED
  BY <1>6, <1>7

(* A node may stop sealing, time passes, and a crash may do no more.       *)
LEMMA FewerOK ==
  ASSUME NEW n, NEW K, NEW T, NEW H, NEW C, NEW S, NEW G, NEW t \in Nat, NEW x,
         NodeOK(n, K, T, H, C, S, G, t, x),
         NEW F \in SUBSET G, NEW u \in Nat, t <= u, NEW y, x = y \/ y # 0
  PROVE  NodeOK(n, K, T, H, C, S, F, u, y)
<1>1. \A d \in (K \ {Genesis}) \cup F : BlockOK(n, T, u, d)
  <2> SUFFICES ASSUME NEW d \in (K \ {Genesis}) \cup F PROVE BlockOK(n, T, u, d)
    OBVIOUS
  <2>1. BlockOK(n, T, t, d) /\ d \in BlockType
    BY DEF NodeOK, BlockOK, Chain
  <2>2. Header(d).time \in Nat
    BY <2>1, HeaderTypes DEF Header
  <2> QED
    BY <2>1, <2>2 DEF BlockOK
<1>2. y = 0 => \A d \in K : Len(d) <= Len(H)
  BY DEF NodeOK
<1> QED
  BY <1>1, <1>2, Zenon DEF NodeOK

(* A crash of the node itself changes none of it but the count of crashes. *)
LEMMA CrashedOK ==
  ASSUME NEW n, NEW K, NEW T, NEW H, NEW C, NEW S, NEW G, NEW t \in Nat, NEW x,
         NodeOK(n, K, T, H, C, S, G, t, x), NEW y, y # 0
  PROVE  NodeOK(n, K, T, H, C, S, G, t, y)
<1>1. t <= t /\ G \in SUBSET G
  OBVIOUS
<1> QED
  BY <1>1, FewerOK, Zenon

(* What is in memory can be forgotten: what is loaded stays the same.      *)
LEMMA ForgetOK ==
  ASSUME NEW n, NEW K, NEW T, NEW H, NEW C, NEW S, NEW G, NEW t, NEW x,
         NodeOK(n, K, T, H, C, S, G, t, x)
  PROVE  /\ Loaded(NoBlock, S) = Loaded(C, S)
         /\ NodeOK(n, K, T, H, NoBlock, S, {}, t, x)
<1>1. Loaded(NoBlock, S) = Loaded(C, S)
  BY DEF NodeOK, StoreKept, Loaded
<1> QED
  BY <1>1 DEF NodeOK, StoreKept

(* What the loop confirms is the old block, or a longer prefix of the head *)
(* that enough validators witness on the head's chain.                     *)
LEMMA ConfirmedIs ==
  ASSUME NEW H \in Chain, NEW c \in BlockType
  PROVE  \/ ConfirmedFrom(H, c) = c
         \/ \E i \in 1 .. Len(H) : /\ ConfirmedFrom(H, c) = SubSeq(H, 1, i)
                                   /\ i > Len(c)
                                   /\ Witness(SubSeq(H, 1, i), H)
<1>1. /\ H \in BlockType /\ TimesOrdered(H)
      /\ Len(c) \in Nat /\ Len(H) \in Nat
  BY HeaderTypes DEF Chain
<1> DEFINE enough == {i \in (Len(c) + 1) .. Len(H) :
                        Cardinality(Witnesses(H, i)) >= ConsensusSize}
           m == Max(enough)
<1>2. ConfirmedFrom(H, c) = IF enough = {} THEN c ELSE SubSeq(H, 1, m)
  BY <1>1, ConfirmationLoop, Zenon DEF HighestWitnessed
<1>3. CASE enough = {}
  BY <1>2, <1>3
<1>4. CASE enough # {}
  <2>1. enough \in SUBSET (0 .. Len(H))
    BY <1>1
  <2>2. m \in enough
    <3> HIDE DEF enough
    <3> QED
      BY <1>1, <1>4, <2>1, MaxExists, Zenon
  <2> HIDE DEF m
  <2>3. m \in 1 .. Len(H) /\ m > Len(c) /\ Cardinality(Witnesses(H, m)) >= ConsensusSize
    BY <1>1, <2>2
  <2>4. SubSeq(H, 1, m) \in BlockType /\ Len(SubSeq(H, 1, m)) = m
    BY <1>1, <2>3, PrefixIs
  <2>5. Witness(SubSeq(H, 1, m), H)
    BY <1>1, <2>3, <2>4 DEF Witness, IsAncestor
  <2> QED
    BY <1>2, <1>4, <2>3, <2>5
<1> QED
  BY <1>3, <1>4

(* updateConfirmedBlockHeader keeps the invariant and does not go back.    *)
LEMMA ConfirmOK ==
  ASSUME NEW n, NEW K, NEW T, NEW H, NEW C, NEW S, NEW G, NEW t, NEW x,
         NodeOK(n, K, T, H, C, S, G, t, x),
         NEW new, new = ConfirmedFrom(H, Loaded(C, S)),
         NEW U, U = IF new = Loaded(C, S) THEN S ELSE new
  PROVE  /\ NodeOK(n, K, T, H, new, U, G, t, x)
         /\ Len(Loaded(new, U)) >= Len(Loaded(C, S))
<1> DEFINE old == Loaded(C, S)
<1>1. old \in K /\ old \in BlockType /\ old # NoBlock /\ H \in Chain /\ H \in BlockType
  BY DEF NodeOK, Loaded, Chain, BlockType
<1>2. Len(old) \in Nat
  BY <1>1, HeaderTypes
<1>3. CASE new = old
  <2>1. U = S
    BY <1>3
  <2>2. Loaded(new, U) = old
    BY <1>1, <1>3 DEF Loaded
  <2>3. StoreKept(new, U)
    BY <1>3, <2>1 DEF NodeOK, StoreKept, Loaded
  <2>4. NodeOK(n, K, T, H, new, U, G, t, x)
    <3> HIDE DEF old
    <3>1. Witnessed(K, old)
      BY DEF NodeOK, old
    <3> QED
      BY <1>1, <1>3, <2>1, <2>2, <2>3, <3>1 DEF NodeOK
  <2> QED
    BY <1>2, <2>2, <2>4
<1>4. CASE new # old
  <2>1. PICK i \in 1 .. Len(H) : /\ new = SubSeq(H, 1, i)
                                /\ i > Len(old)
                                /\ Witness(new, H)
    BY <1>1, <1>4, ConfirmedIs, Zenon
  <2>2. new \in BlockType /\ new # NoBlock /\ Len(new) = i
    BY <1>1, <2>1, PrefixIs DEF BlockType
  <2>3. new \in T /\ H \in K
    BY <2>1 DEF NodeOK, Complete
  <2>4. U = new /\ Loaded(new, U) = new /\ StoreKept(new, U)
    BY <1>4, <2>2 DEF Loaded, StoreKept
  <2>5. Witnessed(K, new)
    BY <2>1, <2>3 DEF Witnessed
  <2>6. NodeOK(n, K, T, H, new, U, G, t, x)
    BY <2>3, <2>4, <2>5 DEF NodeOK
  <2> QED
    BY <1>2, <2>1, <2>2, <2>4, <2>6
<1> QED
  BY <1>3, <1>4

-----------------------------------------------------------------------------
(* The slots of the blocks a node gets to write.                           *)

(* Slots are kept in a block when they are in its parent and its own       *)
(* header keeps its slot.                                                  *)
LEMMA SlotsOfChild ==
  ASSUME NEW n, NEW b \in BlockType, Parent(b) \in BlockType, SlotsKept(n, Parent(b)),
         HomeOrInSlot(n, b, Len(b))
  PROVE  SlotsKept(n, b)
<1> SUFFICES ASSUME NEW i \in 2 .. Len(b) PROVE HomeOrInSlot(n, b, i)
  BY DEF SlotsKept
<1>1. /\ Len(b) \in Nat /\ Len(Parent(b)) = Len(b) - 1
      /\ \A j \in 1 .. Len(b) - 1 : Parent(b)[j] = b[j]
  BY ParentIs
<1>2. CASE i = Len(b)
  BY <1>2
<1>3. CASE i # Len(b)
  <2>1. i \in 2 .. Len(Parent(b)) /\ i \in 1 .. Len(b) - 1 /\ i - 1 \in 1 .. Len(b) - 1
    BY <1>1, <1>3
  <2>2. HomeOrInSlot(n, Parent(b), i)
    BY <2>1 DEF SlotsKept
  <2> QED
    BY <1>1, <2>1, <2>2 DEF HomeOrInSlot
<1> QED
  BY <1>2, <1>3

-----------------------------------------------------------------------------
(* The invariant of the network.                                           *)

StateTypes ==
  /\ now \in 0 .. MaxTime
  /\ crashes \in [Node -> 0 .. MaxCrashes]
  /\ blocks \subseteq Chain
  /\ checked \subseteq Node
  /\ known \in [Node -> SUBSET BlockType]
  /\ tries \in [Node -> SUBSET BlockType]
  /\ head \in [Node -> BlockType]
  /\ confirmed \in [Node -> BlockType \cup {NoBlock}]
  /\ stored \in [Node -> BlockType \cup {NoBlock}]
  /\ task \in [Node -> SUBSET BlockType]
  /\ prev \in [Node -> BlockType \cup {NoBlock}]

NodeInv(n) ==
  NodeOK(n, known[n], tries[n], head[n], confirmed[n], stored[n], task[n], now, crashes[n])

ChainInv == StateTypes /\ \A n \in Node : NodeInv(n)

(* What ConfirmedNeverGoesBack asks of a step, for one node.               *)
NotBack(n) == Len(Loaded(confirmed'[n], stored'[n])) >= Len(Loaded(confirmed[n], stored[n]))

(* The time is a natural number.                                           *)
LEMMA NowIs == ChainInv => now \in Nat
BY DEF ChainInv, StateTypes

(* loadConfirmedBlockHeader is Loaded.                                     *)
LEMMA LoadedIs ==
  ASSUME NEW n \in Node
  PROVE  loadConfirmedBlockHeader(n) = Loaded(confirmed[n], stored[n])
BY DEF loadConfirmedBlockHeader, Loaded

(* The confirmed block is a block.                                         *)
LEMMA LoadedType ==
  ASSUME ChainInv, NEW n \in Node
  PROVE  Loaded(confirmed[n], stored[n]) \in BlockType /\ Len(Loaded(confirmed[n], stored[n])) \in Nat
<1>1. Loaded(confirmed[n], stored[n]) \in BlockType
  BY DEF ChainInv, NodeInv, NodeOK, Loaded, Chain
<1> QED
  BY <1>1, HeaderTypes

(* A block insertChain accepts can be written.                             *)
LEMMA ImportableOK ==
  ASSUME ChainInv, NEW n \in Node, NEW b \in blocks, Importable(n, b)
  PROVE  BlockOK(n, tries[n], now, b)
<1>1. /\ b \in Chain /\ b \in BlockType
      /\ Parent(b) \in tries[n] /\ Parent(b) \in known[n] /\ Parent(b) \in BlockType
      /\ SlotsKept(n, Parent(b))
  BY DEF ChainInv, StateTypes, NodeInv, NodeOK, Importable, Chain
<1>2. HomeOrInSlot(n, b, Len(b))
  <2>1. Header(Parent(b)) = b[Len(b) - 1] /\ Header(b) = b[Len(b)]
    BY <1>1, ParentIs
  <2> QED
    BY <2>1 DEF Importable, verifyHeader, verifySeal, HomeOrInSlot
<1>3. SlotsKept(n, b)
  BY <1>1, <1>2, SlotsOfChild
<1>4. Header(b).time <= now
  BY DEF Importable, verifyHeader
<1> QED
  BY <1>1, <1>3, <1>4, Zenon DEF BlockOK

(* A step that leaves a node's variables alone.                            *)
LEMMA UntouchedOK ==
  ASSUME ChainInv, NEW m \in Node, now' \in {now, now + 1}, crashes'[m] = crashes[m],
         known'[m] = known[m], tries'[m] = tries[m], head'[m] = head[m],
         confirmed'[m] = confirmed[m], stored'[m] = stored[m],
         task'[m] \subseteq task[m]
  PROVE  NodeInv(m)' /\ NotBack(m)
<1>1. now \in Nat /\ now' \in Nat /\ now <= now' /\ NodeInv(m) /\ task'[m] \in SUBSET task[m]
  BY DEF ChainInv, StateTypes
<1>2. NodeOK(m, known[m], tries[m], head[m], confirmed[m], stored[m], task'[m], now', crashes[m])
  BY <1>1, FewerOK DEF NodeInv
<1>3. NodeInv(m)'
  BY <1>2 DEF NodeInv
<1>4. NotBack(m)
  BY LoadedType DEF NotBack
<1> QED
  BY <1>3, <1>4

(* What has to be shown of a step of node n.                               *)
LEMMA StepOf ==
  ASSUME ChainInv, StateTypes', NEW n \in Node, now' = now,
         \A m \in Node \ {n} :
           /\ crashes'[m] = crashes[m]
           /\ known'[m] = known[m] /\ tries'[m] = tries[m] /\ head'[m] = head[m]
           /\ confirmed'[m] = confirmed[m] /\ stored'[m] = stored[m] /\ task'[m] = task[m],
         NodeInv(n)', NotBack(n)
  PROVE  ChainInv' /\ \A m \in Node : NotBack(m)
<1>1. ASSUME NEW m \in Node PROVE NodeInv(m)' /\ NotBack(m)
  <2>1. CASE m = n
    BY <2>1
  <2>2. CASE m # n
    BY <2>2, UntouchedOK
  <2> QED
    BY <2>1, <2>2
<1> QED
  BY <1>1 DEF ChainInv

(* The genesis block is a block.                                           *)
LEMMA GenesisIs == Genesis \in Chain /\ Len(Genesis) = 1
<1> DEFINE g == [time |-> 0, validator |-> NoAddress, validators |-> GenesisList]
<1>1. g \in HeaderType
  BY ChainAssumption DEF HeaderType, Signer
<1>2. Genesis = <<g>>
  BY DEF Genesis
<1> HIDE DEF g
<1>3. Genesis \in BlockType /\ Len(Genesis) = 1
  BY <1>1, <1>2 DEF BlockType, NoBlock
<1>4. TimesOrdered(Genesis)
  <2>1. \A i \in 1 .. Len(Genesis) : i = 1 /\ Genesis[i].time \in Nat
    BY <1>3, HeaderTypes
  <2> QED
    BY <2>1 DEF TimesOrdered
<1> QED
  BY <1>3, <1>4 DEF Chain

LEMMA InitInv == Init => ChainInv
<1> SUFFICES ASSUME Init PROVE ChainInv
  OBVIOUS
<1>1. Genesis \in Chain /\ Genesis \in BlockType /\ Len(Genesis) = 1
  BY GenesisIs DEF Chain
<1>2. StateTypes
  BY <1>1, ChainAssumption DEF Init, StateTypes
<1>3. Complete({Genesis})
  <2>1. SubSeq(Genesis, 1, 1) = Genesis /\ \A i \in 1 .. Len(Genesis) : i = 1
    BY <1>1, PrefixFull
  <2> QED
    BY <2>1 DEF Complete
<1>4. ASSUME NEW n \in Node PROVE NodeInv(n)
  <2>1. NodeOK(n, {Genesis}, {Genesis}, Genesis, NoBlock, NoBlock, {}, 0, 0)
    <3>1. SlotsKept(n, Genesis)
      BY <1>1 DEF SlotsKept
    <3>2. StoreKept(NoBlock, NoBlock) /\ Loaded(NoBlock, NoBlock) = Genesis
      BY DEF StoreKept, Loaded
    <3>3. \A b \in {Genesis} : Len(b) <= Len(Genesis)
      BY <1>1
    <3>4. Witnessed({Genesis}, Genesis)
      BY DEF Witnessed
    <3> QED
      BY <1>1, <1>3, <3>1, <3>2, <3>3, <3>4 DEF NodeOK
  <2> QED
    BY <2>1 DEF Init, NodeInv
<1> QED
  BY <1>2, <1>4 DEF ChainInv

-----------------------------------------------------------------------------
(* The steps.                                                              *)

LEMMA createNewWorkStep ==
  ASSUME ChainInv, NEW n \in Node, createNewWork(n)
  PROVE  ChainInv' /\ \A m \in Node : NotBack(m)
<1> DEFINE parent == head[n]
           time   == IF Header(parent).time >= now THEN Header(parent).time + 1 ELSE now
<1>1. parent \in Chain /\ parent \in tries[n] /\ parent \in BlockType /\ SlotsKept(n, parent)
  BY DEF ChainInv, NodeInv, NodeOK, Chain
<1>2. Header(parent) \in HeaderType
  BY <1>1, HeaderTypes DEF Header
<1>3. PICK list \in (IF EpochOf(time) = EpochOf(Header(parent).time)
                     THEN {Header(parent).validators} ELSE Lists) :
        LET block == Append(parent, [time |-> time, validator |-> n, validators |-> list])
        IN  /\ task' = [task EXCEPT ![n] = IF block = prev[n] THEN @ ELSE @ \cup {block}]
            /\ prev' = [prev EXCEPT ![n] = block]
  BY Zenon DEF createNewWork
<1> DEFINE e == [time |-> time, validator |-> n, validators |-> list]
           block == Append(parent, e)
<1>4. e \in HeaderType /\ Header(parent).time <= e.time /\ e.validator = n
  <2>1. time \in Nat /\ Header(parent).time <= time
    BY <1>2 DEF ChainInv, StateTypes, HeaderType
  <2>2. list \in Seq(Address)
    BY <1>2, <1>3, ChainAssumption DEF HeaderType
  <2>3. n \in Signer
    BY ChainAssumption DEF Signer
  <2> HIDE DEF time
  <2> QED
    BY <2>1, <2>2, <2>3 DEF HeaderType
<1>5. /\ task' = [task EXCEPT ![n] = IF block = prev[n] THEN @ ELSE @ \cup {block}]
      /\ prev' = [prev EXCEPT ![n] = block]
      /\ checked' = checked \ {n}
      /\ UNCHANGED <<now, blocks, known, tries, head, confirmed, stored, crashes>>
  BY <1>3, Zenon DEF createNewWork
<1> HIDE DEF e, parent
<1>6. /\ block \in Chain /\ block \in BlockType /\ Parent(block) = parent
      /\ Len(block) = Len(parent) + 1 /\ block[Len(parent) + 1] = e
  BY <1>1, <1>4, ChildIs DEF Chain
<1> HIDE DEF block
<1>7. BlockOK(n, tries[n], now, block)
  <2>1. HomeOrInSlot(n, block, Len(block))
    BY <1>4, <1>6 DEF HomeOrInSlot
  <2>2. SlotsKept(n, block)
    BY <1>1, <1>6, <2>1, SlotsOfChild
  <2>3. Header(block).validator = n
    BY <1>4, <1>6 DEF Header
  <2> QED
    BY <1>1, <1>6, <2>2, <2>3, Zenon DEF BlockOK
<1>8. StateTypes'
  BY <1>5, <1>6 DEF ChainInv, StateTypes
<1>9. /\ task'[n] \in {task[n], task[n] \cup {block}}
      /\ \A m \in Node \ {n} : task'[m] = task[m]
  BY <1>5 DEF ChainInv, StateTypes
<1>10. NodeInv(n)'
  BY <1>5, <1>7, <1>9 DEF ChainInv, NodeInv, NodeOK
<1>11. NotBack(n)
  BY <1>5, LoadedType DEF NotBack
<1> QED
  BY <1>5, <1>8, <1>9, <1>10, <1>11, StepOf

LEMMA SealStoppedStep ==
  ASSUME ChainInv, NEW n \in Node, SealStopped(n)
  PROVE  ChainInv' /\ \A m \in Node : NotBack(m)
<1>1. PICK b \in task[n] : task' = [task EXCEPT ![n] = @ \ {b}]
  BY Zenon DEF SealStopped
<1>2. UNCHANGED <<now, blocks, known, tries, head, confirmed, stored, checked, prev, crashes>>
  BY DEF SealStopped
<1>3. StateTypes'
  BY <1>1, <1>2 DEF ChainInv, StateTypes
<1>4. task'[n] \subseteq task[n] /\ \A m \in Node \ {n} : task'[m] = task[m]
  BY <1>1 DEF ChainInv, StateTypes
<1>5. NodeInv(n)' /\ NotBack(n)
  BY <1>2, <1>4, UntouchedOK
<1> QED
  BY <1>2, <1>3, <1>4, <1>5, StepOf

LEMMA SealStep ==
  ASSUME ChainInv, NEW n \in Node, NEW b \in task[n], Seal(n, b)
  PROVE  ChainInv' /\ \A m \in Node : NotBack(m)
<1>1. /\ task' = [task EXCEPT ![n] = @ \ {b}]
      /\ UNCHANGED <<now, confirmed, stored, checked, prev, crashes>>
  BY DEF Seal
<1>2. /\ BlockOK(n, tries[n], now, b) /\ b \in Chain /\ b \in BlockType
      /\ now \in Nat /\ NodeInv(n) /\ head[n] \in BlockType
  BY DEF ChainInv, StateTypes, NodeInv, NodeOK, BlockOK, Chain
<1>3. task'[n] \subseteq task[n] /\ \A m \in Node \ {n} : task'[m] = task[m]
  BY <1>1 DEF ChainInv, StateTypes
<1>4. CASE b \in known[n]
  <2>1. UNCHANGED <<blocks, known, tries, head>>
    BY <1>4 DEF Seal
  <2>2. StateTypes'
    BY <1>1, <2>1 DEF ChainInv, StateTypes
  <2>3. NodeInv(n)' /\ NotBack(n)
    BY <1>1, <1>3, <2>1, UntouchedOK
  <2> QED
    BY <1>1, <1>3, <2>1, <2>2, <2>3, StepOf
<1>5. CASE b \notin known[n]
  <2>1. PICK h \in ForkChoice(head[n], b) :
          /\ known' = [known EXCEPT ![n] = @ \cup {b}]
          /\ tries' = [tries EXCEPT ![n] = @ \cup {b}]
          /\ head' = [head EXCEPT ![n] = h]
          /\ blocks' = blocks \cup {b}
    BY <1>5 DEF Seal, WriteBlockWithState
  <2>2. h \in {head[n], b} /\ h \in BlockType
    BY <1>2, <2>1, HeaderTypes DEF ForkChoice
  <2>3. StateTypes'
    BY <1>1, <1>2, <2>1, <2>2 DEF ChainInv, StateTypes
  <2>4. /\ known'[n] = known[n] \cup {b} /\ tries'[n] = tries[n] \cup {b} /\ head'[n] = h
        /\ \A m \in Node \ {n} : known'[m] = known[m] /\ tries'[m] = tries[m] /\ head'[m] = head[m]
    BY <2>1 DEF ChainInv, StateTypes
  <2>5. NodeOK(n, known[n] \cup {b}, tries[n] \cup {b}, h, confirmed[n], stored[n], task[n], now, crashes[n])
    BY <1>2, <2>1, WriteOK DEF NodeInv
  <2>6. NodeInv(n)'
    <3>1. NodeOK(n, known[n] \cup {b}, tries[n] \cup {b}, h, confirmed[n], stored[n],
                 task'[n], now, crashes[n])
      <4>1. now <= now /\ task'[n] \in SUBSET task[n]
        BY <1>2, <1>3
      <4> QED
        BY <1>2, <2>5, <4>1, FewerOK, Zenon
    <3> QED
      BY <1>1, <2>4, <3>1 DEF NodeInv
  <2>7. NotBack(n)
    BY <1>1, LoadedType DEF NotBack
  <2> QED
    BY <1>1, <1>3, <2>3, <2>4, <2>6, <2>7, StepOf
<1> QED
  BY <1>4, <1>5

LEMMA insertChainStep ==
  ASSUME ChainInv, NEW n \in Node, NEW b \in blocks, insertChain(n, b)
  PROVE  ChainInv' /\ \A m \in Node : NotBack(m)
<1> DEFINE old == Loaded(confirmed[n], stored[n])
           new == ConfirmedFrom(head[n], old)
           U   == IF new = old THEN stored[n] ELSE new
<1>1. /\ confirmed' = [confirmed EXCEPT ![n] = new]
      /\ stored' = [stored EXCEPT ![n] = U]
      /\ UNCHANGED <<now, blocks, checked, task, prev, crashes>>
  BY LoadedIs, Zenon DEF insertChain, updateConfirmedBlockHeader
<1>2. PICK h \in ForkChoice(head[n], b) :
        /\ known' = [known EXCEPT ![n] = @ \cup {b}]
        /\ tries' = [tries EXCEPT ![n] = @ \cup {b}]
        /\ head' = [head EXCEPT ![n] = h]
  BY Zenon DEF insertChain, WriteBlockWithState
<1>3. BlockOK(n, tries[n], now, b) /\ b \in BlockType /\ h \in BlockType
  <2>1. BlockOK(n, tries[n], now, b)
    BY ImportableOK DEF insertChain
  <2>2. b \in BlockType /\ head[n] \in BlockType
    BY <2>1 DEF BlockOK, Chain, ChainInv, StateTypes
  <2> QED
    BY <1>2, <2>1, <2>2, HeaderTypes DEF ForkChoice
<1>4. /\ NodeOK(n, known[n], tries[n], head[n], new, U, task[n], now, crashes[n])
      /\ Len(Loaded(new, U)) >= Len(old)
  <2>1. NodeInv(n)
    BY DEF ChainInv
  <2> QED
    BY <2>1, ConfirmOK DEF NodeInv
<1> HIDE DEF new, U
<1>5. NodeOK(n, known[n] \cup {b}, tries[n] \cup {b}, h, new, U, task[n], now, crashes[n])
  BY <1>2, <1>3, <1>4, WriteOK
<1>6. StateTypes'
  <2>1. new \in BlockType \cup {NoBlock} /\ U \in BlockType \cup {NoBlock}
    BY <1>4, Zenon DEF NodeOK, Chain
  <2> QED
    BY <1>1, <1>2, <1>3, <2>1 DEF ChainInv, StateTypes
<1>7. /\ known'[n] = known[n] \cup {b} /\ tries'[n] = tries[n] \cup {b} /\ head'[n] = h
      /\ confirmed'[n] = new /\ stored'[n] = U
      /\ \A m \in Node \ {n} :
           /\ known'[m] = known[m] /\ tries'[m] = tries[m] /\ head'[m] = head[m]
           /\ confirmed'[m] = confirmed[m] /\ stored'[m] = stored[m]
  BY <1>1, <1>2 DEF ChainInv, StateTypes
<1>8. NodeInv(n)' /\ NotBack(n)
  BY <1>1, <1>4, <1>5, <1>7 DEF NodeInv, NotBack
<1> QED
  BY <1>1, <1>6, <1>7, <1>8, StepOf, Zenon

-----------------------------------------------------------------------------
(* Crashes.                                                                *)

(* What a crash leaves of the variables it touches.                        *)
LEMMA CrashIs ==
  ASSUME ChainInv, NEW n \in Node, Crash(n)
  PROVE  /\ crashes' \in [Node -> 0 .. MaxCrashes] /\ crashes'[n] # 0
         /\ confirmed' \in [Node -> BlockType \cup {NoBlock}] /\ confirmed'[n] = NoBlock
         /\ task' \in [Node -> SUBSET BlockType] /\ task'[n] = {}
         /\ prev' \in [Node -> BlockType \cup {NoBlock}]
         /\ checked' \subseteq Node /\ UNCHANGED <<now, blocks>>
         /\ \A m \in Node \ {n} : /\ confirmed'[m] = confirmed[m] /\ task'[m] = task[m]
                                 /\ crashes'[m] = crashes[m]
BY ChainAssumption DEF Crash, ChainInv, StateTypes

(* What WriteInterrupted leaves of the variables it touches.               *)
LEMMA InterruptedIs ==
  ASSUME ChainInv, NEW n \in Node, NEW b \in BlockType, WriteInterrupted(n, b)
  PROVE  /\ known' \in [Node -> SUBSET BlockType] /\ known'[n] = known[n] \cup {b}
         /\ tries' \in [Node -> SUBSET BlockType]
         /\ head' \in [Node -> BlockType]
         /\ \/ tries'[n] = tries[n] /\ head'[n] = head[n]
            \/ /\ tries'[n] = tries[n] \cup {b}
               /\ head'[n] \in Inserted(head[n], b) \cup {head[n]}
         /\ \A m \in Node \ {n} :
              known'[m] = known[m] /\ tries'[m] = tries[m] /\ head'[m] = head[m]
<1>1. /\ known' = [known EXCEPT ![n] = @ \cup {b}]
      /\ known \in [Node -> SUBSET BlockType] /\ tries \in [Node -> SUBSET BlockType]
      /\ head \in [Node -> BlockType]
  BY DEF WriteInterrupted, ChainInv, StateTypes
<1>2. CASE UNCHANGED <<tries, head>>
  BY <1>1, <1>2
<1>3. CASE UNCHANGED head /\ tries' = [tries EXCEPT ![n] = @ \cup {b}]
  BY <1>1, <1>3
<1>4. ASSUME NEW h \in Inserted(head[n], b), head' = [head EXCEPT ![n] = h],
             tries' = [tries EXCEPT ![n] = @ \cup {b}]
      PROVE  /\ tries' \in [Node -> SUBSET BlockType]
             /\ head' \in [Node -> BlockType]
             /\ tries'[n] = tries[n] \cup {b} /\ head'[n] \in Inserted(head[n], b)
             /\ \A m \in Node \ {n} : tries'[m] = tries[m] /\ head'[m] = head[m]
  <2>1. h \in BlockType
    BY PrefixIs, Zenon DEF Inserted
  <2> QED
    BY <1>1, <1>4, <2>1
<1>5. \/ UNCHANGED <<tries, head>>
      \/ UNCHANGED head /\ tries' = [tries EXCEPT ![n] = @ \cup {b}]
      \/ /\ tries' = [tries EXCEPT ![n] = @ \cup {b}]
         /\ \E h \in Inserted(head[n], b) : head' = [head EXCEPT ![n] = h]
  BY Zenon DEF WriteInterrupted
<1>6. /\ known' \in [Node -> SUBSET BlockType] /\ known'[n] = known[n] \cup {b}
      /\ \A m \in Node \ {n} : known'[m] = known[m]
  BY <1>1
<1> QED
  BY <1>2, <1>3, <1>4, <1>5, <1>6, Zenon

(* A crash of a node that had got as far as storing U as its confirmed     *)
(* header and may have been writing a block.                               *)
LEMMA CrashStep ==
  ASSUME ChainInv, NEW n \in Node, Crash(n), NEW C, NEW U,
         NodeOK(n, known[n], tries[n], head[n], C, U, task[n], now, crashes[n]),
         Len(Loaded(C, U)) >= Len(Loaded(confirmed[n], stored[n])),
         stored' = [stored EXCEPT ![n] = U],
         \/ UNCHANGED <<known, tries, head>>
         \/ \E b : BlockOK(n, tries[n], now, b) /\ WriteInterrupted(n, b)
  PROVE  ChainInv' /\ \A m \in Node : NotBack(m)
<1>1. /\ crashes'[n] # 0 /\ now' = now /\ confirmed'[n] = NoBlock /\ task'[n] = {}
      /\ \A m \in Node \ {n} : /\ confirmed'[m] = confirmed[m] /\ task'[m] = task[m]
                              /\ crashes'[m] = crashes[m]
  BY CrashIs
<1>2. /\ NodeOK(n, known[n], tries[n], head[n], NoBlock, U, {}, now, crashes[n])
      /\ Loaded(NoBlock, U) = Loaded(C, U)
  BY ForgetOK
<1>3. /\ stored' \in [Node -> BlockType \cup {NoBlock}] /\ stored'[n] = U
      /\ \A m \in Node \ {n} : stored'[m] = stored[m]
  <2>1. U \in BlockType \cup {NoBlock}
    BY <1>2 DEF NodeOK, Chain
  <2> QED
    BY <2>1 DEF ChainInv, StateTypes
<1>4. NotBack(n)
  BY <1>1, <1>2, <1>3 DEF NotBack
<1>5. CASE UNCHANGED <<known, tries, head>>
  <2>1. StateTypes'
    BY <1>3, <1>5, CrashIs DEF ChainInv, StateTypes
  <2>2. NodeOK(n, known[n], tries[n], head[n], NoBlock, U, {}, now, crashes'[n])
    <3>1. now \in Nat
      BY NowIs, Zenon
    <3> QED
      BY <1>1, <1>2, <3>1, CrashedOK, Zenon
  <2>3. NodeInv(n)'
    BY <1>1, <1>3, <1>5, <2>2, Zenon DEF NodeInv
  <2> QED
    BY <1>1, <1>3, <1>4, <1>5, <2>1, <2>3, StepOf
<1>6. ASSUME NEW b, BlockOK(n, tries[n], now, b), WriteInterrupted(n, b)
      PROVE  ChainInv' /\ \A m \in Node : NotBack(m)
  <2>1. b \in BlockType
    BY <1>6, Zenon DEF BlockOK, Chain
  <2>2. /\ known'[n] = known[n] \cup {b}
        /\ \/ tries'[n] = tries[n] /\ head'[n] = head[n]
           \/ /\ tries'[n] = tries[n] \cup {b}
              /\ head'[n] \in Inserted(head[n], b) \cup {head[n]}
        /\ \A m \in Node \ {n} :
             known'[m] = known[m] /\ tries'[m] = tries[m] /\ head'[m] = head[m]
    BY <1>6, <2>1, InterruptedIs
  <2>3. StateTypes'
    BY <1>3, <1>6, <2>1, CrashIs, InterruptedIs DEF ChainInv, StateTypes
  <2>4. /\ NodeOK(n, known[n] \cup {b}, tries[n], head[n], NoBlock, U, {}, now, crashes'[n])
        /\ \A h \in Inserted(head[n], b) \cup {head[n]} :
             NodeOK(n, known[n] \cup {b}, tries[n] \cup {b}, h, NoBlock, U, {}, now, crashes'[n])
    BY <1>1, <1>2, <1>6, InterruptedOK, Zenon
  <2>5. NodeInv(n)'
    BY <1>1, <1>3, <2>2, <2>4, Zenon DEF NodeInv
  <2> QED
    BY <1>1, <1>3, <1>4, <2>2, <2>3, <2>5, StepOf, Zenon
<1> QED
  BY <1>5, <1>6

LEMMA RestartStep ==
  ASSUME ChainInv, NEW n \in Node, Restart(n)
  PROVE  ChainInv' /\ \A m \in Node : NotBack(m)
<1>1. Crash(n) /\ UNCHANGED <<known, tries, head>> /\ stored' = [stored EXCEPT ![n] = stored[n]]
  BY DEF Restart, ChainInv, StateTypes
<1>2. NodeOK(n, known[n], tries[n], head[n], confirmed[n], stored[n], task[n], now, crashes[n])
  BY DEF ChainInv, NodeInv
<1>3. Len(Loaded(confirmed[n], stored[n])) >= Len(Loaded(confirmed[n], stored[n]))
  BY LoadedType
<1> QED
  BY <1>1, <1>2, <1>3, CrashStep, Zenon

LEMMA CrashInImportStep ==
  ASSUME ChainInv, NEW n \in Node, NEW b \in blocks, CrashInImport(n, b)
  PROVE  ChainInv' /\ \A m \in Node : NotBack(m)
<1> DEFINE old == Loaded(confirmed[n], stored[n])
           new == ConfirmedFrom(head[n], old)
           U   == IF new = old THEN stored[n] ELSE new
<1>1. /\ Crash(n) /\ stored' = [stored EXCEPT ![n] = U]
      /\ WriteInterrupted(n, b) \/ UNCHANGED <<known, tries, head>>
  BY LoadedIs, Zenon DEF CrashInImport
<1>2. BlockOK(n, tries[n], now, b)
  BY ImportableOK DEF CrashInImport
<1>3. /\ NodeOK(n, known[n], tries[n], head[n], new, U, task[n], now, crashes[n])
      /\ Len(Loaded(new, U)) >= Len(old)
  <2>1. NodeInv(n)
    BY DEF ChainInv
  <2> QED
    BY <2>1, ConfirmOK DEF NodeInv
<1> HIDE DEF new, U
<1> QED
  BY <1>1, <1>2, <1>3, CrashStep, Zenon

LEMMA CrashInSealStep ==
  ASSUME ChainInv, NEW n \in Node, NEW b \in task[n], CrashInSeal(n, b)
  PROVE  ChainInv' /\ \A m \in Node : NotBack(m)
<1>1. Crash(n) /\ WriteInterrupted(n, b) /\ stored' = [stored EXCEPT ![n] = stored[n]]
  BY DEF CrashInSeal, ChainInv, StateTypes
<1>2. BlockOK(n, tries[n], now, b)
  BY DEF ChainInv, NodeInv, NodeOK
<1>3. NodeOK(n, known[n], tries[n], head[n], confirmed[n], stored[n], task[n], now, crashes[n])
  BY DEF ChainInv, NodeInv
<1>4. Len(Loaded(confirmed[n], stored[n])) >= Len(Loaded(confirmed[n], stored[n]))
  BY LoadedType
<1> QED
  BY <1>1, <1>2, <1>3, <1>4, CrashStep, Zenon

(* Every step keeps the invariant, and takes no confirmed header back.     *)
LEMMA NextInv ==
  ASSUME ChainInv, [Next]_vars
  PROVE  ChainInv' /\ \A m \in Node : NotBack(m)
<1>1. ASSUME StateTypes', now' \in {now, now + 1}, UNCHANGED <<known, tries, head, confirmed, stored, task, crashes>>
      PROVE  ChainInv' /\ \A m \in Node : NotBack(m)
  BY <1>1, UntouchedOK DEF ChainInv
<1>2. CASE UNCHANGED vars
  <2>1. StateTypes'
    BY <1>2 DEF vars, ChainInv, StateTypes
  <2> QED
    BY <1>1, <1>2, <2>1 DEF vars
<1>3. CASE Tick
  <2>1. StateTypes'
    BY <1>3, ChainAssumption DEF Tick, ChainInv, StateTypes
  <2> QED
    BY <1>1, <1>3, <2>1 DEF Tick
<1>4. ASSUME NEW n \in Node, NEW tick, mintBlock(n, tick)
      PROVE  ChainInv' /\ \A m \in Node : NotBack(m)
  <2>1. StateTypes'
    BY <1>4 DEF mintBlock, ChainInv, StateTypes
  <2> QED
    BY <1>1, <1>4, <2>1 DEF mintBlock
<1> QED
  BY <1>2, <1>3, <1>4, createNewWorkStep, SealStoppedStep, SealStep, insertChainStep,
     RestartStep, CrashInImportStep, CrashInSealStep, Zenon DEF Next

-----------------------------------------------------------------------------
(* The theorems.                                                           *)

LEMMA ChainInvHolds == Spec => []ChainInv
BY InitInv, NextInv, PTL DEF Spec

(* Whatever crashes, what a node confirms, stores or extends is in its     *)
(* database.                                                               *)
THEOREM ChainTypeOK == Spec => []TypeOK
<1>1. ChainInv => TypeOK
  BY DEF ChainInv, StateTypes, NodeInv, NodeOK, Chain, TypeOK
<1> QED
  BY <1>1, ChainInvHolds, PTL

(* Wherever a crash strikes in import or sealing, the DPoS tries of a      *)
(* node's head and of all its ancestors are on disk.                       *)
THEOREM HeadAlwaysUsable == Spec => []HeadIsUsable
<1>1. ChainInv => HeadIsUsable
  BY DEF ChainInv, NodeInv, NodeOK, Complete, HeadIsUsable
<1> QED
  BY <1>1, ChainInvHolds, PTL

(* Without a crash, fork choice keeps the head as heavy as any block of    *)
(* the database, whatever the order of imports and seals.                  *)
THEOREM HeadAlwaysHeaviest == Spec => []HeadIsHeaviest
<1>1. ChainInv => HeadIsHeaviest
  BY DEF ChainInv, NodeInv, NodeOK, HeadIsHeaviest
<1> QED
  BY <1>1, ChainInvHolds, PTL

(* Wherever a crash strikes, in the middle of a reorganisation too, import *)
(* can take up each block of the database that is heavier than the head.   *)
THEOREM CrashAlwaysMadeGood == Spec => []CrashIsMadeGood
<1>1. ASSUME ChainInv PROVE CrashIsMadeGood
  <2> SUFFICES ASSUME NEW n \in Node, NEW b \in known[n], Len(b) > Len(head[n])
               PROVE  \/ Importable(n, b)
                      \/ Header(b).validator = n /\ ~(verifyHeader(b) /\ verifySeal(b))
    BY DEF CrashIsMadeGood
  <2>1. b # Genesis
    <3>1. head[n] \in BlockType
      BY <1>1 DEF ChainInv, StateTypes
    <3>2. Len(head[n]) \in Nat \ {0}
      BY <3>1, HeaderTypes
    <3>3. \A k \in Nat \ {0} : ~(1 > k)
      OBVIOUS
    <3> QED
      BY <3>2, <3>3, GenesisIs, Zenon
  <2>2. /\ BlockOK(n, tries[n], now, b) /\ tries[n] \subseteq known[n]
        /\ b \in BlockType /\ Parent(b) \in BlockType
    BY <1>1, <2>1 DEF ChainInv, NodeInv, NodeOK, BlockOK, Chain
  <2>3. CASE Header(b).validator = n
    BY <2>2, <2>3 DEF BlockOK, Importable
  <2>4. CASE Header(b).validator # n
    <3>1. /\ Len(b) \in 2 .. Len(b)
          /\ Header(Parent(b)) = b[Len(b) - 1] /\ Header(b) = b[Len(b)]
      BY <2>2, ParentIs
    <3>2. HomeOrInSlot(n, b, Len(b)) /\ Header(b).time <= now
      BY <2>2, <2>4, <3>1 DEF BlockOK, SlotsKept
    <3>3. verifyHeader(b) /\ verifySeal(b)
      BY <2>4, <3>1, <3>2 DEF HomeOrInSlot, verifyHeader, verifySeal
    <3> QED
      BY <2>2, <3>3 DEF BlockOK, Importable
  <2> QED
    BY <2>3, <2>4
<1> QED
  BY <1>1, ChainInvHolds, PTL

(* A block minted outside its slot gets into nobody else's database.       *)
THEOREM OffSlotBlocksAlwaysStayHome == Spec => []OffSlotBlocksStayHome
<1>1. ChainInv => OffSlotBlocksStayHome
  BY DEF ChainInv, NodeInv, NodeOK, SlotsKept, HomeOrInSlot, OffSlotBlocksStayHome
<1> QED
  BY <1>1, ChainInvHolds, PTL

(* A confirmed block has the witnesses updateConfirmedBlockHeader asks     *)
(* for, before and after a crash.                                          *)
THEOREM ConfirmedAlwaysWitnessed == Spec => []ConfirmedIsWitnessed
<1>1. ASSUME ChainInv PROVE ConfirmedIsWitnessed
  BY <1>1, LoadedIs, Zenon DEF ChainInv, NodeInv, NodeOK, Witnessed, Witness, ConfirmedIsWitnessed
<1> QED
  BY <1>1, ChainInvHolds, PTL

(* On every head that can come about, updateConfirmedBlockHeader finds the *)
(* highest block with enough witnesses, from every confirmed ancestor.     *)
THEOREM ConfirmationAlwaysComplete == Spec => []ConfirmationComplete
<1>1. ASSUME ChainInv PROVE ConfirmationComplete
  <2> SUFFICES ASSUME NEW n \in Node, NEW i \in 1 .. Len(head[n])
               PROVE  ConfirmedFrom(head[n], SubSeq(head[n], 1, i))
                        = HighestWitnessed(head[n], SubSeq(head[n], 1, i))
    BY Zenon DEF ConfirmationComplete
  <2>1. head[n] \in BlockType /\ TimesOrdered(head[n])
    BY <1>1 DEF ChainInv, NodeInv, NodeOK, Chain
  <2>2. Len(SubSeq(head[n], 1, i)) \in Nat
    BY <2>1, PrefixIs, HeaderTypes
  <2> QED
    BY <2>1, <2>2, ConfirmationLoop
<1> QED
  BY <1>1, ChainInvHolds, PTL

(* No step, a crash included, takes a confirmed header back to a lower     *)
(* number.                                                                 *)
THEOREM ConfirmedNeverBack == Spec => ConfirmedNeverGoesBack
<1>1. ASSUME ChainInv, [Next]_vars
      PROVE  \A n \in Node : Len(loadConfirmedBlockHeader(n)') >= Len(loadConfirmedBlockHeader(n))
  <2> SUFFICES ASSUME NEW n \in Node
               PROVE  Len(loadConfirmedBlockHeader(n)') >= Len(loadConfirmedBlockHeader(n))
    OBVIOUS
  <2>1. NotBack(n)
    BY <1>1, NextInv
  <2>2. loadConfirmedBlockHeader(n)' = Loaded(confirmed'[n], stored'[n])
    BY DEF loadConfirmedBlockHeader, Loaded
  <2> QED
    BY <2>1, <2>2, LoadedIs DEF NotBack
<1> QED
  BY <1>1, ChainInvHolds, PTL DEF Spec, ConfirmedNeverGoesBack
=============================================================================
