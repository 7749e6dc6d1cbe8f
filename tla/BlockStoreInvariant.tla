------------------------ MODULE BlockStoreInvariant -------------------------
(***************************************************************************)
(* The inductive invariant of the block database, and that the start, the  *)
(* stop, the crashes, the first round of an import and the inserts of a    *)
(* reorganisation keep it. What the properties say of the head in memory   *)
(* rests on what is on disk: the stored head may be above the head in      *)
(* memory, as after a repair, and an import under way may leave the head   *)
(* on a chain it is about to replace. So the invariant says that the head  *)
(* in memory is an ancestor of the stored one with no state in between but *)
(* for what is being inserted, that the index follows the stored heads,    *)
(* and that what is inserted is a branch off the head's chain whose last   *)
(* block has a state. It holds for block trees of any size, any number of  *)
(* states in memory, archive nodes and pruning ones.                       *)
(***************************************************************************)
EXTENDS BlockStore, WellFoundedInduction, TLAPS

-----------------------------------------------------------------------------
(* Two sequences are equal when their elements are.                        *)
LEMMA SameSeq ==
  ASSUME NEW S, NEW s \in Seq(S), NEW t \in Seq(S), Len(s) = Len(t),
         \A i \in 1 .. Len(s) : s[i] = t[i]
  PROVE  s = t
<1>1. s = [i \in 1 .. Len(s) |-> s[i]] /\ t = [i \in 1 .. Len(t) |-> t[i]]
  OBVIOUS
<1> QED
  BY <1>1

(* Two facts about ranges of numbers.                                      *)
LEMMA UpTo ==
  ASSUME NEW k \in Nat, NEW m \in Nat, m >= k + 1
  PROVE  k + 1 \in 0 .. m
OBVIOUS

LEMMA LastOf ==
  ASSUME NEW m \in Nat, NEW k \in 0 .. m, k # m
  PROVE  m > k
OBVIOUS

-----------------------------------------------------------------------------
(* Chains: what Ancestor, Ancestors and Branch return.                     *)

Letters == UNION {Range(b) : b \in Blocks}

(* A block is a sequence, its number a natural number.                     *)
LEMMA BlockIsSeq ==
  ASSUME NEW b \in Blocks
  PROVE  b \in Seq(Letters) /\ Len(b) \in Nat
BY BlocksAssumption DEF Letters

(* The ancestor with number n is a block and has that number; genesis has  *)
(* number 0 and is every block's ancestor.                                 *)
LEMMA AncestorIsBlock ==
  ASSUME NEW b \in Blocks, NEW n \in 0 .. Len(b)
  PROVE  /\ Ancestor(b, n) \in Blocks
         /\ Ancestor(b, n) \in Ancestors(b)
         /\ Len(Ancestor(b, n)) = n
<1>1. b \in Seq(Letters) /\ Len(b) \in Nat
  BY BlockIsSeq
<1>2. Ancestor(b, n) \in Ancestors(b)
  BY DEF Ancestors
<1>3. Ancestor(b, n) \in Blocks
  BY <1>2, BlocksAssumption
<1>4. \A i \in 1 .. n : b[i] \in Letters
  BY <1>1
<1>5. Len(SubSeq(b, 1, n)) = IF 1 <= n THEN n - 1 + 1 ELSE 0
  BY <1>1, <1>4
<1> QED
  BY <1>1, <1>2, <1>3, <1>5 DEF Ancestor

(* The ancestors of an ancestor are ancestors, with the same numbers.      *)
LEMMA AncestorOfAncestor ==
  ASSUME NEW b \in Blocks, NEW n \in 0 .. Len(b), NEW m \in 0 .. n
  PROVE  Ancestor(Ancestor(b, n), m) = Ancestor(b, m)
<1>1. b \in Seq(Letters) /\ Len(b) \in Nat
  BY BlockIsSeq
<1>2. m \in 0 .. Len(b)
  BY <1>1
<1>3. CASE m = 0
  BY <1>1, <1>2, <1>3 DEF Ancestor
<1>4. CASE m # 0
  <2>1. /\ 1 \in 1 .. Len(b) /\ n \in 1 .. Len(b)
        /\ 1 \in 1 .. n - 1 + 1 /\ m \in 1 .. n - 1 + 1
    BY <1>1, <1>4
  <2>2. SubSeq(SubSeq(b, 1, n), 1, m) = SubSeq(b, 1 + 1 - 1, 1 + m - 1)
    BY <1>1, <2>1
  <2> QED
    BY <1>1, <2>2 DEF Ancestor
<1> QED
  BY <1>3, <1>4

(* A block is its own highest ancestor, genesis its lowest, and its parent *)
(* the one below itself.                                                   *)
LEMMA AncestorEnds ==
  ASSUME NEW b \in Blocks
  PROVE  /\ Ancestor(b, Len(b)) = b
         /\ Ancestor(b, 0) = Genesis
         /\ b # Genesis => Len(b) > 0 /\ Parent(b) = Ancestor(b, Len(b) - 1)
<1>1. b \in Seq(Letters) /\ Len(b) \in Nat
  BY BlockIsSeq
<1>2. Ancestor(b, Len(b)) = b
  BY <1>1 DEF Ancestor
<1>3. Ancestor(b, 0) = Genesis
  BY <1>1 DEF Ancestor, Genesis
<1>4. b # Genesis => Len(b) > 0
  BY <1>1 DEF Genesis
<1>5. Parent(b) = Ancestor(b, Len(b) - 1)
  BY DEF Parent, Ancestor
<1> QED
  BY <1>2, <1>3, <1>4, <1>5

(* An ancestor is the one its number names, its own ancestors are          *)
(* ancestors too, and of two ancestors the lower is one of the higher.     *)
LEMMA AncestorsAreChain ==
  ASSUME NEW b \in Blocks, NEW c \in Ancestors(b)
  PROVE  /\ c \in Blocks /\ Len(c) \in 0 .. Len(b) /\ c = Ancestor(b, Len(c))
         /\ \A m \in 0 .. Len(c) : Ancestor(c, m) = Ancestor(b, m)
         /\ Ancestors(c) \subseteq Ancestors(b)
         /\ \A e \in Ancestors(b) : Len(e) <= Len(c) => e \in Ancestors(c)
         /\ Len(b) <= Len(c) => c = b
<1>1. PICK n \in 0 .. Len(b) : c = Ancestor(b, n)
  BY DEF Ancestors
<1>2. Len(b) \in Nat /\ c \in Blocks /\ Len(c) = n
  BY <1>1, BlockIsSeq, AncestorIsBlock
<1>3. \A m \in 0 .. n : Ancestor(c, m) = Ancestor(b, m)
  BY <1>1, AncestorOfAncestor
<1>4. Ancestors(c) \subseteq Ancestors(b)
  BY <1>2, <1>3 DEF Ancestors
<1>5. ASSUME NEW e \in Ancestors(b), Len(e) <= Len(c)
      PROVE  e \in Ancestors(c)
  <2>1. PICK m \in 0 .. Len(b) : e = Ancestor(b, m)
    BY DEF Ancestors
  <2>2. Len(e) = m
    BY <2>1, AncestorIsBlock
  <2> QED
    BY <1>2, <1>3, <1>5, <2>1, <2>2 DEF Ancestors
<1>6. Len(b) <= Len(c) => c = b
  BY <1>1, <1>2, AncestorEnds
<1> QED
  BY <1>1, <1>2, <1>3, <1>4, <1>5, <1>6

(* A block and genesis are among its ancestors, which are blocks.          *)
LEMMA OwnAncestor ==
  ASSUME NEW b \in Blocks
  PROVE  b \in Ancestors(b) /\ Genesis \in Ancestors(b) /\ Ancestors(b) \subseteq Blocks
<1>1. Len(b) \in 0 .. Len(b) /\ 0 \in 0 .. Len(b)
  BY BlockIsSeq
<1> QED
  BY <1>1, AncestorIsBlock, AncestorEnds, BlocksAssumption

-----------------------------------------------------------------------------
(* Branch lists the ancestors above a number, lowest first.                *)
LEMMA BranchIsChain ==
  ASSUME NEW tip \in Blocks, NEW k \in 0 .. Len(tip)
  PROVE  /\ Branch(tip, k) \in Seq(Blocks)
         /\ Len(Branch(tip, k)) = Len(tip) - k
         /\ Branch(tip, k) = <<>> <=> k = Len(tip)
         /\ Range(Branch(tip, k)) = {Ancestor(tip, m) : m \in k + 1 .. Len(tip)}
         /\ k < Len(tip) => /\ Head(Branch(tip, k)) = Ancestor(tip, k + 1)
                            /\ Tail(Branch(tip, k)) = Branch(tip, k + 1)
<1>1. Len(tip) \in Nat /\ k \in Nat /\ Len(tip) - k \in Nat
  BY BlockIsSeq
<1>2. \A i \in 1 .. Len(tip) - k : Ancestor(tip, k + i) \in Blocks
  BY <1>1, AncestorIsBlock
<1>3. Branch(tip, k) \in Seq(Blocks) /\ Len(Branch(tip, k)) = Len(tip) - k
  BY <1>1, <1>2 DEF Branch
<1>4. Branch(tip, k) = <<>> <=> k = Len(tip)
  BY <1>1, <1>3
<1>5. Range(Branch(tip, k)) = {Ancestor(tip, m) : m \in k + 1 .. Len(tip)}
  <2>1. DOMAIN Branch(tip, k) = 1 .. Len(tip) - k
    BY DEF Branch
  <2>2. Range(Branch(tip, k)) = {Ancestor(tip, k + i) : i \in 1 .. Len(tip) - k}
    BY <2>1 DEF Range, Branch
  <2>3. ASSUME NEW m \in k + 1 .. Len(tip)
        PROVE  \E i \in 1 .. Len(tip) - k : Ancestor(tip, m) = Ancestor(tip, k + i)
    <3>1. m - k \in 1 .. Len(tip) - k /\ k + (m - k) = m
      BY <1>1
    <3> QED
      BY <3>1
  <2>4. \A i \in 1 .. Len(tip) - k : k + i \in k + 1 .. Len(tip)
    BY <1>1
  <2> QED
    BY <2>2, <2>3, <2>4, Zenon
<1>6. ASSUME k < Len(tip)
      PROVE  /\ Head(Branch(tip, k)) = Ancestor(tip, k + 1)
             /\ Tail(Branch(tip, k)) = Branch(tip, k + 1)
  <2>1. Head(Branch(tip, k)) = Ancestor(tip, k + 1)
    BY <1>1, <1>3, <1>6 DEF Branch
  <2>2. Len(Tail(Branch(tip, k))) = Len(tip) - (k + 1)
    BY <1>1, <1>3, <1>6
  <2>3. \A i \in 1 .. Len(tip) - (k + 1) : Tail(Branch(tip, k))[i] = Ancestor(tip, (k + 1) + i)
    <3> SUFFICES ASSUME NEW i \in 1 .. Len(tip) - (k + 1)
                 PROVE  Tail(Branch(tip, k))[i] = Ancestor(tip, (k + 1) + i)
      BY Zenon
    <3>1. Tail(Branch(tip, k))[i] = Branch(tip, k)[i + 1]
      BY <1>1, <1>3, <1>6
    <3>2. Branch(tip, k)[i + 1] = Ancestor(tip, k + (i + 1)) /\ k + (i + 1) = (k + 1) + i
      BY <1>1 DEF Branch
    <3> QED
      BY <3>1, <3>2, Zenon
  <2>4. Tail(Branch(tip, k)) \in Seq(Blocks)
    BY <1>1, <1>3, <1>6
  <2>5. \A i \in 1 .. Len(tip) - (k + 1) : Ancestor(tip, (k + 1) + i) \in Blocks
    BY <1>1, AncestorIsBlock
  <2>6. /\ Branch(tip, k + 1) \in Seq(Blocks)
        /\ Len(Branch(tip, k + 1)) = Len(tip) - (k + 1)
        /\ \A i \in 1 .. Len(tip) - (k + 1) : Branch(tip, k + 1)[i] = Ancestor(tip, (k + 1) + i)
    BY <1>1, <1>6, <2>5 DEF Branch
  <2>7. Tail(Branch(tip, k)) = Branch(tip, k + 1)
    BY <2>2, <2>3, <2>4, <2>6, SameSeq, Zenon
  <2> QED
    BY <2>1, <2>7
<1> QED
  BY <1>3, <1>4, <1>5, <1>6

(* Induction on the natural numbers, for a set.                            *)
LEMMA SetInduction ==
  ASSUME NEW T \in SUBSET Nat, 0 \in T, \A n \in T : n + 1 \in T
  PROVE  T = Nat
<1> SUFFICES ASSUME Nat \ T # {} PROVE FALSE
  BY Zenon
<1>1. PICK x \in Nat \ T : \A y \in Nat \ T : ~(<<y, x>> \in OpToRel(<, Nat))
  BY NatLessThanWellFounded, WFMin, Zenon
<1>2. x # 0 /\ x - 1 \in Nat
  OBVIOUS
<1>3. x - 1 \in T
  <2>1. <<x - 1, x>> \in OpToRel(<, Nat)
    BY <1>2 DEF OpToRel
  <2> QED
    BY <1>1, <1>2, <2>1, Zenon
<1> QED
  BY <1>2, <1>3

(* Of some numbers up to N, one is the highest.                            *)
LEMMA HighestExists ==
  ASSUME NEW N \in Nat, NEW S, NEW x \in 0 .. N, x \in S
  PROVE  \E n \in 0 .. N : n \in S /\ \A m \in n + 1 .. N : m \notin S
<1> DEFINE T == {d \in Nat : \/ d > N
                             \/ \E n \in 0 .. N : n \in S /\ \A m \in n + 1 .. N : m \notin S
                             \/ \A m \in N - d .. N : m \notin S}
<1>1. CASE \E n \in 0 .. N : n \in S /\ \A m \in n + 1 .. N : m \notin S
  BY <1>1
<1>2. CASE ~ \E n \in 0 .. N : n \in S /\ \A m \in n + 1 .. N : m \notin S
  <2>1. 0 \in T
    <3>1. N \notin S
      BY <1>2
    <3> QED
      BY <3>1
  <2>2. ASSUME NEW d \in T PROVE d + 1 \in T
    <3>1. CASE d + 1 > N
      BY <3>1
    <3>2. CASE d + 1 <= N
      <4>1. \A m \in N - d .. N : m \notin S
        BY <1>2, <3>2
      <4>2. N - (d + 1) \in 0 .. N
        BY <3>2
      <4>3. \A m \in (N - (d + 1)) + 1 .. N : m \notin S
        BY <4>1
      <4>4. N - (d + 1) \notin S
        BY <1>2, <4>2, <4>3
      <4>5. \A m \in N - (d + 1) .. N : m \notin S
        BY <4>3, <4>4, <4>2
      <4> QED
        BY <4>5
    <3> QED
      BY <3>1, <3>2
  <2>3. N \in T
    <3>1. T \in SUBSET Nat
      OBVIOUS
    <3> HIDE DEF T
    <3> QED
      BY <2>1, <2>2, <3>1, SetInduction
  <2> QED
    BY <1>2, <2>3
<1> QED
  BY <1>1, <1>2

-----------------------------------------------------------------------------
(* Choosing the highest: repair, the common ancestor, the base of a walk.  *)

Highest(b, S) ==
  CHOOSE c \in Ancestors(b) :
    /\ c \in S
    /\ \A e \in Ancestors(b) : e \in S => Len(e) <= Len(c)

(* The highest ancestor of a kind is there when genesis is of that kind,   *)
(* and there is only one.                                                  *)
LEMMA HighestIs ==
  ASSUME NEW b \in Blocks, NEW S, Genesis \in S
  PROVE  /\ Highest(b, S) \in Ancestors(b) /\ Highest(b, S) \in S
         /\ \A e \in Ancestors(b) : e \in S => Len(e) <= Len(Highest(b, S))
         /\ \A c \in Ancestors(b) :
              c \in S /\ (\A e \in Ancestors(b) : e \in S => Len(e) <= Len(c))
                => c = Highest(b, S)
<1> DEFINE N == {n \in 0 .. Len(b) : Ancestor(b, n) \in S}
           Is(c) == c \in S /\ \A e \in Ancestors(b) : e \in S => Len(e) <= Len(c)
<1>1. Len(b) \in Nat /\ 0 \in 0 .. Len(b) /\ 0 \in N
  BY BlockIsSeq, AncestorEnds
<1>2. PICK n \in 0 .. Len(b) : n \in N /\ \A m \in n + 1 .. Len(b) : m \notin N
  BY <1>1, HighestExists, Zenon
<1>3. Ancestor(b, n) \in Ancestors(b) /\ Len(Ancestor(b, n)) = n
  BY AncestorIsBlock
<1>4. Is(Ancestor(b, n))
  <2> SUFFICES ASSUME NEW e \in Ancestors(b), e \in S PROVE Len(e) <= n
    BY <1>2, <1>3
  <2>1. Len(e) \in 0 .. Len(b) /\ e = Ancestor(b, Len(e))
    BY AncestorsAreChain
  <2>2. Len(e) \in N
    BY <2>1
  <2> QED
    BY <1>1, <1>2, <2>1, <2>2
<1>5. \E c \in Ancestors(b) : Is(c)
  BY <1>3, <1>4
<1>6. Highest(b, S) \in Ancestors(b) /\ Is(Highest(b, S))
  BY <1>5 DEF Highest
<1>7. ASSUME NEW c \in Ancestors(b), Is(c) PROVE c = Highest(b, S)
  <2>1. /\ Len(c) \in 0 .. Len(b) /\ c = Ancestor(b, Len(c))
        /\ Len(Highest(b, S)) \in 0 .. Len(b)
        /\ Highest(b, S) = Ancestor(b, Len(Highest(b, S)))
    BY <1>6, AncestorsAreChain
  <2>2. Len(c) = Len(Highest(b, S))
    BY <1>1, <1>6, <1>7, <2>1
  <2> QED
    BY <2>1, <2>2
<1> QED
  BY <1>6, <1>7

(* Two chains agree up to the number CommonLength finds, and not above it. *)
LEMMA CommonIs ==
  ASSUME NEW b \in Blocks, NEW c \in Blocks
  PROVE  /\ CommonLength(b, c) \in 0 .. Len(b) /\ CommonLength(b, c) \in 0 .. Len(c)
         /\ \A m \in 0 .. CommonLength(b, c) : Ancestor(b, m) = Ancestor(c, m)
         /\ \A m \in CommonLength(b, c) + 1 .. Len(b) : Ancestor(b, m) \notin Ancestors(c)
<1> DEFINE N == {n \in 0 .. Len(b) : Ancestor(b, n) \in Ancestors(c)}
           Is(n) == /\ Ancestor(b, n) \in Ancestors(c)
                    /\ \A m \in n + 1 .. Len(b) : Ancestor(b, m) \notin Ancestors(c)
<1>1. Len(b) \in Nat /\ Len(c) \in Nat /\ 0 \in 0 .. Len(b) /\ 0 \in N
  BY BlockIsSeq, AncestorEnds, OwnAncestor
<1>2. PICK n \in 0 .. Len(b) : n \in N /\ \A m \in n + 1 .. Len(b) : m \notin N
  BY <1>1, HighestExists, Zenon
<1>3. Is(n)
  <2>1. \A m \in n + 1 .. Len(b) : m \in 0 .. Len(b)
    BY <1>1
  <2> QED
    BY <1>2, <2>1
<1>4. CommonLength(b, c) \in 0 .. Len(b) /\ Is(CommonLength(b, c))
  BY <1>3 DEF CommonLength
<1> DEFINE k == CommonLength(b, c)
<1> HIDE DEF k
<1>5. k \in 0 .. Len(b) /\ Is(k)
  BY <1>4 DEF k
<1>6. Len(Ancestor(b, k)) = k /\ k \in 0 .. Len(c)
  BY <1>5, AncestorIsBlock, AncestorsAreChain
<1>7. ASSUME NEW m \in 0 .. k PROVE Ancestor(b, m) = Ancestor(c, m)
  <2>1. Ancestor(Ancestor(b, k), m) = Ancestor(b, m)
    BY <1>5, AncestorOfAncestor
  <2>2. Ancestor(Ancestor(b, k), m) = Ancestor(c, m)
    BY <1>5, <1>6, AncestorsAreChain
  <2> QED
    BY <2>1, <2>2
<1> QED
  BY <1>5, <1>6, <1>7 DEF k

(* The walk of ImportPruned ends: genesis has a state.                     *)
LEMMA BaseIs ==
  ASSUME NEW b \in Blocks, b # Genesis, Genesis \in onDisk
  PROVE  Base(b) \in 0 .. Len(b) - 1
<1> DEFINE N == {n \in 0 .. Len(b) - 1 : HasState(Ancestor(b, n))}
           Is(n) == /\ HasState(Ancestor(b, n))
                    /\ \A m \in n + 1 .. Len(b) - 1 : ~HasState(Ancestor(b, m))
<1>1. Len(b) - 1 \in Nat /\ 0 \in 0 .. Len(b) - 1 /\ 0 \in N
  BY BlockIsSeq, AncestorEnds DEF HasState
<1>2. PICK n \in 0 .. Len(b) - 1 : n \in N /\ \A m \in n + 1 .. Len(b) - 1 : m \notin N
  <2> DEFINE top == Len(b) - 1
  <2> HIDE DEF top, N
  <2>1. \E n \in 0 .. top : n \in N /\ \A m \in n + 1 .. top : m \notin N
    BY <1>1, HighestExists, Zenon DEF top
  <2> QED
    BY <2>1 DEF top
<1>3. Is(n)
  <2>1. \A m \in n + 1 .. Len(b) - 1 : m \in 0 .. Len(b) - 1
    BY <1>1
  <2> QED
    BY <1>2, <2>1
<1>4. \E x \in 0 .. Len(b) - 1 : Is(x)
  BY <1>3
<1> QED
  BY <1>4, Zenon DEF Base

-----------------------------------------------------------------------------
(* The states in memory: what the garbage collection keeps and writes.     *)

(* The elements of a sequence of blocks are blocks.                        *)
LEMMA RangeIs ==
  ASSUME NEW S, NEW s \in Seq(S)
  PROVE  Range(s) = {s[i] : i \in 1 .. Len(s)} /\ Range(s) \subseteq S
BY DEF Range

(* A state added to those in memory is in memory.                          *)
LEMMA AppendIs ==
  ASSUME NEW S, NEW s \in Seq(S), NEW e \in S
  PROVE  /\ Append(s, e) \in Seq(S)
         /\ Range(Append(s, e)) = Range(s) \cup {e}
         /\ IsInjective(s) /\ e \notin Range(s) => IsInjective(Append(s, e))
<1>1. /\ Append(s, e) \in Seq(S) /\ Len(Append(s, e)) = Len(s) + 1 /\ Len(s) \in Nat
      /\ \A i \in 1 .. Len(s) : Append(s, e)[i] = s[i]
      /\ Append(s, e)[Len(s) + 1] = e
  OBVIOUS
<1>2. DOMAIN s = 1 .. Len(s) /\ DOMAIN Append(s, e) = 1 .. Len(s) + 1
  BY <1>1
<1>3. Range(Append(s, e)) = Range(s) \cup {e}
  <2>1. \A i \in 1 .. Len(s) + 1 : i \in 1 .. Len(s) \/ i = Len(s) + 1
    BY <1>1
  <2>2. \A i \in 1 .. Len(s) : i \in 1 .. Len(s) + 1
    BY <1>1
  <2>3. Len(s) + 1 \in 1 .. Len(s) + 1
    BY <1>1
  <2> QED
    BY <1>1, <1>2, <2>1, <2>2, <2>3 DEF Range
<1>4. ASSUME IsInjective(s), e \notin Range(s) PROVE IsInjective(Append(s, e))
  <2>1. \A i \in 1 .. Len(s) : s[i] # e
    BY <1>2, <1>4 DEF Range
  <2> QED
    BY <1>1, <1>2, <1>4, <2>1 DEF IsInjective
<1> QED
  BY <1>1, <1>3, <1>4

(* A stretch of the states in memory holds none twice, and none that is    *)
(* not there.                                                              *)
LEMMA SubSeqIs ==
  ASSUME NEW S, NEW s \in Seq(S), NEW m \in 1 .. Len(s) + 1, NEW n \in 0 .. Len(s)
  PROVE  /\ SubSeq(s, m, n) \in Seq(S)
         /\ Range(SubSeq(s, m, n)) = {s[i] : i \in m .. n}
         /\ IsInjective(s) => IsInjective(SubSeq(s, m, n))
<1> DEFINE t == SubSeq(s, m, n)
<1>1. Len(s) \in Nat /\ DOMAIN s = 1 .. Len(s) /\ \A i \in m .. n : s[i] \in S
  OBVIOUS
<1>2. t \in Seq(S) /\ Len(t) = IF m <= n THEN n - m + 1 ELSE 0
  BY <1>1
<1>3. \A i \in 1 .. n - m + 1 : t[i] = s[m + i - 1]
  BY <1>1
<1> HIDE DEF t
<1>4. DOMAIN t = 1 .. n - m + 1
  BY <1>2
<1>5. Range(t) = {s[i] : i \in m .. n}
  <2>1. \A i \in 1 .. n - m + 1 : m + i - 1 \in m .. n
    OBVIOUS
  <2>2. ASSUME NEW i \in m .. n PROVE \E j \in 1 .. n - m + 1 : t[j] = s[i]
    <3>1. i - m + 1 \in 1 .. n - m + 1 /\ m + (i - m + 1) - 1 = i
      OBVIOUS
    <3> QED
      BY <1>3, <3>1, Zenon
  <2>3. Range(t) = {t[j] : j \in 1 .. n - m + 1}
    BY <1>4 DEF Range
  <2>4. Range(t) \subseteq {s[i] : i \in m .. n}
    BY <1>3, <2>1, <2>3
  <2>5. {s[i] : i \in m .. n} \subseteq Range(t)
    BY <2>2, <2>3, Zenon
  <2> QED
    BY <2>4, <2>5, Zenon
<1>6. ASSUME IsInjective(s) PROVE IsInjective(t)
  <2> SUFFICES ASSUME NEW i \in 1 .. n - m + 1, NEW j \in 1 .. n - m + 1, t[i] = t[j]
               PROVE  i = j
    BY <1>4 DEF IsInjective
  <2>1. m + i - 1 \in 1 .. Len(s) /\ m + j - 1 \in 1 .. Len(s)
    BY <1>1
  <2>2. s[m + i - 1] = s[m + j - 1]
    BY <1>3
  <2> QED
    BY <1>1, <1>6, <2>1, <2>2 DEF IsInjective
<1> QED
  BY <1>2, <1>5, <1>6 DEF t

(* One step of TriesAbove.                                                 *)
Sieve(tries, number, i, rest) ==
  IF i = 0 THEN <<>>
  ELSE IF Len(tries[i]) > number THEN Append(rest, tries[i])
  ELSE rest

(* The function above of TriesAbove, for the first N tries.                *)
IsSieve(w, tries, number, N) == w = [i \in 0 .. N |-> Sieve(tries, number, i, w[i - 1])]

(* The recursion of TriesAbove defines a function.                         *)
LEMMA SieveExists ==
  ASSUME NEW tries, NEW number, NEW N \in Nat
  PROVE  \E w : IsSieve(w, tries, number, N)
<1> DEFINE T == {n \in Nat : \E w : w = [i \in 0 .. n |-> Sieve(tries, number, i, w[i - 1])]}
<1>1. 0 \in T
  <2> DEFINE w == [i \in 0 .. 0 |-> Sieve(tries, number, i, <<>>)]
  <2>1. w = [i \in 0 .. 0 |-> Sieve(tries, number, i, w[i - 1])]
    BY DEF Sieve
  <2> QED
    BY <2>1
<1>2. ASSUME NEW n \in T PROVE n + 1 \in T
  <2>1. PICK v : v = [i \in 0 .. n |-> Sieve(tries, number, i, v[i - 1])]
    OBVIOUS
  <2>2. \A i \in 0 .. n : v[i] = Sieve(tries, number, i, v[i - 1])
    BY <2>1
  <2> DEFINE w == [i \in 0 .. n + 1 |-> Sieve(tries, number, i, v[i - 1])]
  <2>3. \A i \in 0 .. n : w[i] = v[i]
    BY <2>2
  <2>4. \A i \in 0 .. n + 1 : Sieve(tries, number, i, v[i - 1]) = Sieve(tries, number, i, w[i - 1])
    <3> SUFFICES ASSUME NEW i \in 0 .. n + 1
                 PROVE  Sieve(tries, number, i, v[i - 1]) = Sieve(tries, number, i, w[i - 1])
      BY Zenon
    <3>1. CASE i = 0
      BY <3>1 DEF Sieve
    <3>2. CASE i # 0
      <4>1. i - 1 \in 0 .. n
        BY <3>2
      <4> HIDE DEF w
      <4> QED
        BY <2>3, <4>1
    <3> QED
      BY <3>1, <3>2
  <2>5. w = [i \in 0 .. n + 1 |-> Sieve(tries, number, i, w[i - 1])]
    BY <2>4, Zenon
  <2> HIDE DEF w
  <2>6. \E x : x = [i \in 0 .. n + 1 |-> Sieve(tries, number, i, x[i - 1])]
    BY <2>5, Zenon
  <2>7. n + 1 \in Nat
    OBVIOUS
  <2> QED
    BY <2>6, <2>7
<1>3. N \in T
  <2>1. T \in SUBSET Nat
    OBVIOUS
  <2> HIDE DEF T
  <2> QED
    BY <1>1, <1>2, <2>1, SetInduction
<1> QED
  BY <1>3 DEF IsSieve

(* TriesAbove keeps exactly the tries above the number.                    *)
LEMMA TriesAboveIs ==
  ASSUME NEW tries \in Seq(Blocks), NEW number \in Int
  PROVE  /\ TriesAbove(tries, number) \in Seq(Blocks)
         /\ Range(TriesAbove(tries, number)) = {c \in Range(tries) : Len(c) > number}
         /\ IsInjective(tries) => IsInjective(TriesAbove(tries, number))
<1> DEFINE w == CHOOSE x : x = [i \in 0 .. Len(tries) |-> Sieve(tries, number, i, x[i - 1])]
<1>1. Len(tries) \in Nat /\ DOMAIN tries = 1 .. Len(tries)
  OBVIOUS
<1>2. w = [i \in 0 .. Len(tries) |-> Sieve(tries, number, i, w[i - 1])]
  <2>1. \E x : IsSieve(x, tries, number, Len(tries))
    BY <1>1, SieveExists, Zenon
  <2> QED
    BY <2>1, Zenon DEF IsSieve
<1>3. TriesAbove(tries, number) = w[Len(tries)]
  BY DEF TriesAbove, Sieve
<1> HIDE DEF w
<1>4. \A i \in 0 .. Len(tries) : w[i] = Sieve(tries, number, i, w[i - 1])
  BY <1>2
<1> DEFINE Up(i) == {tries[j] : j \in {j \in 1 .. i : Len(tries[j]) > number}}
           P(i) == /\ w[i] \in Seq(Blocks)
                   /\ Range(w[i]) = Up(i)
                   /\ IsInjective(tries) => IsInjective(w[i])
           T == {i \in Nat : i <= Len(tries) => P(i)}
<1>5. 0 \in T
  <2>1. w[0] = <<>>
    BY <1>1, <1>4 DEF Sieve
  <2>2. <<>> \in Seq(Blocks) /\ Len(<<>>) = 0 /\ DOMAIN <<>> = {}
    OBVIOUS
  <2>3. Range(<<>>) = {} /\ IsInjective(<<>>)
    BY <2>2 DEF Range, IsInjective
  <2>4. Up(0) = {}
    OBVIOUS
  <2> QED
    BY <2>1, <2>2, <2>3, <2>4, Zenon
<1>6. ASSUME NEW i \in T PROVE i + 1 \in T
  <2> SUFFICES ASSUME i + 1 <= Len(tries) PROVE P(i + 1)
    OBVIOUS
  <2>1. /\ P(i) /\ i + 1 \in 1 .. Len(tries) /\ tries[i + 1] \in Blocks /\ (i + 1) - 1 = i
        /\ i \in Nat
    BY <1>1
  <2>2. w[i + 1] = IF Len(tries[i + 1]) > number THEN Append(w[i], tries[i + 1]) ELSE w[i]
    BY <1>4, <2>1 DEF Sieve
  <2>3. Up(i + 1) = IF Len(tries[i + 1]) > number THEN Up(i) \cup {tries[i + 1]} ELSE Up(i)
    <3>1. \A j \in 1 .. i + 1 : j \in 1 .. i \/ j = i + 1
      BY <2>1
    <3>2. \A j \in 1 .. i : j \in 1 .. i + 1
      BY <2>1
    <3>3. i + 1 \in 1 .. i + 1
      BY <2>1
    <3> QED
      BY <3>1, <3>2, <3>3
  <2>4. IsInjective(tries) => tries[i + 1] \notin Up(i)
    <3> SUFFICES ASSUME IsInjective(tries), NEW j \in 1 .. i, tries[i + 1] = tries[j]
                 PROVE  FALSE
      OBVIOUS
    <3> QED
      BY <1>1, <2>1 DEF IsInjective
  <2> HIDE DEF Up
  <2>5. CASE Len(tries[i + 1]) > number
    <3>1. /\ Append(w[i], tries[i + 1]) \in Seq(Blocks)
          /\ Range(Append(w[i], tries[i + 1])) = Range(w[i]) \cup {tries[i + 1]}
          /\ IsInjective(w[i]) /\ tries[i + 1] \notin Range(w[i])
               => IsInjective(Append(w[i], tries[i + 1]))
      BY <2>1, AppendIs
    <3> QED
      BY <2>1, <2>2, <2>3, <2>4, <2>5, <3>1, Zenon
  <2>6. CASE ~(Len(tries[i + 1]) > number)
    BY <2>1, <2>2, <2>3, <2>6
  <2> QED
    BY <2>5, <2>6
<1>7. P(Len(tries))
  <2>1. T \in SUBSET Nat
    OBVIOUS
  <2> HIDE DEF T
  <2>2. Len(tries) \in T
    BY <1>1, <1>5, <1>6, <2>1, SetInduction
  <2> QED
    BY <1>1, <2>2 DEF T
<1>8. Up(Len(tries)) = {c \in Range(tries) : Len(c) > number}
  BY <1>1 DEF Range
<1> QED
  BY <1>3, <1>7, <1>8

-----------------------------------------------------------------------------
(* The inductive invariant, in parts.                                      *)

(* What a process that ended has left in memory: nothing.                  *)
NothingInMemory ==
  status # "up" => triegc = <<>> /\ work = <<>> /\ inserts = <<>>

(* Genesis is never lost, and an index entry has the number it stands at.  *)
Rooted ==
  /\ Genesis \in known /\ Genesis \in onDisk /\ Genesis \in dpos
  /\ \A n \in Numbers : canonical[n] = None \/ Len(canonical[n]) = n

(* The DPoS tries of a block are there with those of its ancestors, and on *)
(* an archive node with its state.                                         *)
DposComplete ==
  /\ \A b \in dpos : Ancestors(b) \subseteq dpos
  /\ stored.block \in dpos /\ stored.header \in dpos
  /\ Range(inserts) \subseteq dpos
  /\ Archive => dpos \subseteq onDisk /\ triegc = <<>>

(* The chains of the heads, and of what becomes the head, are stored.      *)
ChainsKnown ==
  /\ Ancestors(stored.block) \subseteq known
  /\ Ancestors(stored.header) \subseteq known
  /\ \A b \in Range(inserts) : Ancestors(b) \subseteq known
  /\ \A b \in Range(work) : b # Genesis /\ Parent(b) \in known

(* The head in memory is the stored one or, repaired, an ancestor of it;   *)
(* what lies above it there has no state, but for what is being inserted.  *)
HeadBelowStored ==
  status = "up" =>
    /\ current.block \in Ancestors(stored.block)
    /\ current.header = stored.header
    /\ \A b \in Ancestors(stored.block) :
         HasState(b) /\ Len(b) > Len(current.block) => b \in Range(inserts)

(* What is being inserted leads from the head's chain to a block that has  *)
(* a state; the transactions it loses are none of that block's chain, nor, *)
(* unless the next insert moves it, of the head header's.                  *)
Switching(tip, k) ==
  /\ inserts = Branch(tip, k)
  /\ Ancestor(tip, k) \in Ancestors(current.block)
  /\ \A b \in Ancestors(tip) : TxsOf[b] \cap obsolete = {}
  /\ \/ TornWrites \/ obsolete = {}
     \/ stored.header \in Ancestors(tip)
     \/ k < Len(tip) /\ canonical[k + 1] # Ancestor(tip, k + 1)
  /\ k < Len(tip) => HasState(tip)

InsertsSwitch ==
  /\ \E tip \in Blocks : \E k \in 0 .. Len(tip) : Switching(tip, k)
  /\ inserts = <<>> => obsolete = {}

(* The index and the lookup entries follow the heads on disk.              *)
Follows(b) == \A n \in 0 .. Len(b) : canonical[n] = Ancestor(b, n)
Finds(b) == \A c \in Ancestors(b) : \A t \in TxsOf[c] : lookup[t] = c
IndexFollowsStored ==
  ~TornWrites =>
    /\ Follows(stored.block) /\ Follows(stored.header)
    /\ Finds(stored.block) /\ Finds(stored.header)

(* Without rewinds, no block is stored without its ancestors, and the head *)
(* has its state between two imports of a block.                           *)
NeverCut ==
  Rewinds = {} =>
    /\ \A b \in known : Ancestors(b) \subseteq known
    /\ status = "up" /\ inserts = <<>> => HasState(current.block)

(* Without rewinds and torn inserts, the index has every number up to that *)
(* of a block that has a state, unless it is being inserted.               *)
Filled(b) == \A n \in 1 .. Len(b) : canonical[n] # None
IndexCoversStates ==
  Rewinds = {} /\ ~TornWrites =>
    /\ ~Archive => /\ \A b \in onDisk : Filled(b)
                   /\ \A b \in InMemory : Filled(b) \/ b \in Range(inserts)
    /\ CleanStopKeepsHead
    /\ ImportsNeverPanic

Inv ==
  /\ TypeOK /\ NothingInMemory /\ Rooted /\ DposComplete /\ ChainsKnown
  /\ HeadBelowStored /\ InsertsSwitch /\ IndexFollowsStored /\ NeverCut
  /\ IndexCoversStates

-----------------------------------------------------------------------------
(* The blocks in memory are Range of the list, whatever the step.          *)
LEMMA StatesNext == \A b : HasState(b)' <=> b \in Range(triegc') \/ b \in onDisk'
BY DEF HasState, InMemory

(* The numbers of the index are those of the blocks.                       *)
LEMMA NumbersAre ==
  ASSUME NEW b \in Blocks, NEW n \in 0 .. Len(b)
  PROVE  n \in Numbers
BY AncestorIsBlock DEF Numbers

(* What the garbage collection of a block's import writes and drops: no    *)
(* other block gets a state, no state less than TriesInMemory below the    *)
(* block is lost, and the block's own goes to disk only on an archive node.*)
LEMMA GarbageCollected ==
  ASSUME TypeOK, Rooted, NEW b \in Blocks, CollectGarbage(b)
  PROVE  /\ triegc' \in Seq(Blocks) /\ IsInjective(triegc')
         /\ onDisk \subseteq onDisk' /\ onDisk' \subseteq Blocks
         /\ \A e : HasState(e)' => HasState(e) \/ e = b
         /\ HasState(b)'
         /\ \A e \in Blocks : HasState(e) /\ Len(e) > Len(b) - TriesInMemory => HasState(e)'
         /\ Archive => onDisk' = onDisk \cup {b} /\ triegc' = triegc
         /\ ~Archive => onDisk' \subseteq onDisk \cup InMemory
<1> DEFINE tries == IF b \in InMemory THEN triegc ELSE Append(triegc, b)
           chosen == Len(b) - TriesInMemory
<1>1. /\ triegc \in Seq(Blocks) /\ IsInjective(triegc) /\ onDisk \subseteq Blocks
      /\ canonical \in [Numbers -> Blocks \cup {None}]
  BY DEF TypeOK
<1>2. Len(b) \in Nat /\ TriesInMemory \in Nat /\ TriesInMemory > 0 /\ chosen \in Int
  BY BlockIsSeq, StoreAssumption
<1>3. /\ tries \in Seq(Blocks) /\ IsInjective(tries)
      /\ Range(tries) = InMemory \cup {b}
  BY <1>1, AppendIs DEF InMemory
<1>4. InMemory \subseteq Blocks
  BY <1>1, RangeIs DEF InMemory
<1>5. CASE Archive
  <2>1. onDisk' = onDisk \cup {b} /\ triegc' = triegc
    BY <1>5 DEF CollectGarbage
  <2> QED
    BY <1>1, <1>5, <2>1, StatesNext DEF HasState, InMemory
<1>6. CASE ~Archive /\ chosen <= 0
  <2>1. triegc' = tries /\ onDisk' = onDisk
    BY <1>6 DEF CollectGarbage
  <2> HIDE DEF tries
  <2> QED
    BY <1>1, <1>3, <1>6, <2>1, StatesNext DEF HasState
<1>7. CASE ~Archive /\ ~(chosen <= 0)
  <2> DEFINE written(capped) == Range(SubSeq(tries, 1, capped))
             left(capped) == SubSeq(tries, capped + 1, Len(tries))
             old == {canonical[chosen]} \cap Range(tries)
  <2>1. PICK capped \in 0 .. Len(triegc), late \in BOOLEAN :
          /\ onDisk' = onDisk \cup written(capped) \cup (IF late THEN old ELSE {})
          /\ triegc' = TriesAbove(left(capped), chosen)
    BY <1>7 DEF CollectGarbage
  <2>2. /\ Len(triegc) \in Nat /\ Len(tries) \in Nat /\ capped <= Len(tries)
        /\ \A i \in 1 .. Len(triegc) : tries[i] = triegc[i]
    BY <1>1
  <2> HIDE DEF tries
  <2>3. Range(tries) = {tries[i] : i \in 1 .. Len(tries)}
    BY <1>3, RangeIs, Zenon
  <2>4. written(capped) = {tries[i] : i \in 1 .. capped}
    BY <1>3, <2>2, SubSeqIs
  <2>5. /\ left(capped) \in Seq(Blocks) /\ IsInjective(left(capped))
        /\ Range(left(capped)) = {tries[i] : i \in capped + 1 .. Len(tries)}
    BY <1>3, <2>2, SubSeqIs
  <2>6. /\ triegc' \in Seq(Blocks) /\ IsInjective(triegc')
        /\ Range(triegc') = {c \in Range(left(capped)) : Len(c) > chosen}
    BY <1>2, <2>1, <2>5, TriesAboveIs, Zenon
  <2>7. written(capped) \subseteq InMemory
    <3>1. InMemory = {triegc[i] : i \in 1 .. Len(triegc)}
      BY <1>1, RangeIs DEF InMemory
    <3> QED
      BY <2>2, <2>4, <3>1
  <2>8. old \subseteq InMemory
    <3>1. chosen \in 0 .. Len(b) /\ chosen # Len(b)
      BY <1>2, <1>7
    <3>2. chosen \in Numbers
      BY <3>1, NumbersAre
    <3>3. canonical[chosen] # b
      BY <3>1, <3>2, BlocksAssumption DEF Rooted
    <3> QED
      BY <1>3, <3>3
  <2>9. Range(tries) = written(capped) \cup Range(left(capped))
    <3>1. \A i \in 1 .. Len(tries) : i \in 1 .. capped \/ i \in capped + 1 .. Len(tries)
      BY <2>2
    <3>2. \A i \in 1 .. capped : i \in 1 .. Len(tries)
      BY <2>2
    <3>3. \A i \in capped + 1 .. Len(tries) : i \in 1 .. Len(tries)
      BY <2>2
    <3> QED
      BY <2>3, <2>4, <2>5, <3>1, <3>2, <3>3
  <2> HIDE DEF written, left, old, chosen
  <2>10. onDisk \subseteq onDisk' /\ onDisk' \subseteq onDisk \cup InMemory
    BY <2>1, <2>7, <2>8
  <2>11. \A e \in Range(tries) : Len(e) > chosen => HasState(e)'
    BY <2>1, <2>6, <2>9, StatesNext
  <2>12. \A e : HasState(e)' => HasState(e) \/ e = b
    BY <1>3, <2>6, <2>9, <2>10, StatesNext DEF HasState
  <2>13. \A e \in Blocks : HasState(e) /\ Len(e) > chosen => HasState(e)'
    BY <1>3, <2>10, <2>11, StatesNext DEF HasState
  <2>14. HasState(b)'
    BY <1>2, <1>3, <2>11 DEF chosen
  <2> QED
    BY <1>1, <1>4, <1>7, <2>6, <2>10, <2>12, <2>13, <2>14 DEF chosen
<1> QED
  BY <1>2, <1>5, <1>6, <1>7

-----------------------------------------------------------------------------
(* The initial states.                                                     *)
LEMMA GenesisIs ==
  /\ Genesis \in Blocks /\ Len(Genesis) = 0 /\ Ancestors(Genesis) = {Genesis}
  /\ Ancestor(Genesis, 0) = Genesis
  /\ Branch(Genesis, 0) = <<>>
<1>1. Genesis \in Blocks /\ Len(Genesis) = 0
  BY BlocksAssumption DEF Genesis
<1>2. Ancestor(Genesis, 0) = Genesis
  BY <1>1, AncestorEnds
<1>3. Ancestors(Genesis) = {Genesis}
  <2>1. \A n \in 0 .. Len(Genesis) : n = 0
    BY <1>1
  <2> QED
    BY <1>1, <1>2, <2>1 DEF Ancestors
<1>4. Branch(Genesis, 0) = <<>>
  BY <1>1, BranchIsChain
<1> QED
  BY <1>1, <1>2, <1>3, <1>4

(* Between two imports of a block there is nothing to switch to.           *)
LEMMA NothingToSwitch ==
  inserts = <<>> /\ obsolete = {} /\ current.block \in Blocks => InsertsSwitch
<1> SUFFICES ASSUME inserts = <<>>, obsolete = {}, current.block \in Blocks
             PROVE  InsertsSwitch
  OBVIOUS
<1> DEFINE b == current.block
           k == Len(b)
<1>1. k \in 0 .. k /\ Ancestor(b, k) \in Ancestors(b)
  BY BlockIsSeq, AncestorIsBlock
<1>2. Branch(b, k) = <<>>
  BY <1>1, BranchIsChain
<1>3. Switching(b, k)
  <2>1. ~(k < k)
    BY BlockIsSeq
  <2> QED
    BY <1>1, <1>2, <2>1, Zenon DEF Switching
<1> QED
  BY <1>1, <1>3 DEF InsertsSwitch

(* The invariant holds of a database that only has genesis.                *)
LEMMA InitInv == Init => Inv
<1> SUFFICES ASSUME Init PROVE Inv
  OBVIOUS
<1> USE GenesisIs
<1>1. /\ stored = Heads(Genesis) /\ current = Heads(Genesis)
      /\ stored.block = Genesis /\ stored.header = Genesis
      /\ current.block = Genesis /\ current.header = Genesis
  BY DEF Init, Heads
<1>2. canonical[0] = Genesis /\ 0 \in Numbers
  BY DEF Init, Numbers
<1>3. InMemory = {} /\ Range(inserts) = {} /\ Range(work) = {}
  BY DEF Init, InMemory, Range
<1>4. TypeOK
  <2>1. canonical \in [Numbers -> Blocks \cup {None}]
    BY DEF Init
  <2>2. {stored, current} \subseteq [block : Blocks, header : Blocks, fast : Blocks]
    BY <1>1 DEF Heads
  <2>3. lookup \in [Txs -> Blocks \cup {None}]
    BY DEF Init
  <2>4. triegc \in Seq(Blocks) /\ {work, inserts} \subseteq Seq(Blocks)
    BY DEF Init
  <2>5. IsInjective(triegc)
    BY DEF Init, IsInjective
  <2> QED
    BY <2>1, <2>2, <2>3, <2>4, <2>5 DEF Init, TypeOK
<1>5. NothingInMemory
  BY DEF Init, NothingInMemory
<1>6. Rooted
  <2>1. \A n \in Numbers : canonical[n] = None \/ Len(canonical[n]) = n
    BY DEF Init
  <2> QED
    BY <2>1 DEF Init, Rooted
<1>7. DposComplete
  BY <1>1, <1>3 DEF Init, DposComplete
<1>8. ChainsKnown
  BY <1>1, <1>3 DEF Init, ChainsKnown
<1>9. HeadBelowStored
  BY <1>1 DEF HeadBelowStored
<1>10. InsertsSwitch
  BY <1>1, NothingToSwitch DEF Init
<1>11. Follows(Genesis)
  BY <1>2 DEF Follows
<1>12. IndexFollowsStored
  BY <1>1, <1>11, TxsAssumption DEF IndexFollowsStored, Finds
<1>13. NeverCut
  BY <1>1 DEF Init, NeverCut, HasState
<1>14. IndexCoversStates
  BY <1>3 DEF Init, IndexCoversStates, Filled, CleanStopKeepsHead, ImportsNeverPanic
<1> QED
  BY <1>4, <1>5, <1>6, <1>7, <1>8, <1>9, <1>10, <1>12, <1>13, <1>14 DEF Inv

-----------------------------------------------------------------------------
(* The chain of the head a running node works on.                          *)
LEMMA HeadIs ==
  ASSUME Inv, status = "up"
  PROVE  /\ stored.block \in Blocks /\ stored.header \in Blocks
         /\ current.block \in Blocks /\ Len(current.block) \in Nat
         /\ current.block \in Ancestors(stored.block)
         /\ current.header = stored.header
         /\ Ancestors(current.block) \subseteq Ancestors(stored.block)
         /\ Ancestors(current.block) \subseteq known
         /\ current.block \in dpos
         /\ ~TornWrites => Follows(current.block) /\ Finds(current.block)
<1>1. /\ stored.block \in Blocks /\ stored.header \in Blocks
      /\ current.block \in Blocks /\ Len(current.block) \in Nat
  BY BlockIsSeq DEF Inv, TypeOK
<1>2. current.block \in Ancestors(stored.block) /\ current.header = stored.header
  BY DEF Inv, HeadBelowStored
<1>3. /\ Ancestors(current.block) \subseteq Ancestors(stored.block)
      /\ Len(current.block) \in 0 .. Len(stored.block)
      /\ \A m \in 0 .. Len(current.block) :
           Ancestor(current.block, m) = Ancestor(stored.block, m)
  BY <1>1, <1>2, AncestorsAreChain
<1>4. Ancestors(current.block) \subseteq known
  BY <1>3 DEF Inv, ChainsKnown
<1>5. current.block \in dpos
  BY <1>2 DEF Inv, DposComplete
<1>6. ASSUME ~TornWrites PROVE Follows(current.block) /\ Finds(current.block)
  <2>1. Follows(stored.block) /\ Finds(stored.block)
    BY <1>6 DEF Inv, IndexFollowsStored
  <2>2. \A m \in 0 .. Len(current.block) : m \in 0 .. Len(stored.block)
    BY <1>1, <1>3, BlockIsSeq
  <2> QED
    BY <1>3, <2>1, <2>2 DEF Follows, Finds
<1> QED
  BY <1>1, <1>2, <1>3, <1>4, <1>5, <1>6

(* A block's ancestors are the block and its parent's ancestors.           *)
LEMMA ParentChain ==
  ASSUME NEW b \in Blocks, b # Genesis
  PROVE  /\ Parent(b) \in Blocks /\ Parent(b) \in Ancestors(b)
         /\ Len(Parent(b)) = Len(b) - 1 /\ Len(b) - 1 \in Nat
         /\ Ancestors(b) = Ancestors(Parent(b)) \cup {b}
<1>1. Len(b) \in Nat /\ Len(b) > 0 /\ Parent(b) = Ancestor(b, Len(b) - 1)
  BY BlockIsSeq, AncestorEnds
<1>2. /\ Parent(b) \in Blocks /\ Parent(b) \in Ancestors(b) /\ Len(Parent(b)) = Len(b) - 1
  BY <1>1, AncestorIsBlock
<1>3. Ancestors(Parent(b)) \cup {b} \subseteq Ancestors(b)
  BY <1>2, AncestorsAreChain, OwnAncestor
<1>4. ASSUME NEW e \in Ancestors(b), e # b PROVE e \in Ancestors(Parent(b))
  <2>1. Len(e) \in 0 .. Len(b) /\ e = Ancestor(b, Len(e)) /\ ~(Len(b) <= Len(e))
    BY <1>4, AncestorsAreChain
  <2>2. Len(e) <= Len(Parent(b))
    BY <1>1, <1>2, <2>1
  <2> QED
    BY <1>2, <2>2, AncestorsAreChain
<1> QED
  BY <1>1, <1>2, <1>3, <1>4

(* A step that at most stores blocks and changes what is to be processed.  *)
LEMMA QuietStep ==
  ASSUME Inv, status = "up",
         UNCHANGED <<canonical, stored, current, lookup, triegc, onDisk, dpos,
                     inserts, obsolete, status>>,
         known \subseteq known', known' \subseteq Blocks,
         Rewinds = {} => \A b \in known' : Ancestors(b) \subseteq known',
         work' \in Seq(Blocks),
         \A b \in Range(work') : b # Genesis /\ Parent(b) \in known'
  PROVE  Inv'
<1>1. TypeOK'
  BY DEF Inv, TypeOK
<1>2. NothingInMemory'
  BY DEF NothingInMemory
<1>3. Rooted'
  BY DEF Inv, Rooted
<1>4. DposComplete'
  BY DEF Inv, DposComplete
<1>5. ChainsKnown'
  BY DEF Inv, ChainsKnown
<1>6. HeadBelowStored'
  BY StatesNext DEF Inv, HeadBelowStored, HasState, InMemory
<1>7. InsertsSwitch'
  BY StatesNext DEF Inv, InsertsSwitch, Switching, HasState, InMemory
<1>8. IndexFollowsStored'
  BY DEF Inv, IndexFollowsStored, Follows, Finds
<1>9. NeverCut'
  BY DEF Inv, NeverCut, HasState, InMemory
<1>10. IndexCoversStates'
  BY DEF Inv, IndexCoversStates, Filled, CleanStopKeepsHead, ImportsNeverPanic, InMemory
<1> QED
  BY <1>1, <1>2, <1>3, <1>4, <1>5, <1>6, <1>7, <1>8, <1>9, <1>10 DEF Inv

(* A step that ends the process.                                           *)
LEMMA DieStep ==
  ASSUME Inv, status = "up", NEW how \in {"clean", "crash", "panic"}, Die(how),
         UNCHANGED <<canonical, stored, current, lookup, dpos>>,
         known \subseteq known', known' \subseteq Blocks,
         Rewinds = {} => \A b \in known' : Ancestors(b) \subseteq known',
         onDisk \subseteq onDisk', onDisk' \subseteq Blocks,
         ~Archive => \/ onDisk' = onDisk
                     \/ inserts = <<>> /\ onDisk' \subseteq onDisk \cup InMemory,
         Rewinds = {} /\ ~TornWrites => /\ how # "panic"
                                        /\ how = "clean" => CleanStopKeepsHead'
  PROVE  Inv'
<1>1. /\ status' = how /\ status' # "up"
      /\ triegc' = <<>> /\ work' = <<>> /\ inserts' = <<>> /\ obsolete' = {}
  BY DEF Die
<1>2. /\ Range(triegc') = {} /\ Range(work') = {} /\ Range(inserts') = {}
      /\ IsInjective(triegc')
  BY <1>1 DEF Range, IsInjective
<1>3. TypeOK'
  BY <1>1, <1>2 DEF Inv, TypeOK
<1>4. NothingInMemory'
  BY <1>1 DEF NothingInMemory
<1>5. Rooted'
  BY DEF Inv, Rooted
<1>6. DposComplete'
  BY <1>1, <1>2 DEF Inv, DposComplete
<1>7. ChainsKnown'
  BY <1>2 DEF Inv, ChainsKnown
<1>8. HeadBelowStored'
  BY <1>1 DEF HeadBelowStored
<1>9. InsertsSwitch'
  <2>1. current'.block \in Blocks
    BY DEF Inv, TypeOK
  <2>2. (inserts = <<>> /\ obsolete = {} /\ current.block \in Blocks)'
    BY <1>1, <2>1
  <2> QED
    BY <2>2, NothingToSwitch, PTL
<1>10. IndexFollowsStored'
  BY DEF Inv, IndexFollowsStored, Follows, Finds
<1>11. NeverCut'
  BY <1>1 DEF NeverCut
<1>12. IndexCoversStates'
  <2> SUFFICES ASSUME Rewinds = {}, ~TornWrites
               PROVE  /\ ~Archive => \A b \in onDisk' : Filled(b)'
                      /\ CleanStopKeepsHead' /\ ImportsNeverPanic'
    BY <1>2 DEF IndexCoversStates, InMemory
  <2>1. ASSUME ~Archive, NEW b \in onDisk' PROVE Filled(b)'
    <3>1. Filled(b)
      <4>1. b \in onDisk \/ (inserts = <<>> /\ b \in InMemory)
        BY <2>1
      <4>2. inserts = <<>> => Range(inserts) = {}
        BY DEF Range
      <4> QED
        BY <2>1, <4>1, <4>2 DEF Inv, IndexCoversStates
    <3> QED
      BY <3>1 DEF Filled
  <2> QED
    BY <1>1, <2>1 DEF CleanStopKeepsHead, ImportsNeverPanic
<1> QED
  BY <1>3, <1>4, <1>5, <1>6, <1>7, <1>8, <1>9, <1>10, <1>11, <1>12 DEF Inv

-----------------------------------------------------------------------------
(* insertChain's first round.                                              *)
LEMMA InsertChainInv == Inv /\ InsertChain => Inv'
<1> SUFFICES ASSUME Inv, InsertChain PROVE Inv'
  OBVIOUS
<1>1. PICK b \in Blocks \ {Genesis} : Import(b) \/ WriteBlockWithoutState(b) \/ ImportPruned(b)
  BY DEF InsertChain
<1>2. /\ status = "up" /\ known \subseteq Blocks /\ work \in Seq(Blocks) /\ Genesis \in onDisk
      /\ onDisk \subseteq Blocks /\ b \in Blocks /\ b # Genesis
  BY DEF InsertChain, Idle, Inv, TypeOK, Rooted
<1>3. Rewinds = {} => \A e \in known : Ancestors(e) \subseteq known
  BY DEF Inv, NeverCut
<1>4. CASE Import(b)
  <2>1. work' = <<b>> /\ Range(<<b>>) = {b} /\ <<b>> \in Seq(Blocks) /\ Parent(b) \in known
    BY <1>4 DEF Import, Range
  <2> QED
    BY <1>2, <1>3, <1>4, <2>1, QuietStep DEF Import
<1>5. CASE WriteBlockWithoutState(b)
  <2>1. known' = known \cup {b} /\ Parent(b) \in known /\ work' = work /\ work = <<>>
    BY <1>5 DEF WriteBlockWithoutState, Pruned, InsertChain, Idle
  <2>2. Rewinds = {} => \A e \in known' : Ancestors(e) \subseteq known'
    BY <1>1, <1>3, <2>1, ParentChain
  <2>3. Range(work') = {}
    BY <2>1 DEF Range
  <2> QED
    BY <1>2, <1>5, <2>1, <2>2, <2>3, QuietStep DEF WriteBlockWithoutState
<1>6. CASE ImportPruned(b)
  <2> DEFINE k == Base(b)
             whole == \A n \in k .. Len(b) - 1 : Ancestor(b, n) \in known
  <2>1. k \in 0 .. Len(b) - 1 /\ Len(b) \in Nat /\ k \in 0 .. Len(b)
    BY <1>1, <1>2, BaseIs, BlockIsSeq
  <2>2. CASE whole
    <3>1. /\ work' = Branch(b, k) /\ known' = known
          /\ UNCHANGED <<canonical, stored, current, lookup, triegc, onDisk, dpos,
                         inserts, obsolete, status>>
      BY <1>6, <2>2 DEF ImportPruned
    <3> HIDE DEF k
    <3>2. Branch(b, k) \in Seq(Blocks)
      BY <2>1, BranchIsChain
    <3>3. ASSUME NEW e \in Range(Branch(b, k)) PROVE e # Genesis /\ Parent(e) \in known
      <4>1. PICK m \in k + 1 .. Len(b) : e = Ancestor(b, m)
        BY <2>1, BranchIsChain
      <4>2. m \in 0 .. Len(b) /\ m - 1 \in k .. Len(b) - 1 /\ m - 1 \in 0 .. m /\ m # 0
        BY <2>1
      <4>3. e \in Blocks /\ Len(e) = m
        BY <4>1, <4>2, AncestorIsBlock
      <4>4. e # Genesis
        BY <4>2, <4>3, GenesisIs
      <4>5. Parent(e) = Ancestor(e, m - 1)
        BY <4>3, <4>4, AncestorEnds
      <4>6. Ancestor(e, m - 1) = Ancestor(b, m - 1)
        BY <4>1, <4>2, AncestorOfAncestor
      <4> QED
        BY <2>2, <4>2, <4>4, <4>5, <4>6
    <3> QED
      BY <1>2, <1>3, <3>1, <3>2, <3>3, QuietStep
  <2>3. CASE ~whole
    <3>1. Die("panic") /\ UNCHANGED <<known, canonical, stored, current, lookup, onDisk, dpos>>
      BY <1>6, <2>3 DEF ImportPruned
    <3>2. Rewinds # {}
      <4> SUFFICES ASSUME Rewinds = {} PROVE whole
        BY <2>3
      <4>1. Parent(b) \in known
        BY <1>6 DEF ImportPruned, Pruned
      <4>2. /\ Ancestors(Parent(b)) \subseteq known /\ Parent(b) \in Blocks
            /\ Len(Parent(b)) = Len(b) - 1 /\ Parent(b) \in Ancestors(b)
        BY <1>1, <1>3, <4>1, ParentChain
      <4>3. ASSUME NEW n \in k .. Len(b) - 1 PROVE Ancestor(b, n) \in known
        <5>1. n \in 0 .. Len(b) - 1
          BY <2>1
        <5>2. Ancestor(Parent(b), n) = Ancestor(b, n) /\ Ancestor(Parent(b), n) \in Ancestors(Parent(b))
          BY <4>2, <5>1, AncestorsAreChain, AncestorIsBlock
        <5> QED
          BY <4>2, <5>2
      <4> QED
        BY <4>3
    <3> QED
      BY <1>2, <1>3, <3>1, <3>2, DieStep
  <2> QED
    BY <2>2, <2>3
<1> QED
  BY <1>1, <1>4, <1>5, <1>6

(* Repair finds the highest ancestor whose state is on disk.               *)
LEMMA RepairedIs == Repaired(stored.block) = Highest(stored.block, onDisk)
BY DEF Repaired, Highest

(* Stop.                                                                   *)
LEMMA StopInv == Inv /\ Stop => Inv'
<1> SUFFICES ASSUME Inv, Stop PROVE Inv'
  OBVIOUS
<1> DEFINE n == Len(current.block)
           recent == {canonical[n - d] : d \in {d \in {0, 1, TriesInMemory - 1} : n > d}}
<1>1. /\ status = "up" /\ inserts = <<>> /\ Die("clean")
      /\ onDisk' = IF Archive THEN onDisk ELSE onDisk \cup (recent \cap InMemory)
      /\ UNCHANGED <<known, canonical, stored, current, lookup, dpos>>
  BY DEF Stop
<1>2. /\ known \subseteq Blocks /\ onDisk \subseteq Blocks /\ InMemory \subseteq Blocks
      /\ Genesis \in onDisk
  BY RangeIs DEF Inv, TypeOK, Rooted, InMemory
<1>3. /\ stored.block \in Blocks /\ current.block \in Blocks /\ n \in Nat
      /\ current.block \in Ancestors(stored.block)
      /\ ~TornWrites => Follows(current.block)
  BY <1>1, HeadIs
<1>4. onDisk \subseteq onDisk' /\ onDisk' \subseteq onDisk \cup InMemory
  BY <1>1
<1>5. ASSUME Rewinds = {}, ~TornWrites PROVE CleanStopKeepsHead'
  <2>1. HasState(current.block)
    BY <1>1, <1>5 DEF Inv, NeverCut
  <2>2. current.block \in onDisk'
    <3>1. CASE current.block \in onDisk
      BY <1>4, <3>1
    <3>2. CASE current.block \in InMemory /\ n > 0
      <4>1. ~Archive
        BY <3>2 DEF Inv, DposComplete, InMemory, Range
      <4>2. canonical[n - 0] = current.block
        BY <1>3, <1>5, AncestorEnds DEF Follows
      <4>3. current.block \in recent
        BY <3>2, <4>2
      <4> QED
        BY <1>1, <3>2, <4>1, <4>3
    <3>3. CASE n = 0
      BY <1>2, <1>3, <1>4, <3>3, AncestorEnds
    <3> QED
      BY <1>3, <2>1, <3>1, <3>2, <3>3 DEF HasState
  <2>3. ASSUME NEW e \in Ancestors(stored.block), e \in onDisk'
        PROVE  Len(e) <= n
    <3>1. HasState(e)
      BY <1>4, <2>3 DEF HasState
    <3>2. ~(Len(e) > n)
      BY <1>1, <3>1 DEF Inv, HeadBelowStored, Range
    <3> QED
      BY <1>3, <3>2, AncestorsAreChain
  <2>4. current.block = Highest(stored.block, onDisk')
    BY <1>2, <1>3, <1>4, <2>2, <2>3, HighestIs, Zenon
  <2>5. Repaired(stored.block)' = Highest(stored.block', onDisk')
    BY DEF Repaired, Highest
  <2> QED
    BY <1>1, <2>4, <2>5 DEF CleanStopKeepsHead
<1>6. Rewinds = {} => \A b \in known : Ancestors(b) \subseteq known
  BY DEF Inv, NeverCut
<1> HIDE DEF recent
<1> QED
  BY <1>1, <1>2, <1>4, <1>5, <1>6, DieStep

(* The crashes that leave every insert whole.                              *)
LEMMA CrashInv == Inv /\ Crash => Inv'
<1> SUFFICES ASSUME Inv, Crash PROVE Inv'
  OBVIOUS
<1>1. known \subseteq Blocks /\ onDisk \subseteq Blocks
  BY DEF Inv, TypeOK
<1>2. Rewinds = {} => \A b \in known : Ancestors(b) \subseteq known
  BY DEF Inv, NeverCut
<1> QED
  BY <1>1, <1>2, DieStep DEF Crash

(* The block that is processed next, and its parent.                       *)
LEMMA HeadOfWork ==
  ASSUME Inv, work # <<>>
  PROVE  /\ Head(work) \in Blocks /\ Head(work) # Genesis /\ Parent(Head(work)) \in known
         /\ Tail(work) \in Seq(Blocks) /\ Range(Tail(work)) \subseteq Range(work)
         /\ Rewinds = {} => \A b \in known \cup {Head(work)} :
                              Ancestors(b) \subseteq known \cup {Head(work)}
<1>1. work \in Seq(Blocks)
  BY DEF Inv, TypeOK
<1>2. Head(work) \in Blocks /\ Tail(work) \in Seq(Blocks)
  BY <1>1
<1>3. Head(work) \in Range(work) /\ Range(Tail(work)) \subseteq Range(work)
  BY <1>1 DEF Range
<1>4. Head(work) # Genesis /\ Parent(Head(work)) \in known
  BY <1>3 DEF Inv, ChainsKnown
<1>5. ASSUME Rewinds = {}, NEW b \in known \cup {Head(work)}
      PROVE  Ancestors(b) \subseteq known \cup {Head(work)}
  <2>1. \A e \in known : Ancestors(e) \subseteq known
    BY <1>5 DEF Inv, NeverCut
  <2> QED
    BY <1>2, <1>4, <2>1, ParentChain
<1> QED
  BY <1>2, <1>3, <1>4, <1>5

(* A crash inside WriteBlockWithState leaves a block without its DPoS      *)
(* tries.                                                                  *)
LEMMA CrashWritingInv == Inv /\ CrashWriting => Inv'
<1> SUFFICES ASSUME Inv, CrashWriting PROVE Inv'
  OBVIOUS
<1>1. known \subseteq Blocks /\ onDisk \subseteq Blocks
  BY DEF Inv, TypeOK
<1>2. /\ status = "up" /\ inserts = <<>> /\ known' = known \cup {Head(work)}
      /\ onDisk' = IF Archive THEN onDisk \cup {Head(work)} ELSE onDisk
      /\ Die("crash") /\ UNCHANGED <<canonical, stored, current, lookup, dpos>>
      /\ work # <<>>
  BY DEF CrashWriting
<1>3. /\ Head(work) \in Blocks
      /\ Rewinds = {} => \A b \in known' : Ancestors(b) \subseteq known'
  BY <1>2, HeadOfWork
<1> QED
  BY <1>1, <1>2, <1>3, DieStep

-----------------------------------------------------------------------------
(* NewBlockChain.  The stored header is always known, so nothing on disk   *)
(* changes.                                                                *)
LEMMA StartIs ==
  ASSUME Inv, Start
  PROVE  /\ UNCHANGED stored
         /\ current'.block = Repaired(stored.block)
         /\ current'.header = stored.header
         /\ current' \in [block : Blocks, header : Blocks, fast : Blocks]
         /\ current'.block \in Ancestors(stored.block) /\ current'.block \in onDisk
         /\ \A e \in Ancestors(stored.block) : e \in onDisk => Len(e) <= Len(current'.block)
<1>1. /\ stored \in [block : Blocks, header : Blocks, fast : Blocks]
      /\ Genesis \in onDisk
  BY DEF Inv, TypeOK, Rooted
<1>2. stored.header \in known
  BY <1>1, OwnAncestor DEF Inv, ChainsKnown
<1> DEFINE block == Repaired(stored.block)
           fast == IF stored.fast \in known THEN stored.fast ELSE block
<1>3. /\ current' = [block |-> block, header |-> stored.header, fast |-> fast]
      /\ stored' = [stored EXCEPT !.header = stored.header]
  BY <1>2 DEF Start
<1>4. /\ block \in Ancestors(stored.block) /\ block \in onDisk
      /\ \A e \in Ancestors(stored.block) : e \in onDisk => Len(e) <= Len(block)
  BY <1>1, RepairedIs, HighestIs
<1>5. block \in Blocks
  BY <1>1, <1>4, AncestorsAreChain
<1> HIDE DEF block
<1> QED
  BY <1>1, <1>3, <1>4, <1>5 DEF block

(* The restart brings the head back to a state that can be opened.         *)
LEMMA StartInv == Inv /\ Start => Inv'
<1> SUFFICES ASSUME Inv, Start PROVE Inv'
  OBVIOUS
<1>1. /\ status # "up" /\ status' = "up"
      /\ UNCHANGED <<known, canonical, lookup, triegc, onDisk, dpos, work, inserts, obsolete>>
  BY DEF Start
<1>2. /\ UNCHANGED stored
      /\ current'.header = stored.header
      /\ current' \in [block : Blocks, header : Blocks, fast : Blocks]
      /\ current'.block \in Ancestors(stored.block) /\ current'.block \in onDisk
      /\ \A e \in Ancestors(stored.block) : e \in onDisk => Len(e) <= Len(current'.block)
  BY StartIs
<1>3. triegc = <<>> /\ work = <<>> /\ inserts = <<>> /\ obsolete = {}
  BY <1>1 DEF Inv, NothingInMemory, InsertsSwitch
<1>4. Range(triegc) = {} /\ Range(inserts) = {}
  BY <1>3 DEF Range
<1>5. TypeOK'
  BY <1>1, <1>2 DEF Inv, TypeOK
<1>6. NothingInMemory'
  BY <1>1 DEF NothingInMemory
<1>7. Rooted'
  BY <1>1 DEF Inv, Rooted
<1>8. DposComplete'
  BY <1>1, <1>2 DEF Inv, DposComplete
<1>9. ChainsKnown'
  BY <1>1, <1>2 DEF Inv, ChainsKnown
<1>10. HeadBelowStored'
  <2>1. ASSUME NEW e \in Ancestors(stored.block), HasState(e)', Len(e) > Len(current'.block)
        PROVE  FALSE
    <3>1. e \in onDisk
      BY <1>1, <1>4, <2>1, StatesNext
    <3>2. Len(e) \in Nat /\ Len(current'.block) \in Nat
      BY <1>2, BlockIsSeq, OwnAncestor DEF Inv, TypeOK
    <3> QED
      BY <1>2, <2>1, <3>1, <3>2
  <2> QED
    BY <1>2, <2>1 DEF HeadBelowStored
<1>11. InsertsSwitch'
  <2>1. (inserts = <<>> /\ obsolete = {} /\ current.block \in Blocks)'
    BY <1>1, <1>2, <1>3, Zenon
  <2> QED
    BY <2>1, NothingToSwitch, PTL
<1>12. IndexFollowsStored'
  BY <1>1, <1>2 DEF Inv, IndexFollowsStored, Follows, Finds
<1>13. NeverCut'
  BY <1>1, <1>2 DEF Inv, NeverCut, HasState
<1>14. IndexCoversStates'
  BY <1>1 DEF Inv, IndexCoversStates, Filled, CleanStopKeepsHead, ImportsNeverPanic, InMemory
<1> QED
  BY <1>5, <1>6, <1>7, <1>8, <1>9, <1>10, <1>11, <1>12, <1>13, <1>14 DEF Inv

-----------------------------------------------------------------------------
(* One insert: the block is the next of a branch that leads from the       *)
(* head's chain to tip, and its parent is on the head's chain.             *)
LEMMA InsertIs ==
  ASSUME Inv, inserts # <<>>
  PROVE  \E tip \in Blocks : \E k \in 0 .. Len(tip) :
           /\ Switching(tip, k) /\ k < Len(tip) /\ k \in Nat /\ k + 1 \in 0 .. Len(tip)
           /\ k \in 0 .. Len(current.block)
           /\ \A m \in 0 .. k : Ancestor(tip, m) = Ancestor(current.block, m)
           /\ Head(inserts) = Ancestor(tip, k + 1)
           /\ Tail(inserts) = Branch(tip, k + 1)
           /\ Len(inserts) = Len(tip) - k
           /\ Head(inserts) \in Blocks /\ Len(Head(inserts)) = k + 1
           /\ Head(inserts) \in Ancestors(tip)
           /\ Head(inserts) \in Range(inserts)
           /\ Ancestors(Head(inserts)) \subseteq Ancestors(current.block) \cup {Head(inserts)}
<1>0. PICK tip \in Blocks : \E k \in 0 .. Len(tip) : Switching(tip, k)
  BY DEF Inv, InsertsSwitch
<1>1. PICK k \in 0 .. Len(tip) : Switching(tip, k)
  BY <1>0
<1> DEFINE b == Ancestor(tip, k + 1)
<1>2. current.block \in Blocks
  BY DEF Inv, TypeOK
<1>3. Len(tip) \in Nat /\ k \in Nat /\ k < Len(tip) /\ k + 1 \in 0 .. Len(tip)
  BY <1>1, BlockIsSeq, BranchIsChain DEF Switching
<1>4. /\ Head(inserts) = b /\ Tail(inserts) = Branch(tip, k + 1)
      /\ Len(inserts) = Len(tip) - k
  BY <1>1, <1>3, BranchIsChain DEF Switching
<1>5. b \in Blocks /\ Len(b) = k + 1 /\ b \in Ancestors(tip)
  BY <1>3, AncestorIsBlock
<1>6. b \in Range(inserts)
  <2>1. k + 1 \in k + 1 .. Len(tip)
    BY <1>3
  <2> QED
    BY <1>1, <2>1, BranchIsChain DEF Switching
<1>7. /\ Ancestor(tip, k) \in Ancestors(current.block) /\ Len(Ancestor(tip, k)) = k
      /\ Ancestor(tip, k) \in Blocks
  BY <1>1, AncestorIsBlock DEF Switching
<1>8. /\ k \in 0 .. Len(current.block)
      /\ \A m \in 0 .. k : Ancestor(Ancestor(tip, k), m) = Ancestor(current.block, m)
      /\ Ancestors(Ancestor(tip, k)) \subseteq Ancestors(current.block)
  BY <1>2, <1>7, AncestorsAreChain
<1>9. \A m \in 0 .. k : Ancestor(tip, m) = Ancestor(current.block, m)
  BY <1>8, AncestorOfAncestor
<1>10. Ancestors(b) \subseteq Ancestors(current.block) \cup {b}
  <2>1. b # Genesis
    BY <1>3, <1>5, GenesisIs
  <2>2. Parent(b) = Ancestor(b, Len(b) - 1) /\ Len(b) - 1 = k
    BY <1>3, <1>5, <2>1, AncestorEnds
  <2>3. Ancestor(b, k) = Ancestor(tip, k)
    BY <1>3, AncestorOfAncestor
  <2> QED
    BY <1>5, <1>8, <2>1, <2>2, <2>3, ParentChain
<1> HIDE DEF b
<1>11. k + 1 \in 0 .. Len(tip) /\ b = Ancestor(tip, k + 1)
  BY <1>3 DEF b
<1> QED
  BY <1>1, <1>3, <1>4, <1>5, <1>6, <1>8, <1>9, <1>10, <1>11

(* What insert makes of the three heads.                                   *)
LEMMA MovedIs ==
  ASSUME NEW heads \in [block : Blocks, header : Blocks, fast : Blocks], NEW b \in Blocks
  PROVE  /\ Moved(heads, b) \in [block : Blocks, header : Blocks, fast : Blocks]
         /\ Moved(heads, b).block = b
         /\ canonical[Len(b)] # b => Moved(heads, b).header = b
         /\ canonical[Len(b)] = b => Moved(heads, b).header = heads.header
BY DEF Moved, Heads

(* One insert of b, the block after the k-th on the chain to tip.          *)
Gone == IF Len(inserts) = 1 THEN obsolete ELSE {}

InsertsCode(b) ==
  /\ status = "up" /\ inserts # <<>> /\ b = Head(inserts)
  /\ inserts' = Tail(inserts)
  /\ UNCHANGED <<known, triegc, onDisk, dpos, work, status>>
  /\ canonical' = [canonical EXCEPT ![Len(b)] = b]
  /\ stored' = Moved(stored, b) /\ current' = Moved(current, b)
  /\ lookup' = [t \in Txs |-> IF t \in TxsOf[b] THEN b
                              ELSE IF t \in Gone THEN None ELSE lookup[t]]
  /\ obsolete' = obsolete \ Gone

InsertsAt(b, tip, k) ==
  /\ InsertsCode(b)
  /\ Switching(tip, k) /\ k < Len(tip) /\ k \in Nat /\ k + 1 \in 0 .. Len(tip)
  /\ k \in 0 .. Len(current.block)
  /\ \A m \in 0 .. k : Ancestor(tip, m) = Ancestor(current.block, m)
  /\ b = Ancestor(tip, k + 1)
  /\ Tail(inserts) = Branch(tip, k + 1)
  /\ Len(inserts) = Len(tip) - k
  /\ b \in Blocks /\ Len(b) = k + 1
  /\ b \in Ancestors(tip)
  /\ b \in Range(inserts)
  /\ Ancestors(b) \subseteq Ancestors(current.block) \cup {b}

LEMMA InsertIsAt ==
  ASSUME Inv, Insert
  PROVE  \E tip \in Blocks : \E k \in 0 .. Len(tip) : InsertsAt(Head(inserts), tip, k)
<1>1. InsertsCode(Head(inserts)) /\ inserts # <<>>
  BY Zenon DEF Insert, InsertsCode, Gone
<1> QED
  BY <1>1, InsertIs, Zenon DEF InsertsAt

(* What it does to the variables.                                          *)
LEMMA InsertWrites ==
  ASSUME Inv, NEW tip \in Blocks, NEW k \in 0 .. Len(tip), NEW b, InsertsAt(b, tip, k)
  PROVE  /\ stored' \in [block : Blocks, header : Blocks, fast : Blocks]
         /\ current' \in [block : Blocks, header : Blocks, fast : Blocks]
         /\ stored'.block = b /\ current'.block = b
         /\ canonical[Len(b)] # b => stored'.header = b /\ current'.header = b
         /\ canonical[Len(b)] = b => /\ stored'.header = stored.header
                                     /\ current'.header = stored.header
         /\ canonical'[k + 1] = b
         /\ \A n \in Numbers : n # k + 1 => canonical'[n] = canonical[n]
         /\ canonical' \in [Numbers -> Blocks \cup {None}]
         /\ inserts' = <<>> <=> k + 1 = Len(tip)
         /\ inserts' = <<>> => obsolete' = {}
         /\ Range(inserts') \subseteq Range(inserts) /\ inserts' \in Seq(Blocks)
<1>1. /\ status = "up" /\ inserts # <<>> /\ b = Head(inserts)
      /\ inserts' = Tail(inserts)
      /\ UNCHANGED <<known, triegc, onDisk, dpos, work, status>>
      /\ canonical' = [canonical EXCEPT ![Len(b)] = b]
      /\ stored' = Moved(stored, b) /\ current' = Moved(current, b)
      /\ lookup' = [t \in Txs |-> IF t \in TxsOf[b] THEN b
                                  ELSE IF t \in Gone THEN None ELSE lookup[t]]
      /\ obsolete' = obsolete \ Gone
  BY DEF InsertsAt, InsertsCode
<1>3. /\ Switching(tip, k) /\ k < Len(tip) /\ k \in Nat /\ k + 1 \in 0 .. Len(tip)
      /\ k \in 0 .. Len(current.block)
      /\ \A m \in 0 .. k : Ancestor(tip, m) = Ancestor(current.block, m)
      /\ b = Ancestor(tip, k + 1)
      /\ Tail(inserts) = Branch(tip, k + 1)
      /\ Len(inserts) = Len(tip) - k
      /\ b \in Blocks /\ Len(b) = k + 1
      /\ b \in Ancestors(tip)
      /\ b \in Range(inserts)
      /\ Ancestors(b) \subseteq Ancestors(current.block) \cup {b}
  BY DEF InsertsAt
<1>4. /\ stored.header \in Blocks /\ current.block \in Blocks
      /\ current.header = stored.header
      /\ Ancestors(current.block) \subseteq Ancestors(stored.block)
      /\ ~TornWrites => Follows(current.block) /\ Finds(current.block)
  BY <1>1, HeadIs
<1>5. /\ stored' \in [block : Blocks, header : Blocks, fast : Blocks]
      /\ current' \in [block : Blocks, header : Blocks, fast : Blocks]
      /\ stored'.block = b /\ current'.block = b
      /\ canonical[Len(b)] # b => stored'.header = b /\ current'.header = b
      /\ canonical[Len(b)] = b => /\ stored'.header = stored.header
                                  /\ current'.header = stored.header
  BY <1>1, <1>3, <1>4, MovedIs, Zenon DEF Inv, TypeOK
<1>6. /\ canonical \in [Numbers -> Blocks \cup {None}] /\ k + 1 \in Numbers
      /\ inserts \in Seq(Blocks) /\ lookup \in [Txs -> Blocks \cup {None}]
      /\ obsolete \subseteq Txs
  BY <1>3, NumbersAre DEF Inv, TypeOK
<1>7. /\ canonical'[k + 1] = b
      /\ \A n \in Numbers : n # k + 1 => canonical'[n] = canonical[n]
      /\ canonical' \in [Numbers -> Blocks \cup {None}]
  BY <1>1, <1>3, <1>6
<1>8. Range(inserts') \subseteq Range(inserts) /\ inserts' \in Seq(Blocks)
  BY <1>1, <1>6 DEF Range
<1>11. inserts' = <<>> <=> k + 1 = Len(tip)
  BY <1>1, <1>3, BranchIsChain, Zenon
<1>12. inserts' = <<>> => obsolete' = {}
  BY <1>1, <1>3, <1>11, BlockIsSeq DEF Gone
<1> QED
  BY <1>5, <1>7, <1>8, <1>11, <1>12, Zenon

(* What is not about the index stays true.                                 *)
LEMMA InsertKeeps ==
  ASSUME Inv, NEW tip \in Blocks, NEW k \in 0 .. Len(tip), NEW b, InsertsAt(b, tip, k)
  PROVE  /\ TypeOK' /\ NothingInMemory' /\ Rooted' /\ DposComplete' /\ ChainsKnown'
         /\ HeadBelowStored'
<1>1. /\ status = "up" /\ inserts # <<>> /\ b = Head(inserts)
      /\ inserts' = Tail(inserts)
      /\ UNCHANGED <<known, triegc, onDisk, dpos, work, status>>
      /\ canonical' = [canonical EXCEPT ![Len(b)] = b]
      /\ stored' = Moved(stored, b) /\ current' = Moved(current, b)
      /\ lookup' = [t \in Txs |-> IF t \in TxsOf[b] THEN b
                                  ELSE IF t \in Gone THEN None ELSE lookup[t]]
      /\ obsolete' = obsolete \ Gone
  BY DEF InsertsAt, InsertsCode
<1>3. /\ Switching(tip, k) /\ k < Len(tip) /\ k \in Nat /\ k + 1 \in 0 .. Len(tip)
      /\ k \in 0 .. Len(current.block)
      /\ \A m \in 0 .. k : Ancestor(tip, m) = Ancestor(current.block, m)
      /\ b = Ancestor(tip, k + 1)
      /\ Tail(inserts) = Branch(tip, k + 1)
      /\ Len(inserts) = Len(tip) - k
      /\ b \in Blocks /\ Len(b) = k + 1
      /\ b \in Ancestors(tip)
      /\ b \in Range(inserts)
      /\ Ancestors(b) \subseteq Ancestors(current.block) \cup {b}
  BY DEF InsertsAt
<1>5. /\ stored' \in [block : Blocks, header : Blocks, fast : Blocks]
      /\ current' \in [block : Blocks, header : Blocks, fast : Blocks]
      /\ stored'.block = b /\ current'.block = b
      /\ canonical[Len(b)] # b => stored'.header = b /\ current'.header = b
      /\ canonical[Len(b)] = b => /\ stored'.header = stored.header
                                  /\ current'.header = stored.header
  BY InsertWrites
<1>6. /\ canonical \in [Numbers -> Blocks \cup {None}] /\ k + 1 \in Numbers
      /\ inserts \in Seq(Blocks) /\ lookup \in [Txs -> Blocks \cup {None}]
      /\ obsolete \subseteq Txs
  BY <1>3, NumbersAre DEF Inv, TypeOK
<1>7. /\ canonical'[k + 1] = b
      /\ \A n \in Numbers : n # k + 1 => canonical'[n] = canonical[n]
      /\ canonical' \in [Numbers -> Blocks \cup {None}]
  BY InsertWrites
<1>8. Range(inserts') \subseteq Range(inserts) /\ inserts' \in Seq(Blocks)
  BY InsertWrites
<1>13. TypeOK'
  <2>1. lookup' \in [Txs -> Blocks \cup {None}]
    BY <1>1, <1>3, <1>6
  <2> QED
    BY <1>1, <1>5, <1>6, <1>7, <1>8, <2>1, Zenon DEF Inv, TypeOK
<1>14. NothingInMemory'
  BY <1>1 DEF NothingInMemory
<1>15. Rooted'
  BY <1>1, <1>3, <1>6, <1>7, Zenon DEF Inv, Rooted
<1>16. DposComplete'
  BY <1>1, <1>3, <1>5, <1>8 DEF Inv, DposComplete
<1>17. ChainsKnown'
  BY <1>1, <1>3, <1>5, <1>8 DEF Inv, ChainsKnown
<1>18. HeadBelowStored'
  <2>1. \A e \in Ancestors(b) : ~(Len(e) > Len(b))
    BY <1>3, AncestorsAreChain, BlockIsSeq
  <2> QED
    BY <1>3, <1>5, <2>1, OwnAncestor, Zenon DEF HeadBelowStored
<1> QED
  BY <1>13, <1>14, <1>15, <1>16, <1>17, <1>18

(* What is left to insert is still a branch off the head's chain.          *)
LEMMA InsertSwitches ==
  ASSUME Inv, NEW tip \in Blocks, NEW k \in 0 .. Len(tip), NEW b, InsertsAt(b, tip, k)
  PROVE  InsertsSwitch' /\ NeverCut'
<1>1. /\ status = "up" /\ inserts # <<>> /\ b = Head(inserts)
      /\ inserts' = Tail(inserts)
      /\ UNCHANGED <<known, triegc, onDisk, dpos, work, status>>
      /\ canonical' = [canonical EXCEPT ![Len(b)] = b]
      /\ stored' = Moved(stored, b) /\ current' = Moved(current, b)
      /\ lookup' = [t \in Txs |-> IF t \in TxsOf[b] THEN b
                                  ELSE IF t \in Gone THEN None ELSE lookup[t]]
      /\ obsolete' = obsolete \ Gone
  BY DEF InsertsAt, InsertsCode
<1>3. /\ Switching(tip, k) /\ k < Len(tip) /\ k \in Nat /\ k + 1 \in 0 .. Len(tip)
      /\ k \in 0 .. Len(current.block)
      /\ \A m \in 0 .. k : Ancestor(tip, m) = Ancestor(current.block, m)
      /\ b = Ancestor(tip, k + 1)
      /\ Tail(inserts) = Branch(tip, k + 1)
      /\ Len(inserts) = Len(tip) - k
      /\ b \in Blocks /\ Len(b) = k + 1
      /\ b \in Ancestors(tip)
      /\ b \in Range(inserts)
      /\ Ancestors(b) \subseteq Ancestors(current.block) \cup {b}
  BY DEF InsertsAt
<1>5. /\ stored' \in [block : Blocks, header : Blocks, fast : Blocks]
      /\ current' \in [block : Blocks, header : Blocks, fast : Blocks]
      /\ stored'.block = b /\ current'.block = b
      /\ canonical[Len(b)] # b => stored'.header = b /\ current'.header = b
      /\ canonical[Len(b)] = b => /\ stored'.header = stored.header
                                  /\ current'.header = stored.header
  BY InsertWrites
<1>10. \A e : HasState(e)' <=> HasState(e)
  BY <1>1, StatesNext DEF HasState, InMemory
<1>11. /\ inserts' = <<>> <=> k + 1 = Len(tip)
       /\ inserts' = <<>> => obsolete' = {}
  BY InsertWrites
<1>19. InsertsSwitch'
  <2>1. inserts' = Branch(tip, k + 1)
    BY <1>1, <1>3
  <2>2. Ancestor(tip, k + 1) \in Ancestors(current'.block)
    BY <1>3, <1>5, OwnAncestor
  <2>3. \A e \in Ancestors(tip) : TxsOf[e] \cap obsolete' = {}
    BY <1>1, <1>3 DEF Switching
  <2>4. TornWrites \/ obsolete' = {} \/ stored'.header \in Ancestors(tip)
    BY <1>1, <1>3, <1>5 DEF Switching
  <2>5. k + 1 < Len(tip) => HasState(tip)'
    BY <1>3, <1>10, Zenon DEF Switching
  <2>6. Switching(tip, k + 1)'
    BY <2>1, <2>2, <2>3, <2>4, <2>5, Zenon DEF Switching
  <2> QED
    BY <1>3, <1>11, <2>6 DEF InsertsSwitch
<1>22. NeverCut'
  <2>1. HasState(tip)
    BY <1>3 DEF Switching
  <2>2. k + 1 = Len(tip) => HasState(b)
    BY <1>3, <2>1, AncestorEnds
  <2>3. HasState(current.block)' <=> HasState(b)'
    BY <1>5, StatesNext
  <2>4. known' = known /\ (inserts' = <<>> => HasState(current.block)')
    BY <1>1, <1>10, <1>11, <2>2, <2>3
  <2> QED
    BY <2>4 DEF Inv, NeverCut
<1> QED
  BY <1>19, <1>22

(* The index and the lookup entries follow the block, and those of the     *)
(* header chain stay.                                                      *)
LEMMA InsertFollows ==
  ASSUME Inv, NEW tip \in Blocks, NEW k \in 0 .. Len(tip), NEW b, InsertsAt(b, tip, k),
         ~TornWrites, NEW g, g = stored'.header
  PROVE  Follows(b)' /\ Finds(b)' /\ Follows(g)' /\ Finds(g)'
<1>1. /\ status = "up" /\ inserts # <<>> /\ b = Head(inserts)
      /\ inserts' = Tail(inserts)
      /\ UNCHANGED <<known, triegc, onDisk, dpos, work, status>>
      /\ canonical' = [canonical EXCEPT ![Len(b)] = b]
      /\ stored' = Moved(stored, b) /\ current' = Moved(current, b)
      /\ lookup' = [t \in Txs |-> IF t \in TxsOf[b] THEN b
                                  ELSE IF t \in Gone THEN None ELSE lookup[t]]
      /\ obsolete' = obsolete \ Gone
  BY DEF InsertsAt, InsertsCode
<1>3. /\ Switching(tip, k) /\ k < Len(tip) /\ k \in Nat /\ k + 1 \in 0 .. Len(tip)
      /\ k \in 0 .. Len(current.block)
      /\ \A m \in 0 .. k : Ancestor(tip, m) = Ancestor(current.block, m)
      /\ b = Ancestor(tip, k + 1)
      /\ Tail(inserts) = Branch(tip, k + 1)
      /\ Len(inserts) = Len(tip) - k
      /\ b \in Blocks /\ Len(b) = k + 1
      /\ b \in Ancestors(tip)
      /\ b \in Range(inserts)
      /\ Ancestors(b) \subseteq Ancestors(current.block) \cup {b}
  BY DEF InsertsAt
<1>4. /\ stored.header \in Blocks /\ current.block \in Blocks
      /\ current.header = stored.header
      /\ Ancestors(current.block) \subseteq Ancestors(stored.block)
      /\ ~TornWrites => Follows(current.block) /\ Finds(current.block)
  BY <1>1, HeadIs
<1>5. /\ stored' \in [block : Blocks, header : Blocks, fast : Blocks]
      /\ current' \in [block : Blocks, header : Blocks, fast : Blocks]
      /\ stored'.block = b /\ current'.block = b
      /\ canonical[Len(b)] # b => stored'.header = b /\ current'.header = b
      /\ canonical[Len(b)] = b => /\ stored'.header = stored.header
                                  /\ current'.header = stored.header
  BY InsertWrites
<1>6. /\ canonical \in [Numbers -> Blocks \cup {None}] /\ k + 1 \in Numbers
      /\ inserts \in Seq(Blocks) /\ lookup \in [Txs -> Blocks \cup {None}]
      /\ obsolete \subseteq Txs
  BY <1>3, NumbersAre DEF Inv, TypeOK
<1>7. /\ canonical'[k + 1] = b
      /\ \A n \in Numbers : n # k + 1 => canonical'[n] = canonical[n]
      /\ canonical' \in [Numbers -> Blocks \cup {None}]
  BY InsertWrites
<1>20. Follows(b)' /\ Finds(b)' /\ Follows(g)' /\ Finds(g)'
  <2>1. Follows(b)'
    <3> SUFFICES ASSUME NEW m \in 0 .. Len(b) PROVE canonical'[m] = Ancestor(b, m)
      BY <1>3 DEF Follows
    <3>1. CASE m = k + 1
      BY <1>3, <1>7, <3>1, AncestorEnds
    <3>2. CASE m # k + 1
      <4>1. m \in 0 .. k /\ m \in 0 .. k + 1 /\ m \in 0 .. Len(current.block) /\ m \in Numbers
        BY <1>3, <1>4, <3>2, NumbersAre, BlockIsSeq
      <4>2. canonical'[m] = Ancestor(current.block, m)
        BY <1>4, <1>7, <3>2, <4>1 DEF Follows
      <4>3. Ancestor(b, m) = Ancestor(tip, m)
        BY <1>3, <4>1, AncestorOfAncestor
      <4> QED
        BY <1>3, <4>1, <4>2, <4>3
    <3> QED
      BY <3>1, <3>2
  <2>2. Finds(b)'
    <3> SUFFICES ASSUME NEW c \in Ancestors(b), NEW t \in TxsOf[c] PROVE lookup'[t] = c
      BY DEF Finds
    <3>1. c \in Ancestors(tip) /\ c \in Blocks
      BY <1>3, AncestorsAreChain
    <3>2. t \in Txs
      BY <3>1 DEF Txs
    <3>3. CASE c = b
      BY <1>1, <3>2, <3>3
    <3>4. CASE c # b
      <4>1. c \in Ancestors(current.block) /\ lookup[t] = c
        BY <1>3, <1>4, <3>4 DEF Finds
      <4>2. t \notin TxsOf[b]
        BY <1>3, <3>1, <3>4, TxsAssumption, Zenon
      <4>3. t \notin Gone
        BY <1>3, <3>1 DEF Switching, Gone
      <4> QED
        BY <1>1, <3>2, <4>1, <4>2, <4>3
    <3> QED
      BY <3>3, <3>4
  <2>3. CASE canonical[Len(b)] # b
    BY <1>5, <2>1, <2>2, <2>3
  <2>4. CASE canonical[Len(b)] = b
    <3>0. PICK h : h = stored.header
      BY Zenon
    <3>1. Follows(h) /\ Finds(h) /\ g = h /\ h \in Blocks
      BY <1>4, <1>5, <2>4, <3>0, Zenon DEF Inv, IndexFollowsStored
    <3>2. canonical' = canonical
      BY <1>1, <1>3, <1>6, <2>4, Zenon
    <3>3. Follows(h)'
      BY <3>1, <3>2 DEF Follows
    <3>4. \A e \in Ancestors(h) : TxsOf[e] \cap obsolete = {}
      <4>1. obsolete = {} \/ h \in Ancestors(tip)
        BY <1>3, <2>4, <3>0 DEF Switching
      <4> QED
        BY <1>3, <4>1, AncestorsAreChain DEF Switching
    <3>5. \E e \in Blocks : b \in Ancestors(e) /\ Ancestors(h) \subseteq Ancestors(e)
      <4>1. Len(h) \in Nat
        BY <3>1, BlockIsSeq
      <4>2. CASE Len(h) >= k + 1
        <5>1. k + 1 \in 0 .. Len(h) /\ canonical[k + 1] = Ancestor(h, k + 1)
          <6>1. k \in Nat
            BY <1>3, Zenon
          <6> QED
            BY <3>1, <4>1, <4>2, <6>1, UpTo, Zenon DEF Follows
        <5>2. b \in Ancestors(h)
          BY <1>3, <2>4, <3>1, <5>1, AncestorIsBlock, Zenon
        <5> QED
          BY <3>1, <5>2
      <4>3. CASE ~(Len(h) >= k + 1)
        <5>1. /\ Len(h) \in 0 .. k /\ Len(h) \in 0 .. Len(current.block)
              /\ Len(h) \in 0 .. Len(h) /\ Len(h) \in 0 .. Len(tip)
          BY <1>3, <1>4, <4>1, <4>3, BlockIsSeq
        <5>2. canonical[Len(h)] = h
          BY <3>1, <5>1, AncestorEnds, Zenon DEF Follows
        <5>3. canonical[Len(h)] = Ancestor(tip, Len(h))
          BY <1>3, <1>4, <5>1 DEF Follows
        <5>4. h \in Ancestors(tip)
          BY <5>1, <5>2, <5>3, AncestorIsBlock, Zenon
        <5> QED
          BY <1>3, <5>4, AncestorsAreChain
      <4> QED
        BY <4>2, <4>3
    <3>6. Finds(h)'
      <4> SUFFICES ASSUME NEW c \in Ancestors(h), NEW t \in TxsOf[c] PROVE lookup'[t] = c
        BY DEF Finds
      <4>1. lookup[t] = c /\ t \in Txs
        BY <3>1, OwnAncestor DEF Finds, Txs
      <4>2. t \notin Gone
        BY <3>4 DEF Gone
      <4>3. t \in TxsOf[b] => c = b
        BY <3>5, TxsAssumption
      <4> QED
        BY <1>1, <4>1, <4>2, <4>3
    <3> QED
      BY <2>1, <2>2, <3>1, <3>3, <3>6
  <2> QED
    BY <2>3, <2>4
<1> QED
  BY <1>20

(* So the index covers what has a state.                                   *)
LEMMA InsertCovers ==
  ASSUME Inv, NEW tip \in Blocks, NEW k \in 0 .. Len(tip), NEW b, InsertsAt(b, tip, k)
  PROVE  IndexFollowsStored' /\ IndexCoversStates'
<1>1. /\ status = "up" /\ inserts # <<>> /\ b = Head(inserts)
      /\ inserts' = Tail(inserts)
      /\ UNCHANGED <<known, triegc, onDisk, dpos, work, status>>
      /\ canonical' = [canonical EXCEPT ![Len(b)] = b]
      /\ stored' = Moved(stored, b) /\ current' = Moved(current, b)
      /\ lookup' = [t \in Txs |-> IF t \in TxsOf[b] THEN b
                                  ELSE IF t \in Gone THEN None ELSE lookup[t]]
      /\ obsolete' = obsolete \ Gone
  BY DEF InsertsAt, InsertsCode
<1>3. /\ Switching(tip, k) /\ k < Len(tip) /\ k \in Nat /\ k + 1 \in 0 .. Len(tip)
      /\ k \in 0 .. Len(current.block)
      /\ \A m \in 0 .. k : Ancestor(tip, m) = Ancestor(current.block, m)
      /\ b = Ancestor(tip, k + 1)
      /\ Tail(inserts) = Branch(tip, k + 1)
      /\ Len(inserts) = Len(tip) - k
      /\ b \in Blocks /\ Len(b) = k + 1
      /\ b \in Ancestors(tip)
      /\ b \in Range(inserts)
      /\ Ancestors(b) \subseteq Ancestors(current.block) \cup {b}
  BY DEF InsertsAt
<1>5. stored'.block = b
  BY InsertWrites
<1>6. /\ canonical \in [Numbers -> Blocks \cup {None}] /\ k + 1 \in Numbers
      /\ inserts \in Seq(Blocks) /\ lookup \in [Txs -> Blocks \cup {None}]
      /\ obsolete \subseteq Txs
  BY <1>3, NumbersAre DEF Inv, TypeOK
<1>7. /\ canonical'[k + 1] = b
      /\ \A n \in Numbers : n # k + 1 => canonical'[n] = canonical[n]
      /\ canonical' \in [Numbers -> Blocks \cup {None}]
  BY InsertWrites
<1>9. Range(inserts) \subseteq Range(inserts') \cup {b}
  <2> SUFFICES ASSUME NEW i \in 1 .. Len(inserts), inserts[i] # b
               PROVE  inserts[i] \in Range(Tail(inserts))
    BY <1>1, <1>6, RangeIs
  <2>1. i - 1 \in 1 .. Len(inserts) - 1 /\ (i - 1) + 1 = i
    BY <1>1, <1>6
  <2>2. /\ DOMAIN Tail(inserts) = 1 .. Len(inserts) - 1
        /\ Tail(inserts)[i - 1] = inserts[i]
    BY <1>1, <1>6, <2>1
  <2> QED
    BY <2>1, <2>2, Zenon DEF Range
<1>21. IndexFollowsStored'
  <2>1. PICK g : g = stored'.header
    OBVIOUS
  <2>2. ~TornWrites => Follows(b)' /\ Finds(b)' /\ Follows(g)' /\ Finds(g)'
    BY <2>1, InsertFollows, Zenon
  <2>3. (Follows(stored.block)' <=> Follows(b)') /\ (Finds(stored.block)' <=> Finds(b)')
    BY <1>5 DEF Follows, Finds
  <2>4. (Follows(stored.header)' <=> Follows(g)') /\ (Finds(stored.header)' <=> Finds(g)')
    BY <2>1 DEF Follows, Finds
  <2> QED
    BY <2>2, <2>3, <2>4 DEF IndexFollowsStored
<1>23. IndexCoversStates'
  <2> SUFFICES ASSUME Rewinds = {}, ~TornWrites
               PROVE  /\ ~Archive => /\ \A e \in onDisk' : Filled(e)'
                                     /\ \A e \in InMemory' : Filled(e)' \/ e \in Range(inserts')
                      /\ CleanStopKeepsHead' /\ ImportsNeverPanic'
    BY DEF IndexCoversStates
  <2>1. ASSUME NEW e \in Blocks, Filled(e) PROVE Filled(e)'
    <3>1. \A n \in 1 .. Len(e) : n \in Numbers
      BY BlockIsSeq, NumbersAre
    <3>2. b # None
      BY <1>3, BlocksAssumption
    <3> QED
      BY <1>7, <2>1, <3>1, <3>2 DEF Filled
  <2>2. Filled(b)'
    <3>1. ASSUME NEW n \in 1 .. Len(b) PROVE canonical'[n] # None
      <4>0. Follows(b)'
        BY InsertFollows, Zenon
      <4>1. n \in 0 .. Len(b)
        BY <1>3
      <4>2. canonical'[n] = Ancestor(b, n) /\ Ancestor(b, n) \in Blocks
        BY <1>3, <4>0, <4>1, AncestorIsBlock DEF Follows
      <4> QED
        BY <4>2, BlocksAssumption
    <3> QED
      BY <1>3, <3>1 DEF Filled
  <2>3. onDisk \subseteq Blocks /\ InMemory \subseteq Blocks /\ onDisk' = onDisk /\ InMemory' = InMemory
    BY <1>1, RangeIs DEF Inv, TypeOK, InMemory
  <2>4. CleanStopKeepsHead' /\ ImportsNeverPanic'
    BY <1>1 DEF CleanStopKeepsHead, ImportsNeverPanic
  <2>5. ASSUME ~Archive, NEW e \in onDisk' PROVE Filled(e)'
    BY <2>1, <2>3, <2>5 DEF Inv, IndexCoversStates
  <2>6. ASSUME ~Archive, NEW e \in InMemory' PROVE Filled(e)' \/ e \in Range(inserts')
    <3>1. Filled(e) \/ e \in Range(inserts)
      BY <2>3, <2>6 DEF Inv, IndexCoversStates
    <3> QED
      BY <1>9, <2>1, <2>2, <2>3, <3>1
  <2> QED
    BY <2>4, <2>5, <2>6
<1> QED
  BY <1>21, <1>23

LEMMA InsertInv == Inv /\ Insert => Inv'
<1> SUFFICES ASSUME Inv, Insert PROVE Inv'
  OBVIOUS
<1>1. PICK tip \in Blocks : \E k \in 0 .. Len(tip) : InsertsAt(Head(inserts), tip, k)
  BY InsertIsAt, Zenon
<1>2. PICK k \in 0 .. Len(tip) : InsertsAt(Head(inserts), tip, k)
  BY <1>1, Zenon
<1>3. /\ TypeOK' /\ NothingInMemory' /\ Rooted' /\ DposComplete' /\ ChainsKnown'
      /\ HeadBelowStored'
  BY <1>2, InsertKeeps, Zenon
<1>4. InsertsSwitch' /\ NeverCut'
  BY <1>2, InsertSwitches, Zenon
<1>5. IndexFollowsStored' /\ IndexCoversStates'
  BY <1>2, InsertCovers, Zenon
<1> QED
  BY <1>3, <1>4, <1>5 DEF Inv
=============================================================================
