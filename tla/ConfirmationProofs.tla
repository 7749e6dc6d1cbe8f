------------------------ MODULE ConfirmationProofs -------------------------
(***************************************************************************)
(* What updateConfirmedBlockHeader's loop computes, for every chain whose  *)
(* times do not decrease, every confirmed block and every number of        *)
(* validators: the highest block above the confirmed one that              *)
(* ConsensusSize validators of its epoch signed or built on.  The loop is  *)
(* a recursive function, which first has to be shown to exist; both that   *)
(* and what it computes are inductions on the number of headers, made with *)
(* sets of numbers (SetInduction).  Then, for DposChainProofs, what the    *)
(* prefixes, the parent and the children of a block are.                   *)
(***************************************************************************)
EXTENDS DposChain, FiniteSetTheorems, WellFoundedInduction, TLAPS

-----------------------------------------------------------------------------
(* Two sequences are equal when their elements are.                        *)
LEMMA SameSeq ==
  ASSUME NEW S, NEW s \in Seq(S), NEW t \in Seq(S), Len(s) = Len(t),
         \A i \in 1 .. Len(s) : s[i] = t[i]
  PROVE  s = t
<1>1. s = [i \in 1 .. Len(s) |-> s[i]] /\ t = [i \in 1 .. Len(t) |-> t[i]]
  OBVIOUS
<1> QED
  BY <1>1

(* Induction on the natural numbers, for a set.                            *)
LEMMA SetInduction ==
  ASSUME NEW T \in SUBSET Nat, 0 \in T, \A n \in T : n + 1 \in T
  PROVE  T = Nat
<1> SUFFICES ASSUME Nat \ T # {} PROVE FALSE
  BY Zenon
<1>1. PICK x \in Nat \ T : \A y \in Nat \ T : ~(<<y, x>> \in OpToRel(<, Nat))
  BY NatLessThanWellFounded, WFMin, Zenon
<1>2. x # 0 /\ x - 1 \in Nat
  OBVIOUS
<1>3. x - 1 \in T
  <2>1. <<x - 1, x>> \in OpToRel(<, Nat)
    BY <1>2 DEF OpToRel
  <2> QED
    BY <1>1, <1>2, <2>1, Zenon
<1> QED
  BY <1>2, <1>3

-----------------------------------------------------------------------------
(* The loop ends at the latest below the first header.                     *)
LEMMA TurnZero ==
  ASSUME NEW h, NEW c, Len(c) \in Nat, NEW r, NEW s
  PROVE  Turn(h, c, 0, r) = Turn(h, c, 0, s)
<1>1. Len(c) >= 0
  OBVIOUS
<1> QED
  BY <1>1 DEF Turn

(* The function that walk denotes, for the first N headers.                *)
IsWalk(w, h, c, N) == w = [i \in 0 .. N |-> Turn(h, c, i, w[i - 1])]

(* The first N headers determine what the loop does from each of them.     *)
LEMMA WalkExists ==
  ASSUME NEW h, NEW c, Len(c) \in Nat, NEW N \in Nat
  PROVE  \E w : IsWalk(w, h, c, N)
<1> DEFINE T == {n \in Nat : \E w : w = [i \in 0 .. n |-> Turn(h, c, i, w[i - 1])]}
<1>1. 0 \in T
  <2> DEFINE w == [i \in 0 .. 0 |-> Turn(h, c, i, c)]
  <2>1. \A i \in 0 .. 0 : Turn(h, c, i, c) = Turn(h, c, i, w[i - 1])
    BY TurnZero
  <2>2. w = [i \in 0 .. 0 |-> Turn(h, c, i, w[i - 1])]
    BY <2>1
  <2> QED
    BY <2>2
<1>2. ASSUME NEW n \in T PROVE n + 1 \in T
  <2>1. PICK v : v = [i \in 0 .. n |-> Turn(h, c, i, v[i - 1])]
    OBVIOUS
  <2>2. \A i \in 0 .. n : v[i] = Turn(h, c, i, v[i - 1])
    BY <2>1
  <2> DEFINE w == [i \in 0 .. n + 1 |-> Turn(h, c, i, v[i - 1])]
  <2>3. \A i \in 0 .. n : w[i] = v[i]
    BY <2>2
  <2>4. \A i \in 0 .. n + 1 : Turn(h, c, i, v[i - 1]) = Turn(h, c, i, w[i - 1])
    <3> SUFFICES ASSUME NEW i \in 0 .. n + 1
                 PROVE  Turn(h, c, i, v[i - 1]) = Turn(h, c, i, w[i - 1])
      BY Zenon
    <3>1. CASE i = 0
      BY <3>1, TurnZero
    <3>2. CASE i # 0
      <4>1. i - 1 \in 0 .. n
        BY <3>2
      <4> HIDE DEF w
      <4> QED
        BY <2>3, <4>1
    <3> QED
      BY <3>1, <3>2
  <2>5. w = [i \in 0 .. n + 1 |-> Turn(h, c, i, w[i - 1])]
    BY <2>4
  <2> HIDE DEF w
  <2>6. \E x : x = [i \in 0 .. n + 1 |-> Turn(h, c, i, x[i - 1])]
    BY <2>5, Zenon
  <2>7. n + 1 \in Nat
    OBVIOUS
  <2> QED
    BY <2>6, <2>7
<1>3. N \in T
  <2>1. T \in SUBSET Nat
    OBVIOUS
  <2> HIDE DEF T
  <2> QED
    BY <1>1, <1>2, <2>1, SetInduction
<1> QED
  BY <1>3 DEF IsWalk

LEMMA ConfirmedFromIs ==
  ASSUME NEW h, NEW c, Len(c) \in Nat, Len(h) \in Nat
  PROVE  \E w : IsWalk(w, h, c, Len(h)) /\ ConfirmedFrom(h, c) = w[Len(h)][-1][{}]
<1> DEFINE w == CHOOSE x : x = [i \in 0 .. Len(h) |-> Turn(h, c, i, x[i - 1])]
<1>1. IsWalk(w, h, c, Len(h))
  <2>1. \E x : IsWalk(x, h, c, Len(h))
    BY WalkExists, Zenon
  <2> QED
    BY <2>1, Zenon DEF IsWalk
<1>2. ConfirmedFrom(h, c) = w[Len(h)][-1][{}]
  BY DEF ConfirmedFrom
<1> HIDE DEF w
<1> QED
  BY <1>1, <1>2

(* validatorMap when the i-th header's validator is about to be added.     *)
Before(h, i, epoch, seen) == IF EpochOf(h[i].time) = epoch THEN seen ELSE {}

(* The conditions of its two returns.                                      *)
FastReturn(c, i, before) == i - Len(c) < ConsensusSize - Cardinality(before)
Confirms(h, i, before) == Cardinality(before \cup {h[i].validator}) >= ConsensusSize

(* The four ways a turn can end.                                           *)
TurnEnds(w, h, c, i, epoch, seen, before) ==
  /\ Len(c) >= i => w[i][epoch][seen] = c
  /\ Len(c) < i /\ FastReturn(c, i, before) => w[i][epoch][seen] = c
  /\ Len(c) < i /\ ~FastReturn(c, i, before) /\ Confirms(h, i, before)
       => w[i][epoch][seen] = SubSeq(h, 1, i)
  /\ Len(c) < i /\ ~FastReturn(c, i, before) /\ ~Confirms(h, i, before)
       => w[i][epoch][seen] = w[i - 1][EpochOf(h[i].time)][before \cup {h[i].validator}]

(* Every turn of the loop ends in one of them.                             *)
LEMMA WalkTurn ==
  ASSUME NEW h, NEW c, Len(c) \in Nat, NEW N \in Nat, NEW w, IsWalk(w, h, c, N),
         NEW i \in 0 .. N, NEW epoch \in Int, NEW seen \in SUBSET Signer,
         NEW before, before = Before(h, i, epoch, seen), Cardinality(before) \in Nat
  PROVE  TurnEnds(w, h, c, i, epoch, seen, before)
<1> DEFINE slow == i - Len(c) >= ConsensusSize - Cardinality(before)
           next == w[i - 1][EpochOf(h[i].time)][before \cup {h[i].validator}]
<1>1. w[i] = Turn(h, c, i, w[i - 1])
  BY DEF IsWalk
<1>2. ConsensusSize \in Int
  BY MaxValidatorSizeAssumption DEF ConsensusSize
<1>3. w[i][epoch][seen] =
        IF Len(c) >= i
        THEN c
        ELSE CASE FastReturn(c, i, before) -> c
               [] slow /\ Confirms(h, i, before) -> SubSeq(h, 1, i)
               [] OTHER -> next
  BY <1>1 DEF Turn, Before, FastReturn, Confirms
<1>4. (~FastReturn(c, i, before) <=> slow) /\ (Len(c) < i <=> ~(Len(c) >= i))
  BY <1>2 DEF FastReturn
<1> HIDE DEF slow, next
<1>5. /\ Len(c) >= i => w[i][epoch][seen] = c
      /\ Len(c) < i /\ FastReturn(c, i, before) => w[i][epoch][seen] = c
      /\ Len(c) < i /\ ~FastReturn(c, i, before) /\ Confirms(h, i, before)
           => w[i][epoch][seen] = SubSeq(h, 1, i)
      /\ Len(c) < i /\ ~FastReturn(c, i, before) /\ ~Confirms(h, i, before)
           => w[i][epoch][seen] = next
  BY <1>3, <1>4
<1> QED
  BY <1>5 DEF next, TurnEnds

-----------------------------------------------------------------------------
(* A set of numbers that has an upper bound has a maximum.                 *)
LEMMA MaxExists ==
  ASSUME NEW n \in Nat, NEW S \in SUBSET (0 .. n), S # {}
  PROVE  Max(S) \in S /\ \A x \in S : x <= Max(S)
<1> DEFINE U == {n - x : x \in S}
<1>1. U \subseteq Nat /\ U # {}
  <2>1. \A x \in S : n - x \in Nat
    OBVIOUS
  <2>2. PICK x \in S : TRUE
    BY Zenon
  <2>3. n - x \in U
    OBVIOUS
  <2> QED
    BY <2>1, <2>3
<1>2. PICK u \in U : \A y \in U : ~(<<y, u>> \in OpToRel(<, Nat))
  <2> HIDE DEF U
  <2> QED
    BY <1>1, NatLessThanWellFounded, WFMin, Zenon
<1>3. PICK m \in S : u = n - m
  OBVIOUS
<1>4. \A x \in S : x <= m
  <2> SUFFICES ASSUME NEW x \in S, ~(x <= m) PROVE FALSE
    OBVIOUS
  <2>1. n - x \in U /\ n - x \in Nat /\ u \in Nat /\ n - x < u
    BY <1>3
  <2>2. <<n - x, u>> \in OpToRel(<, Nat)
    BY <2>1 DEF OpToRel
  <2> QED
    BY <1>2, <2>1, <2>2, Zenon
<1>5. \E y \in S : \A x \in S : y >= x
  BY <1>4
<1>6. Max(S) \in S /\ \A x \in S : Max(S) >= x
  BY <1>5, Zenon DEF Max
<1> QED
  BY <1>6

LEMMA MaxIs ==
  ASSUME NEW S \in SUBSET Int, NEW m \in S, \A x \in S : x <= m
  PROVE  Max(S) = m
<1>1. \A x \in S : m >= x
  OBVIOUS
<1>2. \A y \in S : (\A x \in S : y >= x) => y = m
  OBVIOUS
<1> QED
  BY <1>1, <1>2, Zenon DEF Max

-----------------------------------------------------------------------------
(* A chain whose times do not go back, which verifyHeader and the worker's *)
(* choice of a time see to.                                                *)
TimesOrdered(h) == \A i, j \in 1 .. Len(h) : i <= j => h[i].time <= h[j].time

LEMMA HeaderTypes ==
  ASSUME NEW h \in BlockType
  PROVE  /\ Len(h) \in Nat \ {0}
         /\ \A i \in 1 .. Len(h) : /\ h[i] \in HeaderType
                                   /\ h[i].time \in Nat /\ h[i].validator \in Signer
                                   /\ EpochOf(h[i].time) \in Nat
<1>1. h \in Seq(HeaderType) /\ h # <<>>
  BY DEF BlockType, NoBlock
<1>2. Len(h) \in Nat \ {0}
  BY <1>1
<1>3. \A i \in 1 .. Len(h) : h[i] \in HeaderType
  BY <1>1
<1>4. \A i \in 1 .. Len(h) : h[i].time \in Nat /\ h[i].validator \in Signer
  BY <1>3 DEF HeaderType
<1>5. \A x \in Nat : EpochOf(x) \in Nat
  BY EpochIntervalAssumption DEF EpochOf
<1> QED
  BY <1>2, <1>3, <1>4, <1>5, Zenon

LEMMA DivMonotone ==
  ASSUME NEW a \in Nat, NEW b \in Nat, NEW d \in Nat \ {0}, a <= b
  PROVE  a \div d <= b \div d
BY SMT

LEMMA EpochsOrdered ==
  ASSUME NEW h \in BlockType, TimesOrdered(h), NEW i \in 1 .. Len(h), NEW j \in 1 .. Len(h), i <= j
  PROVE  EpochOf(h[i].time) <= EpochOf(h[j].time)
<1>1. h[i].time \in Nat /\ h[j].time \in Nat /\ h[i].time <= h[j].time
  BY HeaderTypes DEF TimesOrdered
<1> QED
  BY <1>1, DivMonotone, EpochIntervalAssumption, Zenon DEF EpochOf

LEMMA SignersFinite ==
  ASSUME NEW S \in SUBSET Signer
  PROVE  IsFiniteSet(S) /\ Cardinality(S) \in Nat
<1>1. IsFiniteSet(Signer)
  BY AddressAssumption, FS_AddElement DEF Signer
<1> QED
  BY <1>1, FS_Subset, FS_CardinalityType

LEMMA WitnessesType ==
  ASSUME NEW h \in BlockType, NEW i \in 1 .. Len(h)
  PROVE  Witnesses(h, i) \in SUBSET Signer
BY HeaderTypes DEF Witnesses

(* What validatorMap holds when the loop has come down to header i: the    *)
(* validators of the headers above it, as long as they are of its epoch.   *)
Later(h, i) ==
  IF i < Len(h) /\ EpochOf(h[i + 1].time) = EpochOf(h[i].time) THEN Witnesses(h, i + 1) ELSE {}

LEMMA LaterType ==
  ASSUME NEW h \in BlockType, NEW i \in 1 .. Len(h)
  PROVE  Later(h, i) \in SUBSET Signer
<1>1. CASE i < Len(h)
  <2>1. i + 1 \in 1 .. Len(h)
    BY <1>1, HeaderTypes
  <2> QED
    BY <2>1, WitnessesType DEF Later
<1>2. CASE ~(i < Len(h))
  BY <1>2 DEF Later
<1> QED
  BY <1>1, <1>2

(* The witnesses of a header are its validator and those.                  *)
LEMMA WitnessesStep ==
  ASSUME NEW h \in BlockType, TimesOrdered(h), NEW i \in 1 .. Len(h)
  PROVE  Witnesses(h, i) = Later(h, i) \cup {h[i].validator}
<1> DEFINE E(j) == EpochOf(h[j].time)
<1>1. \A j \in 1 .. Len(h) : E(j) \in Nat
  BY HeaderTypes
<1>2. \A j, k \in 1 .. Len(h) : j <= k => E(j) <= E(k)
  BY EpochsOrdered
<1>3. Len(h) \in Nat
  BY HeaderTypes
<1>4. Witnesses(h, i) = {h[j].validator : j \in {k \in i .. Len(h) : E(k) = E(i)}}
  BY DEF Witnesses
<1>5. CASE i < Len(h) /\ E(i + 1) = E(i)
  <2>1. Later(h, i) = {h[j].validator : j \in {k \in i + 1 .. Len(h) : E(k) = E(i + 1)}}
    BY <1>5 DEF Later, Witnesses
  <2>2. {k \in i .. Len(h) : E(k) = E(i)} = {k \in i + 1 .. Len(h) : E(k) = E(i + 1)} \cup {i}
    <3> HIDE DEF E
    <3> QED
      BY <1>3, <1>5
  <2> HIDE DEF E
  <2> QED
    BY <1>4, <2>1, <2>2
<1>6. CASE ~(i < Len(h) /\ E(i + 1) = E(i))
  <2>1. Later(h, i) = {}
    BY <1>6 DEF Later
  <2> HIDE DEF E
  <2>2. {k \in i .. Len(h) : E(k) = E(i)} = {i}
    <3> SUFFICES ASSUME NEW k \in i .. Len(h), k # i PROVE E(k) # E(i)
      BY <1>3
    <3>1. i < Len(h) /\ i + 1 \in 1 .. Len(h) /\ k \in 1 .. Len(h) /\ i + 1 <= k /\ i <= i + 1
      BY <1>3
    <3>2. E(i) <= E(i + 1) /\ E(i + 1) <= E(k) /\ E(i + 1) # E(i)
      BY <1>2, <1>6, <3>1
    <3> QED
      BY <1>1, <3>1, <3>2
  <2> QED
    BY <1>4, <2>1, <2>2
<1> QED
  BY <1>5, <1>6

(* A header k at or below header i has at most one more witness for each   *)
(* header from k to i than validatorMap holds at i.                        *)
LEMMA WitnessesBound ==
  ASSUME NEW h \in BlockType, TimesOrdered(h), NEW i \in 1 .. Len(h), NEW k \in 1 .. i
  PROVE  Cardinality(Witnesses(h, k)) <= Cardinality(Later(h, i)) + (i - k + 1)
<1> DEFINE E(j) == EpochOf(h[j].time)
           V == {h[j].validator : j \in k .. i}
<1>1. Len(h) \in Nat /\ \A j \in 1 .. Len(h) : E(j) \in Nat /\ h[j].validator \in Signer
  BY HeaderTypes
<1>2. \A j, l \in 1 .. Len(h) : j <= l => E(j) <= E(l)
  BY EpochsOrdered
<1>3. Witnesses(h, k) \subseteq Later(h, i) \cup V
  <2> SUFFICES ASSUME NEW j \in k .. Len(h), E(j) = E(k)
               PROVE  h[j].validator \in Later(h, i) \cup V
    BY DEF Witnesses
  <2>1. CASE j <= i
    <3>1. j \in k .. i
      BY <1>1, <2>1
    <3> QED
      BY <3>1
  <2>2. CASE ~(j <= i)
    <3>1. /\ i < Len(h) /\ i + 1 \in 1 .. Len(h) /\ j \in i + 1 .. Len(h)
          /\ j \in 1 .. Len(h) /\ k \in 1 .. Len(h) /\ k <= i /\ i <= i + 1 /\ i + 1 <= j
      BY <1>1, <2>2
    <3>2. E(k) <= E(i) /\ E(i) <= E(i + 1) /\ E(i + 1) <= E(j)
      <4> HIDE DEF E
      <4> QED
        BY <1>2, <3>1
    <3>3. E(i + 1) = E(i) /\ E(j) = E(i + 1)
      <4>1. E(j) = E(k)
        OBVIOUS
      <4> HIDE DEF E
      <4> QED
        BY <1>1, <3>1, <3>2, <4>1
    <3>4. Later(h, i) = Witnesses(h, i + 1)
      BY <3>1, <3>3 DEF Later
    <3>5. h[j].validator \in Witnesses(h, i + 1)
      BY <3>1, <3>3 DEF Witnesses
    <3> QED
      BY <3>4, <3>5
  <2> QED
    BY <2>1, <2>2
<1>4. IsFiniteSet(V) /\ Cardinality(V) \in Nat /\ Cardinality(V) <= i - k + 1
  <2>1. IsFiniteSet(k .. i) /\ Cardinality(k .. i) = i - k + 1
    <3>1. k \in Int /\ i \in Int /\ ~(k > i)
      BY <1>1
    <3> QED
      BY <3>1, FS_Interval
  <2> DEFINE f == [j \in k .. i |-> h[j].validator]
  <2>2. f \in Surjection(k .. i, V)
    BY DEF Surjection
  <2> HIDE DEF f
  <2>3. IsFiniteSet(V) /\ Cardinality(V) <= Cardinality(k .. i)
    BY <2>1, <2>2, FS_Surjection
  <2> QED
    BY <2>1, <2>3, FS_CardinalityType
<1>5. IsFiniteSet(Later(h, i)) /\ Cardinality(Later(h, i)) \in Nat
  BY LaterType, SignersFinite
<1> HIDE DEF V
<1>6. /\ IsFiniteSet(Later(h, i) \cup V)
      /\ Cardinality(Later(h, i) \cup V) <= Cardinality(Later(h, i)) + Cardinality(V)
  <2>1. IsFiniteSet(Later(h, i) \cap V)
    BY <1>4, FS_Subset
  <2>2. Cardinality(Later(h, i) \cap V) \in Nat
    BY <2>1, FS_CardinalityType
  <2>3. /\ IsFiniteSet(Later(h, i) \cup V)
        /\ Cardinality(Later(h, i) \cup V)
             = Cardinality(Later(h, i)) + Cardinality(V) - Cardinality(Later(h, i) \cap V)
    <3>1. PICK S : S = Later(h, i)
      OBVIOUS
    <3> QED
      BY <1>4, <1>5, <3>1, FS_Union
  <2> QED
    BY <1>4, <1>5, <2>2, <2>3
<1>7. Cardinality(Witnesses(h, k)) <= Cardinality(Later(h, i) \cup V)
  BY <1>3, <1>6, FS_Subset
<1>8. Cardinality(Witnesses(h, k)) \in Nat /\ Cardinality(Later(h, i) \cup V) \in Nat
  <2>1. k \in 1 .. Len(h)
    BY <1>1
  <2> QED
    BY <1>6, <2>1, FS_CardinalityType, WitnessesType, SignersFinite
<1> QED
  BY <1>1, <1>4, <1>5, <1>6, <1>7, <1>8

-----------------------------------------------------------------------------
(* The blocks above c, up to the i-th, with enough witnesses, and what the *)
(* loop should return when it looks at no others.                          *)
Enough(h, c, i) == {k \in (Len(c) + 1) .. i : Cardinality(Witnesses(h, k)) >= ConsensusSize}
Found(h, c, i) == IF Enough(h, c, i) = {} THEN c ELSE SubSeq(h, 1, Max(Enough(h, c, i)))

(* The state of the loop when it has come down to header i.                *)
Reached(h, i, epoch, seen) ==
  \/ i = Len(h) /\ epoch = -1 /\ seen = {}
  \/ i < Len(h) /\ epoch = EpochOf(h[i + 1].time) /\ seen = Witnesses(h, i + 1)

LEMMA ReachedBefore ==
  ASSUME NEW h \in BlockType, NEW i \in 1 .. Len(h), NEW epoch, NEW seen, Reached(h, i, epoch, seen)
  PROVE  Before(h, i, epoch, seen) = Later(h, i)
<1>1. EpochOf(h[i].time) \in Nat /\ Len(h) \in Nat
  BY HeaderTypes
<1>2. CASE i = Len(h) /\ epoch = -1 /\ seen = {}
  BY <1>1, <1>2 DEF Before, Later
<1>3. CASE i < Len(h) /\ epoch = EpochOf(h[i + 1].time) /\ seen = Witnesses(h, i + 1)
  BY <1>1, <1>3 DEF Before, Later
<1> QED
  BY <1>2, <1>3 DEF Reached

(* What a turn adds to what the rest of the loop finds.                    *)
LEMMA FoundStep ==
  ASSUME NEW h \in BlockType, TimesOrdered(h), NEW c, Len(c) \in Nat, NEW i \in 1 .. Len(h),
         Len(c) < i
  PROVE  /\ FastReturn(c, i, Later(h, i)) => Found(h, c, i) = c
         /\ Confirms(h, i, Later(h, i)) => Found(h, c, i) = SubSeq(h, 1, i)
         /\ ~Confirms(h, i, Later(h, i)) => Found(h, c, i) = Found(h, c, i - 1)
<1>1. /\ Len(h) \in Nat /\ Cardinality(Later(h, i)) \in Nat
  BY HeaderTypes, LaterType, SignersFinite
<1>2. ConsensusSize \in Int
  BY MaxValidatorSizeAssumption DEF ConsensusSize
<1>3. Confirms(h, i, Later(h, i)) <=> Cardinality(Witnesses(h, i)) >= ConsensusSize
  BY WitnessesStep, Zenon DEF Confirms
<1>4. ASSUME FastReturn(c, i, Later(h, i)) PROVE Found(h, c, i) = c
  <2>1. ASSUME NEW k \in (Len(c) + 1) .. i PROVE ~(Cardinality(Witnesses(h, k)) >= ConsensusSize)
    <3>1. k \in 1 .. i /\ k \in 1 .. Len(h)
      BY <1>1
    <3>2. Cardinality(Witnesses(h, k)) <= Cardinality(Later(h, i)) + (i - k + 1)
      BY <3>1, WitnessesBound
    <3>3. Cardinality(Witnesses(h, k)) \in Nat
      BY <3>1, WitnessesType, SignersFinite
    <3> QED
      BY <1>1, <1>2, <1>4, <3>1, <3>2, <3>3 DEF FastReturn
  <2>2. Enough(h, c, i) = {}
    BY <2>1 DEF Enough
  <2> QED
    BY <2>2 DEF Found
<1>5. ASSUME Confirms(h, i, Later(h, i)) PROVE Found(h, c, i) = SubSeq(h, 1, i)
  <2>1. i \in Enough(h, c, i)
    BY <1>1, <1>3, <1>5 DEF Enough
  <2>2. Enough(h, c, i) \in SUBSET Int /\ \A x \in Enough(h, c, i) : x <= i
    BY <1>1 DEF Enough
  <2>3. Max(Enough(h, c, i)) = i
    BY <2>1, <2>2, MaxIs
  <2> QED
    BY <2>1, <2>3 DEF Found
<1>6. ASSUME ~Confirms(h, i, Later(h, i)) PROVE Found(h, c, i) = Found(h, c, i - 1)
  <2>1. Enough(h, c, i) = Enough(h, c, i - 1)
    BY <1>1, <1>3, <1>6 DEF Enough
  <2> QED
    BY <2>1 DEF Found
<1> QED
  BY <1>4, <1>5, <1>6

(* From every state it can reach, the loop finds the highest block with    *)
(* enough witnesses among those still below.                               *)
LEMMA WalkFinds ==
  ASSUME NEW h \in BlockType, TimesOrdered(h), NEW c, Len(c) \in Nat,
         NEW w, IsWalk(w, h, c, Len(h)), NEW n \in 0 .. Len(h)
  PROVE  \A epoch \in Int, seen \in SUBSET Signer :
           Reached(h, n, epoch, seen) => w[n][epoch][seen] = Found(h, c, n)
<1> DEFINE P(i) == \A epoch \in Int, seen \in SUBSET Signer :
                     Reached(h, i, epoch, seen) => w[i][epoch][seen] = Found(h, c, i)
           T == {i \in Nat : i \in 0 .. Len(h) => P(i)}
<1>1. Len(h) \in Nat \ {0}
  BY HeaderTypes
<1>2. ASSUME NEW i \in 0 .. Len(h), i > 0 => P(i - 1) PROVE P(i)
  <2> SUFFICES ASSUME NEW epoch \in Int, NEW seen \in SUBSET Signer, Reached(h, i, epoch, seen)
               PROVE  w[i][epoch][seen] = Found(h, c, i)
    OBVIOUS
  <2>1. CASE Len(c) >= i
    <3>1. Enough(h, c, i) = {}
      BY <1>1, <2>1 DEF Enough
    <3>2. PICK before : before = Before(h, i, epoch, seen)
      OBVIOUS
    <3>3. Cardinality(before) \in Nat
      <4>1. before \in SUBSET Signer
        BY <3>2 DEF Before
      <4> QED
        BY <4>1, SignersFinite
    <3>4. w[i][epoch][seen] = c
      <4>1. Len(h) \in Nat
        BY <1>1
      <4>2. TurnEnds(w, h, c, i, epoch, seen, before)
        BY <3>2, <3>3, <4>1, WalkTurn
      <4> QED
        BY <2>1, <4>2 DEF TurnEnds
    <3> QED
      BY <3>1, <3>4 DEF Found
  <2>2. CASE ~(Len(c) >= i)
    <3>1. i \in 1 .. Len(h) /\ Len(c) < i /\ i > 0
      BY <1>1, <2>2
    <3> DEFINE next == w[i - 1][EpochOf(h[i].time)][Witnesses(h, i)]
    <3>2. Later(h, i) = Before(h, i, epoch, seen) /\ Cardinality(Later(h, i)) \in Nat
      BY <3>1, ReachedBefore, LaterType, SignersFinite
    <3>3. Witnesses(h, i) = Later(h, i) \cup {h[i].validator} /\ Witnesses(h, i) \in SUBSET Signer
      BY <3>1, WitnessesStep, WitnessesType
    <3>4. /\ FastReturn(c, i, Later(h, i)) => w[i][epoch][seen] = c
          /\ ~FastReturn(c, i, Later(h, i)) /\ Confirms(h, i, Later(h, i))
               => w[i][epoch][seen] = SubSeq(h, 1, i)
          /\ ~FastReturn(c, i, Later(h, i)) /\ ~Confirms(h, i, Later(h, i))
               => w[i][epoch][seen] = next
      <4>1. Len(h) \in Nat
        BY <1>1
      <4>2. TurnEnds(w, h, c, i, epoch, seen, Later(h, i))
        BY <3>2, <4>1, WalkTurn
      <4> QED
        BY <3>1, <3>3, <4>2 DEF TurnEnds
    <3>5. /\ FastReturn(c, i, Later(h, i)) => Found(h, c, i) = c
          /\ Confirms(h, i, Later(h, i)) => Found(h, c, i) = SubSeq(h, 1, i)
          /\ ~Confirms(h, i, Later(h, i)) => Found(h, c, i) = Found(h, c, i - 1)
      BY <3>1, FoundStep
    <3>6. next = Found(h, c, i - 1)
      <4>1. /\ i - 1 < Len(h) /\ (i - 1) + 1 = i /\ EpochOf(h[i].time) \in Int
        BY <1>1, <3>1, HeaderTypes
      <4>2. Reached(h, i - 1, EpochOf(h[i].time), Witnesses(h, i))
        BY <4>1 DEF Reached
      <4> QED
        BY <1>2, <3>1, <3>3, <4>1, <4>2
    <3> HIDE DEF next
    <3> QED
      BY <3>4, <3>5, <3>6, Zenon
  <2> QED
    BY <2>1, <2>2
<1> HIDE DEF P
<1>3. 0 \in T
  BY <1>1, <1>2
<1>4. ASSUME NEW i \in T PROVE i + 1 \in T
  <2>1. i + 1 \in Nat /\ (i + 1) - 1 = i
    OBVIOUS
  <2>2. ASSUME i + 1 \in 0 .. Len(h) PROVE P(i + 1)
    <3>1. i \in 0 .. Len(h) /\ P(i)
      BY <1>1, <2>2
    <3> QED
      BY <1>2, <2>1, <2>2, <3>1
  <2> QED
    BY <2>1, <2>2
<1>5. T = Nat
  <2>1. T \in SUBSET Nat
    OBVIOUS
  <2> HIDE DEF T
  <2> QED
    BY <1>3, <1>4, <2>1, SetInduction
<1>6. P(n)
  BY <1>1, <1>5
<1> QED
  BY <1>6 DEF P

(* The loop of updateConfirmedBlockHeader, with its reset at a change of   *)
(* epoch and its fast return, finds on every chain whose times do not go   *)
(* back the highest block above the confirmed one that ConsensusSize       *)
(* validators of its epoch signed or built on, and changes nothing when    *)
(* there is none.                                                          *)
THEOREM ConfirmationLoop ==
  ASSUME NEW h \in BlockType, TimesOrdered(h), NEW c, Len(c) \in Nat
  PROVE  ConfirmedFrom(h, c) = HighestWitnessed(h, c)
<1>1. Len(h) \in Nat /\ Len(h) \in 0 .. Len(h)
  BY HeaderTypes
<1>2. PICK w : IsWalk(w, h, c, Len(h)) /\ ConfirmedFrom(h, c) = w[Len(h)][-1][{}]
  BY <1>1, ConfirmedFromIs
<1>3. Reached(h, Len(h), -1, {})
  BY DEF Reached
<1>4. w[Len(h)][-1][{}] = Found(h, c, Len(h))
  BY <1>1, <1>2, <1>3, WalkFinds
<1>5. Found(h, c, Len(h)) = HighestWitnessed(h, c)
  BY DEF Found, Enough, HighestWitnessed
<1> QED
  BY <1>2, <1>4, <1>5

-----------------------------------------------------------------------------
(* Blocks, their prefixes, parents and children.                           *)

(* The blocks that can come into being: their times do not go back.        *)
Chain == {b \in BlockType : TimesOrdered(b)}

(* A prefix of a block is a block with the same first headers.             *)
LEMMA PrefixIs ==
  ASSUME NEW b \in BlockType, NEW i \in 1 .. Len(b)
  PROVE  /\ SubSeq(b, 1, i) \in BlockType
         /\ Len(SubSeq(b, 1, i)) = i
         /\ \A j \in 1 .. i : SubSeq(b, 1, i)[j] = b[j]
<1>1. Len(b) \in Nat /\ \A j \in 1 .. i : b[j] \in HeaderType
  BY HeaderTypes
<1>2. /\ SubSeq(b, 1, i) \in Seq(HeaderType)
      /\ Len(SubSeq(b, 1, i)) = i
      /\ \A j \in 1 .. i : SubSeq(b, 1, i)[j] = b[j]
  BY <1>1
<1>3. SubSeq(b, 1, i) # <<>>
  BY <1>2
<1> QED
  BY <1>2, <1>3 DEF BlockType, NoBlock

(* The whole of it is the block.                                           *)
LEMMA PrefixFull ==
  ASSUME NEW b \in BlockType
  PROVE  SubSeq(b, 1, Len(b)) = b
BY DEF BlockType

(* The parent of a block, if it is a block at all, is the prefix before    *)
(* the last header.                                                        *)
LEMMA ParentIs ==
  ASSUME NEW b \in BlockType, Parent(b) \in BlockType
  PROVE  /\ Len(b) \in Nat /\ Len(b) >= 2
         /\ Len(Parent(b)) = Len(b) - 1
         /\ \A j \in 1 .. Len(b) - 1 : Parent(b)[j] = b[j]
         /\ Header(Parent(b)) = b[Len(b) - 1]
         /\ Header(b) = b[Len(b)]
<1>1. Len(b) \in Nat \ {0} /\ Len(Parent(b)) \in Nat \ {0}
  BY HeaderTypes
<1>2. CASE Len(b) = 1
  <2>1. Parent(b) = <<>>
    BY <1>2 DEF Parent
  <2> QED
    BY <2>1 DEF BlockType, NoBlock
<1>3. CASE Len(b) # 1
  <2>1. Len(b) - 1 \in 1 .. Len(b)
    <3>1. \A k \in Nat : k # 0 /\ k # 1 => k - 1 \in 1 .. k
      OBVIOUS
    <3> QED
      BY <1>1, <1>3, <3>1, Zenon
  <2>2. /\ Len(Parent(b)) = Len(b) - 1
        /\ \A j \in 1 .. Len(b) - 1 : Parent(b)[j] = b[j]
    BY <2>1, PrefixIs DEF Parent
  <2> QED
    BY <1>1, <1>3, <2>1, <2>2 DEF Header
<1> QED
  BY <1>2, <1>3

(* The proper prefixes of a block are the prefixes of its parent.          *)
LEMMA PrefixOfParent ==
  ASSUME NEW b \in BlockType, Parent(b) \in BlockType, NEW i \in 1 .. Len(b) - 1
  PROVE  SubSeq(b, 1, i) = SubSeq(Parent(b), 1, i)
<1>1. Len(b) \in Nat /\ Len(Parent(b)) = Len(b) - 1
  BY ParentIs
<1>2. i \in 1 .. Len(b) /\ i \in 1 .. Len(Parent(b))
  BY <1>1
<1> DEFINE s == SubSeq(b, 1, i)
           t == SubSeq(Parent(b), 1, i)
<1>3. /\ s \in BlockType /\ t \in BlockType
      /\ Len(s) = i /\ Len(t) = i
      /\ \A j \in 1 .. i : s[j] = b[j] /\ t[j] = Parent(b)[j]
  BY <1>2, PrefixIs
<1>4. \A j \in 1 .. i : s[j] = t[j]
  BY <1>1, <1>3, ParentIs
<1>5. s \in Seq(HeaderType) /\ t \in Seq(HeaderType)
  BY <1>3 DEF BlockType
<1> HIDE DEF s, t
<1>6. s = t
  BY <1>3, <1>4, <1>5, SameSeq
<1> QED
  BY <1>6 DEF s, t

(* A block one header longer.                                              *)
LEMMA ChildIs ==
  ASSUME NEW p \in Chain, NEW e \in HeaderType, Header(p).time <= e.time
  PROVE  /\ Append(p, e) \in Chain
         /\ Parent(Append(p, e)) = p
         /\ Len(Append(p, e)) = Len(p) + 1
         /\ \A j \in 1 .. Len(p) : Append(p, e)[j] = p[j]
         /\ Append(p, e)[Len(p) + 1] = e
<1> DEFINE b == Append(p, e)
<1>1. /\ p \in BlockType /\ TimesOrdered(p) /\ p \in Seq(HeaderType)
      /\ Len(p) \in Nat /\ Len(p) # 0
      /\ \A i \in 1 .. Len(p) : p[i].time \in Nat
  BY HeaderTypes DEF Chain, BlockType
<1>2. /\ b \in Seq(HeaderType) /\ b # <<>>
      /\ Len(b) = Len(p) + 1
      /\ \A j \in 1 .. Len(p) : b[j] = p[j]
      /\ b[Len(p) + 1] = e
  BY <1>1
<1> HIDE DEF b
<1>3. b \in BlockType
  BY <1>2 DEF BlockType, NoBlock
<1>4. TimesOrdered(b)
  <2>1. \A i \in 1 .. Len(p) : p[i].time <= e.time
    <3>1. Header(p).time = p[Len(p)].time
      BY DEF Header
    <3>2. e.time \in Nat
      BY DEF HeaderType
    <3> QED
      BY <1>1, <3>1, <3>2 DEF TimesOrdered
  <2>2. SUFFICES ASSUME NEW i \in 1 .. Len(b), NEW j \in 1 .. Len(b), i <= j
                 PROVE  b[i].time <= b[j].time
    BY DEF TimesOrdered
  <2>3. CASE j = Len(p) + 1
    <3>1. CASE i = Len(p) + 1
      <4>1. e.time \in Nat
        BY DEF HeaderType
      <4> QED
        BY <1>2, <2>3, <3>1, <4>1
    <3>2. CASE i # Len(p) + 1
      <4>1. i \in 1 .. Len(p)
        BY <1>1, <1>2, <3>2
      <4> QED
        BY <1>2, <2>1, <2>3, <4>1
    <3> QED
      BY <3>1, <3>2
  <2>4. CASE j # Len(p) + 1
    <3>1. i \in 1 .. Len(p) /\ j \in 1 .. Len(p)
      BY <1>1, <1>2, <2>2, <2>4
    <3> QED
      BY <1>1, <1>2, <2>2, <3>1 DEF TimesOrdered
  <2> QED
    BY <2>3, <2>4
<1>5. Parent(b) = p
  <2>1. Len(b) - 1 = Len(p) /\ Len(p) \in 1 .. Len(b)
    BY <1>1, <1>2
  <2>2. /\ Parent(b) \in BlockType /\ Len(Parent(b)) = Len(p)
        /\ \A j \in 1 .. Len(p) : Parent(b)[j] = p[j]
    BY <1>2, <1>3, <2>1, PrefixIs DEF Parent
  <2>3. Parent(b) \in Seq(HeaderType)
    BY <2>2 DEF BlockType
  <2> QED
    BY <1>1, <2>2, <2>3, SameSeq
<1>6. b \in Chain
  BY <1>3, <1>4 DEF Chain
<1> QED
  BY <1>2, <1>5, <1>6 DEF b
=============================================================================
