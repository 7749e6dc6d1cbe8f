------------------------- MODULE FindAncestorProofs ------------------------
(***************************************************************************)
(* For chains of every length and every choice of the constants with       *)
(* Stride <= MaxHeaderFetch, what the ancestor search returns is a common  *)
(* block that may be reverted to, and the last one up to a sampling step.  *)
(* The samples rest on one fact about them, SampledIsBest: the highest     *)
(* matching sample is less than a stride below the last common block.      *)
(* The search rests on an invariant that keeps its bounds below the local  *)
(* head and the ancestor between them.                                     *)
(***************************************************************************)
EXTENDS FindAncestor, TLAPS

-----------------------------------------------------------------------------
(* Division by the stride, and the order of the multiples of it.           *)
LEMMA DivBounds ==
  ASSUME NEW a \in Nat, NEW s \in Nat \ {0}
  PROVE  /\ a \div s \in Nat
         /\ (a \div s) * s <= a
         /\ a < (a \div s) * s + s
BY SMT

LEMMA MultiplesOrdered ==
  ASSUME NEW i \in Nat, NEW j \in Nat, NEW s \in Nat \ {0}
  PROVE  /\ i * s \in Nat
         /\ (i + 1) * s = i * s + s
         /\ i <= j => i * s <= j * s
         /\ i * s < j * s + s => i <= j
BY SMT

(* The maximum and the minimum of FiniteSetsExt are what they are called.  *)
LEMMA MaxIs ==
  ASSUME NEW S \in SUBSET Int, NEW m \in S, \A x \in S : x <= m
  PROVE  Max(S) = m
<1>1. \A x \in S : m >= x
  OBVIOUS
<1>2. \A y \in S : (\A x \in S : y >= x) => y = m
  OBVIOUS
<1> QED
  BY <1>1, <1>2 DEF Max

LEMMA MinOfTwo ==
  ASSUME NEW a \in Int, NEW b \in Int
  PROVE  Min({a, b}) = IF a <= b THEN a ELSE b
<1>1. CASE a <= b
  <2>1. \A x \in {a, b} : (\A y \in {a, b} : x <= y) <=> x = a
    BY <1>1
  <2> QED
    BY <1>1, <2>1 DEF Min
<1>2. CASE ~(a <= b)
  <2>1. \A x \in {a, b} : (\A y \in {a, b} : x <= y) <=> x = b
    BY <1>2
  <2> QED
    BY <1>2, <2>1 DEF Min
<1> QED
  BY <1>1, <1>2

-----------------------------------------------------------------------------
(* Where the samples lie: they start at or below both heads, and those     *)
(* asked for reach past the lower of the local head and the remote one.    *)
LEMMA SamplesReach ==
  ASSUME TypeOK
  PROVE  /\ From \in Nat /\ From <= ceil /\ From <= height
         /\ HeadNumber \in Nat /\ HeadNumber <= ceil /\ HeadNumber <= height
         /\ ceil <= HeadNumber \/ height <= HeadNumber
         /\ Count \in Nat \ {0}
         /\ HeadNumber < From + Count * Stride
<1> USE SampleAssumption DEF TypeOK
<1>1. /\ HeadNumber \in Nat /\ HeadNumber <= ceil /\ HeadNumber <= height
      /\ ceil <= HeadNumber \/ height <= HeadNumber
  BY DEF HeadNumber
<1>2. /\ From \in Nat /\ From <= HeadNumber /\ HeadNumber <= From + MaxHeaderFetch
  BY <1>1 DEF From
<1> DEFINE n == (ceil - From) \div Stride
<1>3. /\ n \in Nat /\ ceil - From < n * Stride + Stride
  <2>1. ceil - From \in Nat /\ Stride \in Nat \ {0}
    BY <1>1, <1>2
  <2>2. PICK a \in Nat : a = ceil - From
    BY <2>1
  <2>3. a \div Stride \in Nat /\ a < (a \div Stride) * Stride + Stride
    BY <2>1, DivBounds
  <2> QED
    BY <2>2, <2>3
<1>4. /\ Limit \in Nat \ {0} /\ MaxHeaderFetch < Limit * Stride
  <2>1. /\ Limit \in Nat /\ 2 * MaxHeaderFetch < Limit * Stride + Stride
    BY DivBounds DEF Limit
  <2>2. MaxHeaderFetch < Limit * Stride
    <3>1. Limit * Stride \in Nat
      BY <2>1, MultiplesOrdered
    <3> QED
      BY <2>1, <3>1
  <2> QED
    BY <2>1, <2>2
<1>5. CASE 1 + n > Limit
  <2>1. Count = Limit
    BY <1>5 DEF Count
  <2>2. Limit * Stride \in Nat
    BY <1>4, MultiplesOrdered
  <2> QED
    BY <1>1, <1>2, <1>4, <2>1, <2>2
<1>6. CASE ~(1 + n > Limit)
  <2>1. Count = n + 1
    BY <1>3, <1>6 DEF Count
  <2>2. n * Stride \in Nat /\ (n + 1) * Stride = n * Stride + Stride
    BY <1>3, MultiplesOrdered
  <2> HIDE DEF n
  <2> QED
    BY <1>1, <1>2, <1>3, <2>1, <2>2
<1> QED
  BY <1>5, <1>6

(* Matching samples are all those up to the last common block.             *)
LEMMA MatchIs ==
  ASSUME TypeOK
  PROVE  Match = {i \in 0 .. Count - 1 : From + i * Stride <= ceil /\ From + i * Stride <= known}
<1>1. \A i \in 0 .. Count - 1 : From + i * Stride \in Nat
  <2> SUFFICES ASSUME NEW i \in 0 .. Count - 1 PROVE From + i * Stride \in Nat
    OBVIOUS
  <2>1. i \in Nat /\ From \in Nat
    BY SamplesReach
  <2> QED
    BY <2>1, SampleAssumption, MultiplesOrdered
<1> QED
  BY <1>1, SampleAssumption DEF Match, Sampled, TypeOK

(* The highest matching sample, when there is one, is at or below the last *)
(* common block and less than a stride from it.                            *)
LEMMA SampledIsBest ==
  ASSUME TypeOK, Match # {}
  PROVE  /\ Best \in Match
         /\ From + Best * Stride \in Nat
         /\ From + Best * Stride <= known /\ From + Best * Stride <= ceil
         /\ Min({known, ceil}) < From + Best * Stride + Stride
<1> DEFINE low == IF known <= ceil THEN known ELSE ceil
           q == (low - From) \div Stride
           m == IF q < Count - 1 THEN q ELSE Count - 1
<1>0. /\ known \in Nat /\ ceil \in Nat /\ height \in Nat /\ known <= height
      /\ Stride \in Nat \ {0}
  BY SampleAssumption DEF TypeOK
<1>1. /\ From \in Nat /\ Count \in Nat \ {0} /\ low \in Nat /\ Stride \in Nat \ {0}
      /\ HeadNumber \in Nat /\ low <= HeadNumber /\ HeadNumber < From + Count * Stride
  BY SamplesReach, <1>0
<1>2. \A i \in 0 .. Count - 1 : i \in Match <=> From + i * Stride <= low
  <2> SUFFICES ASSUME NEW i \in 0 .. Count - 1
               PROVE  i \in Match <=> From + i * Stride <= low
    OBVIOUS
  <2>1. i * Stride \in Nat
    BY <1>1, MultiplesOrdered
  <2> QED
    BY <1>0, <1>1, <2>1, MatchIs
<1>3. Match \subseteq 0 .. Count - 1
  BY DEF Match, Sampled
<1>4. From <= low
  <2>1. PICK i \in Match : TRUE
    OBVIOUS
  <2>2. i \in Nat /\ i * Stride \in Nat
    BY <1>1, <1>3, MultiplesOrdered
  <2> HIDE DEF low
  <2> QED
    BY <1>1, <1>2, <1>3, <2>2
<1> HIDE DEF low
<1>5. /\ q \in Nat /\ q * Stride <= low - From /\ low - From < q * Stride + Stride
  <2>1. low - From \in Nat
    BY <1>1, <1>4
  <2> QED
    BY <1>1, <2>1, DivBounds
<1> HIDE DEF q
<1>6. /\ m \in Nat /\ m \in 0 .. Count - 1 /\ m <= q
  BY <1>1, <1>5
<1>7. m \in Match
  <2>1. m * Stride \in Nat /\ m * Stride <= q * Stride /\ q * Stride \in Nat
    BY <1>1, <1>5, <1>6, MultiplesOrdered
  <2> QED
    BY <1>1, <1>2, <1>5, <1>6, <2>1
<1>8. \A i \in Match : i <= m
  <2> SUFFICES ASSUME NEW i \in Match PROVE i <= m
    OBVIOUS
  <2>1. i \in 0 .. Count - 1 /\ i \in Nat /\ From + i * Stride <= low
    BY <1>1, <1>2, <1>3
  <2>2. i * Stride \in Nat /\ (i * Stride < q * Stride + Stride => i <= q) /\ q * Stride \in Nat
    BY <1>1, <1>5, <2>1, MultiplesOrdered
  <2> QED
    BY <1>1, <1>5, <2>1, <2>2
<1>9. Best = m
  <2>1. Match \in SUBSET Int
    BY <1>1, <1>3
  <2> HIDE DEF m
  <2> QED
    BY <1>7, <1>8, <2>1, MaxIs DEF Best
<1>10. low < From + m * Stride + Stride
  <2>1. CASE m = q
    <3>1. m * Stride \in Nat
      BY <1>1, <1>6, MultiplesOrdered
    <3> QED
      BY <1>1, <1>5, <2>1, <3>1
  <2>2. CASE m = Count - 1
    <3>1. m * Stride \in Nat /\ (m + 1) * Stride = m * Stride + Stride
      BY <1>1, <1>6, MultiplesOrdered
    <3>2. m + 1 = Count
      BY <1>1, <2>2
    <3> HIDE DEF m
    <3> QED
      BY <1>1, <3>1, <3>2
  <2> QED
    BY <2>1, <2>2
<1>11. Min({known, ceil}) = low
  BY <1>0, MinOfTwo DEF low
<1>12. m * Stride \in Nat
  BY <1>1, <1>6, MultiplesOrdered
<1>13. low <= known /\ low <= ceil
  BY <1>0 DEF low
<1> HIDE DEF m
<1> QED
  BY <1>0, <1>1, <1>2, <1>6, <1>7, <1>9, <1>10, <1>11, <1>12, <1>13

-----------------------------------------------------------------------------
(* Beyond what AncestorIsFound says, the bounds of the search lie on the   *)
(* local chain.                                                            *)
SearchInv ==
  /\ AncestorIsFound
  /\ pc = "search" => start <= ceil /\ end <= ceil

LEMMA InitSearchInv ==
  ASSUME Init
  PROVE  SearchInv
BY SampleAssumption DEF Init, SearchInv, AncestorIsFound, TypeOK, FoundIsAncestor, FoundIsNear,
       RefusedWhenOld, Bracketed

LEMMA NextSearchInv ==
  ASSUME SearchInv, [Next]_vars
  PROVE  SearchInv'
<1> DEFINE low == Min({known, ceil})
<1>1. /\ TypeOK /\ Stride \in Nat \ {0} /\ MaxBlock \in Nat
      /\ known \in Nat /\ ceil \in Nat /\ height \in Nat /\ known <= height
      /\ ceil <= MaxBlock /\ height <= MaxBlock
      /\ start \in Nat /\ end \in Nat /\ start <= MaxBlock /\ end <= MaxBlock
  BY SampleAssumption DEF SearchInv, AncestorIsFound, TypeOK
<1>2. low \in Nat /\ low <= known /\ low <= ceil
  BY <1>1, MinOfTwo
<1>3. Floor \in Int /\ Floor <= ceil /\ Floor >= -1
  BY <1>1, SampleAssumption DEF Floor
<1> HIDE DEF low
(* The chains stay as they are, and with them all that is derived from     *)
(* them.                                                                   *)
<1>4. /\ ceil' = ceil /\ height' = height /\ known' = known
      /\ Floor' = Floor /\ Min({known', ceil'}) = low
  <2>1. ceil' = ceil /\ height' = height /\ known' = known
    BY DEF Next, Sample, Search, SearchEnds, GiveUp, vars
  <2> QED
    BY <2>1 DEF Floor, low
(* A block that is accepted, or refused as too old.                        *)
<1>5. ASSUME NEW n \in Nat, n <= ceil, n <= known \/ n <= Floor, low < n + Stride,
             Accept(n), UNCHANGED <<start, end>>
      PROVE  SearchInv'
  <2>1. CASE n <= Floor
    <3>1. pc' = "tooOld" /\ result' = result /\ low < Floor + Stride
      BY <1>1, <1>2, <1>3, <1>5, <2>1 DEF Accept, Fail
    <3> QED
      BY <1>1, <1>4, <1>5, <3>1
      DEF SearchInv, AncestorIsFound, TypeOK, FoundIsAncestor, FoundIsNear, RefusedWhenOld, Bracketed
  <2>2. CASE ~(n <= Floor)
    <3>1. pc' = "done" /\ result' = n /\ n <= known /\ n > Floor /\ low - n < Stride
      BY <1>1, <1>2, <1>3, <1>5, <2>2 DEF Accept, Finish
    <3>2. n \in -1 .. MaxBlock
      BY <1>1, <1>5
    <3> QED
      BY <1>1, <1>4, <1>5, <3>1, <3>2
      DEF SearchInv, AncestorIsFound, TypeOK, FoundIsAncestor, FoundIsNear, RefusedWhenOld, Bracketed
  <2> QED
    BY <2>1, <2>2
(* No sample is known, so that the ancestor lies below the first one.      *)
<1>6. CASE Sample /\ Match = {}
  <2>1. /\ pc' = "search" /\ start' = Oldest /\ end' = HeadNumber /\ result' = result
    BY <1>6 DEF Sample
  <2>2. known < From
    <3>1. 0 \in 0 .. Count - 1 /\ From \in Nat /\ From <= ceil /\ From + 0 * Stride = From
      BY <1>1, SamplesReach
    <3> QED
      BY <1>1, <1>6, <3>1, MatchIs
  <2>3. HeadNumber \in Nat /\ From \in Nat /\ From <= HeadNumber /\ HeadNumber <= ceil
    BY <1>1, SamplesReach
  <2>4. Oldest \in Nat /\ Oldest <= ceil /\ (Oldest <= known \/ Oldest = Floor)
    BY <1>1, <1>3 DEF Oldest
  <2>5. Max({HeadNumber, 1}) = HeadNumber
    <3>1. \A x \in {HeadNumber, 1} : x <= HeadNumber
      BY <1>1, <2>2, <2>3
    <3> QED
      BY <2>3, <3>1, MaxIs
  <2>6. /\ start' \in 0 .. MaxBlock /\ end' \in 0 .. MaxBlock
        /\ start' <= ceil /\ end' <= ceil /\ (start' <= known \/ start' = Floor)
        /\ known < Max({end', 1})
    BY <1>1, <2>1, <2>2, <2>3, <2>4, <2>5
  <2> QED
    BY <1>1, <1>4, <2>1, <2>6
    DEF SearchInv, AncestorIsFound, TypeOK, FoundIsAncestor, FoundIsNear, RefusedWhenOld, Bracketed
(* The highest sample that is known is taken.                              *)
<1>7. CASE Sample /\ Match # {}
  <2> DEFINE n == From + Best * Stride
  <2>1. n \in Nat /\ n <= known /\ n <= ceil /\ low < n + Stride
    BY <1>1, <1>7, SampledIsBest DEF low
  <2>2. UNCHANGED <<start, end>> /\ Accept(n)
    BY <1>1, <1>7, <2>1 DEF Sample
  <2> HIDE DEF n
  <2> QED
    BY <1>5, <2>1, <2>2
(* The interval is halved towards the ancestor.                            *)
<1>8. CASE Search
  <2> DEFINE check == (start + end) \div 2
  <2>1. pc = "search" /\ pc' = pc /\ result' = result /\ start + 1 < end /\ Halve
    BY <1>8 DEF Search, Open
  <2>2. check \in Nat /\ start < check /\ check < end
    BY <1>1, <2>1
  <2>3. /\ start' \in Nat /\ end' \in Nat /\ start' <= end /\ end' <= end
        /\ start' = start \/ start' <= known
        /\ end' = end \/ (known < end' /\ 1 <= end')
    BY <1>1, <2>1, <2>2 DEF Halve
  <2> HIDE DEF check
  <2>4. known < Max({end', 1})
    <3>1. CASE end' = end
      BY <2>1, <3>1 DEF SearchInv, AncestorIsFound, Bracketed
    <3>2. CASE known < end' /\ 1 <= end'
      <4>1. \A x \in {end', 1} : x <= end'
        BY <2>3, <3>2
      <4>2. Max({end', 1}) = end'
        BY <2>3, <4>1, MaxIs
      <4> QED
        BY <3>2, <4>2
    <3> QED
      BY <2>3, <3>1, <3>2
  <2>5. end <= ceil /\ (start <= known \/ start = Floor)
    BY <2>1 DEF SearchInv, AncestorIsFound, Bracketed
  <2>6. /\ start' \in 0 .. MaxBlock /\ end' \in 0 .. MaxBlock
        /\ start' <= ceil /\ end' <= ceil /\ (start' <= known \/ start' = Floor)
    BY <1>1, <1>3, <2>3, <2>5
  <2> QED
    BY <1>1, <1>4, <2>1, <2>4, <2>6
    DEF SearchInv, AncestorIsFound, TypeOK, FoundIsAncestor, FoundIsNear, RefusedWhenOld, Bracketed
(* Nothing lies between the bounds: the lower one is the ancestor, or the  *)
(* oldest block that may be reverted.                                      *)
<1>9. CASE SearchEnds
  <2>1. pc = "search" /\ ~(start + 1 < end) /\ Accept(start) /\ UNCHANGED <<start, end>>
    BY <1>9 DEF SearchEnds, Open
  <2>2. start <= ceil /\ known < Max({end, 1}) /\ (start <= known \/ start = Floor)
    BY <2>1 DEF SearchInv, AncestorIsFound, Bracketed
  <2>3. Max({end, 1}) <= start + 1
    <3>1. CASE end <= 1
      <4>1. Max({end, 1}) = 1
        BY <1>1, <3>1, MaxIs
      <4> QED
        BY <1>1, <4>1
    <3>2. CASE ~(end <= 1)
      <4>1. Max({end, 1}) = end
        BY <1>1, <3>2, MaxIs
      <4> QED
        BY <1>1, <2>1, <4>1
    <3> QED
      BY <3>1, <3>2
  <2>4. Max({end, 1}) \in Int
    <3>1. CASE end <= 1
      BY <1>1, <3>1, MaxIs
    <3>2. CASE ~(end <= 1)
      BY <1>1, <3>2, MaxIs
    <3> QED
      BY <3>1, <3>2
  <2>5. low < start + Stride
    BY <1>1, <1>2, <2>2, <2>3, <2>4
  <2> QED
    BY <1>1, <1>3, <1>5, <2>1, <2>2, <2>5
<1>10. CASE GiveUp
  <2>1. pc' = "failed" /\ result' = result /\ UNCHANGED <<start, end>>
    BY <1>10 DEF GiveUp, Fail
  <2> QED
    BY <1>1, <1>4, <2>1
    DEF SearchInv, AncestorIsFound, TypeOK, FoundIsAncestor, FoundIsNear, RefusedWhenOld, Bracketed
<1>11. CASE UNCHANGED vars
  BY <1>4, <1>11
  DEF vars, SearchInv, AncestorIsFound, TypeOK, FoundIsAncestor, FoundIsNear, RefusedWhenOld, Bracketed, Floor
<1> QED
  BY <1>6, <1>7, <1>8, <1>9, <1>10, <1>11 DEF Next

-----------------------------------------------------------------------------
(* For all chains, whatever the search returns is known here, on the       *)
(* remote chain, not above the local head and newer than the oldest block  *)
(* that may be reverted, and it is the last such block up to a sampling    *)
(* step; an honest peer is refused only when the last common block is too  *)
(* old.                                                                    *)
THEOREM AncestorAlwaysFound ==
  Spec => []AncestorIsFound
<1>1. Init => SearchInv
  BY InitSearchInv
<1>2. SearchInv /\ [Next]_vars => SearchInv'
  BY NextSearchInv
<1>3. SearchInv => AncestorIsFound
  BY DEF SearchInv
<1> QED
  BY <1>1, <1>2, <1>3, PTL DEF Spec
=============================================================================
