---------------------------- MODULE FindAncestor ---------------------------
(***************************************************************************)
(* How a sync finds the block it starts from (findAncestor in              *)
(* eth/downloader/downloader.go): headers of the remote chain are sampled  *)
(* below the lower of the two heads, and if none is known the interval     *)
(* from the oldest block that may be reverted is searched by halves.       *)
(* The blocks of the remote chain known here are those up to some number,  *)
(* which may lie on a side chain here, and may exceed the local head.      *)
(***************************************************************************)
EXTENDS Integers, FiniteSets, FiniteSetsExt

CONSTANTS
  MaxBlock,         \* bounds both chains
  MaxHeaderFetch,   \* how far below the head the samples start
  Stride,           \* the distance of the samples
  MaxForkAncestry   \* how many blocks may be reverted

(* The samples reach from their start to the lower head (192 and 16 in     *)
(* the code, with 90000 blocks that may be reverted).                      *)
ASSUME SampleAssumption ==
  /\ MaxBlock \in Nat /\ MaxForkAncestry \in Nat
  /\ MaxHeaderFetch \in Nat /\ Stride \in 1 .. MaxHeaderFetch

VARIABLES
  ceil, height,     \* the local head and the remote one
  known,            \* the last block of the remote chain that is known here
  pc, start, end,   \* the search
  result            \* the block found

vars == <<ceil, height, known, pc, start, end, result>>

Init ==
  /\ ceil \in 0 .. MaxBlock /\ height \in 0 .. MaxBlock
  /\ known \in 0 .. height
  /\ pc = "sample" /\ start = 0 /\ end = 0 /\ result = -1

Floor == IF ceil >= MaxForkAncestry THEN ceil - MaxForkAncestry ELSE -1
HeadNumber == IF ceil > height THEN height ELSE ceil
From == IF HeadNumber < MaxHeaderFetch THEN 0 ELSE HeadNumber - MaxHeaderFetch
Limit == (2 * MaxHeaderFetch) \div Stride
Count == LET n == 1 + (ceil - From) \div Stride IN IF n > Limit THEN Limit ELSE n

(* The headers the remote peer sends for the sampled numbers.              *)
Sampled == {i \in 0 .. Count - 1 : From + i * Stride <= height}

(* The samples that count: not beyond the local head, and known.           *)
Match == {i \in Sampled : From + i * Stride <= ceil /\ From + i * Stride <= known}

Finish(n) == result' = n /\ pc' = "done"
Fail(why) == pc' = why /\ UNCHANGED result

Accept(n) == IF n <= Floor THEN Fail("tooOld") ELSE Finish(n)

(* The samples are looked at from the last to the first.                   *)
Best == Max(Match)

(* The search starts from the oldest block that may be reverted.           *)
Oldest == IF Floor > 0 THEN Floor ELSE 0

(* The answer to the sampled headers.                                      *)
Sample ==
  /\ pc = "sample"
  /\ IF Match = {}
     THEN /\ start' = Oldest
          /\ end' = HeadNumber
          /\ pc' = "search"
          /\ UNCHANGED result
     ELSE /\ UNCHANGED <<start, end>>
          /\ IF From + Best * Stride > height /\ Best = Limit - 1
             THEN Fail("stalling")
             ELSE Accept(From + Best * Stride)
  /\ UNCHANGED <<ceil, height, known>>

(* Mutant of Halve: the unknown header is kept as the start.               *)
HalveUp ==
  LET check == (start + end) \div 2
  IN /\ start' = check
     /\ UNCHANGED end

(* The header half way decides on which side the ancestor is.              *)
Halve ==
  LET check == (start + end) \div 2
  IN IF check <= known THEN start' = check /\ UNCHANGED end
                       ELSE end' = check /\ UNCHANGED start

(* There are blocks between the bounds.                                    *)
Open == start + 1 < end

Search ==
  /\ pc = "search" /\ Open
  /\ Halve
  /\ UNCHANGED <<ceil, height, known, pc, result>>

SearchEnds ==
  /\ pc = "search" /\ ~Open
  /\ Accept(start)
  /\ UNCHANGED <<ceil, height, known, start, end>>

(* The peer does not answer in time, or the sync is cancelled.             *)
GiveUp ==
  /\ pc \in {"sample", "search"}
  /\ Fail("failed")
  /\ UNCHANGED <<ceil, height, known, start, end>>

Next == Sample \/ Search \/ SearchEnds \/ GiveUp

Spec == Init /\ [][Next]_vars

-----------------------------------------------------------------------------
TypeOK ==
  /\ ceil \in 0 .. MaxBlock /\ height \in 0 .. MaxBlock /\ known \in 0 .. height
  /\ start \in 0 .. MaxBlock /\ end \in 0 .. MaxBlock /\ result \in -1 .. MaxBlock
  /\ pc \in {"sample", "search", "done", "stalling", "tooOld", "failed"}

(* The block found is known, lies on the remote chain and not above the    *)
(* local head, and may be reverted to.                                     *)
FoundIsAncestor ==
  pc = "done" => result <= known /\ result <= ceil /\ result > Floor

(* It is also near: no more than a sampling step is synced twice, however  *)
(* the chains lie.                                                         *)
FoundIsNear == pc = "done" => Min({known, ceil}) - result < Stride

(* An honest peer is refused only when the last common block is too old,   *)
(* up to a sampling step.                                                  *)
RefusedWhenOld ==
  /\ pc = "tooOld" => Min({known, ceil}) < Floor + Stride
  /\ pc # "stalling"

(* While searching, the ancestor stays between the bounds, unless it is    *)
(* older than the oldest block that may be reverted.                       *)
Bracketed == pc = "search" => known < Max({end, 1}) /\ (start <= known \/ start = Floor)

(* The block found is on both chains, may be reverted to, and is the last  *)
(* common block up to a sampling step; an honest peer is refused only when *)
(* the last common block is too old; and the search keeps the ancestor     *)
(* between its bounds (findAncestor).                                      *)
AncestorIsFound == TypeOK /\ FoundIsAncestor /\ FoundIsNear /\ RefusedWhenOld /\ Bracketed

(* What its progress is about.                                             *)
Ended == pc \notin {"sample", "search"}
=============================================================================
