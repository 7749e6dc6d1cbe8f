----------------------------- MODULE MintTicks -----------------------------
(***************************************************************************)
(* Whether the slots of the validators that are up are filled: mintLoop's  *)
(* ticker (miner/worker.go), whose period is a tenth of the block interval *)
(* and whose channel keeps one tick, against CheckValidator                *)
(* (consensus/dpos/dpos.go), which accepts the ticks of one second only,   *)
(* and against Seal, which signs at once in a slot's second and otherwise  *)
(* waits for the next slot, unless a new head or task stops it before.     *)
(*                                                                         *)
(* The clock counts tenths of seconds, so that the ticker's period, in     *)
(* tenths, is BlockInterval.  Validators that are up exchange blocks at    *)
(* once, and time goes on when nobody has anything to do but wait.         *)
(***************************************************************************)
EXTENDS Slots, FiniteSetsExt

CONSTANTS
  Validators,  \* the validator list, which every election confirms
  Up,          \* the validators that run
  Txs,         \* the transactions a block may have
  MaxWork,     \* the tenths of a second createNewWork may take
  MaxClock     \* bound on the clock

\* What EverySlotFilled needs: BlockInterval <= 10 and EpochInterval a multiple
\* of it.  Above an interval of 10 s ticks are more than a second apart, and a
\* ticker with an unlucky phase misses every slot.  If an epoch is not a whole
\* number of slots, lookupValidator and checkDeadline disagree on what a slot
\* is, and most are missed.

VARIABLES
  clock,   \* tenths of seconds
  tick,    \* tick[v]: when v's ticker fires next
  pending, \* pending[v]: the second of the tick in v's channel, or None
  work,    \* work[v]: the block v's createNewWork is at, or NoWork
  prev,    \* prev[v]: the block of v's last task
  seals,   \* seals[v]: v's goroutines that are to sign a block
  head,    \* head[v]: the blocks of v's chain
  late     \* has work on a block outlasted the second that is its time?

vars == <<clock, tick, pending, work, prev, seals, head, late>>

None == -1

Genesis == <<>>

NoWork == [block |-> Genesis, left |-> None]

Second == clock \div 10

Time(b) == IF b = Genesis THEN 0 ELSE b[Len(b)].time

\* The mint loops were started at any time of the tenth of an interval.
Init == /\ clock = 1
        /\ tick \in [Up -> 2 .. BlockInterval + 1]
        /\ pending = [v \in Up |-> None]
        /\ work = [v \in Up |-> NoWork] /\ prev = [v \in Up |-> Genesis]
        /\ seals = [v \in Up |-> {}]
        /\ head = [v \in Up |-> Genesis]
        /\ late = FALSE

\* mintLoop's ticker period.
Period == BlockInterval

Idle(v) == work[v] = NoWork

Waits(v) == /\ Idle(v) => pending[v] = None
            /\ work[v].left # 0
            /\ \A x \in seals[v] : x.due > clock

\* A tick that finds the channel full is dropped.
Advance ==
  /\ clock < MaxClock
  /\ \A v \in Up : Waits(v)
  /\ clock' = clock + 1
  /\ tick' = [v \in Up |-> IF tick[v] = clock + 1 THEN clock + 1 + Period ELSE tick[v]]
  /\ pending' = [v \in Up |-> IF tick[v] = clock + 1 /\ pending[v] = None
                              THEN (clock + 1) \div 10 ELSE pending[v]]
  /\ work' = [v \in Up |-> IF Idle(v) THEN NoWork ELSE [work[v] EXCEPT !.left = @ - 1]]
  /\ late' = (late \/ \E v \in Up : ~Idle(v) /\ (clock + 1) \div 10 # Time(work[v].block))
  /\ UNCHANGED <<prev, seals, head>>

\* Mutant of checkDeadline: the block of the slot before is waited for.
checkDeadlinePrev(last, now) == last < NextSlot(now) /\ last = PrevSlot(now)

checkDeadline(last, now) ==
  /\ last < NextSlot(now)
  /\ last = PrevSlot(now) \/ NextSlot(now) - now <= 1

CheckValidator(v, now) ==
  checkDeadline(Time(head[v]), now) /\ lookupValidator(Validators, now) = v

\* mintBlock, for a tick that may be late: createNewWork starts a block on the
\* head, with the time of the clock.
mintBlock(v) ==
  /\ Idle(v) /\ pending[v] # None
  /\ pending' = [pending EXCEPT ![v] = None]
  /\ IF CheckValidator(v, pending[v])
     THEN \E left \in 0 .. MaxWork, txs \in Txs :
            work' = [work EXCEPT ![v] =
              [block |-> Append(head[v], [time |-> Max({Second, Time(head[v]) + 1}),
                                          validator |-> v, txs |-> txs]),
               left |-> left]]
     ELSE UNCHANGED work
  /\ UNCHANGED <<clock, tick, prev, seals, head, late>>

\* What is left of some seals when quitCh is closed: those that began in a
\* slot's second, which wait for nothing.
Stopped(sealing) == {x \in sealing : ~x.waits}

\* Seal: the signature waits for the next slot, if that is not now.
Seal(b) == LET delay == NextSlot(Second) - Second
           IN  [block |-> b, due |-> clock + 10 * delay, waits |-> delay > 0]

\* The work is done, and taskLoop gets the block: it stops the seal that waits
\* and starts one for the block.  A block that it has had last is skipped.
commit(v) ==
  /\ work[v].left = 0
  /\ work' = [work EXCEPT ![v] = NoWork]
  /\ prev' = [prev EXCEPT ![v] = work[v].block]
  /\ seals' = IF work[v].block = prev[v] THEN seals
              ELSE [seals EXCEPT ![v] = Stopped(@) \cup {Seal(work[v].block)}]
  /\ UNCHANGED <<clock, tick, pending, head, late>>

\* What the others accept: every block has a time that is its validator's, an
\* interval or more after its parent's.
Valid(b) ==
  \A i \in 1 .. Len(b) :
    /\ lookupValidator(Validators, b[i].time) = b[i].validator
    /\ Time(SubSeq(b, 1, i - 1)) + BlockInterval <= b[i].time

\* The fork choice of one who has the block: the longer chain, and either of two
\* that are as long.
Heads(v, b) ==
  {h \in {b, head[v]} : Len(h) >= Len(b) /\ Len(h) >= Len(head[v])}

\* The block is signed and written by its validator, and by the others if it is
\* valid; a new head stops the seals that wait.  (resultLoop skips a block that
\* is in the database; here one may win the toss of two as long again.)
Sign(v) ==
  \E x \in seals[v] :
    /\ x.due <= clock
    /\ head' \in [Up -> {x.block} \cup {head[u] : u \in Up}]
    /\ \A u \in Up : head'[u] \in
         IF u = v \/ Valid(x.block) THEN Heads(u, x.block) ELSE {head[u]}
    /\ seals' = [u \in Up |-> IF head'[u] = head[u] THEN seals[u] \ {x}
                             ELSE Stopped(seals[u] \ {x})]
    /\ UNCHANGED <<clock, tick, pending, work, prev, late>>

Next == Advance \/ \E v \in Up : mintBlock(v) \/ commit(v) \/ Sign(v)

Spec == Init /\ [][Next]_vars

-----------------------------------------------------------------------------
(* Properties.                                                             *)

Chain(b) == \A i \in 1 .. Len(b) : b[i] \in [time : 1 .. Second, validator : Up, txs : Txs]

TypeOK == /\ clock \in 1 .. MaxClock
          /\ tick \in [Up -> clock + 1 .. clock + Period]
          /\ pending \in [Up -> {None} \cup 0 .. Second]
          /\ \A v \in Up :
               /\ Chain(work[v].block) /\ work[v].left \in {None} \cup 0 .. MaxWork
               /\ \A x \in seals[v] : /\ Chain(x.block) /\ x.waits \in BOOLEAN
                                      /\ x.due \in 1 .. MaxClock + 10 * BlockInterval
               /\ Chain(prev[v]) /\ Chain(head[v])
          /\ late \in BOOLEAN

\* Every slot that has passed and was the turn of a validator that is up has its
\* block on the chain of everybody, whichever validators are down, whatever the
\* tickers' phases and whatever else is made in a slot's second: as long as no
\* work outlasts its second, and always if a ticker's period and the longest
\* work fit into one.
EverySlotFilled ==
  ~late \/ MaxWork + Period <= 10 =>
    \A s \in 1 .. Second - 1, v \in Up :
      lookupValidator(Validators, s) \in Up => \E i \in 1 .. Len(head[v]) : head[v][i].time = s

=============================================================================
