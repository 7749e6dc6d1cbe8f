---------------------------- MODULE HeaderChain ----------------------------
(***************************************************************************)
(* The header chain (core/headerchain.go) during fast syncs: headers are   *)
(* validated and written chunk by chunk (processHeaders), bodies follow on *)
(* another goroutine (InsertReceiptChain), a sync that fails rolls the     *)
(* last headers back, the operator rewinds, the process crashes and        *)
(* restarts.  A block is the sequence of choices that leads to it from     *)
(* genesis, its total difficulty is its length.                            *)
(***************************************************************************)
EXTENDS Integers, Sequences, FiniteSets, SequencesExt

CONSTANTS
  Blocks,         \* the block tree, closed under Front
  Tips,           \* the heads of the remote peers
  MaxChunk,       \* maxHeadersProcess
  SafetyNet,      \* fsHeaderSafetyNet
  MinFullBlocks,  \* fsMinFullBlocks
  Rewinds,        \* the numbers debug_setHead is called with
  MaxSyncs,       \* bound: the syncs started
  Torn            \* may a crash fall inside one WriteHeader?

Genesis == <<>>
None == <<"none">>
Numbers == {Len(b) : b \in Blocks}
Up(b, n) == SubSeq(b, 1, n)
Ancestors(b) == {Up(b, n) : n \in 0 .. Len(b)}
Segment(b, m, n) == [i \in 1 .. n - m |-> Up(b, m + i)]
Highest(S) == CHOOSE n \in S : \A m \in S : m <= n

VARIABLES
  headers,    \* headers on disk, with their total difficulty
  bodies,     \* blocks whose body and receipts are on disk
  states,     \* blocks whose state is on disk
  canonical,  \* the number -> hash index on disk
  stored,     \* the LastBlock, LastHeader and LastFast hashes on disk
  current,    \* currentBlock, currentHeader and currentFastBlock in memory
  tip,        \* the chain being synchronised to, None without a sync
  next,       \* the number up to which its headers were processed
  goal,       \* the number up to which they were validated
  at,         \* the number up to which they were written
  unknown,    \* those of the chunk that were not known before
  rollback,   \* the uncertain headers of processHeaders, None once it ended
  bodied,     \* the number up to which its bodies were inserted
  syncs,      \* the syncs started
  doomed,     \* the headers given to the last Rollback
  status      \* "up", "crash" or "panic"

disk == <<headers, bodies, states, canonical, stored>>
session == <<tip, next, goal, at, unknown, rollback, bodied, syncs>>
vars == <<disk, current, session, doomed, status>>

Init ==
  /\ headers = {Genesis} /\ bodies = {Genesis} /\ states = {Genesis}
  /\ canonical = [n \in Numbers |-> IF n = 0 THEN Genesis ELSE None]
  /\ stored = [block |-> Genesis, header |-> Genesis, fast |-> Genesis]
  /\ current = stored
  /\ tip = None /\ next = 0 /\ goal = 0 /\ at = 0 /\ unknown = <<>> /\ rollback = None /\ bodied = 0
  /\ syncs = 0 /\ doomed = {} /\ status = "up"

-----------------------------------------------------------------------------
(* findAncestor and the origin of a fast sync: the highest header of the   *)
(* remote chain that is known, no higher than the head fast block, and     *)
(* below the pivot.                                                        *)
Origin(t) ==
  LET common == Highest({n \in 0 .. Len(t) : n <= Len(current.fast) /\ Up(t, n) \in headers})
      pivot == Len(t) - MinFullBlocks
  IN IF pivot <= 0 THEN 0 ELSE IF pivot <= common THEN pivot - 1 ELSE common

(* A sync is worth starting with a peer whose chain is higher than the     *)
(* head fast block.                                                        *)
StartSync ==
  /\ status = "up" /\ tip = None /\ syncs < MaxSyncs
  /\ \E t \in Tips :
       /\ Len(t) > Len(current.fast)
       /\ tip' = t /\ next' = Origin(t) /\ bodied' = Origin(t)
  /\ goal' = next' /\ at' = next' /\ unknown' = <<>> /\ rollback' = <<>>
  /\ syncs' = syncs + 1 /\ doomed' = {}
  /\ UNCHANGED <<disk, current, status>>

(* Mutant of RolledBack: the oldest header is considered first.            *)
RolledBackForwards(list) ==
  LET Back(h) == FoldLeft(LAMBDA b, d : IF b = d THEN Front(b) ELSE b, h, list)
  IN [block |-> Back(current.block), header |-> Back(current.header),
      fast |-> Back(current.fast)]

(* Rollback: each head that is one of the headers steps to its parent,     *)
(* the newest header first.                                                *)
RolledBack(list) ==
  LET Back(h) == FoldRight(LAMBDA d, b : IF b = d THEN Front(b) ELSE b, list, h)
  IN [block |-> Back(current.block), header |-> Back(current.header),
      fast |-> Back(current.fast)]

(* A head's hash is written when it moved.                                 *)
Persisted(heads) ==
  [k \in DOMAIN stored |-> IF heads[k] # current[k] THEN heads[k] ELSE stored[k]]

(* The blocks the head fast block and the head block step to must be there *)
Steppable(list) ==
  \A k \in {"fast", "block"} :
    \A n \in Len(RolledBack(list)[k]) .. Len(current[k]) : Up(current[k], n) \in bodies

(* The deferred roll-back with which processHeaders ends.                  *)
Rollback(list) ==
  /\ doomed' = ToSet(list)
  /\ IF Steppable(list)
     THEN /\ current' = RolledBack(list)
          /\ stored' = Persisted(RolledBack(list))
          /\ rollback' = None /\ UNCHANGED <<tip, status>>
     ELSE status' = "panic" /\ rollback' = None /\ tip' = None /\ UNCHANGED <<current, stored>>
  /\ unknown' = <<>> /\ goal' = 0 /\ at' = 0
  /\ UNCHANGED <<headers, bodies, states, canonical, next, bodied, syncs>>

Processing == status = "up" /\ tip # None /\ rollback # None
BetweenChunks == Processing /\ at = next /\ goal = next
WritingChunk == Processing /\ at < goal

(* The next chunk passes the validation.                                   *)
ValidateHeaderChain ==
  /\ BetweenChunks
  /\ \E n \in 1 .. MaxChunk :
       /\ next + n <= Len(tip)
       /\ goal' = next + n
       /\ unknown' = SelectSeq(Segment(tip, next, next + n), LAMBDA b : b \notin headers)
  /\ UNCHANGED <<disk, current, tip, next, at, rollback, bodied, syncs, doomed,
                 status>>

(* A chunk fails it at its n-th header; nothing of it is written, but the  *)
(* headers before that one are rolled back.                                *)
InvalidChunk ==
  /\ BetweenChunks
  /\ \E n \in 0 .. MaxChunk - 1 :
       /\ next + n < Len(tip)
       /\ Rollback(rollback \o Segment(tip, next, next + n))

-----------------------------------------------------------------------------
(* WriteHeader of b: the highest number below it where the index already   *)
(* has its ancestor ends the rewriting of the index.                       *)
Joint(b) == Highest({n \in 0 .. Len(b) - 1 : canonical[n] = Up(b, n)})

(* The entries above n go, up to the first number without one.             *)
Cleared(n) ==
  [i \in Numbers |->
     IF i > n /\ \A j \in n + 1 .. i : canonical[j] # None THEN None ELSE canonical[i]]

(* The entries from m up to b's parent, the ones rewritten so far.         *)
Linked(index, b, m) ==
  [i \in Numbers |-> IF m <= i /\ i < Len(b) THEN Up(b, i) ELSE index[i]]

(* Every header between the joint and b is read back.                      *)
Walkable(b) == \A n \in Joint(b) + 1 .. Len(b) - 1 : Up(b, n) \in headers

Writable(b) == b \notin headers /\ Front(b) \in headers
Wins(b) == Len(b) > Len(current.header)
Ties(b) == Len(b) = Len(current.header)

Written(b) ==
  /\ headers' = headers \cup {b}
  /\ at' = at + 1

(* A header that wins becomes the head of the header chain, one that ties  *)
(* does so by chance.                                                      *)
WriteCanonical ==
  /\ WritingChunk
  /\ LET b == Up(tip, at + 1)
     IN /\ Writable(b)
        /\ IF Wins(b) THEN TRUE ELSE Ties(b)
        /\ Walkable(b)
        /\ canonical' = [Linked(Cleared(Len(b)), b, Joint(b) + 1) EXCEPT ![Len(b)] = b]
        /\ current' = [current EXCEPT !.header = b]
        /\ stored' = [stored EXCEPT !.header = b]
        /\ Written(b)
  /\ UNCHANGED <<bodies, states, tip, next, goal, unknown, rollback, bodied, syncs,
                 doomed, status>>

WriteSide ==
  /\ WritingChunk
  /\ LET b == Up(tip, at + 1)
     IN Writable(b) /\ ~Wins(b) /\ Written(b)
  /\ UNCHANGED <<bodies, states, canonical, stored, current, tip, next, goal, unknown, rollback,
                 bodied, syncs, doomed, status>>

(* A header that is known is skipped.                                      *)
SkipKnown ==
  /\ WritingChunk /\ Up(tip, at + 1) \in headers
  /\ at' = at + 1
  /\ UNCHANGED <<disk, current, tip, next, goal, unknown, rollback, bodied, syncs,
                 doomed, status>>

(* The process ends: the session is forgotten.                             *)
Die(how) ==
  /\ status' = how
  /\ tip' = None /\ next' = 0 /\ goal' = 0 /\ at' = 0 /\ unknown' = <<>> /\ rollback' = None
  /\ bodied' = 0 /\ doomed' = {}
  /\ UNCHANGED <<syncs, current>>

(* The last SafetyNet headers stay uncertain.                              *)
Uncertain(list) ==
  SubSeq(list, IF Len(list) > SafetyNet THEN Len(list) - SafetyNet + 1 ELSE 1, Len(list))

(* The chunk is in: what was unknown is uncertain now, and the bodies are  *)
(* scheduled.                                                              *)
ChunkDone ==
  /\ Processing /\ at = goal /\ next < goal
  /\ next' = goal
  /\ rollback' = Uncertain(rollback \o unknown)
  /\ unknown' = <<>>
  /\ UNCHANGED <<disk, current, tip, goal, at, bodied, syncs, doomed, status>>

(* All headers are in: the sync fails unless the header chain has reached  *)
(* the difficulty the peer promised.                                       *)
HeadersDone ==
  /\ BetweenChunks /\ next = Len(tip)
  /\ IF Len(tip) > Len(current.header)
     THEN Rollback(rollback)
     ELSE /\ rollback' = None
          /\ UNCHANGED <<disk, current, tip, next, goal, at, unknown, bodied, syncs,
                         doomed, status>>

(* The sync is cancelled between two chunks.                               *)
CancelHeaders ==
  /\ BetweenChunks
  /\ Rollback(rollback)

-----------------------------------------------------------------------------
Pivot == Len(tip) - MinFullBlocks
Syncing == status = "up" /\ tip # None

(* InsertReceiptChain of the next blocks whose headers were scheduled; the *)
(* last one becomes the head fast block when it is higher.                 *)
InsertReceiptChain ==
  /\ Syncing
  /\ \E n \in bodied + 1 .. next :
       /\ n <= Pivot
       /\ bodies' = bodies \cup ToSet(Segment(tip, bodied, n))
       /\ bodied' = n
       /\ LET better == n > Len(current.fast)
          IN /\ current' = IF better THEN [current EXCEPT !.fast = Up(tip, n)] ELSE current
             /\ stored' = IF better THEN [stored EXCEPT !.fast = Up(tip, n)] ELSE stored
  /\ UNCHANGED <<headers, states, canonical, tip, next, goal, at, unknown, rollback, syncs, doomed, status>>

(* The pivot's state is in and the pivot becomes the head block, in memory *)
(* only.                                                                   *)
FastSyncCommitHead ==
  /\ Syncing /\ bodied = Pivot /\ current.block # Up(tip, Pivot)
  /\ states' = states \cup {Up(tip, Pivot)}
  /\ current' = [current EXCEPT !.block = Up(tip, Pivot)]
  /\ UNCHANGED <<headers, bodies, canonical, stored, session, doomed, status>>

(* The content goroutine ends as well.                                     *)
EndSync ==
  /\ Syncing /\ rollback = None
  /\ tip' = None /\ next' = 0 /\ goal' = 0 /\ at' = 0 /\ bodied' = 0
  /\ UNCHANGED <<disk, current, unknown, rollback, syncs, doomed, status>>

-----------------------------------------------------------------------------
Crash ==
  /\ status = "up" /\ syncs > 0
  /\ Die("crash")
  /\ UNCHANGED disk

(* WriteHeader puts the header on disk before it touches the index.        *)
TornHeaders(b) == headers \cup {b}

(* The process dies inside WriteHeader: the index is rewritten down to m,  *)
(* perhaps with the new entry, but the head header is the old one.         *)
CrashWriting ==
  /\ Torn /\ WritingChunk
  /\ LET b == Up(tip, at + 1)
     IN /\ Writable(b) /\ Wins(b) /\ Walkable(b)
        /\ \E m \in Joint(b) + 1 .. Len(b), own \in BOOLEAN :
             /\ own => m = Joint(b) + 1
             /\ canonical' = [Linked(Cleared(Len(b)), b, m) EXCEPT ![Len(b)] = IF own THEN b ELSE @]
        /\ headers' = TornHeaders(b)
  /\ Die("crash")
  /\ UNCHANGED <<bodies, states, stored>>

(* repair: the highest ancestor of the head whose state can be opened.     *)
Repaired(b) == Up(b, Highest({n \in 0 .. Len(b) : Up(b, n) \in states}))

(* loadLastState on what the disk will hold.                               *)
LoadLastState(heads, known, full) ==
  LET block == Repaired(heads.block)
  IN [block |-> block,
      header |-> IF heads.header \in known THEN heads.header ELSE block,
      fast |-> IF heads.fast \in full THEN heads.fast ELSE block]

Start ==
  /\ status # "up"
  /\ current' = LoadLastState(stored, headers, bodies)
  /\ stored' = [stored EXCEPT !.header = current'.header]
  /\ status' = "up"
  /\ UNCHANGED <<headers, bodies, states, canonical, session, doomed>>

(* Mutant of Above: the entry right above the new head is left.            *)
AboveNext(n, h) == n + 2 .. Len(h)

(* The numbers SetHead deletes the index entries of.                       *)
Above(n, h) == n + 1 .. Len(h)

(* SetHead: the header chain is cut to n, its headers, bodies and index    *)
(* entries above are deleted, and the other heads follow.                  *)
SetHead(n) ==
  /\ status = "up" /\ tip = None
  /\ LET h == current.header
         gone == {b \in Ancestors(h) : Len(b) > n}
         header == IF Len(h) > n THEN Up(h, n) ELSE h
         Below(b) == IF Len(header) >= Len(b) THEN b
                     ELSE IF header \in bodies THEN header ELSE Genesis
         block == IF Below(current.block) \in states THEN Below(current.block) ELSE Genesis
         heads == [block |-> block, header |-> header, fast |-> Below(current.fast)]
     IN /\ headers' = headers \ gone /\ bodies' = bodies \ gone
        /\ canonical' = [i \in Numbers |-> IF i \in Above(n, h) THEN None ELSE canonical[i]]
        /\ current' = LoadLastState(heads, headers', bodies')
        /\ stored' = heads
  /\ doomed' = {} /\ UNCHANGED <<states, session, status>>

Rewind == \E n \in Rewinds : SetHead(n)

Next ==
  \/ StartSync \/ ValidateHeaderChain \/ InvalidChunk \/ WriteCanonical \/ WriteSide \/ SkipKnown
  \/ ChunkDone \/ HeadersDone \/ CancelHeaders \/ InsertReceiptChain
  \/ FastSyncCommitHead \/ EndSync \/ Crash \/ CrashWriting \/ Start \/ Rewind

Spec == Init /\ [][Next]_vars

-----------------------------------------------------------------------------
(* Every variable has its type.                                            *)
TypeOK ==
  /\ headers \subseteq Blocks /\ bodies \subseteq headers /\ states \subseteq Blocks
  /\ canonical \in [Numbers -> Blocks \cup {None}]
  /\ {stored, current} \subseteq [block : Blocks, header : Blocks, fast : Blocks]
  /\ tip \in Tips \cup {None} /\ {next, goal, at, bodied} \subseteq Numbers
  /\ ToSet(unknown) \subseteq Blocks /\ doomed \subseteq Blocks
  /\ rollback = None \/ ToSet(rollback) \subseteq Blocks
  /\ syncs \in 0 .. MaxSyncs /\ status \in {"up", "crash", "panic"}

(* The number index up to the head of the header chain is that head's      *)
(* chain, whatever was reorganised, rolled back, rewound or restarted.     *)
IndexFollowsHeader ==
  status = "up" => \A n \in 0 .. Len(current.header) : canonical[n] = Up(current.header, n)

(* The index names only headers that are on disk, and has no hole below    *)
(* the head of the header chain, even when the process died while it was   *)
(* being rewritten.                                                        *)
IndexIsKnown ==
  /\ \A n \in Numbers : canonical[n] \in headers \cup {None}
  /\ status = "up" => \A n \in 0 .. Len(current.header) : canonical[n] # None

(* WriteHeader reads back the headers of a branch it switches to, down to  *)
(* the index, without a check: none is ever missing, though a rewind       *)
(* deletes headers that side branches stand on.                            *)
WalkNeverPanics ==
  WritingChunk =>
    LET b == Up(tip, at + 1)
    IN Writable(b) /\ Len(b) >= Len(current.header) => Walkable(b)

(* A roll-back leaves no head among the headers it was given, whichever    *)
(* of the heads had reached them.                                          *)
RollbackLeavesNoHead ==
  rollback # None /\ rollback' = None /\ status' = "up"
       => \A k \in DOMAIN current : current'[k] \notin doomed'

(* The header chain a sync failed on is not rolled back further than the   *)
(* safety net allows.                                                      *)
RollbackIsBounded ==
  Len(current'.header) < Len(current.header) - SafetyNet - MaxChunk + 1
       => status' # status \/ Rewind

=============================================================================
