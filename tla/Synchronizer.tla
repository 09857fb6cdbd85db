---------------------------- MODULE Synchronizer ----------------------------
(***************************************************************************)
(* The block synchronizer of one network (ClientSynchronizer, file        *)
(* synchronizer/synchronizer.go) running against a chain that grows and    *)
(* reorganises, together with the rows it writes: sync.block, sync.deposit *)
(* and the network's exit Merkle tree (bridgectrl).                        *)
(*                                                                         *)
(* A block is a record [num, hash, parent, dep, cnt]: dep says whether the *)
(* block holds a bridge event (a deposit), cnt is the deposit_count the    *)
(* bridge contract gives that deposit (the number of deposits below it on  *)
(* the branch).  A hash is the pair <<number, branch>>, so the blocks of   *)
(* two branches never share a hash.  Only blocks with an event come back   *)
(* from GetRollupInfoByBlockRange and are stored, as in the code.          *)
(*                                                                         *)
(* The synchronizer's loop (Sync / syncBlocks) is cut at every RPC and at  *)
(* every database transaction: between two of them the chain may move,    *)
(* the process may crash, and a call may fail.                             *)
(***************************************************************************)
EXTENDS Naturals, Sequences, FiniteSets, SequencesExt

CONSTANTS
    MaxHeight,      \* the chain never grows past this block number
    MaxReorgs,      \* number of reorganisations the chain may undergo
    ReorgDepth,     \* a reorganisation replaces at most this many blocks
    SyncChunkSize,  \* cfg.SyncChunkSize: a range is [from, from + SyncChunkSize]
    MaxFailures,    \* RPC or DB calls that may fail in one behaviour
    MaxRestarts,    \* process crashes (and restarts) in one behaviour
    Networks,       \* the network ids a synchronizer may serve: 0 is L1
    NoHash          \* the zero hash of a Go zero-value etherman.Block

ASSUME /\ MaxHeight \in Nat /\ MaxReorgs \in Nat /\ ReorgDepth \in Nat \ {0}
       /\ SyncChunkSize \in Nat /\ MaxFailures \in Nat /\ MaxRestarts \in Nat
       /\ Networks \subseteq Nat

VARIABLES
    networkID,  \* s.networkID, the network whose chain is synced
    chain,      \* the canonical chain: chain[n+1] is block n
    branch,     \* number of the newest branch (reorganisations so far)
    mined,      \* every block that was ever canonical (history, for ancestry)
    dbBlocks,   \* sync.block rows: headers [num, hash, parent]
    dbDeposits, \* sync.deposit rows: [cnt, blk], blk the hash of the block
    tree,       \* leaves of the exit Merkle tree, by deposit_count
    last,       \* lastBlockSynced, the header the loop resumes from
    synced,     \* s.synced
    lastKnown,  \* lastKnownBlock, the tip read by HeaderByNumber(nil)
    from,       \* fromBlock
    to,         \* toBlock
    batch,      \* the blocks returned by the last range fetch
    pos,        \* index in batch of the next block processBlockRange stores
    pc,         \* where the Sync loop stands
    failures,   \* failed calls so far
    restarts    \* crashes so far

chainVars == <<networkID, chain, branch, mined>>
dbVars == <<dbBlocks, dbDeposits, tree>>
syncVars == <<last, synced, lastKnown, from, to, batch, pos, pc>>
vars == <<chainVars, dbVars, syncVars, failures, restarts>>

GenBlockNumber == 0
Hash == (0..MaxHeight) \X (0..MaxReorgs)

-----------------------------------------------------------------------------
(* The chain *)

Tip == Len(chain) - 1
Blk(n) == chain[n + 1]
Hdr(b) == [num |-> b.num, hash |-> b.hash, parent |-> b.parent]

\* HeaderByNumber(n), for n at or below the head.
Header(n) == Hdr(Blk(n))

\* What checkReorg returns when HeaderByNumber fails for a block number
\* above the chain's head (the node answers "not found").
NoHeader == [num |-> MaxHeight + 1, hash |-> NoHash, parent |-> NoHash]

\* The zero-value block the code uses for "genesis, nothing stored" and
\* for the empty block prepended to a range that starts at genesis.
GenesisBlock ==
    [num |-> GenBlockNumber, hash |-> NoHash, parent |-> NoHash, dep |-> FALSE, cnt |-> 0]

\* The block mined on top of c on branch f.
NewBlock(c, f, dep) ==
    [num |-> Len(c), hash |-> <<Len(c), f>>, parent |-> Last(c).hash, dep |-> dep,
     cnt |-> Cardinality({i \in 1..Len(c) : c[i].dep})]

RECURSIVE Extend(_, _, _)
Extend(c, f, deps) ==
    IF deps = <<>> THEN c ELSE Extend(Append(c, NewBlock(c, f, Head(deps))), f, Tail(deps))

\* GetRollupInfoByBlockRange(from, to): the blocks with a bridge event, in
\* order.  FilterLogs returns the logs of the blocks the node has, so a
\* range past a head that went back is cut at the head.
RollupInfo(lo, hi) ==
    SelectSeq(SubSeq(chain, lo + 1, (IF hi < Tip THEN hi ELSE Tip) + 1), LAMBDA b : b.dep)

\* syncBlocks: a range starting at genesis gets an empty block in front
\* unless its first block is the genesis block.
FetchedBlocks(lo, hi) ==
    LET got == RollupInfo(lo, hi) IN
    IF lo = GenBlockNumber /\ (got = <<>> \/ got[1].num # GenBlockNumber)
    THEN <<GenesisBlock>> \o got
    ELSE got

-----------------------------------------------------------------------------
(* Storage *)

\* sync.block ORDER BY block_num DESC
StoredDesc == SetToSortSeq(dbBlocks, LAMBDA x, y : x.num > y.num)

\* GetLastBlock, or the genesis block when no block is stored (Sync).
LastBlockOrGenesis ==
    IF dbBlocks = {} THEN Hdr(GenesisBlock) ELSE StoredDesc[1]

\* GetNumberDeposits without the + 1: the largest deposit_count, not the count.
NumberDepositsNoIncrement(deps, n) ==
    LET cnts == {d.cnt : d \in deps} IN
    IF cnts = {} THEN 0 ELSE CHOOSE c \in cnts : \A e \in cnts : c >= e

\* GetNumberDeposits(blockNumber): coalesce(MAX(deposit_cnt), -1) + 1 over
\* the deposits of the blocks at or below blockNumber.
NumberDeposits(deps, n) ==
    LET cnts == {d.cnt : d \in deps} IN
    IF cnts = {} THEN 0 ELSE (CHOOSE c \in cnts : \A e \in cnts : c >= e) + 1

\* AddBlock: INSERT ... ON CONFLICT (block_hash) DO NOTHING, then the id
\* of the row already there.  A block stored before keeps its row.
AddBlock(b) ==
    IF b.hash \in {x.hash : x \in dbBlocks} THEN dbBlocks ELSE dbBlocks \cup {Hdr(b)}

\* AddDeposit: INSERT INTO sync.deposit with the block's id.
AddDeposit(b) == dbDeposits \cup {[cnt |-> b.cnt, blk |-> b.hash]}

\* Reset(blockNumber): DELETE FROM sync.block WHERE block_num > $1.
Reset(n) == {b \in dbBlocks : b.num <= n}

\* resetState with Reset deleting block_num >= blockNumber.
ResetStateInclusive(n) ==
    LET kept == {b \in dbBlocks : b.num < n}
        keptDeposits == {d \in dbDeposits : d.blk \in {b.hash : b \in kept}}
        depositCnt == NumberDeposits(keptDeposits, n)
    IN /\ dbBlocks' = kept
       /\ dbDeposits' = keptDeposits
       /\ tree' = SubSeq(tree, 1, IF depositCnt < Len(tree) THEN depositCnt ELSE Len(tree))

\* resetState with the deposits table lacking ON DELETE CASCADE: the deposits
\* of deleted blocks stay and are counted.
ResetStateNoCascade(n) ==
    LET kept == {b \in dbBlocks : b.num <= n}
        depositCnt == NumberDeposits(dbDeposits, n)
    IN /\ dbBlocks' = kept
       /\ UNCHANGED dbDeposits
       /\ tree' = SubSeq(tree, 1, IF depositCnt < Len(tree) THEN depositCnt ELSE Len(tree))

\* resetState(blockNumber): one transaction running Reset (delete the
\* blocks above blockNumber, their deposits by cascade), GetNumberDeposits
\* and ReorgMT (drop the tree's leaves from depositCnt on).
ResetState(n) ==
    LET kept == Reset(n)
        keptDeposits == {d \in dbDeposits : d.blk \in {b.hash : b \in kept}}
        depositCnt == NumberDeposits(keptDeposits, n)
    IN /\ dbBlocks' = kept
       /\ dbDeposits' = keptDeposits
       /\ tree' = SubSeq(tree, 1, IF depositCnt < Len(tree) THEN depositCnt ELSE Len(tree))

-----------------------------------------------------------------------------
(* checkReorg *)

RECURSIVE Fetch(_, _), Walk(_, _, _)

\* checkReorg asking GetPreviousBlock for depth + 1 instead of depth.
WalkSkipping(reorged, blk, depth) ==
    IF (blk.hash # reorged.hash \/ blk.parent # reorged.parent)
       /\ reorged.num > GenBlockNumber
    THEN IF depth + 2 >= Len(StoredDesc)
         THEN Hdr(GenesisBlock)
         ELSE Fetch(StoredDesc[depth + 3], depth + 1)
    ELSE reorged

\* An iteration of checkReorg with block = nil: HeaderByNumber of the
\* stored block's number, NoHeader (the error returned) above the head.
Fetch(reorged, depth) ==
    IF reorged.num > Tip THEN NoHeader ELSE Walk(reorged, Header(reorged.num), depth)

\* The loop of checkReorg: compare blk with the stored header reorged;
\* on a mismatch above genesis take GetPreviousBlock(depth) and compare it
\* with the chain's header at its number.  No previous block: genesis.
Walk(reorged, blk, depth) ==
    IF (blk.hash # reorged.hash \/ blk.parent # reorged.parent)
       /\ reorged.num > GenBlockNumber
    THEN IF depth + 1 >= Len(StoredDesc)
         THEN Hdr(GenesisBlock)
         ELSE Fetch(StoredDesc[depth + 2], depth + 1)
    ELSE reorged

\* checkReorg(latest, nil): the block to reset to; latest itself means nil.
CheckReorg(latest) == Fetch(latest, 0)

\* syncBlocks without the second checkReorg after the range fetch.
CheckReorgWithSkipped(latest, init) == latest

\* checkReorg(latest, initBlockReceived)
CheckReorgWith(latest, init) == Walk(latest, Hdr(init), 0)

-----------------------------------------------------------------------------
(* The synchronizer *)

Init ==
    /\ networkID \in Networks
    /\ chain = <<[num |-> 0, hash |-> <<0, 0>>, parent |-> NoHash, dep |-> FALSE, cnt |-> 0]>>
    /\ branch = 0
    /\ mined = {chain[1]}
    /\ dbBlocks = {} /\ dbDeposits = {} /\ tree = <<>>
    /\ last = Hdr(GenesisBlock)
    /\ synced = FALSE
    /\ lastKnown = 0 /\ from = 0 /\ to = 0
    /\ batch = <<>> /\ pos = 1
    /\ pc = "loop"
    /\ failures = 0 /\ restarts = 0

\* syncBlocks: HeaderByNumber(nil)
FetchTip ==
    /\ pc = "loop"
    /\ lastKnown' = Tip
    /\ pc' = "reorg"
    /\ UNCHANGED <<chainVars, dbVars, last, synced, from, to, batch, pos, failures, restarts>>

\* syncBlocks: checkReorg(lastBlockSynced, nil) finds a reorg; resetState
\* and return the block reset to.
DetectReorg ==
    /\ pc = "reorg"
    /\ LET r == CheckReorg(last) IN
         /\ r # NoHeader
         /\ r.hash # last.hash
         /\ ResetState(r.num)
         /\ last' = r
    /\ pc' = "post"
    /\ UNCHANGED <<chainVars, synced, lastKnown, from, to, batch, pos, failures, restarts>>

\* syncBlocks: no reorg; the first range starts after the last block, or
\* at it when synced.
NoReorg ==
    /\ pc = "reorg"
    /\ CheckReorg(last).hash = last.hash
    /\ from' = IF synced THEN last.num ELSE last.num + 1
    /\ to' = from' + SyncChunkSize
    /\ pc' = "range"
    /\ UNCHANGED <<chainVars, dbVars, last, synced, lastKnown, batch, pos, failures, restarts>>

\* The top of the range loop: clip toBlock to the tip; the first time it
\* is clipped the synchronizer turns synced and re-reads its last block.
ClippedTo == IF to > lastKnown THEN lastKnown ELSE to
ClippedFrom == IF to > lastKnown /\ ~synced THEN last.num ELSE from
ClippedSynced == synced \/ to > lastKnown

\* fromBlock > toBlock (return lastBlockSynced) needs checkReorg to find
\* the last block on the chain although the head read just before was
\* below it: the chain would have to go back to an abandoned branch, and
\* the branches of this model never come back.  Every range below is
\* non-empty.

\* Range fetched while catching up: every returned block is stored,
\* with no second reorg check.
FetchCatchingUp ==
    /\ pc = "range"
    /\ ClippedFrom <= ClippedTo
    /\ ~ClippedSynced
    /\ synced' = ClippedSynced /\ from' = ClippedFrom /\ to' = ClippedTo
    /\ batch' = FetchedBlocks(ClippedFrom, ClippedTo)
    /\ pos' = 1
    /\ pc' = "process"
    /\ UNCHANGED <<chainVars, dbVars, last, lastKnown, failures, restarts>>

\* Synced and the range came back empty: the last block is gone.  Reset
\* to GetPreviousBlock(1), or to the block checkReorg finds below it.
FetchEmpty ==
    /\ pc = "range"
    /\ ClippedFrom <= ClippedTo
    /\ ClippedSynced
    /\ FetchedBlocks(ClippedFrom, ClippedTo) = <<>>
    /\ LET prev == IF Len(StoredDesc) > 1 THEN StoredDesc[2] ELSE Hdr(GenesisBlock)
           blockReorged == CheckReorg(prev)
       IN /\ blockReorged # NoHeader
          /\ ResetState(blockReorged.num)
          /\ last' = blockReorged
    /\ synced' = ClippedSynced /\ from' = ClippedFrom /\ to' = ClippedTo
    /\ pc' = "post"
    /\ UNCHANGED <<chainVars, lastKnown, batch, pos, failures, restarts>>

\* Synced: the first returned block must be lastBlockSynced again;
\* checkReorg(lastBlockSynced, initBlockReceived) finds it is not.
FetchReorg ==
    /\ pc = "range"
    /\ ClippedFrom <= ClippedTo
    /\ ClippedSynced
    /\ LET blocks == FetchedBlocks(ClippedFrom, ClippedTo) IN
         /\ blocks # <<>>
         /\ LET r == CheckReorgWith(last, blocks[1]) IN
              /\ r # NoHeader
              /\ r.hash # last.hash
              /\ ResetState(r.num)
              /\ last' = r
    /\ synced' = ClippedSynced /\ from' = ClippedFrom /\ to' = ClippedTo
    /\ pc' = "post"
    /\ UNCHANGED <<chainVars, lastKnown, batch, pos, failures, restarts>>

\* checkReorg gets an error from HeaderByNumber for a stored block above
\* the head, and syncBlocks returns it: the first check, or the walk from
\* the previous block after an empty synced range.  (The check after a
\* non-empty range only reaches stored blocks below a block the same
\* fetch returned, so in this model it cannot fail.)
CheckReorgFails ==
    /\ \/ pc = "reorg" /\ CheckReorg(last) = NoHeader
       \/ /\ pc = "range" /\ ClippedFrom <= ClippedTo /\ ClippedSynced
          /\ FetchedBlocks(ClippedFrom, ClippedTo) = <<>>
          /\ CheckReorg(IF Len(StoredDesc) > 1 THEN StoredDesc[2] ELSE Hdr(GenesisBlock)) = NoHeader
    /\ pc' = "error"
    /\ UNCHANGED <<chainVars, dbVars, last, synced, lastKnown, from, to, batch, pos, failures, restarts>>

\* FetchSynced that keeps the position reached in the previous range.
FetchSyncedStaleIndex ==
    /\ pc = "range"
    /\ ClippedFrom <= ClippedTo
    /\ ClippedSynced
    /\ LET blocks == FetchedBlocks(ClippedFrom, ClippedTo) IN
         /\ blocks # <<>>
         /\ CheckReorgWith(last, blocks[1]).hash = last.hash
         /\ batch' = Tail(blocks)
    /\ synced' = ClippedSynced /\ from' = ClippedFrom /\ to' = ClippedTo
    /\ pc' = "process"
    /\ UNCHANGED <<chainVars, dbVars, last, lastKnown, pos, failures, restarts>>

\* Synced and no reorg: drop the first block (already stored), store the rest.
FetchSynced ==
    /\ pc = "range"
    /\ ClippedFrom <= ClippedTo
    /\ ClippedSynced
    /\ LET blocks == FetchedBlocks(ClippedFrom, ClippedTo) IN
         /\ blocks # <<>>
         /\ CheckReorgWith(last, blocks[1]).hash = last.hash
         /\ batch' = Tail(blocks)
    /\ synced' = ClippedSynced /\ from' = ClippedFrom /\ to' = ClippedTo
    /\ pos' = 1
    /\ pc' = "process"
    /\ UNCHANGED <<chainVars, dbVars, last, lastKnown, failures, restarts>>

\* bridgectrl addLeaf: the leaf must go at the tree's current length,
\* else OutOfOrder.
LeafInOrder(b) == b.cnt = Len(tree)

\* processBlockRange, one block: one transaction holding AddBlock (ON
\* CONFLICT on the hash keeps the row), AddDeposit and the tree's addLeaf.
\* A failure rolls the block back and syncBlocks returns the error.
ProcessBlock ==
    /\ pc = "process"
    /\ pos <= Len(batch)
    /\ LET b == batch[pos] IN
         IF ~b.dep \/ LeafInOrder(b)
         THEN /\ dbBlocks' = AddBlock(b)
              /\ dbDeposits' = IF b.dep THEN AddDeposit(b) ELSE dbDeposits
              /\ tree' = IF b.dep THEN Append(tree, b.hash) ELSE tree
              /\ pos' = pos + 1
              /\ UNCHANGED pc
         ELSE /\ pc' = "error"
              /\ UNCHANGED <<dbVars, pos>>
    /\ UNCHANGED <<chainVars, last, synced, lastKnown, from, to, batch, failures, restarts>>

\* The range is stored: lastBlockSynced is its last block.
RangeLast == IF batch # <<>> THEN Hdr(Last(batch)) ELSE last

\* lastKnownBlock <= toBlock: synced, leave the loop.
EndRangeDone ==
    /\ pc = "process"
    /\ pos > Len(batch)
    /\ lastKnown <= to
    /\ last' = RangeLast
    /\ synced' = TRUE
    /\ pc' = "post"
    /\ UNCHANGED <<chainVars, dbVars, lastKnown, from, to, batch, pos, failures, restarts>>

\* More to fetch: the next chunk, or while synced the range from the last
\* stored block to a toBlock one chunk further.
EndRangeNext ==
    /\ pc = "process"
    /\ pos > Len(batch)
    /\ lastKnown > to
    /\ last' = RangeLast
    /\ from' = IF synced THEN RangeLast.num ELSE to + 1
    /\ to' = IF synced THEN to + SyncChunkSize ELSE to + 1 + SyncChunkSize
    /\ pc' = "range"
    /\ UNCHANGED <<chainVars, dbVars, synced, lastKnown, batch, pos, failures, restarts>>

\* Sync: syncBlocks failed; resume from GetLastBlock (genesis if none).
Recover ==
    /\ pc = "error"
    /\ last' = LastBlockOrGenesis
    /\ pc' = "post"
    /\ UNCHANGED <<chainVars, dbVars, synced, lastKnown, from, to, batch, pos, failures, restarts>>

\* Sync, not synced: HeaderByNumber(nil); synced when the last block is
\* the chain's tip.
PostCheckTip ==
    /\ pc = "post"
    /\ ~synced
    /\ last.num <= Tip
    /\ lastKnown' = Tip
    /\ synced' = (last.num = Tip)
    /\ pc' = "loop"
    /\ UNCHANGED <<chainVars, dbVars, last, from, to, batch, pos, failures, restarts>>

\* Sync, not synced, network 0, the last block above the tip: log.Fatalf.
\* The process exits and its supervisor starts it again: Sync resumes
\* from GetLastBlock.
TipBehindFatal ==
    /\ pc = "post"
    /\ ~synced
    /\ last.num > Tip
    /\ networkID = 0
    /\ last' = LastBlockOrGenesis
    /\ synced' = FALSE
    /\ batch' = <<>> /\ pos' = 1
    /\ pc' = "loop"
    /\ UNCHANGED <<chainVars, dbVars, lastKnown, from, to, failures, restarts>>

\* Sync, not synced, an L2, the last block above the tip: resetState to
\* the tip.  lastBlockSynced is not re-read and keeps the deleted block.
TipBehindReset ==
    /\ pc = "post"
    /\ ~synced
    /\ last.num > Tip
    /\ networkID # 0
    /\ ResetState(Tip)
    /\ lastKnown' = Tip
    /\ pc' = "loop"
    /\ UNCHANGED <<chainVars, last, synced, from, to, batch, pos, failures, restarts>>

\* Sync, not synced: HeaderByNumber(nil), or the resetState above, fails;
\* the loop continues with lastBlockSynced as it is.
FailTipCheck ==
    /\ pc = "post"
    /\ ~synced
    /\ failures < MaxFailures
    /\ failures' = failures + 1
    /\ pc' = "loop"
    /\ UNCHANGED <<chainVars, dbVars, last, synced, lastKnown, from, to, batch, pos, restarts>>

\* Sync, synced, network 0: nothing more this round.
PostSynced ==
    /\ pc = "post"
    /\ synced
    /\ pc' = "loop"
    /\ UNCHANGED <<chainVars, dbVars, last, synced, lastKnown, from, to, batch, pos, failures, restarts>>

\* An RPC or a database call of syncBlocks fails: the open transaction
\* rolls back and syncBlocks returns the error.
Fail ==
    /\ pc \in {"loop", "reorg", "range", "process"}
    /\ failures < MaxFailures
    /\ failures' = failures + 1
    /\ pc' = "error"
    /\ UNCHANGED <<chainVars, dbVars, last, synced, lastKnown, from, to, batch, pos, restarts>>

\* The process crashes and restarts: Sync starts over from GetLastBlock
\* (the genesis block when none is stored) with synced false; open
\* transactions are lost.
Restart ==
    /\ restarts < MaxRestarts
    /\ restarts' = restarts + 1
    /\ last' = LastBlockOrGenesis
    /\ synced' = FALSE
    /\ batch' = <<>> /\ pos' = 1
    /\ pc' = "loop"
    /\ UNCHANGED <<chainVars, dbVars, lastKnown, from, to, failures>>

-----------------------------------------------------------------------------
(* The chain moves *)

Mine ==
    /\ Tip < MaxHeight
    /\ \E dep \in BOOLEAN :
         /\ chain' = Extend(chain, branch, <<dep>>)
         /\ mined' = mined \cup {Last(chain')}
    /\ UNCHANGED <<networkID, branch, dbVars, syncVars, failures, restarts>>

\* The newest d blocks are replaced by e <= d blocks of a new branch: the
\* head may go back (e < d) as well as change.
Reorg ==
    /\ branch < MaxReorgs
    /\ \E d \in 1..ReorgDepth, e \in 0..ReorgDepth, deps \in [1..ReorgDepth -> BOOLEAN] :
         /\ d <= Tip /\ e <= d
         /\ chain' = Extend(SubSeq(chain, 1, Len(chain) - d), branch + 1,
                            SubSeq(deps, 1, e))
         /\ mined' = mined \cup {chain'[i] : i \in 1..Len(chain')}
    /\ branch' = branch + 1
    /\ UNCHANGED <<networkID, dbVars, syncVars, failures, restarts>>

SyncStep ==
    \/ FetchTip \/ DetectReorg \/ NoReorg
    \/ CheckReorgFails
    \/ FetchCatchingUp \/ FetchEmpty \/ FetchReorg \/ FetchSynced
    \/ ProcessBlock \/ EndRangeDone \/ EndRangeNext
    \/ Recover \/ PostCheckTip \/ TipBehindFatal \/ TipBehindReset \/ PostSynced

Next == SyncStep \/ Fail \/ FailTipCheck \/ Restart \/ Mine \/ Reorg

\* A block the synchronizer stored, or resumes from, is above the head.
ChainBehindSync == \E b \in dbBlocks \cup {last} : b.num > Tip

\* The Sync loop runs on its own goroutine and always takes its next step;
\* failures and crashes are the environment and need not happen.  The
\* chain need not grow either, except that a head that went back below a
\* block the synchronizer holds is eventually passed again: a live chain
\* keeps producing blocks, and until then every round fails or exits.
Spec == Init /\ [][Next]_vars /\ WF_vars(SyncStep) /\ WF_vars(Mine /\ ChainBehindSync)

-----------------------------------------------------------------------------
(* Properties *)

Header_ == [num : 0..MaxHeight, hash : Hash \cup {NoHash}, parent : Hash \cup {NoHash}]
Block_ == [num : 0..MaxHeight, hash : Hash \cup {NoHash}, parent : Hash \cup {NoHash},
           dep : BOOLEAN, cnt : 0..MaxHeight]

TypeOK ==
    /\ networkID \in Networks
    /\ chain \in Seq(Block_) /\ Len(chain) \in 1..MaxHeight + 1
    /\ branch \in 0..MaxReorgs
    /\ dbBlocks \subseteq Header_
    /\ dbDeposits \subseteq [cnt : 0..MaxHeight, blk : Hash]
    /\ tree \in Seq(Hash)
    /\ last \in Header_
    /\ synced \in BOOLEAN
    /\ lastKnown \in 0..MaxHeight
    /\ batch \in Seq(Block_) /\ pos \in 1..Len(batch) + 1
    /\ pc \in {"loop", "reorg", "range", "process", "error", "post"}

\* The stored deposits and the exit tree are written in the same
\* transactions (processDeposit, resetState): leaf i of the tree is the
\* stored deposit with deposit_count i, and there is no other leaf.  A
\* mismatch makes every later addLeaf fail with OutOfOrder.
TreeMatchesDeposits ==
    /\ Len(tree) = Cardinality(dbDeposits)
    /\ \A d \in dbDeposits : d.cnt < Len(tree) /\ tree[d.cnt + 1] = d.blk

ParentOf(h) == (CHOOSE b \in mined : b.hash = h).parent

RECURSIVE AncestorsOf(_)
AncestorsOf(h) == IF h = NoHash THEN {} ELSE {h} \cup AncestorsOf(ParentOf(h))

\* The stored blocks lie on one branch: of two stored blocks the lower is
\* an ancestor of the higher.  checkReorg only compares the latest stored
\* block with the chain, so a stored block of an abandoned branch below
\* it would never be removed.
SingleBranch ==
    \A b1, b2 \in dbBlocks : b1.num <= b2.num => b1.hash \in AncestorsOf(b2.hash)

\* A step deletes only stored blocks that are not on the chain (any more).
DeletesOnlyOrphans == \A b \in dbBlocks \ dbBlocks' : b.num > Tip \/ Header(b.num) # b

\* A reset (resetState after checkReorg, after an empty range, or to the
\* head when the head went back) deletes only stored blocks that are no
\* longer on the chain: the walk of checkReorg stops at the first stored
\* block that still matches.  The walk starts at lastBlockSynced and asks
\* GetPreviousBlock(depth) for the depth-th block below the newest stored
\* one, so it relies on lastBlockSynced being the newest stored block.
ResetDeletesOnlyOrphans == [][DeletesOnlyOrphans]_dbBlocks

\* The same on L1, where a head below lastBlockSynced ends the process
\* (log.Fatalf) and Sync starts again from GetLastBlock, so the walk always
\* starts at the newest stored block.
L1ResetDeletesOnlyOrphans == [][networkID = 0 => DeletesOnlyOrphans]_dbBlocks

CanonicalEventBlocks == {Hdr(Blk(n)) : n \in {m \in 0..Tip : Blk(m).dep}}
CanonicalDeposits == {[cnt |-> Blk(n).cnt, blk |-> Blk(n).hash] : n \in {m \in 0..Tip : Blk(m).dep}}

\* Once the chain stops moving, the synchronizer ends up storing exactly
\* the canonical blocks with events and their deposits, after any
\* reorganisations, failed calls and crashes on the way.
EventuallyConsistent ==
    <>[](dbBlocks = CanonicalEventBlocks /\ dbDeposits = CanonicalDeposits)


(* The synchronizer implements CanonicalPrefix: under the mapping below    *)
(* every step of Sync, of a reset and of a crash either leaves sync.block, *)
(* sync.deposit and the tree alone or is one append of a canonical event  *)
(* block or one truncation.  This ties the walk of checkReorg, the range   *)
(* arithmetic of syncBlocks and resetState's GetNumberDeposits together.   *)
Abstract == INSTANCE CanonicalPrefix
    WITH mined <- mined, store <- dbBlocks, deposits <- dbDeposits, leaves <- tree

ImplementsCanonicalPrefix == Abstract!Spec

=============================================================================
