----------------------------- MODULE BridgeSync -----------------------------
(***************************************************************************)
(* How global exit roots travel from the chains to the claim tx manager of *)
(* one L2 (synchronizer/synchronizer.go, claimtxman/claimtxman.go,         *)
(* db/pgstorage/pgstorage.go).  Three goroutines share the database:       *)
(*   - the L1 synchronizer stores each L1 block (deposits to the L2 and    *)
(*     GER updates) in one transaction and back-fills the exit roots of   *)
(*     L2 GER rows stored before their L1 row;                            *)
(*   - the L2 synchronizer stores the L2's GERs: InsertGlobalExitRoot     *)
(*     events of a sovereign chain, looking the exit roots up among the   *)
(*     L1 rows, or, for a zkEVM rollup once it is synced, the trusted     *)
(*     state's latest GER; it publishes each one on chExitRootEventL2;    *)
(*   - the claim tx manager's Start loop takes GERs off that channel and  *)
(*     flags the L1 deposits they cover ready_for_claim.                  *)
(* A sovereign chain may also remove its last inserted GER; the L2        *)
(* synchronizer then marks the GER's rows not allowed and clears          *)
(* ready_for_claim on the deposits it covered beyond the previous GER.    *)
(* The process may crash and restart: open transactions roll back, the    *)
(* channel and all in-memory flags are lost, the synchronizers resume     *)
(* from their last stored block.                                          *)
(*                                                                         *)
(* An L1 block holds one deposit to the L2 and, when the depositor forced *)
(* it, a GER update.  The rollup exit root never changes here, so a GER   *)
(* is identified by the number of L1 deposits its mainnet root covers.    *)
(***************************************************************************)
EXTENDS Integers, Sequences, FiniteSets, SequencesExt

CONSTANTS
    MaxDeposits,     \* bound on L1 blocks (each holds one deposit)
    MaxL2Blocks,     \* bound on L2 blocks (each inserts or removes one GER)
    ChanCap,         \* capacity of chExitRootEventL2
    MaxCrashes       \* bound on crashes other than the claim manager's panic

ASSUME MaxDeposits \in Nat /\ MaxL2Blocks \in Nat /\ ChanCap \in Nat \ {0}
       /\ MaxCrashes \in Nat

Gers == 1..MaxDeposits
\* A sync.exit_root row of the L2 network: block_id (0 for a trusted row),
\* the GER, whether exit_roots holds the (mainnet, rollup) pair, and the
\* allowed column.  Rows of a sovereign chain come one per L2 block, so
\* their block_id orders them as their id does.
Row == [blk : 0..MaxL2Blocks, ger : Gers, full : BOOLEAN, allowed : BOOLEAN]
NoRow == [blk |-> 0, ger |-> 1, full |-> FALSE, allowed |-> TRUE]
\* An L2 block's GER event: InsertGlobalExitRoot or RemoveLastGlobalExitRoot.
Event == [op : {"insert", "remove"}, ger : Gers]

VARIABLES
    sovereign,   \* the L2 is a sovereign chain (fixed for a run)
    l1Chain,     \* L1 block i: deposit i-1, and a GER update to i if TRUE
    l2Chain,     \* L2 block i carries the GER event l2Chain[i]
    \* storage (committed rows)
    l1Cur,       \* L1 blocks stored by the L1 synchronizer
    l1Rows,      \* GERs with a network 0 sync.exit_root row
    l2Rows,      \* network L2 sync.exit_root rows
    ready,       \* L1 deposit counts with ready_for_claim
    l2Cur,       \* L2 blocks stored by the L2 synchronizer
    \* the L2 synchronizer goroutine
    l2pc,        \* "idle" | "send" | "commit" | "trusted"
    l2Open,      \* the row of the open block transaction, or being published
    synced,      \* s.synced
    \* the channel and the claim manager
    ch,          \* chExitRootEventL2: a sequence of [ger, full]
    l2Synced,    \* tm.l2Synced
    grouping,    \* cfg.GroupingClaims.Enabled (fixed for a run)
    loopGer,     \* the Start loop's ger: the last GER received, [ger, full]
    latestProcessedGer, \* the GER the compressor ticker last processed
    \* history
    crashes, panics,
    acted        \* GERs the claim manager ran UpdateL1DepositsStatus for

chainVars == <<sovereign, l1Chain, l2Chain>>
storeVars == <<l1Cur, l1Rows, l2Rows, ready, l2Cur>>
cmVars == <<grouping, loopGer, latestProcessedGer>>
procVars == <<l2pc, l2Open, synced, ch, l2Synced, cmVars>>
vars == <<chainVars, storeVars, procVars, crashes, panics, acted>>

L1Gers == {i \in DOMAIN l1Chain : l1Chain[i]}
StoredDeposits == l1Cur

(* The GER manager's inserted GERs after a sequence of events: an insert  *)
(* pushes, removeLastGlobalExitRoot pops the last one.                     *)
ApplyEvent(stack, e) == IF e.op = "insert" THEN Append(stack, e.ger) ELSE Front(stack)
GerStack(events) == FoldLeft(ApplyEvent, <<>>, events)
LastL2Ger == LET st == GerStack(l2Chain) IN IF st = <<>> THEN 0 ELSE Last(st)
InsertedGers == {l2Chain[i].ger : i \in {j \in DOMAIN l2Chain : l2Chain[j].op = "insert"}}

(* GetL1ExitRootByGER, called with a nil transaction: only committed L1   *)
(* rows are seen.                                                          *)
GetL1ExitRootByGER(k) == k \in l1Rows

(* GetL2ExitRootsByGER, called with a nil transaction: the committed,     *)
(* allowed L2 rows of the GER, stored from a block, whose exit_roots is   *)
(* empty.                                                                  *)
GetL2ExitRootsByGER(k) == {r \in l2Rows : r.ger = k /\ r.allowed /\ r.blk > 0 /\ ~r.full}

(* UpdateL1DepositsStatus: flag every L1 deposit whose count is at most   *)
(* that of the deposit whose mt.root row holds the mainnet exit root.  The *)
(* root of GER k is written when deposit k-1 is stored.                    *)
UpdateL1DepositsStatus(k) == IF k <= StoredDeposits THEN 0..(k - 1) ELSE {}

(* AddGlobalExitRoot: INSERT INTO sync.exit_root, one row per event;     *)
(* exit_roots is empty when the event carried none.                        *)
AddGlobalExitRoot(rows, r) == rows \cup {r}

(* UpdateL2GER for each row: SET exit_roots WHERE id = the row's id.       *)
UpdateL2GER(rows, incomplete) ==
    (rows \ incomplete) \cup {[r EXCEPT !.full = TRUE] : r \in incomplete}

(* AddTrustedGlobalExitRoot: INSERT ... ON CONFLICT DO NOTHING; the row    *)
(* is new when RowsAffected() > 0.                                          *)
TrustedRowIsNew(r) == r \notin l2Rows
AddTrustedGlobalExitRoot(r) == l2Rows \cup {r}

Message(r) == [ger |-> r.ger, full |-> r.full]

\* &etherman.GlobalExitRoot{}: the zero hash, which no GER equals.
ZeroGer == [ger |-> 0, full |-> FALSE]

Init ==
    /\ sovereign \in BOOLEAN
    /\ l1Chain = <<>>
    /\ l2Chain = <<>>
    /\ l1Cur = 0
    /\ l1Rows = {}
    /\ l2Rows = {}
    /\ ready = {}
    /\ l2Cur = 0
    /\ l2pc = "idle"
    /\ l2Open = NoRow
    /\ synced = FALSE
    /\ ch = <<>>
    /\ l2Synced = FALSE
    /\ grouping \in BOOLEAN
    /\ loopGer = ZeroGer
    /\ latestProcessedGer = 0
    /\ crashes = 0
    /\ panics = 0
    /\ acted = {}

-----------------------------------------------------------------------------
(* The chains.                                                             *)

\* A bridgeAsset on L1 to the L2, with forceUpdateGlobalExitRoot or not.
L1Deposit ==
    /\ Len(l1Chain) < MaxDeposits
    /\ \E force \in BOOLEAN : l1Chain' = Append(l1Chain, force)
    /\ UNCHANGED <<sovereign, l2Chain, storeVars, procVars, crashes, panics, acted>>

\* The L2 takes a newer L1 GER: an InsertGlobalExitRoot block of a
\* sovereign chain, or the trusted state's latest GER of a zkEVM rollup.
TakeGER ==
    /\ Len(l2Chain) < MaxL2Blocks
    /\ \E k \in L1Gers :
          /\ k > LastL2Ger
          /\ l2Chain' = Append(l2Chain, [op |-> "insert", ger |-> k])
    /\ UNCHANGED <<sovereign, l1Chain, storeVars, procVars, crashes, panics, acted>>

\* A sovereign chain's removeLastGlobalExitRoot.  The chain here never
\* removes the first GER it inserted: AddRemoveL2GER fails on it (no row
\* before it), which stops the L2 synchronizer at that block for good.
RemoveGER ==
    /\ sovereign
    /\ Len(l2Chain) < MaxL2Blocks
    /\ Len(GerStack(l2Chain)) >= 2
    /\ l2Chain' = Append(l2Chain, [op |-> "remove", ger |-> LastL2Ger])
    /\ UNCHANGED <<sovereign, l1Chain, storeVars, procVars, crashes, panics, acted>>

-----------------------------------------------------------------------------
(* The L1 synchronizer: processBlockRange stores one block per            *)
(* transaction.  A GER update runs processGlobalExitRoot's L1 branch: it  *)
(* reads the incomplete L2 rows outside the transaction, fills their      *)
(* exit roots, then adds the L1 row.  The latest GER is sent to the claim *)
(* managers only when the rollup exit root changed, which it never does   *)
(* here.                                                                   *)
StoreL1GER(k) ==
    LET incomplete == GetL2ExitRootsByGER(k)
    IN  /\ l2Rows' = UpdateL2GER(l2Rows, incomplete)
        /\ l1Rows' = AddGlobalExitRoot(l1Rows, k)

L1SyncBlock ==
    /\ l1Cur < Len(l1Chain)
    /\ l1Cur' = l1Cur + 1
    /\ IF l1Chain[l1Cur + 1]
          THEN StoreL1GER(l1Cur + 1)
          ELSE UNCHANGED <<l1Rows, l2Rows>>
    /\ UNCHANGED <<chainVars, ready, l2Cur, procVars, crashes, panics, acted>>

-----------------------------------------------------------------------------
(* The L2 synchronizer.  A block of a sovereign chain runs                *)
(* processGlobalExitRoot's L2 branch inside the block transaction: the    *)
(* exit roots are copied from the L1 row if one is committed (otherwise   *)
(* the row is stored with none), the row is added, the GER is sent on     *)
(* chExitRootEventL2, and only then does processBlockRange commit.  A     *)
(* rollup's block carries no GER event.                                    *)
L2ProcessBlock ==
    /\ l2pc = "idle"
    /\ l2Cur < Len(l2Chain)
    /\ IF sovereign
          THEN LET k == l2Chain[l2Cur + 1].ger
               IN  /\ l2Chain[l2Cur + 1].op = "insert"
                   /\ l2Open' = [blk |-> l2Cur + 1, ger |-> k,
                                 full |-> GetL1ExitRootByGER(k), allowed |-> TRUE]
                   /\ l2pc' = "send"
                   /\ UNCHANGED l2Cur
          ELSE /\ l2Cur' = l2Cur + 1
               /\ UNCHANGED <<l2pc, l2Open>>
    /\ UNCHANGED <<cmVars, chainVars, l1Cur, l1Rows, l2Rows, ready, synced, ch,
                   l2Synced, crashes, panics, acted>>

\* Mutant: the send does not wait for room in the channel.
L2SendNoWait ==
    /\ l2pc = "send"
    /\ ch' = Append(ch, Message(l2Open))
    /\ l2pc' = "commit"
    /\ UNCHANGED <<cmVars, chainVars, storeVars, l2Open, synced, l2Synced, crashes,
                   panics, acted>>

\* The send blocks while the channel is full, with the transaction open.
L2Send ==
    /\ l2pc = "send"
    /\ Len(ch) < ChanCap
    /\ ch' = Append(ch, Message(l2Open))
    /\ l2pc' = "commit"
    /\ UNCHANGED <<cmVars, chainVars, storeVars, l2Open, synced, l2Synced, crashes,
                   panics, acted>>

\* Mutant: the block transaction commits without the AddGlobalExitRoot row.
L2CommitNoRow ==
    /\ l2pc = "commit"
    /\ l2Cur' = l2Cur + 1
    /\ l2pc' = "idle"
    /\ l2Open' = NoRow
    /\ UNCHANGED <<cmVars, chainVars, l1Cur, l1Rows, l2Rows, ready, synced, ch, l2Synced,
                   crashes, panics, acted>>

L2Commit ==
    /\ l2pc = "commit"
    /\ l2Rows' = AddGlobalExitRoot(l2Rows, l2Open)
    /\ l2Cur' = l2Cur + 1
    /\ l2pc' = "idle"
    /\ l2Open' = NoRow
    /\ UNCHANGED <<cmVars, chainVars, l1Cur, l1Rows, ready, synced, ch, l2Synced,
                   crashes, panics, acted>>

\* Mutant: the UPDATE disallows only the row whose id it returns.
UpdateGERStatusOneRow(k, gerRow) ==
    {IF r = gerRow THEN [r EXCEPT !.allowed = FALSE] ELSE r : r \in l2Rows}

(* UPDATE sync.exit_root SET allowed = false WHERE global_exit_root = k:   *)
(* every row of the GER; RETURNING id yields one of them (gerRow).         *)
UpdateGERStatus(k, gerRow) ==
    {IF r.ger = k THEN [r EXCEPT !.allowed = FALSE] ELSE r : r \in l2Rows}

(* GetDepositCountByGER(ger, network, false): the L1 deposit whose mt.root *)
(* row holds the mainnet exit root of some row of the GER, allowed or not *)
(* (the deposit count k-1 for GER k); none, ErrStorageNotFound, when no    *)
(* row of the GER has exit roots.                                          *)
GetDepositCountByGER(g) ==
    IF \E r \in l2Rows : r.ger = g /\ r.full THEN {g - 1} ELSE {}

(* UPDATE sync.deposit SET ready_for_claim = false for the L1 deposits to  *)
(* this network with prevDeposit < count <= currentDeposit.                *)
UpdateDepositsFlag(prevDeposit, currentDeposit) ==
    {c \in ready : ~(prevDeposit < c /\ c <= currentDeposit)}

(* AddRemoveL2GER, inside the block transaction.  The previous GER is the  *)
(* row with the next lower id, allowed or not; with none the query fails  *)
(* with ErrNoRows.  A previous GER without a deposit gives prevDepositID 0 *)
(* (every deposit), a removed GER without one gives MaxUint64.  The       *)
(* sync.remove_exit_root row it inserts is never read and is left out.    *)
AddRemoveL2GER(k) ==
    \E gerRow \in {r \in l2Rows : r.ger = k} :
        LET before == {r \in l2Rows : r.blk < gerRow.blk}
            prev == CHOOSE r \in before : \A o \in before : o.blk <= r.blk
            prevDeposit == IF GetDepositCountByGER(prev.ger) = {} THEN -1
                           ELSE CHOOSE c \in GetDepositCountByGER(prev.ger) : TRUE
            currentDeposit == IF GetDepositCountByGER(k) = {} THEN MaxDeposits
                              ELSE CHOOSE c \in GetDepositCountByGER(k) : TRUE
        IN  /\ before # {}
            /\ l2Rows' = UpdateGERStatus(k, gerRow)
            /\ ready' = UpdateDepositsFlag(prevDeposit, currentDeposit)

(* A RemoveLastGlobalExitRoot block of a sovereign chain:                  *)
(* processRemoveL2GlobalExitRoot runs AddRemoveL2GER in the block          *)
(* transaction, which commits with it.  When AddRemoveL2GER fails the      *)
(* transaction rolls back and the block is retried: no step.               *)
L2ProcessRemove ==
    /\ l2pc = "idle"
    /\ l2Cur < Len(l2Chain)
    /\ l2Chain[l2Cur + 1].op = "remove"
    /\ AddRemoveL2GER(l2Chain[l2Cur + 1].ger)
    /\ l2Cur' = l2Cur + 1
    /\ UNCHANGED <<cmVars, chainVars, l1Cur, l1Rows, l2pc, l2Open, synced, ch,
                   l2Synced, crashes, panics, acted>>

(* Sync: once the last stored block is the chain's latest, set s.synced  *)
(* and send the network id on chSynced; the claim manager's select takes  *)
(* it and sets tm.l2Synced.                                                *)
MarkSynced ==
    /\ l2pc = "idle"
    /\ ~synced
    /\ l2Cur = Len(l2Chain)
    /\ synced' = TRUE
    /\ l2Synced' = TRUE
    /\ UNCHANGED <<cmVars, chainVars, storeVars, l2pc, l2Open, ch, crashes, panics,
                   acted>>

\* Mutant: the trusted GER is published whether or not the insert was new.
TrustedSyncIgnoreUpdated ==
    /\ ~sovereign
    /\ synced
    /\ l2pc = "idle"
    /\ l2Chain # <<>>
    /\ LET row == [blk |-> 0, ger |-> LastL2Ger, full |-> TRUE, allowed |-> TRUE]
       IN  /\ l2Rows' = AddTrustedGlobalExitRoot(row)
           /\ l2Open' = row
           /\ l2pc' = "trusted"
    /\ UNCHANGED <<cmVars, chainVars, l1Cur, l1Rows, ready, l2Cur, synced, ch,
                   l2Synced, crashes, panics, acted>>

(* syncTrustedState, for a rollup once synced: AddTrustedGlobalExitRoot   *)
(* inserts the latest GER with both exit roots outside any transaction,   *)
(* ON CONFLICT DO NOTHING; only a new row is published.                    *)
TrustedSync ==
    /\ ~sovereign
    /\ synced
    /\ l2pc = "idle"
    /\ l2Chain # <<>>
    /\ LET row == [blk |-> 0, ger |-> LastL2Ger, full |-> TRUE, allowed |-> TRUE]
       IN  /\ TrustedRowIsNew(row)
           /\ l2Rows' = AddTrustedGlobalExitRoot(row)
           /\ l2Open' = row
           /\ l2pc' = "trusted"
    /\ UNCHANGED <<cmVars, chainVars, l1Cur, l1Rows, ready, l2Cur, synced, ch,
                   l2Synced, crashes, panics, acted>>

TrustedSend ==
    /\ l2pc = "trusted"
    /\ Len(ch) < ChanCap
    /\ ch' = Append(ch, Message(l2Open))
    /\ l2pc' = "idle"
    /\ l2Open' = NoRow
    /\ UNCHANGED <<cmVars, chainVars, storeVars, synced, l2Synced, crashes, panics,
                   acted>>

-----------------------------------------------------------------------------
(* A restart of the process: open transactions roll back, the channel and *)
(* the goroutines' flags are gone; Sync reloads the last stored block.    *)
Restart ==
    /\ l2pc' = "idle"
    /\ l2Open' = NoRow
    /\ synced' = FALSE
    /\ ch' = <<>>
    /\ l2Synced' = FALSE
    /\ loopGer' = ZeroGer
    /\ latestProcessedGer' = 0
    /\ UNCHANGED <<grouping, chainVars, storeVars, acted>>

Crash ==
    /\ crashes < MaxCrashes
    /\ crashes' = crashes + 1
    /\ Restart
    /\ UNCHANGED panics

-----------------------------------------------------------------------------
(* The claim tx manager's Start loop, case ger = <-tm.chExitRootEvent.    *)
(* In regular mode a GER received before tm.l2Synced is dropped; after it *)
(* updateDepositsStatus runs processDepositStatus in its own transaction: *)
(* an L2 GER takes the else branch, which reads ger.ExitRoots[0]; with no *)
(* exit roots that is an index out of range, and the panic ends the       *)
(* process.                                                                *)
DropGER ==
    /\ ~grouping
    /\ ch # <<>>
    /\ ~l2Synced
    /\ ch' = Tail(ch)
    /\ UNCHANGED <<cmVars, chainVars, storeVars, l2pc, l2Open, synced, l2Synced,
                   crashes, panics, acted>>

\* updateDepositsStatus(m) for a GER with exit roots.
ActOn(m) ==
    /\ ready' = ready \cup UpdateL1DepositsStatus(m.ger)
    /\ acted' = acted \cup {m.ger}

ProcessGER ==
    /\ ~grouping
    /\ ch # <<>>
    /\ l2Synced
    /\ Head(ch).full
    /\ ch' = Tail(ch)
    /\ ActOn(Head(ch))
    /\ UNCHANGED <<cmVars, chainVars, l1Cur, l1Rows, l2Rows, l2Cur, l2pc, l2Open,
                   synced, l2Synced, crashes, panics>>

PanicGER ==
    /\ ~grouping
    /\ ch # <<>>
    /\ l2Synced
    /\ ~Head(ch).full
    /\ panics' = panics + 1
    /\ Restart
    /\ UNCHANGED crashes

\* Mutant: in grouping mode too, a GER received before the sync is dropped.
ReceiveGroupedDropUnsynced ==
    /\ grouping
    /\ ch # <<>>
    /\ ch' = Tail(ch)
    /\ loopGer' = IF l2Synced THEN Head(ch) ELSE loopGer
    /\ UNCHANGED <<grouping, latestProcessedGer, chainVars, storeVars, l2pc,
                   l2Open, synced, l2Synced, crashes, panics, acted>>

(* In grouping mode (NewClaimTxManager with GroupingClaims.Enabled) the    *)
(* receive only overwrites the loop's ger, synced or not; the compressor   *)
(* ticker processes it.                                                    *)
ReceiveGrouped ==
    /\ grouping
    /\ ch # <<>>
    /\ ch' = Tail(ch)
    /\ loopGer' = Head(ch)
    /\ UNCHANGED <<grouping, latestProcessedGer, chainVars, storeVars, l2pc,
                   l2Open, synced, l2Synced, crashes, panics, acted>>

(* case <-compressorTicker.C: once synced, a ger other than the last one  *)
(* processed gets an updateDepositsStatus goroutine, and becomes the last *)
(* processed.  The goroutine is taken to run at once; one with no exit    *)
(* roots panics as in regular mode.                                        *)
CompressorTick ==
    /\ grouping
    /\ l2Synced
    /\ loopGer.ger # latestProcessedGer
    /\ loopGer.full
    /\ latestProcessedGer' = loopGer.ger
    /\ ActOn(loopGer)
    /\ UNCHANGED <<grouping, loopGer, chainVars, l1Cur, l1Rows, l2Rows, l2Cur,
                   l2pc, l2Open, synced, ch, l2Synced, crashes, panics>>

CompressorPanic ==
    /\ grouping
    /\ l2Synced
    /\ loopGer.ger # latestProcessedGer
    /\ ~loopGer.full
    /\ panics' = panics + 1
    /\ Restart
    /\ UNCHANGED crashes

-----------------------------------------------------------------------------
Environment == L1Deposit \/ TakeGER \/ RemoveGER
L1Sync == L1SyncBlock
L2Sync == L2ProcessBlock \/ L2ProcessRemove \/ L2Send \/ L2Commit \/ MarkSynced
          \/ TrustedSync \/ TrustedSend
ClaimManager == DropGER \/ ProcessGER \/ PanicGER
                \/ ReceiveGrouped \/ CompressorTick \/ CompressorPanic

Next == Environment \/ L1Sync \/ L2Sync \/ ClaimManager \/ Crash

(* Each synchronizer loops forever polling its chain and the claim        *)
(* manager's select loop always returns to the channel, so each goroutine *)
(* that can step eventually does.  The chains and crashes get no fairness. *)
Spec == Init /\ [][Next]_vars
        /\ WF_vars(L1Sync) /\ WF_vars(L2Sync) /\ WF_vars(ClaimManager)

-----------------------------------------------------------------------------
TypeOK ==
    /\ sovereign \in BOOLEAN
    /\ l1Chain \in Seq(BOOLEAN) /\ Len(l1Chain) <= MaxDeposits
    /\ l2Chain \in Seq(Event) /\ Len(l2Chain) <= MaxL2Blocks
    /\ l1Cur \in 0..Len(l1Chain)
    /\ l1Rows \subseteq Gers
    /\ l2Rows \subseteq Row
    /\ ready \subseteq 0..(MaxDeposits - 1)
    /\ l2Cur \in 0..Len(l2Chain)
    /\ l2pc \in {"idle", "send", "commit", "trusted"}
    /\ l2Open \in Row
    /\ synced \in BOOLEAN
    /\ ch \in Seq([ger : Gers, full : BOOLEAN]) /\ Len(ch) <= ChanCap
    /\ l2Synced \in BOOLEAN
    /\ crashes \in 0..MaxCrashes
    /\ panics \in Nat
    /\ acted \subseteq Gers
    /\ grouping \in BOOLEAN
    /\ loopGer \in [ger : 0..MaxDeposits, full : BOOLEAN]
    /\ latestProcessedGer \in 0..MaxDeposits

(* On a sovereign chain the allowed rows track the GER manager: the GERs  *)
(* of the allowed rows are exactly those the stored L2 blocks leave       *)
(* inserted, although a removed GER may be inserted again and then removed *)
(* again, which leaves two rows of it (AddGlobalExitRoot inserts allowed, *)
(* AddRemoveL2GER's UPDATE disallows by GER value).                        *)
AllowedMatchesChain ==
    sovereign =>
        {r.ger : r \in {x \in l2Rows : x.allowed}}
            = ToSet(GerStack(SubSeq(l2Chain, 1, l2Cur)))

(* chExitRootEventL2 is sent before the L2 block transaction commits, so   *)
(* the claim manager may act on a GER whose row a crash then rolls back.  *)
(* Every GER acted upon is nevertheless eventually stored on the L2 side, *)
(* because Sync replays the block from the last stored one.               *)
ActedGERsPersisted ==
    \A k \in Gers : [](k \in acted => <>(\E r \in l2Rows : r.ger = k))

(* The synchronizers never wedge on the GER channel: eventually both have *)
(* stored every block of their chains, the L2 synchronizer is idle with   *)
(* the channel drained, and the claim manager is past its synced gate.    *)
SyncsReachTip ==
    <>[](/\ l1Cur = Len(l1Chain) /\ l2Cur = Len(l2Chain)
         /\ l2pc = "idle" /\ ch = <<>> /\ l2Synced)

(* In grouping mode a GER is never lost to the synced gate: the receive   *)
(* keeps the last GER even before tm.l2Synced, and the compressor ticker   *)
(* processes it once synced.  So, when nothing crashes, every L1 deposit  *)
(* covered by a GER stored from a sovereign L2 block with its exit roots  *)
(* is eventually ready_for_claim, although the L2 synchronizer publishes  *)
(* each GER once and possibly before it reports synced (claimtxman.go     *)
(* 111-139).  A removal clears flags on purpose, so the property assumes   *)
(* none.                                                                   *)
GroupedGERsEventuallyReady ==
    (grouping /\ [](crashes = 0 /\ panics = 0 /\ \A e \in ToSet(l2Chain) : e.op = "insert"))
        => <>[](\A r \in l2Rows :
                   r.blk > 0 /\ r.full => UpdateL1DepositsStatus(r.ger) \subseteq ready)

(* The claim manager never takes, once synced, an L2 GER whose exit roots *)
(* are empty: processDepositStatus indexes ger.ExitRoots[0]               *)
(* (claimtxman.go:216) and would panic.                                    *)
NoEmptyExitRootsProcessed == panics = 0

(* Spec 4.4 and scenario S6: a RemoveLastGlobalExitRoot rewinds           *)
(* ready_for_claim on the deposits the removed GER witnessed, and they    *)
(* stay not ready until an allowed GER witnesses them again.  So every    *)
(* ready deposit is covered by an allowed row, or by a GER that a block   *)
(* the L2 synchronizer has not stored yet inserts (the GER is published   *)
(* before its block commits, and a crash rolls the block back).            *)
AllowedGers ==
    {r.ger : r \in {x \in l2Rows : x.allowed}}
        \cup {l2Chain[i].ger : i \in {j \in l2Cur + 1..Len(l2Chain) : l2Chain[j].op = "insert"}}
ReadyOnlyAllowed == \A c \in ready : \E k \in AllowedGers : c < k

====
