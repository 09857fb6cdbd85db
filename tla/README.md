# TLA+ models of the zkEVM bridge service

This directory holds TLA+ models of the bridge service under `src/`, the
TLC configurations that check them, and `PROJECT.json`. `PROJECT.json`
lists the components, the runs, the mutants, the map from each definition
to the source lines it models, the findings, and the hazards.

## The system

The service watches L1 (network 0) and one or more L2 rollups. It keeps a
copy of the bridge contracts' state in PostgreSQL, serves Merkle proofs, and
automatically sends claim transactions on L2.

| Part | Source | State it keeps | Operations |
|---|---|---|---|
| Chain ingester (`EventIngest`, `GlobalIndex`) | `etherman/etherman.go` | none | `HeaderByNumber`, `GetRollupInfoByBlockRange` (filter logs, group them by block, record the event order), event decoders, `Generate/DecodeGlobalIndex` |
| Synchronizer, one per network | `synchronizer/synchronizer.go` | `lastBlockSynced`, `synced`, `l1RollupExitRoot` (in memory) | `Sync` loop; `syncBlocks` (probe the tip, `checkReorg`, fetch ranges of `SyncChunkSize+1` blocks); `processBlockRange` (one DB transaction per block: block, GERs, remove-GER, deposits, claims, tokens, verified batches); `resetState`; `syncTrustedState` (L2); the GER publish to the claim managers |
| Storage | `db/pgstorage/pgstorage.go` | `sync.block`, `sync.deposit`, `sync.claim`, `sync.exit_root`, `sync.token_wrapped`, `mt.*` (tree nodes, roots, rollup leaves), `sync.monitored_txs` | inserts, `Reset` (delete blocks above N, cascading), `GetPreviousBlock`, `GetNumberDeposits`, ready-for-claim updates, claim-tx queries |
| Bridge controller | `bridgectrl/bridgectrl.go` | one exit tree per network plus the rollups tree (stored in `mt.*`) | `AddDeposit` (`addLeaf` at `deposit_count`, else `OutOfOrder`), `ReorgMT` (`resetLeaf`), `AddRollupExitLeaf` |
| Proof service | `server/service.go` | an LRU node cache | `getProof`, `getRollupExitProof`, `GetClaimProof*`, `GetDepositStatus`, listing endpoints |
| Claim tx manager, one per L2 | `claimtxman/claimtxman.go`, `store_changes.go` | `l2Synced` and the monitored txs in storage | `Start` select loop; per-GER goroutine `updateDepositsStatus` / `processDepositStatus` (mark deposits ready, build the proof, `addClaimTx` with gas-estimate retries and a nonce); `ReviewMonitoredTx` |

**How the parts interact.**
- Each synchronizer is the only writer of its network's rows.
- The L1 synchronizer stores GERs with their two exit roots. When the rollup exit root changes, it publishes the latest GER on the claim managers' channels.
- An L2 synchronizer stores the GERs injected on L2. It fills in their exit roots from the L1 row, if that row is already stored, and sends each GER to its claim manager.
- A `VerifyBatches` event seen on L1 needs the rollup's local exit root to be stored already by that rollup's synchronizer.
- The claim manager reads deposits and roots from storage and writes ready-for-claim flags and monitored txs.
- The proof service only reads.

**What makes it hard.**
- Chain reorganisations can happen between any two RPCs.
- Each block is its own transaction, so a range can be half stored.
- The process can crash between any two transactions.
- Several synchronizers run concurrently and depend on each other's rows.
- The claim manager runs one goroutine per GER, concurrently, over shared rows.
- Gas estimation is retried, and a deposit that fails it is dropped.

## Modules and runs so far

### `Synchronizer` (with `MCSynchronizer`, `MCSynchronizerDeepReorg`)

This module models one network's `Sync`/`syncBlocks` loop running against a
chain that grows and reorganises.

**State.** The variables match the code as follows:
- `last` is `lastBlockSynced`; `synced`, `lastKnown`, `from` and `to` are the loop's own variables.
- `batch` is the fetched range.
- `dbBlocks` and `dbDeposits` are the `sync.block` and `sync.deposit` rows.
- `tree` is the network's exit-tree leaves, by deposit count.
- `networkID` is `s.networkID`, chosen in `Init` from the constant `Networks` (0 is L1).
- The environment is `chain`, `branch` and the history `mined`.

**Blocks.** A block carries a number, a hash `<<number, branch>>`, its
parent's hash, whether it holds a deposit, and that deposit's
`deposit_count`.

**Actions.** The loop is split at every RPC and every database transaction:
- `FetchTip`: the probe `HeaderByNumber(nil)`.
- `DetectReorg` and `NoReorg`: `checkReorg(last, nil)` followed by `resetState`.
- Four outcomes of a range fetch:
  - `FetchCatchingUp`: not synced, so no second check.
  - `FetchEmpty`: synced, and the range came back empty.
  - `FetchReorg`: synced, and the second check found a reorg.
  - `FetchSynced`: synced, no reorg.
- `ProcessBlock`: one block's transaction, including `addLeaf`'s order check.
- `EndRangeDone` and `EndRangeNext`: the end of the range loop.
- `Recover`: `GetLastBlock` after an error.
- `CheckReorgFails`: `HeaderByNumber` fails for a stored block above the
  head, and `checkReorg`, then `syncBlocks`, return the error.
- The rest of the `Sync` iteration when not synced:
  - `PostCheckTip`: the tip check.
  - `TipBehindFatal`: L1 with `lastBlockSynced` above the tip. This is
    `log.Fatalf`: the process exits and starts again from `GetLastBlock`.
  - `TipBehindReset`: an L2 with `lastBlockSynced` above the tip. It calls
    `resetState(lastKnownBlock)` and keeps the in-memory
    `lastBlockSynced`.
  - `FailTipCheck`: the tip check or its reset fails.
- `PostSynced`: the rest of the `Sync` iteration when synced.

The environment adds these actions:
- `Fail`: any call of `syncBlocks` fails, and its transaction rolls back.
- `Restart`: a crash.
- `Mine`.
- `Reorg`: it replaces up to `ReorgDepth` newest blocks by as many or
  fewer. So the head can go back below blocks already stored.

`checkReorg`'s loop is the mutually recursive pair `Fetch` and `Walk`.
- `Fetch` is `HeaderByNumber` of a stored block. Above the head it gives
  `NoHeader`, the error.
- `Walk` steps through `GetPreviousBlock(depth)`, over the stored blocks
  sorted by descending number, as the SQL does.

The storage queries are their own operators:
- `AddBlock`: `ON CONFLICT (block_hash) DO NOTHING`.
- `AddDeposit`.
- `Reset`: `DELETE ... WHERE block_num > $1`. The deposits go by cascade
  in `ResetState`.

**Fairness.** The spec assumes two fairness conditions:
- `WF_vars(SyncStep)`: the `Sync` loop is one goroutine that always takes
  its next step (a timer of `waitDuration`).
- `WF_vars(Mine /\ ChainBehindSync)`: a head that went back below a block
  the synchronizer holds is eventually passed again. A live chain keeps
  producing blocks. Until it does, every round errors in `checkReorg` (or,
  on L1, exits).
  - Without this condition, `EventuallyConsistent` fails.
  - The chain need not grow otherwise.

Failures and crashes are bounded and not fair.

**Properties.**
- `TreeMatchesDeposits`: leaf *i* is the stored deposit with count *i*, and
  there are no other leaves.
- `SingleBranch`: of two stored blocks, the lower is an ancestor of the higher.
- `ResetDeletesOnlyOrphans` (action property): a reset deletes only blocks
  the chain no longer has. `L1ResetDeletesOnlyOrphans` states the same for
  the L1 synchronizer only.
- `EventuallyConsistent` (liveness): once the chain stops moving, storage
  holds exactly the canonical event blocks and their deposits.
- `ImplementsCanonicalPrefix` (refinement): `Synchronizer` implements the
  abstract module `CanonicalPrefix` under the mapping `store <- dbBlocks`,
  `deposits <- dbDeposits`, `leaves <- tree`. In `CanonicalPrefix`, storage
  changes in only two ways:
  - it takes a mined event block that lies above, and descends from, every
    stored block, with its deposit as the next leaf;
  - it drops every block above some height, with their deposits and the
    leaves past them.

  The mutant whose `Reset` does not cascade to the deposits breaks it. Under
  the deep-reorg constants it is violated as well, because the abandoned
  block is stored under blocks of the new branch.

**Runs.**

| Run | Config | Expect | Bounds | Shows |
|---|---|---|---|---|
| `sync_reorg` | `MCSynchronizer.cfg` | pass | L1 or an L2, height 3, 1 reorg of ≤ 2 blocks (same length or shorter), `SyncChunkSize` 1, 1 failure, 1 crash | `L1ResetDeletesOnlyOrphans` and the four other properties hold; ~505k states, about 70 s |
| `sync_deep_reorg_catchup` | `MCSynchronizerDeepReorg.cfg` | violation of `SingleBranch` | L1, height 3, 1 reorg of ≤ 2 blocks, `SyncChunkSize` 0 | while catching up, no second reorg check runs, and an orphaned block stays stored |
| `sync_l2_stale_last_block` | `MCSynchronizerL2.cfg` | violation of `ResetDeletesOnlyOrphans` | as `sync_reorg`, L2 only | after the L2 reset to the tip, `checkReorg` starts from a block that is no longer stored and deletes a canonical one |

**Why these bounds are enough.**
- A two-block reorg is the smallest that can replace the stored last block
  *and* a block above it. It therefore exercises the second `checkReorg`:
  the mutant without that check breaks `SingleBranch`.
- Ranges of two blocks make both the catch-up chunks and the synced-mode
  chunk loop happen.
- A reorg can only reach below a catch-up chunk if it is deeper than
  `SyncChunkSize + 1` blocks. The passing run (depth 2, chunk size 1) stays
  below that. The violation run (chunk size 0) reaches it. With the default
  `SyncChunkSize` of 100, it would take a 102-block reorg.

**Findings.**
- The spec says the reorg walk is repeated after the range fetch. The code
  repeats it only when synced (`synchronizer.go:300`).
- On an L2, `Sync` resets the state to the tip when the tip is below
  `lastBlockSynced` (`synchronizer.go:166`), but keeps the old
  `lastBlockSynced`. TLC's trace:
  1. Block 1 (a deposit) and block 2 are stored.
  2. A reorganisation drops block 2.
  3. The reset to block 1 deletes block 2.
  4. The chain grows to height 2 again.
  5. `checkReorg(old block 2)` sees a mismatch and asks
     `GetPreviousBlock(1)`: the block below the newest stored one. That
     skips block 1, which is still canonical. The walk reaches genesis,
     and `resetState(0)` deletes block 1 and its deposit.

  The spec's walk starts from the latest stored block. On L1 the same
  situation ends in `log.Fatalf`, and the restart re-reads the last block,
  so `L1ResetDeletesOnlyOrphans` holds. The blocks deleted are synced
  again, and `EventuallyConsistent` holds for both networks.

See `findings` in `PROJECT.json`.

**Abstracted or left out.**
- Event decoding: a block holds at most one event, a deposit.
- Hashing.
- The other event kinds.
- `syncTrustedState`.
- `fromBlock > toBlock`: it needs `checkReorg` to find `lastBlockSynced` on
  the chain although the tip read just before is below it. That is a chain
  going back to an abandoned branch, which this model's branches never do.
- `checkReorg`'s several header RPCs are one atomic step.

### `ClaimTxManager` (with `MCClaimTxManager`)

This module models the claim tx manager of one L2 in Mode A (no grouping):
the `Start` select loop, and the `updateDepositsStatus` goroutines, each
running `processDepositStatus` in its own transaction.

**State.**
- `ready`, `monitored` and `claimed` are the committed rows:
  - `ready_for_claim` per deposit;
  - the monitored tx per `deposit_id` and its status;
  - the `sync.claim` rows on this L2.
- `mer` and `rer` count the deposits under the latest mainnet exit root and
  under each rollup's exit root.
- The loop's own state:
  - `chGER` is the GER channel;
  - `l2Synced` is the loop's flag;
  - `gerVar` is the loop variable `ger`, which every goroutine's closure
    shares.
- Each goroutine has:
  - a program counter `gpc`;
  - the GER it read, `gger`;
  - the deposits left in its loop, `todo`;
  - its uncommitted writes: `wReady` (rows it updated and locked) and
    `wMon` (keys it inserted);
  - `wDone`, the deposits it dealt with.
- `txOpen` is the set of open transactions.
- `sger` and `handled` are history variables for the properties.

**Actions.**
- The loop: `ReceiveSynced` and `ReceiveGER`. A GER that arrives before
  `l2Synced` is dropped.
- Each goroutine:
  - `Begin`: `BeginDBTransaction`, then a read of the shared `ger`.
  - `UpdateL2Deposits`: the branch for an L1 GER.
    `UpdateL2DepositsStatus`, then `GetDepositsFromOtherL2ToClaim`.
  - `UpdateL1Deposits`: the branch for a GER of the L2's trusted state.
    `UpdateL1DepositsStatus ... RETURNING`.
  - One action per outcome for a deposit:
    - `SkipDeposit`: a matching claim exists, or the message is not allowed;
    - `IgnoreDeposit`: gas estimation reverted or failed `RetryNumber` times;
    - `AddClaimTx`;
    - `DuplicateClaimTx`: the primary key rejects the insert, and the
      transaction rolls back.
  - `Commit`.
  - `Fail`: any call fails. The transaction rolls back, and the error is
    only logged.
- The environment:
  - new mainnet roots, which arrive as trusted GERs;
  - `VerifyBatch` per rollup, which sends the L1 GER;
  - the other rollup's manager flagging its deposits;
  - the monitor ticker, which takes a tx to mined or failed;
  - claims synced on this L2.

**Postgres at READ COMMITTED.**
- Queries read committed rows plus the transaction's own writes.
- An `UPDATE` waits for rows that another open transaction updated. It
  then sees them as committed, which is what Postgres's re-check of the
  `WHERE` clause gives.
- An `INSERT` waits for a key that another open transaction inserted, and
  fails on a committed one.

**Fairness.**
- Weak fairness on `ReceiveGER`: the loop always receives.
- Weak fairness on each goroutine's steps: Go runs runnable goroutines, and
  Postgres grants a lock once its holder ends.
- The environment and failures are not fair.
- Deadlock is not checked. Once the bounded environment has sent
  everything, the loop idles on its tickers. `GoroutinesTerminate` checks
  that no goroutine waits forever.

**Properties.**
- `ReadyL1DepositsHandled`: an L1 deposit is ready only if the transaction
  that flagged it also dealt with it. `UpdateL1DepositsStatus` never returns
  a ready deposit again.
- `L1DepositHandledOnce` (action property): no two committed transactions
  deal with the same L1 deposit.
- `GoroutinesTerminate` (liveness): every goroutine commits or rolls back.
- `OwnDepositsEventuallyReady`, `NoUnclaimedL2DepositSkipped` and
  `DuplicateKeyNeverAbortsUpdate` state what the spec asks for. The code
  violates each of them; see the runs below.

**Runs.**

| Run | Config | Expect | Shows |
|---|---|---|---|
| `ctm_concurrent_goroutines` | `MCClaimTxManager.cfg` | pass | the three properties above, under concurrent goroutines and one failure; ~63k states |
| `ctm_ger_closure_race` | `MCClaimTxManagerGerRace.cfg` | violation | goroutine 1, started for an L1 GER, reads `ger` after the next (trusted) GER overwrote it. The rollup's own deposit never becomes ready. |
| `ctm_claim_index_only` | `MCClaimTxManagerIndexMatch.cfg` | violation | a claimed L1 deposit with `deposit_cnt` 0 hides the other rollup's deposit with `deposit_cnt` 0 from auto-claim |
| `ctm_duplicate_key_rollback` | `MCClaimTxManagerDupKey.cfg` | violation | the other rollup's deposit, whose claim tx is pending, is selected again. The primary-key error rolls back `UpdateL2DepositsStatus`. |

**Bounds.**
- Three deposits:
  - an L1 deposit to this L2;
  - a deposit from the other rollup with the same `deposit_cnt`;
  - a deposit of this L2 to L1.
- One root change of each kind, so at most three GERs and three goroutines.
- A channel of capacity 2.
- One failure.

These bounds are enough for the following:
- two goroutines of the same kind, or of different kinds, overlap (and so
  wait on each other's locks);
- a failure strikes between the update and the commit;
- a GER overwrites the loop variable before the previous goroutine reads it.

The violation runs set `MaxFailures` to 0, so each counterexample is the
defect alone. `ctm_ger_closure_race` also turns `AreClaimsBetweenL2sEnabled`
off, so the duplicate-key rollback cannot explain its trace.

**Abstracted or left out.**
- Proofs, calldata and `GetLatestTrustedGERByDeposit` (which proof a claim
  carries).
- The nonce cache and the `MonitorTxs` state machine. A tx simply becomes
  mined or failed.
- Mode B (`store_changes.go`, compressed groups).
- The `dest != l2NetworkID` skip. Both queries already filter on the
  destination, so it is dead code.

### `GlobalIndex` (with `MCGlobalIndex`)

This module models the 32-byte global index of a claim.

**Operators.**
- `GenerateGlobalIndex` and `DecodeGlobalIndex` are translated byte by
  byte.
- `big.Int`'s `FillBytes` and `SetBytes` are modelled by what they do:
  big-endian digits, and their value.
- The widths are narrowed:
  - a byte has `Base` (4) values;
  - a uint32 field has `FieldBytes` (2) bytes;
  - the index has `GIBytes` (6) bytes;
  - the flag byte sits right before the two fields, as byte 23 does
    before bytes 24..31.
- `DepositGlobalIndex` is the service's argument choice: mainnet for
  network 0, otherwise rollup index `NetworkID - 1`.
- `ClaimMatches` is `GetClaim`'s `WHERE` clause.
- `RefGlobalIndex` is the reference: the contract's bit layout (flag at
  bit 64, rollup index at bits 32..63 and zero for mainnet, local index at
  bits 0..31).

**State and actions.** A deposit, drawn from networks 0..2 and every
narrowed count, passes through these steps:
- `GetBridge` (the API) or `ClientBuildsIndex` (the e2e client's
  `generateGlobalIndex`, which passes `rollupID - 1` even for a mainnet
  deposit) produces the index.
- `ClaimEvent` (`newClaimEvent`) decodes it.

**Properties.**
- `IndexMatchesLayout`: every index built has the contract's layout.
- `ClaimIdentifiesDeposit`: `GetClaim(deposit_cnt, origin)` matches the
  decoded claim.

**Runs.**

| Run | Config | Expect | Shows |
|---|---|---|---|
| `etherman_codecs` | `MCGlobalIndex.cfg` | pass | layout and claim identity for all 48 deposits, over both producers; every log stream of up to three logs replays exactly (`EventIngest`, below) |

For a mainnet index `GenerateGlobalIndex` writes four zero bytes where
the rollup index goes, so spec invariant 4's round trip
(`DecodeGlobalIndex(GenerateGlobalIndex(m, r, l)) = (m, r, l)`) fails for
a mainnet index with a non-zero rollup index. `GetClaim` never reads the
rollup index of a mainnet claim, and `ClaimIdentifiesDeposit` checks that
claims are still found. This round trip is not a run of its own; the
project keeps its runs for the divergences with consequences.

### `EventIngest` (composed with `GlobalIndex` in `MCGlobalIndex`)

This module models how `GetRollupInfoByBlockRange` turns the logs that
`FilterLogs` returns into blocks and `blocksOrder`, and how
`processBlockRange` walks them.

**Operators.**
- `processEvent` is the switch on the log's first topic. Ten topics go to
  a handler; every other topic, known or not, is ignored.
- Each handler is `AddEvent` with its list (`EventOrder`). The tail the
  handlers share is modelled in full:
  - a new block from `prepareBlock`, unless the last block has the log's
    hash and number;
  - the event appended to its list;
  - `Order{Name, Pos}` appended to `blocksOrder[hash]`.
- A log is its block number, its topic and its position in the stream.
  Decoding the payload is data conversion, so the position stands in for
  the event.
- `Replay` is `processBlockRange`'s loop, block after block over
  `order[hash]`.

**State and actions.** `logs` is the answer read so far and `ingested` is
`readEvents`' `blocks` and `blocksOrder`. `ReadLog` is one iteration of
`readEvents`' loop. It takes a log from the last log's block or a later
one, because `FilterLogs` returns logs in block order. A parse or header
error aborts `readEvents`; that abort is `Synchronizer`'s `Fail` step and
is not repeated here.

**Property.**
- `ReplayMatchesLogs`: the replay gives back exactly the handled events,
  in log order and under their own blocks, and there is one block per
  block number, in increasing order.

  If a handler's same-block test were wrong, events of one block would
  spill into another, or a block would be split. Either way a GER and a
  deposit of one block would reach storage in a different order, or in
  the wrong block's transaction.

**Bounds.**
- Up to three logs from blocks 1..2.
- All ten handled topics and one ignored topic (`SetBatchFee`).

These bounds give a block two events of one kind, events of several kinds,
and dropped logs. The codecs and the ingest share no state, so the
composed run interleaves them: about 1M states in 20 s.

### `MerkleProof` (with `MCMerkleProof`)

This module models the exit trees as the proof service reads them, and the
proof service itself (`server/service.go`).

**Hashing.** `keccak256(l ‖ r)` is replaced by an injective constructor.
The hash of a pair is the pair `<<l, r>>`, and a leaf hash is a one-tuple
`<<v>>`. A key therefore determines its value, which is what the reverse
hash table relies on. The zero chain is `ZeroHash(h)`.

**State** (the storage rows the trees and the synchronizers write):
- `leaves[n]`: network `n`'s deposits;
- `rht`: `mt.rht`, a function from a key to its pair;
- `roots[n]`: the `mt.root` rows, one per deposit;
- `frontier[n]`: the tree's in-memory left siblings;
- `rollupRows`: `mt.rollup_exit` in id order;
- `ler[r]`: the deposit count of rollup `r`'s verified local exit root on L1;
- `gers`: the L1 GER rows;
- `l2Ger`: the latest GER injected on the destination L2.

**Actions.**
- `AddDeposit` (`processDeposit` → `AddDeposit` → `addLeaf`).
- `UpdateGlobalExitRoot` (the L1 branch of `processGlobalExitRoot`).
- `VerifyBatch` (`processVerifyBatch` → `AddRollupExitLeaf`, then the new
  GER). It waits until the rollup's root is stored (`CheckIfRootExists`).
  A rollup may verify before a lower one, and the same root may be
  verified again.
  `CheckIfRootExists` is the operator of the same name in `pgstorage`.
- `InjectGER` (the L2 branch of `processGlobalExitRoot`).

The tree writers `addLeaf`, `addRollupExitLeaf` and `ComputeSiblings` are
not among the sources. They follow spec section 4.1 and are marked
`spec_modelled`:
- `addRollupExitLeaf` fills a gap below the new rollup with zero leaves;
- it skips a root that is already stored (the `IsRollupExitRoot` the store
  interface offers).

**The proof service.** The service's reads are operators evaluated on
every reachable state:
- `getNode`;
- `getProof`: the walk down by `index & (1 << h)`, then the reversal;
- `getRollupExitProof`: the leaves stored under a root, ordered by
  `rollup_id`, with its root-mismatch and "not synced yet" checks;
- `GetLatestExitRoot`;
- `GetClaimProof` and `GetClaimProofbyGER`;
- `GetClaimProofForCompressed`, called from the REST API (it refuses a
  deposit that is not ready) or by the claim manager inside its
  transaction (it does not look).

The properties quantify over every stored deposit and, for the two calls
that name a GER, over every GER a caller may name and both callers.

**Reference definitions.** These model the chain, not this repository:
- `RefRoot`, an independent tree of the leaves padded with zeros;
- `CalculateRoot` and `VerifyMerkleProof`, the contract's check;
- `ContractRollupExitRoot`, the rollup manager's tree, with rollup `r` at
  position `r - 1`.

**Properties.**
- `TypeOK`: among other things, every `mt.rht` key is the hash of its
  value.
- `RootsMatchReference`: spec invariant 1 for the roots.
- `ProofVerifiesUnderGER`: every proof handed out passes the contract's
  check for the deposit asked about, under the GER returned.
- `ProvableOnceReady`: `GetClaimProof` never fails for a deposit that is
  ready for claim. `ready_for_claim` is taken to hold as soon as a GER
  covers the deposit. This mirrors the `deposit_cnt <=` conditions of
  `UpdateL1DepositsStatus` and `UpdateL2DepositsStatus`; the timing of
  those updates is modelled in `ClaimTxManager`.

**Runs.**

| Run | Config | Expect | Shows |
|---|---|---|---|
| `proof_service` | `MCMerkleProof.cfg` | pass | all four properties, with `GetProofByGER` and `GetClaimProofForCompressed` callers naming a GER that covers the deposit (255k states, under 2 minutes) |

The passing run sets `CallerPinsCoveringGER`. With it FALSE, the REST
endpoint may name any stored GER, and TLC finds `ProofVerifiesUnderGER`
violated. `GetClaimProofbyGER` then returns, with no error, the proof of
the empty leaf at the deposit's index. This is a spec divergence that no
run checks now. `GetClaimProofbyGER` only logs a deposit that is not ready for claim (the
`return` is commented out at `service.go:209`). `getProof` never compares
the index with the root's deposit count. Spec section 4.5 says the by-GER
variant is "the same" as `get_claim_proof`, which refuses such a deposit.

**Bounds.** The bounds are:
- two rollups besides mainnet;
- height 2 (four positions, so both index bits are exercised);
- two leaf values;
- two deposits per network;
- three GERs.

These reach:
- rollup 2 verifying before rollup 1 (the zero-filled gap);
- a re-verified root;
- mainnet and rollup deposits that are and are not covered by each GER.

Deadlock checking is off. With no new chain events the synchronizers
only poll.

**Not modelled.**
- Reorgs of the trees (`resetLeaf` and `mt.rht` garbage collection): the
  `mt.rht` schema is not among the sources.
- The `emptyProof` length: it is fixed at 32 in the code and modelled as
  `Height`.

### `BridgeSync` (with `MCBridgeSync`)

This module follows a global exit root (GER) from the chains to the claim
tx manager of one L2. Three goroutines share the database:
- the L1 synchronizer (`synchronizer.go`);
- the L2 synchronizer (`synchronizer.go`);
- the claim manager's `Start` loop (`claimtxman.go`).

The L2 synchronizer publishes GERs on `chExitRootEventL2`, which the claim
manager reads. A GER is identified by the number of L1 deposits its
mainnet root covers, because the rollup exit root is held fixed here. An
L1 block carries one deposit and, when the depositor forced it, a GER
update.

**State.**
- The chains: `l1Chain` and `l2Chain`. `sovereign` is chosen at the start
  and covers both kinds of L2 in one run. Each L2 block carries one GER
  event, an insert or (sovereign only) `RemoveLastGlobalExitRoot`.
  `GerStack` folds the events into the GERs the chain's GER manager
  holds. The chain inserts only GERs above the last one it holds, and
  `RemoveGER` never removes the first GER it inserted (see the hazard
  below).
- Committed storage:
  - `l1Cur` and `l2Cur`: the last stored blocks;
  - `l1Rows`: the network 0 GER rows;
  - `l2Rows`: the L2 GER rows, each with `block_id` (0 for a trusted
    row), whether `exit_roots` is filled, and the `allowed` column. A
    sovereign chain's rows come one per block, so `block_id` orders them
    as their `id` does;
  - `ready`: the deposits flagged `ready_for_claim`.
- The L2 synchronizer: `l2pc` and `l2Open`, its open block transaction or
  the trusted row it is publishing; and `s.synced`.
- The channel `ch`, and the claim manager's `tm.l2Synced`.
- The claim manager's mode, chosen at the start like `sovereign`:
  `grouping` is `cfg.GroupingClaims.Enabled`. In grouping mode the state
  also has the `Start` loop's `ger` (`loopGer`) and `latestProcessedGer`,
  both starting at the zero hash.

**Actions.**
- `L1SyncBlock`: `processBlockRange` stores one L1 block in one
  transaction. For a GER it runs `StoreL1GER`, the L1 branch of
  `processGlobalExitRoot`, which first reads the incomplete L2 rows
  outside the transaction and fills them. The L1 synchronizer publishes
  only when the rollup exit root changes, so it never publishes here;
  `ClaimTxManager` models that path.
- `L2ProcessBlock`, `L2Send` and `L2Commit`: the L2 branch of
  `processGlobalExitRoot` for a sovereign chain. It looks up the L1 row
  outside the transaction and stores the row, with empty exit roots if
  the L1 row is missing. It then sends on the channel, blocking while the
  channel is full, and only after that commits.
- `L2ProcessRemove`: a `RemoveLastGlobalExitRoot` block.
  `processRemoveL2GlobalExitRoot` runs `AddRemoveL2GER` inside the block
  transaction, which then commits:
  - `UpdateGERStatus` disallows every row of the GER. Its `RETURNING id`
    yields one of them, chosen nondeterministically, because `QueryRow`
    scans whichever row comes first.
  - The previous GER is the row with the next lower id, allowed or not.
    When there is none, the block fails and is retried, and the model
    has no step.
  - `GetDepositCountByGER` finds the deposit of a GER through any of its
    rows that has exit roots. A miss counts as deposit id 0 for the
    previous GER, and as `MaxUint64` for the removed one.
  - `UpdateDepositsFlag` clears `ready_for_claim` on the deposits in
    between.
  - The `sync.remove_exit_root` row is never read, and is left out.
- `MarkSynced`: the `chSynced` handshake.
- `TrustedSync` and `TrustedSend`: `syncTrustedState` for a zkEVM rollup.
  The insert is autocommitted with `ON CONFLICT DO NOTHING`, and only a
  new row is published.
- Regular mode:
  - `DropGER`: a GER received before `tm.l2Synced` is dropped;
  - `ProcessGER`: `updateDepositsStatus` with `UpdateL1DepositsStatus`;
  - `PanicGER`: the `ExitRoots[0]` index on an empty slice, which ends
    the process.
- Grouping mode:
  - `ReceiveGrouped`: `ger = <-tm.chExitRootEvent` overwrites the loop's
    `ger`, whether synced or not;
  - `CompressorTick`, or `CompressorPanic` for a GER without exit roots:
    the compressor ticker. Once synced, a `ger` other than
    `latestProcessedGer` gets its `updateDepositsStatus`, and becomes
    `latestProcessedGer`.
- `Crash`: at most `MaxCrashes` crashes. Open transactions roll back, and
  the channel, flags and the loop's GERs are lost (`Restart`).

The storage writes are operators named after the `pgstorage` methods they
model:
- `AddGlobalExitRoot` is an insert into `sync.exit_root`.
- `UpdateL2GER` marks the incomplete L2 rows as filled from L1.
  `GetL2ExitRootsByGER`, which chooses those rows, skips rows that are
  not allowed.
- `TrustedRowIsNew` and `AddTrustedGlobalExitRoot` are the `ON CONFLICT DO
  NOTHING` insert of `AddTrustedGlobalExitRoot`; it reports whether a row
  was inserted.

**Fairness.** The fairness is weak, per goroutine: the L1 synchronizer,
the L2 synchronizer and the claim manager. Each one loops forever
(`Sync` polls every `SyncInterval`, and `Start` selects on the channel
and on the compressor ticker, which fires every
`FrequencyToProcessCompressedClaims`).
The chains and crashes get no fairness.

**Properties.**
- `TypeOK`. This includes the channel bound.
- `AllowedMatchesChain`: on a sovereign chain, the GERs of the allowed
  rows are exactly the GERs left inserted by the L2 blocks stored so far.
  This still holds when a removed GER is inserted again and removed
  again, which leaves two rows of it. The `UPDATE` disallows by GER
  value; disallowing only the returned row breaks the property.
- `ActedGERsPersisted`: the send comes before the commit, so a crash can
  roll back the row of a GER the claim manager already acted on. The
  property says that GER is still eventually stored, because `Sync`
  replays from the last stored block.
- `SyncsReachTip`: both synchronizers eventually store every block, the
  channel drains, and the claim manager passes its synced gate. The
  channel never wedges a synchronizer that holds an open transaction.
- `GroupedGERsEventuallyReady`: in grouping mode, and when nothing
  crashes, every deposit covered by a GER stored from a sovereign L2 block
  with its exit roots eventually becomes ready. The L2 synchronizer
  publishes each GER only once, and may do so before it reports synced.
  Regular mode drops such a GER: the same property stated for regular
  mode fails in the model (hazard `claimtxman.go:112`). A removal clears
  flags on purpose, so the property assumes that no GER is removed. With
  removals it fails in two ways, both listed as hazards:
  - the removal of a GER above a row without exit roots clears every
    deposit (`pgstorage.go:777`);
  - a GER removed and inserted again equals `latestProcessedGer`, so the
    compressor never processes it (`claimtxman.go:128`).

  No property covers a rollup's deposits in the same way. On a rollup,
  `syncTrustedState` can publish a trusted GER before the L1 synchronizer
  has stored the deposit it covers. `UpdateL1DepositsStatus` then flags
  nothing. The trusted row already exists, so the GER is never sent again.
  The same liveness property, stated for trusted rows, fails in the model
  (hazard `claimtxman.go:216`).
- `NoEmptyExitRootsProcessed`: checked alone, and expected to be violated.
- `ReadyOnlyAllowed`: spec section 4.4 and scenario S6. Every ready
  deposit is covered by an allowed row, or by a GER inserted by a block
  the L2 synchronizer has not stored yet. Checked alone, and expected to
  be violated.

**Runs.**

| Run | Config | Expect | Shows |
|---|---|---|---|
| `bridge_ger_flow` | `MCBridgeSync.cfg` | pass | the five passing properties above hold for both kinds of L2 and both claim manager modes, with GER removals, one crash and the panic (569k states, about 90 s) |
| `bridge_remove_ger_race` | `MCBridgeSyncRemove.cfg` | violation | a GER published on the channel before the chain removed it is processed after the removal commits, and flags the removed GER's deposits ready again |
| `bridge_empty_exit_roots_panic` | `MCBridgeSyncPanic.cfg` | violation | a sovereign L2 takes a GER before the bridge's L1 synchronizer stores it; the L2 row is stored and sent with no exit roots, and the synced claim manager panics at `claimtxman.go:215` |

The panic needs no crash and no unusual timing. The L2 synchronizer only
has to poll before the L1 synchronizer does. The comment at
`synchronizer.go:671` assumes the L1 synchronizer is the slower of the
two. The back-fill race reaches the same state:
1. the L1 read at `:672` misses an L2 row that is still uncommitted;
2. the L2 read at `:711` misses the uncommitted L1 row.

`bridge_remove_ger_race` finds this trace:
1. The chain inserts GER 1 and GER 2, then removes GER 2.
2. The L2 synchronizer sends GER 2 on the channel, commits its block, and
   commits the removal. The removal clears nothing, because nothing is
   ready yet.
3. The claim manager takes GER 2 off the channel and runs
   `UpdateL1DepositsStatus`, which does not look at `allowed`. It flags
   deposits 0 and 1, but only GER 1 (deposit 0) is allowed.

The same property also catches the missing `allowed` filter on the
previous GER (`pgstorage.go:767`), even when the claim manager skips
disallowed GERs. TLC, run on a copy of the model patched that way, finds
this trace:
1. The chain inserts GERs 1 and 2, removes 2, inserts 3, and removes 3.
2. The removal of 3 takes the removed GER 2 as its lower bound, and
   clears only deposit 2.
3. Deposit 1 stays ready, but only GER 1 is allowed.

**Bounds.**
- Three L1 blocks: a deposit can fall between two GER updates.
- Five L2 blocks. That allows insert, insert, remove, insert again and
  remove again, which `AllowedMatchesChain`'s duplicate rows need.
- A channel of one slot, so the synchronizer blocks with its transaction
  open.
- One crash.

**Not modelled.**
- The goroutine per GER in the claim manager, and its effect on
  `ready_for_claim` ordering: `ClaimTxManager` models these. Here the
  goroutine runs at once, so its closure's late read of the loop's `ger`
  does not arise.
- What grouping mode does after the ready flags: the compressed-claims
  monitor.
- Rollup exit roots and the L1 publication path.
- The removal of a chain's first GER. `AddRemoveL2GER` finds no previous
  row and the synchronizer retries that block forever
  (`pgstorage.go:769`). That would fail `SyncsReachTip` in the passing
  run, so `RemoveGER` never removes it.
- The wiring of the channels (the `cmd` package is not among the
  sources). One channel per destination is assumed, as spec section 9
  describes.

## Not modelled

- **The removal of a sovereign chain's first GER.** `BridgeSync` models
  `AddRemoveL2GER`, but its chain never removes the first GER it
  inserted. That removal finds no previous row (`pgstorage.go:769`); the
  block fails and `Sync` retries it forever, which would stop the
  passing run's `SyncsReachTip`. It is listed as a hazard.
- **Paging and listing endpoints** (`GetBridges`, `GetClaims`,
  `GetDepositStatus`, `CheckAPI`). They only read rows, and the global
  index they compute is the one `GlobalIndex` checks.
- **`ReviewMonitoredTx` and the monitored-tx state machine.** The monitor
  that calls it is not among the sources.
- **Process wiring.** This covers configuration, the CLI, the
  auto-claim service's `main` and the generated contract bindings.

## Plan (next work, in order)

1. **Liveness under GER removal**: a property saying that deposits
   covered by an allowed GER eventually become ready. It would fail on
   the hazards at `pgstorage.go:777` and `claimtxman.go:128`, and needs a
   run of its own.
2. **`SyncChunkSize` 0 in synced mode**, which also needs a run of its
   own.
