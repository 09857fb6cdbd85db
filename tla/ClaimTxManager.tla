--------------------------- MODULE ClaimTxManager ---------------------------
(***************************************************************************)
(* The claim tx manager of one L2 (claimtxman/claimtxman.go, Mode A):      *)
(* the Start select loop, one updateDepositsStatus goroutine per GER, each *)
(* running processDepositStatus in its own database transaction over the  *)
(* shared ready_for_claim flags and monitored_txs rows.  The synchronizers,*)
(* the other rollup's claim manager, the monitor ticker and users are the  *)
(* environment.                                                            *)
(*                                                                         *)
(* Postgres is modelled at READ COMMITTED: reads see committed rows; an    *)
(* UPDATE waits for rows another open transaction has updated; an INSERT   *)
(* waits for a key another open transaction has inserted and fails on a    *)
(* committed one (deposit_id is the primary key of monitored_txs).         *)
(***************************************************************************)
EXTENDS Naturals, Sequences, FiniteSets, SequencesExt

CONSTANTS
    Deposits,        \* the stored deposits: [id, net, dest, cnt, allowed]
    Ours,            \* tm.l2NetworkID (= its rollup id in the model)
    Other,           \* another rollup whose deposits may target Ours
    AreClaimsBetweenL2sEnabled,
    ChanCap,         \* capacity of the GER channel
    MaxGoroutines,   \* bound on updateDepositsStatus goroutines
    MaxFailures,     \* bound on failed RPC/DB calls inside a goroutine
    NoGER            \* the zero GlobalExitRoot the loop variable starts as

Rollups == {Ours, Other}
Gs == 1..MaxGoroutines

VARIABLES
    \* storage (committed rows)
    ready,       \* deposit id -> ready_for_claim
    monitored,   \* deposit id -> status of its monitored tx, or "none"
    claimed,     \* deposits with a sync.claim row on Ours
    \* roots reached by the synchronizers
    mer,         \* number of L1 deposits under the latest mainnet exit root
    rer,         \* rollup -> number of its deposits under the rollup exit root
    \* the Start loop
    chGER,       \* the GER channel
    l2Synced,
    gerVar,      \* the loop variable ger, shared with every goroutine
    sger,        \* history: the GER received when goroutine g was started
    \* the goroutines
    gpc, gger, todo, wReady, wMon, wDone,
    txOpen,      \* goroutines whose database transaction is open
    failures,
    handled      \* history: deposits a committed transaction dealt with

storeVars == <<ready, monitored, claimed>>
envVars == <<mer, rer>>
loopVars == <<chGER, l2Synced, gerVar, sger>>
goVars == <<gpc, gger, todo, wReady, wMon, wDone, txOpen, failures>>
vars == <<storeVars, envVars, loopVars, goVars, handled>>

DepIds == {d.id : d \in Deposits}
Dep(i) == CHOOSE d \in Deposits : d.id = i
L1ToOurs == {d \in Deposits : d.net = 0 /\ d.dest = Ours}
OtherToOurs == {d \in Deposits : d.net = Other /\ d.dest = Ours}
OwnDeposits == {d \in Deposits : d.net = Ours}
CountOf(net) == Cardinality({d \in Deposits : d.net = net})

GER == [kind : {"l1", "l2"}, mer : Nat, rer : [Rollups -> Nat]]
GoPc == {"idle", "start", "update", "loop", "done"}
\* Rows updated, and keys inserted, by open transactions other than g.
LockedBy(g) == UNION {wReady[h] : h \in txOpen \ {g}}
InsertedBy(g) == UNION {wMon[h] : h \in txOpen \ {g}}
FreeSlot == CHOOSE g \in Gs : gpc[g] = "idle"
ById(S) == SetToSortSeq(S, LAMBDA x, y : x.id < y.id)
ByIdDesc(S) == SetToSortSeq(S, LAMBDA x, y : x.id > y.id)

Init ==
    /\ ready = [i \in DepIds |-> FALSE]
    /\ monitored = [i \in DepIds |-> "none"]
    /\ claimed = {}
    /\ mer = 0
    /\ rer = [r \in Rollups |-> 0]
    /\ chGER = <<>>
    /\ l2Synced = FALSE
    /\ gerVar = NoGER
    /\ sger = [g \in Gs |-> NoGER]
    /\ gpc = [g \in Gs |-> "idle"]
    /\ gger = [g \in Gs |-> NoGER]
    /\ todo = [g \in Gs |-> <<>>]
    /\ wReady = [g \in Gs |-> {}]
    /\ wMon = [g \in Gs |-> {}]
    /\ wDone = [g \in Gs |-> {}]
    /\ txOpen = {}
    /\ failures = 0
    /\ handled = {}

-----------------------------------------------------------------------------
(* The Start select loop.                                                  *)

\* case netID := <-tm.chSynced
ReceiveSynced ==
    /\ ~l2Synced
    /\ l2Synced' = TRUE
    /\ UNCHANGED <<storeVars, envVars, chGER, gerVar, sger, goVars, handled>>

\* Mutant: the received GER is not stored in the loop variable.
ReceiveGERNoAssign ==
    /\ chGER # <<>>
    /\ chGER' = Tail(chGER)
    /\ IF l2Synced
         THEN /\ \E g \in Gs : gpc[g] = "idle"
              /\ gpc' = [gpc EXCEPT ![FreeSlot] = "start"]
              /\ sger' = [sger EXCEPT ![FreeSlot] = Head(chGER)]
         ELSE UNCHANGED <<gpc, sger>>
    /\ UNCHANGED <<storeVars, envVars, l2Synced, gerVar, gger, todo, wReady,
                   wMon, wDone, txOpen, failures, handled>>

\* case ger = <-tm.chExitRootEvent: the loop variable is overwritten; when
\* synced, a goroutine is started whose closure reads that variable later.
ReceiveGER ==
    /\ chGER # <<>>
    /\ gerVar' = Head(chGER)
    /\ chGER' = Tail(chGER)
    /\ IF l2Synced
         THEN /\ \E g \in Gs : gpc[g] = "idle"
              /\ gpc' = [gpc EXCEPT ![FreeSlot] = "start"]
              /\ sger' = [sger EXCEPT ![FreeSlot] = Head(chGER)]
         ELSE UNCHANGED <<gpc, sger>>
    /\ UNCHANGED <<storeVars, envVars, l2Synced, gger, todo, wReady, wMon,
                   wDone, txOpen, failures, handled>>

-----------------------------------------------------------------------------
(* One updateDepositsStatus goroutine g.                                   *)

\* The goroutine begins its transaction and reads the loop variable ger,
\* which the loop may have overwritten since the goroutine was started.
Begin(g) ==
    /\ gpc[g] = "start"
    /\ gger' = [gger EXCEPT ![g] = gerVar]
    /\ gpc' = [gpc EXCEPT ![g] = "update"]
    /\ txOpen' = txOpen \cup {g}
    /\ UNCHANGED <<storeVars, envVars, loopVars, todo, wReady, wMon, wDone,
                   failures, handled>>

\* The goroutine returns; its transaction, committed or rolled back, ends
\* and with it the goroutine's view of the rows.
EndTx(g) ==
    /\ gpc' = [gpc EXCEPT ![g] = "done"]
    /\ gger' = [gger EXCEPT ![g] = NoGER]
    /\ todo' = [todo EXCEPT ![g] = <<>>]
    /\ wReady' = [wReady EXCEPT ![g] = {}]
    /\ wMon' = [wMon EXCEPT ![g] = {}]
    /\ wDone' = [wDone EXCEPT ![g] = {}]
    /\ txOpen' = txOpen \ {g}

ReadyIn(g, i) == ready[i] \/ i \in wReady[g]

\* UpdateL2DepositsStatus: the rollup's own deposits under the rollup exit
\* root become ready.
OwnCovered(g) ==
    {d \in OwnDeposits : ~ready[d.id] /\ d.cnt < gger[g].rer[Ours]}

\* GetDepositsFromOtherL2ToClaim: ready deposits of other rollups to Ours
\* whose deposit_cnt is not the index of a claim on Ours, newest first.
OtherL2ToClaim(g) ==
    {d \in Deposits : /\ d.net # 0 /\ d.dest = Ours /\ ReadyIn(g, d.id)
                      /\ d.cnt \notin {c.cnt : c \in claimed}}

\* Mutant: the UPDATE also returns deposits that are ready already.
L1CoveredNoReadyFilter(g) ==
    {d \in L1ToOurs : d.cnt < gger[g].mer}

\* UpdateL1DepositsStatus ... RETURNING: L1 deposits to Ours under the
\* mainnet exit root that were not ready yet.
L1Covered(g) ==
    {d \in L1ToOurs : ~ready[d.id] /\ d.cnt < gger[g].mer}

\* processDepositStatus, the branch for an L1 GER (BlockID # 0, NetworkID
\* 0).  The UPDATE waits for rows other open transactions have updated.
UpdateL2Deposits(g) ==
    /\ gpc[g] = "update"
    /\ gger[g].kind = "l1"
    /\ {d.id : d \in OwnCovered(g)} \cap LockedBy(g) = {}
    /\ wReady' = [wReady EXCEPT ![g] = {d.id : d \in OwnCovered(g)}]
    /\ todo' = [todo EXCEPT ![g] =
                  IF AreClaimsBetweenL2sEnabled
                    THEN ByIdDesc(OtherL2ToClaim(g)) ELSE <<>>]
    /\ gpc' = [gpc EXCEPT ![g] = "loop"]
    /\ UNCHANGED <<storeVars, envVars, loopVars, txOpen, gger, wMon, wDone,
                   failures, handled>>

\* Mutant: UpdateL1DepositsStatus runs outside the transaction (nil dbTx).
UpdateL1DepositsAutocommit(g) ==
    /\ gpc[g] = "update"
    /\ gger[g].kind = "l2"
    /\ {d.id : d \in L1Covered(g)} \cap LockedBy(g) = {}
    /\ ready' = [i \in DepIds |-> ready[i] \/ i \in {d.id : d \in L1Covered(g)}]
    /\ todo' = [todo EXCEPT ![g] = ById(L1Covered(g))]
    /\ gpc' = [gpc EXCEPT ![g] = "loop"]
    /\ UNCHANGED <<monitored, claimed, envVars, loopVars, txOpen, gger,
                   wReady, wMon, wDone, failures, handled>>

\* processDepositStatus, the branch for a GER of the L2's trusted state.
UpdateL1Deposits(g) ==
    /\ gpc[g] = "update"
    /\ gger[g].kind = "l2"
    /\ {d.id : d \in L1Covered(g)} \cap LockedBy(g) = {}
    /\ wReady' = [wReady EXCEPT ![g] = {d.id : d \in L1Covered(g)}]
    /\ todo' = [todo EXCEPT ![g] = ById(L1Covered(g))]
    /\ gpc' = [gpc EXCEPT ![g] = "loop"]
    /\ UNCHANGED <<storeVars, envVars, loopVars, txOpen, gger, wMon, wDone,
                   failures, handled>>

\* GetDepositStatus (a GetClaim matching index, origin and destination,
\* outside the transaction) found a claim, or the message is not allowed.
SkipDeposit(g) ==
    /\ gpc[g] = "loop"
    /\ todo[g] # <<>>
    /\ LET d == Head(todo[g]) IN
         /\ d \in claimed \/ ~d.allowed
         /\ wDone' = [wDone EXCEPT ![g] = @ \cup {d.id}]
    /\ todo' = [todo EXCEPT ![g] = Tail(@)]
    /\ UNCHANGED <<storeVars, envVars, loopVars, txOpen, gpc, gger, wReady,
                   wMon, failures, handled>>

\* addClaimTx: EstimateGas reverted, or failed RetryNumber times; the
\* deposit is ignored and addClaimTx returns nil.
IgnoreDeposit(g) ==
    /\ gpc[g] = "loop"
    /\ todo[g] # <<>>
    /\ LET d == Head(todo[g]) IN
         /\ d \notin claimed /\ d.allowed
         /\ wDone' = [wDone EXCEPT ![g] = @ \cup {d.id}]
    /\ todo' = [todo EXCEPT ![g] = Tail(@)]
    /\ UNCHANGED <<storeVars, envVars, loopVars, txOpen, gpc, gger, wReady,
                   wMon, failures, handled>>

\* addClaimTx: gas estimated, nonce taken, AddClaimTx inserts the monitored
\* tx; the INSERT waits while another open transaction holds the key.
AddClaimTx(g) ==
    /\ gpc[g] = "loop"
    /\ todo[g] # <<>>
    /\ LET d == Head(todo[g]) IN
         /\ d \notin claimed /\ d.allowed
         /\ monitored[d.id] = "none"
         /\ d.id \notin InsertedBy(g)
         /\ wMon' = [wMon EXCEPT ![g] = @ \cup {d.id}]
         /\ wDone' = [wDone EXCEPT ![g] = @ \cup {d.id}]
    /\ todo' = [todo EXCEPT ![g] = Tail(@)]
    /\ UNCHANGED <<storeVars, envVars, loopVars, txOpen, gpc, gger, wReady,
                   failures, handled>>

\* AddClaimTx hits the primary key of a committed monitored tx: the error
\* is returned and updateDepositsStatus rolls the whole transaction back.
DuplicateClaimTx(g) ==
    /\ gpc[g] = "loop"
    /\ todo[g] # <<>>
    /\ LET d == Head(todo[g]) IN
         /\ d \notin claimed /\ d.allowed
         /\ monitored[d.id] # "none"
    /\ EndTx(g)
    /\ UNCHANGED <<storeVars, envVars, loopVars, failures, handled>>

\* The loop is over: updateDepositsStatus commits.
Commit(g) ==
    /\ gpc[g] = "loop"
    /\ todo[g] = <<>>
    /\ ready' = [i \in DepIds |-> ready[i] \/ i \in wReady[g]]
    /\ monitored' = [i \in DepIds |->
                       IF i \in wMon[g] THEN "created" ELSE monitored[i]]
    /\ handled' = handled \cup wDone[g]
    /\ EndTx(g)
    /\ UNCHANGED <<claimed, envVars, loopVars, failures>>

\* Mutant: the error is returned without rolling the transaction back;
\* the connection keeps it open with its row locks.
FailNoRollback(g) ==
    /\ gpc[g] \in {"start", "update", "loop"}
    /\ failures < MaxFailures
    /\ failures' = failures + 1
    /\ gpc' = [gpc EXCEPT ![g] = "done"]
    /\ UNCHANGED <<storeVars, envVars, loopVars, gger, todo, wReady, wMon,
                   wDone, txOpen, handled>>

\* BeginDBTransaction, an update, GetClaim, GetClaimProofForCompressed,
\* BuildSendClaim, GetNextNonce or Commit fails: the transaction is rolled
\* back and the error only logged.
Fail(g) ==
    /\ gpc[g] \in {"start", "update", "loop"}
    /\ failures < MaxFailures
    /\ failures' = failures + 1
    /\ EndTx(g)
    /\ UNCHANGED <<storeVars, envVars, loopVars, handled>>

-----------------------------------------------------------------------------
(* The environment.                                                        *)

\* The L1 synchronizer stores a GER with a new mainnet exit root; it is
\* injected on Ours and the L2 synchronizer sends it (NetworkID = Ours).
NewMainnetRoot ==
    /\ mer < CountOf(0)
    /\ Len(chGER) < ChanCap
    /\ mer' = mer + 1
    /\ chGER' = Append(chGER, [kind |-> "l2", mer |-> mer + 1, rer |-> rer])
    /\ UNCHANGED <<storeVars, rer, l2Synced, gerVar, sger, goVars, handled>>

\* A VerifyBatches of rollup r changes the rollup exit root; the L1
\* synchronizer sends the latest GER (BlockID # 0, NetworkID 0).
VerifyBatch(r) ==
    /\ rer[r] < CountOf(r)
    /\ Len(chGER) < ChanCap
    /\ rer' = [rer EXCEPT ![r] = @ + 1]
    /\ chGER' = Append(chGER, [kind |-> "l1", mer |-> mer, rer |-> rer'])
    /\ UNCHANGED <<storeVars, mer, l2Synced, gerVar, sger, goVars, handled>>

\* The claim manager of Other marks Other's deposits under the rollup exit
\* root ready (its own UpdateL2DepositsStatus).
OtherManagerReady ==
    /\ \E d \in Deposits : d.net = Other /\ ~ready[d.id] /\ d.cnt < rer[Other]
    /\ ready' = [i \in DepIds |->
                   ready[i] \/ (Dep(i).net = Other /\ Dep(i).cnt < rer[Other])]
    /\ UNCHANGED <<monitored, claimed, envVars, loopVars, goVars, handled>>

\* The monitor ticker gets a created claim tx mined, or gives up on it.
MonitorTx(i) ==
    /\ monitored[i] = "created"
    /\ \E s \in {"mined", "failed"} : monitored' = [monitored EXCEPT ![i] = s]
    /\ UNCHANGED <<ready, claimed, envVars, loopVars, goVars, handled>>

\* The L2 synchronizer stores a claim of a ready deposit on Ours: the
\* manager's mined tx, or a claim the user sent.
ClaimSynced(d) ==
    /\ d.dest = Ours
    /\ ready[d.id]
    /\ d \notin claimed
    /\ claimed' = claimed \cup {d}
    /\ UNCHANGED <<ready, monitored, envVars, loopVars, goVars, handled>>

-----------------------------------------------------------------------------

GoStep(g) ==
    \/ Begin(g) \/ UpdateL2Deposits(g) \/ UpdateL1Deposits(g)
    \/ SkipDeposit(g) \/ IgnoreDeposit(g) \/ AddClaimTx(g)
    \/ DuplicateClaimTx(g) \/ Commit(g)

Environment ==
    \/ NewMainnetRoot \/ (\E r \in Rollups : VerifyBatch(r))
    \/ OtherManagerReady
    \/ (\E i \in DepIds : MonitorTx(i))
    \/ (\E d \in Deposits : ClaimSynced(d))

Next ==
    \/ ReceiveSynced \/ ReceiveGER
    \/ \E g \in Gs : GoStep(g) \/ Fail(g)
    \/ Environment

\* The select loop always receives from a non-empty channel; the Go
\* scheduler runs every runnable goroutine, and Postgres grants a row or key
\* once its holder has ended.
Spec ==
    /\ Init /\ [][Next]_vars
    /\ WF_vars(ReceiveGER)
    /\ \A g \in Gs : WF_vars(GoStep(g))

-----------------------------------------------------------------------------
(* Properties                                                              *)

TypeOK ==
    /\ ready \in [DepIds -> BOOLEAN]
    /\ monitored \in [DepIds -> {"none", "created", "mined", "failed"}]
    /\ claimed \subseteq Deposits
    /\ chGER \in Seq(GER) /\ Len(chGER) <= ChanCap
    /\ gerVar \in GER \cup {NoGER}
    /\ gpc \in [Gs -> GoPc]
    /\ gger \in [Gs -> GER \cup {NoGER}]
    /\ \A g \in Gs : gpc[g] \in {"update", "loop"} => gger[g] \in GER
    /\ wReady \in [Gs -> SUBSET DepIds]
    /\ wMon \in [Gs -> SUBSET DepIds]
    /\ handled \subseteq DepIds

\* Atomicity of updateDepositsStatus: an L1 deposit to Ours is ready only
\* if the transaction that flagged it also dealt with it (claim tx added,
\* skipped as claimed or not allowed, or ignored by gas estimation).  A
\* flag committed apart from that work would leave the deposit unclaimed,
\* since UpdateL1DepositsStatus never returns a ready deposit again.
ReadyL1DepositsHandled ==
    \A d \in L1ToOurs : ready[d.id] => d.id \in handled

\* Concurrent goroutines never both deal with the same L1 deposit: the
\* ready_for_claim = false filter and the row locks of the UPDATE hand each
\* deposit to exactly one committed transaction.
L1DepositHandledOnce ==
    [][\A g \in Gs :
         Commit(g) => wDone[g] \cap {d.id : d \in L1ToOurs} \cap handled = {}]_vars

\* Every updateDepositsStatus goroutine ends, committed or rolled back:
\* no transaction waits forever on rows or keys of another.
GoroutinesTerminate ==
    \A g \in Gs : gpc[g] = "start" ~> gpc[g] = "done"

\* Every own deposit under the rollup exit root of an L1 GER that reached
\* the manager once synced eventually becomes ready for claim.
OwnDepositsEventuallyReady ==
    \A d \in OwnDeposits :
        (\E g \in Gs : sger[g] # NoGER /\ sger[g].kind = "l1"
                       /\ d.cnt < sger[g].rer[Ours])
          ~> ready[d.id]

\* GetDepositsFromOtherL2ToClaim returns every ready deposit of another
\* rollup to Ours that has no matching claim on Ours (spec: a deposit is
\* left alone only once its matching claim exists).
NoUnclaimedL2DepositSkipped ==
    [][\A g \in Gs :
         UpdateL2Deposits(g) /\ AreClaimsBetweenL2sEnabled =>
           \A d \in OtherToOurs :
             ready[d.id] /\ d \notin claimed => d \in Range(todo'[g])]_vars

\* A transaction that flags the rollup's own deposits ready is never rolled
\* back because AddClaimTx meets the primary key of a monitored tx.
DuplicateKeyNeverAbortsUpdate ==
    [][\A g \in Gs : DuplicateClaimTx(g) => wReady[g] = {}]_vars

====
