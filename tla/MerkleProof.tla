---------------------------- MODULE MerkleProof ----------------------------
(***************************************************************************)
(* The Merkle exit trees and the proof service that reads them.            *)
(*                                                                         *)
(* Every network has an append-only exit tree of height Height whose       *)
(* interior nodes are kept in a reverse hash table (mt.rht: key = hash of  *)
(* the pair, value = the pair) and whose root after each deposit is a row  *)
(* of mt.root.  The rollups-exit tree has one leaf per rollup (its latest  *)
(* verified local exit root), kept as rows of mt.rollup_exit.  The proof   *)
(* service (server/service.go) walks the node table from a root down to a  *)
(* leaf (getProof) and recomputes the rollups-exit siblings from the       *)
(* stored leaves (getRollupExitProof), for the GER it takes from storage.  *)
(*                                                                         *)
(* keccak256(l || r) is abstracted by an injective constructor: the hash  *)
(* of a pair is the pair <<l, r>> and a leaf hash is a one-tuple <<v>>, so *)
(* distinct pairs never collide, as the service assumes of keccak, and a  *)
(* key determines its value; the zero chain is ZeroHash(h).  The writer    *)
(* side of the trees (MerkleTree.addLeaf, addRollupExitLeaf,               *)
(* ComputeSiblings) is not part of the sources and follows spec section    *)
(* 4.1.  The LRU cache in getNode is content-addressed, so a hit returns   *)
(* what the table holds; it is abstracted away.                            *)
(***************************************************************************)
EXTENDS Naturals, Sequences, FiniteSets, SequencesExt

CONSTANTS
    Height,         \* height of every tree (32 in the deployment)
    Rollups,        \* rollup network ids 1..R; network 0 is mainnet
    Values,         \* leaf hashes a deposit can have (never 0, the zero leaf)
    MaxLeaves,      \* bound on the deposits of one network
    MaxGers,        \* bound on the number of L1 global exit roots
    CallerPinsCoveringGER  \* REST callers of GetProofByGER name a GER that covers the deposit

ZeroLeaf == <<0>>

LeafOf(v) == <<v>>

RollupCount == Cardinality(Rollups)

ASSUME /\ Values \subseteq Nat \ {0}
       /\ Height >= 1 /\ Rollups = 1..RollupCount

Nets == {0} \cup Rollups

VARIABLES
    leaves,     \* leaves[n]: the leaf hashes of network n's deposits, by deposit_cnt
    frontier,   \* frontier[n][h]: the tree's last left node at level h (MerkleTree.siblings)
    rht,        \* mt.rht as a function from a key to the pair it is the hash of
    roots,      \* roots[n][k]: the mt.root row written by deposit k-1 of network n
    rollupRows, \* the rows of mt.rollup_exit, in insertion (id) order
    ler,        \* ler[r]: deposits of rollup r covered by its verified local exit root (on L1)
    gers,       \* the L1 global exit roots stored in sync.exit_root, in id order
    l2Ger       \* index in gers of the latest GER injected on the destination L2 (0: none)

vars == <<leaves, frontier, rht, roots, rollupRows, ler, gers, l2Ger>>

Hash(l, r) == <<l, r>>

RECURSIVE NodeAt(_)
NodeAt(h) == IF h = 0 THEN {LeafOf(v) : v \in Values \cup {0}} ELSE NodeAt(h - 1) \X NodeAt(h - 1)

Interior == UNION {NodeAt(h) : h \in 1..Height}

(* The zero chain Z[h] of spec section 4.1. *)
RECURSIVE ZeroHash(_)
ZeroHash(h) == IF h = 0 THEN ZeroLeaf ELSE Hash(ZeroHash(h - 1), ZeroHash(h - 1))

(* index & (1 << h) > 0 *)
Bit(index, h) == (index \div 2^h) % 2 = 1

-----------------------------------------------------------------------------
(* Reference definitions: the tree of a leaf sequence padded with zero      *)
(* leaves, and the bottom-up recomputation a claim performs on chain.      *)

RECURSIVE Subtree(_, _, _)
Subtree(s, h, p) ==
    IF h = 0 THEN (IF p < Len(s) THEN s[p + 1] ELSE ZeroLeaf)
    ELSE Hash(Subtree(s, h - 1, 2 * p), Subtree(s, h - 1, 2 * p + 1))

RefRoot(s) == Subtree(s, Height, 0)

RECURSIVE CalculateRoot(_, _, _, _)
CalculateRoot(cur, sibs, index, h) ==
    IF h = Len(sibs) THEN cur
    ELSE CalculateRoot(IF Bit(index, h) THEN Hash(sibs[h + 1], cur) ELSE Hash(cur, sibs[h + 1]),
                       sibs, index, h + 1)

VerifyMerkleProof(leaf, sibs, index, root) ==
    Len(sibs) = Height /\ CalculateRoot(leaf, sibs, index, 0) = root

-----------------------------------------------------------------------------
(* Tree writers (MerkleTree, outside the sources; spec section 4.1).       *)

(* add_leaf: climb from the new leaf, taking the left sibling from the     *)
(* frontier where the index bit is 1 and the zero chain where it is 0,     *)
(* recording every new pair for the bulk insert into mt.rht.               *)
(* Mutant: the bulk-insert row stores the pair with its halves swapped.    *)
RECURSIVE SpineSwappedRow(_, _, _, _, _)
SpineSwappedRow(f, cur, i, h, nodes) ==
    IF h = Height THEN [root |-> cur, frontier |-> f, nodes |-> nodes]
    ELSE IF Bit(i, h)
         THEN SpineSwappedRow(f, Hash(f[h], cur), i, h + 1,
                    nodes @@ (Hash(f[h], cur) :> <<cur, f[h]>>))
         ELSE SpineSwappedRow([f EXCEPT ![h] = cur], Hash(cur, ZeroHash(h)), i, h + 1,
                    nodes @@ (Hash(cur, ZeroHash(h)) :> <<ZeroHash(h), cur>>))

RECURSIVE Spine(_, _, _, _, _)
Spine(f, cur, i, h, nodes) ==
    IF h = Height THEN [root |-> cur, frontier |-> f, nodes |-> nodes]
    ELSE IF Bit(i, h)
         THEN Spine(f, Hash(f[h], cur), i, h + 1,
                    nodes @@ (Hash(f[h], cur) :> <<f[h], cur>>))
         ELSE Spine([f EXCEPT ![h] = cur], Hash(cur, ZeroHash(h)), i, h + 1,
                    nodes @@ (Hash(cur, ZeroHash(h)) :> <<cur, ZeroHash(h)>>))

NoNodes == [k \in {} |-> <<>>]

(* Mutant: the leaf is placed at the count after the increment.           *)
addLeafCountAfter(n, leaf) == Spine(frontier[n], leaf, Len(leaves[n]) + 1, 0, NoNodes)

addLeaf(n, leaf) == Spine(frontier[n], leaf, Len(leaves[n]), 0, NoNodes)

(* compute_siblings: the siblings of position index and the root of the   *)
(* tree of the given ordered leaves, with the same zero-chain padding.     *)
Sibling(p) == IF p % 2 = 0 THEN p + 1 ELSE p - 1

ComputeSiblings(index, ls) ==
    [sibs |-> [h \in 1..Height |-> Subtree(ls, h - 1, Sibling(index \div 2^(h - 1)))],
     root |-> RefRoot(ls)]

(* GetLatestRollupExitLeaves: the row of highest id of every rollup,      *)
(* ordered by rollup_id.                                                   *)
GetLatestRollupExitLeaves ==
    LET latest == {rollupRows[i] : i \in {j \in DOMAIN rollupRows :
                     \A k \in DOMAIN rollupRows :
                        k > j => rollupRows[k].rollupId # rollupRows[j].rollupId}}
    IN SetToSortSeq(latest, LAMBDA a, b : a.rollupId < b.rollupId)

(* GetRollupExitLeavesByRoot: the rows stored under root, by rollup_id.    *)
GetRollupExitLeavesByRoot(root) ==
    SetToSortSeq({rollupRows[i] : i \in {j \in DOMAIN rollupRows : rollupRows[j].root = root}},
                 LAMBDA a, b : a.rollupId < b.rollupId)

LeafSeq(rows) == [i \in DOMAIN rows |-> rows[i].leaf]

(* add_rollup_exit_leaf: the latest leaf of every rollup with this one     *)
(* put in its place (the gap up to it filled with zero leaves), stored     *)
(* as a full set of rows under the new root unless that root is stored.    *)
RollupLeavesWith(r, leaf) ==
    LET cur == LeafSeq(GetLatestRollupExitLeaves)
    IN IF r <= Len(cur) THEN [cur EXCEPT ![r] = leaf]
       ELSE cur \o [i \in 1..(r - 1 - Len(cur)) |-> ZeroLeaf] \o <<leaf>>

addRollupExitLeaf(r, leaf) ==
    LET ls == RollupLeavesWith(r, leaf)
        root == ComputeSiblings(0, ls).root
    IN IF \E i \in DOMAIN rollupRows : rollupRows[i].root = root
       THEN rollupRows
       ELSE rollupRows \o [i \in DOMAIN ls |-> [leaf |-> ls[i], rollupId |-> i, root |-> root]]

-----------------------------------------------------------------------------
(* The chain side: what the L1 contracts hold when an exit root changes.   *)

MainnetRoot == IF leaves[0] = <<>> THEN ZeroHash(Height) ELSE Last(roots[0])

(* The rollup manager's rollups-exit root: rollup r's last verified local  *)
(* exit root at position r-1, zero where a rollup has verified nothing.    *)
ContractRollupExitRoot(l) ==
    RefRoot([r \in 1..RollupCount |-> IF l[r] = 0 THEN ZeroLeaf ELSE roots[r][l[r]]])

(* A GER row: the two exit roots, and (as history) how many deposits of    *)
(* each network they commit to.                                             *)
NewGer(l) == [mer |-> MainnetRoot, rer |-> ContractRollupExitRoot(l),
              merCnt |-> Len(leaves[0]), lerCnt |-> l]

Covers(g, n, c) == IF n = 0 THEN c < gers[g].merCnt ELSE c < gers[g].lerCnt[n]

(* ready_for_claim: a mainnet deposit once a GER injected on its          *)
(* destination covers it, a rollup deposit once an L1 GER covers it.       *)
Ready(n, c) ==
    IF n = 0 THEN l2Ger > 0 /\ Covers(l2Ger, 0, c)
    ELSE \E g \in DOMAIN gers : Covers(g, n, c)

-----------------------------------------------------------------------------
(* The proof service (server/service.go).                                  *)

(* getProof: from the root down, at level h fetch the node's children      *)
(* (getNode), keep the one on index's side and record the other; the      *)
(* siblings are then reversed to run from the leaves up.                    *)
(* getNode: the children of a parent hash, from mt.rht (ErrStorageNotFound *)
(* when the key is missing).                                                *)
getNode(parentHash) ==
    IF parentHash \in DOMAIN rht
    THEN [ok |-> TRUE, left |-> rht[parentHash][1], right |-> rht[parentHash][2]]
    ELSE [ok |-> FALSE, left |-> ZeroLeaf, right |-> ZeroLeaf]

RECURSIVE Walk(_, _, _, _)
Walk(index, cur, h, sibs) ==
    IF h < 0 THEN [ok |-> TRUE, sibs |-> sibs]
    ELSE LET node == getNode(cur)
         IN IF ~node.ok THEN [ok |-> FALSE, sibs |-> <<>>]
            ELSE IF Bit(index, h) THEN Walk(index, node.right, h - 1, Append(sibs, node.left))
            ELSE Walk(index, node.left, h - 1, Append(sibs, node.right))

(* Mutant: the siblings are returned root first, never reversed.          *)
getProofUnreversed(index, root) == Walk(index, root, Height - 1, <<>>)

getProof(index, root) ==
    LET w == Walk(index, root, Height - 1, <<>>)
    IN [w EXCEPT !.sibs = Reverse(w.sibs)]

(* getRollupExitProof: the siblings of rollupIndex computed from the       *)
(* leaves stored under root, rejected when they do not rebuild root or     *)
(* when the rollup has no leaf yet.                                         *)
getRollupExitProof(rollupIndex, root) ==
    LET ls == LeafSeq(GetRollupExitLeavesByRoot(root))
        cs == ComputeSiblings(rollupIndex, ls)
    IN IF root # cs.root \/ ls = <<>> THEN [ok |-> FALSE, sibs |-> <<>>, leaf |-> ZeroLeaf]
       ELSE IF Len(ls) <= rollupIndex THEN [ok |-> FALSE, sibs |-> cs.sibs, leaf |-> ZeroLeaf]
       ELSE [ok |-> TRUE, sibs |-> cs.sibs, leaf |-> ls[rollupIndex + 1]]

EmptyProof == [h \in 1..Height |-> ZeroLeaf]

(* The common tail of GetClaimProof and GetClaimProofbyGER: a mainnet      *)
(* deposit is proved against the mainnet exit root, a rollup deposit       *)
(* against its local exit root taken from the rollups-exit tree.          *)
ClaimProofs(n, c, ger) ==
    IF n = 0
    THEN LET p == getProof(c, ger.mer)
         IN [ok |-> p.ok, proof |-> p.sibs, rproof |-> EmptyProof]
    ELSE LET rp == getRollupExitProof(n - 1, ger.rer)
             p == getProof(c, rp.leaf)
         IN IF ~rp.ok THEN [ok |-> FALSE, proof |-> <<>>, rproof |-> <<>>]
            ELSE [ok |-> p.ok, proof |-> p.sibs, rproof |-> rp.sibs]

Failed == [ok |-> FALSE, proof |-> <<>>, rproof |-> <<>>]

(* Mutant: the L1 exit root query sorts by id ascending.                  *)
GetLatestExitRootOldest(n) == IF n = 0 THEN l2Ger ELSE 1

(* GetLatestExitRoot: the latest trusted GER of the destination L2 for a  *)
(* mainnet deposit, the latest L1 GER otherwise.                           *)
GetLatestExitRoot(n) == IF n = 0 THEN l2Ger ELSE Len(gers)

(* GetClaimProof (REST GetProof) on a stored deposit: refuse it when it is *)
(* not ready for claim, otherwise prove it against the latest exit root.  *)
GetClaimProof(n, c) ==
    IF ~Ready(n, c) THEN Failed @@ [gi |-> 0]
    ELSE LET g == GetLatestExitRoot(n) IN ClaimProofs(n, c, gers[g]) @@ [gi |-> g]

(* GetClaimProofbyGER (REST GetProofByGER) on a stored deposit and a GER   *)
(* the caller names: a deposit that is not ready for claim is only logged. *)
GetClaimProofbyGER(n, c, g) == ClaimProofs(n, c, gers[g]) @@ [gi |-> g]

(* GetClaimProofForCompressed, the claim compressor's proof for a named    *)
(* GER: called from the REST API (no transaction) it refuses a deposit     *)
(* that is not ready for claim; called by the claim manager inside its     *)
(* transaction it does not look.                                           *)
GetClaimProofForCompressed(g, n, c, fromAPI) ==
    IF fromAPI /\ ~Ready(n, c) THEN Failed @@ [gi |-> 0]
    ELSE ClaimProofs(n, c, gers[g]) @@ [gi |-> g]

(* The requests a caller can make: a stored deposit, and for             *)
(* GetProofByGER a stored L1 GER (one covering the deposit when callers    *)
(* pin such a GER).                                                        *)
Deposits == {<<n, c>> \in Nets \X (0..(MaxLeaves - 1)) : c < Len(leaves[n])}

PinnedGers(n, c) ==
    {g \in DOMAIN gers : CallerPinsCoveringGER => Covers(g, n, c)}

-----------------------------------------------------------------------------
(* Actions.                                                                 *)

Init ==
    /\ leaves = [n \in Nets |-> <<>>]
    /\ frontier = [n \in Nets |-> [h \in 0..(Height - 1) |-> ZeroHash(h)]]
    /\ rht = NoNodes
    /\ roots = [n \in Nets |-> <<>>]
    /\ rollupRows = <<>>
    /\ ler = [r \in Rollups |-> 0]
    /\ gers = <<>>
    /\ l2Ger = 0

(* A deposit of network n is synced (processDeposit): its row, then       *)
(* BridgeController.AddDeposit appends its leaf to the exit tree, writing  *)
(* the new pairs to mt.rht and the new root to mt.root.                    *)
AddDeposit(n, v) ==
    /\ Len(leaves[n]) < MaxLeaves
    /\ LET s == addLeaf(n, LeafOf(v))
       IN /\ leaves' = [leaves EXCEPT ![n] = Append(@, LeafOf(v))]
          /\ frontier' = [frontier EXCEPT ![n] = s.frontier]
          /\ rht' = rht @@ s.nodes
          /\ roots' = [roots EXCEPT ![n] = Append(@, s.root)]
    /\ UNCHANGED <<rollupRows, ler, gers, l2Ger>>

(* The L1 bridge updates the GER with its new mainnet exit root and the    *)
(* L1 synchronizer stores the UpdateGlobalExitRoot event.                  *)
UpdateGlobalExitRoot ==
    /\ Len(gers) < MaxGers
    /\ leaves[0] # <<>>
    /\ \A g \in DOMAIN gers : g = Len(gers) => gers[g].merCnt # Len(leaves[0])
    /\ gers' = Append(gers, NewGer(ler))
    /\ UNCHANGED <<leaves, frontier, rht, roots, rollupRows, ler, l2Ger>>

(* The rollup manager verifies rollup r's batches up to its deposit k and  *)
(* updates the GER.  processVerifyBatch requires the local exit root to be *)
(* a stored root of network r (the L1 sync waits for the L2 sync until it  *)
(* is), adds it as a rollups-exit leaf, and the new GER is stored.         *)
(* CheckIfRootExists: some mt.root row of network n holds the root.       *)
CheckIfRootExists(root, n) == \E k \in DOMAIN roots[n] : roots[n][k] = root

VerifyBatch(r, k) ==
    /\ Len(gers) < MaxGers
    /\ k \in DOMAIN roots[r]
    /\ CheckIfRootExists(roots[r][k], r)
    /\ k >= ler[r]
    /\ LET l == [ler EXCEPT ![r] = k]
       IN /\ ler' = l
          /\ rollupRows' = addRollupExitLeaf(r, roots[r][k])
          /\ gers' = Append(gers, NewGer(l))
    /\ UNCHANGED <<leaves, frontier, rht, roots, l2Ger>>

(* The destination L2 injects an L1 GER; the L2 synchronizer stores it as  *)
(* that network's latest trusted exit root.                                *)
InjectGER(g) ==
    /\ g > l2Ger
    /\ g \in DOMAIN gers
    /\ l2Ger' = g
    /\ UNCHANGED <<leaves, frontier, rht, roots, rollupRows, ler, gers>>


Next ==
    \/ \E n \in Nets, v \in Values : AddDeposit(n, v)
    \/ UpdateGlobalExitRoot
    \/ \E r \in Rollups, k \in 1..MaxLeaves : VerifyBatch(r, k)
    \/ \E g \in 1..MaxGers : InjectGER(g)

Spec == Init /\ [][Next]_vars

-----------------------------------------------------------------------------
(* Properties.                                                               *)

IsGer(g) ==
    /\ DOMAIN g = {"mer", "rer", "merCnt", "lerCnt"}
    /\ g.mer \in NodeAt(Height) /\ g.merCnt \in 0..MaxLeaves
    /\ g.lerCnt \in [Rollups -> 0..MaxLeaves]

(* Every variable has its type, every mt.rht key is the hash of its value, *)
(* and an answer returned without error carries two proofs of Height       *)
(* siblings each.                                                            *)
TypeOK ==
    /\ leaves \in [Nets -> Seq(NodeAt(0) \ {ZeroLeaf})]
    /\ frontier \in [Nets -> [0..(Height - 1) -> UNION {NodeAt(h) : h \in 0..Height}]]
    /\ \A k \in DOMAIN rht : k \in Interior /\ k = Hash(rht[k][1], rht[k][2])
    /\ roots \in [Nets -> Seq(NodeAt(Height))]
    /\ \A i \in DOMAIN rollupRows :
          rollupRows[i].leaf \in NodeAt(Height) \cup {ZeroLeaf} /\ rollupRows[i].rollupId \in Rollups
    /\ ler \in [Rollups -> 0..MaxLeaves]
    /\ \A g \in DOMAIN gers : IsGer(gers[g])
    /\ l2Ger \in 0..Len(gers)

(* Merkle correctness (spec invariant 1): after every deposit of a network  *)
(* the mt.root row add_leaf wrote is the root of an independent Merkle tree *)
(* of that network's leaves so far, padded with the zero chain.             *)
RootsMatchReference ==
    \A n \in Nets : \A k \in DOMAIN roots[n] :
        roots[n][k] = RefRoot(SubSeq(leaves[n], 1, k))

(* The bridge contract's check of a claim: the deposit's leaf with the    *)
(* merkle proof at its deposit count rebuilds the GER's mainnet exit root, *)
(* or, for a rollup deposit, rebuilds a local exit root that the rollup    *)
(* proof places at position network-1 of the GER's rollups-exit root.      *)
ClaimAccepted(n, c, a) ==
    LET g == gers[a.gi]
        leaf == leaves[n][c + 1]
    IN IF n = 0
       THEN VerifyMerkleProof(leaf, a.proof, c, g.mer)
       ELSE /\ Len(a.proof) = Height
            /\ VerifyMerkleProof(CalculateRoot(leaf, a.proof, c, 0), a.rproof, n - 1, g.rer)

(* Every proof the service hands out without error, from GetClaimProof,   *)
(* GetClaimProofbyGER or GetClaimProofForCompressed, passes the contract's *)
(* check for the deposit it was asked about under the GER it returns.     *)
ProofVerifiesUnderGER ==
    \A <<n, c>> \in Deposits :
        /\ GetClaimProof(n, c).ok => ClaimAccepted(n, c, GetClaimProof(n, c))
        /\ \A g \in PinnedGers(n, c) :
              /\ GetClaimProofbyGER(n, c, g).ok
                    => ClaimAccepted(n, c, GetClaimProofbyGER(n, c, g))
              /\ \A api \in BOOLEAN :
                    GetClaimProofForCompressed(g, n, c, api).ok
                        => ClaimAccepted(n, c, GetClaimProofForCompressed(g, n, c, api))

(* A deposit that is ready for claim can be proved: GetClaimProof does not *)
(* fail on it, whatever order the rollups verified in and however often    *)
(* the same local exit root was verified again.                            *)
ProvableOnceReady ==
    \A <<n, c>> \in Deposits : Ready(n, c) => GetClaimProof(n, c).ok

====
