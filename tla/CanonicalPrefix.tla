--------------------------- MODULE CanonicalPrefix ---------------------------
(***************************************************************************)
(* What the block synchronizer promises about its storage, whatever the   *)
(* chain does: sync.block, sync.deposit and the exit tree only ever        *)
(*   - take a block with a bridge event that was mined, lies above every   *)
(*     stored block and descends from all of them, together with its       *)
(*     deposit as the next leaf of the tree; or                            *)
(*   - drop every stored block above some height, with their deposits and  *)
(*     the leaves past the deposits that remain.                           *)
(* So the stored blocks always form one branch and the tree's leaves are   *)
(* its deposits in order.  mined is the chain's history: every block ever  *)
(* mined on any branch; it only grows.                                     *)
(***************************************************************************)
EXTENDS Naturals, Sequences, FiniteSets

CONSTANT NoHash   \* the parent of the first block

VARIABLES mined, store, deposits, leaves

avars == <<mined, store, deposits, leaves>>

Hdr(b) == [num |-> b.num, hash |-> b.hash, parent |-> b.parent]

ParentOf(h) == (CHOOSE b \in mined : b.hash = h).parent

RECURSIVE AncestorsOf(_)
AncestorsOf(h) == IF h = NoHash THEN {} ELSE {h} \cup AncestorsOf(ParentOf(h))

Init ==
    /\ store = {}
    /\ deposits = {}
    /\ leaves = <<>>

\* The chains move: blocks are mined, on the current branch or a new one.
ChainMoves ==
    /\ mined \subseteq mined'
    /\ UNCHANGED <<store, deposits, leaves>>

\* A mined block with a deposit extends the stored branch.
StoreBlock ==
    \E b \in mined :
        /\ b.dep
        /\ b.cnt = Len(leaves)
        /\ \A s \in store : s.num < b.num /\ s.hash \in AncestorsOf(b.hash)
        /\ store' = store \cup {Hdr(b)}
        /\ deposits' = deposits \cup {[cnt |-> b.cnt, blk |-> b.hash]}
        /\ leaves' = Append(leaves, b.hash)
        /\ UNCHANGED mined

\* Everything stored above height n goes, and the tree keeps one leaf per
\* deposit that stays.
Truncate ==
    \E n \in {0} \cup {s.num : s \in store} :
        LET kept == {s \in store : s.num <= n}
            keptDeposits == {d \in deposits : d.blk \in {s.hash : s \in kept}}
        IN  /\ store' = kept
            /\ deposits' = keptDeposits
            /\ leaves' = SubSeq(leaves, 1, Cardinality(keptDeposits))
            /\ UNCHANGED mined

Spec == Init /\ [][ChainMoves \/ StoreBlock \/ Truncate]_avars

=============================================================================
