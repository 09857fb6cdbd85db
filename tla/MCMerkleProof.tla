--------------------------- MODULE MCMerkleProof ---------------------------
(* Two rollups beside mainnet, trees of height 2 (four leaves), two leaf   *)
(* hashes so that equal and different leaves meet, two deposits per       *)
(* network and three GERs: enough for a rollup to verify before a lower    *)
(* one (the zero-filled gap), a re-verified root, and a GER that is stale  *)
(* for a later deposit.                                                     *)
EXTENDS MerkleProof

MCHeight == 2
MCRollups == {1, 2}
MCValues == {1, 2}
MCMaxLeaves == 2
MCMaxGers == 3
====
