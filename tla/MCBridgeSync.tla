---------------------------- MODULE MCBridgeSync ----------------------------
(* Three L1 blocks (so a deposit can fall between two GER updates and a   *)
(* later GER covers more than the one before), five L2 chain events (on a *)
(* sovereign chain: insert, insert, remove, insert again, remove again,    *)
(* and on a rollup a second GER after a replayed or dropped first one), a  *)
(* channel of one slot (the L2                                             *)
(* synchronizer blocks on it with its transaction open) and one crash.    *)
EXTENDS BridgeSync

MCMaxDeposits == 3
MCMaxL2Blocks == 5
MCChanCap == 1
MCMaxCrashes == 1
====
