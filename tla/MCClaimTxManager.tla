-------------------------- MODULE MCClaimTxManager --------------------------
(* Ours is rollup 1 and Other rollup 2.  One L1 deposit to Ours, one      *)
(* deposit of Other to Ours with the same deposit_cnt, and one deposit of *)
(* Ours to L1.                                                             *)
EXTENDS ClaimTxManager

MCOurs == 1
MCOther == 2
MCDeposits ==
    { [id |-> 1, net |-> 0, dest |-> 1, cnt |-> 0, allowed |-> TRUE],
      [id |-> 3, net |-> 2, dest |-> 1, cnt |-> 0, allowed |-> TRUE],
      [id |-> 4, net |-> 1, dest |-> 0, cnt |-> 0, allowed |-> TRUE] }
\* One goroutine per GER the environment can send: one mainnet root and
\* one rollup exit root change per rollup.
MCMaxGoroutines == 3
MCChanCap == 2
MCMaxFailures == 1
====
