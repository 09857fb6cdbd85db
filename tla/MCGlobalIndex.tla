--------------------------- MODULE MCGlobalIndex ---------------------------
(* Bytes of 4 values, uint32 fields of 2 bytes (0..15) and a 6-byte index *)
(* (one leading byte, the flag byte and the two fields); networks 0..2,   *)
(* so mainnet and two rollup indexes.                                      *)
(* The event streams: up to three logs from two blocks, of every topic    *)
(* processEvent handles and one it ignores, so that a block holds two     *)
(* events of a kind, events of several kinds, and logs it drops.          *)
EXTENDS GlobalIndex, EventIngest

MCBase == 4
MCFieldBytes == 2
MCGIBytes == 6
MCMaxNetwork == 2

MCTopics == {"UpdateGlobalExitRoot", "UpdateL1InfoTree", "Deposit", "Claim",
             "OldClaim", "NewWrappedToken", "VerifyBatchesTrustedAggregator",
             "RollupManagerVerifyBatches", "InsertGlobalExitRoot",
             "RemoveLastGlobalExitRoot", "SetBatchFee"}
MCMaxLogs == 3
MCMaxBlockNum == 2

(* The codecs and the ingest share no state: the etherman run steps       *)
(* either, leaving the other's variables alone.                           *)
EthermanInit == Init /\ IngestInit
EthermanNext == (Next /\ UNCHANGED ingestVars) \/ (ReadLog /\ UNCHANGED vars)
EthermanSpec == EthermanInit /\ [][EthermanNext]_<<vars, ingestVars>>
====
