---------------------------- MODULE EventIngest ----------------------------
(***************************************************************************)
(* How a range of chain logs reaches storage (etherman/etherman.go,        *)
(* synchronizer/synchronizer.go).  readEvents runs processEvent on every   *)
(* log FilterLogs returns; each handler decodes its event, puts it in the *)
(* list of its kind in the block the log belongs to (a new Block from     *)
(* prepareBlock when the log is not from the last block built) and        *)
(* appends an Order entry, the list's name and the event's position in   *)
(* it, to the block hash's entry of blocksOrder.  processBlockRange then   *)
(* stores each block and walks order[hash] to process its events.         *)
(*                                                                         *)
(* A log is its block number and its topic; FilterLogs returns the logs   *)
(* of one chain in (block, log index) order, so a block number names one  *)
(* hash and the hash is written as the number.  An event's payload is     *)
(* abstracted to the position of its log in the stream.                   *)
(***************************************************************************)
EXTENDS Naturals, Sequences, SequencesExt

CONSTANTS
    Topics,       \* the topics of the logs in the checked streams
    MaxLogs,      \* bound on the length of a checked stream
    MaxBlockNum   \* the logs come from blocks 1..MaxBlockNum

\* The EventOrder names, and the Block field each one indexes.
Lists == {"GlobalExitRoot", "RemoveL2GEROrder", "Deposit", "Claim",
          "TokenWrapped", "VerifyBatch"}

NoEvents == [l \in Lists |-> <<>>]

\* prepareBlock: a block with the log's number and hash and no events.
prepareBlock(lg) == [num |-> lg.num, hash |-> lg.num, lists |-> NoEvents]

\* Mutant: a log joins the last block whatever block it comes from.
AddEventNoBlockCheck(st, lg, list) ==
    LET bs == IF st.blocks = <<>> THEN <<prepareBlock(lg)>> ELSE st.blocks
        b  == [Last(bs) EXCEPT !.lists[list] = Append(@, lg.id)]
        h  == b.hash
        prev == IF h \in DOMAIN st.order THEN st.order[h] ELSE <<>>
    IN [blocks |-> [bs EXCEPT ![Len(bs)] = b],
        order  |-> (h :> Append(prev, [name |-> list, pos |-> Len(b.lists[list])]))
                   @@ st.order]

(* The tail every handler shares (verifyBatches's, and likewise in         *)
(* depositEvent, claimEvent, ...): a new block unless the last one has    *)
(* the log's hash and number, the event appended to the kind's list, and  *)
(* {Name: list, Pos: len(list) - 1} appended to blocksOrder[hash].  Pos   *)
(* is 0-based in the code; here sequences start at 1, so pos is the       *)
(* length.                                                                  *)
AddEvent(st, lg, list) ==
    LET new == \/ st.blocks = <<>>
               \/ Last(st.blocks).hash # lg.num
               \/ Last(st.blocks).num # lg.num
        bs  == IF new THEN Append(st.blocks, prepareBlock(lg)) ELSE st.blocks
        b   == [Last(bs) EXCEPT !.lists[list] = Append(@, lg.id)]
        h   == b.hash
        prev == IF h \in DOMAIN st.order THEN st.order[h] ELSE <<>>
    IN [blocks |-> [bs EXCEPT ![Len(bs)] = b],
        order  |-> (h :> Append(prev, [name |-> list, pos |-> Len(b.lists[list])]))
                   @@ st.order]

\* The handlers processEvent dispatches to, each with the list its event
\* goes to.
processUpdateGlobalExitRootEvent(st, lg) == AddEvent(st, lg, "GlobalExitRoot")
depositEvent(st, lg) == AddEvent(st, lg, "Deposit")
claimEvent(st, lg) == AddEvent(st, lg, "Claim")
tokenWrappedEvent(st, lg) == AddEvent(st, lg, "TokenWrapped")
verifyBatchesEvents(st, lg) == AddEvent(st, lg, "VerifyBatch")
insertSovereignChainL2GER(st, lg) == AddEvent(st, lg, "GlobalExitRoot")
removeLastL2GER(st, lg) == AddEvent(st, lg, "RemoveL2GEROrder")

(* processEvent: switch on the log's first topic; every other known topic *)
(* is logged and ignored, and so is an unknown one.                        *)
processEvent(st, lg) ==
    CASE lg.topic \in {"UpdateGlobalExitRoot", "UpdateL1InfoTree"}
              -> processUpdateGlobalExitRootEvent(st, lg)
      [] lg.topic = "Deposit" -> depositEvent(st, lg)
      [] lg.topic \in {"Claim", "OldClaim"} -> claimEvent(st, lg)
      [] lg.topic = "NewWrappedToken" -> tokenWrappedEvent(st, lg)
      [] lg.topic \in {"VerifyBatchesTrustedAggregator", "RollupManagerVerifyBatches"}
              -> verifyBatchesEvents(st, lg)
      [] lg.topic = "InsertGlobalExitRoot" -> insertSovereignChainL2GER(st, lg)
      [] lg.topic = "RemoveLastGlobalExitRoot" -> removeLastL2GER(st, lg)
      [] OTHER -> st

\* readEvents: processEvent over the logs in order, from no blocks and an
\* empty blocksOrder.
readEvents(ls) ==
    FoldLeft(processEvent, [blocks |-> <<>>, order |-> [h \in {} |-> <<>>]], ls)

(* processBlockRange's loop: block after block, the events that            *)
(* order[block hash] names, each taken from its list at its position.      *)
Replay(st) ==
    LET Ord(b) == IF b.hash \in DOMAIN st.order THEN st.order[b.hash] ELSE <<>>
        Events(b) == [i \in 1..Len(Ord(b)) |->
                        [num |-> b.num, list |-> Ord(b)[i].name,
                         id |-> b.lists[Ord(b)[i].name][Ord(b)[i].pos]]]
    IN FoldLeft(LAMBDA acc, b : acc \o Events(b), <<>>, st.blocks)

-----------------------------------------------------------------------------
(* The reference: the list each topic's event belongs to.                  *)
ListOf == [UpdateGlobalExitRoot |-> "GlobalExitRoot",
           UpdateL1InfoTree |-> "GlobalExitRoot",
           Deposit |-> "Deposit", Claim |-> "Claim", OldClaim |-> "Claim",
           NewWrappedToken |-> "TokenWrapped",
           VerifyBatchesTrustedAggregator |-> "VerifyBatch",
           RollupManagerVerifyBatches |-> "VerifyBatch",
           InsertGlobalExitRoot |-> "GlobalExitRoot",
           RemoveLastGlobalExitRoot |-> "RemoveL2GEROrder"]

\* The events a stream carries, in log order, with their blocks.
Expected(ls) ==
    LET kept == SelectSeq(ls, LAMBDA lg : lg.topic \in DOMAIN ListOf)
    IN [i \in DOMAIN kept |-> [num |-> kept[i].num, list |-> ListOf[kept[i].topic],
                               id |-> kept[i].id]]

-----------------------------------------------------------------------------
(* readEvents, one log at a time: FilterLogs' answer grows by a log from   *)
(* the same block or a later one, and processEvent folds it in.            *)

VARIABLES
    logs,      \* the logs read so far, each stamped with its position
    ingested   \* [blocks, order]: what processEvent has built from them

ingestVars == <<logs, ingested>>

IngestInit ==
    /\ logs = <<>>
    /\ ingested = readEvents(<<>>)

ReadLog ==
    /\ Len(logs) < MaxLogs
    /\ \E n \in 1..MaxBlockNum, t \in Topics :
          LET lg == [num |-> n, topic |-> t, id |-> Len(logs) + 1]
          IN  /\ logs # <<>> => Last(logs).num <= n
              /\ logs' = Append(logs, lg)
              /\ ingested' = processEvent(ingested, lg)

(* processBlockRange stores every event FilterLogs returned exactly once,  *)
(* in log order and under the block it was logged in, and readEvents      *)
(* builds one block per block number that has an event, in chain order:   *)
(* the Order entries' names and positions always point back at the right  *)
(* event.                                                                   *)
ReplayMatchesLogs ==
    LET bs == ingested.blocks IN
    /\ Replay(ingested) = Expected(logs)
    /\ \A i \in 1..(Len(bs) - 1) : bs[i].num < bs[i + 1].num
    /\ {b.num : b \in ToSet(bs)} = {e.num : e \in ToSet(Expected(logs))}

====
