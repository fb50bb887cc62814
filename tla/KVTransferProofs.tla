-------------------------- MODULE KVTransferProofs --------------------------
(***************************************************************************)
(* KV caches on their way: KVTransfer for any requests, blocks, lengths    *)
(* and kinds of criteria, and ShmTransfer for any requests, retries and    *)
(* deadlines.                                                              *)
(***************************************************************************)
EXTENDS KVTransfer, ShmTransfer, SequenceTheorems, TLAPS

(* The request has neither triggered nor finished.                         *)
Fresh(r) == status[r] = "new" \/ (Live(r) /\ r \notin transfer_triggered)

(* A fresh request has no transfer yet, a pending or handed one has not    *)
(* been sent, and held requests are those that wait.                       *)
OnceInv ==
  /\ \A r \in Requests : Fresh(r) =>
       sent[r] = <<>> /\ r \notin pending \cup active_kv_transfers \cup handed
  /\ pending \cap handed = {} /\ handed \subseteq active_kv_transfers
  /\ \A r \in pending \cup handed : sent[r] = <<>>
  /\ \A r \in Requests : r \in waiting_for_transfer_free <=> status[r] = "held"

(* A request that is not finished has room for one more token.             *)
RoomInv ==
  \A r \in Requests : status[r] = "new" \/ Live(r) => tokens[r] < PromptLen + MaxOutput

TransferInv == TypeOK /\ RoomInv /\ OnceInv /\ SentOnce /\ WaitersHaveTransfer
-----------------------------------------------------------------------------
(* The number of blocks for some tokens is an integer.                     *)
LEMMA BlocksForType == ASSUME NEW n \in Int PROVE BlocksFor(n) \in Int
BY KVAssumption DEF BlocksFor

(* An entry of requests_needing_kv_transfer holds blocks of the cache.     *)
LEMMA EntryType ==
  ASSUME TypeOK, NEW r \in Requests, NEW n \in Nat
  PROVE  EntryFor(r, n) \in [seq_len : Nat, block_ids : Seq(Blocks)]
<1>1. table[r] \in Seq(Blocks) /\ Len(table[r]) \in Nat
  BY DEF TypeOK
<1>2. BlocksFor(n) \in Int
  BY BlocksForType
<1> DEFINE k == IF Len(table[r]) > BlocksFor(n) THEN BlocksFor(n) ELSE Len(table[r])
<1>3. k \in Int /\ k <= Len(table[r])
  BY <1>1, <1>2
<1>4. SubSeq(table[r], 1, k) \in Seq(Blocks)
  BY <1>1, <1>3
<1> QED BY <1>4 DEF EntryFor

(* Allocating blocks keeps a table a sequence of blocks.                   *)
LEMMA TableType ==
  ASSUME NEW t \in Seq(Blocks), NEW k \in Int, NEW new \in [1..k -> Blocks]
  PROVE  t \o new \in Seq(Blocks)
<1>1. new \in Seq(Blocks)
  <2>1. CASE k >= 0
    BY <2>1
  <2>2. CASE k < 0
    <3>1. 1..k = 1..0
      BY <2>2
    <3> QED BY <3>1
  <2> QED BY <2>1, <2>2
<1> QED BY <1>1

(* Initially nothing was triggered.                                        *)
LEMMA InitInv == Init => TransferInv
<1> SUFFICES ASSUME Init PROVE TransferInv
  OBVIOUS
<1> USE KVAssumption DEF Init
<1>1. TypeOK
  BY DEF TypeOK, Statuses, NothingScheduled
<1>2. RoomInv
  BY DEF RoomInv
<1>3. OnceInv
  BY DEF OnceInv, Fresh, Live
<1>4. SentOnce
  BY DEF SentOnce
<1>5. WaitersHaveTransfer
  BY DEF WaitersHaveTransfer
<1> QED BY <1>1, <1>2, <1>3, <1>4, <1>5 DEF TransferInv
-----------------------------------------------------------------------------
(* FreeRequest of a live request, whoever calls it: afterwards it is held  *)
(* with a transfer to come, or gone.                                       *)
LEMMA FreeFacts ==
  ASSUME TransferInv, NEW r \in Requests, Live(r), FreeRequest(r)
  PROVE  /\ status' \in [Requests -> Statuses] /\ table' \in [Requests -> Seq(Blocks)]
         /\ snapshot' \in [Requests -> [seq_len : Nat, block_ids : Seq(Blocks)]]
         /\ finished_req_ids' \subseteq Requests
         /\ status'[r] \in {"held", "gone"}
         /\ \A q \in Requests \ {r} : status'[q] = status[q]
         /\ waiting_for_transfer_free' \subseteq Requests
         /\ \A q \in Requests : q \in waiting_for_transfer_free' <=> status'[q] = "held"
         /\ pending' = pending \/ (pending' = pending \cup {r} /\ Fresh(r))
         /\ status'[r] = "held" => r \in pending' \cup active_kv_transfers
<1> USE DEF TransferInv, TypeOK
<1>1. computed[r] \in Nat
  BY KVAssumption
<1>2. EntryFor(r, computed[r]) \in [seq_len : Nat, block_ids : Seq(Blocks)]
  BY <1>1, EntryType
<1>3. ASSUME Hold(r)
      PROVE  /\ status' \in [Requests -> Statuses] /\ table' = table
             /\ status'[r] = "held"
             /\ \A q \in Requests \ {r} : status'[q] = status[q]
             /\ waiting_for_transfer_free' \subseteq Requests
             /\ \A q \in Requests : q \in waiting_for_transfer_free' <=> status'[q] = "held"
  <2>1. status' = [status EXCEPT ![r] = "held"] /\ "held" \in Statuses
    BY <1>3 DEF Hold, Statuses
  <2>2. waiting_for_transfer_free' = waiting_for_transfer_free \cup {r}
    BY <1>3 DEF Hold
  <2> QED BY <1>3, <2>1, <2>2 DEF Hold, OnceInv
<1>4. ASSUME Release(r)
      PROVE  /\ status' \in [Requests -> Statuses] /\ table' \in [Requests -> Seq(Blocks)]
             /\ status'[r] = "gone"
             /\ \A q \in Requests \ {r} : status'[q] = status[q]
             /\ waiting_for_transfer_free' \subseteq Requests
             /\ \A q \in Requests : q \in waiting_for_transfer_free' <=> status'[q] = "held"
  <2>1. status' = [status EXCEPT ![r] = "gone"] /\ "gone" \in Statuses
    BY <1>4 DEF Release, Statuses
  <2>2. status[r] # "held"
    BY DEF Live
  <2>3. table' = [table EXCEPT ![r] = <<>>] /\ <<>> \in Seq(Blocks)
    BY <1>4 DEF Release
  <2> QED BY <1>4, <2>1, <2>2, <2>3 DEF Release, OnceInv
<1>5. CASE r \in transfer_triggered
  BY <1>3, <1>4, <1>5 DEF FreeRequest
<1>6. CASE r \notin transfer_triggered
  <2>1. Hold(r) /\ Mark(r, computed[r]) /\ finished_req_ids' = finished_req_ids \cup {r}
    BY <1>6 DEF FreeRequest
  <2>2. Fresh(r)
    BY <1>6 DEF Fresh
  <2>3. /\ snapshot' \in [Requests -> [seq_len : Nat, block_ids : Seq(Blocks)]]
        /\ pending' = pending \/ pending' = pending \cup {r}
        /\ r \in pending'
    BY <1>2, <2>1 DEF Mark
  <2> QED BY <1>3, <2>1, <2>2, <2>3
<1> QED BY <1>5, <1>6
-----------------------------------------------------------------------------
(* Every step keeps the invariant.                                         *)

(* A new request is fresh.                                                 *)
LEMMA AddRequestInv ==
  ASSUME TransferInv, NEW r \in Requests, AddRequest(r)
  PROVE  TransferInv'
<1> USE KVAssumption DEF TransferInv, AddRequest, stepVars, transferVars, requestVars, runnerVars, boundVars
<1>1. TypeOK'
  BY DEF TypeOK, Statuses
<1>2. RoomInv'
  BY DEF RoomInv, TypeOK, Live
<1>3. OnceInv'
  BY DEF OnceInv, Fresh, Live, TypeOK
<1>4. SentOnce'
  BY DEF SentOnce, OnceInv, TypeOK
<1>5. WaitersHaveTransfer'
  BY DEF WaitersHaveTransfer, Fresh, Live, OnceInv, TypeOK
<1> QED BY <1>1, <1>2, <1>3, <1>4, <1>5

(* A step of the engine begins.                                            *)
LEMMA StartStepInv ==
  ASSUME TransferInv, StartStep
  PROVE  TransferInv'
<1> USE KVAssumption DEF TransferInv, StartStep, NothingScheduled, stepVars, transferVars, requestVars, runnerVars, boundVars
<1>1. TypeOK'
  BY DEF TypeOK, Statuses
<1>2. RoomInv'
  BY DEF RoomInv, TypeOK, Live
<1>3. OnceInv'
  BY DEF OnceInv, Fresh, Live, TypeOK
<1>4. SentOnce'
  BY DEF SentOnce, OnceInv, TypeOK
<1>5. WaitersHaveTransfer'
  BY DEF WaitersHaveTransfer, Live, OnceInv, TypeOK
<1> QED BY <1>1, <1>2, <1>3, <1>4, <1>5

(* A preempted request keeps its marks.                                    *)
LEMMA PreemptInv ==
  ASSUME TransferInv, NEW r \in Requests, Preempt(r)
  PROVE  TransferInv'
<1> USE KVAssumption DEF TransferInv, Preempt, stepVars, transferVars, requestVars, runnerVars, boundVars
<1>0. table' \in [Requests -> Seq(Blocks)]
  <2>1. <<>> \in Seq(Blocks) /\ table' = [table EXCEPT ![r] = <<>>]
    OBVIOUS
  <2> QED BY <2>1 DEF TypeOK
<1>1. TypeOK'
  BY <1>0, SMTT(30) DEF TypeOK, Statuses
<1>2. RoomInv'
  BY DEF RoomInv, TypeOK, Live
<1>3. OnceInv'
  BY DEF OnceInv, Fresh, Live, TypeOK
<1>4. SentOnce'
  BY DEF SentOnce, OnceInv, TypeOK
<1>5. WaitersHaveTransfer'
  BY DEF WaitersHaveTransfer, Live, OnceInv, TypeOK
<1> QED BY <1>1, <1>2, <1>3, <1>4, <1>5

(* Scheduling triggers nothing.                                            *)
LEMMA ScheduleTokensInv ==
  ASSUME TransferInv, NEW r \in Requests, NEW n \in 1..PromptLen + MaxOutput, ScheduleTokens(r, n)
  PROVE  TransferInv'
<1> USE KVAssumption DEF TransferInv, ScheduleTokens, stepVars, transferVars, requestVars, runnerVars, boundVars
<1>0. table' \in [Requests -> Seq(Blocks)]
  <2> HIDE DEF ScheduleTokens
  <2>1. PICK new \in [1..BlocksWanted(r, n) -> FreeBlocks] :
          /\ \A i, j \in 1..BlocksWanted(r, n) : new[i] = new[j] => i = j
          /\ table' = [table EXCEPT ![r] = table[r] \o new]
    BY ONLY ScheduleTokens(r, n) DEF ScheduleTokens
  <2>2. computed[r] + n \in Int /\ table[r] \in Seq(Blocks)
    BY DEF TypeOK
  <2>3. BlocksWanted(r, n) \in Int
    BY <2>2, BlocksForType DEF BlocksWanted
  <2>4. new \in [1..BlocksWanted(r, n) -> Blocks]
    BY <2>1 DEF FreeBlocks
  <2>5. table[r] \o new \in Seq(Blocks)
    BY ONLY <2>2, <2>3, <2>4, TableType
  <2> QED BY <2>1, <2>5 DEF TypeOK
<1>1. TypeOK'
  <2>1. /\ computed[r] + n \in 0..PromptLen + MaxOutput
        /\ n \in 0..PromptLen + MaxOutput /\ "running" \in Statuses
    BY DEF TypeOK, Statuses
  <2>2. /\ num_scheduled' = [num_scheduled EXCEPT ![r] = n]
        /\ computed' = [computed EXCEPT ![r] = computed[r] + n]
        /\ status' = [status EXCEPT ![r] = "running"]
    OBVIOUS
  <2>3. /\ num_scheduled' \in [Requests -> 0..PromptLen + MaxOutput]
        /\ computed' \in [Requests -> 0..PromptLen + MaxOutput]
        /\ status' \in [Requests -> Statuses]
    BY <2>1, <2>2 DEF TypeOK
  <2> HIDE DEF Statuses
  <2> QED BY <1>0, <2>3 DEF TypeOK
<1>2. RoomInv'
  BY DEF RoomInv, TypeOK, Live
<1>3. OnceInv'
  BY DEF OnceInv, Fresh, Live, TypeOK
<1>4. SentOnce'
  BY DEF SentOnce, OnceInv, TypeOK
<1>5. WaitersHaveTransfer'
  BY DEF WaitersHaveTransfer, Live, OnceInv, TypeOK
<1> QED BY <1>1, <1>2, <1>3, <1>4, <1>5

(* Pending transfers are handed to the runner.                             *)
LEMMA HandOverInv ==
  ASSUME TransferInv, HandOver
  PROVE  TransferInv'
<1> USE KVAssumption DEF TransferInv, HandOver, EndSchedule, stepVars, transferVars, requestVars, runnerVars, boundVars
<1>1. TypeOK'
  BY DEF TypeOK, Statuses
<1>2. RoomInv'
  BY DEF RoomInv, TypeOK, Live
<1>3. OnceInv'
  BY DEF OnceInv, Fresh, Live, TypeOK
<1>4. SentOnce'
  BY DEF SentOnce, OnceInv, TypeOK
<1>5. WaitersHaveTransfer'
  BY DEF WaitersHaveTransfer, Live, OnceInv, TypeOK
<1> QED BY <1>1, <1>2, <1>3, <1>4, <1>5

(* Wrapping the output fails: the transfers stay pending.                  *)
LEMMA HandOverFailsInv ==
  ASSUME TransferInv, HandOverFails
  PROVE  TransferInv'
<1> USE KVAssumption DEF TransferInv, HandOverFails, EndSchedule, stepVars, transferVars, requestVars, runnerVars, boundVars
<1>1. TypeOK'
  BY DEF TypeOK, Statuses
<1>2. RoomInv'
  BY DEF RoomInv, TypeOK, Live
<1>3. OnceInv'
  BY DEF OnceInv, Fresh, Live, TypeOK
<1>4. SentOnce'
  BY DEF SentOnce, OnceInv, TypeOK
<1>5. WaitersHaveTransfer'
  BY DEF WaitersHaveTransfer, Live, OnceInv, TypeOK
<1> QED BY <1>1, <1>2, <1>3, <1>4, <1>5

(* The runner sends what was handed to it, each for the first time.        *)
LEMMA ExecuteInv ==
  ASSUME TransferInv, Execute
  PROVE  TransferInv'
<1> USE KVAssumption DEF TransferInv, Execute, stepVars, transferVars, requestVars, runnerVars, boundVars
<1>1. TypeOK'
  BY DEF TypeOK, Statuses
<1>2. RoomInv'
  BY DEF RoomInv, TypeOK, Live
<1>3. OnceInv'
  BY DEF OnceInv, Fresh, Live, TypeOK
<1>4. SentOnce'
  BY DEF SentOnce, OnceInv, TypeOK
<1>5. WaitersHaveTransfer'
  BY DEF WaitersHaveTransfer, Live, OnceInv, TypeOK
<1> QED BY <1>1, <1>2, <1>3, <1>4, <1>5

(* The outputs of a finished request change nothing of it.                 *)
LEMMA UpdateFinishedInv ==
  ASSUME TransferInv, NEW r \in Requests, UpdateFinished(r)
  PROVE  TransferInv'
<1> USE KVAssumption DEF TransferInv, UpdateFinished, stepVars, transferVars, requestVars, runnerVars, boundVars
<1>1. TypeOK'
  BY DEF TypeOK, Statuses
<1>2. RoomInv'
  BY DEF RoomInv, TypeOK, Live
<1>3. OnceInv'
  BY DEF OnceInv, Fresh, Live, TypeOK
<1>4. SentOnce'
  BY DEF SentOnce, OnceInv, TypeOK
<1>5. WaitersHaveTransfer'
  BY DEF WaitersHaveTransfer, Live, OnceInv, TypeOK
<1> QED BY <1>1, <1>2, <1>3, <1>4, <1>5

(* An acknowledged transfer is no longer active.                           *)
LEMMA AcknowledgeInv ==
  ASSUME TransferInv, Acknowledge
  PROVE  TransferInv'
<1> USE KVAssumption DEF TransferInv, Acknowledge, stepVars, transferVars, requestVars, runnerVars, boundVars
<1>1. TypeOK'
  BY DEF TypeOK, Statuses
<1>2. RoomInv'
  BY DEF RoomInv, TypeOK, Live
<1>3. OnceInv'
  BY DEF OnceInv, Fresh, Live, TypeOK
<1>4. SentOnce'
  BY DEF SentOnce, OnceInv, TypeOK
<1>5. WaitersHaveTransfer'
  BY DEF WaitersHaveTransfer, Live, OnceInv, TypeOK
<1> QED BY <1>1, <1>2, <1>3, <1>4, <1>5

(* An aborted request is freed or held.                                    *)
LEMMA AbortInv ==
  ASSUME TransferInv, NEW r \in Requests, Abort(r)
  PROVE  TransferInv'
<1> USE DEF TransferInv, stepVars, runnerVars, boundVars
<1>1. /\ Live(r) /\ FreeRequest(r)
      /\ UNCHANGED <<phase, tokens, computed, num_scheduled, handed, acks, todo,
                     active_kv_transfers, transfer_triggered, sent, put_off,
                     preempts, wrap_errors>>
  BY DEF Abort
<1>2. phase # "execute" /\ handed = {}
  BY DEF Abort, TypeOK
<1> DEFINE Facts ==
         /\ status' \in [Requests -> Statuses] /\ table' \in [Requests -> Seq(Blocks)]
         /\ snapshot' \in [Requests -> [seq_len : Nat, block_ids : Seq(Blocks)]]
         /\ finished_req_ids' \subseteq Requests
         /\ status'[r] \in {"held", "gone"}
         /\ \A q \in Requests \ {r} : status'[q] = status[q]
         /\ waiting_for_transfer_free' \subseteq Requests
         /\ \A q \in Requests : q \in waiting_for_transfer_free' <=> status'[q] = "held"
         /\ pending' = pending \/ (pending' = pending \cup {r} /\ Fresh(r))
         /\ status'[r] = "held" => r \in pending' \cup active_kv_transfers
<1>3. Facts
  BY <1>1, FreeFacts
<1>4. TypeOK'
  BY <1>1, <1>2, <1>3 DEF TypeOK
<1>5. RoomInv'
  BY <1>1, <1>3 DEF RoomInv, Live
<1>6. OnceInv'
  BY <1>1, <1>2, <1>3 DEF OnceInv, Fresh, Live
<1>7. SentOnce'
  BY <1>1 DEF SentOnce
<1>8. WaitersHaveTransfer'
  <2>1. waiting_for_transfer_free' \subseteq pending' \cup active_kv_transfers'
    <3>1. \A q \in waiting_for_transfer_free' \ {r} : q \in waiting_for_transfer_free
      BY <1>3 DEF OnceInv
    <3>2. pending \subseteq pending' /\ active_kv_transfers' = active_kv_transfers
      BY <1>1, <1>3
    <3>3. r \in waiting_for_transfer_free' => r \in pending' \cup active_kv_transfers'
      BY <1>1, <1>3
    <3> QED BY <3>1, <3>2, <3>3 DEF WaitersHaveTransfer
  <2>2. \A q \in Requests : Live(q)' => q # r /\ Live(q)
    BY <1>3 DEF Live
  <2> QED BY <1>1, <1>3, <2>1, <2>2 DEF WaitersHaveTransfer, TypeOK
<1> QED BY <1>4, <1>5, <1>6, <1>7, <1>8

(* The token count of an update: it grows only while there is room, and a  *)
(* request that goes on still has room.                                    *)
LEMMA TokensFacts ==
  ASSUME TransferInv, NEW r \in Requests, NEW stop \in BOOLEAN, NEW sentinel \in BOOLEAN,
         UpdateRequest(r, stop, sentinel)
  PROVE  /\ tokens' \in [Requests -> PromptLen..PromptLen + MaxOutput]
         /\ \A q \in Requests \ {r} : tokens'[q] = tokens[q]
         /\ stop \/ tokens'[r] < PromptLen + MaxOutput
<1> USE KVAssumption
<1>1. /\ Live(r)
      /\ tokens' = IF computed[r] = tokens[r] THEN [tokens EXCEPT ![r] = @ + 1] ELSE tokens
      /\ computed[r] = tokens[r] /\ tokens[r] + 1 = PromptLen + MaxOutput => stop
  BY DEF UpdateRequest
<1>2. /\ tokens \in [Requests -> PromptLen..PromptLen + MaxOutput]
      /\ tokens[r] < PromptLen + MaxOutput
  BY <1>1 DEF TransferInv, TypeOK, RoomInv
<1> QED BY <1>1, <1>2

(* A trigger marks its transfer once.                                      *)
LEMMA UpdateRequestInv ==
  ASSUME TransferInv, NEW r \in Requests, NEW stop \in BOOLEAN, NEW sentinel \in BOOLEAN,
         UpdateRequest(r, stop, sentinel)
  PROVE  TransferInv'
<1> USE DEF TransferInv, runnerVars, boundVars
<1>1. /\ phase = "update" /\ r \in todo /\ Live(r) /\ todo' = todo \ {r}
      /\ UNCHANGED <<phase, computed, num_scheduled, handed, acks, sent, put_off,
                     preempts, wrap_errors>>
  BY DEF UpdateRequest
<1>2. handed = {} /\ handed' = {}
  BY <1>1 DEF TypeOK
<1>3. /\ tokens' \in [Requests -> PromptLen..PromptLen + MaxOutput]
      /\ \A q \in Requests \ {r} : tokens'[q] = tokens[q]
      /\ stop \/ tokens'[r] < PromptLen + MaxOutput
  BY TokensFacts
<1>4. CASE stop
  <2>1. Stopped(r) /\ FreeRequest(r)
    BY <1>4 DEF UpdateRequest, Stopped
  <2>2. /\ status' \in [Requests -> Statuses] /\ table' \in [Requests -> Seq(Blocks)]
        /\ snapshot' \in [Requests -> [seq_len : Nat, block_ids : Seq(Blocks)]]
        /\ finished_req_ids' \subseteq Requests
        /\ status'[r] \in {"held", "gone"}
        /\ \A q \in Requests \ {r} : status'[q] = status[q]
        /\ waiting_for_transfer_free' \subseteq Requests
        /\ \A q \in Requests : q \in waiting_for_transfer_free' <=> status'[q] = "held"
        /\ pending' = pending \/ (pending' = pending \cup {r} /\ Fresh(r))
        /\ status'[r] = "held" => r \in pending' \cup active_kv_transfers
    BY <1>1, <2>1, FreeFacts
  <2>3. /\ transfer_triggered' \subseteq transfer_triggered
        /\ active_kv_transfers' \subseteq active_kv_transfers
        /\ transfer_triggered \subseteq transfer_triggered' \cup {r}
        /\ active_kv_transfers \subseteq active_kv_transfers' \cup {r}
        /\ r \in waiting_for_transfer_free' => active_kv_transfers' = active_kv_transfers
    BY <2>1 DEF Stopped
  <2>4. TypeOK'
    BY <1>1, <1>2, <1>3, <2>2, <2>3 DEF TypeOK
  <2>5. RoomInv'
    BY <1>3, <2>2 DEF RoomInv, Live
  <2>6. OnceInv'
    BY <1>1, <1>2, <2>2, <2>3 DEF OnceInv, Fresh, Live
  <2>7. SentOnce'
    BY <1>1 DEF SentOnce
  <2>8. waiting_for_transfer_free' \subseteq pending' \cup active_kv_transfers'
    <3>1. \A q \in waiting_for_transfer_free' \ {r} : q \in waiting_for_transfer_free
      BY <2>2 DEF OnceInv
    <3>2. r \in waiting_for_transfer_free' => r \in pending' \cup active_kv_transfers'
      BY <1>1, <2>2, <2>3
    <3>3. pending \subseteq pending'
      BY <2>2
    <3> QED BY <2>3, <3>1, <3>2, <3>3 DEF WaitersHaveTransfer
  <2>9. \A q \in Requests : Live(q)' => q # r /\ Live(q)
    BY <2>2 DEF Live
  <2>10. WaitersHaveTransfer'
    BY <2>2, <2>3, <2>8, <2>9 DEF WaitersHaveTransfer, TypeOK
  <2> QED BY <2>4, <2>5, <2>6, <2>7, <2>10
<1>5. CASE ~stop
  <2>1. /\ ProcessTrigger(r, sentinel)
        /\ UNCHANGED <<status, table, finished_req_ids, waiting_for_transfer_free,
                       active_kv_transfers>>
    BY <1>5 DEF UpdateRequest
  <2>2. EntryFor(r, computed[r]) \in [seq_len : Nat, block_ids : Seq(Blocks)]
    <3>1. computed[r] \in Nat
      BY KVAssumption DEF TypeOK
    <3> QED BY <3>1, EntryType
  <2>3. \/ UNCHANGED <<transfer_triggered, pending, snapshot>>
        \/ /\ r \notin transfer_triggered /\ transfer_triggered' = transfer_triggered \cup {r}
           /\ pending' = pending \/ pending' = pending \cup {r}
           /\ snapshot' = snapshot \/ snapshot' = [snapshot EXCEPT ![r] = EntryFor(r, computed[r])]
    BY <2>1 DEF ProcessTrigger, Mark
  <2>4. snapshot' \in [Requests -> [seq_len : Nat, block_ids : Seq(Blocks)]]
    BY <2>2, <2>3 DEF TypeOK
  <2>5. TypeOK'
    BY <1>1, <1>2, <1>3, <2>1, <2>3, <2>4 DEF TypeOK
  <2>6. RoomInv'
    BY <1>3, <1>5, <2>1 DEF RoomInv, Live
  <2>7. OnceInv'
    BY <1>1, <1>2, <2>1, <2>3 DEF OnceInv, Fresh, Live
  <2>8. SentOnce'
    BY <1>1 DEF SentOnce
  <2>9. WaitersHaveTransfer'
    BY <2>1, <2>3 DEF WaitersHaveTransfer, Live
  <2> QED BY <2>5, <2>6, <2>7, <2>8, <2>9
<1> QED BY <1>4, <1>5

(* The invariant is inductive.                                             *)
LEMMA NextInv == TransferInv /\ [Next]_vars => TransferInv'
<1> SUFFICES ASSUME TransferInv, [Next]_vars PROVE TransferInv'
  OBVIOUS
<1>1. CASE StartStep
  BY <1>1, StartStepInv
<1>2. ASSUME NEW r \in Requests, NEW n \in 1..PromptLen + MaxOutput, ScheduleTokens(r, n)
      PROVE  TransferInv'
  BY <1>2, ScheduleTokensInv
<1>3. ASSUME NEW r \in Requests, Preempt(r) PROVE TransferInv'
  BY <1>3, PreemptInv
<1>4. CASE HandOver
  BY <1>4, HandOverInv
<1>5. CASE HandOverFails
  BY <1>5, HandOverFailsInv
<1>6. CASE Execute
  BY <1>6, ExecuteInv
<1>7. ASSUME NEW r \in Requests, NEW stop \in BOOLEAN, NEW sentinel \in BOOLEAN,
             UpdateRequest(r, stop, sentinel)
      PROVE  TransferInv'
  BY <1>7, UpdateRequestInv
<1>8. ASSUME NEW r \in Requests, UpdateFinished(r) PROVE TransferInv'
  BY <1>8, UpdateFinishedInv
<1>9. CASE Acknowledge
  BY <1>9, AcknowledgeInv
<1>10. ASSUME NEW r \in Requests, AddRequest(r) PROVE TransferInv'
  BY <1>10, AddRequestInv
<1>11. ASSUME NEW r \in Requests, Abort(r) PROVE TransferInv'
  BY <1>11, AbortInv
<1>12. CASE UNCHANGED vars
  BY <1>12 DEF vars, requestVars, stepVars, transferVars, runnerVars, boundVars,
     TransferInv, TypeOK, RoomInv, OnceInv, SentOnce, WaitersHaveTransfer, Fresh, Live
<1> QED
  BY <1>1, <1>2, <1>3, <1>4, <1>5, <1>6, <1>7, <1>8, <1>9, <1>10, <1>11, <1>12
  DEF Next, EngineStep

(* The inductive invariant of the hand-over holds in every run.            *)
THEOREM TransferInvariant == Safety => []TransferInv
<1>1. Init => TransferInv
  BY InitInv
<1>2. TransferInv /\ [Next]_vars => TransferInv'
  BY NextInv
<1> QED BY <1>1, <1>2, PTL DEF Safety

(* The scheduler's and the runner's variables keep their types, and each   *)
(* phase of a step leaves empty what it hands on.                          *)
THEOREM TypeCorrect == Spec => []TypeOK
<1>1. TransferInv => TypeOK
  BY DEF TransferInv
<1> QED BY <1>1, TransferInvariant, PTL DEF Spec

(* Trigger, finish, abort and preemption together send a request's KV at   *)
(* most once, for any requests, lengths and criteria, and whoever waits    *)
(* for an acknowledgement has a transfer to be acknowledged.               *)
THEOREM OnceSemantics == Spec => []TransferredOnce
<1>1. TransferInv => TransferredOnce
  BY DEF TransferInv, TransferredOnce
<1> QED BY <1>1, TransferInvariant, PTL DEF Spec

-----------------------------------------------------------------------------
(* What a transfer sends is the request's own KV: a second invariant, on    *)
(* the tables and the contents of the blocks, on top of the first.         *)

(* The place in a table and the slot in its block of the token at p.       *)
PlaceOf(p) == ((p - 1) \div BlockSize) + 1
SlotOf(p) == ((p - 1) % BlockSize) + 1

(* No block is in two tables, or twice in one.                             *)
DisjointInv ==
  \A q, r \in Requests : \A i \in 1..Len(table[q]), j \in 1..Len(table[r]) :
    table[q][i] = table[r][j] => q = r /\ i = j

Kept(r) == Live(r) \/ status[r] = "held"

(* The blocks of a request are enough for its computed tokens.             *)
CoverInv ==
  \A r \in Requests :
    /\ status[r] = "new" => computed[r] = 0
    /\ Kept(r) => computed[r] <= Len(table[r]) * BlockSize

(* The tokens of r whose KV is in the cache: those scheduled in this step  *)
(* are written by its forward pass.                                        *)
Done(r) ==
  IF phase \in {"schedule", "execute"} THEN computed[r] - num_scheduled[r] ELSE computed[r]

ScheduledInv ==
  phase \in {"schedule", "execute"} =>
    \A r \in Requests :
      /\ num_scheduled[r] <= computed[r]
      /\ num_scheduled[r] > 0 => status[r] = "running"

ContentInv ==
  \A r \in Requests : Kept(r) =>
    \A p \in 1..Done(r) : kv[table[r][PlaceOf(p)]][SlotOf(p)] = <<r, p>>

Own(r) == [p \in 1..snapshot[r].seq_len |-> <<r, p>>]

(* Marks that were not put off read their request's own KV until the       *)
(* forward pass, before which they are handed over; the mark of a held     *)
(* request is that of all its tokens.                                      *)
MarkInv ==
  /\ \A r \in (pending \cup handed) \ put_off : ReadSnapshot(kv, snapshot[r]) = Own(r)
  /\ phase = "execute" => pending \subseteq put_off
  /\ pending \cap active_kv_transfers = {}
  /\ \A r \in waiting_for_transfer_free \cap (pending \cup handed) :
       snapshot[r] = EntryFor(r, computed[r])

DataInv == DisjointInv /\ CoverInv /\ ScheduledInv /\ ContentInv /\ MarkInv /\ SentIsOwn
-----------------------------------------------------------------------------
(* Division with remainder by the block size.                              *)
LEMMA DivFacts ==
  ASSUME NEW x \in Int
  PROVE  /\ x \div BlockSize \in Int /\ x % BlockSize \in 0..BlockSize - 1
         /\ x = BlockSize * (x \div BlockSize) + (x % BlockSize)
<1>1. ASSUME NEW b \in Int, b > 0
      PROVE  x \div b \in Int /\ x % b \in 0..b - 1 /\ x = b * (x \div b) + (x % b)
  <2>1. x \div b \in Int
    BY <1>1
  <2>2. x % b \in 0..b - 1
    BY <1>1
  <2>3. x = b * (x \div b) + (x % b)
    BY <1>1
  <2> QED BY <2>1, <2>2, <2>3
<1>2. BlockSize \in Int /\ BlockSize > 0
  BY KVAssumption
<1> QED BY <1>1, <1>2

(* A product that is smaller has a smaller factor.                         *)
LEMMA FactorFacts ==
  ASSUME NEW a \in Int, NEW b \in Int, a * BlockSize < b * BlockSize
  PROVE  a < b
<1> SUFFICES ASSUME b <= a PROVE FALSE
  OBVIOUS
<1>1. BlockSize \in Nat
  BY KVAssumption
<1>2. (a - b) * BlockSize >= 0
  BY <1>1
<1>3. (a - b) * BlockSize = a * BlockSize - b * BlockSize
  BY <1>1
<1> QED BY <1>1, <1>2, <1>3

(* Where a token of a table of n blocks is.                                *)
LEMMA PlaceFacts ==
  ASSUME NEW n \in Nat, NEW p \in 1..n * BlockSize
  PROVE  /\ PlaceOf(p) \in 1..n /\ SlotOf(p) \in 1..BlockSize
         /\ Position(PlaceOf(p), SlotOf(p)) = p
<1> DEFINE d == (p - 1) \div BlockSize
           m == (p - 1) % BlockSize
<1>0. BlockSize \in Nat \ {0} /\ n * BlockSize \in Nat
  BY KVAssumption
<1>1. p \in Int /\ p - 1 \in Int /\ p >= 1 /\ p <= n * BlockSize
  BY <1>0
<1>2. d \in Int /\ m \in 0..BlockSize - 1 /\ p - 1 = BlockSize * d + m
  BY <1>1, DivFacts
<1> HIDE DEF d, m
<1>3. d * BlockSize < n * BlockSize
  BY <1>0, <1>1, <1>2
<1>4. d < n
  BY <1>2, <1>3, FactorFacts
<1>5. (0 - 1) * BlockSize < d * BlockSize
  BY <1>0, <1>1, <1>2
<1>6. 0 - 1 < d
  BY <1>2, <1>5, FactorFacts
<1>7. PlaceOf(p) = d + 1 /\ SlotOf(p) = m + 1
  BY DEF PlaceOf, SlotOf, d, m
<1>8. Position(d + 1, m + 1) = d * BlockSize + m + 1
  BY <1>0, <1>2 DEF Position
<1> QED BY <1>0, <1>1, <1>2, <1>4, <1>6, <1>7, <1>8

(* BlocksFor is the least number of blocks that takes the tokens.          *)
LEMMA BlocksForFacts ==
  ASSUME NEW n \in Nat
  PROVE  /\ BlocksFor(n) \in Nat /\ n <= BlocksFor(n) * BlockSize
         /\ \A k \in Nat : n <= k * BlockSize => BlocksFor(n) <= k
<1> DEFINE x == n + BlockSize - 1
           d == x \div BlockSize
           m == x % BlockSize
<1>0. BlockSize \in Nat \ {0} /\ x \in Nat
  BY KVAssumption
<1>1. d \in Int /\ m \in 0..BlockSize - 1 /\ x = BlockSize * d + m
  BY <1>0, DivFacts
<1>2. BlocksFor(n) = d
  BY DEF BlocksFor
<1>x. x = n + BlockSize - 1
  OBVIOUS
<1> HIDE DEF d, m, x
<1>3. n <= d * BlockSize
  BY <1>0, <1>1, <1>x
<1>4. (0 - 1) * BlockSize < d * BlockSize
  BY <1>0, <1>1, <1>3
<1>5. d \in Nat
  BY <1>1, <1>4, FactorFacts
<1>6. ASSUME NEW k \in Nat, n <= k * BlockSize PROVE d <= k
  <2>1. (k + 1) * BlockSize = k * BlockSize + BlockSize
    BY <1>0
  <2>2. d * BlockSize < (k + 1) * BlockSize
    <3>1. k * BlockSize \in Nat /\ d * BlockSize \in Int
      BY <1>0, <1>1
    <3>2. d * BlockSize <= n + BlockSize - 1
      BY <1>0, <1>1, <1>x
    <3> QED BY <1>0, <1>6, <2>1, <3>1, <3>2
  <2>3. d < k + 1
    BY <1>1, <2>2, FactorFacts
  <2> QED BY <1>1, <2>3
<1> QED BY <1>2, <1>3, <1>5, <1>6

(* An entry for computed tokens reads them in order.                       *)
LEMMA EntryReads ==
  ASSUME TypeOK, NEW r \in Requests, NEW n \in Nat, n <= Len(table[r]) * BlockSize,
         NEW cache
  PROVE  /\ EntryFor(r, n).seq_len = n
         /\ ReadSnapshot(cache, EntryFor(r, n)) =
              [p \in 1..n |-> cache[table[r][PlaceOf(p)]][SlotOf(p)]]
<1> DEFINE w == BlocksFor(n)
           ids == SubSeq(table[r], 1, w)
<1>1. table[r] \in Seq(Blocks) /\ Len(table[r]) \in Nat /\ BlockSize \in Nat
  BY KVAssumption DEF TypeOK
<1>2. w \in Nat /\ n <= w * BlockSize /\ w <= Len(table[r])
  BY <1>1, BlocksForFacts
<1> HIDE DEF w
<1>3. EntryFor(r, n) = [seq_len |-> n, block_ids |-> ids]
  BY <1>1, <1>2 DEF EntryFor, w
<1>4. Len(ids) = w /\ \A i \in 1..w : ids[i] = table[r][i]
  BY <1>1, <1>2
<1> HIDE DEF ids
<1>5. w * BlockSize \in Nat
  BY <1>1, <1>2
<1>6. ReadSnapshot(cache, EntryFor(r, n)) = [p \in 1..n |-> cache[ids[PlaceOf(p)]][SlotOf(p)]]
  <2>1. (IF n < w * BlockSize THEN n ELSE w * BlockSize) = n
    BY <1>2, <1>5
  <2> QED BY <1>3, <1>4, <2>1 DEF ReadSnapshot, PlaceOf, SlotOf
<1>7. \A p \in 1..n : ids[PlaceOf(p)] = table[r][PlaceOf(p)]
  <2> TAKE p \in 1..n
  <2>1. p \in 1..w * BlockSize
    BY <1>2, <1>5
  <2>2. PlaceOf(p) \in 1..w
    BY <1>2, <2>1, PlaceFacts
  <2> QED BY <1>4, <2>2
<1> QED BY <1>3, <1>6, <1>7

(* Between two forward passes the entry of a live request reads its own KV. *)
LEMMA MarkReadsOwn ==
  ASSUME TransferInv, CoverInv, ContentInv, phase \in {"idle", "update"},
         NEW r \in Requests, Kept(r)
  PROVE  /\ EntryFor(r, computed[r]).seq_len = computed[r]
         /\ ReadSnapshot(kv, EntryFor(r, computed[r])) = [p \in 1..computed[r] |-> <<r, p>>]
<1>1. TypeOK /\ computed[r] \in Nat /\ computed[r] <= Len(table[r]) * BlockSize
  <2>1. TypeOK
    BY DEF TransferInv
  <2>2. computed[r] \in Nat
    BY <2>1, KVAssumption DEF TypeOK
  <2> QED BY <2>1, <2>2 DEF CoverInv
<1>2. \A p \in 1..computed[r] : kv[table[r][PlaceOf(p)]][SlotOf(p)] = <<r, p>>
  BY DEF ContentInv, Done
<1>3. /\ EntryFor(r, computed[r]).seq_len = computed[r]
      /\ ReadSnapshot(kv, EntryFor(r, computed[r])) =
           [p \in 1..computed[r] |-> kv[table[r][PlaceOf(p)]][SlotOf(p)]]
  BY <1>1, EntryReads
<1> QED BY <1>2, <1>3

(* Freeing blocks keeps the tables disjoint.                               *)
LEMMA DisjointKeep ==
  ASSUME TypeOK, DisjointInv, \A q \in Requests : table'[q] = table[q] \/ table'[q] = <<>>
  PROVE  DisjointInv'
<1> SUFFICES ASSUME NEW q \in Requests, NEW r \in Requests,
                    NEW i \in 1..Len(table'[q]), NEW j \in 1..Len(table'[r]),
                    table'[q][i] = table'[r][j]
             PROVE  q = r /\ i = j
  BY DEF DisjointInv
<1>1. table'[q] = table[q] /\ table'[r] = table[r]
  OBVIOUS
<1> QED BY <1>1 DEF DisjointInv

(* Initially no block is owned.                                            *)
LEMMA DataInit == Init => DataInv
<1> SUFFICES ASSUME Init PROVE DataInv
  OBVIOUS
<1> USE DEF Init
<1>1. \A r \in Requests : Len(table[r]) = 0 /\ ~Kept(r) /\ sent[r] = <<>>
  BY DEF Kept, Live
<1> QED
  BY <1>1 DEF DataInv, DisjointInv, CoverInv, ScheduledInv, ContentInv, MarkInv, SentIsOwn
-----------------------------------------------------------------------------
(* Marks between two forward passes: a request either keeps what was       *)
(* marked or, when fresh, gets the entry of all its computed tokens.       *)
NewMark(r) ==
  /\ Fresh(r) /\ pending' = pending \cup {r}
  /\ snapshot' = [snapshot EXCEPT ![r] = EntryFor(r, computed[r])]

(* A request that ends is released, or held for the transfer it has or for *)
(* the one it is marked for now.                                           *)
LEMMA FreeMarks ==
  ASSUME TransferInv, NEW r \in Requests, Live(r), FreeRequest(r)
  PROVE  \/ /\ UNCHANGED <<pending, snapshot>>
            /\ (Hold(r) /\ r \in active_kv_transfers) \/ Release(r)
         \/ Hold(r) /\ NewMark(r)
<1>1. CASE r \in transfer_triggered
  BY <1>1 DEF FreeRequest
<1>2. CASE r \notin transfer_triggered
  <2>1. Fresh(r) /\ r \notin pending
    BY <1>2 DEF Fresh, TransferInv, OnceInv
  <2>2. Hold(r) /\ Mark(r, computed[r])
    BY <1>2 DEF FreeRequest
  <2> QED BY <2>1, <2>2 DEF Mark, NewMark
<1> QED BY <1>1, <1>2

(* The sent snapshots stay right when the marks change this way.           *)
LEMMA SentKeep ==
  ASSUME TransferInv, SentIsOwn, NEW r \in Requests,
         UNCHANGED <<sent, put_off>>, UNCHANGED snapshot \/ NewMark(r)
  PROVE  SentIsOwn'
<1>1. CASE UNCHANGED snapshot
  BY <1>1 DEF SentIsOwn
<1>2. CASE NewMark(r)
  <2>1. sent[r] = <<>>
    BY <1>2 DEF NewMark, TransferInv, OnceInv
  <2>2. \A q \in Requests \ {r} : snapshot'[q] = snapshot[q]
    BY <1>2 DEF NewMark, TransferInv, TypeOK
  <2>3. Len(sent'[r]) = 0
    BY <2>1
  <2> QED BY <2>2, <2>3 DEF SentIsOwn
<1> QED BY <1>1, <1>2

(* So do the marks.  r may finish at the same time; the other requests     *)
(* keep their tables while they are held.                                  *)
LEMMA MarkKeep ==
  ASSUME TransferInv, DataInv, phase \in {"idle", "update"}, phase' \in {"idle", "update"},
         NEW r \in Requests, Live(r),
         UNCHANGED <<kv, computed, put_off, handed>>, handed = {},
         active_kv_transfers' \subseteq active_kv_transfers,
         \A q \in waiting_for_transfer_free' : q \in waiting_for_transfer_free \/ q = r,
         \A q \in waiting_for_transfer_free' \ {r} : table'[q] = table[q],
         \/ /\ UNCHANGED <<pending, snapshot>>
            /\ r \in waiting_for_transfer_free' => r \in active_kv_transfers
         \/ /\ NewMark(r)
            /\ r \in waiting_for_transfer_free' => table' = table
  PROVE  MarkInv'
<1> USE DEF DataInv
<1>1. CASE /\ UNCHANGED <<pending, snapshot>>
           /\ r \in waiting_for_transfer_free' => r \in active_kv_transfers
  <2>1. \A q \in waiting_for_transfer_free' \cap (pending' \cup handed') :
          q # r /\ q \in waiting_for_transfer_free
    BY <1>1 DEF MarkInv
  <2>2. \A q \in waiting_for_transfer_free' \cap (pending' \cup handed') :
          snapshot'[q] = EntryFor(q, computed[q])'
    BY <1>1, <2>1, SMTT(30) DEF MarkInv, EntryFor
  <2> QED BY <1>1, <2>2 DEF MarkInv, Own, ReadSnapshot
<1>2. CASE /\ NewMark(r)
           /\ r \in waiting_for_transfer_free' => table' = table
  <2> DEFINE e == EntryFor(r, computed[r])
  <2>0. r \notin active_kv_transfers /\ r \notin pending
    BY <1>2 DEF NewMark, TransferInv, OnceInv
  <2>1. /\ pending' = pending \cup {r} /\ snapshot'[r] = e
        /\ \A q \in Requests \ {r} : snapshot'[q] = snapshot[q]
    BY <1>2 DEF NewMark, TransferInv, TypeOK
  <2>2. e.seq_len = computed[r] /\ ReadSnapshot(kv, e) = [p \in 1..computed[r] |-> <<r, p>>]
    BY MarkReadsOwn DEF Kept
  <2> HIDE DEF e
  <2>3. \A q \in (pending' \cup handed') \ put_off' :
          ReadSnapshot(kv, snapshot'[q]) = [p \in 1..snapshot'[q].seq_len |-> <<q, p>>]
    <3> TAKE q \in (pending' \cup handed') \ put_off'
    <3>1. CASE q = r
      BY <2>1, <2>2, <3>1
    <3>2. CASE q # r
      <4>1. q \in (pending \cup handed) \ put_off /\ q \in Requests
        BY <2>1, <3>2 DEF TransferInv, TypeOK
      <4>2. snapshot'[q] = snapshot[q]
        BY <2>1, <3>2, <4>1
      <4> QED BY <4>1, <4>2 DEF MarkInv, Own
    <3> QED BY <3>1, <3>2
  <2>4. pending' \cap active_kv_transfers' = {}
    BY <2>0, <2>1 DEF MarkInv
  <2>5. \A q \in waiting_for_transfer_free' \cap (pending' \cup handed') :
          snapshot'[q] = EntryFor(q, computed[q])'
    <3> TAKE q \in waiting_for_transfer_free' \cap (pending' \cup handed')
    <3>1. CASE q = r
      <4>1. table' = table
        BY <1>2, <3>1
      <4>2. EntryFor(r, computed[r])' = e
        BY <4>1 DEF EntryFor, e
      <4> QED BY <2>1, <3>1, <4>2
    <3>2. CASE q # r
      <4>1. q \in pending \cup handed /\ q \in waiting_for_transfer_free /\ q \in Requests
        BY <2>1, <3>2 DEF TransferInv, TypeOK
      <4>2. snapshot'[q] = snapshot[q] /\ table'[q] = table[q]
        BY <2>1, <3>2, <4>1
      <4> QED BY <4>1, <4>2 DEF MarkInv, EntryFor
    <3> QED BY <3>1, <3>2
  <2>6. phase' # "execute"
    OBVIOUS
  <2> QED BY <2>3, <2>4, <2>5, <2>6 DEF MarkInv, Own, ReadSnapshot
<1> QED BY <1>1, <1>2

(* Neither do tables and contents change, but for blocks given back.       *)
LEMMA OutsideKeep ==
  ASSUME TypeOK, DataInv, phase \in {"idle", "update"}, phase' \in {"idle", "update"},
         UNCHANGED <<computed, kv>>,
         \A q \in Requests : table'[q] = table[q] \/ table'[q] = <<>>,
         \A q \in Requests : Kept(q)' => Kept(q) /\ table'[q] = table[q],
         \A q \in Requests : status'[q] = "new" => status[q] = "new"
  PROVE  DisjointInv' /\ CoverInv' /\ ScheduledInv' /\ ContentInv'
<1> USE DEF DataInv
<1>1. DisjointInv'
  BY DisjointKeep
<1>2. CoverInv'
  BY DEF CoverInv
<1>3. ScheduledInv'
  BY DEF ScheduledInv
<1>4. ContentInv'
  BY DEF ContentInv, Done
<1> QED BY <1>1, <1>2, <1>3, <1>4

(* A new request owns no block.                                            *)
LEMMA AddRequestData ==
  ASSUME TransferInv, DataInv, NEW r \in Requests, AddRequest(r)
  PROVE  DataInv'
<1> USE DEF DataInv, AddRequest, stepVars, transferVars, runnerVars, boundVars
<1>1. /\ status' = [status EXCEPT ![r] = "waiting"] /\ status \in [Requests -> Statuses]
      /\ computed[r] = 0 /\ phase = "idle" /\ table \in [Requests -> Seq(Blocks)]
      /\ BlockSize \in Nat /\ handed = {}
  BY KVAssumption DEF TransferInv, TypeOK, CoverInv
<1>2. DisjointInv'
  BY DEF DisjointInv
<1>3. 0 <= Len(table[r]) * BlockSize
  BY <1>1
<1>4. CoverInv'
  BY <1>1, <1>3 DEF CoverInv, Kept, Live
<1>5. ScheduledInv'
  BY <1>1 DEF ScheduledInv
<1>6. ContentInv'
  <2>1. \A q \in Requests : Done(q)' = computed[q] /\ Done(q) = computed[q]
    BY <1>1 DEF Done
  <2>2. \A q \in Requests \ {r} : Kept(q)' <=> Kept(q)
    BY <1>1 DEF Kept, Live
  <2>3. 1..Done(r)' = {}
    BY <1>1, <2>1, SMTT(30)
  <2> QED BY <2>1, <2>2, <2>3 DEF ContentInv
<1>7. MarkInv'
  BY <1>1 DEF MarkInv, Own, ReadSnapshot, EntryFor
<1>8. SentIsOwn'
  BY DEF SentIsOwn
<1> QED BY <1>2, <1>4, <1>5, <1>6, <1>7, <1>8

(* What freeing a live request does to tables and statuses.                *)
LEMMA FreeTables ==
  ASSUME TransferInv, NEW r \in Requests, Live(r), Hold(r) \/ Release(r)
  PROVE  /\ \A q \in Requests : table'[q] = table[q] \/ table'[q] = <<>>
         /\ \A q \in Requests : Kept(q)' => Kept(q) /\ table'[q] = table[q]
         /\ \A q \in Requests : status'[q] = "new" => status[q] = "new"
         /\ \A q \in waiting_for_transfer_free' : q \in waiting_for_transfer_free \/ q = r
         /\ \A q \in waiting_for_transfer_free' \ {r} : table'[q] = table[q]
         /\ Hold(r) => table' = table
         /\ Release(r) => r \notin waiting_for_transfer_free'
<1>1. /\ status \in [Requests -> Statuses] /\ table \in [Requests -> Seq(Blocks)]
      /\ waiting_for_transfer_free \subseteq Requests /\ status[r] # "held"
      /\ r \notin waiting_for_transfer_free
  BY DEF TransferInv, TypeOK, OnceInv, Live
<1>2. CASE Hold(r)
  <2>1. /\ status' = [status EXCEPT ![r] = "held"] /\ table' = table
        /\ waiting_for_transfer_free' = waiting_for_transfer_free \cup {r}
    BY <1>2 DEF Hold
  <2>2. ~Release(r)
    BY <1>1, <2>1 DEF Release
  <2> QED BY <1>1, <2>1, <2>2 DEF Kept, Live
<1>3. CASE Release(r)
  <2>1. /\ status' = [status EXCEPT ![r] = "gone"] /\ table' = [table EXCEPT ![r] = <<>>]
        /\ waiting_for_transfer_free' = waiting_for_transfer_free
    BY <1>3 DEF Release
  <2>2. ~Hold(r)
    BY <1>1, <2>1 DEF Hold
  <2> QED BY <1>1, <2>1, <2>2 DEF Kept, Live
<1> QED BY <1>2, <1>3

(* A live request that finishes between two forward passes.                *)
LEMMA FinishData ==
  ASSUME TransferInv, DataInv, phase \in {"idle", "update"}, phase' = phase, handed = {},
         NEW r \in Requests, Live(r), FreeRequest(r),
         UNCHANGED <<computed, kv, sent, put_off, handed>>,
         active_kv_transfers' \subseteq active_kv_transfers
  PROVE  DataInv'
<1>1. \/ /\ UNCHANGED <<pending, snapshot>>
         /\ (Hold(r) /\ r \in active_kv_transfers) \/ Release(r)
      \/ Hold(r) /\ NewMark(r)
  BY FreeMarks
<1>2. Hold(r) \/ Release(r)
  BY <1>1
<1>3. /\ \A q \in Requests : table'[q] = table[q] \/ table'[q] = <<>>
      /\ \A q \in Requests : Kept(q)' => Kept(q) /\ table'[q] = table[q]
      /\ \A q \in Requests : status'[q] = "new" => status[q] = "new"
      /\ \A q \in waiting_for_transfer_free' : q \in waiting_for_transfer_free \/ q = r
      /\ \A q \in waiting_for_transfer_free' \ {r} : table'[q] = table[q]
      /\ Hold(r) => table' = table
      /\ Release(r) => r \notin waiting_for_transfer_free'
  BY <1>2, FreeTables
<1>4. DisjointInv' /\ CoverInv' /\ ScheduledInv' /\ ContentInv'
  BY <1>3, OutsideKeep DEF TransferInv
<1>5. MarkInv'
  BY <1>1, <1>3, MarkKeep
<1>6. SentIsOwn'
  BY <1>1, SentKeep DEF DataInv
<1> QED BY <1>4, <1>5, <1>6 DEF DataInv

(* An abort frees the blocks of no one else.                               *)
LEMMA AbortData ==
  ASSUME TransferInv, DataInv, NEW r \in Requests, Abort(r)
  PROVE  DataInv'
<1>1. /\ phase \in {"idle", "update"} /\ phase' = phase /\ Live(r) /\ FreeRequest(r)
      /\ UNCHANGED <<computed, kv, sent, put_off, handed, active_kv_transfers>>
  BY DEF Abort, stepVars, runnerVars, boundVars
<1>2. handed = {}
  BY <1>1 DEF TransferInv, TypeOK
<1> QED BY <1>1, <1>2, FinishData

(* A trigger marks the blocks that hold the tokens so far.                 *)
LEMMA UpdateRequestData ==
  ASSUME TransferInv, DataInv, NEW r \in Requests, NEW stop \in BOOLEAN,
         NEW sentinel \in BOOLEAN, UpdateRequest(r, stop, sentinel)
  PROVE  DataInv'
<1>1. /\ phase = "update" /\ phase' = phase /\ Live(r)
      /\ UNCHANGED <<computed, kv, sent, put_off, handed>>
  BY DEF UpdateRequest, runnerVars, boundVars
<1>2. handed = {}
  BY <1>1 DEF TransferInv, TypeOK
<1>3. CASE stop
  <2>1. FreeRequest(r) /\ active_kv_transfers' \subseteq active_kv_transfers
    BY <1>3 DEF UpdateRequest, Stopped
  <2> QED BY <1>1, <1>2, <2>1, FinishData
<1>4. CASE ~stop
  <2>1. /\ ProcessTrigger(r, sentinel)
        /\ UNCHANGED <<status, table, waiting_for_transfer_free, active_kv_transfers>>
    BY <1>4 DEF UpdateRequest
  <2>2. UNCHANGED <<pending, snapshot>> \/ NewMark(r)
    <3>1. CASE r \in transfer_triggered
      BY <2>1, <3>1 DEF ProcessTrigger
    <3>2. CASE r \notin transfer_triggered
      <4>1. Fresh(r) /\ r \notin pending
        BY <1>1, <3>2 DEF Fresh, TransferInv, OnceInv
      <4> QED BY <2>1, <4>1 DEF ProcessTrigger, Mark, NewMark
    <3> QED BY <3>1, <3>2
  <2>3. DisjointInv' /\ CoverInv' /\ ScheduledInv' /\ ContentInv'
    BY <1>1, <2>1, OutsideKeep DEF TransferInv, Kept, Live
  <2>4. r \notin waiting_for_transfer_free
    BY <1>1 DEF TransferInv, OnceInv, Live
  <2>5. MarkInv'
    BY <1>1, <1>2, <2>1, <2>2, <2>4, MarkKeep
  <2>6. SentIsOwn'
    BY <1>1, <2>2, SentKeep DEF DataInv
  <2> QED BY <2>3, <2>5, <2>6 DEF DataInv
<1> QED BY <1>3, <1>4

(* They change no block either.                                            *)
LEMMA UpdateFinishedData ==
  ASSUME TransferInv, DataInv, NEW r \in Requests, UpdateFinished(r)
  PROVE  DataInv'
<1>1. /\ phase = "update" /\ phase' = phase
      /\ UNCHANGED <<status, computed, table, num_scheduled, handed, pending, snapshot, kv,
                     sent, put_off, waiting_for_transfer_free, active_kv_transfers>>
  BY DEF UpdateFinished, requestVars, transferVars, runnerVars, boundVars
<1>2. DisjointInv' /\ CoverInv' /\ ScheduledInv' /\ ContentInv'
  BY <1>1, OutsideKeep, SMTT(30) DEF TransferInv, Kept, Live
<1>3. MarkInv' /\ SentIsOwn'
  BY <1>1 DEF DataInv, MarkInv, SentIsOwn, Own, ReadSnapshot, EntryFor
<1> QED BY <1>2, <1>3 DEF DataInv

(* The blocks of an acknowledged transfer are freed.                       *)
LEMMA AcknowledgeData ==
  ASSUME TransferInv, DataInv, Acknowledge
  PROVE  DataInv'
<1> USE DEF DataInv
<1> DEFINE done == acks \cap waiting_for_transfer_free
<1>1. /\ phase = "update" /\ phase' = "idle"
      /\ status' = [r \in Requests |-> IF r \in done THEN "gone" ELSE status[r]]
      /\ table' = [r \in Requests |-> IF r \in done THEN <<>> ELSE table[r]]
      /\ waiting_for_transfer_free' = waiting_for_transfer_free \ done
      /\ active_kv_transfers' \subseteq active_kv_transfers
      /\ UNCHANGED <<computed, num_scheduled, handed, pending, snapshot, kv, sent, put_off>>
  BY DEF Acknowledge, runnerVars, boundVars
<1>2. TypeOK
  BY DEF TransferInv
<1> HIDE DEF done
<1>3. /\ \A q \in Requests : table'[q] = table[q] \/ table'[q] = <<>>
      /\ \A q \in Requests : Kept(q)' => Kept(q) /\ table'[q] = table[q]
      /\ \A q \in Requests : status'[q] = "new" => status[q] = "new"
  BY <1>1 DEF Kept, Live
<1>4. DisjointInv' /\ CoverInv' /\ ScheduledInv' /\ ContentInv'
  BY <1>1, <1>2, <1>3, OutsideKeep
<1>5. MarkInv'
  <2>1. \A q \in waiting_for_transfer_free' : q \in waiting_for_transfer_free /\ table'[q] = table[q]
    BY <1>1, <1>2 DEF TypeOK
  <2>2. \A q \in waiting_for_transfer_free' \cap (pending' \cup handed') :
          snapshot'[q] = EntryFor(q, computed[q])'
    BY <1>1, <2>1, ZenonT(40) DEF MarkInv, EntryFor
  <2>3. \A q \in (pending' \cup handed') \ put_off' : (ReadSnapshot(kv, snapshot[q]) = Own(q))'
    BY <1>1 DEF MarkInv, ReadSnapshot, Own
  <2> QED BY <1>1, <2>2, <2>3 DEF MarkInv
<1>6. SentIsOwn'
  BY <1>1 DEF SentIsOwn
<1> QED BY <1>4, <1>5, <1>6
-----------------------------------------------------------------------------
(* schedule().                                                             *)
LEMMA StartStepData ==
  ASSUME TransferInv, DataInv, StartStep
  PROVE  DataInv'
<1> USE DEF DataInv
<1>1. /\ phase = "idle" /\ phase' = "schedule" /\ num_scheduled' = [r \in Requests |-> 0]
      /\ UNCHANGED <<status, computed, table, handed, pending, snapshot, kv, sent, put_off,
                     waiting_for_transfer_free, active_kv_transfers>>
  BY DEF StartStep, NothingScheduled, requestVars, transferVars, runnerVars, boundVars
<1>2. \A r \in Requests : computed[r] \in Nat
  BY KVAssumption DEF TransferInv, TypeOK
<1>3. DisjointInv' /\ CoverInv'
  BY <1>1 DEF DisjointInv, CoverInv, Kept, Live
<1>4. ScheduledInv'
  BY <1>1, <1>2 DEF ScheduledInv
<1>5. ContentInv'
  <2>1. \A r \in Requests : Done(r)' = Done(r)
    BY <1>1, <1>2 DEF Done
  <2>2. \A r \in Requests : Kept(r)' <=> Kept(r)
    BY <1>1 DEF Kept, Live
  <2> QED BY <1>1, <2>1, <2>2 DEF ContentInv
<1>6. MarkInv'
  BY <1>1 DEF MarkInv, Own, ReadSnapshot, EntryFor
<1>7. SentIsOwn'
  BY <1>1 DEF SentIsOwn
<1> QED BY <1>3, <1>4, <1>5, <1>6, <1>7

(* A preempted request gives up its blocks.                                *)
LEMMA PreemptData ==
  ASSUME TransferInv, DataInv, NEW r \in Requests, Preempt(r)
  PROVE  DataInv'
<1> USE DEF DataInv
<1>1. /\ phase = "schedule" /\ phase' = phase /\ status[r] = "running" /\ num_scheduled[r] = 0
      /\ status' = [status EXCEPT ![r] = "waiting"]
      /\ computed' = [computed EXCEPT ![r] = 0] /\ table' = [table EXCEPT ![r] = <<>>]
      /\ UNCHANGED <<num_scheduled, handed, pending, snapshot, kv, sent, put_off,
                     waiting_for_transfer_free, active_kv_transfers>>
  BY DEF Preempt, stepVars, transferVars, runnerVars
<1>2. TypeOK /\ r \notin waiting_for_transfer_free /\ BlockSize \in Nat
  BY <1>1, KVAssumption DEF TransferInv, OnceInv
<1>3. /\ status'[r] = "waiting" /\ computed'[r] = 0 /\ table'[r] = <<>>
      /\ \A q \in Requests \ {r} :
           status'[q] = status[q] /\ computed'[q] = computed[q] /\ table'[q] = table[q]
  BY <1>1, <1>2 DEF TypeOK
<1>4. DisjointInv'
  BY <1>2, <1>3, DisjointKeep
<1>5. CoverInv'
  BY <1>2, <1>3 DEF CoverInv, Kept, Live
<1>6. ScheduledInv'
  BY <1>1, <1>3 DEF ScheduledInv
<1>7. ContentInv'
  <2>1. Done(r)' = 0
    BY <1>1, <1>3 DEF Done
  <2>2. \A q \in Requests \ {r} : Done(q)' = Done(q) /\ (Kept(q)' <=> Kept(q))
    BY <1>1, <1>3 DEF Done, Kept, Live
  <2>3. 1..Done(r)' = {}
    BY <2>1
  <2> QED BY <1>1, <1>3, <2>2, <2>3 DEF ContentInv
<1>8. MarkInv'
  <2>1. \A q \in waiting_for_transfer_free' : q # r /\ q \in Requests
    BY <1>1, <1>2 DEF TypeOK
  <2>2. \A q \in waiting_for_transfer_free' \cap (pending' \cup handed') :
          snapshot'[q] = EntryFor(q, computed[q])'
    BY <1>1, <1>3, <2>1, SMTT(30) DEF MarkInv, EntryFor
  <2>3. \A q \in (pending' \cup handed') \ put_off' : (ReadSnapshot(kv, snapshot[q]) = Own(q))'
    BY <1>1 DEF MarkInv, ReadSnapshot, Own
  <2> QED BY <1>1, <2>2, <2>3 DEF MarkInv
<1>9. SentIsOwn'
  BY <1>1 DEF SentIsOwn
<1> QED BY <1>4, <1>5, <1>6, <1>7, <1>8, <1>9

(* The pending transfers are handed over, or put off.                      *)
LEMMA HandOverData ==
  ASSUME TransferInv, DataInv, HandOver \/ HandOverFails
  PROVE  DataInv'
<1> USE DEF DataInv
<1>1. /\ phase = "schedule" /\ phase' = "execute"
      /\ UNCHANGED <<status, computed, table, num_scheduled, snapshot, kv, sent,
                     waiting_for_transfer_free>>
      /\ put_off \subseteq put_off'
      /\ pending' \cup handed' = pending
      /\ \/ pending' = {}
         \/ pending' = pending /\ pending \subseteq put_off' /\ UNCHANGED active_kv_transfers
  BY DEF HandOver, HandOverFails, EndSchedule, transferVars, runnerVars
<1>2. handed = {}
  BY <1>1 DEF TransferInv, TypeOK
<1>3. DisjointInv' /\ CoverInv' /\ ScheduledInv' /\ ContentInv'
  BY <1>1 DEF DisjointInv, CoverInv, ScheduledInv, ContentInv, Kept, Live, Done
<1>4. MarkInv'
  <2>1. \A q \in waiting_for_transfer_free' \cap (pending' \cup handed') :
          snapshot'[q] = EntryFor(q, computed[q])'
    BY <1>1, SMTT(30) DEF MarkInv, EntryFor
  <2>2. \A q \in (pending' \cup handed') \ put_off' : (ReadSnapshot(kv, snapshot[q]) = Own(q))'
    <3> TAKE q \in (pending' \cup handed') \ put_off'
    <3>1. q \in pending /\ q \notin put_off
      BY <1>1
    <3>2. ReadSnapshot(kv, snapshot[q]) = Own(q)
      BY <3>1 DEF MarkInv
    <3> QED BY <1>1, <3>2 DEF ReadSnapshot, Own
  <2>3. pending' \cap active_kv_transfers' = {} /\ pending' \subseteq put_off'
    <3>1. CASE pending' = {}
      BY <3>1
    <3>2. CASE pending' = pending /\ pending \subseteq put_off' /\ UNCHANGED active_kv_transfers
      BY <3>2 DEF MarkInv
    <3> QED BY <1>1, <3>1, <3>2
  <2> QED BY <2>1, <2>2, <2>3 DEF MarkInv
<1>5. SentIsOwn'
  BY <1>1 DEF SentIsOwn
<1> QED BY <1>3, <1>4, <1>5

(* Multiplying by the size of a block keeps the order.                     *)
LEMMA TimesMono ==
  ASSUME NEW a \in Int, NEW b \in Int, a <= b
  PROVE  a * BlockSize <= b * BlockSize
<1>1. BlockSize \in Nat
  BY KVAssumption
<1>2. (b - a) * BlockSize >= 0
  BY <1>1
<1>3. (b - a) * BlockSize = b * BlockSize - a * BlockSize
  BY <1>1
<1> QED BY <1>1, <1>2, <1>3

(* A table with new blocks at its end.                                     *)
LEMMA ConcatFacts ==
  ASSUME NEW t \in Seq(Blocks), NEW k \in Int, NEW new \in [1..k -> Blocks]
  PROVE  /\ Len(t) \in Nat /\ Len(t \o new) \in Nat
         /\ Len(t \o new) >= Len(t) /\ Len(t \o new) >= Len(t) + k
         /\ \A i \in 1..Len(t) : (t \o new)[i] = t[i]
         /\ \A i \in 1..Len(t \o new) : i > Len(t) =>
              i - Len(t) \in 1..k /\ (t \o new)[i] = new[i - Len(t)]
<1>1. CASE k >= 0
  <2>1. new \in Seq(Blocks) /\ Len(new) = k
    BY <1>1
  <2> QED BY <1>1, <2>1
<1>2. CASE k < 0
  <2>1. 1..k = 1..0
    BY <1>2
  <2>2. new \in Seq(Blocks) /\ Len(new) = 0
    BY <2>1
  <2> QED BY <1>2, <2>2
<1> QED BY <1>1, <1>2

(* A scheduled request gets free blocks behind its own.                    *)
LEMMA ScheduleTokensData ==
  ASSUME TransferInv, DataInv, NEW r \in Requests, NEW n \in 1..PromptLen + MaxOutput,
         ScheduleTokens(r, n)
  PROVE  DataInv'
<1> USE DEF DataInv
<1> DEFINE k == BlocksWanted(r, n)
           t == table[r]
<1>1. /\ phase = "schedule" /\ phase' = phase /\ Live(r) /\ num_scheduled[r] = 0
      /\ num_scheduled' = [num_scheduled EXCEPT ![r] = n]
      /\ computed' = [computed EXCEPT ![r] = computed[r] + n]
      /\ status' = [status EXCEPT ![r] = "running"]
      /\ UNCHANGED <<handed, pending, snapshot, kv, sent, put_off,
                     waiting_for_transfer_free, active_kv_transfers>>
  BY DEF ScheduleTokens, transferVars, runnerVars, boundVars
<1>2. PICK new \in [1..k -> FreeBlocks] :
        /\ \A i, j \in 1..k : new[i] = new[j] => i = j
        /\ table' = [table EXCEPT ![r] = t \o new]
  BY ONLY ScheduleTokens(r, n) DEF ScheduleTokens
<1>3. /\ TypeOK /\ t \in Seq(Blocks) /\ Len(t) \in Nat /\ computed[r] \in Nat /\ n \in Nat
      /\ r \notin waiting_for_transfer_free /\ waiting_for_transfer_free \subseteq Requests
  BY <1>1, KVAssumption, SMTT(30) DEF TransferInv, OnceInv, TypeOK, Live
<1>4. /\ status'[r] = "running" /\ computed'[r] = computed[r] + n /\ num_scheduled'[r] = n
      /\ table'[r] = t \o new
      /\ \A q \in Requests \ {r} : /\ status'[q] = status[q] /\ computed'[q] = computed[q]
                                  /\ num_scheduled'[q] = num_scheduled[q]
                                  /\ table'[q] = table[q]
  BY <1>1, <1>2, <1>3 DEF TypeOK
<1>5. BlocksFor(computed[r] + n) \in Nat /\ k = BlocksFor(computed[r] + n) - Len(t)
  BY <1>3, BlocksForFacts DEF BlocksWanted
<1>6. new \in [1..k -> Blocks]
  BY <1>2 DEF FreeBlocks
<1> HIDE DEF k
<1>7. /\ Len(t \o new) \in Nat
      /\ Len(t \o new) >= Len(t) /\ Len(t \o new) >= Len(t) + k
      /\ \A i \in 1..Len(t) : (t \o new)[i] = t[i]
      /\ \A i \in 1..Len(t \o new) : i > Len(t) =>
           i - Len(t) \in 1..k /\ (t \o new)[i] = new[i - Len(t)]
  <2>1. t \in Seq(Blocks) /\ k \in Int
    BY <1>3, <1>5
  <2> HIDE DEF t
  <2> QED BY ONLY <1>6, <2>1, ConcatFacts
<1>8. DisjointInv'
  <2> SUFFICES ASSUME NEW q \in Requests, NEW s \in Requests,
                      NEW i \in 1..Len(table'[q]), NEW j \in 1..Len(table'[s]),
                      table'[q][i] = table'[s][j]
               PROVE  q = s /\ i = j
    BY DEF DisjointInv
  <2> DEFINE New(x, l) == x = r /\ l > Len(t)
  <2>1. ASSUME NEW x \in Requests, NEW l \in 1..Len(table'[x]), ~New(x, l)
        PROVE  l \in 1..Len(table[x]) /\ table'[x][l] = table[x][l] /\ table[x][l] \notin FreeBlocks
    <3>1. l \in 1..Len(table[x]) /\ table'[x][l] = table[x][l]
      <4>1. CASE x = r
        BY <1>3, <1>4, <1>7, <2>1, <4>1
      <4>2. CASE x # r
        BY <1>4, <4>2
      <4> QED BY <4>1, <4>2
    <3>2. table[x][l] \in BlocksOf(x)
      BY <3>1 DEF BlocksOf
    <3> QED BY <3>1, <3>2 DEF FreeBlocks
  <2>2. ASSUME NEW l \in 1..Len(table'[r]), New(r, l)
        PROVE  l - Len(t) \in 1..k /\ table'[r][l] = new[l - Len(t)] /\ table'[r][l] \in FreeBlocks
    BY <1>2, <1>4, <1>7, <2>2
  <2>3. CASE ~New(q, i) /\ ~New(s, j)
    BY <2>1, <2>3 DEF DisjointInv
  <2>4. CASE New(q, i) /\ New(s, j)
    BY <1>2, <1>3, <2>2, <2>4
  <2>5. CASE New(q, i) /\ ~New(s, j)
    <3>1. table'[q][i] \in FreeBlocks
      BY <2>2, <2>5
    <3>2. table'[s][j] \notin FreeBlocks
      BY <2>1, <2>5
    <3> QED BY <3>1, <3>2
  <2>6. CASE ~New(q, i) /\ New(s, j)
    <3>1. table'[s][j] \in FreeBlocks
      BY <2>2, <2>6
    <3>2. table'[q][i] \notin FreeBlocks
      BY <2>1, <2>6
    <3> QED BY <3>1, <3>2
  <2> QED BY <2>3, <2>4, <2>5, <2>6
<1>9. CoverInv'
  <2>1. BlocksFor(computed[r] + n) <= Len(t \o new)
    BY <1>3, <1>5, <1>7
  <2>2. BlocksFor(computed[r] + n) * BlockSize <= Len(t \o new) * BlockSize
    BY <1>5, <1>7, <2>1, TimesMono
  <2>3. computed[r] + n <= BlocksFor(computed[r] + n) * BlockSize
    BY <1>3, BlocksForFacts, SMTT(30)
  <2>4. BlockSize \in Nat
    BY KVAssumption
  <2>5. computed'[r] <= Len(table'[r]) * BlockSize
    <3>1. /\ computed[r] + n \in Nat /\ BlocksFor(computed[r] + n) * BlockSize \in Nat
          /\ Len(t \o new) * BlockSize \in Nat
      BY <1>3, <1>5, <1>7, <2>4, SMTT(30)
    <3>2. computed[r] + n <= Len(t \o new) * BlockSize
      BY <2>2, <2>3, <3>1
    <3> QED BY <1>4, <3>2
  <2> QED BY <1>4, <2>5 DEF CoverInv, Kept, Live
<1>10. ScheduledInv'
  BY <1>1, <1>3, <1>4 DEF ScheduledInv
<1>11. ContentInv'
  <2>1. \A q \in Requests : Done(q)' = Done(q)
    BY <1>1, <1>3, <1>4 DEF Done
  <2>2. ASSUME NEW q \in Requests, Kept(q)', NEW p \in 1..Done(q)
        PROVE  kv[table'[q][PlaceOf(p)]][SlotOf(p)] = <<q, p>>
    <3>1. Kept(q)
      BY <1>1, <1>4, <2>2 DEF Kept, Live
    <3>2. kv[table[q][PlaceOf(p)]][SlotOf(p)] = <<q, p>>
      BY <2>2, <3>1 DEF ContentInv
    <3>3. CASE q = r
      <4>1. p \in 1..Len(t) * BlockSize
        <5>1. Done(r) = computed[r] /\ computed[r] <= Len(t) * BlockSize
          BY <1>1, <1>3, <3>1, <3>3 DEF Done, CoverInv
        <5>2. Len(t) * BlockSize \in Nat
          BY <1>3, KVAssumption
        <5> QED BY <1>3, <2>2, <3>3, <5>1, <5>2
      <4>2. PlaceOf(p) \in 1..Len(t)
        BY <1>3, <4>1, PlaceFacts
      <4> QED BY <1>4, <1>7, <3>2, <3>3, <4>2
    <3>4. CASE q # r
      BY <1>4, <3>2, <3>4
    <3> QED BY <3>3, <3>4
  <2> QED BY <1>1, <2>1, <2>2 DEF ContentInv
<1>12. MarkInv'
  <2>1. \A q \in waiting_for_transfer_free' : q # r /\ q \in Requests
    BY <1>1, <1>3
  <2>2. \A q \in waiting_for_transfer_free' \cap (pending' \cup handed') :
          snapshot'[q] = EntryFor(q, computed[q])'
    <3> TAKE q \in waiting_for_transfer_free' \cap (pending' \cup handed')
    <3>1. /\ q \in waiting_for_transfer_free \cap (pending \cup handed)
          /\ table'[q] = table[q] /\ computed'[q] = computed[q] /\ snapshot'[q] = snapshot[q]
      BY <1>1, <1>4, <2>1, SMTT(30)
    <3> QED BY <3>1 DEF MarkInv, EntryFor
  <2>3. \A q \in (pending' \cup handed') \ put_off' : (ReadSnapshot(kv, snapshot[q]) = Own(q))'
    BY <1>1 DEF MarkInv, ReadSnapshot, Own
  <2> QED BY <1>1, <2>2, <2>3 DEF MarkInv
<1>13. SentIsOwn'
  BY <1>1 DEF SentIsOwn
<1> QED BY <1>8, <1>9, <1>10, <1>11, <1>12, <1>13
-----------------------------------------------------------------------------
(* The forward pass.                                                       *)

(* The tokens this forward pass writes into slot s of block b.             *)
Here(b, s) ==
  {x \in Requests \X (1..PromptLen + MaxOutput) :
     /\ x[2] \in Written(x[1])
     /\ \E i \in 1..Len(table[x[1]]) : table[x[1]][i] = b /\ x[2] = Position(i, s)}

(* Into the slot of a token nothing but this token is written.             *)
LEMMA HereFacts ==
  ASSUME TransferInv, DataInv, NEW r \in Requests, Kept(r), NEW p \in 1..computed[r]
  PROVE  /\ table[r][PlaceOf(p)] \in Blocks /\ SlotOf(p) \in 1..BlockSize
         /\ \A x \in Here(table[r][PlaceOf(p)], SlotOf(p)) : x = <<r, p>> /\ p \in Written(r)
         /\ p \in Written(r) => <<r, p>> \in Here(table[r][PlaceOf(p)], SlotOf(p))
<1>1. /\ table[r] \in Seq(Blocks) /\ Len(table[r]) \in Nat
      /\ computed[r] \in 0..PromptLen + MaxOutput /\ BlockSize \in Nat
      /\ computed[r] <= Len(table[r]) * BlockSize
  BY KVAssumption DEF TransferInv, TypeOK, DataInv, CoverInv
<1>2. p \in 1..Len(table[r]) * BlockSize
  <2>1. Len(table[r]) * BlockSize \in Nat
    BY <1>1
  <2> QED BY <1>1, <2>1
<1>3. /\ PlaceOf(p) \in 1..Len(table[r]) /\ SlotOf(p) \in 1..BlockSize
      /\ Position(PlaceOf(p), SlotOf(p)) = p
  BY <1>1, <1>2, PlaceFacts
<1>4. table[r][PlaceOf(p)] \in Blocks
  BY <1>1, <1>3
<1>5. ASSUME NEW x \in Here(table[r][PlaceOf(p)], SlotOf(p))
      PROVE  x = <<r, p>> /\ p \in Written(r)
  <2>1. x \in Requests \X (1..PromptLen + MaxOutput) /\ x[2] \in Written(x[1])
    BY DEF Here
  <2>2. x[1] \in Requests /\ x = <<x[1], x[2]>>
    BY <2>1
  <2>3. PICK i \in 1..Len(table[x[1]]) :
          table[x[1]][i] = table[r][PlaceOf(p)] /\ x[2] = Position(i, SlotOf(p))
    BY DEF Here
  <2>4. x[1] = r /\ i = PlaceOf(p)
    BY <1>3, <2>2, <2>3 DEF DataInv, DisjointInv
  <2> QED BY <1>3, <2>1, <2>2, <2>3, <2>4
<1>6. ASSUME p \in Written(r)
      PROVE  <<r, p>> \in Here(table[r][PlaceOf(p)], SlotOf(p))
  <2>1. p \in 1..PromptLen + MaxOutput
    BY <1>1, KVAssumption
  <2> QED BY <1>3, <1>6, <2>1 DEF Here
<1> QED BY <1>3, <1>4, <1>5, <1>6

(* After it a request reads its own KV up to its progress.                 *)
LEMMA ForwardWrites ==
  ASSUME TransferInv, DataInv, phase = "execute", NEW r \in Requests, Kept(r),
         NEW p \in 1..computed[r]
  PROVE  ForwardPass[table[r][PlaceOf(p)]][SlotOf(p)] = <<r, p>>
<1> DEFINE b == table[r][PlaceOf(p)]
           s == SlotOf(p)
<1>1. /\ b \in Blocks /\ s \in 1..BlockSize
      /\ \A x \in Here(b, s) : x = <<r, p>> /\ p \in Written(r)
      /\ p \in Written(r) => <<r, p>> \in Here(b, s)
  BY HereFacts
<1>2. kv[b][s] = <<r, p>> \/ p \in Written(r)
  <2>1. /\ num_scheduled[r] \in Nat /\ computed[r] \in Nat
        /\ Done(r) = computed[r] - num_scheduled[r]
    BY KVAssumption DEF TransferInv, TypeOK, Done
  <2>2. CASE p \in 1..Done(r)
    BY <2>2 DEF DataInv, ContentInv
  <2>3. CASE p \notin 1..Done(r)
    BY <2>1, <2>3 DEF Written
  <2> QED BY <2>2, <2>3
<1> HIDE DEF b, s
<1>3. ForwardPass[b][s] = IF Here(b, s) = {} THEN kv[b][s] ELSE CHOOSE x \in Here(b, s) : TRUE
  BY <1>1 DEF ForwardPass, Here
<1>4. ASSUME p \in Written(r) PROVE ForwardPass[b][s] = <<r, p>>
  <2> DEFINE here == Here(b, s)
  <2>1. here # {} /\ \A x \in here : x = <<r, p>>
    BY <1>1, <1>4
  <2>2. ForwardPass[b][s] = IF here = {} THEN kv[b][s] ELSE CHOOSE x \in here : TRUE
    BY <1>3
  <2> HIDE DEF here
  <2>3. (CHOOSE x \in here : TRUE) \in here
    BY <2>1
  <2>4. ForwardPass[b][s] = CHOOSE x \in here : TRUE
    BY <2>1, <2>2
  <2>5. ForwardPass[b][s] = <<r, p>>
    BY <2>1, <2>3, <2>4
  <2> QED BY <2>5
<1>5. ASSUME p \notin Written(r) PROVE ForwardPass[b][s] = <<r, p>>
  <2>1. Here(b, s) = {}
    BY <1>1, <1>5
  <2>2. ForwardPass[b][s] = kv[b][s]
    BY <1>3, <2>1
  <2> QED BY <1>2, <1>5, <2>2
<1>6. ForwardPass[b][s] = <<r, p>>
  BY <1>4, <1>5
<1> QED BY <1>6 DEF b, s

(* The runner reads the marked blocks before the forward pass writes.      *)
LEMMA ExecuteData ==
  ASSUME TransferInv, DataInv, Execute
  PROVE  DataInv'
<1> USE DEF DataInv
<1>1. /\ phase = "execute" /\ phase' = "update" /\ handed' = {} /\ kv' = ForwardPass
      /\ sent' = [r \in Requests |->
           IF r \in handed /\ snapshot[r].block_ids # <<>>
           THEN Append(sent[r], ReadSnapshot(kv, snapshot[r])) ELSE sent[r]]
      /\ UNCHANGED <<status, computed, table, num_scheduled, pending, snapshot, put_off,
                     waiting_for_transfer_free, active_kv_transfers>>
  BY DEF Execute, requestVars, transferVars, boundVars
<1>2. DisjointInv' /\ CoverInv' /\ ScheduledInv'
  BY <1>1 DEF DisjointInv, CoverInv, ScheduledInv, Kept, Live
<1>3. ContentInv'
  <2> SUFFICES ASSUME NEW r \in Requests, Kept(r)', NEW p \in (1..Done(r))'
               PROVE  (kv[table[r][PlaceOf(p)]][SlotOf(p)] = <<r, p>>)'
    BY DEF ContentInv
  <2>1. Kept(r) /\ p \in 1..computed[r]
    BY <1>1 DEF Kept, Live, Done
  <2>2. ForwardPass[table[r][PlaceOf(p)]][SlotOf(p)] = <<r, p>>
    BY <1>1, <2>1, ForwardWrites
  <2> QED BY <1>1, <2>2
<1>4. MarkInv'
  <2>1. pending' \subseteq put_off'
    BY <1>1 DEF MarkInv
  <2>2. \A q \in waiting_for_transfer_free' \cap (pending' \cup handed') :
          snapshot'[q] = EntryFor(q, computed[q])'
    BY <1>1 DEF MarkInv, EntryFor
  <2> QED BY <1>1, <2>1, <2>2 DEF MarkInv
<1>5. SentIsOwn'
  <2> SUFFICES ASSUME NEW r \in Requests \ put_off, NEW i \in 1..Len(sent'[r])
               PROVE  sent'[r][i] = Own(r)
    BY <1>1 DEF SentIsOwn, Own
  <2>1. CASE r \in handed /\ snapshot[r].block_ids # <<>>
    <3>1. sent[r] = <<>> /\ ReadSnapshot(kv, snapshot[r]) = Own(r)
      BY <2>1 DEF TransferInv, OnceInv, MarkInv
    <3>2. sent'[r] = Append(<<>>, Own(r))
      BY <1>1, <2>1, <3>1
    <3>3. sent'[r] = <<Own(r)>>
      BY <3>2
    <3> QED BY <3>3
  <2>2. CASE ~(r \in handed /\ snapshot[r].block_ids # <<>>)
    <3>1. sent'[r] = sent[r]
      BY <1>1, <2>2
    <3> QED BY <3>1 DEF SentIsOwn, Own
  <2> QED BY <2>1, <2>2
<1> QED BY <1>2, <1>3, <1>4, <1>5
-----------------------------------------------------------------------------
(* DataInv is inductive, given TransferInv.                                *)
LEMMA DataNext == TransferInv /\ DataInv /\ [Next]_vars => DataInv'
<1> SUFFICES ASSUME TransferInv, DataInv, [Next]_vars PROVE DataInv'
  OBVIOUS
<1>1. CASE StartStep
  BY <1>1, StartStepData
<1>2. ASSUME NEW r \in Requests, NEW n \in 1..PromptLen + MaxOutput, ScheduleTokens(r, n)
      PROVE  DataInv'
  BY <1>2, ScheduleTokensData
<1>3. ASSUME NEW r \in Requests, Preempt(r) PROVE DataInv'
  BY <1>3, PreemptData
<1>4. CASE HandOver \/ HandOverFails
  BY <1>4, HandOverData
<1>5. CASE Execute
  BY <1>5, ExecuteData
<1>6. ASSUME NEW r \in Requests, NEW stop \in BOOLEAN, NEW sentinel \in BOOLEAN,
             UpdateRequest(r, stop, sentinel)
      PROVE  DataInv'
  BY <1>6, UpdateRequestData, SMTT(30)
<1>7. ASSUME NEW r \in Requests, UpdateFinished(r) PROVE DataInv'
  BY <1>7, UpdateFinishedData
<1>8. CASE Acknowledge
  BY <1>8, AcknowledgeData
<1>9. ASSUME NEW r \in Requests, AddRequest(r) PROVE DataInv'
  BY <1>9, AddRequestData
<1>10. ASSUME NEW r \in Requests, Abort(r) PROVE DataInv'
  BY <1>10, AbortData
<1>11. CASE UNCHANGED vars
  BY <1>11 DEF vars, requestVars, stepVars, transferVars, runnerVars, boundVars, DataInv,
     DisjointInv, CoverInv, ScheduledInv, ContentInv, MarkInv, SentIsOwn, Kept, Live, Done,
     Own, ReadSnapshot, EntryFor
<1> QED
  BY <1>1, <1>2, <1>3, <1>4, <1>5, <1>6, <1>7, <1>8, <1>9, <1>10, <1>11
  DEF Next, EngineStep

(* The invariant on tables, contents and marks holds in every run.         *)
THEOREM DataInvariant == Safety => [](TransferInv /\ DataInv)
<1>1. Init => TransferInv /\ DataInv
  BY InitInv, DataInit
<1>2. TransferInv /\ DataInv /\ [Next]_vars => (TransferInv /\ DataInv)'
  BY NextInv, DataNext
<1> QED BY <1>1, <1>2, PTL DEF Safety

(* What is sent for a request is its own KV, every token up to seq_len, in *)
(* spite of preemptions, aborts and blocks that changed hands.             *)
THEOREM SnapshotsAreOwn == Spec => []SentIsOwn
<1>1. DataInv => SentIsOwn
  BY DEF DataInv
<1> QED BY <1>1, DataInvariant, PTL DEF Spec

(* The entry of a request that waits reads its own KV until it is read.    *)
THEOREM HeldBlocksIntact == Spec => []HeldUntilRead
<1>1. TransferInv /\ DataInv => HeldUntilRead
  <2> SUFFICES ASSUME TransferInv, DataInv,
                      NEW r \in waiting_for_transfer_free \cap (pending \cup handed)
               PROVE  ReadSnapshot(kv, snapshot[r]) = Own(r)
    BY DEF HeldUntilRead, Own
  <2> USE DEF TransferInv, DataInv
  <2>1. TypeOK /\ OnceInv /\ CoverInv /\ MarkInv /\ ScheduledInv /\ ContentInv
    OBVIOUS
  <2>2. r \in Requests
    BY <2>1 DEF TypeOK
  <2>3. Kept(r) /\ status[r] = "held"
    BY <2>1, <2>2 DEF OnceInv, Kept
  <2>4. /\ computed[r] \in Nat /\ num_scheduled[r] \in Nat
        /\ table[r] \in Seq(Blocks)
    BY KVAssumption, <2>1, <2>2 DEF TypeOK
  <2>5. computed[r] <= Len(table[r]) * BlockSize
    BY <2>1, <2>2, <2>3 DEF CoverInv
  <2>6. snapshot[r] = EntryFor(r, computed[r])
    BY <2>1 DEF MarkInv
  <2>7. Done(r) = computed[r]
    BY <2>1, <2>2, <2>3, <2>4 DEF Done, ScheduledInv
  <2>8. \A p \in 1..computed[r] : kv[table[r][PlaceOf(p)]][SlotOf(p)] = <<r, p>>
    BY <2>1, <2>2, <2>3, <2>7 DEF ContentInv
  <2>9. /\ EntryFor(r, computed[r]).seq_len = computed[r]
        /\ ReadSnapshot(kv, EntryFor(r, computed[r])) =
             [p \in 1..computed[r] |-> kv[table[r][PlaceOf(p)]][SlotOf(p)]]
    BY <2>1, <2>2, <2>4, <2>5, EntryReads
  <2> QED BY <2>6, <2>8, <2>9 DEF Own
<1> QED BY <1>1, DataInvariant, PTL DEF Spec

-----------------------------------------------------------------------------
(* The shared-memory connector between the two managers: a receiver gets   *)
(* whole KV caches and leaves nothing behind.                              *)

(* What the put under way has done to its key.                             *)
PutInv(r) ==
  putting = r =>
    /\ put_result[r] = "no"
    /\ put_step \in {"attempt", "locked"} => segment[r] = "none"
    /\ put_step = "created" => segment[r] = "empty"
    /\ put_step = "sized" => segment[r] = "sized"
    /\ put_step = "written" => segment[r] = "written"
    /\ put_step # "attempt" => lock_file[r]

(* A key that is not being put holds a whole payload or nothing.           *)
KeyInv(r) ==
  /\ putting # r => segment[r] = "none" \/ (segment[r] = "written" /\ put_result[r] = "stored")
  /\ segment[r] # "none" => lock_file[r]

(* How far the reader is tells what is there: it holds the lock only once  *)
(* the writer is done.                                                     *)
GetInv(r) ==
  getting = r =>
    /\ received[r] = "no"
    /\ get_step = "polling" => tries < MaxTries
    /\ get_step \in {"opened", "waiting"} => segment[r] \in {"sized", "written"}
    /\ get_step \in {"locked", "copied"} => segment[r] = "written"
    /\ get_step = "unlinked" => segment[r] = "none"
    /\ get_step \in {"locked", "copied", "unlinked"} => put_result[r] = "stored"
    /\ get_step \in {"copied", "unlinked"} => data_bytes = "written"

(* What became of a receive.                                               *)
ReceivedInv(r) ==
  /\ received[r] # "torn"
  /\ received[r] = "kv" => put_result[r] = "stored" /\ segment[r] = "none" /\ ~lock_file[r]

RequestInv(r) == PutInv(r) /\ KeyInv(r) /\ GetInv(r) /\ ReceivedInv(r)

ShmInv == ShmTypeOK /\ \A r \in KVRequests : RequestInv(r)

(* Initially.                                                              *)
LEMMA ShmInitInv == ShmInit => ShmInv
BY ShmAssumption DEF ShmInit, ShmInv, ShmTypeOK, RequestInv, PutInv, KeyInv, GetInv, ReceivedInv,
     SegmentStates

(* A step of the writer touches the key it puts only, and a step of the    *)
(* reader the key it gets only: the others stay as they are.               *)
LEMMA SendKeeps ==
  ASSUME ShmInv, Send
  PROVE  ShmInv'
<1> USE ShmAssumption DEF ShmInv, putVars, getVars
<1>1. putting \in KVRequests /\ put_step \in PutSteps /\ attempt \in 1..MaxRetries
  BY DEF ShmTypeOK, Send, OpenLock, CreateSegment, TruncateSegment, WriteBytes, Writes, Putting,
         PutSucceeds, PutFails
<1>2. ShmTypeOK'
  <2>1. CASE OpenLock
    BY <1>1, <2>1 DEF ShmTypeOK, OpenLock, Putting, PutSteps
  <2>2. CASE CreateSegment \/ TruncateSegment \/ WriteBytes
    BY <1>1, <2>2 DEF ShmTypeOK, CreateSegment, TruncateSegment, WriteBytes, Writes, Putting, PutSteps, SegmentStates
  <2>3. CASE PutSucceeds
    BY <1>1, <2>3 DEF ShmTypeOK, PutSucceeds, PutEnds
  <2>4. CASE PutFails
    <3>1. segment' \in [KVRequests -> SegmentStates]
      BY <1>1, <2>4 DEF ShmTypeOK, PutFails, SegmentStates
    <3>2. CASE attempt < MaxRetries
      BY <1>1, <2>4, <3>1, <3>2 DEF ShmTypeOK, PutFails, PutSteps
    <3>3. CASE ~(attempt < MaxRetries)
      BY <1>1, <2>4, <3>1, <3>3 DEF ShmTypeOK, PutFails, PutEnds
    <3> QED BY <3>2, <3>3
  <2> QED BY <2>1, <2>2, <2>3, <2>4 DEF Send
<1>3. ASSUME NEW r \in KVRequests PROVE RequestInv(r)'
  <2>1. RequestInv(r) /\ RequestInv(putting)
    BY <1>1
  <2>2. CASE OpenLock
    BY <1>1, <2>1, <2>2 DEF OpenLock, Putting, ShmTypeOK, RequestInv, PutInv, KeyInv, GetInv, ReceivedInv
  <2>3. CASE CreateSegment
    BY <1>1, <2>1, <2>3 DEF CreateSegment, Writes, Putting, ShmTypeOK, RequestInv, PutInv, KeyInv, GetInv, ReceivedInv
  <2>4. CASE TruncateSegment
    BY <1>1, <2>1, <2>4 DEF TruncateSegment, Writes, Putting, ShmTypeOK, RequestInv, PutInv, KeyInv, GetInv, ReceivedInv
  <2>5. CASE WriteBytes
    BY <1>1, <2>1, <2>5 DEF WriteBytes, Writes, Putting, ShmTypeOK, RequestInv, PutInv, KeyInv, GetInv, ReceivedInv
  <2>6. CASE PutSucceeds
    BY <1>1, <2>1, <2>6 DEF PutSucceeds, PutEnds, ShmTypeOK, RequestInv, PutInv, KeyInv, GetInv, ReceivedInv
  <2>7. CASE PutFails
    BY <1>1, <2>1, <2>7 DEF PutFails, PutEnds, ShmTypeOK, RequestInv, PutInv, KeyInv, GetInv, ReceivedInv
  <2> QED BY <2>2, <2>3, <2>4, <2>5, <2>6, <2>7 DEF Send
<1> QED BY <1>2, <1>3

(* The same of the reader.                                                 *)
LEMMA ReceiveKeeps ==
  ASSUME ShmInv, Receive
  PROVE  ShmInv'
<1> USE ShmAssumption DEF ShmInv, putVars, getVars
<1>1. getting \in KVRequests /\ get_step \in GetSteps /\ tries \in 0..MaxTries
  BY DEF ShmTypeOK, Receive, Miss, Timeout, PollAgain, OpenSegment, OpenLockFile, LockShared,
         ReadBytes, Unlink, RemoveLockFile, Getting
<1>3. ASSUME NEW r \in KVRequests PROVE RequestInv(r)'
  <2>1. RequestInv(r) /\ RequestInv(getting)
    BY <1>1
  <2>2. CASE Miss
    BY <1>1, <2>1, <2>2 DEF Miss, Getting, ShmTypeOK, RequestInv, PutInv, KeyInv, GetInv, ReceivedInv
  <2>3. CASE Timeout
    BY <1>1, <2>1, <2>3 DEF Timeout, ReceiveEnds, ShmTypeOK, RequestInv, PutInv, KeyInv, GetInv, ReceivedInv
  <2>4. CASE PollAgain
    BY <1>1, <2>1, <2>4 DEF PollAgain, Getting, ShmTypeOK, RequestInv, PutInv, KeyInv, GetInv, ReceivedInv
  <2>5. CASE OpenSegment
    BY <1>1, <2>1, <2>5 DEF OpenSegment, ReceiveEnds, ShmTypeOK, SegmentStates, RequestInv, PutInv, KeyInv, GetInv, ReceivedInv
  <2>6. CASE OpenLockFile
    BY <1>1, <2>1, <2>6 DEF OpenLockFile, ReceiveEnds, ShmTypeOK, RequestInv, PutInv, KeyInv, GetInv, ReceivedInv
  <2>7. CASE LockShared
    BY <1>1, <2>1, <2>7 DEF LockShared, WriterHolds, PutSteps, Getting, ShmTypeOK, RequestInv, PutInv, KeyInv, GetInv, ReceivedInv
  <2>8. CASE ReadBytes
    BY <1>1, <2>1, <2>8 DEF ReadBytes, Getting, ShmTypeOK, RequestInv, PutInv, KeyInv, GetInv, ReceivedInv
  <2>9. CASE Unlink
    BY <1>1, <2>1, <2>9 DEF Unlink, Getting, ShmTypeOK, RequestInv, PutInv, KeyInv, GetInv, ReceivedInv
  <2>10. CASE RemoveLockFile
    BY <1>1, <2>1, <2>10 DEF RemoveLockFile, ReceiveEnds, ShmTypeOK, RequestInv, PutInv, KeyInv, GetInv, ReceivedInv
  <2> QED BY <2>2, <2>3, <2>4, <2>5, <2>6, <2>7, <2>8, <2>9, <2>10 DEF Receive
<1>2. ShmTypeOK'
  <2>1. RequestInv(getting)
    BY <1>1
  <2>2. UNCHANGED putVars /\ segment' \in [KVRequests -> SegmentStates] /\ lock_file' \in [KVRequests -> BOOLEAN]
    BY <1>1 DEF ShmTypeOK, Receive, Miss, Timeout, PollAgain, OpenSegment, OpenLockFile, LockShared,
         ReadBytes, Unlink, RemoveLockFile, Getting, SegmentStates
  <2>3. CASE \/ Miss \/ PollAgain \/ LockShared \/ ReadBytes \/ Unlink
    <3>1. tries' \in 0..MaxTries
      <4>1. CASE Miss
        BY <1>1, <2>1, <4>1 DEF Miss, Getting, RequestInv, GetInv
      <4> QED BY <1>1, <2>3, <4>1 DEF PollAgain, LockShared, ReadBytes, Unlink
    <3>2. getting' \in KVRequests /\ get_step' \in GetSteps
      BY <1>1, <2>3 DEF Miss, PollAgain, LockShared, ReadBytes, Unlink, Getting, GetSteps
    <3>3. data_bytes' \in SegmentStates /\ received' = received
      BY <1>1, <2>3 DEF ShmTypeOK, Miss, PollAgain, LockShared, ReadBytes, Unlink, Getting
    <3> QED BY <2>2, <3>1, <3>2, <3>3 DEF ShmTypeOK
  <2>4. CASE \/ Timeout \/ OpenSegment \/ OpenLockFile \/ RemoveLockFile
    BY <1>1, <2>1, <2>2, <2>4 DEF ShmTypeOK, Timeout, OpenSegment, OpenLockFile, RemoveLockFile, ReceiveEnds,
         GetSteps, SegmentStates, RequestInv, GetInv
  <2> QED BY <2>3, <2>4 DEF Receive
<1> QED BY <1>2, <1>3

(* A put or a receive begins.                                              *)
LEMMA BeginKeeps ==
  ASSUME ShmInv, NEW q \in KVRequests, TransferKVCache(q) \/ ReceiveKVCache(q)
  PROVE  ShmInv'
<1> USE ShmAssumption DEF ShmInv, putVars, getVars
<1>1. ShmTypeOK'
  BY DEF ShmTypeOK, TransferKVCache, ReceiveKVCache, PutSteps, GetSteps, SegmentStates
<1>2. ASSUME NEW r \in KVRequests PROVE RequestInv(r)'
  BY DEF ShmTypeOK, TransferKVCache, ReceiveKVCache, PutSteps, GetSteps,
         RequestInv, PutInv, KeyInv, GetInv, ReceivedInv
<1> QED BY <1>1, <1>2

(* Every step.                                                             *)
LEMMA ShmNextInv == ShmInv /\ [ShmNext]_shmVars => ShmInv'
<1> SUFFICES ASSUME ShmInv, [ShmNext]_shmVars PROVE ShmInv'
  OBVIOUS
<1>1. CASE UNCHANGED shmVars
  BY <1>1 DEF shmVars, putVars, getVars, ShmInv, ShmTypeOK, RequestInv, PutInv, KeyInv, GetInv, ReceivedInv
<1> QED BY <1>1, SendKeeps, ReceiveKeeps, BeginKeeps DEF ShmNext

(* The invariant holds for any requests, retries and deadlines.            *)
THEOREM ShmInvariant == ShmSafety => []ShmInv
BY ShmInitInv, ShmNextInv, PTL DEF ShmSafety

(* Every variable keeps its type.                                          *)
THEOREM ShmTypeCorrect == ShmSpec => []ShmTypeOK
<1>1. ShmInv => ShmTypeOK
  BY DEF ShmInv
<1> QED BY <1>1, ShmInvariant, PTL DEF ShmSpec

(* For any requests, retries, deadlines and interleaving of the two        *)
(* processes, nobody receives a part of a KV cache.                        *)
THEOREM WholeOrNothing == ShmSpec => []ReceivedIsWhole
<1>1. ShmInv => ReceivedIsWhole
  BY ShmAssumption DEF ShmInv, ReceivedIsWhole, RequestInv, GetInv, ReceivedInv, ShmTypeOK, GetSteps
<1> QED BY <1>1, ShmInvariant, PTL DEF ShmSpec

(* A reader that finds a segment finds its lock file, and what it received *)
(* is gone.                                                                *)
THEOREM NothingLeft == ShmSpec => []KeysAreClean
<1>1. ShmInv => KeysAreClean
  BY DEF ShmInv, KeysAreClean, RequestInv, KeyInv, ReceivedInv
<1> QED BY <1>1, ShmInvariant, PTL DEF ShmSpec
=============================================================================
