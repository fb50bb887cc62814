----------------------------- MODULE KVTransfer ------------------------------
(***************************************************************************)
(* The hand-over of a request's KV cache to the next stage: OmniARScheduler *)
(* marks a request (when a criterion fires while it runs, or when it       *)
(* finishes), hands the mark to the model runner with the next schedule,   *)
(* the runner reads the blocks before its forward pass and acknowledges,   *)
(* and only then are the blocks of a finished request given back.          *)
(*                                                                         *)
(* need_send_cache is set (without it none of this runs), one batch is in  *)
(* flight and each decoding step samples one token.  A token is named by   *)
(* its request and position, so a block that was given to somebody else is *)
(* recognised by what it holds.  The base scheduler is external: it may    *)
(* schedule and preempt whichever requests the free blocks allow.          *)
(***************************************************************************)
EXTENDS Integers, Sequences, FiniteSets

CONSTANTS
  Requests,        \* request ids; each is used once
  Blocks,          \* the blocks of the KV cache
  BlockSize,       \* tokens per block
  PromptLen,       \* prompt tokens of a request
  MaxOutput,       \* max_tokens of a request
  Criteria,        \* the types of kv_transfer_criteria considered
  MayAbort,        \* whether clients abort requests
  MaxPreempts,     \* bound: preemptions
  MaxWrapErrors    \* bound: schedules whose wrapping raises

ASSUME KVAssumption ==
  /\ BlockSize \in Nat \ {0}
  /\ PromptLen \in Nat \ {0}
  /\ MaxOutput \in Nat \ {0}
  /\ Criteria \subseteq {"none", "prefill_finished", "special_token"}
  /\ MayAbort \in BOOLEAN
  /\ MaxPreempts \in Nat
  /\ MaxWrapErrors \in Nat

VARIABLES
  criteria,        \* type of kv_transfer_criteria, or "none"
  phase,           \* where the engine loop is in its step
  status,          \* of each request; "held" is finished with its blocks kept
  tokens,          \* prompt and sampled tokens of a request
  computed,        \* num_computed_tokens
  table,           \* the blocks of a request, in order
  num_scheduled,   \* num_scheduled_tokens of this step; 0 for not scheduled
  finished_req_ids,
  pending,         \* keys of requests_needing_kv_transfer
  snapshot,        \* the latest entry made there for a request
  waiting_for_transfer_free,
  active_kv_transfers,
  transfer_triggered,
  handed,          \* finished_requests_needing_kv_transfer of this step
  acks,            \* kv_extracted_req_ids of the runner's output
  todo,            \* requests update_from_output has yet to go through
  kv,              \* what each slot of each block holds
  sent,            \* the snapshots extracted for a request
  put_off,         \* requests pending at a schedule that raised (history)
  preempts, wrap_errors

transferVars == <<pending, snapshot, waiting_for_transfer_free,
                  active_kv_transfers, transfer_triggered>>
requestVars == <<status, tokens, computed, table, finished_req_ids>>
stepVars == <<num_scheduled, handed, acks, todo>>
runnerVars == <<kv, sent>>
boundVars == <<put_off, preempts, wrap_errors>>
vars == <<criteria, phase, requestVars, stepVars, transferVars, runnerVars,
          boundVars>>

Empty == "empty"
NothingScheduled == [r \in Requests |-> 0]

Init ==
  /\ criteria \in Criteria
  /\ phase = "idle"
  /\ status = [r \in Requests |-> "new"]
  /\ tokens = [r \in Requests |-> PromptLen]
  /\ computed = [r \in Requests |-> 0]
  /\ table = [r \in Requests |-> <<>>]
  /\ num_scheduled = NothingScheduled
  /\ finished_req_ids = {}
  /\ pending = {}
  /\ snapshot = [r \in Requests |-> [seq_len |-> 0, block_ids |-> <<>>]]
  /\ waiting_for_transfer_free = {}
  /\ active_kv_transfers = {}
  /\ transfer_triggered = {}
  /\ handed = {}
  /\ acks = {}
  /\ todo = {}
  /\ kv = [b \in Blocks |-> [s \in 1..BlockSize |-> Empty]]
  /\ sent = [r \in Requests |-> <<>>]
  /\ put_off = {}
  /\ preempts = 0
  /\ wrap_errors = 0

-----------------------------------------------------------------------------
(* The KV cache manager and its blocks.                                    *)

BlocksFor(n) == (n + BlockSize - 1) \div BlockSize
BlocksOf(r) == {table[r][i] : i \in 1..Len(table[r])}
FreeBlocks == Blocks \ UNION {BlocksOf(r) : r \in Requests}
BlocksWanted(r, n) == BlocksFor(computed[r] + n) - Len(table[r])

(* The position whose KV the block at place i of a table has in slot s.    *)
Position(i, s) == (i - 1) * BlockSize + s

(* What a snapshot reads from the cache: its blocks one after the other,   *)
(* cut to seq_len.                                                         *)
ReadSnapshot(cache, snap) ==
  LET flat == Len(snap.block_ids) * BlockSize
      n == IF snap.seq_len < flat THEN snap.seq_len ELSE flat
      block(p) == snap.block_ids[((p - 1) \div BlockSize) + 1]
  IN [p \in 1..n |-> cache[block(p)][((p - 1) % BlockSize) + 1]]

-----------------------------------------------------------------------------
(* Marking and freeing.                                                    *)

(* The entry _mark_request_for_kv_transfer makes: no more blocks than      *)
(* seq_len tokens take.                                                    *)
EntryFor(r, seq_len) ==
  LET wanted == BlocksFor(seq_len)
      n == IF Len(table[r]) > wanted THEN wanted ELSE Len(table[r])
  IN [seq_len |-> seq_len, block_ids |-> SubSeq(table[r], 1, n)]
Mark(r, seq_len) ==
  IF r \in pending
  THEN UNCHANGED <<pending, snapshot>>
  ELSE /\ pending' = pending \cup {r}
       /\ snapshot' = [snapshot EXCEPT ![r] = EntryFor(r, seq_len)]

(* Faulty: without the early return the blocks are freed as well.          *)
HoldFallsThrough(r) ==
  /\ waiting_for_transfer_free' = waiting_for_transfer_free \cup {r}
  /\ status' = [status EXCEPT ![r] = "held"]
  /\ table' = [table EXCEPT ![r] = <<>>]

(* The blocks stay with the request until the runner acknowledges.         *)
Hold(r) ==
  /\ waiting_for_transfer_free' = waiting_for_transfer_free \cup {r}
  /\ status' = [status EXCEPT ![r] = "held"]
  /\ UNCHANGED table

Release(r) ==
  /\ status' = [status EXCEPT ![r] = "gone"]
  /\ table' = [table EXCEPT ![r] = <<>>]
  /\ UNCHANGED waiting_for_transfer_free

(* A triggered transfer that is not active counts as acknowledged.         *)
FreeRequest(r) ==
  /\ finished_req_ids' = finished_req_ids \cup {r}
  /\ \/ /\ r \in transfer_triggered
        /\ IF r \in active_kv_transfers THEN Hold(r) ELSE Release(r)
        /\ UNCHANGED <<pending, snapshot>>
     \/ /\ r \notin transfer_triggered
        /\ Hold(r)
        /\ Mark(r, computed[r])
Live(r) == status[r] \in {"waiting", "running"}

-----------------------------------------------------------------------------
(* Clients; the engine takes their requests and aborts between two steps,  *)
(* and aborts also while the model runs.                                   *)

AddRequest(r) ==
  /\ phase = "idle" /\ status[r] = "new"
  /\ status' = [status EXCEPT ![r] = "waiting"]
  /\ UNCHANGED <<criteria, phase, tokens, computed, table, finished_req_ids,
                 stepVars, transferVars, runnerVars, boundVars>>

(* finish_requests of the base scheduler takes the request off its queue.  *)
Abort(r) ==
  /\ MayAbort
  /\ \/ phase = "idle"
     \/ phase = "update" /\ todo = {q \in Requests : num_scheduled[q] > 0}
  /\ Live(r)
  /\ FreeRequest(r)
  /\ UNCHANGED <<criteria, phase, tokens, computed, stepVars,
                 active_kv_transfers, transfer_triggered, runnerVars,
                 boundVars>>

(* Faulty: the base scheduler's, which knows no transfers.       *)
HasRequestsNotPending ==
  finished_req_ids # {} \/ \E r \in Requests : Live(r)

-----------------------------------------------------------------------------
(* schedule(), one decision of the base scheduler at a time.               *)

HasRequests ==
  \/ pending # {} \/ active_kv_transfers # {} \/ waiting_for_transfer_free # {}
  \/ finished_req_ids # {} \/ \E r \in Requests : Live(r)
StartStep ==
  /\ phase = "idle" /\ HasRequests
  /\ phase' = "schedule"
  /\ num_scheduled' = NothingScheduled
  /\ UNCHANGED <<criteria, requestVars, handed, acks, todo, transferVars,
                 runnerVars, boundVars>>

CanSchedule(r) ==
  /\ Live(r) /\ num_scheduled[r] = 0
  /\ BlocksWanted(r, 1) <= Cardinality(FreeBlocks)

(* allocate_slots and _update_after_schedule for a request that gets n     *)
(* tokens in this step.                                                    *)
ScheduleTokens(r, n) ==
  /\ phase = "schedule"
  /\ Live(r) /\ num_scheduled[r] = 0
  /\ n <= tokens[r] - computed[r]
  /\ \E new \in [1..BlocksWanted(r, n) -> FreeBlocks] :
       /\ \A i, j \in 1..BlocksWanted(r, n) : new[i] = new[j] => i = j
       /\ table' = [table EXCEPT ![r] = table[r] \o new]
  /\ num_scheduled' = [num_scheduled EXCEPT ![r] = n]
  /\ computed' = [computed EXCEPT ![r] = @ + n]
  /\ status' = [status EXCEPT ![r] = "running"]
  /\ UNCHANGED <<criteria, phase, tokens, finished_req_ids, handed, acks,
                 todo, transferVars, runnerVars, boundVars>>

(* A running request gives its blocks to others and starts over later.     *)
Preempt(r) ==
  /\ phase = "schedule" /\ preempts < MaxPreempts
  /\ status[r] = "running" /\ num_scheduled[r] = 0
  /\ status' = [status EXCEPT ![r] = "waiting"]
  /\ computed' = [computed EXCEPT ![r] = 0]
  /\ table' = [table EXCEPT ![r] = <<>>]
  /\ preempts' = preempts + 1
  /\ UNCHANGED <<criteria, phase, tokens, finished_req_ids, stepVars,
                 transferVars, runnerVars, put_off, wrap_errors>>

(* The base scheduler passes over everybody only if nobody can run.        *)
EndSchedule ==
  /\ phase = "schedule"
  /\ num_scheduled = NothingScheduled => \A r \in Requests : ~CanSchedule(r)
  /\ finished_req_ids' = {}
  /\ phase' = "execute"
  /\ UNCHANGED <<criteria, status, tokens, computed, table, num_scheduled,
                 acks, todo, runnerVars, preempts>>

(* get_finished_requests_needing_kv_transfer.                              *)
HandOver ==
  /\ EndSchedule
  /\ handed' = pending
  /\ active_kv_transfers' = active_kv_transfers \cup pending
  /\ pending' = {}
  /\ UNCHANGED <<snapshot, waiting_for_transfer_free, transfer_triggered,
                 put_off, wrap_errors>>
(* Rewrapping the scheduled requests raised: nothing is handed over yet.   *)
HandOverFails ==
  /\ EndSchedule
  /\ wrap_errors < MaxWrapErrors
  /\ wrap_errors' = wrap_errors + 1
  /\ put_off' = put_off \cup pending
  /\ handed' = {}
  /\ UNCHANGED transferVars

-----------------------------------------------------------------------------
(* The model runner: extraction, then the forward pass, then its output.   *)

Written(r) == computed[r] - num_scheduled[r] + 1 .. computed[r]

ForwardPass ==
  [b \in Blocks |-> [s \in 1..BlockSize |->
    LET here == {x \in Requests \X (1..PromptLen + MaxOutput) :
                   /\ x[2] \in Written(x[1])
                   /\ \E i \in 1..Len(table[x[1]]) :
                        table[x[1]][i] = b /\ x[2] = Position(i, s)}
    IN IF here = {} THEN kv[b][s] ELSE CHOOSE x \in here : TRUE]]

(* Faulty: the blocks are read after the forward pass.                     *)
ExecuteReadsLate ==
  /\ phase = "execute"
  /\ kv' = ForwardPass
  /\ sent' = [r \in Requests |->
       IF r \in handed /\ snapshot[r].block_ids # <<>>
       THEN Append(sent[r], ReadSnapshot(kv', snapshot[r])) ELSE sent[r]]
  /\ acks' = IF num_scheduled = NothingScheduled THEN {} ELSE handed
  /\ handed' = {}
  /\ todo' = {r \in Requests : num_scheduled[r] > 0}
  /\ phase' = "update"
  /\ UNCHANGED <<criteria, requestVars, num_scheduled, transferVars,
                 boundVars>>

(* An empty batch is answered with the constant empty output, which has no *)
(* kv_extracted_req_ids; those of this step are overwritten by the next.   *)
Execute ==
  /\ phase = "execute"
  /\ sent' = [r \in Requests |->
       IF r \in handed /\ snapshot[r].block_ids # <<>>
       THEN Append(sent[r], ReadSnapshot(kv, snapshot[r])) ELSE sent[r]]
  /\ kv' = ForwardPass
  /\ acks' = IF num_scheduled = NothingScheduled THEN {} ELSE handed
  /\ handed' = {}
  /\ todo' = {r \in Requests : num_scheduled[r] > 0}
  /\ phase' = "update"
  /\ UNCHANGED <<criteria, requestVars, num_scheduled, transferVars,
                 boundVars>>

-----------------------------------------------------------------------------
(* update_from_output.                                                     *)

Fires(r, sentinel) ==
  \/ criteria = "prefill_finished" /\ computed[r] >= PromptLen
  \/ criteria = "special_token" /\ sentinel

(* Faulty: no check for a transfer that was triggered before.    *)
ProcessTriggerAgain(r, sentinel) ==
  IF Fires(r, sentinel)
  THEN /\ transfer_triggered' = transfer_triggered \cup {r}
       /\ Mark(r, computed[r])
  ELSE UNCHANGED <<transfer_triggered, pending, snapshot>>

(* With one sampled token no token follows the sentinel, so the snapshot   *)
(* is all that was computed.                                               *)
ProcessTrigger(r, sentinel) ==
  IF /\ r \notin waiting_for_transfer_free \cup transfer_triggered
     /\ Fires(r, sentinel)
  THEN /\ transfer_triggered' = transfer_triggered \cup {r}
       /\ Mark(r, computed[r])
  ELSE UNCHANGED <<transfer_triggered, pending, snapshot>>
Stopped(r) ==
  /\ FreeRequest(r)
  /\ IF r \in waiting_for_transfer_free'
     THEN UNCHANGED <<transfer_triggered, active_kv_transfers>>
     ELSE /\ transfer_triggered' = transfer_triggered \ {r}
          /\ active_kv_transfers' = active_kv_transfers \ {r}
(* Finished while the model ran: skipped.                                  *)
UpdateFinished(r) ==
  /\ phase = "update" /\ r \in todo /\ ~Live(r)
  /\ todo' = todo \ {r}
  /\ UNCHANGED <<criteria, phase, requestVars, num_scheduled, handed, acks,
                 transferVars, runnerVars, boundVars>>

(* A token is sampled once all the request's tokens are computed.          *)
UpdateRequest(r, stop, sentinel) ==
  /\ phase = "update" /\ r \in todo /\ Live(r)
  /\ todo' = todo \ {r}
  /\ LET sampled == computed[r] = tokens[r]
     IN /\ tokens' = IF sampled THEN [tokens EXCEPT ![r] = @ + 1] ELSE tokens
        /\ stop => sampled
        /\ sentinel => sampled /\ criteria = "special_token"
        /\ sampled /\ tokens[r] + 1 = PromptLen + MaxOutput => stop
  /\ IF stop
     THEN Stopped(r)
     ELSE /\ ProcessTrigger(r, sentinel)
          /\ UNCHANGED <<status, table, finished_req_ids,
                         waiting_for_transfer_free, active_kv_transfers>>
  /\ UNCHANGED <<criteria, phase, computed, num_scheduled, handed, acks,
                 runnerVars, boundVars>>

(* The blocks that were held for acknowledged transfers are given back.    *)
Acknowledge ==
  /\ phase = "update" /\ todo = {}
  /\ LET done == acks \cap waiting_for_transfer_free
     IN /\ status' = [r \in Requests |->
                        IF r \in done THEN "gone" ELSE status[r]]
        /\ table' = [r \in Requests |-> IF r \in done THEN <<>> ELSE table[r]]
        /\ transfer_triggered' = transfer_triggered \ done
        /\ waiting_for_transfer_free' = waiting_for_transfer_free \ done
  /\ active_kv_transfers' = active_kv_transfers \ acks
  /\ acks' = {}
  /\ phase' = "idle"
  /\ UNCHANGED <<criteria, tokens, computed, finished_req_ids, num_scheduled,
                 handed, todo, pending, snapshot, runnerVars, boundVars>>

-----------------------------------------------------------------------------
EngineStep ==
  \/ StartStep
  \/ \E r \in Requests, n \in 1..PromptLen + MaxOutput : ScheduleTokens(r, n)
  \/ \E r \in Requests : Preempt(r)
  \/ HandOver
  \/ HandOverFails
  \/ Execute
  \/ \E r \in Requests, stop, sentinel \in BOOLEAN :
       UpdateRequest(r, stop, sentinel)
  \/ \E r \in Requests : UpdateFinished(r)
  \/ Acknowledge

Next ==
  \/ EngineStep
  \/ \E r \in Requests : AddRequest(r)
  \/ \E r \in Requests : Abort(r)

Safety == Init /\ [][Next]_vars

(* The engine's loop keeps stepping; clients need not do anything.         *)
Spec == Safety /\ WF_vars(EngineStep)

-----------------------------------------------------------------------------
(* Properties.                                                             *)

Statuses == {"new", "waiting", "running", "held", "gone"}

(* The types, and what each phase leaves empty.                            *)
TypeOK ==
  /\ phase \in {"idle", "schedule", "execute", "update"}
  /\ status \in [Requests -> Statuses]
  /\ tokens \in [Requests -> PromptLen..PromptLen + MaxOutput]
  /\ computed \in [Requests -> 0..PromptLen + MaxOutput]
  /\ table \in [Requests -> Seq(Blocks)]
  /\ num_scheduled \in [Requests -> 0..PromptLen + MaxOutput]
  /\ snapshot \in [Requests -> [seq_len : Nat, block_ids : Seq(Blocks)]]
  /\ pending \subseteq Requests /\ handed \subseteq Requests
  /\ acks \subseteq Requests /\ todo \subseteq Requests
  /\ finished_req_ids \subseteq Requests /\ put_off \subseteq Requests
  /\ waiting_for_transfer_free \subseteq Requests
  /\ active_kv_transfers \subseteq Requests
  /\ transfer_triggered \subseteq Requests
  /\ handed # {} => phase = "execute"
  /\ todo # {} \/ acks # {} => phase = "update"
  /\ preempts \in Nat /\ wrap_errors \in Nat

(* Extraction before the forward pass (execute_model's order): what is     *)
(* sent for a request is its own KV from the first token to seq_len,       *)
(* although the request may have been preempted or aborted, and its blocks *)
(* given to others, since it was marked.                                   *)
SentIsOwn ==
  \A r \in Requests \ put_off : \A i \in 1..Len(sent[r]) :
    sent[r][i] = [p \in 1..snapshot[r].seq_len |-> <<r, p>>]

(* _free_request's "We MUST wait": as long as the transfer of a finished   *)
(* request is pending, its entry still reads the request's own KV, even    *)
(* if a schedule failed to hand it over.                                   *)
HeldUntilRead ==
  \A r \in waiting_for_transfer_free \cap (pending \cup handed) :
    ReadSnapshot(kv, snapshot[r]) = [p \in 1..snapshot[r].seq_len |-> <<r, p>>]

(* "Once semantics" of the duplicate checks: the trigger, the finish, an   *)
(* abort and a preemption together hand a request over at most once.       *)
SentOnce == \A r \in Requests : Len(sent[r]) <= 1

(* Nobody waits for an acknowledgement that was never asked for: a request *)
(* whose blocks are held has a transfer pending or active, and a live one  *)
(* with a transfer has been triggered.                                     *)
WaitersHaveTransfer ==
  /\ waiting_for_transfer_free \subseteq pending \cup active_kv_transfers
  /\ \A r \in pending \cup active_kv_transfers :
       Live(r) => r \in transfer_triggered

(* Both: as many transfers as are needed, neither two nor none.            *)
TransferredOnce == SentOnce /\ WaitersHaveTransfer

(* has_requests keeps the loop running until every pending transfer has    *)
(* been handed over, also after the last request has finished.             *)
PendingIsHandedOver ==
  \A r \in Requests : r \in pending ~> r \notin pending

(* "This is where we free blocks that were held for transfer": the blocks  *)
(* of every finished request are given back.                               *)
HeldBlocksAreFreed ==
  \A r \in Requests : status[r] = "held" ~> status[r] = "gone"
=============================================================================
