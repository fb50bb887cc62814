--------------------------- MODULE ChunkGeneration --------------------------
(***************************************************************************)
(* A generation-mode stage that consumes async chunks: the engine thread   *)
(* runs OmniGenerationScheduler (schedule, model step, update_from_output) *)
(* around the consumer end of ChunkLink, while the receive thread rewrites *)
(* the status, the prompt and the progress of the very request objects the *)
(* scheduler queues.                                                       *)
(*                                                                         *)
(* The prompt of a request is one chunk of ChunkTokens tokens; blocks of   *)
(* the KV cache never run out, so the fast path never breaks and the base  *)
(* scheduler it falls back to finds nothing to do.                         *)
(***************************************************************************)
EXTENDS ChunkLink, Selection

CONSTANTS
  MaxNumSeqs,          \* max_num_seqs = max_num_running_reqs
  TokenBudget,         \* max_num_scheduled_tokens
  ChunkTokens,         \* tokens in the prompt one chunk carries
  MaxAborts            \* bound: requests a client aborts

ASSUME GenerationAssumption ==
  /\ Generation
  /\ MaxNumSeqs \in Nat \ {0}
  /\ TokenBudget \in Nat \ {0}
  /\ ChunkTokens \in Nat \ {0}
  /\ MaxAborts \in Nat

VARIABLES
  requests,            \* the scheduler's live requests
  status,              \* request.status
  num_computed_tokens,
  waiting, running,    \* the scheduler's queues
  waiting_for_chunk_waiting_requests,
  waiting_for_chunk_running_requests,
  requests_with_ready_chunks,
  loaded,              \* finished_load_reqs of this process_pending_chunks
  snapshot,            \* what _process_chunk_queue has still to visit
  marking,             \* the request between load_async and its new status
  engine_pc,           \* "idle", "waiting", "running", "schedule", "update"
  batch,               \* the steps of scheduler_output, in order
  emitted,             \* the steps whose output went to the client (history,
                       \* bounded by HistoryLength)
  aborted              \* requests a client aborted (history)

queueVars == <<waiting, running, waiting_for_chunk_waiting_requests,
               waiting_for_chunk_running_requests>>
engineVars == <<requests, status, num_computed_tokens, queueVars,
                requests_with_ready_chunks, loaded, snapshot, marking,
                engine_pc, batch, emitted, aborted>>
vars == <<linkVars, engineVars>>

Init ==
  /\ LinkInit
  /\ requests = {}
  /\ status = [r \in Reqs |-> "NEW"]
  /\ num_computed_tokens = [r \in Reqs |-> 0]
  /\ waiting = <<>> /\ running = <<>>
  /\ waiting_for_chunk_waiting_requests = <<>>
  /\ waiting_for_chunk_running_requests = <<>>
  /\ requests_with_ready_chunks = {}
  /\ loaded = {}
  /\ snapshot = <<>>
  /\ marking = NoReq
  /\ engine_pc = "idle"
  /\ batch = <<>>
  /\ emitted = [r \in Reqs |-> <<>>]
  /\ aborted = {}

Finished == {"FINISHED_STOPPED", "FINISHED_ABORTED"}

-----------------------------------------------------------------------------
(* The engine core between two steps: a new request (its prompt is a       *)
(* placeholder until the first chunk), or an abort, which vLLM's           *)
(* finish_requests takes out of the queue its status points to.            *)
AddRequest(r) ==
  /\ engine_pc = "idle"
  /\ status[r] = "NEW"
  /\ requests' = requests \union {r}
  /\ status' = [status EXCEPT ![r] = "WAITING"]
  /\ waiting' = Append(waiting, r)
  /\ UNCHANGED <<linkVars, num_computed_tokens, running,
                 waiting_for_chunk_waiting_requests,
                 waiting_for_chunk_running_requests, requests_with_ready_chunks,
                 loaded, snapshot, marking, engine_pc, batch, emitted, aborted>>

Abort(r) ==
  /\ engine_pc = "idle"
  /\ r \in requests /\ status[r] \notin Finished
  /\ Cardinality(aborted) < MaxAborts
  /\ aborted' = aborted \union {r}
  /\ running' = IF status[r] = "RUNNING" THEN Without(running, {r}) ELSE running
  /\ waiting' = IF status[r] = "RUNNING" THEN waiting ELSE Without(waiting, {r})
  /\ status' = [status EXCEPT ![r] = "FINISHED_ABORTED"]
  /\ requests' = requests \ {r}
  /\ UNCHANGED <<linkVars, num_computed_tokens,
                 waiting_for_chunk_waiting_requests,
                 waiting_for_chunk_running_requests, requests_with_ready_chunks,
                 loaded, snapshot, marking, engine_pc, batch, emitted>>

-----------------------------------------------------------------------------
(* schedule(): process_pending_chunks visits the waiting queue, then the   *)
(* running queue.  The receive thread runs between any two visits.         *)
(* Faulty: the set of loaded requests is cleared before it is copied.      *)
BeginScheduleClearsFirst ==
  /\ engine_pc = "idle"
  /\ waiting # <<>> \/ running # <<>>
  /\ GetFinishedRequests
  /\ loaded' = finished_load_reqs'
  /\ snapshot' = waiting
  /\ engine_pc' = "waiting"
  /\ UNCHANGED <<producerVars, save_task, store, lost, recvVars,
                 pending_load_reqs, requests, status, num_computed_tokens,
                 queueVars, requests_with_ready_chunks, marking, batch, emitted,
                 aborted>>

BeginSchedule ==
  /\ engine_pc = "idle"
  /\ waiting # <<>> \/ running # <<>>
  /\ loaded' = finished_load_reqs
  /\ GetFinishedRequests
  /\ snapshot' = waiting
  /\ engine_pc' = "waiting"
  /\ UNCHANGED <<producerVars, save_task, store, lost, recvVars,
                 pending_load_reqs, requests, status, num_computed_tokens,
                 queueVars, requests_with_ready_chunks, marking, batch, emitted,
                 aborted>>

(* Faulty: the request joins the deque and stays in its queue.             *)
ParkStays(r) ==
  IF engine_pc = "waiting"
  THEN /\ waiting_for_chunk_waiting_requests' =
            Append(waiting_for_chunk_waiting_requests, r)
       /\ UNCHANGED <<waiting, running, waiting_for_chunk_running_requests>>
  ELSE /\ waiting_for_chunk_running_requests' =
            Append(waiting_for_chunk_running_requests, r)
       /\ UNCHANGED <<waiting, running, waiting_for_chunk_waiting_requests>>

(* The request leaves its queue for the deque of requests waiting for a    *)
(* chunk.                                                                  *)
Park(r) ==
  IF engine_pc = "waiting"
  THEN /\ waiting' = Without(waiting, {r})
       /\ waiting_for_chunk_waiting_requests' =
            Append(waiting_for_chunk_waiting_requests, r)
       /\ UNCHANGED <<running, waiting_for_chunk_running_requests>>
  ELSE /\ running' = Without(running, {r})
       /\ waiting_for_chunk_running_requests' =
            Append(waiting_for_chunk_running_requests, r)
       /\ UNCHANGED <<waiting, waiting_for_chunk_waiting_requests>>

Visiting == engine_pc \in {"waiting", "running"} /\ snapshot # <<>>
Visited == Head(snapshot)

(* Faulty: forgets the requests whose loaded chunk was not scheduled yet.  *)
HasChunkFinishedOnly(r) == r \in finished_requests

HasChunk(r) == r \in requests_with_ready_chunks \union finished_requests

(* A chunk of an earlier round is still unused, or no more are to come.    *)
VisitReady ==
  /\ Visiting /\ marking = NoReq
  /\ status[Visited] # "WAITING_FOR_CHUNK" /\ HasChunk(Visited)
  /\ snapshot' = Tail(snapshot)
  /\ UNCHANGED <<linkVars, requests, status, num_computed_tokens, queueVars,
                 requests_with_ready_chunks, loaded, marking, engine_pc, batch,
                 emitted, aborted>>

(* A chunk is needed: the request is registered first and its status       *)
(* changed second, and the receive thread may run in between.              *)
VisitAsk ==
  /\ Visiting /\ marking = NoReq
  /\ status[Visited] # "WAITING_FOR_CHUNK" /\ ~HasChunk(Visited)
  /\ LoadAsync(Visited)
  /\ marking' = Visited
  /\ UNCHANGED <<producerVars, save_task, store, lost, recvVars,
                 finished_load_reqs, requests, status, num_computed_tokens,
                 queueVars, requests_with_ready_chunks, loaded, snapshot,
                 engine_pc, batch, emitted, aborted>>

(* Faulty: the request is not taken out of the schedulable queue.          *)
VisitAskMarkUnparked ==
  /\ Visiting /\ marking # NoReq
  /\ status' = [status EXCEPT ![marking] = "WAITING_FOR_CHUNK"]
  /\ snapshot' = Tail(snapshot)
  /\ marking' = NoReq
  /\ UNCHANGED <<linkVars, requests, num_computed_tokens, queueVars,
                 requests_with_ready_chunks, loaded, engine_pc, batch, emitted,
                 aborted>>

VisitAskMark ==
  /\ Visiting /\ marking # NoReq
  /\ status' = [status EXCEPT ![marking] = "WAITING_FOR_CHUNK"]
  /\ Park(marking)
  /\ snapshot' = Tail(snapshot)
  /\ marking' = NoReq
  /\ UNCHANGED <<linkVars, requests, num_computed_tokens,
                 requests_with_ready_chunks, loaded, engine_pc, batch, emitted,
                 aborted>>

(* The chunk the request waited for is there.                              *)
VisitLoaded ==
  /\ Visiting /\ marking = NoReq
  /\ status[Visited] = "WAITING_FOR_CHUNK" /\ Visited \in loaded
  /\ status' = [status EXCEPT ![Visited] = IF engine_pc = "waiting" THEN "WAITING"
                                                                  ELSE "RUNNING"]
  /\ requests_with_ready_chunks' = requests_with_ready_chunks \union {Visited}
  /\ snapshot' = Tail(snapshot)
  /\ UNCHANGED <<linkVars, requests, num_computed_tokens, queueVars, loaded,
                 marking, engine_pc, batch, emitted, aborted>>

VisitUnloaded ==
  /\ Visiting /\ marking = NoReq
  /\ status[Visited] = "WAITING_FOR_CHUNK" /\ Visited \notin loaded
  /\ Park(Visited)
  /\ snapshot' = Tail(snapshot)
  /\ UNCHANGED <<linkVars, requests, status, num_computed_tokens,
                 requests_with_ready_chunks, loaded, marking, engine_pc, batch,
                 emitted, aborted>>

NextQueue ==
  /\ engine_pc \in {"waiting", "running"} /\ snapshot = <<>>
  /\ IF engine_pc = "waiting"
     THEN snapshot' = running /\ engine_pc' = "running"
     ELSE snapshot' = <<>> /\ engine_pc' = "schedule"
  /\ UNCHANGED <<linkVars, requests, status, num_computed_tokens, queueVars,
                 requests_with_ready_chunks, loaded, marking, batch, emitted,
                 aborted>>

ProcessPendingChunks ==
  VisitReady \/ VisitAsk \/ VisitAskMark \/ VisitLoaded \/ VisitUnloaded \/ NextQueue

-----------------------------------------------------------------------------
(* process_pending_chunks ends by moving the tail of an overlong running   *)
(* queue to the head of the waiting queue.                                 *)
Kept == IF Len(running) <= MaxNumSeqs THEN running
                                      ELSE SubSeq(running, 1, MaxNumSeqs)
Trimmed == SubSeq(running, Len(Kept) + 1, Len(running))

Smaller(a, b) == IF a < b THEN a ELSE b
Larger(a, b) == IF a > b THEN a ELSE b

(* Faulty: no placeholder token for a prompt that is used up.              *)
RequiredUnpadded(r, computed) ==
  (IF held[r] = <<>> THEN 1 ELSE ChunkTokens) - computed

(* What the fast path takes of a request; a waiting one is taken as new.   *)
(* The placeholder prompt before the first chunk counts as one token.      *)
Required(r, computed) == Larger((IF held[r] = <<>> THEN 1 ELSE ChunkTokens) - computed, 1)
Step(r, computed, budget) ==
  [req |-> r, chunk |-> held[r], from |-> num_computed_tokens[r],
   tokens |-> Smaller(Required(r, computed), budget)]

Take(acc, step) ==
  [batch |-> Append(acc.batch, step), budget |-> acc.budget - step.tokens,
   running |-> Append(acc.running, step.req), waiting |-> acc.waiting]

(* The first loop: the running queue, as far as the budget goes; what is   *)
(* no longer a live request is dropped.                                    *)
TakeRunning(acc, r) ==
  CASE acc.budget = 0 -> [acc EXCEPT !.running = Append(@, r)]
    [] acc.budget > 0 /\ r \notin requests -> acc
    [] OTHER -> Take(acc, Step(r, num_computed_tokens[r], acc.budget))

(* The second loop: the waiting queue, while budget and places are left.   *)
TakeWaiting(acc, r) ==
  CASE acc.budget = 0 \/ Len(acc.running) >= MaxNumSeqs ->
         [acc EXCEPT !.waiting = Append(@, r)]
    [] acc.budget > 0 /\ Len(acc.running) < MaxNumSeqs /\ r \notin requests -> acc
    [] OTHER -> Take(acc, Step(r, 0, acc.budget))

(* What the loops have taken after the first n requests of the two queues. *)
Queue == Kept \o (Trimmed \o waiting)
Taken[n \in 0..Len(Queue)] ==
  IF n = 0 THEN [batch |-> <<>>, budget |-> TokenBudget, running |-> <<>>, waiting |-> <<>>]
  ELSE IF n <= Len(Kept) THEN TakeRunning(Taken[n - 1], Queue[n])
                         ELSE TakeWaiting(Taken[n - 1], Queue[n])

(* num_scheduled_tokens: the steps by request, a later one replacing an    *)
(* earlier one.                                                            *)
StepsOf(steps, r) == {i \in DOMAIN steps : steps[i].req = r}
NumScheduledTokens(steps, r) ==
  IF StepsOf(steps, r) = {} THEN 0 ELSE steps[Max(StepsOf(steps, r))].tokens
BatchReqs(steps) == {steps[i].req : i \in DOMAIN steps}

(* Selection, restore_queues and postprocess_scheduler_output: one step of *)
(* the engine thread, since the receive thread reads none of this.  The    *)
(* progress saturates at ChunkTokens: a request that is past the end of    *)
(* its prompt is given one token, however far past it is.                  *)
Schedule ==
  /\ engine_pc = "schedule"
  /\ LET selection == Taken[Len(Queue)] IN
       /\ batch' = selection.batch
       /\ num_computed_tokens' = [r \in Reqs |->
            Smaller(num_computed_tokens[r] + NumScheduledTokens(selection.batch, r), ChunkTokens)]
       /\ waiting' = selection.waiting \o waiting_for_chunk_waiting_requests
       /\ running' = selection.running \o waiting_for_chunk_running_requests
       /\ requests_with_ready_chunks' = requests_with_ready_chunks \ BatchReqs(selection.batch)
  /\ waiting_for_chunk_waiting_requests' = <<>>
  /\ waiting_for_chunk_running_requests' = <<>>
  /\ engine_pc' = "update"
  /\ UNCHANGED <<linkVars, requests, status, loaded, snapshot, marking, emitted,
                 aborted>>

(* update_from_output, after the model has run the batch: a finished       *)
(* request is passed over before the test that would stop it, any other    *)
(* has the output of its step sent on, wherever in its prompt that was.    *)
OutputOf(r) == FlattenSeq([i \in DOMAIN batch |->
                 IF batch[i].req = r THEN <<batch[i]>> ELSE <<>>])
PassedOver(r) == r \notin requests \/ status[r] \in Finished
Stopped(r) == ~PassedOver(r) /\ status[r] = "FINISHED_STOPPED"

(* Bound: a request that never stops has outputs without end; the history  *)
(* ends with the first one more than the chunks it can have.               *)
HistoryLength == MaxChunks + 1

UpdateFromOutput ==
  /\ engine_pc = "update"
  /\ LET stopped == {r \in BatchReqs(batch) : Stopped(r)} IN
       /\ requests' = requests \ stopped
       /\ waiting' = Without(waiting, stopped)
       /\ running' = Without(running, stopped)
  /\ emitted' = [r \in Reqs |->
       IF PassedOver(r) \/ Len(emitted[r]) = HistoryLength THEN emitted[r]
                                                          ELSE emitted[r] \o OutputOf(r)]
  /\ batch' = <<>>
  /\ engine_pc' = "idle"
  /\ UNCHANGED <<linkVars, status, num_computed_tokens,
                 waiting_for_chunk_waiting_requests,
                 waiting_for_chunk_running_requests, requests_with_ready_chunks,
                 loaded, snapshot, marking, aborted>>

EngineStep ==
  BeginSchedule \/ ProcessPendingChunks \/ Schedule \/ UpdateFromOutput

-----------------------------------------------------------------------------
(* The receive thread also writes the request object: the final chunk's    *)
(* status before its prompt, the prompt together with the progress.        *)
MarkStatus ==
  /\ PollMark
  /\ status' = IF IsFinal(recv_req, get_req_chunk[recv_req] - 1)
               THEN [status EXCEPT ![recv_req] = "FINISHED_STOPPED"]
               ELSE status
  /\ UNCHANGED <<requests, num_computed_tokens, queueVars,
                 requests_with_ready_chunks, loaded, snapshot, marking,
                 engine_pc, batch, emitted, aborted>>

FillPrompt ==
  /\ PollFill
  /\ num_computed_tokens' = [num_computed_tokens EXCEPT ![recv_req] = 0]
  /\ UNCHANGED <<requests, status, queueVars, requests_with_ready_chunks, loaded,
                 snapshot, marking, engine_pc, batch, emitted, aborted>>

Receive ==
  \/ /\ RecvSnapshot \/ PollPublish \/ \E r \in Reqs : PollMiss(r) \/ PollHit(r)
     /\ UNCHANGED engineVars
  \/ MarkStatus
  \/ FillPrompt

(* The producing stage makes a chunk and its save thread puts it into the  *)
(* connector.  ChunkLink has these as steps of their own; the consumer     *)
(* cannot tell a chunk on its way from one not made yet, so here they are  *)
(* one.                                                                    *)
Arrive(r, last) ==
  /\ producer[r] = "running"
  /\ put_req_chunk[r] < MaxChunks
  /\ put_req_chunk' = [put_req_chunk EXCEPT ![r] = @ + 1]
  /\ producer' = [producer EXCEPT ![r] = IF last THEN "finished" ELSE @]
  /\ store' = store \union {<<r, put_req_chunk[r]>>}
  /\ UNCHANGED <<pending_save_reqs, save_keys, save_task, lost, recvVars,
                 loadVars, engineVars>>

Next ==
  \/ \E r \in Reqs : AddRequest(r) \/ Abort(r)
  \/ EngineStep
  \/ Receive
  \/ \E r \in Reqs, last \in BOOLEAN : Arrive(r, last)

(* The engine loop and the receive thread keep running; clients and the    *)
(* producing stage may stop.                                               *)
Spec ==
  /\ Init /\ [][Next]_vars
  /\ WF_vars(EngineStep)
  /\ WF_vars(Receive)
-----------------------------------------------------------------------------
Steps == [req : Reqs, chunk : Seq(Nat), from : 0..ChunkTokens, tokens : 1..TokenBudget]

TypeOK ==
  /\ LinkTypeOK
  /\ requests \subseteq Reqs
  /\ status \in [Reqs -> {"NEW", "WAITING", "RUNNING", "WAITING_FOR_CHUNK"}
                         \union Finished]
  /\ num_computed_tokens \in [Reqs -> 0..ChunkTokens]
  /\ waiting \in Seq(Reqs) /\ running \in Seq(Reqs)
  /\ waiting_for_chunk_waiting_requests \in Seq(Reqs)
  /\ waiting_for_chunk_running_requests \in Seq(Reqs)
  /\ requests_with_ready_chunks \subseteq Reqs
  /\ loaded \subseteq Reqs
  /\ snapshot \in Seq(Reqs)
  /\ marking \in Reqs \union {NoReq}
  /\ engine_pc \in {"idle", "waiting", "running", "schedule", "update"}
  /\ batch \in Seq(Steps)
  /\ emitted \in [Reqs -> Seq(Steps)]
  /\ aborted \subseteq Reqs

(* Moving requests between the two queues and the two deques, trimming and *)
(* restoring never loses a live request and never queues one twice.        *)
QueuesHoldEachOnce ==
  LET all == waiting \o running \o waiting_for_chunk_waiting_requests
                     \o waiting_for_chunk_running_requests
  IN /\ IsInjective(all)
     /\ requests \subseteq ToSet(all)

(* The receive thread may be about to replace the prompt of a request in   *)
(* the running batch only when that chunk is the final one (whose step is  *)
(* passed over by update_from_output).                                     *)
BatchOwnsPrompts ==
  BatchReqs(batch) \intersect pending_load_reqs \subseteq finished_requests

(* The receive thread marked the final chunk between load_async and the    *)
(* status it then sets (chunk_transfer_adapter.py:314, :315): the engine   *)
(* thread has overwritten FINISHED_STOPPED for good.                       *)
MarkOverwritten(r) == r \in finished_requests /\ status[r] # "FINISHED_STOPPED"

(* The first outputs of a request are those of its chunks: each comes from *)
(* a step on the whole chunk, in order, none twice and none skipped.  What *)
(* the client is sent beyond them comes from steps past the end of the     *)
(* prompt, and only a request whose final mark was overwritten and that    *)
(* waits for nothing more has such outputs.  The next chunk is asked for,  *)
(* and so may overwrite the prompt, only when the outputs sent are those   *)
(* of all earlier chunks.                                                  *)
EmittedInOrder ==
  /\ \A r \in Reqs : \A i \in DOMAIN emitted[r] :
       IF i <= get_req_chunk[r]
       THEN emitted[r][i] = [req |-> r, chunk |-> <<i - 1>>, from |-> 0, tokens |-> ChunkTokens]
       ELSE emitted[r][i].from = ChunkTokens /\ MarkOverwritten(r) /\ r \notin pending_load_reqs
  /\ \A r \in pending_load_reqs \intersect requests : Len(emitted[r]) = Delivered(r)

(* Every chunk that reached the connector is used, as long as no request   *)
(* was marked finished: a finished one never leaves the running queue (see *)
(* FinishedRequestLeaves) and may starve the others of their place.        *)
ChunksGetThrough ==
  \A r \in Reqs : \A c \in 0..(MaxChunks - 1) :
    (r \in requests /\ <<r, c>> \in store) ~>
      (Len(emitted[r]) > c \/ r \in aborted \/ finished_requests # {})

(* The scheduler's comments on requests the connector marked as finished:  *)
(* "These should be removed from running and not scheduled", and on a      *)
(* finished step: "mark finished and free resources".                      *)
FinishedRequestLeaves ==
  \A r \in Reqs : (r \in finished_requests) ~> (r \notin requests)
=============================================================================
