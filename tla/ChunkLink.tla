----------------------------- MODULE ChunkLink ------------------------------
(***************************************************************************)
(* The two ends of async-chunk transfer between one stage and the next     *)
(* (OmniChunkTransferAdapter, its base class and the connector between     *)
(* them): the engine thread of the producer queues chunks, a save thread   *)
(* puts them into the connector, a receive thread of the consumer polls    *)
(* the connector for the requests its engine thread registered, and the    *)
(* engine thread collects the requests whose chunk has arrived.            *)
(*                                                                         *)
(* A chunk is its index; its content matters only in that it is the c-th   *)
(* one of its request and may carry the "finished" flag.  The engine       *)
(* threads appear here as their calls into the adapter; ChunkGeneration    *)
(* puts the scheduler that makes those calls around this module.           *)
(***************************************************************************)
EXTENDS Integers, Sequences, FiniteSets

CONSTANTS
  Reqs,            \* requests
  NoReq,           \* "no request", for a thread that works on none
  Generation,      \* model_mode: TRUE for "generation", FALSE for "ar"
  MaxChunks,       \* bound: chunks the producer makes per request
  MaxLost          \* bound: chunks the connector fails to store

ASSUME LinkAssumption ==
  /\ NoReq \notin Reqs
  /\ Generation \in BOOLEAN
  /\ MaxChunks \in Nat
  /\ MaxLost \in Nat

Chunk == Reqs \X Nat
NoTask == <<NoReq, 0>>

VARIABLES
  \* producer stage
  put_req_chunk,       \* next chunk id to hand out, per request
  producer,            \* "running", "finished" (final chunk made) or "silent"
  pending_save_reqs,   \* request -> queue of chunk ids not yet taken
  save_keys,           \* requests with a queue, in insertion order of the dict
  save_task,           \* the chunk the save thread is putting, or NoTask
  \* connector
  store,               \* chunks under their keys
  lost,                \* chunks whose put failed (history)
  \* consumer stage
  get_req_chunk,       \* next chunk id to ask the connector for, per request
  pending_load_reqs,   \* requests the receive thread polls
  recv_scan,           \* requests left in the receive loop's snapshot
  recv_req,            \* the request whose payload the receive thread holds
  recv_pc,             \* where the receive thread is in _poll_single_request
  finished_requests,   \* requests whose final chunk has been seen
  finished_load_reqs,  \* requests whose chunk arrived, not yet collected
  held                 \* the chunks whose data the request object carries

producerVars == <<put_req_chunk, producer, pending_save_reqs, save_keys>>
recvVars == <<get_req_chunk, recv_scan, recv_req, recv_pc, finished_requests, held>>
loadVars == <<pending_load_reqs, finished_load_reqs>>
linkVars == <<producerVars, save_task, store, lost, recvVars, loadVars>>

LinkInit ==
  /\ put_req_chunk = [r \in Reqs |-> 0]
  /\ producer = [r \in Reqs |-> "running"]
  /\ pending_save_reqs = [r \in Reqs |-> <<>>]
  /\ save_keys = <<>>
  /\ save_task = NoTask
  /\ store = {}
  /\ lost = {}
  /\ get_req_chunk = [r \in Reqs |-> 0]
  /\ pending_load_reqs = {}
  /\ recv_scan = {}
  /\ recv_req = NoReq
  /\ recv_pc = "scan"
  /\ finished_requests = {}
  /\ finished_load_reqs = {}
  /\ held = [r \in Reqs |-> <<>>]

(* The payload with the "finished" flag is the last one made. *)
IsFinal(r, c) == producer[r] = "finished" /\ c = put_req_chunk[r] - 1

-----------------------------------------------------------------------------
(* Producer: the engine thread.                                            *)

(* save_async when the payload function returned a payload; `last` is      *)
(* request.is_finished() at that moment.                                   *)
SaveAsync(r, last) ==
  /\ producer[r] = "running"
  /\ put_req_chunk[r] < MaxChunks
  /\ put_req_chunk' = [put_req_chunk EXCEPT ![r] = @ + 1]
  /\ producer' = [producer EXCEPT ![r] = IF last THEN "finished" ELSE @]
  /\ pending_save_reqs' =
       [pending_save_reqs EXCEPT ![r] = Append(@, put_req_chunk[r])]
  /\ save_keys' = IF pending_save_reqs[r] = <<>> THEN Append(save_keys, r)
                                                 ELSE save_keys
  /\ UNCHANGED <<save_task, store, lost, recvVars, loadVars>>

(* save_async on the request's last step when the payload function raises  *)
(* or has no codes to send: nothing is queued, so no chunk is the final one.*)
SaveNothing(r) ==
  /\ producer[r] = "running"
  /\ producer' = [producer EXCEPT ![r] = "silent"]
  /\ UNCHANGED <<put_req_chunk, pending_save_reqs, save_keys, save_task,
                 store, lost, recvVars, loadVars>>

(* Producer: the save thread.  The task leaves the queue under the lock    *)
(* and is put outside of it; a failed put is not retried.                  *)
SaveTake ==
  /\ save_task = NoTask
  /\ save_keys # <<>>
  /\ LET r == Head(save_keys) IN
       /\ pending_save_reqs[r] # <<>>
       /\ save_task' = <<r, Head(pending_save_reqs[r])>>
       /\ pending_save_reqs' = [pending_save_reqs EXCEPT ![r] = Tail(@)]
       /\ save_keys' = IF Tail(pending_save_reqs[r]) = <<>> THEN Tail(save_keys)
                                                            ELSE save_keys
  /\ UNCHANGED <<put_req_chunk, producer, store, lost, recvVars, loadVars>>

SaveSend ==
  /\ save_task # NoTask
  /\ \/ store' = store \union {save_task} /\ UNCHANGED lost
     \/ /\ Cardinality(lost) < MaxLost
        /\ lost' = lost \union {save_task} /\ UNCHANGED store
  /\ save_task' = NoTask
  /\ UNCHANGED <<producerVars, recvVars, loadVars>>

SaveThread == SaveTake \/ SaveSend

-----------------------------------------------------------------------------
(* Consumer: the engine thread's two calls.                                *)

LoadAsync(r) == pending_load_reqs' = pending_load_reqs \union {r}

GetFinishedRequests == finished_load_reqs' = {}

(* Consumer: the receive thread, one step per access to state another      *)
(* thread reads.  In generation mode the finished flag is published before *)
(* the data, in ar mode after it.                                          *)
RecvSnapshot ==
  /\ recv_pc = "scan" /\ recv_scan = {} /\ pending_load_reqs # {}
  /\ recv_scan' = pending_load_reqs
  /\ UNCHANGED <<producerVars, save_task, store, lost, loadVars, get_req_chunk,
                 recv_req, recv_pc, finished_requests, held>>

PollMiss(r) ==
  /\ recv_pc = "scan" /\ r \in recv_scan
  /\ <<r, get_req_chunk[r]>> \notin store
  /\ recv_scan' = recv_scan \ {r}
  /\ UNCHANGED <<producerVars, save_task, store, lost, loadVars, get_req_chunk,
                 recv_req, recv_pc, finished_requests, held>>

(* Faulty: a connector whose get leaves the payload in place.              *)
PollHitKeepsKey(r) ==
  /\ recv_pc = "scan" /\ r \in recv_scan
  /\ <<r, get_req_chunk[r]>> \in store
  /\ get_req_chunk' = [get_req_chunk EXCEPT ![r] = @ + 1]
  /\ recv_scan' = recv_scan \ {r}
  /\ recv_req' = r
  /\ recv_pc' = IF Generation THEN "mark" ELSE "fill"
  /\ UNCHANGED <<producerVars, save_task, store, lost, loadVars,
                 finished_requests, held>>

PollHit(r) ==
  /\ recv_pc = "scan" /\ r \in recv_scan
  /\ <<r, get_req_chunk[r]>> \in store
  /\ store' = store \ {<<r, get_req_chunk[r]>>}
  /\ get_req_chunk' = [get_req_chunk EXCEPT ![r] = @ + 1]
  /\ recv_scan' = recv_scan \ {r}
  /\ recv_req' = r
  /\ recv_pc' = IF Generation THEN "mark" ELSE "fill"
  /\ UNCHANGED <<producerVars, save_task, lost, loadVars, finished_requests, held>>

(* Faulty: the presence of the flag is tested instead of its value.        *)
PollMarkAnyPayload ==
  /\ recv_pc = "mark"
  /\ finished_requests' = finished_requests \union {recv_req}
  /\ recv_pc' = IF Generation THEN "fill" ELSE "publish"
  /\ UNCHANGED <<producerVars, save_task, store, lost, loadVars, get_req_chunk,
                 recv_scan, recv_req, held>>

PollMark ==
  /\ recv_pc = "mark"
  /\ finished_requests' = IF IsFinal(recv_req, get_req_chunk[recv_req] - 1)
                          THEN finished_requests \union {recv_req}
                          ELSE finished_requests
  /\ recv_pc' = IF Generation THEN "fill" ELSE "publish"
  /\ UNCHANGED <<producerVars, save_task, store, lost, loadVars, get_req_chunk,
                 recv_scan, recv_req, held>>

(* Generation replaces the prompt, ar concatenates to what was received.   *)
PollFill ==
  /\ recv_pc = "fill"
  /\ LET c == get_req_chunk[recv_req] - 1 IN
       held' = [held EXCEPT ![recv_req] =
                  IF Generation THEN <<c>> ELSE Append(@, c)]
  /\ recv_pc' = IF Generation THEN "publish" ELSE "mark"
  /\ UNCHANGED <<producerVars, save_task, store, lost, loadVars, get_req_chunk,
                 recv_scan, recv_req, finished_requests>>

(* Faulty: the request stays registered after its chunk was published.     *)
PollPublishStaysPending ==
  /\ recv_pc = "publish"
  /\ finished_load_reqs' = finished_load_reqs \union {recv_req}
  /\ recv_req' = NoReq
  /\ recv_pc' = "scan"
  /\ UNCHANGED <<producerVars, save_task, store, lost, get_req_chunk, recv_scan,
                 pending_load_reqs, finished_requests, held>>

PollPublish ==
  /\ recv_pc = "publish"
  /\ finished_load_reqs' = finished_load_reqs \union {recv_req}
  /\ pending_load_reqs' = pending_load_reqs \ {recv_req}
  /\ recv_req' = NoReq
  /\ recv_pc' = "scan"
  /\ UNCHANGED <<producerVars, save_task, store, lost, get_req_chunk, recv_scan,
                 finished_requests, held>>

RecvThread ==
  \/ RecvSnapshot
  \/ \E r \in Reqs : PollMiss(r) \/ PollHit(r)
  \/ PollMark \/ PollFill \/ PollPublish

-----------------------------------------------------------------------------
(* The link under the most general consumer: it asks for a chunk of a      *)
(* request whenever its last answer was collected and was not the final    *)
(* one, which is when _process_chunk_queue calls load_async.               *)
Ask(r) ==
  /\ r \notin pending_load_reqs \union finished_load_reqs \union finished_requests
  /\ LoadAsync(r)
  /\ UNCHANGED <<producerVars, save_task, store, lost, recvVars, finished_load_reqs>>

Collect ==
  /\ finished_load_reqs # {}
  /\ GetFinishedRequests
  /\ UNCHANGED <<producerVars, save_task, store, lost, recvVars, pending_load_reqs>>

Produce == \E r \in Reqs : SaveNothing(r) \/ \E last \in BOOLEAN : SaveAsync(r, last)

LinkNext ==
  \/ Produce
  \/ SaveThread
  \/ RecvThread
  \/ \E r \in Reqs : Ask(r)
  \/ Collect

LinkSafety == LinkInit /\ [][LinkNext]_linkVars

(* The daemon threads keep running; nothing is assumed of the engines.     *)
LinkSpec == LinkSafety /\ WF_linkVars(SaveThread) /\ WF_linkVars(RecvThread)

-----------------------------------------------------------------------------
LinkTypeOK ==
  /\ put_req_chunk \in [Reqs -> Nat]
  /\ producer \in [Reqs -> {"running", "finished", "silent"}]
  /\ pending_save_reqs \in [Reqs -> Seq(Nat)]
  /\ save_keys \in Seq(Reqs)
  /\ save_task \in Chunk \union {NoTask}
  /\ store \subseteq Chunk
  /\ lost \subseteq Chunk
  /\ get_req_chunk \in [Reqs -> Nat]
  /\ pending_load_reqs \subseteq Reqs
  /\ recv_scan \subseteq Reqs
  /\ recv_req \in Reqs \union {NoReq}
  /\ recv_pc \in {"scan", "mark", "fill", "publish"}
  /\ finished_requests \subseteq Reqs
  /\ finished_load_reqs \subseteq Reqs
  /\ held \in [Reqs -> Seq(Nat)]

Queued(r) == {pending_save_reqs[r][i] : i \in 1..Len(pending_save_reqs[r])}

Places(r, c) ==
  {p \in {"queue", "save thread", "connector", "lost", "received"} :
     \/ p = "queue" /\ c \in Queued(r)
     \/ p = "save thread" /\ save_task = <<r, c>>
     \/ p = "connector" /\ <<r, c>> \in store
     \/ p = "lost" /\ <<r, c>> \in lost
     \/ p = "received" /\ c < get_req_chunk[r]}

(* A chunk that save_async numbered is in exactly one place: its queue,    *)
(* the save thread, the connector, lost by a failed put, or received.  No  *)
(* interleaving of the engine and the two daemon threads drops or          *)
(* duplicates a chunk, and none of them invents one.                       *)
ChunkConservation ==
  \A r \in Reqs : \A c \in 0..MaxChunks :
    IF c < put_req_chunk[r] THEN \E p \in Places(r, c) : Places(r, c) = {p}
                            ELSE Places(r, c) = {}

(* How many chunks of r the receive thread has handed to the engine.       *)
Delivered(r) == get_req_chunk[r] - (IF recv_req = r THEN 1 ELSE 0)

(* Outside of the poll that is filling it, a request carries exactly what  *)
(* was received: the last chunk in generation mode, all of them in order   *)
(* in ar mode (_update_request_payload's concatenation).                   *)
HeldIsReceived ==
  \A r \in Reqs :
    (r # recv_req /\ get_req_chunk[r] > 0) =>
      held[r] = IF Generation THEN <<get_req_chunk[r] - 1>>
                ELSE [i \in 1..get_req_chunk[r] |-> i - 1]

(* Together: the chunks of a request are all somewhere, once, and those    *)
(* that arrived are what the request carries.                              *)
StreamIntact == ChunkConservation /\ HeldIsReceived

(* The consumer stops asking (finished_requests) only when there is        *)
(* nothing left to ask for: every chunk of the request was received.       *)
FinishedIsDrained ==
  \A r \in finished_requests :
    producer[r] = "finished" /\ get_req_chunk[r] = put_req_chunk[r]

(* _poll_single_request advances the counter and takes the payload out of  *)
(* the connector before it looks the request up: were the request no       *)
(* longer registered, the KeyError would lose the chunk.                   *)
PolledIsRegistered ==
  /\ recv_scan \subseteq pending_load_reqs
  /\ recv_pc # "scan" => recv_req \in pending_load_reqs \ recv_scan

(* The link implements one FIFO stream per request, also in its liveness.  *)
Channel == INSTANCE ChunkChannel WITH
  sent <- put_req_chunk,
  closed <- {r \in Reqs : producer[r] # "running"},
  asked <- pending_load_reqs,
  delivered <- [r \in Reqs |-> Delivered(r)]

(* Asking for a chunk that was made and not lost is answered with it.      *)
ImplementsChannel == Channel!Spec
=============================================================================
