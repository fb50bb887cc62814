# A TLA+ model of vLLM-Omni

vLLM-Omni serves models that consist of several stages (for instance a
"thinker" that produces text, a "talker" that turns it into codec tokens and a
"code2wav" stage that turns those into audio), where every stage is a process
with an engine of its own.  What is difficult in it is what lies between the
engines: a request crosses processes, threads, queues and connectors, streams
chunks between schedulers that run at their own pace, hands its KV cache over
while the blocks are about to be given away, and may be aborted or fail at any
point of that.  These modules describe those parts as they are in the source,
check them on small instances with TLC, and prove the most important
invariants for every instance with TLAPS.

All paths are relative to `src/vllm_omni/` unless they start with `src/`.

## 1. Inventory

| Component | State | Operations | Talks to | Hard behaviours | What makes it correct |
|---|---|---|---|---|---|
| Async-chunk adapter (`distributed/omni_connectors/transfer_adapter/`) | chunk counters of both ends, save queues, polled and loaded requests, finished marks, data of the request | `save_async`, save thread, `load_async`, receive thread, `get_finished` collection | engine threads by direct calls, connector by put/get | three threads and no lock around most state; a failed put; the finished flag | one FIFO stream of chunks per request, no chunk lost, repeated or overtaken |
| Generation scheduler (`core/sched/omni_generation_scheduler.py`) | queues, deques of parked requests, status and progress of requests | `schedule`, `update_from_output`, add, abort | adapter (`process_pending_chunks`, `restore_queues`, `postprocess_scheduler_output`), receive thread through the request objects | the receive thread rewrites the objects it queues | every chunk used once, in order, before the next replaces it; queues consistent |
| Autoregressive scheduler (`core/sched/omni_ar_scheduler.py`) | pending, active, triggered and waiting transfers, snapshot lengths | trigger, finish, schedule, `update_from_output`, abort | model runner through the scheduler output and the runner output | blocks reused while a transfer is pending; duplicate triggers; lost acknowledgements | what is sent is the request's own KV, once; held blocks return |
| KV transfer manager, AR model runner (`distributed/omni_connectors/kv_transfer_manager.py`, `worker/gpu_ar_model_runner.py`) | extracted ids | extraction before the forward pass, put with retries, polling get with a deadline | AR scheduler, connector | extraction against reuse; a put that is retried against a receiver that polls until a deadline | extraction reads before anybody writes; a receive ends, with what was stored in time |
| Connectors (`distributed/omni_connectors/connectors/`) | stored payloads, segments and lock files in `/dev/shm` | `put`, `get`, `cleanup` | adapter, orchestrator, workers | two processes between any two system calls on a segment and its lock file; absent keys | a payload is taken once, whole, and leaves nothing behind |
| Asynchronous orchestrator (`entrypoints/async_omni.py`) | `request_states`, queues of requests, stage objects, pause flag | `generate`, output handler, `abort`, pause, resume, `stop_profile` | stage workers by task and result queues, clients | interleaved coroutines, errors, aborts, pauses | results reach their request in order; every request ends |
| Stage workers (`entrypoints/omni_stage.py`) | task queue, outputs to collect, batch | task loop, `generation_single_request`, abort, shutdown, batching (synchronous) | engines, orchestrator | errors overtake outputs, tasks and aborts interleave | nothing lost between engine and orchestrator |
| Synchronous orchestrator (`entrypoints/omni.py`) | per-stage in-flight counts, completed count, summary of the outputs | `_run_generation` polling loop and its callers, `stop_profile`, `close` | synchronous stage workers (batches, profiling, shutdown) | errors that are not counted, a missing payload, two readers of a result queue | every request is accounted for, and the loop ends when nothing failed |
| Diffusion engine and executor (`diffusion/diffusion_engine.py`, `scheduler.py`, `executor/`, `worker/diffusion_worker.py`) | broadcast queue, result queue, closed flags | `add_req`, `collective_rpc`, worker loop, shutdown | worker processes | replies without a number, who replies, shutdown against a call | replies belong to their call; ranks agree; shutdown ends |
| Diffusion LoRA manager (`diffusion/lora/manager.py`) | registered adapters, scales, order of use, pins, layers replaced, buffers and their rank | `set_active_adapter`, add, remove, pin, list | worker methods | eviction of the active adapter, rank growth, errors half way | a request runs with the adapter it asked for |
| Multimodal output processor (`engine/output_processor.py`) | accumulated tensors of a request | `add_multimodal_tensor`, output construction | stage workers and through them the endpoints | an output holds the list that goes on growing | what was handed on stays true until it is read |
| Qwen3-Omni talker (`model_executor/models/qwen3_omni/qwen3_omni.py`, `worker/gpu_model_runner.py`) | information kept of a request, text queue, position in the text | `talker_preprocess`, `thinker2talker_async_chunk`, `_update_request_payload` | adapter, schedulers, model runner | the talker speaks while the thinker still writes; prompts in parts, preemptions | the text of the thinker, once and in order |
| Audio generation (`model_executor/models/qwen3_tts/`, `qwen3_omni/qwen3_omni_code2wav.py`, `model_executor/stage_input_processors/qwen3_omni.py`) | generators per request, code buffers, end of the last window | `_advance_streaming`, `_stream_codes_to_audio`, `talker2code2wav_async_chunk`, `chunked_decode_streaming` | engine, output processor | windows with left context, first and last window | every frame in one chunk, in order |
| Speech endpoint (`entrypoints/openai/serving_speech.py`) | cursor into the chunks sent | `_stream_progressive_audio` | `generate()`, clients | outputs replaced unread, lists that grow after they were handed on | a client hears each chunk once |
| TeaCache (`diffusion/cache/teacache/`) | accumulated distance, previous residual | hook around the forward pass | pipelines | reset between requests | (planned) |
| The other endpoints, CLI, metrics, models, attention, platforms | | | | I/O and numerics | not modelled, see section 8 |

The hazards, each at its line, are the `hazards` of `PROJECT.json`; they are
what the properties below are aimed at.

## 2. Modules

| Module | Models | Used by |
|---|---|---|
| `ChunkChannel` | what async-chunk transfer promises: a FIFO stream per request (abstract specification) | `ChunkLink` |
| `ChunkLink` | both ends of the adapter with their threads, and the connector between them | `ChunkGeneration`, `MCChunkLink` |
| `ChunkGeneration` | the consumer stage: scheduler, engine loop and receive thread around the consumer end of `ChunkLink` | `MCChunkGeneration` |
| `KVTransfer` | the KV-cache hand-over between scheduler and model runner | `MCKVTransfer` |
| `OmniPipeline` | the asynchronous orchestrator with its stage workers | `MCOmniPipeline` |
| `SyncPipeline` | the synchronous orchestrator with its batching stage workers | `MCSyncPipeline` |
| `AudioStream` | audio from the decoders to the clients of the speech endpoint | `MCAudioStream` |
| `TalkerText` | the text from the thinker's steps to those of the talker | `MCTalkerText` |
| `ShmTransfer` | KV caches through the shared-memory connector, between its two managers | `MCShmTransfer` |
| `DiffusionRpc` | calls from the diffusion engine to its worker processes | `MCDiffusionRpc` |
| `LoRAManager` | the adapter cache of one diffusion worker | `MCLoRAManager` |
| `Selection` | a sequence without some of its elements | `ChunkGeneration`, `LoRAManager`, `SequenceLemmas` |
| `SequenceLemmas` | lemmas about flattened, filtered and mapped sequences, and about recursion on a sequence | `ChunkProofs`, `DiffusionProofs`, `OmniPipelineProofs`, `SyncPipelineProofs`, `TalkerTextProofs` |
| `ChunkProofs` (for `ChunkLink` and `ChunkGeneration`), `KVTransferProofs` (for `KVTransfer` and `ShmTransfer`), `OmniPipelineProofs`, `SyncPipelineProofs`, `AudioStreamProofs`, `TalkerTextProofs`, `DiffusionProofs` (for `DiffusionRpc` and `LoRAManager`) | theorems and proofs | |

In the modules every definition that stands for code keeps the name of the
source where possible.  A definition that begins with a comment "Faulty:" is a
plausible bug of the definition that follows it.  It is not part of the
specification: substituting it must break the property it is paired with in
`PROJECT.json`, which shows that the property depends on the code.

### ChunkChannel, ChunkLink

A chunk is its index within its request.  The producer's engine thread numbers
and queues it (`SaveAsync`; `SaveNothing` for a step whose payload function
returns nothing), the save thread takes it (`SaveTake`) and puts it
(`SaveSend`, which may fail and is not repeated), the receive thread takes a
snapshot of the polled requests (`RecvSnapshot`) and handles each in the order
of `_poll_single_request`: counter and payload (`PollHit`/`PollMiss`), finished
mark (`PollMark`), data of the request (`PollFill`), loaded set
(`PollPublish`).  The engine thread of the consumer asks (`Ask`) and collects
(`Collect`).  Each of these is one step because each is one access, or one
group under a lock, to state another thread reads.  The constant `Generation`
is `model_mode`: in generation mode a chunk replaces the prompt, in AR mode it
is concatenated.  `save_keys` keeps the order of the dictionary the save thread
walks; the dictionary of polled requests is a set, since the order in which it
is walked is not promised.

`ChunkLink` implements `ChunkChannel` under the mapping `Channel` at its end:
chunks numbered are sent, a failed put is a loss, asking is being polled.  The
channel has no threads, and its one fairness condition is that what was asked
for and is there is delivered.

### ChunkGeneration

One engine step is split where the receive thread can come in between:
clearing the ready chunks and beginning, a visit per queued request
(`VisitReady`, `VisitAsk`, `VisitAskMark`, `VisitLoaded`, `VisitUnloaded`), the
end of a queue, `Schedule` and `UpdateFromOutput`.  The status of a request is
set in a step after the registration (`marking`) because the receive thread
may run in between.  Two reductions keep the instance small: `Arrive` is the
producer's side in one step (whose threads `ChunkLink` explores), and blocks of
the KV cache never run out, so the fast path never breaks.  Computed tokens
saturate at `ChunkTokens`, the length of a chunk; beyond it the code compares
only whether there are tokens left.  A placeholder prompt counts as one token.

`emitted` keeps every output that `update_from_output` sends for a request, of
steps on a chunk and of steps past the end of the prompt alike.  A request that
never stops has outputs without end, so the history ends after one output more
than the chunks a request can have (`HistoryLength`); no step depends on it.

### KVTransfer

A token is named by its request and position, and the cache holds for each slot
the token last written there, so "the wrong KV was sent" is visible in `sent`.
The scheduler marks requests (`UpdateRequest`, for a criterion or at the end;
`Abort`), `HandOver` passes marks on with the next schedule (`HandOverFails` is
the exception while requests are rewrapped), `Execute` extracts before the
forward pass writes, and `Acknowledge` frees.  The base scheduler and its
allocator are external: they schedule and preempt whatever the free blocks
allow.  `need_send_cache` is set, one batch is in flight, a step samples one
token, there is neither prefix caching nor speculative decoding.  `put_off`
remembers requests whose mark met a schedule that raised; for those a later
read may find other KV (the marks stay pending while their requests may be
preempted or aborted), so `SentIsOwn` speaks of all others, and
`HeldUntilRead` covers the finished ones among them.

### OmniPipeline

A step is the code between two awaits of the orchestrator's event loop or of a
worker's, since nothing else can run in between: `asyncio.Queue.put` on an
unbounded queue does not suspend.  `Call`, `Wake` are `generate()` up to its
first wait, `TakeSequential` and `TakeChunk` are one turn of the two result
loops, which may end in a `yield`; the client then calls `Continue`, or goes
away (`Cancel`).  The rest of the loop's body belongs to `Continue`, because in
the sequential mode it runs after the `yield`.  `Collect` is one result in the
output handler.  `Round` and `Send` are a turn of a worker's loop, split at the
sleep between collecting outputs and sending them; `Output`, `Fail` and
`AbortTask` are `generation_single_request` and the engine behind it.  `Fail`
puts its error directly on the result queue, as the code does.  Mode
(`async_chunk`) is chosen in the initial state, so one run covers both.  The
polling loop of the async-chunk mode looks at its stages in turn; the model
lets it find any of them first, which includes every order it can meet.
Requests have distinct ids (`generate()` documents them as unique) and are
numbered in the order of their calls.

### SyncPipeline

`Seed` submits all requests to stage 0.  The polling loop of `_run_generation`
comes to the stages in turn: it finds nothing (`PollNothing`), the end of a
start-up or of profiling, an error, or a result, which it counts if it is final
(`Completes`), forwards (`Forwards`) or fails to forward (`InputsFail`,
`PutFails`).  A result of a stage with final output ends in a `yield`
(`CollectAndYield`), after which the caller may resume, stop profiling
(`StopProfile` and what follows, which reads the result queue next to the
polling loop) or close; a caller that asked for a list always resumes.  The
worker takes a first task (`FirstOfBatch`) and those that arrive before the
batch timeout (`JoinBatch`, `BatchTimeout`), looks up their payloads (one that
is missing ends the worker, `PayloadMissing`, outside of the `try` of the batch)
and runs the batch (`Generate`, `GenerateFails`).

One `generate()` runs at a time, so the sampling parameters of a stage are the
same for all its requests and the branch that sets a task aside for other
parameters is not reachable.  An engine returns one output per input.
Starting the profiler changes nothing the loops look at.  Timeouts (600 s, 5 s and
that of a batch) may expire at any time.

### AudioStream

Both decoders that stream audio are here, chosen by the request's model.
`"tts"`: one stage, whose generator (`FramesOfChunk`, `OverlapDecoded`) yields a
chunk per engine step.  `"omni"`: a talker that hands its codes on in windows
(`EndIndex`, `Window`) to a code2wav stage that decodes each with its left
context and cuts the context off (`StreamingDecoded`).  A chunk is the sequence
of the frames that can be heard in it.  `ProcessOutputs` appends it to the
tensors of the request and puts an output into the collector of the stage
worker, where it replaces one that was not read; the output refers to the list,
which goes on growing until `Pickle` sends the outputs collected.  What the
client does is `StreamProgressiveAudio`: it keeps a cursor of the chunks it has
sent.  The chat endpoint, which has no cursor, is not modelled.  The samples that the TTS
decoder trims are rounded to frames.  In which order waiting requests are
admitted is external.  Code2wav never reports a request of the omni model as
finished (this is `chunk_finish`), and the generator of an aborted TTS request
stays in `_streaming_generators`; both follow the code.

### TalkerText

What the talker says is decided far from it: by which embeddings the thinker's
steps compute (`ComputePart`, `Sample`; a `Preempt` makes it compute all of
them again), how its payload function cuts them into chunks (`AsyncChunk` keeps
the first step back; without chunks `Gather` collects all), how the talker's
adapter puts them together (`Concatenated`), what the model runner keeps of
them when the scheduler goes on without a chunk (`Embeddings`), and which one a
step reads (`TextEmbeddings` for the prompt, `StartIndex` and `TextAt` with
chunks, `Trailing` without).  An embedding is the position of its token; what
a step is given is in `spoken`.  The chunks are a FIFO stream, which is what
`ChunkChannel` promises.  One request: all state is kept under its id.  The
talker's prompt fits one step and the talker is not preempted.

`SpeaksInOrder` speaks of prompts computed in one step, and in both modes of
requests without a preemption.  Otherwise embeddings of the prompt take the
place of text; see the disagreements below.

### ShmTransfer

One action per system call of `SharedMemoryConnector.put` and `get`, with the
loops of `OmniKVTransferManager` around them.  The kernel is external: names in
`/dev/shm`, `flock`, and the three steps in which Python's `SharedMemory`
creates a segment (it exists, it has its size, its bytes are written).
Request ids are distinct, so a name is never used for a second payload, and one
process receives (Bagel, the model that receives KV, has no parallel mode).  The
deadline is a number of gets that miss.  `KVTransfer` models when a put is asked
for; that its outcome is acknowledged as a success either way is in both.

### DiffusionRpc

Calls of the single pool thread (`AddReq`, `CollectiveRpc`), the loop of each
worker (`Receive`, `ExecuteRpc`, `Skip`, `Stop`), and `close()` from another
thread in the three steps in which it sends the shutdown messages and drops the
two queues.  Methods may raise (the error comes back as an ordinary response),
and a call with a timeout may give up.  Only worker 0 has a result queue.

### LoRAManager

The manager is called by one thread, so an action is one call of a worker
method: `GenerateBase`, `GenerateCached`, `GenerateLoads` (`set_active_adapter`
and the forward pass that follows), `AddLora`, `RemoveLora`, `PinLora`, and
`AddFails` for calls that raise while layers are replaced, buffers recreated or
weights reapplied.  What the layers of a worker hold is `device`; `generated`
is what the last request ran with.  Weights are abstracted to the adapter and
scale they come from, and an adapter to its rank and the layers it targets or
does not fit.  `DiffusionRpc`'s `RanksAgree` is what allows one manager to
stand for those of all ranks: they execute the same calls in the same order.
The initial states, steps and variables are called `LoRAInit`, `LoRANext`,
`loraVars`, since `DiffusionProofs` extends the two modules of a worker; those of
`ShmTransfer` (`ShmInit`, `ShmNext`, `shmVars`) likewise for `KVTransferProofs`.

## 3. Runs

| Run | Instance | What it shows |
|---|---|---|
| `chunk_link` | 2 requests, 3 chunks each, 1 failed put, AR mode | the threads and the connector implement the channel, safety and liveness; conservation of chunks, data in order |
| `chunk_generation` | 2 requests of 2 chunks, 1 place in the batch, 1 abort | queues, prompts and outputs stay consistent while the receive thread rewrites requests; chunks get through |
| `kv_transfer` | 2 requests of 2+2 tokens, 2 blocks of 2, all criteria, abort, 1 preemption, 1 schedule that raises | own KV, once, until read; nobody waits for nothing; marks are handed over |
| `omni_pipeline` | 2 requests, 2 stages, both modes, 1 disruption, 2 pauses | results in order, own inputs, aborts reach all work, pauses hold, every request ends |
| `sync_pipeline` | 3 requests, 3 stages (0 and 2 are final, 2 is a diffusion stage), batches of 2, 1 fault, 1 profile | every request is accounted for in one place, outputs come in order and from own inputs, payloads go with their task, generation ends |
| `audio_stream` | 2 requests on either model, up to 5 frames, windows of 2 behind 3 | every frame in one chunk, clients of the speech endpoint hear each chunk once and all of them |
| `talker_text` | prompt of 3, up to 4 tokens sampled, 2 partial steps, 1 preemption, 7 steps of the talker, both modes | nothing computed is lost, repeated or reordered; the text is spoken once, in order, and ended; the talker is not held up |
| `shm_transfer` | 2 requests, 3 attempts, 2 misses | whole payloads or none, nothing left behind, receives end, what is stored in time is received |
| `diffusion_rpc` | 2 GPUs, 3 calls, 2 errors, 1 timeout, close | replies match calls, ranks agree, calls and workers end |
| `lora_manager` | 3 adapters, cache of 2, 2 layers, 2 scales, 2 calls that raise | the cache is consistent and bounded, and a request runs with its adapter |

Two more runs look for a state the documentation excludes, and find it:

| Run | Finding |
|---|---|
| `chunk_finish` | a request that was marked finished by its last chunk is scheduled for ever: `update_from_output` passes over finished requests before the branch that would free them |
| `kv_lost_ack` | the acknowledgement of a transfer carried by an empty batch is dropped, so the blocks of the request are never freed |

Other disagreements with comments, docstrings or tests have no run of their own;
the models do what the code does in those that concern what is modelled:

- a final chunk that is received between `load_async` and the status set after
  it (`distributed/omni_connectors/transfer_adapter/chunk_transfer_adapter.py:314`
  and `:315`) has its `FINISHED_STOPPED` overwritten.  The request is not finished
  for `update_from_output` (`core/sched/omni_generation_scheduler.py:320`), stays
  in the queues, is given a token in each step, and each step sends its client an
  output (`:423`-`:442`), while the comment on finished requests is "These should
  be removed from running and not scheduled" (`:59`-`:60`).  Those outputs are the
  second case of `EmittedInOrder`, which `chunk_generation` reaches;
- a `collective_rpc` to all ranks waits for one reply per GPU, and only worker 0
  can reply (`diffusion/executor/multiproc_executor.py:167`,
  `diffusion/worker/diffusion_worker.py:339`; "otherwise list of results",
  `diffusion/diffusion_engine.py:363`);
- a get that comes between the creation and the sizing of a segment raises a
  `ValueError`, which is not retried, and the receiver goes on without its KV
  (`distributed/omni_connectors/connectors/shm_connector.py:130`; "with retry
  logic", `:121`);
- a thinker prompt that is computed in two steps (chunked prefill) leaves the
  first chunk without text, since the scheduler sends the outputs of partial
  prompts, too (`core/sched/omni_ar_scheduler.py:333`): the talker is given
  zeros for the first text token, then `tts_eos`, and never the text.  After a
  preemption of the thinker, in both modes, embeddings of the prompt follow as
  if they were text.  A text of at most one embedding without chunks is ended by
  zeros instead of `tts_eos` (`qwen3_omni.py:992`);
- the streaming chat endpoint sends the last chunk of each output: chunks of
  outputs that were replaced unread are missing, and one can be sent twice
  (`entrypoints/openai/serving_chat.py:1626`; `serving_speech.py:361`);
- with a token budget below the length of a chunk the fast path computes a part
  of it (`core/sched/omni_generation_scheduler.py:75`, docstring at `:35`-`:38`);
- the snapshot taken at a sentinel token ends one token before it
  (`core/sched/omni_ar_scheduler.py:126`, comment at `:122`);
- a second request with the same adapter and another scale runs with the scale
  of the first (`diffusion/lora/manager.py:420`, `lora_inference.md:72`);
- `stop_profile` throws away a result it meets in the queue, while a
  `profiler_result` that comes after its timeout raises a `KeyError` in the
  polling loop (`entrypoints/omni_stage.py:371`-`388`, `entrypoints/omni.py:759`).

### Bounds

Each bound is a constant named as such in its module.

- *Two requests* are enough for every property, since each relates one request
  to at most one other (who takes its block, its place, its turn or its stage
  object), and the proofs of sections 5 and 6 have no such bound.
- *Chunks*: three in `chunk_link` give a first, a middle and a final chunk, so
  one can be queued, one with the save thread and one stored or lost; two in
  `chunk_generation` are enough for one to replace the other, and the history of
  three outputs shows one beyond them.
- *Blocks*: two blocks of two tokens fit one request at full length, so that a
  held, preempted or aborted request decides whether the other can run, and
  each freed block is written at once.
- *Adapters*: three, of two ranks, for a cache of two: each load evicts,
  eviction hits the active adapter, the rank grows, and one adapter misfits a
  layer.  Two errors allow an error in the recovery from an error.
- *Synchronous pipeline*: three requests in batches of two leave one for a
  second batch; three stages with a final one in the middle of the order of
  polling let a request be final twice; one fault at any place.
- *Audio*: windows of 2 frames for 25 (or 10) and a context of 3 for 25 (or 5),
  up to 5 frames: no, one and several windows, a last window that is full, part
  of one or empty, and a context longer and shorter than what came before.
- *Talker*: a prompt of 3 in up to 3 steps, 4 tokens sampled (a text of none, one
  and several), 7 steps of the talker, so that it goes on behind the end of the
  text; the preemption may come at any time.
- *Shared memory*: 3 attempts as in the code; 2 misses put one before and one at
  the deadline.  Only the key of the second request distinguishes it.
- *Calls*: three calls put one before and one after an error or a timeout.
- *Pipeline*: stage 0 yields up to two outputs, so that outputs can be in a
  batch together and an error can overtake one; two pauses let a pause overtake
  a woken request.  The first request ends at stage 0, the second visits both
  stages; both stages show their output to the client.  A pause is explored
  only while some request is still to be admitted, since nothing else reads the
  flag.

`CHECK_DEADLOCK FALSE` stands in the runs where the system may stop: when
clients ask for nothing more, when a producer goes silent or after a close.
The LoRA manager can always be called, and its run checks for deadlock.

## 4. Fairness

- `ChunkLink`: the save and receive threads are daemon loops without exit
  (`base.py`), the engine collects in every step.  The producer is not fair, it
  may stop.
- `ChunkGeneration`, `KVTransfer`: the engine core steps as long as
  `has_requests` holds (its guard is part of the first step in `KVTransfer`).
  Clients, producers and aborts are not fair.
- `DiffusionRpc`: the calling thread, each worker's loop and the thread that
  runs `close()` once it has begun.  Nothing makes a caller call, a timeout
  expire, a method raise or `close()` begin.
- `OmniPipeline`: the event loops never stop, engines make progress and the
  server reads every output it is offered (`serving_chat.py` iterates over
  `generate()` until it ends).  Since each request has finitely many outputs,
  one weak-fairness condition over all these steps says the same as one for
  each.  Calls, cancellations, failures, pauses and resumes are not fair.
- `SyncPipeline`: the polling loop and each worker's loop go on.  Whether a
  caller resumes a generator, stops profiling or closes is its own business and
  not fair; neither are faults and timeouts.
- `AudioStream`: engines, worker loops and the server's generators go on;
  clients call and leave as they like.
- `TalkerText`: both engines step while they have requests and the receive
  thread polls; preemptions are not fair, and a talker may stop at any step.
- `ShmTransfer`: each manager goes on with the put or get it has begun (both are
  loops in a thread that does nothing else meanwhile).
- `LoRAManager` has no fairness and no liveness property.

## 5. Properties

One type invariant per module (`LinkTypeOK`, otherwise `TypeOK`), checked by a
run where it is not proved, and:

- *Chunks*: `StreamIntact` (each chunk in exactly one place, and what a request
  carries is what was received, in order), `FinishedIsDrained` (finished only
  when used up), `ImplementsChannel` (refinement, with liveness);
  `QueuesHoldEachOnce`, `BatchOwnsPrompts`, `EmittedInOrder` (of all outputs
  sent to a client the first are those of its chunks: each chunk is used whole,
  once and in order, before the next replaces it; what is sent beyond them comes
  from past the end of the prompt of a request whose final mark was overwritten,
  and that is the only way to such an output), `ChunksGetThrough`
  (liveness).  `ChunksGetThrough` holds until a request is marked finished; from
  then on that request may keep its place in the batch for ever, which is what
  `chunk_finish` shows.
- *KV*: `SentIsOwn`, `HeldUntilRead`, `TransferredOnce` (`SentOnce`, and nobody
  waits for a transfer that does not exist, `WaitersHaveTransfer`),
  `PendingIsHandedOver` (liveness).  *Shared memory*: `ReceivedIsWhole`,
  `KeysAreClean` (segments have lock files, what was received is gone),
  `ReceivesEnd` (liveness: with what was stored in time).
- *Pipeline*: `OutputsInOrder` (through four queues), `StageAgrees` (the
  assertion in `_process_sequential_results`), `OwnInputs` (stage objects are
  shared), `AbortReachesWork`, `PausedAdmitsNone` (action property), `RequestsEnd` (liveness).
- *Synchronous pipeline*: `Accounted` (a request that is not complete is in one
  place, or was lost by a fault), `OwnOutputs`, `PayloadPerTask` (a payload
  waits for each task that will ask for it), `GenerationEnds` (liveness).
- *Audio*: `FramesOnce`, `HeardInOrder`, `StreamsAreHeard` (liveness).  *Talker*:
  `EmbeddingsIntact`, `SpeaksInOrder`, `SpeechEnds` (liveness).
- *Diffusion*: `OwnReplies` (up to the first timeout), `RanksAgree`,
  `CallsAndWorkersEnd` (liveness).
- *LoRA*: `CacheConsistent` (with its bound), `RunsWithAdapter` (in buffers that
  fit its rank), `EvictsLeastRecent` (action property).

The comment above each one says which code it is about.

## 6. Proofs

TLAPS proves, for every value of the constants that satisfies the named
assumption of the module:

- **`ChunkProofs`** for `ChunkLink` (from `LinkAssumption`: `NoReq` is no request, the mode
  is a Boolean, the bounds are naturals).  None of the properties is inductive:
  that a request carries its chunks in order needs to know where all the others
  are.  `LinkInv` says it: the save queue and the save thread hold the last
  chunks made, without a gap (`SaveInv`); connector and lost chunks are exactly
  those between what was received and what was put (`StoreInv`); the receive
  thread works on a registered request whose counter has moved (`RecvInv`); the
  data is that of the counter, or one behind while a poll is between the two
  (`HeldInv`).  One lemma per action shows that it is preserved.  From it:
  `TypeCorrect`, `Conservation` and `DataInOrder` (together `StreamStaysIntact`),
  `FinishedLast`, `NoKeyError` (the receive thread works on registered requests),
  and `RefinesChannel`: each step of the link is a step of the channel or
  leaves it unchanged.

  For `ChunkGeneration` (from `GenerationAssumption`: the mode is
  generation, places, budget and chunk length are positive) `GenerationInv`
  stands on `LinkInv`, so the proofs of the receive thread's steps begin with
  what was shown of them for the link alone.  `QueuesInv`: the two queues and the two
  deques hold every live request, and none twice; `PhaseInv`: what an engine step
  has yet to visit is in its queue, and the deques are empty between steps;
  `NewInv`: a request that was not added has left no trace; `LiveInv`: a chunk
  asked for, arrived, collected or ready is in one of these places (`ApartOf`),
  and a request with a chunk to come has the status that keeps it out of the
  batch (`StatusOf`); `BatchInv`: the batch has one step per request, and none
  uses a chunk that is awaited unless it is the final one.  The two loops of
  `schedule()` are a fold over the queue; `TakenInv` is their loop invariant
  (what was taken so far is within places and budget, in order, and no request
  is dropped), and `SequenceLemmas` has the recursion on natural numbers that
  carries it over the loop.  From it: `GenerationTypes`, `QueuesStayWhole`,
  `BatchKeepsItsPrompts`.

  `ChunksEmittedInOrder` has one hypothesis more,
  `TokenBudget >= MaxNumSeqs * ChunkTokens`, and it is not for the proof's sake:
  with less the fast path computes a part of a chunk and the property is false.
  The configuration of the model says so itself ("if max_num_batch_tokens <
  max_batch_size * 800, there will be precision problem.",
  `model_executor/stage_configs/qwen3_omni_moe_async_chunk.yaml:89`).
  `ProgressInv` counts: a request that waits has sent the outputs of all its
  chunks, one with a chunk to use of all but that one, and what the batch feeds
  of it is the whole next chunk.  A request with more outputs than chunks is in
  `finished_requests`, so it never asks for a chunk again.  `SentInv` says of
  each output what it comes from: the chunk of its number, or, beyond the chunks
  received, a step past the end of the prompt of a request that is marked
  finished, has not the status of one and waits for nothing.
- **`KVTransferProofs`** for `KVTransfer` (from `KVAssumption`: block size and lengths are
  positive, the criteria are known).  `TransferInv`: a request that neither
  triggered nor finished has no transfer anywhere and nothing sent; a pending
  or handed one has not been sent; the held requests are those that wait.
  From it: `TypeCorrect`, `OnceSemantics`.
  On top of it `DataInv`: no block is in two tables
  (`DisjointInv`), tables cover the computed tokens (`CoverInv`), the blocks of
  live and held requests contain the tokens computed, except those scheduled in
  the running step (`ContentInv`), and marks read their own request until the
  forward pass, before which they are handed over (`MarkInv`).  From it:
  `SnapshotsAreOwn` and `HeldBlocksIntact`.  For `ShmTransfer` (from
  `ShmAssumption`: at least one attempt and one get), `ShmInv`: the step of the
  writer says what its segment is (`PutInv`), a key nobody puts holds a whole
  payload or nothing (`KeyInv`), and a reader past the lock finds the writer
  done (`GetInv`).  From it: `ShmTypeCorrect`, `WholeOrNothing`, `NothingLeft`.
- **`OmniPipelineProofs`** (from `PipelineAssumption`: there is a stage, every
  request ends at a stage with final output or the last one, the bounds are
  naturals).  `PipelineInv` adds two facts to the properties.  In sequential
  mode an unfinished request has finished exactly the stages before one of its
  own, and what it has yielded is of that stage (`StagesInOrder`): with it the
  stage the loop is at is known, and the outputs forwarded are the request's.
  And no stage knows of a request that was not admitted
  (`UnadmittedUnknown`): without it a client that leaves while its request
  waits for the end of a pause could leave a task behind that nobody aborts.
  `SubmitKeeps`, `CancelKeeps` and `TakeTaskKeeps` show what the three things
  that happen to a task queue do to the tasks, then one lemma per action.  From
  it: `TypeCorrect`, `InputsAreOwn`, `WaitersArePaused`, `AbortsReach`;
  `PauseHolds` needs no invariant.

  The order of the outputs needs a second invariant, `OrderInv`.  Every result
  in a queue is of the stage and the request of the queue (`Tagged`).  For each
  request (`InOrder`): before it is admitted it has left no trace; while it is
  served, what it processed of a stage followed by what is on its way through
  the four queues is the outputs the engine yielded, in order, the last one and
  only the last one is marked as last, and a stage whose last output was made
  has nothing left to do for it (`ServedBy`); when it is complete, nothing is
  left in its stages.  The queues are looked at through views (`View`): a view
  maps a result to a sequence, and a queue to the concatenation.  That a step
  which moves a result, or adds one for another request, leaves a view as it
  was is proved once for every view; one view then gives the outputs of a
  request, another the marks, and the steps of the engine, of the loop of the
  worker, of the output handler and of `generate()` one lemma each.  From it:
  `OutputsKeepOrder`, `StagesAgree`.
- **`SyncPipelineProofs`** (from `SyncAssumption`: there are a request, a stage
  and room for one task in a batch; final outputs, diffusion stages and the
  last stage of each request are stages; the bounds are naturals).  That the
  loop counts each request once can only be said by saying where it is
  otherwise.  `WhereInv` does so for each request: it is in at most one task,
  batch or result, or in the hands of the caller, at a stage up to its last
  one, and its caller has had exactly the outputs of the stages before; a
  dropped one is nowhere.  `CountInv`: those that were seeded, not dropped and
  are nowhere are as many as were counted.  `OnceInv`: no queue or batch names a
  request twice; `TasksInv`, `ResultsInv`, `YieldedInv`: what a task, a result
  and the caller hold is the request's own, or announced and in the connector;
  `StoreInv`: a payload has a task that will ask for it, unless its worker died;
  `LoopInv`: what the loop has in hand.  A batch is where this is hard: its
  outputs come in the engine's order and are given out by position, so the
  proof follows the permutation through the sort to the task each output goes
  to.  Every step moves one request from one place to another, doubles none and
  leaves the others where they are; `Stays`, `MovesTo` and `Leaves` say so once,
  and one lemma per action uses them.  From it: `SyncTypes`,
  `RequestsAccounted`, `CallerGetsItsOwn`, `PayloadForEachTask`.
- **`AudioStreamProofs`** (from the assumption of `AudioStream`: chunk sizes are
  positive, contexts and lengths are naturals).  `FramesInv`: what was decoded is
  the frames up to the last cut, one after the other, and the windows still on
  their way are contiguous from there; that a window decoded behind its context
  yields exactly its frames is the arithmetic of `WindowDecoded` and `ModStep`.
  `HeardInv`: what the client has sent is what its cursor says, the outputs on
  their way to it (results, unpickled, not collected) are ordered by their
  length, and only the first of a request may be a single tensor.  From them:
  `TypeCorrect`, `EveryFrameOnce`, `HeardOnce`.
- **`TalkerTextProofs`** (from `TalkerAssumption`: prompt and text are not empty,
  the bounds are naturals).  What has been spoken says nothing about what comes
  next, so `TalkerInv` follows the text through the stages.  With chunks
  (`AsyncInv`): the number of chunks sent is that of the text tokens computed
  (`ThinkerAsync`); chunk n carries the embedding of text token n + 1, the first
  one the prompt as well, and what was received is the positions up to the
  number of chunks received (`LinkAsync`); the talker has taken as many steps
  as chunks, or one fewer while it holds one, until the last chunk, and its read
  index is behind the prompt by its steps (`TalkerAsync`).  Without (`FullInv`):
  nothing is sent before the thinker has finished (`LinkFull`), and the queue
  holds what is still to be said, at least up to its end (`TalkerFull`).  The
  parts are operators of values rather than of variables, so that the arithmetic
  of a step is a lemma without primes.  From it: `SpeaksText`; and `TypeCorrect`.
  `EmbeddingsIntact` needs to know when the runner may lag behind what was
  received (`RunnerInv`: only between a chunk's arrival and the step that takes
  it, and no chunk comes after the final one) and that without chunks the one
  there is is final (`OneChunkInv`); both are in `IntactInv`, which is proved on
  its own.  From it: `EmbeddingsStayIntact`.
- **`DiffusionProofs`** for `DiffusionRpc` (from `RpcAssumption`: there is a GPU,
  the ranks are ranks, the bounds are naturals).  `RanksAgree` is not inductive:
  it compares workers with equal queues only.  The invariant says that a worker
  has executed earlier calls than those it has left to read, both in order
  (`CallOrder`), and that what running workers executed together with what they
  have left to read holds the same messages for all (`SameReached`).  For the
  replies (`ReplyInv`): as long as no call was given up, at most one reply is on
  its way or still to come from worker 0, it is one to the call being made, and
  between calls there is none.  From them: `TypesOK`, `RanksExecuteTheSame`,
  `RepliesAreOwn`.  For `LoRAManager` (from `LoRAAssumption`: finitely many
  adapters, positive ranks, room for one), `LoRAInv`: the tables agree
  (`TablesAgree`), the cache exceeds its size by no more than the calls that
  raised (`CacheBounded`), and until one raises the layers hold the active
  adapter and their buffers have the one largest rank, enough for what is
  registered (`LayersAgree`).  From it: `LoRATypesOK`, `CacheStaysConsistent`,
  `RunsWithItsAdapter`, `EvictionsAreLeastRecent`.
- **`SequenceLemmas`**: what concatenating, filtering and mapping do to the
  elements of a sequence, to their order and to whether they are distinct, and
  that a function defined step by step on `0..n` exists (`RecursionExists`).

Every invariant and action property that a passing run checks is the consequence
of a theorem.  Liveness under fairness (`PendingIsHandedOver` among it) and the
liveness part of the refinement are beyond TLAPS and are model-checked only.
No module uses a RECURSIVE operator (TLAPS proves nothing about them): sums and
orders are expressed with functions and the community modules.  Of those,
`SelectSeq` is opaque to the provers, so that what is proved about filters with
`FlattenSeq`, a recursive function.

## 7. Plan

In this order; what is done is in the sections above.

1. *TeaCache*: its accumulated distance and when it is reset.
2. *Profiling* in `OmniPipeline`, next to the output handler.
3. *An abstract specification of the service* (a request is served stage by
   stage or ends with one error) that `OmniPipeline` implements.

## 8. Not modelled

- The other endpoints, the CLI and metrics translate and count; no decision of
  the parts above depends on them.
- A request moved from the running to the waiting queue by
  `process_pending_chunks`, or preempted while it waits for a chunk, keeps a
  status the base scheduler does not expect there; what it does with it is the
  external scheduler's.
- The networks of the models, attention, platforms and offloading are numerical code without
  control state that a model checker could explore.
- The network connectors (Mooncake, Yuanrong) are external services; what the
  code relies on, that a get returns what was put under the key, is the store
  of `ChunkLink`.
- Several ranks that receive one KV cache: the receiving model has no parallel
  mode.
- Death of a stage process or of a diffusion worker: the code waits for ever
  and has no reaction that a property could be about.  Likewise shutdown of the
  orchestrator while requests are served.
- The failure branch of the output handler: all exceptions of the queue it
  reads are caught inside `try_collect`.
- Time: deadlines are steps that may happen at any moment, sleeps are not
  represented.
