---------------------------- MODULE AudioStream ----------------------------
(***************************************************************************)
(* Streaming audio: from codec frames to the chunks a client hears.        *)
(*                                                                         *)
(* Two models produce audio piecemeal.  Qwen3-TTS ("tts") advances one     *)
(* generator per request and decodes the new frames behind 25 frames of    *)
(* left context.  Qwen3-Omni in async-chunk mode ("omni") sends windows of *)
(* frames from its talker to code2wav, which trims what it was sent        *)
(* before.  The output processor of the stage accumulates the decoded      *)
(* chunks of a request: an output holds the first tensor, or a reference   *)
(* to the list, which goes on growing until the output is pickled.  The    *)
(* speech endpoint keeps a cursor into that list.                          *)
(*                                                                         *)
(* vLLM's scheduler queue and RequestOutputCollector (an unread output is  *)
(* replaced by the next) are external.  A decoded chunk is the interval of *)
(* frames it holds; delivery tells chunks apart by their number.           *)
(***************************************************************************)
EXTENDS Integers, Sequences, FiniteSets, SequencesExt

CONSTANTS
  Requests,
  Models,      \* the models deployed: a subset of {"tts", "omni"}
  ChunkSize,   \* chunk_size of the TTS talker loop
  LeftContext, \* left context of both decoders and chunk size of code2wav
  MaxFrames    \* max_new_tokens: frames of one request

ASSUME AudioAssumption ==
  /\ "none" \notin Requests
  /\ Models \subseteq {"tts", "omni"} /\ Models # {}
  /\ {ChunkSize, LeftContext, MaxFrames} \subseteq Nat \ {0}

VARIABLES
  model,
  waiting, running,   \* requests in the queues of the TTS stage, or of the talker;
                      \* the scheduler's order of the waiting ones is external
  frames,             \* frames the talker made of each request
  generators,         \* _streaming_generators
  chunks,             \* windows on their way from the talker to code2wav
  decoded,            \* the chunks decoded, in order: what mm_accumulated holds
  collector,          \* the unread output of each request
  generation_out_q,   \* outputs of the stage that are not pickled yet
  out_q,              \* results on their way to the orchestrator
  client,             \* where the client of each request is
  aborting,           \* abort tasks on their way to the stages
  chunks_yielded,     \* the cursor of _stream_progressive_audio
  heard               \* numbers of the chunks sent to the client (history)

sourceVars == <<waiting, running, frames, generators, chunks>>
stageVars == <<decoded, collector>>
queueVars == <<generation_out_q, out_q>>
clientVars == <<client, chunks_yielded, heard>>
vars == <<model, sourceVars, stageVars, queueVars, clientVars, aborting>>

NoOutput == [request |-> "none", list |-> FALSE, finished |-> FALSE]
Output(r, list, finished) == [request |-> r, list |-> list, finished |-> finished]
Smaller(a, b) == IF a < b THEN a ELSE b
Larger(a, b) == IF a > b THEN a ELSE b

Init ==
  /\ model \in Models
  /\ waiting = {} /\ running = {}
  /\ frames = [r \in Requests |-> 0]
  /\ generators = {}
  /\ chunks = [r \in Requests |-> <<>>]
  /\ decoded = [r \in Requests |-> <<>>]
  /\ collector = [r \in Requests |-> NoOutput]
  /\ generation_out_q = <<>> /\ out_q = <<>>
  /\ client = [r \in Requests |-> "new"]
  /\ aborting = {}
  /\ chunks_yielded = [r \in Requests |-> 0]
  /\ heard = [r \in Requests |-> <<>>]

----------------------------------------------------------------------------
(* Requests and the scheduler.  The TTS stage runs one request at a time   *)
(* (max_batch_size 1 is passed on as max_num_seqs): its model advances     *)
(* only the generator of the first request of a batch.                     *)

CreateSpeech(r) ==
  /\ client[r] = "new"
  /\ client' = [client EXCEPT ![r] = "listening"]
  /\ waiting' = waiting \union {r}
  /\ UNCHANGED <<model, running, frames, generators, chunks, stageVars, queueVars,
                 chunks_yielded, heard, aborting>>

HasRoom == model = "tts" => running = {}

Schedule(r) ==
  /\ r \in waiting /\ HasRoom
  /\ running' = running \union {r}
  /\ waiting' = waiting \ {r}
  /\ UNCHANGED <<model, frames, generators, chunks, stageVars, queueVars, clientVars,
                 aborting>>

----------------------------------------------------------------------------
(* The output processor.                                                   *)

(* Faulty: an output that was not read is kept and the next one lost.      *)
ProcessOutputsKept(r, chunk, finished) ==
  /\ decoded' = [decoded EXCEPT ![r] = Append(@, chunk)]
  /\ collector' = [collector EXCEPT ![r] =
       IF @ # NoOutput THEN @ ELSE Output(r, decoded[r] # <<>>, finished)]

(* add_multimodal_tensor keeps the first tensor as it is, makes a list of  *)
(* it and the second, and appends to that list from then on; the output    *)
(* that is put in the collector refers to what is held at that time.       *)
ProcessOutputs(r, chunk, finished) ==
  /\ decoded' = [decoded EXCEPT ![r] = Append(@, chunk)]
  /\ collector' = [collector EXCEPT ![r] = Output(r, decoded[r] # <<>>, finished)]

----------------------------------------------------------------------------
(* Qwen3-TTS.                                                              *)

(* Frames of a chunk of the generator: after ChunkSize frames it is        *)
(* yielded; at EOS, or after max_new_tokens frames, what is left is the    *)
(* final chunk, which may be empty.                                        *)
FramesOfChunk(r) == 0..Smaller(ChunkSize, MaxFrames - frames[r])
IsFinal(n) == n < ChunkSize

(* _stream_codes_to_audio decodes the new frames behind their left         *)
(* context and strips the share of the samples the context made.           *)
OverlapDecoded(prev, n) ==
  LET context_start == Larger(0, prev - LeftContext)
      context_frames == prev - context_start
  IN  [first |-> context_start + context_frames + 1, last |-> prev + n]

(* One forward() of the model and update_from_output.  The final chunk     *)
(* closes the generator and finishes the request.                          *)
AdvanceStreaming(r, n) ==
  /\ model = "tts" /\ r \in running /\ n \in FramesOfChunk(r)
  /\ frames' = [frames EXCEPT ![r] = @ + n]
  /\ generators' = IF IsFinal(n) THEN generators \ {r} ELSE generators \union {r}
  /\ running' = IF IsFinal(n) THEN running \ {r} ELSE running
  /\ ProcessOutputs(r, OverlapDecoded(frames[r], n), IsFinal(n))
  /\ UNCHANGED <<model, waiting, chunks, queueVars, clientVars, aborting>>

----------------------------------------------------------------------------
(* Qwen3-Omni: the talker, its windows, and code2wav.                      *)

(* The codes of the prefill are zeros, and a payload without codes is not  *)
(* sent, the flag of its last step included.                               *)
FinishAtPrefill(r) ==
  /\ model = "omni" /\ r \in running /\ frames[r] = 0
  /\ running' = running \ {r}
  /\ UNCHANGED <<model, waiting, frames, generators, chunks, stageVars, queueVars,
                 clientVars, aborting>>

(* talker2code2wav_async_chunk: the window that ends at the length-th      *)
(* frame, LeftContext frames before the ones since the last window.        *)
EndIndex(length) ==
  LET chunk_length == length % LeftContext
  IN  Smaller(length, LeftContext + (IF chunk_length # 0 THEN chunk_length ELSE LeftContext))
Window(length) == [first |-> length - EndIndex(length) + 1, last |-> length]

Talk(r, finished) ==
  /\ model = "omni" /\ r \in running /\ frames[r] < MaxFrames
  /\ frames[r] + 1 = MaxFrames => finished
  /\ frames' = [frames EXCEPT ![r] = @ + 1]
  /\ chunks' = IF frames'[r] % LeftContext # 0 /\ ~finished THEN chunks
               ELSE [chunks EXCEPT ![r] = Append(@, Window(frames'[r]))]
  /\ running' = IF finished THEN running \ {r} ELSE running
  /\ UNCHANGED <<model, waiting, generators, stageVars, queueVars, clientVars, aborting>>

(* Faulty: a first window of full length is taken to have a context.       *)
StreamingDecodedStrict(w) ==
  [first |-> w.first + (IF w.last - w.first + 1 < LeftContext THEN 0 ELSE LeftContext),
   last |-> w.last]

(* chunked_decode_streaming with chunk_size = left_context_size.           *)
StreamingDecoded(w) ==
  LET code_seq_len == w.last - w.first + 1
      context_size == IF code_seq_len <= LeftContext THEN 0 ELSE LeftContext
  IN  [first |-> w.first + context_size, last |-> w.last]

(* One step of the code2wav stage.  It never reports a finished request:   *)
(* see FinishedRequestLeaves of ChunkGeneration.                           *)
Code2Wav(r) ==
  /\ chunks[r] # <<>>
  /\ chunks' = [chunks EXCEPT ![r] = Tail(@)]
  /\ ProcessOutputs(r, StreamingDecoded(Head(chunks[r])), FALSE)
  /\ UNCHANGED <<model, waiting, running, frames, generators, queueVars, clientVars, aborting>>

----------------------------------------------------------------------------
(* The stage worker: generation_single_request moves the outputs of its    *)
(* request to generation_out_q, the batch loop hands them to the queue of  *)
(* the process, whose feeder thread pickles them.                          *)

GenerationSingleRequest(r) ==
  /\ collector[r] # NoOutput
  /\ generation_out_q' = Append(generation_out_q, collector[r])
  /\ collector' = [collector EXCEPT ![r] = NoOutput]
  /\ UNCHANGED <<model, sourceVars, decoded, out_q, clientVars, aborting>>

(* A list is pickled as it is by then, with the chunks that came since.    *)
Pickled(o) ==
  [request |-> o.request, list |-> o.list, finished |-> o.finished,
   len |-> IF o.list THEN Len(decoded[o.request]) ELSE 1]

Pickle ==
  /\ generation_out_q # <<>>
  /\ out_q' = Append(out_q, Pickled(Head(generation_out_q)))
  /\ generation_out_q' = Tail(generation_out_q)
  /\ UNCHANGED <<model, sourceVars, stageVars, clientVars, aborting>>

(* abort() of the stage engine.  The generator of the request stays in     *)
(* _streaming_generators: only its last chunk takes it out.                *)
Abort(r) ==
  /\ r \in aborting
  /\ aborting' = aborting \ {r}
  /\ running' = running \ {r}
  /\ waiting' = waiting \ {r}
  /\ UNCHANGED <<model, frames, generators, chunks, stageVars, queueVars, clientVars>>

----------------------------------------------------------------------------
(* The endpoints.                                                          *)

(* Faulty: every element of the list is sent, as if it were all new.       *)
AllTensors(m) == [i \in 1..m.len |-> i]

(* _stream_progressive_audio: the elements of a list from the cursor on; a *)
(* single tensor is the first chunk.                                       *)
NewTensors(m) ==
  IF m.list THEN [i \in 1..Larger(0, m.len - chunks_yielded[m.request]) |->
                    chunks_yielded[m.request] + i]
  ELSE <<1>>

StreamProgressiveAudio ==
  /\ out_q # <<>>
  /\ out_q' = Tail(out_q)
  /\ LET m == Head(out_q)
         r == m.request
     IN  IF client[r] = "listening" THEN
           /\ heard' = [heard EXCEPT ![r] = @ \o NewTensors(m)]
           /\ chunks_yielded' = [chunks_yielded EXCEPT ![r] = m.len]
           /\ client' = [client EXCEPT ![r] = IF m.finished THEN "done" ELSE @]
         ELSE UNCHANGED clientVars
  /\ UNCHANGED <<model, sourceVars, stageVars, generation_out_q, aborting>>

(* The client disconnects: generate() sends an abort task to every stage.  *)
Disconnect(r) ==
  /\ client[r] = "listening"
  /\ client' = [client EXCEPT ![r] = "gone"]
  /\ aborting' = aborting \union {r}
  /\ UNCHANGED <<model, sourceVars, stageVars, queueVars, chunks_yielded, heard>>

----------------------------------------------------------------------------
Produce(r) ==
  \/ \E n \in 0..ChunkSize : AdvanceStreaming(r, n)
  \/ FinishAtPrefill(r)
  \/ \E finished \in BOOLEAN : Talk(r, finished)

Next ==
  \/ Pickle \/ StreamProgressiveAudio
  \/ \E r \in Requests :
       \/ CreateSpeech(r) \/ Schedule(r) \/ Produce(r) \/ Code2Wav(r)
       \/ GenerationSingleRequest(r) \/ Abort(r) \/ Disconnect(r)

Safety == Init /\ [][Next]_vars

(* Engines step and loops poll for as long as there is work; clients come  *)
(* and leave as they like.                                                 *)
Spec ==
  /\ Safety
  /\ WF_vars(\E r \in Requests : Schedule(r))
  /\ WF_vars(Pickle) /\ WF_vars(StreamProgressiveAudio)
  /\ \A r \in Requests :
       /\ WF_vars(Produce(r)) /\ WF_vars(Code2Wav(r))
       /\ WF_vars(GenerationSingleRequest(r)) /\ WF_vars(Abort(r))

----------------------------------------------------------------------------
Intervals == [first : Nat, last : Nat]
Outputs == [request : Requests, list : BOOLEAN, finished : BOOLEAN]
Results == [request : Requests, list : BOOLEAN, finished : BOOLEAN, len : Nat \ {0}]

(* The type of the state.                                                  *)
TypeOK ==
  /\ model \in Models
  /\ waiting \subseteq Requests /\ running \subseteq Requests
  /\ frames \in [Requests -> 0..MaxFrames]
  /\ generators \subseteq Requests
  /\ chunks \in [Requests -> Seq(Intervals)]
  /\ decoded \in [Requests -> Seq(Intervals)]
  /\ collector \in [Requests -> {NoOutput} \union Outputs]
  /\ \A r \in Requests : collector[r] # NoOutput => collector[r].request = r
  /\ generation_out_q \in Seq(Outputs) /\ out_q \in Seq(Results)
  /\ client \in [Requests -> {"new", "listening", "done", "gone"}]
  /\ aborting \subseteq Requests
  /\ chunks_yielded \in [Requests -> Nat]
  /\ heard \in [Requests -> Seq(Nat \ {0})]

(* The overlapping windows of both decoders are trimmed so that every      *)
(* frame is decoded into exactly one chunk, in order, and none is left     *)
(* behind once the talker has finished and code2wav has caught up.         *)
FramesOnce ==
  \A r \in Requests :
    /\ \A i \in DOMAIN decoded[r] :
         decoded[r][i].first = IF i = 1 THEN 1 ELSE decoded[r][i - 1].last + 1
    /\ decoded[r] # <<>> /\ chunks[r] = <<>> /\ r \notin running /\ r \notin aborting
         /\ client[r] # "gone"
       => Last(decoded[r]).last = frames[r]

(* The client hears every chunk once and in order, though an output that   *)
(* was not read is replaced and one that was read still grows.             *)
HeardInOrder ==
  \A r \in Requests :
    /\ heard[r] = [i \in 1..Len(heard[r]) |-> i]
    /\ Len(heard[r]) <= Len(decoded[r])

AllDelivered(r) ==
  /\ r \notin running /\ r \notin waiting /\ chunks[r] = <<>>
  /\ Len(heard[r]) = Len(decoded[r])
  /\ model = "tts" => client[r] = "done"

(* A client that stays hears everything that was decoded for it, whoever   *)
(* else is served or leaves, and its TTS stream is closed.                 *)
StreamsAreHeard ==
  \A r \in Requests :
    client[r] = "listening" ~> (client[r] = "gone" \/ AllDelivered(r))
============================================================================
