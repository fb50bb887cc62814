----------------------------- MODULE TalkerText -----------------------------
(***************************************************************************)
(* The text a Qwen3-Omni talker speaks.  The thinker's steps yield one     *)
(* embedding per token computed; they reach the talker in chunks while the *)
(* thinker goes on (async_chunk), or all at once when it has finished.     *)
(* Each step of the talker is given the embedding of one text token, after *)
(* the text tts_eos once, and then tts_pad.                                *)
(*                                                                         *)
(* All state is kept per request under its id; the model follows one       *)
(* request.  The chunks are a first-in first-out stream, which is what     *)
(* ChunkChannel promises and ChunkLink implements.  The schedulers are     *)
(* external: a step takes any part of a prompt, and a thinker request may  *)
(* be preempted and computed anew.  The talker's own prompt fits one step  *)
(* and the talker is not preempted.                                        *)
(***************************************************************************)
EXTENDS Integers, Sequences, SequencesExt

CONSTANTS
  PromptLen,       \* tokens of the thinker's prompt
  MaxOutput,       \* bound: tokens the thinker samples
  MaxSpoken,       \* bound: steps of the talker
  MaxSplits,       \* bound: thinker steps that compute a part of the prompt
  MaxPreemptions   \* bound: preemptions of the thinker's request

ASSUME TalkerAssumption ==
  /\ PromptLen \in Nat \ {0} /\ MaxOutput \in Nat \ {0}
  /\ {MaxSpoken, MaxSplits, MaxPreemptions} \subseteq Nat

VARIABLES
  async_chunk,      \* the mode of the pipeline
  \* thinker
  computed, output, \* tokens computed, and sampled
  thinker,          \* "running" or "finished"
  splits, preemptions,
  pooled,           \* the embeddings of all its steps, in order (history)
  \* between the stages
  saved,            \* request_payload of the thinker's adapter
  put_req_chunk,
  chunks,           \* made and not yet received
  \* talker
  talker,           \* "unready", "waiting" for a chunk, "ready" or "stopped"
  payload,          \* request_payload of its adapter, all it has received
  finished,         \* the final chunk was received (finished_requests)
  info,             \* additional_information_cpu of the model runner
  spoken            \* the text each step was given

thinkerVars == <<computed, output, thinker, splits, preemptions, pooled>>
linkVars == <<saved, put_req_chunk, chunks>>
talkerVars == <<talker, payload, finished, info, spoken>>
vars == <<async_chunk, thinkerVars, linkVars, talkerVars>>

Text(i) == <<"text", i>>
Eos == <<"eos", 0>>
Pad == <<"pad", 0>>
Zeros == <<"zeros", 0>>

Init ==
  /\ async_chunk \in BOOLEAN
  /\ computed = 0 /\ output = 0 /\ thinker = "running"
  /\ splits = 0 /\ preemptions = 0 /\ pooled = <<>>
  /\ saved = <<>> /\ put_req_chunk = 0 /\ chunks = <<>>
  /\ talker = "unready"
  /\ payload = [embeddings |-> <<>>, sequences |-> 0]
  /\ finished = FALSE
  /\ info = [prefilled |-> FALSE, embeddings |-> <<>>, trailing |-> <<>>, decode_flag |-> FALSE,
             num_processed |-> 0, finished_flag |-> FALSE]
  /\ spoken = <<>>

-----------------------------------------------------------------------------
(* The thinker.  Its n-th token is at position n - 1; a step over the last *)
(* one samples another.                                                    *)
NumTokens == PromptLen + output
Positions(n) == [i \in 1..n |-> computed + i - 1]

(* What is sent: the embeddings, the length of thinker_sequences (all      *)
(* tokens in the first chunk, the sampled ones in the others), and whether *)
(* the request has finished.                                               *)
Chunk(embeddings, tokens, last) ==
  [embeddings |-> embeddings,
   sequences |-> IF put_req_chunk = 0 THEN tokens ELSE tokens - PromptLen,
   finished |-> last]

Send(chunk) ==
  /\ chunks' = Append(chunks, chunk)
  /\ put_req_chunk' = put_req_chunk + 1
  /\ saved' = <<>>

(* The first step is kept back until the second, so that the first chunk   *)
(* holds the prompt and the first text token.                              *)
AsyncChunk(pool, tokens, last) ==
  IF put_req_chunk = 0 /\ saved = <<>> /\ ~last
  THEN saved' = pool /\ UNCHANGED <<put_req_chunk, chunks>>
  ELSE Send(Chunk(saved \o pool, tokens, last))

(* Without chunks the output processor gathers the embeddings and the      *)
(* orchestrator makes the talker's input when the thinker has finished.    *)
Gather(pool, tokens, last) ==
  IF last THEN Send(Chunk(saved \o pool, tokens, TRUE))
          ELSE saved' = saved \o pool /\ UNCHANGED <<put_req_chunk, chunks>>

Emit(pool, tokens, last) ==
  IF async_chunk THEN AsyncChunk(pool, tokens, last) ELSE Gather(pool, tokens, last)

ComputePart(n) ==
  /\ thinker = "running" /\ splits < MaxSplits
  /\ computed + n < NumTokens
  /\ splits' = splits + 1
  /\ computed' = computed + n
  /\ pooled' = pooled \o Positions(n)
  /\ Emit(Positions(n), NumTokens, FALSE)
  /\ UNCHANGED <<async_chunk, output, thinker, preemptions, talkerVars>>

Sample(last) ==
  /\ thinker = "running" /\ output < MaxOutput
  /\ (output + 1 = MaxOutput) => last
  /\ LET n == NumTokens - computed IN
       /\ pooled' = pooled \o Positions(n)
       /\ Emit(Positions(n), NumTokens + 1, last)
  /\ computed' = NumTokens
  /\ output' = output + 1
  /\ thinker' = IF last THEN "finished" ELSE "running"
  /\ UNCHANGED <<async_chunk, splits, preemptions, talkerVars>>

Preempt ==
  /\ thinker = "running" /\ computed > 0 /\ preemptions < MaxPreemptions
  /\ preemptions' = preemptions + 1
  /\ computed' = 0
  /\ UNCHANGED <<async_chunk, output, thinker, splits, pooled, linkVars, talkerVars>>

-----------------------------------------------------------------------------
(* The talker's scheduler and adapter: a step needs a chunk of its own,    *)
(* until the final one was received.  Without chunks the one there is      *)
(* stands for the talker's request itself.                                 *)
Ask ==
  /\ talker = "unready" /\ ~finished
  /\ talker' = "waiting"
  /\ UNCHANGED <<async_chunk, thinkerVars, linkVars, payload, finished, info, spoken>>

(* Faulty: a chunk replaces what was received.                             *)
Replaced(chunk) == [embeddings |-> chunk.embeddings, sequences |-> chunk.sequences]

(* Tensors and lists are concatenated.                                     *)
Concatenated(chunk) ==
  [embeddings |-> payload.embeddings \o chunk.embeddings,
   sequences |-> payload.sequences + chunk.sequences]

Receive ==
  /\ talker = "waiting" /\ chunks # <<>>
  /\ payload' = Concatenated(Head(chunks))
  /\ finished' = Head(chunks).finished
  /\ chunks' = Tail(chunks)
  /\ talker' = "ready"
  /\ UNCHANGED <<async_chunk, thinkerVars, saved, put_req_chunk, info, spoken>>

(* The runner merges what came with the step; after the final chunk the    *)
(* scheduler sends an empty dictionary, which changes nothing.             *)
Embeddings == IF talker = "ready" THEN payload.embeddings ELSE info.embeddings

(* The assistant's turn starts at the end of the prompt, and what follows  *)
(* it is cut where thinker_sequences ends.                                 *)
TextEmbeddings(embeddings) ==
  SubSeq(embeddings, PromptLen + 1,
         IF payload.sequences < Len(embeddings) THEN payload.sequences ELSE Len(embeddings))
Spoken(positions) == [i \in DOMAIN positions |-> Text(positions[i])]

(* The talker's prompt ends with the first text token; the others are      *)
(* queued for the mode without chunks.                                     *)
FirstText(text) == IF text = <<>> THEN Zeros ELSE Text(text[1])
Trailing(text) == IF Len(text) > 1 THEN Append(Spoken(Tail(text)), Eos) ELSE <<Zeros>>

Prefill ==
  LET text == TextEmbeddings(Embeddings) IN
    /\ ~info.prefilled
    /\ spoken' = <<FirstText(text)>>
    /\ info' = [info EXCEPT !.prefilled = TRUE, !.embeddings = Embeddings, !.trailing = Trailing(text)]

(* Faulty: the first decode step starts behind the prompt.                 *)
StartBehindPrompt == IF info.decode_flag THEN info.num_processed ELSE PromptLen

(* The first decode step starts behind the prompt and the first text token.*)
StartIndex == IF info.decode_flag THEN info.num_processed ELSE PromptLen + 1

TextAt(start) ==
  IF start < Len(Embeddings) THEN Text(Embeddings[start + 1])
  ELSE IF info.finished_flag THEN Pad ELSE Eos

DecodeChunk ==
  /\ info.prefilled /\ async_chunk
  /\ spoken' = Append(spoken, TextAt(StartIndex))
  /\ info' = [info EXCEPT !.decode_flag = TRUE, !.num_processed = StartIndex + 1,
                          !.finished_flag = @ \/ StartIndex >= Len(Embeddings),
                          !.embeddings = Embeddings]

DecodeTrailing ==
  /\ info.prefilled /\ ~async_chunk
  /\ spoken' = Append(spoken, Head(info.trailing))
  /\ info' = [info EXCEPT !.trailing = IF Len(@) > 1 THEN Tail(@) ELSE <<Pad>>]

(* Faulty: after the final chunk steps ask for chunks, too.                *)
MayStepWhenReady == talker = "ready"

MayStep == talker = "ready" \/ (talker = "unready" /\ finished)

(* A step of the talker, which may sample its stop token.                  *)
TalkerStep ==
  /\ MayStep
  /\ Len(spoken) < MaxSpoken
  /\ Prefill \/ DecodeChunk \/ DecodeTrailing
  /\ talker' \in {"unready", "stopped"}
  /\ UNCHANGED <<async_chunk, thinkerVars, linkVars, payload, finished>>

-----------------------------------------------------------------------------
Thinker == (\E last \in BOOLEAN : Sample(last)) \/ \E n \in 1..PromptLen + MaxOutput : ComputePart(n)

Next == Thinker \/ Preempt \/ Ask \/ Receive \/ TalkerStep

Safety == Init /\ [][Next]_vars

(* Engines step as long as they have requests, and the receive thread      *)
(* polls.                                                                  *)
Spec == Safety /\ WF_vars(Thinker) /\ WF_vars(Ask \/ Receive \/ TalkerStep)

-----------------------------------------------------------------------------
(* Embeddings are positions of the thinker's request.                      *)
EmbeddingSeq == Seq(0..PromptLen + MaxOutput)
Inputs == {Eos, Pad, Zeros} \cup {Text(i) : i \in 0..PromptLen + MaxOutput}

TypeOK ==
  /\ async_chunk \in BOOLEAN
  /\ output \in 0..MaxOutput /\ computed \in 0..PromptLen + output
  /\ thinker \in {"running", "finished"}
  /\ splits \in 0..MaxSplits /\ preemptions \in 0..MaxPreemptions
  /\ pooled \in EmbeddingSeq /\ saved \in EmbeddingSeq
  /\ put_req_chunk \in Nat
  /\ chunks \in Seq([embeddings : EmbeddingSeq, sequences : Nat, finished : BOOLEAN])
  /\ talker \in {"unready", "waiting", "ready", "stopped"}
  /\ payload \in [embeddings : EmbeddingSeq, sequences : Nat]
  /\ finished \in BOOLEAN
  /\ info \in [prefilled : BOOLEAN, embeddings : EmbeddingSeq, trailing : Seq(Inputs),
               decode_flag : BOOLEAN, num_processed : Nat, finished_flag : BOOLEAN]
  /\ spoken \in Seq(Inputs)

(* What the thinker computed is received, on its way or kept back, in      *)
(* order and once, whatever the steps and preemptions; the runner works on *)
(* what was received, and on all of it while it steps without a chunk      *)
(* (_update_request_payload, additional_information = {}).                 *)
EmbeddingsIntact ==
  /\ payload.embeddings \o FlattenSeq([i \in DOMAIN chunks |-> chunks[i].embeddings]) \o saved = pooled
  /\ IsPrefix(info.embeddings, payload.embeddings)
  /\ talker = "unready" /\ info.prefilled => info.embeddings = payload.embeddings

(* The text: all tokens sampled but the last, which is never computed.     *)
NumText == IF output = 0 THEN 0 ELSE output - 1

(* The i-th input of the talker.  Of a text of one token nothing is left   *)
(* for the queue of the mode without chunks, and zeros stand for tts_eos.  *)
Expected(i) ==
  CASE i <= NumText -> Text(PromptLen + i - 1)
    [] i = 1 /\ NumText = 0 -> Zeros
    [] i = 2 /\ NumText <= 1 -> IF async_chunk THEN Eos ELSE Zeros
    [] i = NumText + 1 /\ NumText > 1 -> Eos
    [] OTHER -> Pad

SpeaksExpected ==
  \A i \in DOMAIN spoken :
    /\ spoken[i] = Expected(i)
    /\ i > NumText => thinker = "finished"

(* Steps that make the position of an embedding differ from its place:     *)
(* a prompt computed in parts, if chunks are sent, and a preemption.       *)
Regular == preemptions = 0 /\ (async_chunk => splits = 0)

(* The talker speaks the text of the thinker, each token once and in       *)
(* order, although it starts before the text is complete; tts_eos comes    *)
(* when the thinker has finished and the text is used up, never earlier    *)
(* (qwen3_omni.py:873).                                                    *)
SpeaksInOrder == Regular => SpeaksExpected

(* Nothing holds up the talker for ever: when the thinker has finished,    *)
(* its request comes to the end of the text, unless it stops before.       *)
SpeechEnds ==
  thinker = "finished" ~>
    talker = "stopped" \/ Len(spoken) = MaxSpoken
=============================================================================
