---------------------------- MODULE OmniPipeline ----------------------------
(***************************************************************************)
(* The asynchronous orchestrator and its stage workers.  AsyncOmni runs    *)
(* one coroutine per request (generate) and one output handler; every      *)
(* stage is a process with a task queue and a result queue.  In sequential *)
(* mode a request visits its stages one after the other, in async-chunk    *)
(* mode all stages work on it at once.                                     *)
(*                                                                         *)
(* A step is the code between two awaits.  A result is the number it has   *)
(* among the outputs of its stage for its request; an error has number 0.  *)
(* What an engine computes is external: it yields outputs, the last one    *)
(* marked finished, or raises.                                             *)
(***************************************************************************)
EXTENDS Integers, Sequences, FiniteSets, SequencesExt

CONSTANTS
  NumRequests,    \* requests are numbered in the order generate() is called
  NumStages,
  FinalOutput,    \* the stages configured with final_output
  FinalStage,     \* the stage that ends each request, from the modalities it asks for
  MaxOutputs,     \* bound: outputs of each stage for a request
  MaxDisruptions, \* bound: engines that raise, connector puts that fail and
                  \* clients that go away, together
  MaxPauses       \* bound: calls of pause_generation

Requests == 1..NumRequests
Stages == 0..NumStages - 1

ASSUME PipelineAssumption ==
  /\ NumRequests \in Nat /\ NumStages \in Nat \ {0}
  /\ FinalOutput \subseteq Stages
  /\ FinalStage \in [Requests -> FinalOutput \cup {NumStages - 1}]
  /\ MaxOutputs \in [Stages -> Nat \ {0}]
  /\ {MaxDisruptions, MaxPauses} \subseteq Nat

VARIABLES
  async_chunk,          \* the mode, fixed at start
  paused,
  phase,                \* where generate() of each request is
  all_stages_finished,  \* the stages whose last result was processed
  request_states,
  queue,                \* results handed to a request: by stage in async-chunk
                        \* mode, in one queue (0) in sequential mode
  stage_id,             \* req_state.stage_id
  held,                 \* the result whose output generate() has yielded
  engine_outputs,       \* the request each stage object holds outputs of
  in_q, out_q,          \* the queues of each stage process
  tasks,                \* requests each engine works on
  aborting,             \* aborts each worker has scheduled
  generation_out_q,     \* outputs yielded by each engine
  batch,                \* outputs each worker has collected and not yet sent
  produced, ended,      \* outputs of each engine per request; the last was one
  received,             \* results each request has processed (history)
  disruptions, pauses

requestVars == <<phase, all_stages_finished, request_states, held,
                 engine_outputs, received>>
handlerVars == <<queue, stage_id>>
workerVars == <<tasks, aborting, generation_out_q, batch, produced, ended>>
pauseVars == <<paused, pauses>>
vars == <<async_chunk, pauseVars, requestVars, handlerVars, in_q, out_q, workerVars,
          disruptions>>

NoRequest == 0
NoResult == [stage |-> 0, last |-> FALSE]

Result(r, s, n, last) == [rid |-> r, stage |-> s, n |-> n, last |-> last]
Error(r, s) == Result(r, s, 0, FALSE)
Generate(r, source) == [type |-> "generate", rid |-> r, source |-> source]
Abort(r) == [type |-> "abort", rid |-> r, source |-> r]

Init ==
  /\ async_chunk \in BOOLEAN
  /\ paused = FALSE
  /\ phase = [r \in Requests |-> "new"]
  /\ all_stages_finished = [r \in Requests |-> {}]
  /\ request_states = {}
  /\ queue = [r \in Requests |-> [s \in Stages |-> <<>>]]
  /\ stage_id = [r \in Requests |-> -1]
  /\ held = [r \in Requests |-> NoResult]
  /\ engine_outputs = [s \in Stages |-> NoRequest]
  /\ in_q = [s \in Stages |-> <<>>]
  /\ out_q = [s \in Stages |-> <<>>]
  /\ tasks = [s \in Stages |-> {}]
  /\ aborting = [s \in Stages |-> {}]
  /\ generation_out_q = [s \in Stages |-> <<>>]
  /\ batch = [s \in Stages |-> <<>>]
  /\ produced = [s \in Stages |-> [r \in Requests |-> 0]]
  /\ ended = [s \in Stages |-> {}]
  /\ received = [r \in Requests |-> [s \in Stages |-> <<>>]]
  /\ disruptions = 0 /\ pauses = 0

Disrupt == disruptions < MaxDisruptions /\ disruptions' = disruptions + 1
Move(r, to) == phase' = [phase EXCEPT ![r] = to]

(* stage.submit(task) to the stages S.                                     *)
Submit(S, task) == in_q' = [s \in Stages |-> IF s \in S THEN Append(in_q[s], task) ELSE in_q[s]]

-----------------------------------------------------------------------------
(* pause_generation and resume_generation.  A pause that no request is     *)
(* left to meet would change nothing and is not explored.                  *)

Pause ==
  /\ ~paused /\ pauses < MaxPauses
  /\ \E r \in Requests : phase[r] \in {"new", "notified"}
  /\ paused' = TRUE
  /\ pauses' = pauses + 1
  /\ UNCHANGED <<async_chunk, requestVars, handlerVars, in_q, out_q, workerVars, disruptions>>

NotifyAll ==
  phase' = [r \in Requests |-> IF phase[r] = "waiting" THEN "notified" ELSE phase[r]]

Resume ==
  /\ paused
  /\ paused' = FALSE
  /\ NotifyAll
  /\ UNCHANGED <<async_chunk, all_stages_finished, request_states,
                 held, engine_outputs, received, handlerVars, in_q, out_q, workerVars,
                 disruptions, pauses>>

-----------------------------------------------------------------------------
(* generate() of one request.                                              *)

Start(r) ==
  /\ request_states' = request_states \cup {r}
  /\ Submit({0}, Generate(r, r))
  /\ Move(r, "running")

(* Faulty: `if` in the place of wait_for, which tests again.               *)
AdmitOnce(r) ==
  /\ IF paused /\ phase[r] = "new"
     THEN Move(r, "waiting") /\ UNCHANGED <<request_states, in_q>>
     ELSE Start(r)
  /\ UNCHANGED <<async_chunk, pauseVars, all_stages_finished, held, engine_outputs, received,
                 handlerVars, out_q, workerVars, disruptions>>

(* wait_for(lambda: not self._paused), then up to the first await.         *)
Admit(r) ==
  /\ IF paused
     THEN Move(r, "waiting") /\ UNCHANGED <<request_states, in_q>>
     ELSE Start(r)
  /\ UNCHANGED <<async_chunk, pauseVars, all_stages_finished, held, engine_outputs, received,
                 handlerVars, out_q, workerVars, disruptions>>

Call(r) == phase[r] = "new" /\ (\A q \in 1..r - 1 : phase[q] # "new") /\ Admit(r)
Wake(r) == phase[r] = "notified" /\ Admit(r)

(* Every stage up to the final one is done: the request is served.         *)
Complete(r) == Move(r, "done") /\ request_states' = request_states \ {r}

(* Faulty: the outputs of the first request stay.                          *)
KeepEngineOutputs(r, s) ==
  engine_outputs' = [engine_outputs EXCEPT ![s] = IF @ = NoRequest THEN r ELSE @]

SetEngineOutputs(r, s) == engine_outputs' = [engine_outputs EXCEPT ![s] = r]

(* The outputs of stage s become the inputs of the next one and leave      *)
(* through the connector, whose put may fail.                              *)
Forward(r, s) ==
  \/ /\ Submit({s + 1}, Generate(r, engine_outputs'[s]))
     /\ Move(r, "running")
     /\ UNCHANGED disruptions
  \/ /\ Disrupt
     /\ Move(r, "failed")
     /\ UNCHANGED in_q

(* Sequential mode, once a result of stage s was processed and yielded.    *)
AfterResult(r, s, last) ==
  IF ~last
  THEN /\ Move(r, "running")
       /\ UNCHANGED <<all_stages_finished, engine_outputs, request_states, in_q, disruptions>>
  ELSE /\ all_stages_finished' = [all_stages_finished EXCEPT ![r] = @ \cup {s}]
       /\ SetEngineOutputs(r, s)
       /\ IF s < FinalStage[r]
          THEN Forward(r, s) /\ UNCHANGED request_states
          ELSE Complete(r) /\ UNCHANGED <<in_q, disruptions>>

(* The stage the for loop of _process_sequential_results is at.            *)
Current(r) == CHOOSE s \in Stages : s \notin all_stages_finished[r]
                                    /\ \A t \in 0..s - 1 : t \in all_stages_finished[r]

Dequeue(r, k) == queue' = [queue EXCEPT ![r][k] = Tail(@)]

IsError(result) == result.n = 0

(* _process_single_result of a result that is no error.                    *)
Record(r, s, result) == received' = [received EXCEPT ![r][s] = Append(@, <<result.stage, result.n>>)]
Yield(r, s, result) ==
  /\ held' = [held EXCEPT ![r] = [stage |-> s, last |-> result.last]]
  /\ Move(r, "yielding")

(* An error, or a stage the request is not at, raises out of generate();   *)
(* the entry in request_states stays and no stage is told.                 *)
Raise(r) ==
  /\ Move(r, "failed")
  /\ UNCHANGED <<all_stages_finished, request_states, held, engine_outputs, received, in_q, disruptions>>

TakeSequential(r) ==
  /\ ~async_chunk /\ phase[r] = "running" /\ queue[r][0] # <<>>
  /\ Dequeue(r, 0)
  /\ LET result == Head(queue[r][0])
         s == Current(r)
     IN IF stage_id[r] # s \/ IsError(result)
        THEN Raise(r)
        ELSE /\ Record(r, s, result)
             /\ IF s \in FinalOutput
                THEN /\ Yield(r, s, result)
                     /\ UNCHANGED <<all_stages_finished, engine_outputs, request_states, in_q, disruptions>>
                ELSE /\ AfterResult(r, s, result.last)
                     /\ UNCHANGED held
  /\ UNCHANGED <<async_chunk, pauseVars, stage_id, out_q, workerVars>>

Served(r) == 0..FinalStage[r] \subseteq all_stages_finished'[r]

(* submit_flag: the first result of stage 0 starts all other stages.       *)
SubmitOthers(r, s) ==
  IF s = 0 /\ received[r][0] = <<>>
  THEN Submit(Stages \ {0}, Generate(r, r))
  ELSE UNCHANGED in_q

(* One result of stage s, whichever stage the polling loop finds first.    *)
TakeChunk(r, s) ==
  /\ async_chunk /\ phase[r] = "running" /\ queue[r][s] # <<>>
  /\ s <= FinalStage[r] /\ s \notin all_stages_finished[r]
  /\ Dequeue(r, s)
  /\ LET result == Head(queue[r][s])
     IN IF IsError(result)
        THEN Raise(r)
        ELSE /\ Record(r, s, result)
             /\ SubmitOthers(r, s)
             /\ all_stages_finished' = [all_stages_finished EXCEPT
                                          ![r] = IF result.last THEN @ \cup {s} ELSE @]
             /\ IF s \in FinalOutput
                THEN Yield(r, s, result) /\ UNCHANGED request_states
                ELSE /\ IF Served(r) THEN Complete(r)
                                     ELSE Move(r, "running") /\ UNCHANGED request_states
                     /\ UNCHANGED held
             /\ UNCHANGED <<engine_outputs, disruptions>>
  /\ UNCHANGED <<async_chunk, pauseVars, stage_id, out_q, workerVars>>

(* The client asks for more.                                               *)
Continue(r) ==
  /\ phase[r] = "yielding"
  /\ IF async_chunk
     THEN /\ IF 0..FinalStage[r] \subseteq all_stages_finished[r]
             THEN Complete(r)
             ELSE Move(r, "running") /\ UNCHANGED request_states
          /\ UNCHANGED <<all_stages_finished, engine_outputs, in_q, disruptions>>
     ELSE AfterResult(r, held[r].stage, held[r].last)
  /\ UNCHANGED <<async_chunk, pauseVars, held, received, handlerVars, out_q,
                 workerVars>>

(* Faulty: only the stages up to the one that ends the request are told.   *)
CancelSomeStages(r) ==
  /\ phase[r] \in {"running", "yielding"}
  /\ Submit(0..FinalStage[r], Abort(r))

(* CancelledError or GeneratorExit at an await or a yield: abort().        *)
TellStages(r) ==
  /\ phase[r] \in {"running", "yielding"}
  /\ Submit(Stages, Abort(r))

(* While it waits for the end of a pause there is nothing to abort.        *)
NothingToTell(r) == phase[r] \in {"waiting", "notified"} /\ UNCHANGED in_q

Cancel(r) ==
  /\ Disrupt
  /\ TellStages(r) \/ NothingToTell(r)
  /\ Move(r, "aborted")
  /\ UNCHANGED <<async_chunk, pauseVars, all_stages_finished, request_states,
                 held, engine_outputs, received, handlerVars, out_q, workerVars>>

-----------------------------------------------------------------------------
(* output_handler: one result of a stage, dropped when its request has no  *)
(* entry.                                                                  *)

(* Faulty: only the first result of the request sets its stage.            *)
NoteFirstStage(r, s) == stage_id' = [stage_id EXCEPT ![r] = IF @ = -1 THEN s ELSE @]

NoteStage(r, s) == stage_id' = [stage_id EXCEPT ![r] = s]

Hand(r, s, result) ==
  IF async_chunk
  THEN queue' = [queue EXCEPT ![r][s] = Append(@, result)] /\ UNCHANGED stage_id
  ELSE /\ queue' = [queue EXCEPT ![r][0] = Append(@, result)]
       /\ NoteStage(r, s)

Collect(s) ==
  /\ out_q[s] # <<>>
  /\ out_q' = [out_q EXCEPT ![s] = Tail(@)]
  /\ LET result == Head(out_q[s])
     IN IF result.rid \in request_states
        THEN Hand(result.rid, s, result)
        ELSE UNCHANGED handlerVars
  /\ UNCHANGED <<async_chunk, pauseVars, requestVars, in_q, workerVars, disruptions>>

-----------------------------------------------------------------------------
(* _stage_worker_async.                                                    *)

(* One round of the loop up to its second sleep: at most one task is       *)
(* taken, every output there is is collected.                              *)
Round(s) ==
  /\ batch[s] = <<>>
  /\ in_q[s] # <<>> \/ generation_out_q[s] # <<>>
  /\ batch' = [batch EXCEPT ![s] = generation_out_q[s]]
  /\ generation_out_q' = [generation_out_q EXCEPT ![s] = <<>>]
  /\ IF in_q[s] = <<>>
     THEN UNCHANGED <<in_q, tasks, aborting>>
     ELSE LET task == Head(in_q[s])
          IN /\ in_q' = [in_q EXCEPT ![s] = Tail(@)]
             /\ IF task.type = "abort"
                THEN aborting' = [aborting EXCEPT ![s] = @ \cup {task.rid}] /\ UNCHANGED tasks
                ELSE tasks' = [tasks EXCEPT ![s] = @ \cup {task.rid}] /\ UNCHANGED aborting
  /\ UNCHANGED <<async_chunk, pauseVars, requestVars, handlerVars, out_q, produced, ended,
                 disruptions>>

(* Faulty: the outputs leave in reverse order.                             *)
SendReversed(s) ==
  /\ batch[s] # <<>>
  /\ out_q' = [out_q EXCEPT ![s] = @ \o Reverse(batch[s])]
  /\ batch' = [batch EXCEPT ![s] = <<>>]
  /\ UNCHANGED <<async_chunk, pauseVars, requestVars, handlerVars, in_q, tasks, aborting,
                 generation_out_q, produced, ended, disruptions>>

(* The rest of the round sends what it collected.                          *)
Send(s) ==
  /\ batch[s] # <<>>
  /\ out_q' = [out_q EXCEPT ![s] = @ \o batch[s]]
  /\ batch' = [batch EXCEPT ![s] = <<>>]
  /\ UNCHANGED <<async_chunk, pauseVars, requestVars, handlerVars, in_q, tasks, aborting,
                 generation_out_q, produced, ended, disruptions>>

(* generation_single_request: the engine yields an output.  In async-chunk *)
(* mode a stage ends after the one before it.                              *)
MayEnd(s, r) == IF async_chunk /\ s > 0 THEN r \in ended[s - 1] ELSE TRUE
Output(s, r) ==
  /\ r \in tasks[s]
  /\ \E last \in BOOLEAN :
       /\ IF last THEN MayEnd(s, r) ELSE produced[s][r] + 1 < MaxOutputs[s]
       /\ generation_out_q' = [generation_out_q EXCEPT
                                 ![s] = Append(@, Result(r, s, produced[s][r] + 1, last))]
       /\ tasks' = IF last THEN [tasks EXCEPT ![s] = @ \ {r}] ELSE tasks
       /\ ended' = IF last THEN [ended EXCEPT ![s] = @ \cup {r}] ELSE ended
  /\ produced' = [produced EXCEPT ![s][r] = @ + 1]
  /\ UNCHANGED <<async_chunk, pauseVars, requestVars, handlerVars, in_q, out_q, aborting, batch,
                 disruptions>>

(* Faulty: the exception is only logged.                                   *)
FailSilently(s, r) ==
  /\ r \in tasks[s]
  /\ Disrupt
  /\ tasks' = [tasks EXCEPT ![s] = @ \ {r}]
  /\ UNCHANGED <<async_chunk, pauseVars, requestVars, handlerVars, in_q, out_q, aborting,
                 generation_out_q, batch, produced, ended>>

(* The engine raises or the payload is missing: the error goes straight to *)
(* the result queue, past the outputs not yet sent.                        *)
Fail(s, r) ==
  /\ r \in tasks[s]
  /\ Disrupt
  /\ tasks' = [tasks EXCEPT ![s] = @ \ {r}]
  /\ out_q' = [out_q EXCEPT ![s] = Append(@, Error(r, s))]
  /\ UNCHANGED <<async_chunk, pauseVars, requestVars, handlerVars, in_q, aborting,
                 generation_out_q, batch, produced, ended>>

(* stage_engine.abort(rid): the engine drops the request if it has it.     *)
AbortTask(s, r) ==
  /\ r \in aborting[s]
  /\ aborting' = [aborting EXCEPT ![s] = @ \ {r}]
  /\ tasks' = [tasks EXCEPT ![s] = @ \ {r}]
  /\ UNCHANGED <<async_chunk, pauseVars, requestVars, handlerVars, in_q, out_q,
                 generation_out_q, batch, produced, ended, disruptions>>

-----------------------------------------------------------------------------
(* What coroutines, handler, workers and engines do unasked.               *)
Advance(r) == Wake(r) \/ TakeSequential(r) \/ (\E s \in Stages : TakeChunk(r, s)) \/ Continue(r)
Serve(s, r) == Output(s, r) \/ AbortTask(s, r)
Progress ==
  \/ \E r \in Requests : Advance(r)
  \/ \E s \in Stages : Collect(s) \/ Round(s) \/ Send(s)
  \/ \E s \in Stages, r \in Requests : Serve(s, r)

Next ==
  \/ Progress
  \/ Pause \/ Resume
  \/ \E r \in Requests : Call(r) \/ Cancel(r)
  \/ \E s \in Stages, r \in Requests : Fail(s, r)

(* The event loops of the orchestrator and of the workers never stop, the  *)
(* engines make progress and the server reads every output it is given.    *)
(* A request has finitely many outputs, so nothing here can keep another   *)
(* part from its turn for ever and one condition stands for all of them.   *)
Safety == Init /\ [][Next]_vars
Spec == Safety /\ WF_vars(Progress)

-----------------------------------------------------------------------------
Results == [rid : Requests, stage : Stages, n : Nat, last : BOOLEAN]
Tasks == [type : {"generate", "abort"}, rid : Requests, source : Requests]
Phases == {"new", "waiting", "notified", "running", "yielding", "done", "failed", "aborted"}

(* The types of the variables.                                             *)
TypeOK ==
  /\ async_chunk \in BOOLEAN /\ paused \in BOOLEAN
  /\ phase \in [Requests -> Phases]
  /\ all_stages_finished \in [Requests -> SUBSET Stages]
  /\ request_states \subseteq Requests
  /\ queue \in [Requests -> [Stages -> Seq(Results)]]
  /\ stage_id \in [Requests -> Stages \cup {-1}]
  /\ held \in [Requests -> [stage : Stages, last : BOOLEAN]]
  /\ engine_outputs \in [Stages -> Requests \cup {NoRequest}]
  /\ in_q \in [Stages -> Seq(Tasks)]
  /\ out_q \in [Stages -> Seq(Results)]
  /\ tasks \in [Stages -> SUBSET Requests]
  /\ aborting \in [Stages -> SUBSET Requests]
  /\ generation_out_q \in [Stages -> Seq(Results)]
  /\ batch \in [Stages -> Seq(Results)]
  /\ produced \in [Stages -> [Requests -> Nat]]
  /\ ended \in [Stages -> SUBSET Requests]
  /\ received \in [Requests -> [Stages -> Seq(Stages \X (Nat \ {0}))]]
  /\ disruptions \in 0..MaxDisruptions /\ pauses \in 0..MaxPauses

Serving == {"running", "yielding"}
(* The outputs of stage s for request r among the results in q.            *)
Outputs(r, s, q) ==
  FlattenSeq([i \in DOMAIN q |-> IF q[i].rid = r /\ q[i].stage = s /\ q[i].n # 0
                                 THEN << <<q[i].stage, q[i].n>> >> ELSE <<>>])
Queued(r, s) == queue[r][IF async_chunk THEN s ELSE 0]

MentionedIn(q, r) == \E i \in DOMAIN q : q[i].rid = r

(* A request is complete only when the stages it needed have nothing left  *)
(* for it: no task, no running generation and no result in any queue.      *)
DoneIsQuiet ==
  \A r \in Requests : phase[r] = "done" =>
    \A s \in 0..FinalStage[r] :
      /\ r \notin tasks[s]
      /\ ~MentionedIn(in_q[s], r) /\ ~MentionedIn(out_q[s], r)
      /\ ~MentionedIn(generation_out_q[s], r) /\ ~MentionedIn(batch[s], r)

(* While a request is served, what it processed of a stage followed by     *)
(* what is on its way is exactly what the engine of that stage yielded, in *)
(* that order: no output is lost, repeated, overtaken by another output or *)
(* taken for an output of another stage or request, through the four       *)
(* queues between the engine and generate().  When a request is complete,  *)
(* nothing of it is left anywhere.                                         *)
OutputsInOrder ==
  /\ \A r \in Requests, s \in Stages :
       phase[r] \in Serving =>
         received[r][s] \o Outputs(r, s, Queued(r, s) \o out_q[s] \o batch[s] \o generation_out_q[s])
           = [i \in 1..produced[s][r] |-> <<s, i>>]
  /\ DoneIsQuiet

(* The assertion of _process_sequential_results: the result a request      *)
(* takes comes from the stage it is at, although the handler overwrites    *)
(* req_state.stage_id with every result it hands over.                     *)
StageAgrees ==
  \A r \in Requests :
    ~async_chunk /\ phase[r] = "running" /\ queue[r][0] # <<>> =>
      stage_id[r] = Current(r) /\ Head(queue[r][0]).stage = Current(r)

(* The stage objects are shared by all requests, and each holds the        *)
(* outputs of the last one that set them; still a stage is given inputs    *)
(* that were derived from the outputs of the same request.                 *)
OwnInputs ==
  \A s \in Stages : \A i \in DOMAIN in_q[s] : in_q[s][i].source = in_q[s][i].rid

(* When a client goes away, every stage that has or will get its request   *)
(* is told, and told after the request: in no stage is it generated for    *)
(* nobody once the aborts have been carried out.                           *)
AbortReachesWork ==
  \A r \in Requests : phase[r] = "aborted" =>
    \A s \in Stages :
      /\ r \in tasks[s] => r \in aborting[s] \/ \E i \in DOMAIN in_q[s] : in_q[s][i] = Abort(r)
      /\ \A i \in DOMAIN in_q[s] :
           in_q[s][i] = Generate(r, r) => \E j \in DOMAIN in_q[s] : j > i /\ in_q[s][j] = Abort(r)

(* pause_generation: "New generation/encoding requests are blocked until   *)
(* resume": no request reaches a stage for the first time during a pause,  *)
(* even one that a resume has woken and a new pause overtakes.             *)
PausedAdmitsNone == [][paused => request_states' \subseteq request_states]_vars

(* Nobody sleeps through a resume: a request waits only during a pause.    *)
WaitsOnlyInPause == \A r \in Requests : phase[r] = "waiting" => paused

(* A request that was admitted ends: it is completed, its client goes away *)
(* or it is told of an error, whichever stage the error happens in.        *)
RequestsEnd == \A r \in Requests : (phase[r] \in Serving) ~> (phase[r] \in {"done", "failed", "aborted"})
=============================================================================
