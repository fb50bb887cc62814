---------------------------- MODULE SyncPipeline ----------------------------
(***************************************************************************)
(* The synchronous orchestrator (Omni._run_generation) and its batching    *)
(* stage workers (_stage_worker).  generate() seeds stage 0 with all       *)
(* requests, polls the stages in order, passes each result on to the next  *)
(* stage through a connector and a task that announces the payload, and    *)
(* ends when it has counted every request.  It is a generator: at each     *)
(* output control goes back to the caller, who may stop the profiler there *)
(* (as docs/contributing/profiling.md does) or close the generator.        *)
(*                                                                         *)
(* An input, and the output an engine makes of it, is the request whose    *)
(* data it holds.  Engines and the connector's store are external.  All    *)
(* tasks of a stage carry the sampling parameters of the one call, so no   *)
(* task is ever set aside while a batch is filled.                         *)
(***************************************************************************)
EXTENDS Integers, Sequences, FiniteSets, SequencesExt

CONSTANTS
  NumRequests,     \* requests are numbered in the order they are seeded
  NumStages,
  FinalOutput,     \* the stages configured with final_output
  FinalStage,      \* final_stage_id_to_prompt
  DiffusionStages, \* the stages whose engine is given the ids of the requests
  MaxBatchSize,    \* runtime.max_batch_size
  MaxFaults,       \* bound: engines that raise, payloads that are missing, inputs
                   \* that cannot be processed and puts that fail, together
  MaxProfiles      \* bound: calls of stop_profile

Requests == 1..NumRequests
Stages == 0..NumStages - 1

ASSUME SyncAssumption ==
  /\ NumRequests \in Nat \ {0} /\ NumStages \in Nat \ {0}
  /\ FinalOutput \subseteq Stages /\ DiffusionStages \subseteq Stages
  /\ FinalStage \in [Requests -> Stages]
  /\ MaxBatchSize \in Nat \ {0}
  /\ {MaxFaults, MaxProfiles} \subseteq Nat

VARIABLES
  loop,               \* where generate() is
  seeded,             \* requests submitted to stage 0
  at,                 \* the stage the loop visits next, or stop_profile or close() is at
  current,            \* the result whose output was yielded
  completed_requests,
  engine_outputs,     \* the outputs each stage object holds
  in_q, out_q,        \* the queues of each stage process
  worker, batch_tasks,\* where each worker is; the batch it holds
  store,              \* payloads in the connectors
  yielded,            \* outputs the caller got (history)
  dropped,            \* requests that went no further (history)
  faults, profiles

loopVars == <<loop, seeded, at, current, completed_requests, engine_outputs, yielded>>
workerVars == <<worker, batch_tasks>>
boundVars == <<faults, profiles>>
vars == <<loopVars, in_q, out_q, workerVars, store, dropped, boundVars>>

NoRequest == 0
Task(r, inputs, from_connector) ==
  [type |-> "generate", request_id |-> r, inputs |-> inputs, from_connector |-> from_connector]
Control(type) == [type |-> type, request_id |-> NoRequest, inputs |-> <<>>, from_connector |-> FALSE]
Result(type, r, outputs) == [type |-> type, request_id |-> r, outputs |-> outputs]
NoResult == [stage |-> 0, request_id |-> NoRequest]

(* A stage that is slow to start reports ready during the loop:            *)
(* _wait_for_stages_ready gives up waiting and only warns.                 *)
Init ==
  /\ loop = "seeding" /\ seeded = 0 /\ at = 0
  /\ current = NoResult
  /\ completed_requests = 0
  /\ engine_outputs = [s \in Stages |-> <<>>]
  /\ in_q = [s \in Stages |-> <<>>]
  /\ out_q = [s \in Stages |-> <<>>]
  /\ worker \in [Stages -> {"starting", "idle"}]
  /\ batch_tasks = [s \in Stages |-> <<>>]
  /\ store = {}
  /\ yielded = <<>>
  /\ dropped = {}
  /\ faults = 0 /\ profiles = 0

Fault == faults < MaxFaults /\ faults' = faults + 1 /\ UNCHANGED profiles
Put(q, s, m) == [q EXCEPT ![s] = Append(@, m)]
Take(q, s) == [q EXCEPT ![s] = Tail(@)]

-----------------------------------------------------------------------------
(* The orchestrator's loop.                                                *)

Seed ==
  /\ loop = "seeding"
  /\ seeded' = seeded + 1
  /\ in_q' = Put(in_q, 0, Task(seeded', <<seeded'>>, FALSE))
  /\ loop' = IF seeded' = NumRequests THEN "running" ELSE loop
  /\ UNCHANGED <<at, current, completed_requests, engine_outputs, yielded, out_q, workerVars,
                 store, dropped, boundVars>>

(* The completion count is tested between two passes over the stages.      *)
EndPass ==
  /\ loop = "running" /\ at = NumStages
  /\ at' = 0
  /\ loop' = IF completed_requests < NumRequests THEN loop ELSE "returned"
  /\ UNCHANGED <<seeded, current, completed_requests, engine_outputs, yielded, in_q, out_q,
                 workerVars, store, dropped, boundVars>>

Visiting(s) == loop = "running" /\ at = s

PollNothing(s) ==
  /\ Visiting(s) /\ out_q[s] = <<>>
  /\ at' = s + 1
  /\ UNCHANGED <<loop, seeded, current, completed_requests, engine_outputs, yielded, in_q,
                 out_q, workerVars, store, dropped, boundVars>>

Collects(s, type) ==
  /\ Visiting(s) /\ out_q[s] # <<>> /\ Head(out_q[s]).type = type
  /\ out_q' = Take(out_q, s)

(* An error is logged; the request is not counted.                         *)
CollectError(s) ==
  /\ Collects(s, "error")
  /\ at' = s + 1
  /\ dropped' = dropped \cup {Head(out_q[s]).request_id}
  /\ UNCHANGED <<loop, seeded, current, completed_requests, engine_outputs, yielded, in_q,
                 workerVars, store, boundVars>>

CollectReady(s) ==
  /\ Collects(s, "stage_ready")
  /\ at' = s + 1
  /\ UNCHANGED <<loop, seeded, current, completed_requests, engine_outputs, yielded, in_q,
                 workerVars, store, dropped, boundVars>>

(* A reply to stop_profile that came after it had taken something else: it *)
(* holds no outputs, and the KeyError ends generate().                     *)
CollectProfile(s) ==
  /\ Collects(s, "profiler_result")
  /\ loop' = "closing" /\ at' = 0
  /\ UNCHANGED <<seeded, current, completed_requests, engine_outputs, yielded, in_q,
                 workerVars, store, dropped, boundVars>>

(* What follows a result of stage s for request r, after its output was    *)
(* yielded if the stage has one: the request is counted, or passed on.     *)
Completes(s, r) ==
  /\ s + 1 > FinalStage[r]
  /\ completed_requests' = completed_requests + 1
  /\ loop' = "running" /\ at' = s + 1
  /\ UNCHANGED <<in_q, store, dropped, boundVars>>

(* process_engine_inputs: one input for each output the stage object holds *)
Forwards(s, r) ==
  /\ s + 1 <= FinalStage[r]
  /\ LET next_inputs == engine_outputs'[s] IN
       store' = store \cup {[to |-> s + 1, request_id |-> r, inputs |-> next_inputs]}
  /\ in_q' = Put(in_q, s + 1, Task(r, <<>>, TRUE))
  /\ loop' = "running" /\ at' = s + 1
  /\ UNCHANGED <<completed_requests, dropped, boundVars>>

(* The inputs of the next stage cannot be made of the outputs: logged.     *)
InputsFail(s, r) ==
  /\ s + 1 <= FinalStage[r] /\ Fault
  /\ dropped' = dropped \cup {r}
  /\ loop' = "running" /\ at' = s + 1
  /\ UNCHANGED <<completed_requests, in_q, store>>

(* Faulty: without the connector the task goes to the queue all the same.  *)
PutFailsSubmits(s, r) ==
  /\ s + 1 <= FinalStage[r] /\ Fault
  /\ in_q' = Put(in_q, s + 1, Task(r, <<>>, TRUE))
  /\ loop' = "running" /\ at' = s + 1
  /\ UNCHANGED <<completed_requests, dropped, store>>

(* The put fails: generate() raises and closes.                            *)
PutFails(s, r) ==
  /\ s + 1 <= FinalStage[r] /\ Fault
  /\ dropped' = dropped \cup {r}
  /\ loop' = "closing" /\ at' = 0
  /\ UNCHANGED <<completed_requests, in_q, store>>

PassOn(s, r) == Completes(s, r) \/ Forwards(s, r) \/ InputsFail(s, r) \/ PutFails(s, r)

Holding(s, outputs) == engine_outputs' = [engine_outputs EXCEPT ![s] = outputs]

CollectAndPassOn(s) ==
  /\ Collects(s, "result") /\ s \notin FinalOutput
  /\ Holding(s, Head(out_q[s]).outputs)
  /\ PassOn(s, Head(out_q[s]).request_id)
  /\ UNCHANGED <<seeded, current, yielded, workerVars>>

CollectAndYield(s) ==
  /\ Collects(s, "result") /\ s \in FinalOutput
  /\ LET m == Head(out_q[s]) IN
       /\ Holding(s, m.outputs)
       /\ current' = [stage |-> s, request_id |-> m.request_id]
       /\ yielded' = Append(yielded, [stage |-> s, request_id |-> m.request_id,
                                      outputs |-> m.outputs])
  /\ loop' = "yielded"
  /\ UNCHANGED <<seeded, at, completed_requests, in_q, workerVars, store, dropped, boundVars>>

(* The caller asks for the next output.                                    *)
Resume ==
  /\ loop = "yielded"
  /\ current' = NoResult
  /\ UNCHANGED engine_outputs
  /\ PassOn(current.stage, current.request_id)
  /\ UNCHANGED <<seeded, yielded, out_q, workerVars>>

(* The caller closes the generator, or closes Omni when it has returned.   *)
Close ==
  /\ loop \in {"yielded", "returned"}
  /\ loop' = "closing" /\ at' = 0
  /\ current' = NoResult
  /\ dropped' = IF loop = "yielded" THEN dropped \cup {current.request_id} ELSE dropped
  /\ UNCHANGED <<seeded, completed_requests, engine_outputs, yielded, in_q, out_q,
                 workerVars, store, boundVars>>

-----------------------------------------------------------------------------
(* stop_profile between two outputs.  The caller of profiling.md does so   *)
(* when it has as many outputs as requests.  For each stage a message is   *)
(* sent, and the next message of the stage is taken for the answer.        *)

StopProfile ==
  /\ loop = "yielded" /\ profiles < MaxProfiles
  /\ Len(yielded) >= NumRequests
  /\ profiles' = profiles + 1
  /\ loop' = "profiling" /\ at' = 0
  /\ in_q' = Put(in_q, 0, Control("profiler_stop"))
  /\ UNCHANGED <<seeded, current, completed_requests, engine_outputs, yielded, out_q,
                 workerVars, store, dropped, faults>>

(* The wait may also end after 600 s, without a message.                   *)
StopNext(s) ==
  IF s + 1 < NumStages
  THEN at' = s + 1 /\ in_q' = Put(in_q, s + 1, Control("profiler_stop")) /\ UNCHANGED loop
  ELSE at' = current.stage /\ loop' = "yielded" /\ UNCHANGED in_q

ProfileAnswer(s) ==
  /\ loop = "profiling" /\ at = s
  /\ out_q[s] # <<>>
  /\ out_q' = Take(out_q, s)
  /\ dropped' = dropped \cup ({Head(out_q[s]).request_id} \ {NoRequest})
  /\ StopNext(s)
  /\ UNCHANGED <<seeded, current, completed_requests, engine_outputs, yielded, workerVars,
                 store, boundVars>>

ProfileTimeout(s) ==
  /\ loop = "profiling" /\ at = s
  /\ StopNext(s)
  /\ UNCHANGED <<seeded, current, completed_requests, engine_outputs, yielded, out_q,
                 workerVars, store, dropped, boundVars>>

-----------------------------------------------------------------------------
(* close(): a shutdown message to every stage, then for each stage another *)
(* one and a wait of 5 s, after which the process is terminated.           *)

SendShutdowns ==
  /\ loop = "closing"
  /\ in_q' = [s \in Stages |-> Append(in_q[s], Control("shutdown"))]
  /\ loop' = "stopping" /\ at' = 0
  /\ UNCHANGED <<seeded, current, completed_requests, engine_outputs, yielded, out_q,
                 workerVars, store, dropped, boundVars>>

StopWorker(s) ==
  /\ loop = "stopping" /\ at = s
  /\ in_q' = Put(in_q, s, Control("shutdown"))
  /\ loop' = "joining"
  /\ UNCHANGED <<seeded, at, current, completed_requests, engine_outputs, yielded, out_q,
                 workerVars, store, dropped, boundVars>>

Join(s) ==
  /\ loop = "joining" /\ at = s
  /\ worker' = [worker EXCEPT ![s] = IF @ \in {"exited", "dead"} THEN @ ELSE "terminated"]
  /\ at' = s + 1
  /\ loop' = IF s + 1 < NumStages THEN "stopping" ELSE "closed"
  /\ UNCHANGED <<seeded, current, completed_requests, engine_outputs, yielded, in_q, out_q,
                 batch_tasks, store, dropped, boundVars>>

-----------------------------------------------------------------------------
(* A stage worker.                                                         *)

Goes(s, to) == worker' = [worker EXCEPT ![s] = to]

Ready(s) ==
  /\ worker[s] = "starting"
  /\ out_q' = Put(out_q, s, Result("stage_ready", NoRequest, <<>>))
  /\ Goes(s, "idle")
  /\ UNCHANGED <<loopVars, in_q, batch_tasks, store, dropped, boundVars>>

Gets(s, type) ==
  /\ in_q[s] # <<>> /\ Head(in_q[s]).type = type

GetShutdown(s) ==
  /\ worker[s] = "idle" /\ Gets(s, "shutdown")
  /\ in_q' = Take(in_q, s)
  /\ Goes(s, "exited")
  /\ UNCHANGED <<loopVars, out_q, batch_tasks, store, dropped, boundVars>>

(* The profiler is stopped between two batches or while one is filled.     *)
GetProfilerStop(s) ==
  /\ worker[s] \in {"idle", "filling"} /\ Gets(s, "profiler_stop")
  /\ in_q' = Take(in_q, s)
  /\ out_q' = Put(out_q, s, Result("profiler_result", NoRequest, <<>>))
  /\ UNCHANGED <<loopVars, workerVars, store, dropped, boundVars>>

FirstOfBatch(s) ==
  /\ worker[s] = "idle" /\ Gets(s, "generate")
  /\ in_q' = Take(in_q, s)
  /\ batch_tasks' = [batch_tasks EXCEPT ![s] = <<Head(in_q[s])>>]
  /\ Goes(s, IF MaxBatchSize > 1 THEN "filling" ELSE "full")
  /\ UNCHANGED <<loopVars, out_q, store, dropped, boundVars>>

(* Faulty: a batch that is full takes one more task.                       *)
JoinBatchOver(s) ==
  /\ worker[s] = "filling" /\ Gets(s, "generate")
  /\ in_q' = Take(in_q, s)
  /\ batch_tasks' = [batch_tasks EXCEPT ![s] = Append(@, Head(in_q[s]))]
  /\ Goes(s, IF Len(batch_tasks[s]) < MaxBatchSize THEN "filling" ELSE "full")
  /\ UNCHANGED <<loopVars, out_q, store, dropped, boundVars>>

JoinBatch(s) ==
  /\ worker[s] = "filling" /\ Gets(s, "generate")
  /\ in_q' = Take(in_q, s)
  /\ batch_tasks' = [batch_tasks EXCEPT ![s] = Append(@, Head(in_q[s]))]
  /\ Goes(s, IF Len(batch_tasks[s]) + 1 < MaxBatchSize THEN "filling" ELSE "full")
  /\ UNCHANGED <<loopVars, out_q, store, dropped, boundVars>>

(* A shutdown met while a batch is filled goes back to the end of the queue*)
PutBackShutdown(s) ==
  /\ worker[s] = "filling" /\ Gets(s, "shutdown")
  /\ in_q' = [in_q EXCEPT ![s] = Append(Tail(@), Head(@))]
  /\ Goes(s, "full")
  /\ UNCHANGED <<loopVars, out_q, batch_tasks, store, dropped, boundVars>>

(* Faulty: the time that went by is looked at only when a task comes.      *)
BatchTimeoutOnTask(s) ==
  /\ worker[s] = "filling" /\ in_q[s] # <<>>
  /\ Goes(s, "full")
  /\ UNCHANGED <<loopVars, in_q, out_q, batch_tasks, store, dropped, boundVars>>

BatchTimeout(s) ==
  /\ worker[s] = "filling"
  /\ Goes(s, "full")
  /\ UNCHANGED <<loopVars, in_q, out_q, batch_tasks, store, dropped, boundVars>>

Payload(s, t) == {p \in store : p.to = s /\ p.request_id = t.request_id}
Announced(s) == {t \in Range(batch_tasks[s]) : t.from_connector}
TakePayloads(s) == store' = store \ UNION {Payload(s, t) : t \in Announced(s)}

InputsOf(s, t) ==
  IF t.from_connector THEN (CHOOSE p \in Payload(s, t) : TRUE).inputs ELSE t.inputs

BatchInputs(s) ==
  FlattenSeq([i \in DOMAIN batch_tasks[s] |-> InputsOf(s, batch_tasks[s][i])])

BatchIds(s) == [i \in DOMAIN batch_tasks[s] |-> batch_tasks[s][i].request_id]

(* An engine finishes the inputs in any order.  The LLM engine numbers     *)
(* them itself, and OmniLLM sorts its outputs by that number; a diffusion  *)
(* engine returns its outputs in order, under the ids of the batch.        *)
Orders(n) == {f \in [1..n -> 1..n] : \A i, j \in 1..n : f[i] = f[j] => i = j}

(* Faulty: the outputs are left in the order in which they finished.       *)
SortedNot(outputs) == outputs
Sorted(outputs) ==
  [i \in DOMAIN outputs |-> CHOOSE o \in Range(outputs) : o.number = i]

EngineOutputs(s, order) ==
  LET inputs == BatchInputs(s)
      finished == [i \in DOMAIN inputs |->
                     [number |-> order[i], request_id |-> NoRequest, data |-> inputs[order[i]]]]
  IN  IF s \in DiffusionStages
      THEN [i \in DOMAIN inputs |->
              [number |-> i, request_id |-> BatchIds(s)[i], data |-> inputs[i]]]
      ELSE Sorted(finished)

(* The outputs of one request of the batch: those under its id, otherwise  *)
(* by position.  Either all outputs carry an id of the batch or none.      *)
OutputsFor(s, outputs, k) ==
  LET ids == BatchIds(s)
      Only(chosen) == FlattenSeq([i \in DOMAIN outputs |->
                                    IF i \in chosen THEN <<outputs[i].data>> ELSE <<>>])
      own == {i \in DOMAIN outputs : outputs[i].request_id = ids[k]}
      unmapped == {i \in DOMAIN outputs : /\ outputs[i].request_id \notin Range(ids)
                                          /\ ((i - 1) % Len(ids)) + 1 = k}
  IN  Only(own) \o Only(unmapped)

AllPayloadsThere(s) == \A t \in Announced(s) : Payload(s, t) # {}

(* One result for each request of the batch, in the order of the batch.    *)
Generate(s) ==
  /\ worker[s] = "full" /\ AllPayloadsThere(s)
  /\ \E order \in Orders(Len(BatchInputs(s))) :
       LET outputs == EngineOutputs(s, order) IN
       out_q' = [out_q EXCEPT ![s] = @ \o
                   [k \in DOMAIN BatchIds(s) |->
                      Result("result", BatchIds(s)[k], OutputsFor(s, outputs, k))]]
  /\ TakePayloads(s)
  /\ batch_tasks' = [batch_tasks EXCEPT ![s] = <<>>]
  /\ Goes(s, "idle")
  /\ UNCHANGED <<loopVars, in_q, dropped, boundVars>>

(* Faulty: only the first request of the batch is told.                    *)
FailFirst(s) ==
  /\ worker[s] = "full" /\ Fault
  /\ out_q' = Put(out_q, s, Result("error", BatchIds(s)[1], <<>>))
  /\ TakePayloads(s)
  /\ batch_tasks' = [batch_tasks EXCEPT ![s] = <<>>]
  /\ Goes(s, "idle")
  /\ UNCHANGED <<loopVars, in_q, dropped>>

(* The engine raises: an error for every request of the batch.             *)
GenerateFails(s) ==
  /\ worker[s] = "full" /\ AllPayloadsThere(s) /\ Fault
  /\ out_q' = [out_q EXCEPT ![s] = @ \o
                 [k \in DOMAIN BatchIds(s) |-> Result("error", BatchIds(s)[k], <<>>)]]
  /\ TakePayloads(s)
  /\ batch_tasks' = [batch_tasks EXCEPT ![s] = <<>>]
  /\ Goes(s, "idle")
  /\ UNCHANGED <<loopVars, in_q, dropped>>

(* The payload of a request cannot be had (the get fails): the exception   *)
(* is raised outside of the try block of the batch and ends the process.   *)
(* The payloads of the requests before it are gone.                        *)
PayloadMissing(s) ==
  /\ worker[s] = "full" /\ Fault
  /\ \E k \in DOMAIN batch_tasks[s] :
       /\ batch_tasks[s][k].from_connector
       /\ store' = store \ UNION {Payload(s, batch_tasks[s][i]) : i \in 1..k}
  /\ dropped' = dropped \cup Range(BatchIds(s))
  /\ batch_tasks' = [batch_tasks EXCEPT ![s] = <<>>]
  /\ Goes(s, "dead")
  /\ UNCHANGED <<loopVars, in_q, out_q>>

-----------------------------------------------------------------------------
Loop(s) ==
  \/ PollNothing(s) \/ CollectError(s) \/ CollectReady(s) \/ CollectProfile(s)
  \/ CollectAndPassOn(s) \/ CollectAndYield(s)
  \/ ProfileAnswer(s) \/ ProfileTimeout(s)
  \/ StopWorker(s) \/ Join(s)

Orchestrator == Seed \/ EndPass \/ Resume \/ SendShutdowns \/ \E s \in Stages : Loop(s)

Worker(s) ==
  \/ Ready(s) \/ GetShutdown(s) \/ GetProfilerStop(s)
  \/ FirstOfBatch(s) \/ JoinBatch(s) \/ PutBackShutdown(s) \/ BatchTimeout(s)
  \/ Generate(s) \/ GenerateFails(s) \/ PayloadMissing(s)

Next == Orchestrator \/ Close \/ StopProfile \/ \E s \in Stages : Worker(s)

Safety == Init /\ [][Next]_vars

(* The loop polls, the workers read their queues and engines end; the      *)
(* caller asks for the next output.                                        *)
Spec == Safety /\ WF_vars(Orchestrator) /\ \A s \in Stages : WF_vars(Worker(s))

-----------------------------------------------------------------------------
TaskType == [type : {"generate", "shutdown", "profiler_stop"},
             request_id : Requests \cup {NoRequest}, inputs : Seq(Requests),
             from_connector : BOOLEAN]
ResultType == [type : {"result", "error", "stage_ready", "profiler_result"},
               request_id : Requests \cup {NoRequest}, outputs : Seq(Requests)]

(* Every variable has its type; a worker holds a batch, of at most         *)
(* MaxBatchSize tasks, exactly while it fills or runs one.                 *)
TypeOK ==
  /\ loop \in {"seeding", "running", "yielded", "profiling", "returned", "closing",
               "stopping", "joining", "closed"}
  /\ seeded \in 0..NumRequests /\ at \in 0..NumStages
  /\ current \in [stage : Stages, request_id : Requests \cup {NoRequest}]
  /\ completed_requests \in 0..NumRequests
  /\ engine_outputs \in [Stages -> Seq(Requests)]
  /\ in_q \in [Stages -> Seq(TaskType)] /\ out_q \in [Stages -> Seq(ResultType)]
  /\ worker \in [Stages -> {"starting", "idle", "filling", "full", "exited", "dead", "terminated"}]
  /\ batch_tasks \in [Stages -> Seq(TaskType)]
  /\ \A s \in Stages :
       /\ worker[s] \in {"filling", "full"} => Len(batch_tasks[s]) \in 1..MaxBatchSize
       /\ worker[s] \in {"starting", "idle", "exited", "dead"} => batch_tasks[s] = <<>>
  /\ store \subseteq [to : Stages, request_id : Requests, inputs : Seq(Requests)]
  /\ yielded \in Seq([stage : Stages, request_id : Requests, outputs : Seq(Requests)])
  /\ dropped \subseteq Requests
  /\ faults \in 0..MaxFaults /\ profiles \in 0..MaxProfiles

-----------------------------------------------------------------------------
(* Where a request is: tasks, batches, results and the output in the hands *)
(* of the caller.                                                          *)
PlacesAt(r, s) ==
  {<<"task", s, i>> : i \in {j \in DOMAIN in_q[s] : in_q[s][j].request_id = r}}
    \cup {<<"batch", s, i>> : i \in {j \in DOMAIN batch_tasks[s] : batch_tasks[s][j].request_id = r}}
    \cup {<<"result", s, i>> : i \in {j \in DOMAIN out_q[s] : out_q[s][j].request_id = r}}
InHand(r) == IF current.request_id = r THEN {<<"yielded", current.stage, 0>>} ELSE {}
Places(r) == (UNION {PlacesAt(r, s) : s \in Stages}) \cup InHand(r)

(* No request is lost or doubled: one that was seeded is in one place, or  *)
(* was dropped by a fault that was seen, or was counted.  The loop ends on *)
(* that count, so a request counted early would be cut off and one that is *)
(* not counted would keep the loop running (omni.py:742, 891).             *)
Accounted ==
  /\ \A r \in Requests : Cardinality(Places(r)) <= 1
  /\ \A r \in dropped : Places(r) = {}
  /\ completed_requests = Cardinality({r \in 1..seeded \ dropped : Places(r) = {}})

(* The stages whose outputs the caller gets for a request, and got.        *)
OutputStages(r) == FinalOutput \cap 0..FinalStage[r]
StagesYielded(r) == {yielded[i].stage : i \in {j \in DOMAIN yielded : yielded[j].request_id = r}}

(* What the caller gets for a request was made of its own prompt, although *)
(* engines number the requests of a batch themselves and outputs are given *)
(* out by position (omni_stage.py:938), it comes in the order of the       *)
(* stages, each once and none passed over, and is complete when generate() *)
(* returns.                                                                *)
OwnOutputs ==
  /\ \A i \in DOMAIN yielded : yielded[i].outputs = <<yielded[i].request_id>>
  /\ \A i, j \in DOMAIN yielded :
       i < j /\ yielded[i].request_id = yielded[j].request_id => yielded[i].stage < yielded[j].stage
  /\ \A r \in Requests :
       /\ \A s \in StagesYielded(r) :
            s \in OutputStages(r) /\ OutputStages(r) \cap 0..s \subseteq StagesYielded(r)
       /\ loop = "returned" => StagesYielded(r) = OutputStages(r)

(* The tasks that announce a payload and the payloads in the connectors    *)
(* belong together: none is announced before it is there, read twice, or   *)
(* left behind by a batch (adapter.py:59, omni_stage.py:863).              *)
PayloadPerTask ==
  \A s \in Stages :
    LET waiting == {t \in Range(in_q[s]) \cup Range(batch_tasks[s]) : t.from_connector}
        there == {p \in store : p.to = s}
    IN  /\ \A t \in waiting : Cardinality(Payload(s, t)) = 1
        /\ worker[s] # "dead" => {p.request_id : p \in there} = {t.request_id : t \in waiting}

(* generate() ends, unless one of its requests was dropped: an error of a  *)
(* stage, a missing payload or inputs that cannot be made leave the loop   *)
(* polling for ever, since none of them is counted (omni.py:747, 855).     *)
GenerationEnds == <>(loop \in {"returned", "closing"} \/ dropped # {})
=============================================================================
