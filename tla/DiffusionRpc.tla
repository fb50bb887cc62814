----------------------------- MODULE DiffusionRpc ----------------------------
(***************************************************************************)
(* Calls from the diffusion engine to its worker processes: one broadcast   *)
(* queue that every worker reads, one result queue that only worker 0      *)
(* writes, one calling thread (the pool of AsyncOmniDiffusion has one      *)
(* worker) and a close() from another thread.                              *)
(*                                                                         *)
(* A call is abstracted to its number, the rank that shall reply and       *)
(* whether all ranks execute it.  Shared-memory queues are FIFO and large  *)
(* enough for the calls in flight; what a worker computes is left out, it  *)
(* returns or raises.                                                      *)
(***************************************************************************)
EXTENDS Integers, Sequences, FiniteSets

CONSTANTS
  NumGpus,
  Ranks,           \* ranks callers pass as unique_reply_rank
  MaxCalls,        \* bound: calls made
  MaxErrors,       \* bound: methods that raise
  MaxTimeouts,     \* bound: calls that time out
  MayClose

ASSUME RpcAssumption ==
  /\ NumGpus \in Nat \ {0}
  /\ Ranks \subseteq 0..NumGpus - 1
  /\ {MaxCalls, MaxErrors, MaxTimeouts} \subseteq Nat
  /\ MayClose \in BOOLEAN

VARIABLES
  mq,              \* the messages each worker has yet to read
  result_mq,       \* the replies the engine has yet to read
  caller,          \* where the calling thread is in its call
  calls,           \* the number of calls made
  outcome,         \* what each call returned
  running,         \* workers in worker_busy_loop
  executed,        \* the messages each worker has executed (history)
  closing,         \* where shutdown() is
  errors, timeouts

engineVars == <<caller, calls, outcome, timeouts>>
workerVars == <<running, executed, errors>>
vars == <<mq, result_mq, engineVars, workerVars, closing>>

Workers == 0..NumGpus - 1
AnyRank == -1
Idle == [at |-> "idle", call |-> 0, rank |-> AnyRank, timed |-> FALSE, needed |-> 0,
         responses |-> <<>>]
SHUTDOWN_MESSAGE == [call |-> 0, output_rank |-> AnyRank, exec_all_ranks |-> TRUE]
Open == "open"
mqIsSet == closing # "closed"

Init ==
  /\ mq = [w \in Workers |-> <<>>]
  /\ result_mq = <<>>
  /\ caller = Idle
  /\ calls = 0
  /\ outcome = [c \in 1..MaxCalls |-> [result |-> "none", responses |-> <<>>]]
  /\ running = Workers
  /\ executed = [w \in Workers |-> <<>>]
  /\ closing = Open
  /\ errors = 0
  /\ timeouts = 0

-----------------------------------------------------------------------------
(* The calling thread.                                                     *)

Broadcast(msg) == mq' = [w \in Workers |-> Append(mq[w], msg)]

Finish(c, result, responses) ==
  /\ outcome' = [outcome EXCEPT ![c] = [result |-> result, responses |-> responses]]
  /\ caller' = Idle

Send(output_rank, all, needed, timed) ==
  /\ Broadcast([call |-> calls + 1, output_rank |-> output_rank, exec_all_ranks |-> all])
  /\ caller' = [at |-> "sent", call |-> calls + 1, rank |-> output_rank, timed |-> timed,
                needed |-> needed, responses |-> <<>>]
  /\ UNCHANGED outcome

(* A call on the closed engine raises.                                     *)
Refused == Finish(calls + 1, "raised", <<>>) /\ UNCHANGED mq

NewCall ==
  /\ caller = Idle /\ calls < MaxCalls
  /\ calls' = calls + 1
  /\ UNCHANGED <<result_mq, workerVars, closing, timeouts>>

(* Scheduler.add_req: every rank generates, rank 0 replies.                *)
AddReq ==
  /\ NewCall
  /\ IF mqIsSet THEN Send(0, TRUE, 1, FALSE) ELSE Refused

(* executor.collective_rpc.                                                *)
CollectiveRpc(rank, timed) ==
  /\ NewCall
  /\ IF closing = Open
     THEN Send(rank, FALSE, IF rank = AnyRank THEN NumGpus ELSE 1, timed)
     ELSE Refused

(* The result queue is looked up before each dequeue.                      *)
LookUp ==
  /\ caller.at = "sent"
  /\ IF mqIsSet
     THEN caller' = [caller EXCEPT !.at = "waiting"] /\ UNCHANGED outcome
     ELSE Finish(caller.call, "raised", <<>>)
  /\ UNCHANGED <<mq, result_mq, calls, workerVars, closing, timeouts>>

(* Faulty: one more reply is awaited.                                      *)
DequeueOneMore ==
  /\ caller.at = "waiting" /\ result_mq # <<>>
  /\ result_mq' = Tail(result_mq)
  /\ LET responses == Append(caller.responses, Head(result_mq))
     IN IF Len(responses) > caller.needed
        THEN Finish(caller.call, "returned", responses)
        ELSE /\ caller' = [caller EXCEPT !.at = "sent", !.responses = responses]
             /\ UNCHANGED outcome
  /\ UNCHANGED <<mq, calls, workerVars, closing, timeouts>>

(* An error of a worker comes as a DiffusionOutput, which is a response    *)
(* like any other.                                                         *)
Dequeue ==
  /\ caller.at = "waiting" /\ result_mq # <<>>
  /\ result_mq' = Tail(result_mq)
  /\ LET responses == Append(caller.responses, Head(result_mq))
     IN IF Len(responses) = caller.needed
        THEN Finish(caller.call, "returned", responses)
        ELSE /\ caller' = [caller EXCEPT !.at = "sent", !.responses = responses]
             /\ UNCHANGED outcome
  /\ UNCHANGED <<mq, calls, workerVars, closing, timeouts>>

(* The call is given up; its message and its reply are not.                *)
Timeout ==
  /\ caller.at = "waiting" /\ caller.timed /\ timeouts < MaxTimeouts
  /\ timeouts' = timeouts + 1
  /\ Finish(caller.call, "timed out", <<>>)
  /\ UNCHANGED <<mq, result_mq, calls, workerVars, closing>>

-----------------------------------------------------------------------------
(* shutdown() and BackgroundResources.                                     *)

Close ==
  /\ MayClose /\ closing = Open
  /\ closing' = "flagged"
  /\ UNCHANGED <<mq, result_mq, engineVars, workerVars>>

(* One message for each worker, every one of which is read by all.         *)
SendShutdown ==
  /\ closing = "flagged"
  /\ mq' = [w \in Workers |-> mq[w] \o [i \in 1..NumGpus |-> SHUTDOWN_MESSAGE]]
  /\ closing' = "sent"
  /\ UNCHANGED <<result_mq, engineVars, workerVars>>

CloseScheduler ==
  /\ closing = "sent"
  /\ closing' = "closed"
  /\ UNCHANGED <<mq, result_mq, engineVars, workerVars>>

-----------------------------------------------------------------------------
(* worker_busy_loop of worker w.                                           *)

(* Faulty: only the rank that replies executes.                            *)
ShouldExecuteToReply(w, msg) == msg.output_rank \in {AnyRank, w}

ShouldExecute(w, msg) ==
  msg.exec_all_ranks \/ msg.output_rank \in {AnyRank, w}
(* Only worker 0 has a result queue.                                       *)
ShouldReply(w, msg) == msg.output_rank \in {AnyRank, w} /\ w = 0

Receive(w) ==
  /\ w \in running /\ mq[w] # <<>>
  /\ mq' = [mq EXCEPT ![w] = Tail(@)]

Stop(w) ==
  /\ Receive(w) /\ Head(mq[w]) = SHUTDOWN_MESSAGE
  /\ running' = running \ {w}
  /\ UNCHANGED <<result_mq, engineVars, executed, errors, closing>>

Reply(w, ok) == result_mq' = Append(result_mq, [call |-> Head(mq[w]).call, rank |-> w, ok |-> ok])

Skip(w) ==
  /\ Receive(w) /\ ~ShouldExecute(w, Head(mq[w]))
  /\ UNCHANGED <<result_mq, engineVars, workerVars, closing>>

(* Faulty: an error is only logged.                                        *)
ExecuteRpcNoErrorReply(w, ok) ==
  LET msg == Head(mq[w])
  IN /\ Receive(w) /\ msg # SHUTDOWN_MESSAGE /\ ShouldExecute(w, msg)
     /\ executed' = [executed EXCEPT ![w] = Append(@, msg)]
     /\ IF ShouldReply(w, msg) /\ ok THEN Reply(w, ok) ELSE UNCHANGED result_mq
     /\ IF ok THEN UNCHANGED errors ELSE errors < MaxErrors /\ errors' = errors + 1
     /\ UNCHANGED <<engineVars, running, closing>>

(* Faulty: after the reply with the error comes a second one.              *)
ExecuteRpcRepliesTwice(w, ok) ==
  LET msg == Head(mq[w])
      reply == [call |-> msg.call, rank |-> w, ok |-> ok]
  IN /\ Receive(w) /\ msg # SHUTDOWN_MESSAGE /\ ShouldExecute(w, msg)
     /\ executed' = [executed EXCEPT ![w] = Append(@, msg)]
     /\ result_mq' = IF w # 0 THEN result_mq
                     ELSE result_mq \o IF ok THEN <<reply>> ELSE <<reply, reply>>
     /\ IF ok THEN UNCHANGED errors ELSE errors < MaxErrors /\ errors' = errors + 1
     /\ UNCHANGED <<engineVars, running, closing>>

(* A method that raised is answered by worker 0, asked or not.             *)
ExecuteRpc(w, ok) ==
  LET msg == Head(mq[w])
  IN /\ Receive(w) /\ msg # SHUTDOWN_MESSAGE /\ ShouldExecute(w, msg)
     /\ executed' = [executed EXCEPT ![w] = Append(@, msg)]
     /\ IF ShouldReply(w, msg) \/ (~ok /\ w = 0)
        THEN Reply(w, ok) ELSE UNCHANGED result_mq
     /\ IF ok THEN UNCHANGED errors ELSE errors < MaxErrors /\ errors' = errors + 1
     /\ UNCHANGED <<engineVars, running, closing>>

-----------------------------------------------------------------------------
CallerStep == LookUp \/ Dequeue
WorkerStep(w) == Stop(w) \/ Skip(w) \/ \E ok \in BOOLEAN : ExecuteRpc(w, ok)
CloserStep == SendShutdown \/ CloseScheduler

Next ==
  \/ AddReq
  \/ \E rank \in Ranks \cup {AnyRank}, timed \in BOOLEAN : CollectiveRpc(rank, timed)
  \/ CallerStep
  \/ Timeout
  \/ Close
  \/ CloserStep
  \/ \E w \in Workers : WorkerStep(w)

(* The busy loops run as long as their processes, a call and a shutdown    *)
(* that was begun goes on; nobody has to call, to close or to time out.    *)
Spec ==
  /\ Init /\ [][Next]_vars
  /\ WF_vars(CallerStep) /\ WF_vars(CloserStep)
  /\ \A w \in Workers : WF_vars(WorkerStep(w))

-----------------------------------------------------------------------------
(* Properties.                                                             *)

Replies == [call : 1..MaxCalls, rank : Workers, ok : BOOLEAN]
Messages == [call : 0..MaxCalls, output_rank : {AnyRank} \cup Workers, exec_all_ranks : BOOLEAN]

(* The types; the engine never holds more responses than it needs.         *)
TypeOK ==
  /\ mq \in [Workers -> Seq(Messages)]
  /\ result_mq \in Seq(Replies)
  /\ caller.at \in {"idle", "sent", "waiting"}
  /\ calls \in 0..MaxCalls /\ caller.call \in 0..calls
  /\ caller.responses \in Seq(Replies)
  /\ caller.at # "idle" => Len(caller.responses) < caller.needed
  /\ running \subseteq Workers
  /\ executed \in [Workers -> Seq(Messages)]
  /\ closing \in {Open, "flagged", "sent", "closed"}
  /\ errors \in 0..MaxErrors /\ timeouts \in 0..MaxTimeouts

(* As long as no call was given up, a call returns the replies to itself,  *)
(* although replies carry no number, and leaves none behind for the next.  *)
OwnReplies ==
  timeouts = 0 =>
    /\ \A c \in 1..calls : \A i \in 1..Len(outcome[c].responses) :
         outcome[c].responses[i].call = c
    /\ caller = Idle /\ closing = Open => result_mq = <<>>

ForAll(msg) == msg.exec_all_ranks \/ msg.output_rank = AnyRank
Executed(w) == {executed[w][i] : i \in 1..Len(executed[w])}

(* The ranks of a pipeline execute the same generations and LoRA calls in  *)
(* the same order: every worker executes in the order of the calls, each   *)
(* once, and running workers that have the same messages to read have      *)
(* executed the same messages that are for all.                            *)
RanksAgree ==
  /\ \A w \in Workers : \A i, j \in 1..Len(executed[w]) :
       i < j => executed[w][i].call < executed[w][j].call
  /\ \A v, w \in running : mq[v] = mq[w] =>
       {msg \in Executed(v) : ForAll(msg)} = {msg \in Executed(w) : ForAll(msg)}

(* A call that waits for worker 0 alone and was made before the shutdown   *)
(* messages ends, although methods raise, other calls time out and the     *)
(* engine is closed while it waits; and a close ends the busy loops of all *)
(* workers, whatever was queued before and whichever call is waiting       *)
(* (BackgroundResources, "clean shutdown").                                *)
CallsAndWorkersEnd ==
  /\ \A c \in 1..MaxCalls :
       /\ caller.call = c /\ caller.needed = 1 /\ caller.rank \in {0, AnyRank}
       /\ closing \in {Open, "flagged"}
       ~> caller.call # c
  /\ closing = "flagged" ~> running = {}
=============================================================================
