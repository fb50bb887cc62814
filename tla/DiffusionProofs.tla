---------------------------- MODULE DiffusionProofs ---------------------------
(***************************************************************************)
(* Proofs about the diffusion workers: the calls from the engine to them,   *)
(* for every number of workers, calls, errors and timeouts, and the LoRA   *)
(* manager that each worker has, for all adapters, ranks, layers and sizes *)
(* of the cache.                                                           *)
(***************************************************************************)
EXTENDS DiffusionRpc, LoRAManager, SequenceLemmas

-----------------------------------------------------------------------------
(* The calls: types and order.                                             *)

(* What the calling thread holds.                                          *)
Callers == [at : {"idle", "sent", "waiting"}, call : 0..MaxCalls,
            rank : {AnyRank} \cup Workers, timed : BOOLEAN, needed : Nat,
            responses : Seq(Replies)]

(* What a call may have returned.                                          *)
Outcomes == [result : {"none", "returned", "raised", "timed out"}, responses : Seq(Replies)]

(* The types in full, and what they need: a message is the one of a call   *)
(* that was made or the shutdown message.                                  *)
TypeInv ==
  /\ mq \in [Workers -> Seq(Messages)]
  /\ result_mq \in Seq(Replies)
  /\ caller \in Callers
  /\ calls \in 0..MaxCalls
  /\ outcome \in [1..MaxCalls -> Outcomes]
  /\ running \subseteq Workers
  /\ executed \in [Workers -> Seq(Messages)]
  /\ closing \in {Open, "flagged", "sent", "closed"}
  /\ errors \in 0..MaxErrors /\ timeouts \in 0..MaxTimeouts
  /\ caller.call <= calls
  /\ caller.at = "idle" => caller = Idle
  /\ caller.at # "idle" => caller.call > 0 /\ Len(caller.responses) < caller.needed
  /\ \A w \in Workers : \A i \in 1..Len(mq[w]) :
       mq[w][i] = SHUTDOWN_MESSAGE \/ mq[w][i].call \in 1..calls

(* A worker executes in the order of the calls and reads in that order:    *)
(* what is left to read was called after what was executed.                *)
CallOrder ==
  \A w \in Workers :
    /\ \A i \in 1..Len(executed[w]) : executed[w][i].call \in 1..calls
    /\ \A i, j \in 1..Len(executed[w]) :
         i < j => executed[w][i].call < executed[w][j].call
    /\ \A i, j \in 1..Len(mq[w]) :
         i < j /\ mq[w][i] # SHUTDOWN_MESSAGE /\ mq[w][j] # SHUTDOWN_MESSAGE
           => mq[w][i].call < mq[w][j].call
    /\ \A i \in 1..Len(executed[w]), j \in 1..Len(mq[w]) :
         mq[w][j] # SHUTDOWN_MESSAGE => executed[w][i].call < mq[w][j].call

(* The calls worker w has yet to read.                                     *)
ToRead(w) == {mq[w][i] : i \in 1..Len(mq[w])} \ {SHUTDOWN_MESSAGE}

(* The messages for all that reached worker w.                             *)
Reached(w) == {msg \in Executed(w) \cup ToRead(w) : ForAll(msg)}

(* Every message for all reaches every running worker.                     *)
SameReached == \A v, w \in running : Reached(v) = Reached(w)

(* As long as no call was given up, at most one reply is on its way or     *)
(* still to come from worker 0, and it is the one of the call being made.  *)
ReplyInv ==
  timeouts = 0 =>
    /\ \A c \in 1..MaxCalls : \A i \in 1..Len(outcome[c].responses) :
         outcome[c].responses[i].call = c
    /\ caller = Idle /\ closing # "closed" => result_mq = <<>> /\ ToRead(0) = {}
    /\ caller # Idle =>
         /\ \A msg \in ToRead(0) : msg.call = caller.call
         /\ \A i \in 1..Len(result_mq) : result_mq[i].call = caller.call
         /\ \A i \in 1..Len(caller.responses) : caller.responses[i].call = caller.call
         /\ Len(result_mq) + Len(caller.responses) <= 1
         /\ Len(result_mq) + Len(caller.responses) = 1 => ToRead(0) = {}

-----------------------------------------------------------------------------
(* What the steps on the broadcast queue do to it.                         *)

(* The shutdown message is a message, of no call.                          *)
LEMMA ShutdownMessage ==
  /\ SHUTDOWN_MESSAGE \in Messages
  /\ SHUTDOWN_MESSAGE.call = 0
  /\ ForAll(SHUTDOWN_MESSAGE)
BY RpcAssumption DEF SHUTDOWN_MESSAGE, Messages, ForAll, AnyRank, Workers

(* Worker 0 is there, and only the numbers of workers are ranks.           *)
LEMMA WorkerNumbers ==
  /\ 0 \in Workers /\ AnyRank \notin Workers /\ Ranks \subseteq Workers
  /\ NumGpus \in Nat \ {0} /\ MaxCalls \in Nat
BY RpcAssumption DEF Workers, AnyRank

(* A broadcast appends the message to the queue of every worker.           *)
LEMMA BroadcastQueues ==
  ASSUME TypeInv, NEW msg \in Messages, Broadcast(msg)
  PROVE  /\ mq' \in [Workers -> Seq(Messages)]
         /\ \A w \in Workers :
              /\ Len(mq[w]) \in Nat /\ Len(mq'[w]) = Len(mq[w]) + 1
              /\ \A i \in 1..Len(mq[w]) : mq'[w][i] = mq[w][i]
              /\ mq'[w][Len(mq[w]) + 1] = msg
<1>1. ASSUME NEW w \in Workers
      PROVE  /\ mq'[w] = Append(mq[w], msg) /\ mq[w] \in Seq(Messages)
             /\ Append(mq[w], msg) \in Seq(Messages)
             /\ Len(mq[w]) \in Nat /\ Len(mq'[w]) = Len(mq[w]) + 1
             /\ \A i \in 1..Len(mq[w]) : mq'[w][i] = mq[w][i]
             /\ mq'[w][Len(mq[w]) + 1] = msg
  <2>1. mq'[w] = Append(mq[w], msg) /\ mq[w] \in Seq(Messages)
    BY DEF TypeInv, Broadcast
  <2>. QED BY <2>1, AppendProperties, LenProperties
<1>2. mq' = [w \in Workers |-> Append(mq[w], msg)]
  BY DEF Broadcast
<1>. QED BY <1>1, <1>2

(* A worker takes the head of its queue; the other queues stay.            *)
LEMMA ReceiveQueues ==
  ASSUME TypeInv, NEW w \in Workers, Receive(w)
  PROVE  /\ mq' \in [Workers -> Seq(Messages)]
         /\ \A v \in Workers : v # w => mq'[v] = mq[v]
         /\ Head(mq[w]) \in Messages /\ Head(mq[w]) = mq[w][1]
         /\ Len(mq[w]) \in Nat /\ Len(mq[w]) > 0 /\ Len(mq'[w]) = Len(mq[w]) - 1
         /\ \A i \in 1..Len(mq'[w]) : mq'[w][i] = mq[w][i + 1]
<1>1. mq \in [Workers -> Seq(Messages)] /\ mq[w] \in Seq(Messages) /\ mq[w] # <<>>
      /\ mq' = [mq EXCEPT ![w] = Tail(mq[w])]
  BY DEF TypeInv, Receive
<1>2. /\ Head(mq[w]) \in Messages /\ Tail(mq[w]) \in Seq(Messages)
      /\ Len(Tail(mq[w])) = Len(mq[w]) - 1
      /\ \A i \in 1..Len(Tail(mq[w])) : Tail(mq[w])[i] = mq[w][i + 1]
      /\ Len(mq[w]) \in Nat /\ Len(mq[w]) > 0
  BY <1>1, HeadTailProperties, EmptySeq, LenProperties
<1>3. Head(mq[w]) = mq[w][1]
  BY <1>1
<1>. QED BY <1>1, <1>2, <1>3

(* The shutdown messages come after everything else.                       *)
LEMMA ShutdownQueues ==
  ASSUME TypeInv, SendShutdown
  PROVE  /\ mq' \in [Workers -> Seq(Messages)]
         /\ \A w \in Workers :
              /\ Len(mq[w]) \in Nat /\ Len(mq'[w]) = Len(mq[w]) + NumGpus
              /\ \A i \in 1..Len(mq[w]) : mq'[w][i] = mq[w][i]
              /\ \A i \in 1..Len(mq'[w]) : i > Len(mq[w]) => mq'[w][i] = SHUTDOWN_MESSAGE
<1> DEFINE down == [i \in 1..NumGpus |-> SHUTDOWN_MESSAGE]
<1>1. down \in Seq(Messages) /\ Len(down) = NumGpus
      /\ \A i \in 1..NumGpus : down[i] = SHUTDOWN_MESSAGE
  BY ShutdownMessage, WorkerNumbers
<1>2. mq' = [w \in Workers |-> mq[w] \o down] /\ mq \in [Workers -> Seq(Messages)]
  BY DEF SendShutdown, TypeInv
<1> HIDE DEF down
<1>3. ASSUME NEW w \in Workers
      PROVE  /\ mq'[w] = mq[w] \o down /\ mq[w] \o down \in Seq(Messages)
             /\ Len(mq[w]) \in Nat /\ Len(mq'[w]) = Len(mq[w]) + NumGpus
             /\ \A i \in 1..Len(mq[w]) + NumGpus :
                  mq'[w][i] = IF i <= Len(mq[w]) THEN mq[w][i] ELSE down[i - Len(mq[w])]
  <2>1. mq'[w] = mq[w] \o down /\ mq[w] \in Seq(Messages)
    BY <1>2
  <2>2. Len(mq[w]) \in Nat
    BY <2>1, LenProperties
  <2>3. /\ mq[w] \o down \in Seq(Messages)
        /\ Len(mq[w] \o down) = Len(mq[w]) + Len(down)
        /\ \A i \in 1..Len(mq[w]) + Len(down) :
             (mq[w] \o down)[i] = IF i <= Len(mq[w]) THEN mq[w][i] ELSE down[i - Len(mq[w])]
    BY <2>1, <1>1, ConcatProperties
  <2>. QED BY <2>1, <2>2, <2>3, <1>1
<1>4. ASSUME NEW w \in Workers
      PROVE  /\ \A i \in 1..Len(mq[w]) : mq'[w][i] = mq[w][i]
             /\ \A i \in 1..Len(mq'[w]) : i > Len(mq[w]) => mq'[w][i] = SHUTDOWN_MESSAGE
  <2>1. Len(mq[w]) \in Nat /\ NumGpus \in Nat
    BY <1>3, WorkerNumbers
  <2>2. \A i \in 1..Len(mq[w]) : mq'[w][i] = mq[w][i]
    BY <1>3, <2>1
  <2>3. ASSUME NEW i \in 1..Len(mq'[w]), i > Len(mq[w])
        PROVE  mq'[w][i] = SHUTDOWN_MESSAGE
    <3>1. i \in 1..Len(mq[w]) + NumGpus /\ ~(i <= Len(mq[w])) /\ i - Len(mq[w]) \in 1..NumGpus
      BY <1>3, <2>1, <2>3
    <3>2. mq'[w][i] = down[i - Len(mq[w])]
      BY <1>3, <3>1
    <3>. QED BY <3>1, <3>2, <1>1
  <2>. QED BY <2>2, <2>3
<1>5. mq' \in [Workers -> Seq(Messages)]
  BY <1>2, <1>3
<1>. QED BY <1>3, <1>4, <1>5

-----------------------------------------------------------------------------
(* The types are kept by every step.                                       *)

(* The initial state is typed.                                             *)
LEMMA InitTypes == Init => TypeInv
<1> SUFFICES ASSUME Init PROVE TypeInv
  OBVIOUS
<1>1. <<>> \in Seq(Messages) /\ <<>> \in Seq(Replies) /\ Len(<<>>) = 0
  OBVIOUS
<1>. QED BY <1>1, RpcAssumption DEF Init, TypeInv, Callers, Outcomes, Idle, AnyRank, Open

(* A call that is sent, or refused, is typed.                              *)
LEMMA SendTypes ==
  ASSUME TypeInv, NewCall, NEW rank \in {AnyRank} \cup Workers, NEW all \in BOOLEAN,
         NEW needed \in Nat \ {0}, NEW timed \in BOOLEAN, Send(rank, all, needed, timed)
  PROVE  TypeInv'
<1> DEFINE msg == [call |-> calls + 1, output_rank |-> rank, exec_all_ranks |-> all]
<1>1. calls \in Nat /\ calls + 1 \in 1..MaxCalls /\ calls' = calls + 1 /\ calls + 1 > 0
  BY WorkerNumbers DEF NewCall, TypeInv
<1>2. msg \in Messages /\ msg.call = calls + 1
  BY <1>1 DEF Messages
<1>3. Broadcast(msg)
  BY DEF Send
<1>4. /\ mq' \in [Workers -> Seq(Messages)]
      /\ \A w \in Workers :
           /\ Len(mq[w]) \in Nat /\ Len(mq'[w]) = Len(mq[w]) + 1
           /\ \A i \in 1..Len(mq[w]) : mq'[w][i] = mq[w][i]
           /\ mq'[w][Len(mq[w]) + 1] = msg
  <2> HIDE DEF msg
  <2>. QED BY <1>2, <1>3, BroadcastQueues
<1>5. /\ caller' \in Callers /\ caller'.call = calls' /\ caller'.at = "sent"
      /\ caller'.responses = <<>> /\ caller'.needed = needed
  BY <1>1 DEF Send, Callers
<1>6. \A w \in Workers : \A i \in 1..Len(mq'[w]) :
        mq'[w][i] = SHUTDOWN_MESSAGE \/ mq'[w][i].call \in 1..calls'
  <2> HIDE DEF msg
  <2> TAKE w \in Workers
  <2> TAKE i \in 1..Len(mq'[w])
  <2>1. CASE i \in 1..Len(mq[w])
    <3>1. mq[w][i] = SHUTDOWN_MESSAGE \/ mq[w][i].call \in 1..calls
      BY <2>1 DEF TypeInv
    <3>2. \A c \in 1..calls : c \in 1..calls'
      BY <1>1
    <3>. QED BY <2>1, <3>1, <3>2, <1>4
  <2>2. CASE i = Len(mq[w]) + 1
    BY <2>2, <1>1, <1>2, <1>4
  <2>. QED BY <2>1, <2>2, <1>4
<1>7. /\ UNCHANGED <<result_mq, outcome, running, executed, closing, errors, timeouts>>
  BY DEF Send, NewCall, workerVars
<1>8. /\ caller'.call <= calls' /\ (caller'.at = "idle" => caller' = Idle)
      /\ caller'.at # "idle" => caller'.call > 0 /\ Len(caller'.responses) < caller'.needed
  BY <1>1, <1>5
<1>9. calls' \in 0..MaxCalls
  BY <1>1
<1>. QED BY <1>4, <1>5, <1>6, <1>7, <1>8, <1>9 DEF TypeInv

(* Between calls the thread holds nothing.                                 *)
LEMMA IdleTypes == Idle \in Callers /\ Idle.at = "idle" /\ Idle.call = 0
<1>1. 0 \in 0..MaxCalls
  BY WorkerNumbers
<1>2. <<>> \in Seq(Replies)
  OBVIOUS
<1>. QED BY <1>1, <1>2 DEF Idle, Callers

(* The end of a call is typed.                                             *)
LEMMA FinishTypes ==
  ASSUME TypeInv, NEW c \in 1..MaxCalls, NEW result \in {"returned", "raised", "timed out"},
         NEW responses, responses \in Seq(Replies), Finish(c, result, responses)
  PROVE  /\ outcome' \in [1..MaxCalls -> Outcomes]
         /\ caller' = Idle /\ caller' \in Callers /\ caller'.at = "idle" /\ caller'.call = 0
<1>1. [result |-> result, responses |-> responses] \in Outcomes
  BY DEF Outcomes
<1>2. outcome' \in [1..MaxCalls -> Outcomes]
  BY <1>1 DEF Finish, TypeInv
<1>3. Idle \in Callers /\ Idle.at = "idle" /\ Idle.call = 0
  BY IdleTypes
<1>. QED BY <1>2, <1>3 DEF Finish

(* A refused call.                                                         *)
LEMMA RefusedTypes ==
  ASSUME TypeInv, NewCall, Refused
  PROVE  TypeInv'
<1>1. calls + 1 \in 1..MaxCalls /\ calls' = calls + 1 /\ calls \in Nat /\ calls' \in 0..MaxCalls
  BY WorkerNumbers DEF NewCall, TypeInv
<1>2. Finish(calls + 1, "raised", <<>>) /\ UNCHANGED mq
  BY DEF Refused
<1>3. /\ outcome' \in [1..MaxCalls -> Outcomes]
      /\ caller' = Idle /\ caller' \in Callers /\ caller'.at = "idle" /\ caller'.call = 0
  <2>1. <<>> \in Seq(Replies)
    OBVIOUS
  <2>. QED BY <1>1, <1>2, <2>1, FinishTypes
<1>4. UNCHANGED <<mq, result_mq, running, executed, closing, errors, timeouts>>
  BY <1>2 DEF NewCall, workerVars
<1>5. \A w \in Workers : \A i \in 1..Len(mq[w]) :
        mq[w][i] = SHUTDOWN_MESSAGE \/ mq[w][i].call \in 1..calls'
  BY <1>1 DEF TypeInv
<1>. QED BY <1>1, <1>3, <1>4, <1>5 DEF TypeInv

(* A call that is made.                                                    *)
LEMMA CallTypes ==
  ASSUME TypeInv,
         AddReq \/ \E rank \in Ranks \cup {AnyRank}, timed \in BOOLEAN : CollectiveRpc(rank, timed)
  PROVE  TypeInv'
<1>1. CASE AddReq
  <2>1. NewCall /\ (Send(0, TRUE, 1, FALSE) \/ Refused)
    BY <1>1 DEF AddReq
  <2>2. 0 \in {AnyRank} \cup Workers /\ 1 \in Nat \ {0}
    BY WorkerNumbers
  <2>3. CASE Send(0, TRUE, 1, FALSE)
    BY <2>1, <2>2, <2>3, SendTypes
  <2>. QED BY <2>1, <2>3, RefusedTypes
<1>2. CASE \E rank \in Ranks \cup {AnyRank}, timed \in BOOLEAN : CollectiveRpc(rank, timed)
  <2> PICK rank \in Ranks \cup {AnyRank}, timed \in BOOLEAN : CollectiveRpc(rank, timed)
    BY <1>2
  <2>1. \/ NewCall /\ \E needed \in Nat \ {0} : Send(rank, FALSE, needed, timed)
        \/ NewCall /\ Refused
    <3>1. (IF rank = AnyRank THEN NumGpus ELSE 1) \in Nat \ {0}
      BY WorkerNumbers
    <3>. QED BY <3>1 DEF CollectiveRpc
  <2>. QED BY <2>1, SendTypes, RefusedTypes, WorkerNumbers
<1>. QED BY <1>1, <1>2

(* The result queue is looked up.                                          *)
LEMMA LookUpTypes ==
  ASSUME TypeInv, LookUp
  PROVE  TypeInv'
<1>1. /\ caller.at = "sent" /\ caller \in Callers /\ calls \in 0..MaxCalls /\ caller.call <= calls
      /\ caller.call > 0 /\ Len(caller.responses) < caller.needed
      /\ UNCHANGED <<mq, result_mq, calls, running, executed, closing, errors, timeouts>>
  BY DEF TypeInv, LookUp, workerVars
<1>2. caller.call \in 1..MaxCalls
  BY <1>1, WorkerNumbers DEF Callers
<1>3. CASE caller' = [caller EXCEPT !.at = "waiting"] /\ UNCHANGED outcome
  <2>1. /\ caller' \in Callers /\ caller'.at = "waiting" /\ caller'.call = caller.call
        /\ caller'.responses = caller.responses /\ caller'.needed = caller.needed
    BY <1>1, <1>3 DEF Callers
  <2>. QED BY <1>1, <1>3, <2>1 DEF TypeInv
<1>4. CASE Finish(caller.call, "raised", <<>>)
  <2>1. /\ outcome' \in [1..MaxCalls -> Outcomes]
        /\ caller' = Idle /\ caller' \in Callers /\ caller'.at = "idle" /\ caller'.call = 0
    <3>1. <<>> \in Seq(Replies)
      OBVIOUS
    <3>. QED BY <1>2, <1>4, <3>1, FinishTypes
  <2>. QED BY <1>1, <2>1 DEF TypeInv
<1>. QED BY <1>3, <1>4 DEF LookUp

(* What the engine takes from the result queue.                            *)
LEMMA DequeueResponses ==
  ASSUME TypeInv, Dequeue
  PROVE  LET responses == Append(caller.responses, Head(result_mq))
         IN  /\ result_mq # <<>> /\ result_mq' \in Seq(Replies)
             /\ Len(result_mq) \in Nat /\ Len(result_mq') = Len(result_mq) - 1
             /\ \A i \in 1..Len(result_mq') : result_mq'[i] = result_mq[i + 1]
             /\ responses \in Seq(Replies) /\ Len(caller.responses) \in Nat
             /\ Len(responses) = Len(caller.responses) + 1
             /\ Head(result_mq) = result_mq[1]
             /\ \A i \in 1..Len(caller.responses) : responses[i] = caller.responses[i]
             /\ responses[Len(caller.responses) + 1] = result_mq[1]
             /\ caller \in Callers /\ caller.call \in 1..MaxCalls /\ caller.call <= calls
             /\ Len(caller.responses) < caller.needed
<1>1. /\ result_mq \in Seq(Replies) /\ result_mq # <<>> /\ result_mq' = Tail(result_mq)
      /\ caller \in Callers /\ caller.at = "waiting"
  BY DEF TypeInv, Dequeue
<1>2. /\ Head(result_mq) \in Replies /\ Tail(result_mq) \in Seq(Replies)
      /\ Len(Tail(result_mq)) = Len(result_mq) - 1 /\ Len(result_mq) \in Nat
      /\ \A i \in 1..Len(Tail(result_mq)) : Tail(result_mq)[i] = result_mq[i + 1]
  BY <1>1, HeadTailProperties, LenProperties
<1>3. caller.responses \in Seq(Replies) /\ Len(caller.responses) \in Nat
  BY <1>1, LenProperties DEF Callers
<1>4. /\ Append(caller.responses, Head(result_mq)) \in Seq(Replies)
      /\ Len(Append(caller.responses, Head(result_mq))) = Len(caller.responses) + 1
      /\ \A i \in 1..Len(caller.responses) :
           Append(caller.responses, Head(result_mq))[i] = caller.responses[i]
      /\ Append(caller.responses, Head(result_mq))[Len(caller.responses) + 1] = Head(result_mq)
  BY <1>2, <1>3, AppendProperties
<1>5. Head(result_mq) = result_mq[1]
  BY <1>1
<1>6. caller.call \in 1..MaxCalls /\ caller.call <= calls /\ Len(caller.responses) < caller.needed
  BY <1>1, WorkerNumbers DEF TypeInv, Callers
<1>. QED BY <1>1, <1>2, <1>3, <1>4, <1>5, <1>6

(* A reply is dequeued.                                                    *)
LEMMA DequeueTypes ==
  ASSUME TypeInv, Dequeue
  PROVE  TypeInv'
<1> DEFINE responses == Append(caller.responses, Head(result_mq))
<1>1. /\ result_mq' \in Seq(Replies) /\ responses \in Seq(Replies)
      /\ Len(caller.responses) \in Nat /\ Len(responses) = Len(caller.responses) + 1
      /\ caller \in Callers /\ caller.call \in 1..MaxCalls /\ caller.call <= calls
      /\ Len(caller.responses) < caller.needed
  BY DequeueResponses
<1>2. UNCHANGED <<mq, calls, running, executed, closing, errors, timeouts>>
  BY DEF Dequeue, workerVars
<1>3. \/ Len(responses) = caller.needed /\ Finish(caller.call, "returned", responses)
      \/ /\ Len(responses) # caller.needed
         /\ caller' = [caller EXCEPT !.at = "sent", !.responses = responses]
         /\ UNCHANGED outcome
  BY DEF Dequeue
<1> HIDE DEF responses
<1>4. CASE Finish(caller.call, "returned", responses)
  <2>1. /\ outcome' \in [1..MaxCalls -> Outcomes]
        /\ caller' = Idle /\ caller' \in Callers /\ caller'.at = "idle" /\ caller'.call = 0
    BY <1>1, <1>4, FinishTypes
  <2>. QED BY <1>1, <1>2, <2>1 DEF TypeInv
<1>5. CASE /\ Len(responses) # caller.needed
           /\ caller' = [caller EXCEPT !.at = "sent", !.responses = responses]
           /\ UNCHANGED outcome
  <2>1. /\ caller' \in Callers /\ caller'.at = "sent" /\ caller'.call = caller.call
        /\ caller'.responses = responses /\ caller'.needed = caller.needed
        /\ caller.needed \in Nat
    BY <1>1, <1>5 DEF Callers
  <2>2. Len(caller'.responses) < caller'.needed
    BY <1>1, <1>5, <2>1
  <2>3. caller'.call > 0
    BY <1>1, <2>1
  <2>. QED BY <1>1, <1>2, <1>5, <2>1, <2>2, <2>3 DEF TypeInv
<1>. QED BY <1>3, <1>4, <1>5

(* A call is given up.                                                     *)
LEMMA TimeoutTypes ==
  ASSUME TypeInv, Timeout
  PROVE  TypeInv'
<1>1. /\ caller.call \in 1..MaxCalls
      /\ UNCHANGED <<mq, result_mq, calls, running, executed, closing, errors>>
      /\ timeouts' \in 0..MaxTimeouts
  <2>1. caller.call \in 0..MaxCalls /\ caller.call > 0
    BY DEF TypeInv, Timeout, Callers
  <2>2. timeouts \in 0..MaxTimeouts /\ timeouts < MaxTimeouts /\ timeouts' = timeouts + 1
    BY DEF TypeInv, Timeout
  <2>3. MaxTimeouts \in Nat
    BY RpcAssumption
  <2>4. timeouts' \in 0..MaxTimeouts /\ caller.call \in 1..MaxCalls
    BY <2>1, <2>2, <2>3, WorkerNumbers
  <2>. QED BY <2>4 DEF Timeout, workerVars
<1>2. Finish(caller.call, "timed out", <<>>)
  BY DEF Timeout
<1>3. /\ outcome' \in [1..MaxCalls -> Outcomes]
      /\ caller' = Idle /\ caller' \in Callers /\ caller'.at = "idle" /\ caller'.call = 0
  <2>1. <<>> \in Seq(Replies)
    OBVIOUS
  <2>. QED BY <1>1, <1>2, <2>1, FinishTypes
<1>. QED BY <1>1, <1>3 DEF TypeInv

(* The engine is closed.                                                   *)
LEMMA CloseTypes ==
  ASSUME TypeInv, Close \/ CloserStep
  PROVE  TypeInv'
<1>1. CASE Close \/ CloseScheduler
  <2>1. UNCHANGED <<mq, result_mq, engineVars, workerVars>>
        /\ closing' \in {Open, "flagged", "sent", "closed"}
    BY <1>1 DEF Close, CloseScheduler
  <2>. QED BY <2>1 DEF TypeInv, engineVars, workerVars
<1>2. CASE SendShutdown
  <2>1. UNCHANGED <<result_mq, engineVars, workerVars>> /\ closing' = "sent"
    BY <1>2 DEF SendShutdown
  <2>2. /\ mq' \in [Workers -> Seq(Messages)]
        /\ \A w \in Workers :
             /\ Len(mq[w]) \in Nat /\ Len(mq'[w]) = Len(mq[w]) + NumGpus
             /\ \A i \in 1..Len(mq[w]) : mq'[w][i] = mq[w][i]
             /\ \A i \in 1..Len(mq'[w]) : i > Len(mq[w]) => mq'[w][i] = SHUTDOWN_MESSAGE
    BY <1>2, ShutdownQueues
  <2>3. \A w \in Workers : \A i \in 1..Len(mq'[w]) :
          mq'[w][i] = SHUTDOWN_MESSAGE \/ mq'[w][i].call \in 1..calls
    <3> TAKE w \in Workers
    <3> TAKE i \in 1..Len(mq'[w])
    <3>1. i \in 1..Len(mq[w]) \/ i > Len(mq[w])
      BY <2>2, WorkerNumbers
    <3>. QED BY <3>1, <2>2 DEF TypeInv
  <2>. QED BY <2>1, <2>2, <2>3 DEF TypeInv, engineVars, workerVars
<1>. QED BY <1>1, <1>2 DEF CloserStep

(* What a worker reads is the shutdown message or a call's.                *)
LEMMA ReceiveTypes ==
  ASSUME TypeInv, NEW w \in Workers, Receive(w)
  PROVE  /\ mq' \in [Workers -> Seq(Messages)]
         /\ Head(mq[w]) \in Messages
         /\ Head(mq[w]) = SHUTDOWN_MESSAGE \/ Head(mq[w]).call \in 1..calls
         /\ \A v \in Workers : \A i \in 1..Len(mq'[v]) :
              mq'[v][i] = SHUTDOWN_MESSAGE \/ mq'[v][i].call \in 1..calls
<1>1. /\ mq' \in [Workers -> Seq(Messages)]
      /\ \A v \in Workers : v # w => mq'[v] = mq[v]
      /\ Head(mq[w]) \in Messages /\ Head(mq[w]) = mq[w][1]
      /\ Len(mq[w]) \in Nat /\ Len(mq[w]) > 0 /\ Len(mq'[w]) = Len(mq[w]) - 1
      /\ \A i \in 1..Len(mq'[w]) : mq'[w][i] = mq[w][i + 1]
  BY ReceiveQueues
<1>2. \A v \in Workers : \A i \in 1..Len(mq[v]) :
        mq[v][i] = SHUTDOWN_MESSAGE \/ mq[v][i].call \in 1..calls
  BY DEF TypeInv
<1>3. 1 \in 1..Len(mq[w]) /\ \A i \in 1..Len(mq'[w]) : i + 1 \in 1..Len(mq[w])
  BY <1>1
<1>. QED BY <1>1, <1>2, <1>3, ZenonT(40)

(* A worker stops or skips a message.                                      *)
LEMMA StopSkipTypes ==
  ASSUME TypeInv, NEW w \in Workers, Stop(w) \/ Skip(w)
  PROVE  TypeInv'
<1>1. /\ mq' \in [Workers -> Seq(Messages)]
      /\ \A v \in Workers : \A i \in 1..Len(mq'[v]) :
           mq'[v][i] = SHUTDOWN_MESSAGE \/ mq'[v][i].call \in 1..calls
  BY ReceiveTypes DEF Stop, Skip
<1>2. UNCHANGED <<result_mq, caller, calls, outcome, timeouts, executed, errors, closing>>
      /\ running' \subseteq running
  BY DEF Stop, Skip, engineVars, workerVars
<1>. QED BY <1>1, <1>2 DEF TypeInv

(* A worker executes a message.                                            *)
LEMMA ExecuteTypes ==
  ASSUME TypeInv, NEW w \in Workers, NEW ok \in BOOLEAN, ExecuteRpc(w, ok)
  PROVE  TypeInv'
<1>1. Receive(w) /\ Head(mq[w]) # SHUTDOWN_MESSAGE
  BY DEF ExecuteRpc
<1>2. /\ mq' \in [Workers -> Seq(Messages)]
      /\ Head(mq[w]) \in Messages /\ Head(mq[w]).call \in 1..calls
      /\ \A v \in Workers : \A i \in 1..Len(mq'[v]) :
           mq'[v][i] = SHUTDOWN_MESSAGE \/ mq'[v][i].call \in 1..calls
  BY <1>1, ReceiveTypes
<1>3. executed' \in [Workers -> Seq(Messages)]
  <2>1. executed[w] \in Seq(Messages)
    BY DEF TypeInv
  <2>2. Append(executed[w], Head(mq[w])) \in Seq(Messages)
    BY <2>1, <1>2, AppendProperties
  <2>. QED BY <2>2 DEF ExecuteRpc, TypeInv
<1>4. result_mq' \in Seq(Replies)
  <2>1. [call |-> Head(mq[w]).call, rank |-> w, ok |-> ok] \in Replies
    BY <1>2, WorkerNumbers DEF Replies, TypeInv
  <2>2. result_mq \in Seq(Replies)
    BY DEF TypeInv
  <2>3. Append(result_mq, [call |-> Head(mq[w]).call, rank |-> w, ok |-> ok]) \in Seq(Replies)
    BY <2>1, <2>2, AppendProperties
  <2>. QED BY <2>2, <2>3 DEF ExecuteRpc, Reply
<1>5. errors' \in 0..MaxErrors
  BY RpcAssumption DEF ExecuteRpc, TypeInv
<1>6. UNCHANGED <<caller, calls, outcome, timeouts, running, closing>>
  BY DEF ExecuteRpc, engineVars
<1>. QED BY <1>2, <1>3, <1>4, <1>5, <1>6 DEF TypeInv

(* Every step keeps the types.                                             *)
LEMMA NextTypes ==
  ASSUME TypeInv, [Next]_vars
  PROVE  TypeInv'
<1>1. CASE AddReq \/ \E rank \in Ranks \cup {AnyRank}, timed \in BOOLEAN : CollectiveRpc(rank, timed)
  BY <1>1, CallTypes
<1>2. CASE CallerStep
  BY <1>2, LookUpTypes, DequeueTypes DEF CallerStep
<1>3. CASE Timeout
  BY <1>3, TimeoutTypes
<1>4. CASE Close \/ CloserStep
  BY <1>4, CloseTypes
<1>5. CASE \E w \in Workers : WorkerStep(w)
  BY <1>5, StopSkipTypes, ExecuteTypes DEF WorkerStep
<1>6. CASE UNCHANGED vars
  BY <1>6 DEF vars, engineVars, workerVars, TypeInv
<1>. QED BY <1>1, <1>2, <1>3, <1>4, <1>5, <1>6 DEF Next

(* Every variable has its type, and the engine never holds more responses  *)
(* than the call needs, however calls, errors, timeouts and the close      *)
(* interleave.                                                             *)
THEOREM TypesOK == Spec => []TypeOK
<1>1. TypeInv => TypeOK
  BY DEF TypeInv, TypeOK, Callers
<1>2. Spec => []TypeInv
  BY InitTypes, NextTypes, PTL DEF Spec
<1>. QED BY <1>1, <1>2, PTL

-----------------------------------------------------------------------------
(* The order of the calls.                                                 *)

(* A worker executes a message or none of those it takes.                  *)
Reads(w) ==
  /\ Receive(w) /\ UNCHANGED calls
  /\ \/ UNCHANGED executed
     \/ /\ Head(mq[w]) # SHUTDOWN_MESSAGE
        /\ executed' = [executed EXCEPT ![w] = Append(@, Head(mq[w]))]

(* Every step of a worker reads one message.                               *)
LEMMA WorkerReads ==
  ASSUME NEW w \in Workers, WorkerStep(w)
  PROVE  Reads(w)
<1>1. CASE Stop(w)
  BY <1>1 DEF Stop, Reads, engineVars
<1>2. CASE Skip(w)
  BY <1>2 DEF Skip, Reads, engineVars, workerVars
<1>3. CASE \E ok \in BOOLEAN : ExecuteRpc(w, ok)
  BY <1>3 DEF ExecuteRpc, Reads, engineVars
<1>. QED BY <1>1, <1>2, <1>3 DEF WorkerStep

(* Steps that neither call nor read.                                       *)
Quiet == CallerStep \/ Timeout \/ Close \/ CloseScheduler \/ UNCHANGED vars

(* They leave the calls, the queue and what was executed alone.            *)
LEMMA QuietSteps == Quiet => UNCHANGED <<mq, calls, executed, running>>
BY DEF Quiet, CallerStep, LookUp, Dequeue, Timeout, Close, CloseScheduler, vars, engineVars,
       workerVars

(* What a call does to the queue: nothing, or a broadcast of its message.  *)
Calls ==
  /\ calls' = calls + 1 /\ calls \in Nat
  /\ UNCHANGED <<executed, running, closing>>
  /\ \/ UNCHANGED mq
     \/ \E msg \in Messages :
          msg.call = calls + 1 /\ msg # SHUTDOWN_MESSAGE /\ Broadcast(msg)

(* A message that is sent carries the number of its call.                  *)
LEMMA SendCalls ==
  ASSUME TypeInv, NewCall, NEW rank \in {AnyRank} \cup Workers, NEW all \in BOOLEAN,
         NEW needed, NEW timed, Send(rank, all, needed, timed)
  PROVE  Calls
<1> DEFINE msg == [call |-> calls + 1, output_rank |-> rank, exec_all_ranks |-> all]
<1>1. calls \in Nat /\ calls + 1 \in 0..MaxCalls /\ calls' = calls + 1 /\ calls + 1 # 0
  BY WorkerNumbers DEF NewCall, TypeInv
<1>2. msg \in Messages /\ msg.call = calls + 1
  BY <1>1 DEF Messages
<1>3. msg # SHUTDOWN_MESSAGE
  <2> HIDE DEF msg
  <2>. QED BY <1>1, <1>2, ShutdownMessage
<1>4. Broadcast(msg)
  BY DEF Send
<1> HIDE DEF msg
<1>. QED BY <1>1, <1>2, <1>3, <1>4 DEF Calls, NewCall, workerVars

(* Every call does that.                                                   *)
LEMMA CallCalls ==
  ASSUME TypeInv,
         AddReq \/ \E rank \in Ranks \cup {AnyRank}, timed \in BOOLEAN : CollectiveRpc(rank, timed)
  PROVE  Calls
<1>1. ASSUME NewCall, Refused
      PROVE  Calls
  BY <1>1 DEF Calls, NewCall, Refused, workerVars, TypeInv
<1>2. 0 \in {AnyRank} \cup Workers /\ Ranks \cup {AnyRank} \subseteq {AnyRank} \cup Workers
  BY WorkerNumbers
<1>3. CASE AddReq
  <2>1. NewCall /\ (Send(0, TRUE, 1, FALSE) \/ Refused)
    BY <1>3 DEF AddReq
  <2>2. CASE Send(0, TRUE, 1, FALSE)
    BY <2>1, <2>2, <1>2, SendCalls
  <2>. QED BY <2>1, <2>2, <1>1
<1>4. ASSUME NEW rank \in Ranks \cup {AnyRank}, NEW timed \in BOOLEAN, CollectiveRpc(rank, timed)
      PROVE  Calls
  <2>1. NewCall /\ (\/ Send(rank, FALSE, IF rank = AnyRank THEN NumGpus ELSE 1, timed)
                    \/ Refused)
    BY <1>4 DEF CollectiveRpc
  <2>2. CASE Send(rank, FALSE, IF rank = AnyRank THEN NumGpus ELSE 1, timed)
    BY <2>1, <2>2, <1>2, SendCalls
  <2>. QED BY <2>1, <2>2, <1>1
<1>. QED BY <1>3, <1>4

(* Every step is one of these.                                             *)
LEMMA StepKinds ==
  ASSUME TypeInv, [Next]_vars
  PROVE  \/ Calls \/ SendShutdown \/ Quiet
         \/ \E w \in Workers : WorkerStep(w) /\ Reads(w)
<1>1. CASE AddReq \/ \E rank \in Ranks \cup {AnyRank}, timed \in BOOLEAN : CollectiveRpc(rank, timed)
  BY <1>1, CallCalls
<1>2. CASE \E w \in Workers : WorkerStep(w)
  BY <1>2, WorkerReads
<1>. QED BY <1>1, <1>2 DEF Next, Quiet, CloserStep

(* A call is after all that were made before.                              *)
LEMMA CallsKeepOrder ==
  ASSUME TypeInv, CallOrder, Calls
  PROVE  CallOrder'
<1>1. calls \in Nat /\ calls' = calls + 1 /\ UNCHANGED executed
  BY DEF Calls
<1>2. \A c \in 1..calls : c \in 1..calls' /\ c < calls + 1
  BY <1>1
<1>3. CASE UNCHANGED mq
  BY <1>1, <1>2, <1>3 DEF CallOrder
<1>4. ASSUME NEW msg \in Messages, msg.call = calls + 1, Broadcast(msg)
      PROVE  CallOrder'
  <2>1. /\ \A w \in Workers :
             /\ Len(mq[w]) \in Nat /\ Len(mq'[w]) = Len(mq[w]) + 1
             /\ \A i \in 1..Len(mq[w]) : mq'[w][i] = mq[w][i]
             /\ mq'[w][Len(mq[w]) + 1] = msg
    BY <1>4, BroadcastQueues
  <2>2. SUFFICES ASSUME NEW w \in Workers
                 PROVE  /\ \A i \in 1..Len(executed[w]) : executed[w][i].call \in 1..calls'
                        /\ \A i, j \in 1..Len(mq'[w]) :
                             /\ i < j
                             /\ mq'[w][i] # SHUTDOWN_MESSAGE /\ mq'[w][j] # SHUTDOWN_MESSAGE
                             => mq'[w][i].call < mq'[w][j].call
                        /\ \A i \in 1..Len(executed[w]), j \in 1..Len(mq'[w]) :
                             mq'[w][j] # SHUTDOWN_MESSAGE => executed[w][i].call < mq'[w][j].call
    BY <1>1 DEF CallOrder
  <2>3. \A i \in 1..Len(executed[w]) : executed[w][i].call \in 1..calls
    BY DEF CallOrder
  <2>4. \A i \in 1..Len(mq'[w]) : i \in 1..Len(mq[w]) \/ i = Len(mq[w]) + 1
    BY <2>1
  <2>5. \A i \in 1..Len(mq[w]) : mq[w][i] = SHUTDOWN_MESSAGE \/ mq[w][i].call < calls + 1
    BY <1>2 DEF TypeInv
  <2>6. ASSUME NEW i \in 1..Len(mq'[w]), NEW j \in 1..Len(mq'[w]), i < j,
               mq'[w][i] # SHUTDOWN_MESSAGE, mq'[w][j] # SHUTDOWN_MESSAGE
        PROVE  mq'[w][i].call < mq'[w][j].call
    <3>1. i \in 1..Len(mq[w])
      BY <2>6, <2>1, <2>4
    <3>2. CASE j \in 1..Len(mq[w])
      BY <2>6, <2>1, <3>1, <3>2 DEF CallOrder
    <3>3. CASE j = Len(mq[w]) + 1
      BY <2>6, <2>1, <2>5, <3>1, <3>3, <1>4
    <3>. QED BY <3>2, <3>3, <2>4
  <2>7. ASSUME NEW i \in 1..Len(executed[w]), NEW j \in 1..Len(mq'[w]),
               mq'[w][j] # SHUTDOWN_MESSAGE
        PROVE  executed[w][i].call < mq'[w][j].call
    <3>1. CASE j \in 1..Len(mq[w])
      BY <2>7, <2>1, <3>1 DEF CallOrder
    <3>2. CASE j = Len(mq[w]) + 1
      BY <2>1, <2>3, <1>2, <3>2, <1>4
    <3>. QED BY <3>1, <3>2, <2>4
  <2>. QED BY <2>3, <2>6, <2>7, <1>2
<1>. QED BY <1>3, <1>4 DEF Calls

(* A worker that reads keeps the order.                                    *)
LEMMA ReadsKeepOrder ==
  ASSUME TypeInv, CallOrder, NEW w \in Workers, Reads(w)
  PROVE  CallOrder'
<1>1. /\ \A v \in Workers : v # w => mq'[v] = mq[v]
      /\ Head(mq[w]) \in Messages /\ Head(mq[w]) = mq[w][1]
      /\ Len(mq[w]) \in Nat /\ Len(mq[w]) > 0 /\ Len(mq'[w]) = Len(mq[w]) - 1
      /\ \A i \in 1..Len(mq'[w]) : mq'[w][i] = mq[w][i + 1]
  BY ReceiveQueues DEF Reads
<1>2. /\ 1 \in 1..Len(mq[w])
      /\ \A i \in 1..Len(mq'[w]) : i + 1 \in 1..Len(mq[w]) /\ 1 < i + 1
      /\ \A i, j \in 1..Len(mq'[w]) : i < j => i + 1 < j + 1
  BY <1>1
<1>3. UNCHANGED calls
  BY DEF Reads
<1>4. executed \in [Workers -> Seq(Messages)]
  BY DEF TypeInv
<1>5. ASSUME NEW v \in Workers, v # w
      PROVE  executed'[v] = executed[v] /\ mq'[v] = mq[v]
  BY <1>5, <1>1, <1>4 DEF Reads
<1>6. \A i, j \in 1..Len(mq'[w]) :
        i < j /\ mq'[w][i] # SHUTDOWN_MESSAGE /\ mq'[w][j] # SHUTDOWN_MESSAGE
          => mq'[w][i].call < mq'[w][j].call
  BY <1>1, <1>2 DEF CallOrder
<1>7. \A i \in 1..Len(executed[w]), j \in 1..Len(mq'[w]) :
        mq'[w][j] # SHUTDOWN_MESSAGE => executed[w][i].call < mq'[w][j].call
  BY <1>1, <1>2 DEF CallOrder
<1>8. CASE UNCHANGED executed
  <2>1. ASSUME NEW v \in Workers
        PROVE  /\ \A i, j \in 1..Len(mq'[v]) :
                    i < j /\ mq'[v][i] # SHUTDOWN_MESSAGE /\ mq'[v][j] # SHUTDOWN_MESSAGE
                      => mq'[v][i].call < mq'[v][j].call
               /\ \A i \in 1..Len(executed[v]), j \in 1..Len(mq'[v]) :
                    mq'[v][j] # SHUTDOWN_MESSAGE => executed[v][i].call < mq'[v][j].call
    <3>1. CASE v = w
      BY <3>1, <1>6, <1>7
    <3>2. CASE v # w
      BY <3>2, <1>5 DEF CallOrder
    <3>. QED BY <3>1, <3>2
  <2>. QED BY <2>1, <1>3, <1>8 DEF CallOrder
<1>9. CASE Head(mq[w]) # SHUTDOWN_MESSAGE
           /\ executed' = [executed EXCEPT ![w] = Append(@, Head(mq[w]))]
  <2> DEFINE n == Len(executed[w])
             e == executed'[w]
  <2>1. /\ n \in Nat /\ Len(e) = n + 1
        /\ \A i \in 1..n : e[i] = executed[w][i]
        /\ e[n + 1] = mq[w][1]
    <3>1. executed[w] \in Seq(Messages) /\ e = Append(executed[w], Head(mq[w]))
      BY <1>4, <1>9
    <3>. QED BY <3>1, <1>1, AppendProperties, LenProperties
  <2>2. /\ mq[w][1].call \in 1..calls
        /\ \A i \in 1..n : executed[w][i].call < mq[w][1].call
        /\ \A j \in 1..Len(mq'[w]) :
             mq'[w][j] # SHUTDOWN_MESSAGE => mq[w][1].call < mq'[w][j].call
    BY <1>1, <1>2, <1>9 DEF CallOrder, TypeInv
  <2>3. /\ \A i \in 1..n : executed[w][i].call \in 1..calls
        /\ \A i, j \in 1..n : i < j => executed[w][i].call < executed[w][j].call
    BY DEF CallOrder
  <2> HIDE DEF n, e
  <2>4. \A i \in 1..Len(e) : i \in 1..n \/ i = n + 1
    BY <2>1
  <2>5. \A i \in 1..Len(e) : e[i].call \in 1..calls
    BY <2>1, <2>2, <2>3, <2>4
  <2>6. ASSUME NEW i \in 1..Len(e), NEW j \in 1..Len(e), i < j
        PROVE  e[i].call < e[j].call
    <3>1. i \in 1..n
      BY <2>6, <2>1, <2>4
    <3>2. CASE j \in 1..n
      BY <2>6, <2>1, <2>3, <3>1, <3>2
    <3>3. CASE j = n + 1
      BY <2>1, <2>2, <3>1, <3>3
    <3>. QED BY <3>2, <3>3, <2>4
  <2>7. \A i \in 1..Len(e), j \in 1..Len(mq'[w]) :
          mq'[w][j] # SHUTDOWN_MESSAGE => e[i].call < mq'[w][j].call
    BY <2>1, <2>2, <2>4, <1>7 DEF n
  <2>. QED BY <2>5, <2>6, <2>7, <1>3, <1>5, <1>6, ZenonT(40) DEF CallOrder, e
<1>. QED BY <1>8, <1>9 DEF Reads

(* So do the shutdown messages.                                            *)
LEMMA ShutdownKeepsOrder ==
  ASSUME TypeInv, CallOrder, SendShutdown
  PROVE  CallOrder'
<1>1. /\ \A w \in Workers :
           /\ Len(mq[w]) \in Nat /\ Len(mq'[w]) = Len(mq[w]) + NumGpus
           /\ \A i \in 1..Len(mq[w]) : mq'[w][i] = mq[w][i]
           /\ \A i \in 1..Len(mq'[w]) : i > Len(mq[w]) => mq'[w][i] = SHUTDOWN_MESSAGE
  BY ShutdownQueues
<1>2. UNCHANGED <<executed, calls>>
  BY DEF SendShutdown, engineVars, workerVars
<1>3. \A w \in Workers : \A i \in 1..Len(mq'[w]) :
        mq'[w][i] # SHUTDOWN_MESSAGE => i \in 1..Len(mq[w]) /\ mq'[w][i] = mq[w][i]
  <2> TAKE w \in Workers
  <2> TAKE i \in 1..Len(mq'[w])
  <2>1. i \in 1..Len(mq[w]) \/ i > Len(mq[w])
    BY <1>1, WorkerNumbers
  <2>. QED BY <2>1, <1>1
<1>4. ASSUME NEW w \in Workers
      PROVE  /\ \A i, j \in 1..Len(mq'[w]) :
                  i < j /\ mq'[w][i] # SHUTDOWN_MESSAGE /\ mq'[w][j] # SHUTDOWN_MESSAGE
                    => mq'[w][i].call < mq'[w][j].call
             /\ \A i \in 1..Len(executed[w]), j \in 1..Len(mq'[w]) :
                  mq'[w][j] # SHUTDOWN_MESSAGE => executed[w][i].call < mq'[w][j].call
  BY <1>3 DEF CallOrder
<1>. QED BY <1>2, <1>4 DEF CallOrder

(* The order of the calls is kept by every step.                           *)
LEMMA NextOrder ==
  ASSUME TypeInv, CallOrder, [Next]_vars
  PROVE  CallOrder'
<1>1. CASE Quiet
  BY <1>1, QuietSteps DEF CallOrder
<1>. QED BY <1>1, StepKinds, CallsKeepOrder, ReadsKeepOrder, ShutdownKeepsOrder

-----------------------------------------------------------------------------
(* What reaches the workers.                                               *)

(* A call adds its message to what each worker has yet to read.            *)
LEMMA BroadcastReached ==
  ASSUME TypeInv, NEW msg \in Messages, msg # SHUTDOWN_MESSAGE, Broadcast(msg),
         NEW w \in Workers
  PROVE  ToRead(w)' = ToRead(w) \cup {msg}
<1>1. /\ Len(mq[w]) \in Nat /\ Len(mq'[w]) = Len(mq[w]) + 1
      /\ \A i \in 1..Len(mq[w]) : mq'[w][i] = mq[w][i]
      /\ mq'[w][Len(mq[w]) + 1] = msg
  BY BroadcastQueues
<1>2. \A i \in 1..Len(mq'[w]) : i \in 1..Len(mq[w]) \/ i = Len(mq[w]) + 1
  BY <1>1
<1>3. Len(mq[w]) + 1 \in 1..Len(mq'[w]) /\ \A i \in 1..Len(mq[w]) : i \in 1..Len(mq'[w])
  BY <1>1
<1>4. {mq'[w][i] : i \in 1..Len(mq'[w])} = {mq[w][i] : i \in 1..Len(mq[w])} \cup {msg}
  BY <1>1, <1>2, <1>3
<1>. QED BY <1>4 DEF ToRead

(* The shutdown messages add nothing.                                      *)
LEMMA ShutdownReached ==
  ASSUME TypeInv, SendShutdown, NEW w \in Workers
  PROVE  ToRead(w)' = ToRead(w)
<1>1. /\ Len(mq[w]) \in Nat /\ Len(mq'[w]) = Len(mq[w]) + NumGpus
      /\ \A i \in 1..Len(mq[w]) : mq'[w][i] = mq[w][i]
      /\ \A i \in 1..Len(mq'[w]) : i > Len(mq[w]) => mq'[w][i] = SHUTDOWN_MESSAGE
  BY ShutdownQueues
<1>2. \A i \in 1..Len(mq'[w]) : i \in 1..Len(mq[w]) \/ i > Len(mq[w])
  BY <1>1, WorkerNumbers
<1>3. \A i \in 1..Len(mq[w]) : i \in 1..Len(mq'[w])
  BY <1>1, WorkerNumbers
<1>4. {mq'[w][i] : i \in 1..Len(mq'[w])} \subseteq ToRead(w) \cup {SHUTDOWN_MESSAGE}
  BY <1>1, <1>2 DEF ToRead
<1>5. ToRead(w) \subseteq {mq'[w][i] : i \in 1..Len(mq'[w])}
  BY <1>1, <1>3 DEF ToRead
<1>6. SHUTDOWN_MESSAGE \notin ToRead(w)
  BY DEF ToRead
<1>. QED BY <1>4, <1>5, <1>6 DEF ToRead

(* A worker that reads takes the head, and no other worker does.           *)
LEMMA ReceiveReached ==
  ASSUME TypeInv, NEW w \in Workers, Receive(w)
  PROVE  /\ \A v \in Workers : v # w => ToRead(v)' = ToRead(v)
         /\ ToRead(w) = ToRead(w)' \cup ({Head(mq[w])} \ {SHUTDOWN_MESSAGE})
<1>1. /\ \A v \in Workers : v # w => mq'[v] = mq[v]
      /\ Head(mq[w]) = mq[w][1]
      /\ Len(mq[w]) \in Nat /\ Len(mq[w]) > 0 /\ Len(mq'[w]) = Len(mq[w]) - 1
      /\ \A i \in 1..Len(mq'[w]) : mq'[w][i] = mq[w][i + 1]
  BY ReceiveQueues
<1>2. \A i \in 1..Len(mq[w]) : i = 1 \/ (i - 1 \in 1..Len(mq'[w]) /\ (i - 1) + 1 = i)
  BY <1>1
<1>3. 1 \in 1..Len(mq[w]) /\ \A i \in 1..Len(mq'[w]) : i + 1 \in 1..Len(mq[w])
  BY <1>1
<1>4. {mq[w][i] : i \in 1..Len(mq[w])} \subseteq {mq'[w][i] : i \in 1..Len(mq'[w])} \cup {mq[w][1]}
  <2> SUFFICES ASSUME NEW i \in 1..Len(mq[w])
               PROVE  mq[w][i] \in {mq'[w][k] : k \in 1..Len(mq'[w])} \cup {mq[w][1]}
    OBVIOUS
  <2>1. CASE i = 1
    BY <2>1
  <2>2. CASE i - 1 \in 1..Len(mq'[w]) /\ (i - 1) + 1 = i
    <3>1. mq'[w][i - 1] = mq[w][i]
      BY <2>2, <1>1
    <3>. QED BY <2>2, <3>1
  <2>. QED BY <2>1, <2>2, <1>2
<1>5. {mq'[w][i] : i \in 1..Len(mq'[w])} \subseteq {mq[w][i] : i \in 1..Len(mq[w])}
  BY <1>1, <1>3
<1>6. mq[w][1] \in {mq[w][i] : i \in 1..Len(mq[w])}
  BY <1>3
<1>7. ToRead(w) = ToRead(w)' \cup ({Head(mq[w])} \ {SHUTDOWN_MESSAGE})
  BY <1>1, <1>4, <1>5, <1>6 DEF ToRead
<1>8. \A v \in Workers : v # w => ToRead(v)' = ToRead(v)
  BY <1>1 DEF ToRead
<1>. QED BY <1>7, <1>8

(* What it executes it has executed.                                       *)
LEMMA ExecutedAdds ==
  ASSUME TypeInv, NEW w \in Workers, NEW msg \in Messages,
         executed' = [executed EXCEPT ![w] = Append(@, msg)]
  PROVE  /\ \A v \in Workers : v # w => Executed(v)' = Executed(v)
         /\ Executed(w)' = Executed(w) \cup {msg}
<1>1. executed[w] \in Seq(Messages) /\ executed'[w] = Append(executed[w], msg)
      /\ \A v \in Workers : v # w => executed'[v] = executed[v]
  BY DEF TypeInv
<1>2. /\ Len(executed[w]) \in Nat /\ Len(executed'[w]) = Len(executed[w]) + 1
      /\ \A i \in 1..Len(executed[w]) : executed'[w][i] = executed[w][i]
      /\ executed'[w][Len(executed[w]) + 1] = msg
  BY <1>1, AppendProperties, LenProperties
<1>3. \A i \in 1..Len(executed'[w]) : i \in 1..Len(executed[w]) \/ i = Len(executed[w]) + 1
  BY <1>2
<1>4. /\ Len(executed[w]) + 1 \in 1..Len(executed'[w])
      /\ \A i \in 1..Len(executed[w]) : i \in 1..Len(executed'[w])
  BY <1>2
<1>5. Executed(w)' = Executed(w) \cup {msg}
  BY <1>2, <1>3, <1>4 DEF Executed
<1>. QED BY <1>1, <1>5 DEF Executed

(* A message for all that a worker takes is executed, unless it stops.     *)
LEMMA WorkerReached ==
  ASSUME TypeInv, NEW w \in Workers, WorkerStep(w)
  PROVE  /\ running' \subseteq running
         /\ \A v \in running' : Reached(v)' = Reached(v)
<1>1. Receive(w) /\ running \subseteq Workers
  BY DEF WorkerStep, Stop, Skip, ExecuteRpc, TypeInv
<1>2. /\ \A v \in Workers : v # w => ToRead(v)' = ToRead(v)
      /\ ToRead(w) = ToRead(w)' \cup ({Head(mq[w])} \ {SHUTDOWN_MESSAGE})
  BY <1>1, ReceiveReached
<1>3. CASE Stop(w)
  <2>1. running' = running \ {w} /\ UNCHANGED executed
    BY <1>3 DEF Stop
  <2>2. \A v \in running' : v \in Workers /\ v # w
    BY <2>1, <1>1
  <2>. QED BY <2>1, <2>2, <1>2 DEF Reached, Executed
<1>4. CASE Skip(w)
  <2>1. UNCHANGED <<running, executed>> /\ ~ForAll(Head(mq[w]))
    BY <1>4 DEF Skip, workerVars, ShouldExecute, ForAll
  <2>2. \A v \in Workers : Executed(v)' = Executed(v)
    BY <2>1 DEF Executed
  <2>3. \A v \in Workers : {msg \in ToRead(v)' : ForAll(msg)} = {msg \in ToRead(v) : ForAll(msg)}
    BY <2>1, <1>2
  <2>. QED BY <2>1, <2>2, <2>3, <1>1 DEF Reached
<1>5. CASE \E ok \in BOOLEAN : ExecuteRpc(w, ok)
  <2>1. /\ UNCHANGED running /\ Head(mq[w]) # SHUTDOWN_MESSAGE
        /\ executed' = [executed EXCEPT ![w] = Append(@, Head(mq[w]))]
    BY <1>5 DEF ExecuteRpc
  <2>2. Head(mq[w]) \in Messages
    BY <1>1, ReceiveQueues
  <2>3. /\ \A v \in Workers : v # w => Executed(v)' = Executed(v)
        /\ Executed(w)' = Executed(w) \cup {Head(mq[w])}
    <3> DEFINE msg == Head(mq[w])
    <3>1. msg \in Messages /\ executed' = [executed EXCEPT ![w] = Append(@, msg)]
      BY <2>1, <2>2
    <3> HIDE DEF msg
    <3>2. /\ \A v \in Workers : v # w => Executed(v)' = Executed(v)
          /\ Executed(w)' = Executed(w) \cup {msg}
      BY <3>1, ExecutedAdds
    <3>. QED BY <3>2 DEF msg
  <2>4. \A v \in Workers : Executed(v)' \cup ToRead(v)' = Executed(v) \cup ToRead(v)
    <3>1. Executed(w)' \cup ToRead(w)' = Executed(w) \cup ToRead(w)
      BY <2>1, <2>3, <1>2
    <3>. QED BY <3>1, <2>3, <1>2
  <2>. QED BY <2>1, <2>4, <1>1 DEF Reached
<1>. QED BY <1>3, <1>4, <1>5 DEF WorkerStep

(* Every message for all reaches every running worker, at every step.      *)
LEMMA NextReached ==
  ASSUME TypeInv, SameReached, [Next]_vars
  PROVE  SameReached'
<1>1. running \subseteq Workers
  BY DEF TypeInv
<1>2. CASE Quiet
  BY <1>2, QuietSteps DEF SameReached, Reached, Executed, ToRead
<1>3. CASE SendShutdown
  <2>1. UNCHANGED <<executed, running>> /\ \A w \in Workers : ToRead(w)' = ToRead(w)
    BY <1>3, ShutdownReached DEF SendShutdown, workerVars
  <2>2. \A w \in Workers : Reached(w)' = Reached(w)
    BY <2>1 DEF Reached, Executed
  <2>. QED BY <2>1, <2>2, <1>1 DEF SameReached
<1>4. CASE Calls
  <2>1. UNCHANGED <<executed, running>> /\ \A w \in Workers : Executed(w)' = Executed(w)
    BY <1>4 DEF Calls, Executed
  <2>2. CASE UNCHANGED mq
    <3>1. \A w \in Workers : Reached(w)' = Reached(w)
      BY <2>1, <2>2 DEF Reached, ToRead
    <3>. QED BY <2>1, <3>1, <1>1 DEF SameReached
  <2>3. ASSUME NEW msg \in Messages, msg # SHUTDOWN_MESSAGE, Broadcast(msg)
        PROVE  SameReached'
    <3>1. \A w \in Workers : ToRead(w)' = ToRead(w) \cup {msg}
      BY <2>3, BroadcastReached
    <3>2. \A w \in Workers : Reached(w)' = Reached(w) \cup {m \in {msg} : ForAll(m)}
      BY <2>1, <3>1 DEF Reached
    <3>. QED BY <2>1, <3>2, <1>1 DEF SameReached
  <2>. QED BY <1>4, <2>2, <2>3 DEF Calls
<1>5. CASE \E w \in Workers : WorkerStep(w)
  <2>1. running' \subseteq running /\ \A v \in running' : Reached(v)' = Reached(v)
    BY <1>5, WorkerReached
  <2>. QED BY <2>1 DEF SameReached
<1>. QED BY <1>2, <1>3, <1>4, <1>5, StepKinds

(* What was executed is not to be read again.                              *)
LEMMA ExecutedOnce ==
  ASSUME CallOrder, NEW w \in Workers
  PROVE  Executed(w) \cap ToRead(w) = {}
<1> SUFFICES ASSUME NEW i \in 1..Len(executed[w]), NEW j \in 1..Len(mq[w]),
                    mq[w][j] # SHUTDOWN_MESSAGE, executed[w][i] = mq[w][j]
             PROVE  FALSE
  BY DEF Executed, ToRead
<1>1. /\ executed[w][i].call < mq[w][j].call /\ executed[w][i].call \in 1..calls
  BY DEF CallOrder
<1>. QED BY <1>1

(* The ranks of a pipeline execute the same generations and LoRA calls in  *)
(* the same order, for any number of ranks, calls, errors and timeouts,    *)
(* also while workers stop one after the other.                            *)
THEOREM RanksExecuteTheSame == Spec => []RanksAgree
<1>1. TypeInv /\ CallOrder /\ SameReached => RanksAgree
  <2> SUFFICES ASSUME TypeInv, CallOrder, SameReached PROVE RanksAgree
    OBVIOUS
  <2>1. ASSUME NEW v \in running, NEW w \in running, mq[v] = mq[w]
        PROVE  {msg \in Executed(v) : ForAll(msg)} \subseteq {msg \in Executed(w) : ForAll(msg)}
    <3>1. v \in Workers /\ w \in Workers /\ Reached(v) = Reached(w)
      BY DEF TypeInv, SameReached
    <3>2. ToRead(v) = ToRead(w)
      BY <2>1 DEF ToRead
    <3>3. Executed(v) \cap ToRead(v) = {}
      BY <3>1, ExecutedOnce
    <3>. QED BY <3>1, <3>2, <3>3 DEF Reached
  <2>2. \A w \in Workers : \A i, j \in 1..Len(executed[w]) :
          i < j => executed[w][i].call < executed[w][j].call
    BY DEF CallOrder
  <2>3. \A v, w \in running : mq[v] = mq[w] =>
          {msg \in Executed(v) : ForAll(msg)} = {msg \in Executed(w) : ForAll(msg)}
    BY <2>1
  <2>. QED BY <2>2, <2>3 DEF RanksAgree
<1>2. Init => CallOrder /\ SameReached
  <2> SUFFICES ASSUME Init PROVE CallOrder /\ SameReached
    OBVIOUS
  <2>1. \A w \in Workers : Len(mq[w]) = 0 /\ Len(executed[w]) = 0
    BY DEF Init
  <2>2. CallOrder
    BY <2>1 DEF CallOrder
  <2>3. \A w \in Workers : Executed(w) = {} /\ ToRead(w) = {}
    BY <2>1 DEF Executed, ToRead
  <2>. QED BY <2>2, <2>3 DEF SameReached, Reached, Init
<1>. QED BY <1>1, <1>2, InitTypes, NextTypes, NextOrder, NextReached, PTL DEF Spec

-----------------------------------------------------------------------------
(* The replies.                                                            *)

(* The parts of ReplyInv: what calls returned, the queues between calls,   *)
(* and the queues during a call.                                           *)
ReturnedOwn ==
  \A c \in 1..MaxCalls : \A i \in 1..Len(outcome[c].responses) :
    outcome[c].responses[i].call = c
BetweenCalls ==
  caller = Idle /\ closing # "closed" => result_mq = <<>> /\ ToRead(0) = {}
DuringCall ==
  /\ \A msg \in ToRead(0) : msg.call = caller.call
  /\ \A i \in 1..Len(result_mq) : result_mq[i].call = caller.call
  /\ \A i \in 1..Len(caller.responses) : caller.responses[i].call = caller.call
  /\ Len(result_mq) + Len(caller.responses) <= 1
  /\ Len(result_mq) + Len(caller.responses) = 1 => ToRead(0) = {}

(* ReplyInv is the conjunction of the three, before and after a step.      *)
LEMMA ReplyParts ==
  /\ ReplyInv <=> (timeouts = 0 => /\ ReturnedOwn /\ BetweenCalls
                                   /\ caller # Idle => DuringCall)
  /\ ReplyInv' <=> (timeouts' = 0 => /\ ReturnedOwn' /\ BetweenCalls'
                                     /\ caller' # Idle => DuringCall')
BY DEF ReplyInv, ReturnedOwn, BetweenCalls, DuringCall

(* The lengths the arithmetic is about are numbers.                        *)
LEMMA ReplyLengths ==
  ASSUME TypeInv
  PROVE  Len(result_mq) \in Nat /\ Len(caller.responses) \in Nat
BY LenProperties DEF TypeInv, Callers

(* A call ends with responses to itself, or with none.                     *)
LEMMA FinishOwn ==
  ASSUME TypeInv, ReturnedOwn, NEW c \in 1..MaxCalls, NEW result, NEW responses,
         Finish(c, result, responses), \A i \in 1..Len(responses) : responses[i].call = c
  PROVE  ReturnedOwn'
<1>1. outcome \in [1..MaxCalls -> Outcomes]
      /\ outcome' = [outcome EXCEPT ![c] = [result |-> result, responses |-> responses]]
  BY DEF TypeInv, Finish
<1>2. ASSUME NEW d \in 1..MaxCalls
      PROVE  \A i \in 1..Len(outcome'[d].responses) : outcome'[d].responses[i].call = d
  <2>1. CASE d = c
    <3>1. outcome'[d].responses = responses
      BY <1>1, <2>1
    <3>. QED BY <3>1, <2>1
  <2>2. CASE d # c
    <3>1. outcome'[d] = outcome[d]
      BY <1>1, <2>2
    <3>. QED BY <3>1 DEF ReturnedOwn
  <2>. QED BY <2>1, <2>2
<1>. QED BY <1>2 DEF ReturnedOwn

(* A call that is sent is alone with its message.                          *)
LEMMA SendReplies ==
  ASSUME TypeInv, ReplyInv, NewCall, mqIsSet,
         NEW rank \in {AnyRank} \cup Workers, NEW all \in BOOLEAN, NEW needed, NEW timed,
         Send(rank, all, needed, timed)
  PROVE  ReplyInv'
<1> DEFINE msg == [call |-> calls + 1, output_rank |-> rank, exec_all_ranks |-> all]
<1>1. calls \in Nat /\ calls + 1 \in 0..MaxCalls /\ calls + 1 # 0
  BY WorkerNumbers DEF NewCall, TypeInv
<1>2. msg \in Messages /\ msg.call = calls + 1 /\ Broadcast(msg)
  BY <1>1 DEF Messages, Send
<1>3. msg # SHUTDOWN_MESSAGE
  <2> HIDE DEF msg
  <2>. QED BY <1>1, <1>2, ShutdownMessage
<1>4. /\ caller'.at = "sent" /\ caller'.call = calls + 1 /\ caller'.responses = <<>>
      /\ UNCHANGED <<outcome, result_mq, closing, timeouts>>
  BY DEF Send, NewCall
<1>5. caller' # Idle
  BY <1>4 DEF Idle
<1> HIDE DEF msg
<1>6. SUFFICES ASSUME timeouts = 0
               PROVE  ReturnedOwn' /\ BetweenCalls' /\ DuringCall'
  BY <1>4, ReplyParts
<1>7. ReturnedOwn /\ result_mq = <<>> /\ ToRead(0) = {}
  BY <1>6, ReplyParts DEF NewCall, BetweenCalls, mqIsSet
<1>8. ToRead(0)' = {msg}
  BY <1>2, <1>3, <1>7, BroadcastReached, WorkerNumbers
<1>9. Len(result_mq') = 0 /\ Len(caller'.responses) = 0
  BY <1>4, <1>7
<1>10. DuringCall'
  <2>1. \A m \in ToRead(0)' : m.call = caller'.call
    BY <1>2, <1>4, <1>8
  <2>. QED BY <2>1, <1>9 DEF DuringCall
<1>. QED BY <1>4, <1>5, <1>7, <1>10 DEF ReturnedOwn, BetweenCalls

(* A refused call leaves everything as it was.                             *)
LEMMA RefusedReplies ==
  ASSUME TypeInv, ReplyInv, NewCall, Refused
  PROVE  ReplyInv'
<1>1. calls + 1 \in 1..MaxCalls
  BY WorkerNumbers DEF NewCall, TypeInv
<1>2. /\ Finish(calls + 1, "raised", <<>>) /\ caller' = Idle /\ caller = Idle
      /\ UNCHANGED <<mq, result_mq, closing, timeouts>>
  BY DEF Refused, NewCall, Finish
<1>3. SUFFICES ASSUME timeouts = 0
               PROVE  ReturnedOwn' /\ BetweenCalls'
  BY <1>2, ReplyParts
<1>4. ReturnedOwn /\ BetweenCalls
  BY <1>3, ReplyParts
<1>5. ReturnedOwn'
  <2>1. \A i \in 1..Len(<<>>) : <<>>[i].call = calls + 1
    OBVIOUS
  <2>. QED BY <2>1, <1>1, <1>2, <1>4, FinishOwn
<1>. QED BY <1>2, <1>4, <1>5 DEF BetweenCalls, ToRead

(* A call that is made.                                                    *)
LEMMA CallReplies ==
  ASSUME TypeInv, ReplyInv,
         AddReq \/ \E rank \in Ranks \cup {AnyRank}, timed \in BOOLEAN : CollectiveRpc(rank, timed)
  PROVE  ReplyInv'
<1>1. 0 \in {AnyRank} \cup Workers /\ Ranks \cup {AnyRank} \subseteq {AnyRank} \cup Workers
  BY WorkerNumbers
<1>2. CASE AddReq
  <2>1. NewCall /\ ((mqIsSet /\ Send(0, TRUE, 1, FALSE)) \/ Refused)
    BY <1>2 DEF AddReq
  <2>2. CASE mqIsSet /\ Send(0, TRUE, 1, FALSE)
    BY <2>1, <2>2, <1>1, SendReplies
  <2>. QED BY <2>1, <2>2, RefusedReplies
<1>3. ASSUME NEW rank \in Ranks \cup {AnyRank}, NEW timed \in BOOLEAN, CollectiveRpc(rank, timed)
      PROVE  ReplyInv'
  <2>1. NewCall /\ (\/ /\ closing = Open
                       /\ Send(rank, FALSE, IF rank = AnyRank THEN NumGpus ELSE 1, timed)
                    \/ Refused)
    BY <1>3 DEF CollectiveRpc
  <2>2. CASE closing = Open /\ Send(rank, FALSE, IF rank = AnyRank THEN NumGpus ELSE 1, timed)
    <3>1. mqIsSet
      BY <2>2 DEF mqIsSet, Open
    <3>. QED BY <2>1, <2>2, <3>1, <1>1, SendReplies
  <2>. QED BY <2>1, <2>2, RefusedReplies
<1>. QED BY <1>2, <1>3

(* The queue is looked up: only the closed engine raises.                  *)
LEMMA LookUpReplies ==
  ASSUME TypeInv, ReplyInv, LookUp
  PROVE  ReplyInv'
<1>1. /\ caller.at = "sent" /\ caller \in Callers /\ caller.call \in 1..MaxCalls
      /\ UNCHANGED <<mq, result_mq, closing, timeouts>>
  <2>1. caller.call \in 0..MaxCalls /\ caller.call > 0
    BY DEF TypeInv, LookUp, Callers
  <2>2. caller.call \in 1..MaxCalls
    BY <2>1, WorkerNumbers
  <2>. QED BY <2>2 DEF LookUp, TypeInv
<1>2. caller # Idle
  BY <1>1 DEF Idle
<1>3. SUFFICES ASSUME timeouts = 0
               PROVE  ReturnedOwn' /\ BetweenCalls' /\ (caller' # Idle => DuringCall')
  BY <1>1, ReplyParts
<1>4. ReturnedOwn /\ DuringCall
  BY <1>2, <1>3, ReplyParts
<1>5. CASE caller' = [caller EXCEPT !.at = "waiting"] /\ UNCHANGED outcome
  <2>1. /\ caller'.at = "waiting" /\ caller'.call = caller.call
        /\ caller'.responses = caller.responses
    BY <1>1, <1>5 DEF Callers
  <2>2. caller' # Idle
    BY <2>1 DEF Idle
  <2>3. ReturnedOwn'
    BY <1>4, <1>5 DEF ReturnedOwn
  <2>4. DuringCall'
    BY <1>1, <1>4, <2>1 DEF DuringCall, ToRead
  <2>. QED BY <2>2, <2>3, <2>4 DEF BetweenCalls
<1>6. CASE ~mqIsSet /\ Finish(caller.call, "raised", <<>>)
  <2>1. closing' = "closed" /\ caller' = Idle
    BY <1>1, <1>6 DEF mqIsSet, Finish
  <2>2. \A i \in 1..Len(<<>>) : <<>>[i].call = caller.call
    OBVIOUS
  <2>3. ReturnedOwn'
    BY <1>1, <1>4, <1>6, <2>2, FinishOwn
  <2>. QED BY <2>1, <2>3 DEF BetweenCalls
<1>. QED BY <1>5, <1>6 DEF LookUp

(* The reply that is dequeued is the only one, and the call's.             *)
LEMMA DequeueReplies ==
  ASSUME TypeInv, ReplyInv, Dequeue
  PROVE  ReplyInv'
<1> DEFINE responses == Append(caller.responses, Head(result_mq))
<1>1. /\ Len(result_mq) \in Nat /\ Len(result_mq') = Len(result_mq) - 1
      /\ Len(caller.responses) \in Nat
      /\ Len(responses) = Len(caller.responses) + 1
      /\ \A i \in 1..Len(caller.responses) : responses[i] = caller.responses[i]
      /\ responses[Len(caller.responses) + 1] = result_mq[1]
      /\ caller \in Callers /\ caller.call \in 1..MaxCalls
      /\ result_mq' \in Seq(Replies) /\ Len(result_mq') \in Nat
  BY DequeueResponses, LenProperties
<1>2. /\ caller.at = "waiting" /\ UNCHANGED <<mq, closing, timeouts>>
      /\ \/ Len(responses) = caller.needed /\ Finish(caller.call, "returned", responses)
         \/ /\ caller' = [caller EXCEPT !.at = "sent", !.responses = responses]
            /\ UNCHANGED outcome
  BY DEF Dequeue
<1> HIDE DEF responses
<1>3. caller # Idle
  BY <1>2 DEF Idle
<1>4. SUFFICES ASSUME timeouts = 0
               PROVE  ReturnedOwn' /\ BetweenCalls' /\ (caller' # Idle => DuringCall')
  BY <1>2, ReplyParts
<1>5. ReturnedOwn /\ DuringCall
  BY <1>3, <1>4, ReplyParts
<1>6. Len(result_mq) = 1 /\ Len(caller.responses) = 0 /\ Len(result_mq') = 0 /\ Len(responses) = 1
  BY <1>1, <1>5 DEF DuringCall
<1>7. ToRead(0) = {} /\ ToRead(0)' = {} /\ result_mq[1].call = caller.call
  <2>1. Len(result_mq) + Len(caller.responses) = 1 /\ 1 \in 1..Len(result_mq)
    BY <1>6
  <2>2. ToRead(0) = {} /\ result_mq[1].call = caller.call
    BY <1>5, <2>1 DEF DuringCall
  <2>3. ToRead(0)' = ToRead(0)
    BY <1>2 DEF ToRead
  <2>. QED BY <2>2, <2>3
<1>8. \A i \in 1..Len(responses) : responses[i].call = caller.call
  BY <1>1, <1>6, <1>7
<1>9. result_mq' = <<>>
  BY <1>1, <1>6, EmptySeq
<1>10. CASE Finish(caller.call, "returned", responses)
  <2>1. ReturnedOwn'
    BY <1>1, <1>5, <1>8, <1>10, FinishOwn
  <2>2. caller' = Idle
    BY <1>10 DEF Finish
  <2>. QED BY <2>1, <2>2, <1>7, <1>9 DEF BetweenCalls
<1>11. CASE /\ caller' = [caller EXCEPT !.at = "sent", !.responses = responses]
            /\ UNCHANGED outcome
  <2>1. caller'.at = "sent" /\ caller'.call = caller.call /\ caller'.responses = responses
    BY <1>1, <1>11 DEF Callers
  <2>2. caller' # Idle
    BY <2>1 DEF Idle
  <2>3. DuringCall'
    <3>1. /\ \A i \in 1..Len(result_mq') : result_mq'[i].call = caller'.call
          /\ \A i \in 1..Len(caller'.responses) : caller'.responses[i].call = caller'.call
          /\ Len(result_mq') + Len(caller'.responses) <= 1
      <4>1. Len(caller'.responses) = 1
        BY <1>6, <2>1
      <4>2. \A i \in 1..Len(caller'.responses) : caller'.responses[i].call = caller'.call
        BY <1>8, <2>1
      <4>3. \A i \in 1..Len(result_mq') : FALSE
        BY <1>6
      <4>4. Len(result_mq') + Len(caller'.responses) <= 1
        BY <1>6, <4>1
      <4>. QED BY <4>2, <4>3, <4>4
    <3>. QED BY <3>1, <1>7 DEF DuringCall
  <2>4. ReturnedOwn'
    BY <1>5, <1>11 DEF ReturnedOwn
  <2>. QED BY <2>2, <2>3, <2>4 DEF BetweenCalls
<1>. QED BY <1>2, <1>10, <1>11

(* Steps of the closer: the shutdown messages are nobody's call.           *)
LEMMA CloseReplies ==
  ASSUME TypeInv, ReplyInv, Close \/ CloserStep
  PROVE  ReplyInv'
<1>1. /\ UNCHANGED <<result_mq, caller, outcome, timeouts>>
      /\ closing # "closed"
      /\ ToRead(0)' = ToRead(0)
  <2>1. CASE SendShutdown
    BY <2>1, ShutdownReached, WorkerNumbers DEF SendShutdown, engineVars
  <2>2. CASE Close \/ CloseScheduler
    BY <2>2 DEF Close, CloseScheduler, engineVars, ToRead, Open
  <2>. QED BY <2>1, <2>2 DEF CloserStep
<1>2. /\ ReturnedOwn => ReturnedOwn'
      /\ BetweenCalls => BetweenCalls'
      /\ DuringCall => DuringCall'
  BY <1>1 DEF ReturnedOwn, BetweenCalls, DuringCall
<1>. QED BY <1>1, <1>2, ReplyParts

(* Only worker 0 replies, and once to every call it takes.                 *)
LEMMA WorkerReplies ==
  ASSUME TypeInv, CallOrder, ReplyInv, NEW w \in Workers, WorkerStep(w)
  PROVE  ReplyInv'
<1>1. Receive(w) /\ UNCHANGED <<caller, outcome, timeouts, closing>>
  BY DEF WorkerStep, Stop, Skip, ExecuteRpc, engineVars
<1>2. /\ \A v \in Workers : v # w => ToRead(v)' = ToRead(v)
      /\ ToRead(w) = ToRead(w)' \cup ({Head(mq[w])} \ {SHUTDOWN_MESSAGE})
  BY <1>1, ReceiveReached
<1>3. SUFFICES ASSUME timeouts = 0
               PROVE  ReturnedOwn' /\ BetweenCalls' /\ (caller # Idle => DuringCall')
  BY <1>1, ReplyParts
<1>4. ReturnedOwn /\ BetweenCalls /\ (caller # Idle => DuringCall)
  BY <1>3, ReplyParts
<1>5. ReturnedOwn'
  BY <1>1, <1>4 DEF ReturnedOwn
<1>6. CASE UNCHANGED result_mq
  <2>1. ToRead(0)' \subseteq ToRead(0)
    BY <1>2, WorkerNumbers
  <2>2. BetweenCalls'
    BY <1>1, <1>4, <1>6, <2>1 DEF BetweenCalls
  <2>3. DuringCall => DuringCall'
    BY <1>1, <1>6, <2>1 DEF DuringCall
  <2>. QED BY <1>4, <1>5, <2>2, <2>3
<1>7. CASE /\ w = 0 /\ Head(mq[w]) # SHUTDOWN_MESSAGE
           /\ \E ok \in BOOLEAN : Reply(w, ok)
  <2> PICK ok \in BOOLEAN : Reply(w, ok)
    BY <1>7
  <2> DEFINE msg == Head(mq[0])
             reply == [call |-> msg.call, rank |-> 0, ok |-> ok]
  <2>1. msg \in ToRead(0) /\ ToRead(0)' \subseteq ToRead(0)
    BY <1>2, <1>7
  <2>2. BetweenCalls'
    BY <1>1, <1>4, <2>1 DEF BetweenCalls
  <2>3. ASSUME caller # Idle
        PROVE  DuringCall'
    <3>1. DuringCall /\ msg.call = caller.call
      BY <1>4, <2>1, <2>3 DEF DuringCall
    <3>2. Len(result_mq) \in Nat /\ Len(caller.responses) \in Nat
      BY ReplyLengths
    <3>3. Len(result_mq) = 0 /\ Len(caller.responses) = 0
      BY <2>1, <3>1, <3>2 DEF DuringCall
    <3>4. result_mq = <<>>
      BY <3>3, EmptySeq DEF TypeInv
    <3>5. result_mq' = <<reply>>
      BY <1>7, <3>4 DEF Reply
    <3>6. Len(result_mq') = 1 /\ result_mq'[1].call = caller.call
      BY <3>1, <3>5
    <3>7. ToRead(0)' = {}
      <4>1. /\ Head(mq[0]) = mq[0][1]
            /\ Len(mq[0]) \in Nat /\ Len(mq[0]) > 0 /\ Len(mq'[0]) = Len(mq[0]) - 1
            /\ \A i \in 1..Len(mq'[0]) : mq'[0][i] = mq[0][i + 1]
        BY <1>1, <1>7, ReceiveQueues
      <4>2. SUFFICES ASSUME NEW i \in 1..Len(mq'[0]), mq'[0][i] # SHUTDOWN_MESSAGE
                     PROVE  FALSE
        BY DEF ToRead
      <4>3. /\ 1 \in 1..Len(mq[0]) /\ i + 1 \in 1..Len(mq[0]) /\ 1 < i + 1
            /\ mq[0][i + 1] # SHUTDOWN_MESSAGE
        BY <4>1, <4>2
      <4>4. mq[0][1].call < mq[0][i + 1].call
        BY <4>1, <4>3, <1>7, WorkerNumbers DEF CallOrder
      <4>5. mq[0][i + 1] \in ToRead(0) /\ mq[0][1].call = caller.call
        BY <3>1, <4>1, <4>3 DEF ToRead
      <4>6. mq[0][i + 1].call = caller.call /\ caller.call \in Nat
        BY <3>1, <4>5 DEF DuringCall, TypeInv, Callers
      <4>. QED BY <4>4, <4>5, <4>6
    <3>8. /\ \A i \in 1..Len(result_mq') : result_mq'[i].call = caller'.call
          /\ \A i \in 1..Len(caller'.responses) : caller'.responses[i].call = caller'.call
          /\ Len(result_mq') + Len(caller'.responses) <= 1
      BY <1>1, <3>3, <3>6
    <3>. QED BY <3>7, <3>8 DEF DuringCall
  <2>. QED BY <1>5, <2>2, <2>3
<1>8. UNCHANGED result_mq \/ /\ w = 0 /\ Head(mq[w]) # SHUTDOWN_MESSAGE
                             /\ \E ok \in BOOLEAN : Reply(w, ok)
  BY DEF WorkerStep, Stop, Skip, ExecuteRpc, ShouldReply
<1>. QED BY <1>6, <1>7, <1>8

(* Replies reach the call they belong to, although they carry no number:   *)
(* as long as no call was given up a call returns the replies to itself    *)
(* and leaves none behind, whichever methods raise and whenever the engine *)
(* is closed.                                                              *)
THEOREM RepliesAreOwn == Spec => []OwnReplies
<1>1. TypeInv /\ ReplyInv => OwnReplies
  <2> SUFFICES ASSUME TypeInv, ReplyInv, timeouts = 0
               PROVE  /\ \A c \in 1..calls : \A i \in 1..Len(outcome[c].responses) :
                           outcome[c].responses[i].call = c
                      /\ caller = Idle /\ closing = Open => result_mq = <<>>
    BY DEF OwnReplies
  <2>1. \A c \in 1..calls : c \in 1..MaxCalls
    BY WorkerNumbers DEF TypeInv
  <2>. QED BY <2>1 DEF ReplyInv, Open
<1>2. Init => CallOrder /\ ReplyInv
  <2> SUFFICES ASSUME Init PROVE CallOrder /\ ReplyInv
    OBVIOUS
  <2>1. \A w \in Workers : Len(mq[w]) = 0 /\ Len(executed[w]) = 0
    BY DEF Init
  <2>2. CallOrder
    BY <2>1 DEF CallOrder
  <2>3. ToRead(0) = {}
    BY <2>1, WorkerNumbers DEF ToRead
  <2>4. \A c \in 1..MaxCalls : outcome[c].responses = <<>> /\ Len(outcome[c].responses) = 0
    BY DEF Init
  <2>. QED BY <2>2, <2>3, <2>4 DEF ReplyInv, Init
<1>3. TypeInv /\ CallOrder /\ ReplyInv /\ [Next]_vars => ReplyInv'
  <2> SUFFICES ASSUME TypeInv, CallOrder, ReplyInv, [Next]_vars PROVE ReplyInv'
    OBVIOUS
  <2>1. CASE Timeout
    <3>1. timeouts \in 0..MaxTimeouts /\ timeouts' = timeouts + 1
      BY <2>1 DEF Timeout, TypeInv
    <3>2. timeouts' # 0
      BY <3>1, RpcAssumption
    <3>. QED BY <3>2 DEF ReplyInv
  <2>2. CASE UNCHANGED vars
    BY <2>2 DEF vars, engineVars, workerVars, ReplyInv, ToRead
  <2>. QED BY <2>1, <2>2, CallReplies, LookUpReplies, DequeueReplies, CloseReplies, WorkerReplies
           DEF Next, CallerStep
<1>. QED BY <1>1, <1>2, <1>3, InitTypes, NextTypes, NextOrder, PTL DEF Spec


-----------------------------------------------------------------------------
(* The LoRA manager: the types in parts.                                   *)

(* The cache's tables, without the bounds.                                 *)
TablesAgree ==
  /\ registered = {a \in Adapters : scales[a] # None}
  /\ Elements(access_order) \subseteq registered /\ Distinct(access_order)
  /\ pinned \subseteq Elements(access_order)
  /\ device.active \in registered \cup {None}

(* How far the cache is filled.                                            *)
CacheBounded ==
  /\ Cardinality(registered \ Elements(access_order)) <= faults
  /\ Cardinality(registered) <= MaxCached + faults

(* Replaced layers have buffers of the largest rank, which is enough for   *)
(* the adapters in reg, and hold the active adapter.                       *)
DeviceAgrees(d, reg) ==
  /\ \A l \in d.replaced : d.rank[l] = d.max_rank
  /\ \A a \in reg : Rank[a] <= d.max_rank /\ Targets[a] \subseteq d.replaced
  /\ \A l \in Layers :
       d.slot[l].adapter = IF d.active # None /\ l \in Targets[d.active] THEN d.active ELSE None

(* So it is until a call raises.                                           *)
LayersAgree == faults = 0 => DeviceAgrees(device, registered)

(* What the last call ran with.                                            *)
RanAgrees ==
  /\ generated.ran /\ generated.adapter # None => generated.adapter = device.active
  /\ generated.ran /\ generated.adapter = None =>
       \A l \in Layers : device.slot[l].adapter = None


-----------------------------------------------------------------------------
(* The device.                                                             *)

(* What the types say of a device.                                         *)
DeviceOK(d) ==
  /\ d \in Devices
  /\ \A l \in Layers : d.rank[l] > 0 <=> l \in d.replaced
  /\ \A l \in Layers \ d.replaced : d.slot[l] = Nothing

(* The fields of a device.                                                 *)
LEMMA DeviceFields ==
  ASSUME NEW d, DeviceOK(d)
  PROVE  /\ d.active \in Adapters \cup {None} /\ d.max_rank \in Nat
         /\ d.replaced \in SUBSET Layers /\ d.rank \in [Layers -> Nat]
         /\ d.slot \in [Layers -> Contents]
BY DEF DeviceOK, Devices

(* Nothing is a slot's contents.                                           *)
LEMMA NothingTypes == Nothing \in Contents /\ Nothing.adapter = None
BY DEF Nothing, Contents

(* Deactivating keeps the types.                                           *)
LEMMA DeactivatedOK ==
  ASSUME NEW d, DeviceOK(d)
  PROVE  /\ DeviceOK(Deactivated(d))
         /\ Deactivated(d).active = None
         /\ \A l \in Layers : Deactivated(d).slot[l] = Nothing
         /\ Deactivated(d).max_rank = d.max_rank
         /\ Deactivated(d).replaced = d.replaced
         /\ Deactivated(d).rank = d.rank
BY NothingTypes DEF DeviceOK, Devices, Deactivated

(* Slots written on replaced layers only.                                  *)
LEMMA SlotsWithOK ==
  ASSUME NEW d, DeviceOK(d), NEW a \in Adapters, NEW scale \in Scales \cup {None},
         NEW on \in SUBSET d.replaced
  PROVE  /\ SlotsWith(d, a, scale, on) \in [Layers -> Contents]
         /\ \A l \in Layers \ d.replaced : SlotsWith(d, a, scale, on)[l] = Nothing
         /\ \A l \in on : l \in Layers /\ SlotsWith(d, a, scale, on)[l].adapter =
                            IF l \in Targets[a] THEN a ELSE None
<1>1. [adapter |-> a, scale |-> scale] \in Contents
  BY DEF Contents
<1>. QED BY <1>1, NothingTypes, DeviceFields DEF SlotsWith, DeviceOK

(* A device whose slots are written on replaced layers.                    *)
LEMMA WrittenOK ==
  ASSUME NEW d, DeviceOK(d), NEW a \in Adapters, NEW scale \in Scales \cup {None},
         NEW on \in SUBSET d.replaced, NEW active \in Adapters \cup {None}
  PROVE  DeviceOK([d EXCEPT !.active = active, !.slot = SlotsWith(d, a, scale, on)])
<1> DEFINE slots == SlotsWith(d, a, scale, on)
<1>1. slots \in [Layers -> Contents] /\ \A l \in Layers \ d.replaced : slots[l] = Nothing
  BY SlotsWithOK
<1> HIDE DEF slots
<1>2. DeviceOK([d EXCEPT !.active = active, !.slot = slots])
  BY <1>1 DEF DeviceOK, Devices
<1>. QED BY <1>2 DEF slots

(* Activating.                                                             *)
LEMMA ActivatedOK ==
  ASSUME NEW d, DeviceOK(d), NEW a \in Adapters, NEW scale \in Scales \cup {None}
  PROVE  /\ DeviceOK(Activated(d, a, scale))
         /\ Activated(d, a, scale).active = a
         /\ Activated(d, a, scale).max_rank = d.max_rank
         /\ Activated(d, a, scale).replaced = d.replaced
         /\ Activated(d, a, scale).rank = d.rank
         /\ d.active = a => Activated(d, a, scale) = d
         /\ d.active # a => Activated(d, a, scale).slot = SlotsWith(d, a, scale, d.replaced)
<1>1. CASE d.active = a
  BY <1>1 DEF Activated
<1>2. CASE d.active # a
  <2> DEFINE e == [d EXCEPT !.active = a, !.slot = SlotsWith(d, a, scale, d.replaced)]
  <2>1. Activated(d, a, scale) = e
    BY <1>2 DEF Activated
  <2>2. DeviceOK(e)
    BY WrittenOK
  <2>3. /\ e.active = a /\ e.max_rank = d.max_rank /\ e.replaced = d.replaced /\ e.rank = d.rank
        /\ e.slot = SlotsWith(d, a, scale, d.replaced)
    BY DEF DeviceOK, Devices
  <2>. QED BY <1>2, <2>1, <2>2, <2>3
<1>. QED BY <1>1, <1>2

(* Recreating the buffers for a larger rank.                               *)
LEMMA RecreatedOK ==
  ASSUME NEW d, DeviceOK(d), NEW r \in Nat \ {0}
  PROVE  /\ DeviceOK(Recreated(d, r))
         /\ Recreated(d, r).active = d.active
         /\ Recreated(d, r).max_rank = r
         /\ Recreated(d, r).replaced = d.replaced
         /\ \A l \in d.replaced : l \in Layers /\ Recreated(d, r).rank[l] = r
         /\ \A l \in Layers : Recreated(d, r).slot[l] = Nothing
<1> DEFINE rank == [l \in Layers |-> IF l \in d.replaced THEN r ELSE 0]
           slot == [l \in Layers |-> Nothing]
           c == [d EXCEPT !.max_rank = r, !.slot = slot, !.rank = rank]
<1>1. c = Recreated(d, r)
  BY DEF Recreated
<1>2. /\ rank \in [Layers -> Nat] /\ slot \in [Layers -> Contents] /\ d.replaced \in SUBSET Layers
      /\ \A l \in Layers : rank[l] > 0 <=> l \in d.replaced
      /\ \A l \in d.replaced : rank[l] = r
      /\ \A l \in Layers : slot[l] = Nothing
  BY NothingTypes, DeviceFields
<1> HIDE DEF rank, slot
<1>3. /\ c \in Devices /\ c.active = d.active /\ c.max_rank = r /\ c.replaced = d.replaced
      /\ c.rank = rank /\ c.slot = slot
  BY <1>2 DEF DeviceOK, Devices
<1> HIDE DEF c
<1>. QED BY <1>1, <1>2, <1>3 DEF DeviceOK

(* Replacing more layers.                                                  *)
LEMMA WithLayersOK ==
  ASSUME NEW d, DeviceOK(d), d.max_rank > 0, NEW new \in SUBSET Layers
  PROVE  /\ DeviceOK(WithLayers(d, new))
         /\ WithLayers(d, new).active = d.active
         /\ WithLayers(d, new).max_rank = d.max_rank
         /\ WithLayers(d, new).replaced = d.replaced \cup new
         /\ WithLayers(d, new).slot = d.slot
         /\ \A l \in Layers : WithLayers(d, new).rank[l] = IF l \in new THEN d.max_rank ELSE d.rank[l]
BY DEF DeviceOK, Devices, WithLayers

(* Making room for a rank.                                                 *)
LEMMA RankEnsuredOK ==
  ASSUME NEW d, DeviceOK(d), NEW r \in Nat \ {0},
         scales \in [Adapters -> Scales \cup {None}]
  PROVE  LET e == RankEnsured(d, r)
         IN  /\ DeviceOK(e)
             /\ e.active = d.active /\ e.replaced = d.replaced
             /\ e.max_rank >= r /\ e.max_rank >= d.max_rank
             /\ r <= d.max_rank => e = d
             /\ r > d.max_rank =>
                  /\ e.max_rank = r
                  /\ \A l \in e.replaced : e.rank[l] = r
                  /\ \A l \in Layers :
                       e.slot[l].adapter = IF d.active # None /\ l \in d.replaced /\ l \in Targets[d.active]
                                           THEN d.active ELSE None
<1> DEFINE c == Recreated(d, r)
           e == RankEnsured(d, r)
<1>1. d.max_rank \in Nat /\ d.active \in Adapters \cup {None}
  BY DeviceFields
<1>2. CASE r <= d.max_rank
  <2>1. e = d
    BY <1>2 DEF RankEnsured
  <2>. QED BY <1>1, <1>2, <2>1
<1>3. CASE r > d.max_rank /\ d.active = None
  <2>1. e = c
    BY <1>1, <1>3 DEF RankEnsured
  <2>2. /\ DeviceOK(c) /\ c.active = d.active /\ c.max_rank = r /\ c.replaced = d.replaced
        /\ \A l \in d.replaced : c.rank[l] = r
        /\ \A l \in Layers : c.slot[l] = Nothing
    BY RecreatedOK
  <2> HIDE DEF c, e
  <2>3. e.max_rank >= r /\ e.max_rank >= d.max_rank
    BY <1>1, <1>3, <2>1, <2>2
  <2>4. \A l \in Layers : e.slot[l].adapter = None
    BY <2>1, <2>2, NothingTypes
  <2>5. ~(r <= d.max_rank)
    BY <1>1, <1>3
  <2>. QED BY <1>3, <2>1, <2>2, <2>3, <2>4, <2>5 DEF c, e
<1>4. CASE r > d.max_rank /\ d.active # None
  <2> DEFINE slots == SlotsWith(c, c.active, scales[c.active], c.replaced)
             f == [c EXCEPT !.active = c.active, !.slot = slots]
  <2>1. /\ DeviceOK(c) /\ c.active = d.active /\ c.max_rank = r /\ c.replaced = d.replaced
        /\ \A l \in d.replaced : c.rank[l] = r
        /\ \A l \in Layers : c.slot[l] = Nothing
    BY RecreatedOK
  <2>2. c.active \in Adapters /\ scales[c.active] \in Scales \cup {None} /\ c.replaced \in SUBSET c.replaced
    BY <1>1, <1>4, <2>1
  <2>3. e = [c EXCEPT !.slot = slots]
    BY <1>1, <1>4, <2>1 DEF RankEnsured
  <2> HIDE DEF c
  <2>4. [c EXCEPT !.slot = slots] = f
    BY <2>1 DEF DeviceOK, Devices
  <2>5. DeviceOK(f)
    BY <2>1, <2>2, WrittenOK
  <2>6. /\ \A l \in c.replaced : slots[l].adapter = IF l \in Targets[c.active] THEN c.active ELSE None
        /\ \A l \in Layers \ c.replaced : slots[l] = Nothing
    BY <2>1, <2>2, SlotsWithOK
  <2> HIDE DEF slots
  <2>7. f.active = c.active /\ f.max_rank = r /\ f.replaced = c.replaced /\ f.rank = c.rank /\ f.slot = slots
    BY <2>1 DEF DeviceOK, Devices
  <2> HIDE DEF e, f
  <2>8. e.max_rank >= r /\ e.max_rank >= d.max_rank /\ ~(r <= d.max_rank)
    <3>1. e.max_rank = r
      BY <2>3, <2>4, <2>7
    <3>. QED BY <1>1, <1>4, <3>1
  <2>9. \A l \in Layers :
          e.slot[l].adapter = IF d.active # None /\ l \in d.replaced /\ l \in Targets[d.active]
                              THEN d.active ELSE None
    BY <1>4, <2>1, <2>3, <2>4, <2>6, <2>7, NothingTypes
  <2>. QED BY <1>4, <2>1, <2>3, <2>4, <2>5, <2>7, <2>8, <2>9 DEF e
<1>. QED BY <1>1, <1>2, <1>3, <1>4


(* What agrees with more adapters agrees with fewer.                       *)
LEMMA FewerAgree ==
  ASSUME NEW d, NEW reg, NEW fewer \in SUBSET reg, DeviceAgrees(d, reg)
  PROVE  DeviceAgrees(d, fewer)
BY DEF DeviceAgrees

(* Deactivating agrees with every adapter it agreed with before.           *)
LEMMA DeactivatedAgrees ==
  ASSUME NEW d, DeviceOK(d), NEW reg, DeviceAgrees(d, reg)
  PROVE  DeviceAgrees(Deactivated(d), reg)
<1> DEFINE e == Deactivated(d)
<1>1. /\ e.active = None /\ e.max_rank = d.max_rank /\ e.replaced = d.replaced /\ e.rank = d.rank
      /\ \A l \in Layers : e.slot[l].adapter = None
  BY DeactivatedOK, NothingTypes
<1> HIDE DEF e
<1>2. DeviceAgrees(e, reg)
  BY <1>1 DEF DeviceAgrees
<1>. QED BY <1>2 DEF e

(* Activating an adapter all whose layers are replaced.                    *)
LEMMA ActivatedAgrees ==
  ASSUME NEW d, DeviceOK(d), NEW reg \in SUBSET Adapters, DeviceAgrees(d, reg), NEW a \in reg,
         NEW scale \in Scales \cup {None}
  PROVE  DeviceAgrees(Activated(d, a, scale), reg)
<1> DEFINE e == Activated(d, a, scale)
<1>1. CASE d.active = a
  BY <1>1 DEF Activated
<1>2. CASE d.active # a
  <2>1. /\ e.active = a /\ e.max_rank = d.max_rank /\ e.replaced = d.replaced /\ e.rank = d.rank
        /\ e.slot = SlotsWith(d, a, scale, d.replaced)
    BY <1>2, ActivatedOK
  <2>2. /\ \A l \in Layers \ d.replaced : SlotsWith(d, a, scale, d.replaced)[l] = Nothing
        /\ \A l \in d.replaced : SlotsWith(d, a, scale, d.replaced)[l].adapter =
                                   IF l \in Targets[a] THEN a ELSE None
    BY SlotsWithOK
  <2>3. Targets[a] \subseteq d.replaced /\ a # None
    BY LoRAAssumption DEF DeviceAgrees
  <2> HIDE DEF e
  <2>4. \A l \in Layers : e.slot[l].adapter = IF l \in Targets[a] THEN a ELSE None
    BY <2>1, <2>2, <2>3, NothingTypes
  <2>5. DeviceAgrees(e, reg)
    BY <2>1, <2>3, <2>4 DEF DeviceAgrees
  <2>. QED BY <2>5 DEF e
<1>. QED BY <1>1, <1>2

(* Making room for one more adapter.                                       *)
LEMMA RankEnsuredAgrees ==
  ASSUME NEW d, DeviceOK(d), NEW r \in Nat \ {0}, scales \in [Adapters -> Scales \cup {None}],
         NEW reg \in SUBSET Adapters, DeviceAgrees(d, reg), d.active \in reg \cup {None}
  PROVE  DeviceAgrees(RankEnsured(d, r), reg)
<1> DEFINE e == RankEnsured(d, r)
<1>0. d.max_rank \in Nat /\ d.replaced \in SUBSET Layers /\ \A a \in reg : Rank[a] \in Nat
  BY DeviceFields, LoRAAssumption
<1>1. CASE r <= d.max_rank
  BY <1>1, RankEnsuredOK
<1>2. CASE ~(r <= d.max_rank)
  <2>0. r > d.max_rank
    BY <1>0, <1>2
  <2>1. /\ e.active = d.active /\ e.replaced = d.replaced /\ e.max_rank = r
        /\ \A l \in e.replaced : e.rank[l] = r
        /\ \A l \in Layers :
             e.slot[l].adapter = IF d.active # None /\ l \in d.replaced /\ l \in Targets[d.active]
                                 THEN d.active ELSE None
    BY <2>0, RankEnsuredOK
  <2> HIDE DEF e
  <2>2. \A a \in reg : Rank[a] <= r /\ Targets[a] \subseteq d.replaced
    BY <1>0, <2>0 DEF DeviceAgrees
  <2>3. \A l \in Layers : d.active # None /\ l \in Targets[d.active] => l \in d.replaced
    BY <2>2
  <2>4. DeviceAgrees(e, reg)
    BY <2>1, <2>2, <2>3 DEF DeviceAgrees
  <2>. QED BY <2>4 DEF e
<1>. QED BY <1>1, <1>2

(* Replacing the layers one more adapter needs.                            *)
LEMMA WithLayersAgrees ==
  ASSUME NEW d, DeviceOK(d), d.max_rank > 0, NEW a \in Adapters, Rank[a] <= d.max_rank,
         NEW reg \in SUBSET Adapters, DeviceAgrees(d, reg)
  PROVE  /\ DeviceOK(WithLayers(d, NewLayers(d, a)))
         /\ WithLayers(d, NewLayers(d, a)).active = d.active
         /\ DeviceAgrees(WithLayers(d, NewLayers(d, a)), reg \cup {a})
<1> DEFINE new == NewLayers(d, a)
           e == WithLayers(d, new)
<1>1. new \in SUBSET Layers /\ Targets[a] \subseteq d.replaced \cup new /\ d.replaced \in SUBSET Layers
  BY LoRAAssumption, DeviceFields DEF NewLayers
<1> HIDE DEF new
<1>2. /\ DeviceOK(e) /\ e.active = d.active /\ e.max_rank = d.max_rank
      /\ e.replaced = d.replaced \cup new /\ e.slot = d.slot
      /\ \A l \in Layers : e.rank[l] = IF l \in new THEN d.max_rank ELSE d.rank[l]
  BY <1>1, WithLayersOK
<1> HIDE DEF e
<1>3. \A l \in e.replaced : e.rank[l] = e.max_rank
  BY <1>1, <1>2 DEF DeviceAgrees
<1>4. \A b \in reg \cup {a} : Rank[b] <= e.max_rank /\ Targets[b] \subseteq e.replaced
  BY <1>1, <1>2 DEF DeviceAgrees
<1>5. DeviceAgrees(e, reg \cup {a})
  BY <1>2, <1>3, <1>4 DEF DeviceAgrees
<1>. QED BY <1>2, <1>5 DEF e, new

-----------------------------------------------------------------------------
(* The order.                                                              *)

(* Touching moves an adapter to the end.                                   *)
LEMMA TouchedOK ==
  ASSUME NEW s \in Seq(Adapters), NEW a \in Adapters
  PROVE  /\ Touched(s, a) \in Seq(Adapters)
         /\ Elements(Touched(s, a)) = Elements(s) \cup {a}
         /\ Distinct(s) => Distinct(Touched(s, a))
<1> DEFINE w == Without(s, {a})
<1>1. w \in Seq(Adapters) /\ Elements(w) = Elements(s) \ {a} /\ (Distinct(s) => Distinct(w))
  BY WithoutElements
<1> HIDE DEF w
<1>2. /\ Append(w, a) \in Seq(Adapters)
      /\ Elements(Append(w, a)) = Elements(w) \cup {a}
      /\ Distinct(Append(w, a)) <=> Distinct(w) /\ a \notin Elements(w)
  BY <1>1, ElementsAppend, AppendProperties
<1>3. Touched(s, a) = Append(w, a)
  BY DEF Touched, w
<1>. QED BY <1>1, <1>2, <1>3

(* Touching what is not there appends it.                                  *)
LEMMA TouchedNew ==
  ASSUME NEW s \in Seq(Adapters), NEW a \in Adapters, a \notin Elements(s)
  PROVE  Touched(s, a) = Append(s, a)
<1>1. Without(s, {a}) = s
  BY WithoutNothing
<1>. QED BY <1>1 DEF Touched

(* What is evicted: unpinned, in the order, before all other unpinned      *)
(* ones, and as many as are too many or all the unpinned ones.             *)
LEMMA EvictedOK ==
  ASSUME NEW order \in Seq(Adapters), Distinct(order), NEW over \in Int
  PROVE  LET gone == Evicted(order, over)
         IN  /\ gone \subseteq Elements(order) \ pinned
             /\ IsFiniteSet(gone)
             /\ over <= Cardinality(gone) \/ gone = Elements(order) \ pinned
             /\ \A i, j \in 1..Len(order) :
                  order[i] \in gone /\ order[j] \notin gone \cup pinned => i < j
<1> DEFINE c == Without(order, pinned)
           n == IF over < Len(c) THEN over ELSE Len(c)
           gone == {c[i] : i \in 1..n}
<1>1. c \in Seq(Adapters) /\ Elements(c) = Elements(order) \ pinned /\ Distinct(c)
  BY WithoutElements
<1>2. InOrderOf(c, order)
  BY WithoutOrder
<1>3. gone = Evicted(order, over)
  BY DEF Evicted
<1> HIDE DEF c
<1>4. Len(c) \in Nat /\ n \in Int /\ n <= Len(c) /\ (n = over \/ n = Len(c))
  BY <1>1, LenProperties
<1>5. gone \subseteq Elements(c)
  BY <1>4 DEF Elements
<1>6. IsFiniteSet(gone)
  BY <1>1, <1>5, DistinctLength, FS_Subset
<1>7. over <= Cardinality(gone) \/ gone = Elements(c)
  <2>1. CASE n = Len(c)
    BY <2>1 DEF Elements
  <2>2. CASE n = over /\ n <= 0
    <3>1. gone = {}
      BY <2>2
    <3>2. Cardinality(gone) = 0
      BY <3>1, FS_EmptySet
    <3>. QED BY <2>2, <3>2
  <2>3. CASE n = over /\ n > 0
    <3> DEFINE p == SubSeq(c, 1, n)
    <3> HIDE DEF gone, n
    <3>1. n \in Nat /\ 1 <= n + 1 /\ 1 \in 1..Len(c) + 1 /\ n \in (1 - 1)..Len(c)
      BY <1>4, <2>3
    <3>2. p \in Seq(Adapters) /\ Len(p) = n /\ \A i \in 1..n : p[i] = c[i]
      <4>1. /\ SubSeq(c, 1, n) \in Seq(Adapters)
            /\ Len(SubSeq(c, 1, n)) = n
            /\ \A i \in 1..n : SubSeq(c, 1, n)[i] = c[i]
        BY <1>1, <1>4, <2>3, <3>1
      <4>. QED BY <4>1
    <3> HIDE DEF p
    <3>3. Elements(p) = gone
      BY <3>2 DEF Elements, gone
    <3>4. Distinct(p)
      <4>1. \A i \in 1..n : i \in 1..Len(c)
        BY <1>4, <3>1
      <4>. QED BY <1>1, <3>2, <4>1 DEF Distinct
    <3>5. Cardinality(gone) = n
      BY <3>2, <3>3, <3>4, DistinctLength
    <3>. QED BY <2>3, <3>1, <3>5
  <2>4. n = Len(c) \/ (n = over /\ n <= 0) \/ (n = over /\ n > 0)
    <3> HIDE DEF n
    <3>. QED BY <1>4
  <2> HIDE DEF n, gone
  <2>. QED BY <2>1, <2>2, <2>3, <2>4
<1>8. ASSUME NEW i \in 1..Len(order), NEW j \in 1..Len(order),
             order[i] \in gone, order[j] \notin gone \cup pinned
      PROVE  i < j
  <2>1. PICK k \in 1..n : order[i] = c[k]
    BY <1>8
  <2>2. order[j] \in Elements(c)
    BY <1>1, <1>8 DEF Elements
  <2>3. PICK m \in 1..Len(c) : order[j] = c[m]
    BY <2>2 DEF Elements
  <2>4. m \notin 1..n
    BY <1>8, <2>3
  <2>5. k \in 1..Len(c) /\ k < m
    BY <1>4, <2>1, <2>3, <2>4
  <2>. QED BY <1>2, <2>1, <2>3, <2>5 DEF InOrderOf
<1> HIDE DEF gone
<1>. QED BY <1>1, <1>3, <1>5, <1>6, <1>7, <1>8


-----------------------------------------------------------------------------
(* The invariant.                                                          *)

LoRAInv == LoRATypeOK /\ TablesAgree /\ CacheBounded /\ LayersAgree /\ RanAgrees

(* The parts of the type invariant.                                        *)
LEMMA LoRATypes ==
  LoRATypeOK <=>
    /\ registered \in SUBSET Adapters /\ pinned \in SUBSET Adapters
    /\ scales \in [Adapters -> Scales \cup {None}]
    /\ access_order \in Seq(Adapters)
    /\ DeviceOK(device)
    /\ generated \in [ran : BOOLEAN, adapter : Adapters \cup {None}, scale : Scales \cup {None}]
    /\ faults \in Nat
BY DEF LoRATypeOK, DeviceOK

(* And after a step.                                                       *)
LEMMA LoRATypesNext ==
  LoRATypeOK' <=>
    /\ registered' \in SUBSET Adapters /\ pinned' \in SUBSET Adapters
    /\ scales' \in [Adapters -> Scales \cup {None}]
    /\ access_order' \in Seq(Adapters)
    /\ DeviceOK(device')
    /\ generated' \in [ran : BOOLEAN, adapter : Adapters \cup {None}, scale : Scales \cup {None}]
    /\ faults' \in Nat
BY DEF LoRATypeOK, DeviceOK

(* What a call reports.                                                    *)
LEMMA GeneratedTypes ==
  ASSUME NEW a \in Adapters, NEW scale \in Scales
  PROVE  /\ NotRun \in [ran : BOOLEAN, adapter : Adapters \cup {None}, scale : Scales \cup {None}]
         /\ ~NotRun.ran
         /\ Ran(a, scale) \in [ran : BOOLEAN, adapter : Adapters \cup {None}, scale : Scales \cup {None}]
         /\ Ran(None, None) \in [ran : BOOLEAN, adapter : Adapters \cup {None}, scale : Scales \cup {None}]
         /\ Ran(a, scale).adapter = a /\ Ran(None, None).adapter = None /\ a # None
BY LoRAAssumption DEF NotRun, Ran

(* Initially.                                                              *)
LEMMA LoRAInitInv == LoRAInit => LoRAInv
<1> SUFFICES ASSUME LoRAInit PROVE LoRAInv
  OBVIOUS
<1>1. DeviceOK(device)
  BY NothingTypes DEF LoRAInit, DeviceOK, Devices
<1>2. NotRun \in [ran : BOOLEAN, adapter : Adapters \cup {None}, scale : Scales \cup {None}] /\ ~NotRun.ran
  BY DEF NotRun
<1>3. Elements(access_order) = {} /\ Distinct(access_order)
  BY DEF LoRAInit, Elements, Distinct
<1>4. LoRATypeOK
  BY <1>1, <1>2, LoRATypes DEF LoRAInit
<1>5. TablesAgree
  BY <1>3 DEF LoRAInit, TablesAgree
<1>6. CacheBounded
  BY <1>3, FS_EmptySet, LoRAAssumption DEF LoRAInit, CacheBounded
<1>7. LayersAgree
  BY NothingTypes DEF LoRAInit, LayersAgree, DeviceAgrees
<1>8. RanAgrees
  BY <1>2 DEF LoRAInit, RanAgrees
<1>. QED BY <1>4, <1>5, <1>6, <1>7, <1>8 DEF LoRAInv

(* What add_adapter evicts is unpinned and in the order.                   *)
LEMMA GoneOK ==
  ASSUME LoRATypeOK, TablesAgree, NEW a \in Adapters \ registered
  PROVE  /\ Touched(access_order, a) \in Seq(Adapters)
         /\ Elements(Touched(access_order, a)) = Elements(access_order) \cup {a}
         /\ Distinct(Touched(access_order, a))
         /\ Touched(access_order, a) = Append(access_order, a)
         /\ Gone(a) \subseteq (Elements(access_order) \cup {a}) \ pinned
         /\ IsFiniteSet(Gone(a)) /\ IsFiniteSet(registered)
         /\ \/ Cardinality(registered \cup {a}) - MaxCached <= Cardinality(Gone(a))
            \/ Gone(a) = (Elements(access_order) \cup {a}) \ pinned
         /\ \A i, j \in 1..Len(Touched(access_order, a)) :
              /\ Touched(access_order, a)[i] \in Gone(a)
              /\ Touched(access_order, a)[j] \notin Gone(a) \cup pinned
              => i < j
<1> DEFINE order == Touched(access_order, a)
           over == Cardinality(registered \cup {a}) - MaxCached
<1>1. registered \in SUBSET Adapters /\ access_order \in Seq(Adapters)
  BY LoRATypes
<1>2. IsFiniteSet(registered) /\ IsFiniteSet(registered \cup {a})
  BY <1>1, LoRAAssumption, FS_Subset, FS_AddElement
<1>3. over \in Int
  BY <1>2, LoRAAssumption, FS_CardinalityType
<1>4. Distinct(access_order) /\ a \notin Elements(access_order)
  BY DEF TablesAgree
<1>5. /\ order \in Seq(Adapters) /\ Elements(order) = Elements(access_order) \cup {a} /\ Distinct(order)
      /\ order = Append(access_order, a)
  BY <1>1, <1>4, TouchedOK, TouchedNew
<1>6. Gone(a) = Evicted(order, over)
  BY DEF Gone
<1> HIDE DEF order, over
<1>7. /\ Gone(a) \subseteq Elements(order) \ pinned
      /\ IsFiniteSet(Gone(a))
      /\ over <= Cardinality(Gone(a)) \/ Gone(a) = Elements(order) \ pinned
      /\ \A i, j \in 1..Len(order) :
           order[i] \in Gone(a) /\ order[j] \notin Gone(a) \cup pinned => i < j
  <2> DEFINE gone == Evicted(order, over)
  <2>1. /\ gone \subseteq Elements(order) \ pinned
        /\ IsFiniteSet(gone)
        /\ over <= Cardinality(gone) \/ gone = Elements(order) \ pinned
        /\ \A i, j \in 1..Len(order) :
             order[i] \in gone /\ order[j] \notin gone \cup pinned => i < j
    BY <1>3, <1>5, EvictedOK
  <2> HIDE DEF gone
  <2>2. Gone(a) = gone
    BY <1>6 DEF gone
  <2>. QED BY <2>1, <2>2
<1>. QED BY <1>2, <1>5, <1>7 DEF order, over

(* The device after an adapter was added.                                  *)
LEMMA AddedDeviceOK ==
  ASSUME LoRATypeOK, TablesAgree, LayersAgree, NEW a \in Adapters
  PROVE  /\ DeviceOK(AddedDevice(a))
         /\ AddedDevice(a).active \in {device.active, None}
         /\ AddedDevice(a).active \notin Gone(a) \/ AddedDevice(a).active = None
         /\ faults = 0 => DeviceAgrees(AddedDevice(a), registered \cup {a})
<1> DEFINE d == RankEnsured(device, Rank[a])
           w == WithLayers(d, NewLayers(d, a))
<1>1. /\ DeviceOK(device) /\ scales \in [Adapters -> Scales \cup {None}] /\ registered \in SUBSET Adapters
      /\ device.active \in registered \cup {None} /\ Rank[a] \in Nat \ {0}
      /\ device.max_rank \in Nat
  BY LoRATypes, LoRAAssumption, DeviceFields DEF TablesAgree
<1>2. DeviceOK(d) /\ d.active = device.active /\ d.max_rank >= Rank[a]
  BY <1>1, RankEnsuredOK
<1>3. faults = 0 => DeviceAgrees(d, registered)
  BY <1>1, RankEnsuredAgrees DEF LayersAgree
<1> HIDE DEF d
<1>4. d.max_rank > 0 /\ Rank[a] <= d.max_rank
  <2>1. d.max_rank \in Nat
    BY <1>2, DeviceFields
  <2>. QED BY <1>1, <1>2, <2>1
<1>5. NewLayers(d, a) \in SUBSET Layers
  BY LoRAAssumption DEF NewLayers
<1>6. DeviceOK(w) /\ w.active = device.active
  BY <1>2, <1>4, <1>5, WithLayersOK
<1>7. faults = 0 => DeviceAgrees(w, registered \cup {a})
  BY <1>1, <1>2, <1>3, <1>4, WithLayersAgrees
<1>8. AddedDevice(a) = IF w.active \in Gone(a) THEN Deactivated(w) ELSE w
  BY <1>2, <1>6 DEF AddedDevice, d
<1> HIDE DEF w
<1>9. /\ DeviceOK(Deactivated(w)) /\ Deactivated(w).active = None
      /\ faults = 0 => DeviceAgrees(Deactivated(w), registered \cup {a})
  BY <1>6, <1>7, DeactivatedOK, DeactivatedAgrees
<1>. QED BY <1>6, <1>7, <1>8, <1>9


-----------------------------------------------------------------------------
(* The steps.                                                              *)

(* What the tables are after a step.                                       *)
TablesAfter ==
  /\ registered' \in SUBSET Adapters /\ pinned' \in SUBSET Adapters
  /\ scales' \in [Adapters -> Scales \cup {None}]
  /\ access_order' \in Seq(Adapters)
  /\ registered' = {x \in Adapters : scales'[x] # None}
  /\ Elements(access_order') \subseteq registered' /\ Distinct(access_order')
  /\ pinned' \subseteq Elements(access_order')
  /\ Cardinality(registered' \ Elements(access_order')) <= faults'
  /\ Cardinality(registered') <= MaxCached + faults'

(* And the device, if the call did not run, or ran with the adapter.       *)
DeviceAfter ==
  /\ DeviceOK(device')
  /\ device'.active \in registered' \cup {None}
  /\ faults' = 0 => DeviceAgrees(device', registered')

(* They make up the invariant.                                             *)
LEMMA AfterInv ==
  ASSUME TablesAfter, DeviceAfter, faults' \in Nat,
         generated' \in [ran : BOOLEAN, adapter : Adapters \cup {None}, scale : Scales \cup {None}],
         generated'.ran /\ generated'.adapter # None => generated'.adapter = device'.active,
         generated'.ran /\ generated'.adapter = None => \A l \in Layers : device'.slot[l].adapter = None
  PROVE  LoRAInv'
<1>1. LoRATypeOK'
  BY LoRATypesNext DEF TablesAfter, DeviceAfter
<1>2. TablesAgree'
  BY DEF TablesAfter, DeviceAfter, TablesAgree
<1>3. CacheBounded'
  BY DEF TablesAfter, CacheBounded
<1>4. LayersAgree'
  BY DEF DeviceAfter, LayersAgree
<1>5. RanAgrees'
  BY DEF RanAgrees
<1>. QED BY <1>1, <1>2, <1>3, <1>4, <1>5 DEF LoRAInv

(* A call that does not run.                                               *)
LEMMA NotRunInv ==
  ASSUME TablesAfter, DeviceAfter, faults' \in Nat, generated' = NotRun
  PROVE  LoRAInv'
<1>1. NotRun \in [ran : BOOLEAN, adapter : Adapters \cup {None}, scale : Scales \cup {None}] /\ ~NotRun.ran
  BY DEF NotRun
<1>. QED BY <1>1, AfterInv

(* Tables that stay as they are.                                           *)
LEMMA TablesStay ==
  ASSUME LoRAInv, UNCHANGED cacheVars, faults' \in Nat, faults' >= faults
  PROVE  TablesAfter
<1>1. faults \in Nat /\ registered \in SUBSET Adapters /\ MaxCached \in Nat
  BY LoRATypes, LoRAAssumption DEF LoRAInv
<1>2. IsFiniteSet(registered) /\ IsFiniteSet(registered \ Elements(access_order))
  BY <1>1, LoRAAssumption, FS_Subset
<1>3. Cardinality(registered) \in Nat /\ Cardinality(registered \ Elements(access_order)) \in Nat
  BY <1>2, FS_CardinalityType
<1>4. /\ registered' = registered /\ scales' = scales /\ access_order' = access_order /\ pinned' = pinned
  BY DEF cacheVars
<1>5. /\ Cardinality(registered \ Elements(access_order)) <= faults'
      /\ Cardinality(registered) <= MaxCached + faults'
  BY <1>1, <1>3 DEF LoRAInv, CacheBounded
<1>. QED BY <1>4, <1>5, LoRATypes DEF LoRAInv, TablesAgree, TablesAfter

(* Registering an adapter, which may evict it again.                       *)
LEMMA RegisterTables ==
  ASSUME LoRAInv, NEW a \in Adapters \ registered, NEW scale \in Scales, Register(a, scale),
         faults' \in Nat, faults' >= faults
  PROVE  /\ TablesAfter
         /\ registered' = (registered \cup {a}) \ Gone(a)
<1> DEFINE gone == Gone(a)
           order == Touched(access_order, a)
           rest == Without(order, gone)
<1>0. /\ LoRATypeOK /\ TablesAgree /\ CacheBounded
      /\ faults \in Nat /\ registered \in SUBSET Adapters /\ pinned \in SUBSET Adapters
      /\ scales \in [Adapters -> Scales \cup {None}] /\ access_order \in Seq(Adapters)
      /\ MaxCached \in Nat /\ None \notin Scales
  BY LoRATypes, LoRAAssumption DEF LoRAInv
<1>1. /\ order \in Seq(Adapters)
      /\ Elements(order) = Elements(access_order) \cup {a}
      /\ Distinct(order)
      /\ gone \subseteq (Elements(access_order) \cup {a}) \ pinned
      /\ IsFiniteSet(gone) /\ IsFiniteSet(registered)
      /\ \/ Cardinality(registered \cup {a}) - MaxCached <= Cardinality(gone)
         \/ gone = (Elements(access_order) \cup {a}) \ pinned
  BY <1>0, GoneOK
<1>2. /\ registered' = (registered \cup {a}) \ gone
      /\ access_order' = rest
      /\ pinned' = pinned \ gone
      /\ scales' = [x \in Adapters |-> IF x \in gone THEN None ELSE IF x = a THEN scale ELSE scales[x]]
  BY DEF Register
<1> HIDE DEF gone, order
<1>3. rest \in Seq(Adapters) /\ Elements(rest) = (Elements(access_order) \cup {a}) \ gone /\ Distinct(rest)
  BY <1>1, WithoutElements
<1> HIDE DEF rest
<1>4. /\ registered = {x \in Adapters : scales[x] # None}
      /\ Elements(access_order) \subseteq registered
      /\ pinned \subseteq Elements(access_order)
  BY <1>0 DEF TablesAgree
<1>5. registered' = {x \in Adapters : scales'[x] # None}
  BY <1>0, <1>2, <1>4
<1>6. scales' \in [Adapters -> Scales \cup {None}]
  BY <1>0, <1>2
<1>7. gone \subseteq registered \cup {a} /\ a \notin pinned
  BY <1>1, <1>4
<1>8. Cardinality(registered' \ Elements(access_order')) <= faults'
  <2>1. registered' \ Elements(access_order') \subseteq registered \ Elements(access_order)
    BY <1>2, <1>3
  <2>2. IsFiniteSet(registered \ Elements(access_order))
    BY <1>1, FS_Subset
  <2>3. /\ Cardinality(registered' \ Elements(access_order')) <= Cardinality(registered \ Elements(access_order))
        /\ Cardinality(registered' \ Elements(access_order')) \in Nat
        /\ Cardinality(registered \ Elements(access_order)) \in Nat
    BY <2>1, <2>2, FS_Subset, FS_CardinalityType
  <2>4. Cardinality(registered \ Elements(access_order)) <= faults
    BY <1>0 DEF CacheBounded
  <2>. QED BY <1>0, <2>3, <2>4
<1>9. Cardinality(registered') <= MaxCached + faults'
  <2> DEFINE more == registered \cup {a}
  <2>1. IsFiniteSet(more) /\ Cardinality(more) = Cardinality(registered) + 1
    BY <1>1, FS_AddElement
  <2>2. Cardinality(registered) \in Nat /\ Cardinality(more) \in Nat /\ Cardinality(gone) \in Nat
    BY <1>1, <2>1, FS_CardinalityType
  <2>3. Cardinality(registered) <= MaxCached + faults
    BY <1>0 DEF CacheBounded
  <2>4. CASE Cardinality(more) - MaxCached <= Cardinality(gone)
    <3> HIDE DEF more
    <3>1. Cardinality(more) = Cardinality(more \ gone) + Cardinality(gone) /\ Cardinality(more \ gone) \in Nat
      <4>1. gone \in SUBSET more
        BY <1>7 DEF more
      <4>2. Cardinality(more \ gone) = Cardinality(more) - Cardinality(more \cap gone) /\ IsFiniteSet(more \ gone)
        BY <2>1, FS_Difference, FS_Intersection, <1>1
      <4>3. more \cap gone = gone
        BY <4>1
      <4>4. Cardinality(more \ gone) \in Nat
        BY <4>2, FS_CardinalityType
      <4>5. Cardinality(more \ gone) = Cardinality(more) - Cardinality(gone)
        BY <4>2, <4>3
      <4>. QED BY <2>2, <4>4, <4>5
    <3>2. registered' = more \ gone
      BY <1>2 DEF more
    <3>3. Cardinality(more \ gone) <= MaxCached
      BY <2>2, <2>4, <3>1, <1>0
    <3>. QED BY <1>0, <3>1, <3>2, <3>3
  <2>5. CASE gone = (Elements(access_order) \cup {a}) \ pinned
    <3>1. registered' \subseteq registered
      BY <1>2, <1>7, <2>5
    <3>2. Cardinality(registered') <= Cardinality(registered) /\ Cardinality(registered') \in Nat
      BY <1>1, <3>1, FS_Subset, FS_CardinalityType
    <3>. QED BY <1>0, <2>2, <2>3, <3>2
  <2>. QED BY <1>1, <2>4, <2>5
<1>10. /\ registered' \in SUBSET Adapters /\ pinned' \in SUBSET Adapters /\ access_order' \in Seq(Adapters)
       /\ Elements(access_order') \subseteq registered' /\ Distinct(access_order')
       /\ pinned' \subseteq Elements(access_order')
  BY <1>0, <1>2, <1>3, <1>4
<1>. QED BY <1>2, <1>5, <1>6, <1>8, <1>9, <1>10 DEF TablesAfter, gone


(* Adding an adapter.                                                      *)
LEMMA AddedAfter ==
  ASSUME LoRAInv, NEW a \in Adapters \ registered, NEW scale \in Scales, Register(a, scale),
         faults' = faults
  PROVE  /\ TablesAfter /\ faults' \in Nat
         /\ registered' = (registered \cup {a}) \ Gone(a)
         /\ DeviceOK(AddedDevice(a))
         /\ AddedDevice(a).active \in registered' \cup {None}
         /\ faults' = 0 => DeviceAgrees(AddedDevice(a), registered')
<1>1. /\ faults \in Nat /\ LoRATypeOK /\ TablesAgree /\ LayersAgree
      /\ device.active \in registered \cup {None}
  BY LoRATypes DEF LoRAInv, TablesAgree
<1>2. TablesAfter /\ registered' = (registered \cup {a}) \ Gone(a)
  BY <1>1, RegisterTables
<1>3. /\ DeviceOK(AddedDevice(a))
      /\ AddedDevice(a).active \in {device.active, None}
      /\ AddedDevice(a).active \notin Gone(a) \/ AddedDevice(a).active = None
      /\ faults = 0 => DeviceAgrees(AddedDevice(a), registered \cup {a})
  BY <1>1, AddedDeviceOK
<1>4. faults' = 0 => DeviceAgrees(AddedDevice(a), registered')
  <2>1. registered' \in SUBSET (registered \cup {a})
    BY <1>2
  <2>. QED BY <1>3, <2>1, FewerAgree
<1>. QED BY <1>1, <1>2, <1>3, <1>4

(* Activating an adapter of the cache and running with it.                 *)
LEMMA ActivateAndRunInv ==
  ASSUME NEW d, NEW a \in Adapters, NEW scale \in Scales, ActivateAndRun(d, a, scale),
         TablesAfter, faults' \in Nat, a \in registered', DeviceOK(d),
         faults' = 0 => DeviceAgrees(d, registered')
  PROVE  LoRAInv'
<1>1. device' = Activated(d, a, scale) /\ generated' = Ran(a, scale)
  BY DEF ActivateAndRun
<1>2. DeviceOK(device') /\ device'.active = a
  BY <1>1, ActivatedOK
<1>3. faults' = 0 => DeviceAgrees(device', registered')
  <2>1. registered' \in SUBSET Adapters
    BY DEF TablesAfter
  <2>. QED BY <1>1, <2>1, ActivatedAgrees
<1>4. DeviceAfter
  BY <1>2, <1>3 DEF DeviceAfter
<1>. QED BY <1>1, <1>2, <1>4, AfterInv, GeneratedTypes

(* set_lora raises for a layer.                                            *)
LEMMA ActivateRaisesInv ==
  ASSUME NEW d, NEW a \in Adapters, NEW scale \in Scales, ActivateRaises(d, a, scale),
         TablesAfter, faults \in Nat, DeviceOK(d), d.active \in registered' \cup {None}
  PROVE  LoRAInv'
<1>1. PICK done \in SUBSET d.replaced : device' = [d EXCEPT !.slot = SlotsWith(d, a, scale, done)]
  BY DEF ActivateRaises
<1>2. generated' = NotRun /\ faults' \in Nat /\ faults' # 0
  BY DEF ActivateRaises, Fault
<1>3. DeviceOK(device') /\ device'.active = d.active
  <2> DEFINE slots == SlotsWith(d, a, scale, done)
             e == [d EXCEPT !.active = d.active, !.slot = slots]
  <2>1. d.active \in Adapters \cup {None}
    BY DeviceFields
  <2>2. DeviceOK(e)
    BY <2>1, WrittenOK
  <2> HIDE DEF slots
  <2>3. [d EXCEPT !.slot = slots] = e /\ e.active = d.active
    BY DEF DeviceOK, Devices
  <2>. QED BY <1>1, <2>2, <2>3 DEF slots
<1>4. DeviceAfter
  BY <1>2, <1>3 DEF DeviceAfter
<1>. QED BY <1>2, <1>4, NotRunInv

(* add_lora.                                                               *)
LEMMA AddLoraInv ==
  ASSUME LoRAInv, NEW a \in Adapters, NEW scale \in Scales, AddLora(a, scale)
  PROVE  LoRAInv'
<1>1. /\ a \in Adapters \ registered /\ Register(a, scale) /\ device' = AddedDevice(a)
      /\ generated' = NotRun /\ faults' = faults
  BY DEF AddLora
<1>2. /\ TablesAfter /\ faults' \in Nat /\ DeviceOK(device')
      /\ device'.active \in registered' \cup {None}
      /\ faults' = 0 => DeviceAgrees(device', registered')
  BY <1>1, AddedAfter
<1>3. DeviceAfter
  BY <1>2 DEF DeviceAfter
<1>. QED BY <1>1, <1>2, <1>3, NotRunInv

(* A request whose adapter is not in the cache.                            *)
LEMMA GenerateLoadsInv ==
  ASSUME LoRAInv, NEW a \in Adapters, NEW scale \in Scales, GenerateLoads(a, scale)
  PROVE  LoRAInv'
<1>1. a \in Adapters \ registered /\ Register(a, scale) /\ faults \in Nat
  BY LoRATypes DEF GenerateLoads, LoRAInv
<1>2. CASE a \in Gone(a) /\ device' = AddedDevice(a) /\ generated' = NotRun /\ faults' = faults
  <2>1. /\ TablesAfter /\ faults' \in Nat /\ DeviceOK(device')
        /\ device'.active \in registered' \cup {None}
        /\ faults' = 0 => DeviceAgrees(device', registered')
    BY <1>1, <1>2, AddedAfter
  <2>2. DeviceAfter
    BY <2>1 DEF DeviceAfter
  <2>. QED BY <1>2, <2>1, <2>2, NotRunInv
<1>3. CASE a \notin Gone(a) /\ ActivateAndRun(AddedDevice(a), a, scale)
  <2>1. faults' = faults
    BY <1>3 DEF ActivateAndRun
  <2>2. /\ TablesAfter /\ faults' \in Nat /\ registered' = (registered \cup {a}) \ Gone(a)
        /\ DeviceOK(AddedDevice(a))
        /\ faults' = 0 => DeviceAgrees(AddedDevice(a), registered')
    BY <1>1, <2>1, AddedAfter
  <2>3. a \in registered'
    BY <1>3, <2>2
  <2>. QED BY <1>3, <2>2, <2>3, ActivateAndRunInv
<1>4. CASE a \notin Gone(a) /\ ActivateRaises(AddedDevice(a), a, scale)
  <2>1. faults' \in Nat /\ faults' >= faults
    BY <1>1, <1>4 DEF ActivateRaises, Fault
  <2>2. TablesAfter /\ registered' = (registered \cup {a}) \ Gone(a)
    BY <1>1, <2>1, RegisterTables
  <2>3. /\ DeviceOK(AddedDevice(a))
        /\ AddedDevice(a).active \in {device.active, None}
        /\ AddedDevice(a).active \notin Gone(a) \/ AddedDevice(a).active = None
        /\ device.active \in registered \cup {None}
    BY AddedDeviceOK DEF LoRAInv, TablesAgree
  <2>4. AddedDevice(a).active \in registered' \cup {None}
    BY <2>2, <2>3
  <2>. QED BY <1>1, <1>4, <2>2, <2>3, <2>4, ActivateRaisesInv
<1>. QED BY <1>2, <1>3, <1>4 DEF GenerateLoads

(* A registered adapter that is touched.                                   *)
LEMMA TouchTables ==
  ASSUME LoRAInv, NEW a \in registered, registered' = registered,
         access_order' = Touched(access_order, a),
         pinned' \in {pinned, pinned \cup {a}},
         scales' \in [Adapters -> Scales \cup {None}],
         registered = {x \in Adapters : scales'[x] # None},
         faults' \in Nat, faults' >= faults
  PROVE  TablesAfter
<1>1. /\ faults \in Nat /\ registered \in SUBSET Adapters /\ pinned \in SUBSET Adapters
      /\ access_order \in Seq(Adapters) /\ MaxCached \in Nat
  BY LoRATypes, LoRAAssumption DEF LoRAInv
<1>2. /\ Elements(access_order) \subseteq registered /\ Distinct(access_order)
      /\ pinned \subseteq Elements(access_order)
  BY DEF LoRAInv, TablesAgree
<1>3. /\ access_order' \in Seq(Adapters) /\ Elements(access_order') = Elements(access_order) \cup {a}
      /\ Distinct(access_order')
  BY <1>1, <1>2, TouchedOK
<1>4. IsFiniteSet(registered) /\ IsFiniteSet(registered \ Elements(access_order))
  BY <1>1, LoRAAssumption, FS_Subset
<1>5. registered' \ Elements(access_order') \subseteq registered \ Elements(access_order)
  BY <1>3
<1>6. /\ Cardinality(registered' \ Elements(access_order')) <= Cardinality(registered \ Elements(access_order))
      /\ Cardinality(registered' \ Elements(access_order')) \in Nat
      /\ Cardinality(registered \ Elements(access_order)) \in Nat
      /\ Cardinality(registered) \in Nat
  BY <1>4, <1>5, FS_Subset, FS_CardinalityType
<1>7. /\ Cardinality(registered \ Elements(access_order)) <= faults
      /\ Cardinality(registered) <= MaxCached + faults
  BY DEF LoRAInv, CacheBounded
<1>8. Cardinality(registered' \ Elements(access_order')) <= faults'
  BY <1>1, <1>6, <1>7
<1>9. Cardinality(registered') <= MaxCached + faults'
  BY <1>1, <1>6, <1>7
<1>10. pinned' \in SUBSET Adapters /\ pinned' \subseteq Elements(access_order')
  BY <1>1, <1>2, <1>3
<1>. QED BY <1>1, <1>2, <1>3, <1>8, <1>9, <1>10 DEF TablesAfter

(* A request whose adapter is in the cache.                                *)
LEMMA GenerateCachedInv ==
  ASSUME LoRAInv, NEW a \in Adapters, NEW scale \in Scales, GenerateCached(a, scale)
  PROVE  LoRAInv'
<1>1. /\ a \in registered /\ registered' = registered /\ pinned' = pinned
      /\ access_order' = Touched(access_order, a)
      /\ scales' = [scales EXCEPT ![a] = scale]
  BY DEF GenerateCached
<1>2. /\ faults \in Nat /\ scales \in [Adapters -> Scales \cup {None}] /\ registered \in SUBSET Adapters
      /\ DeviceOK(device)
  BY LoRATypes DEF LoRAInv
<1>3. /\ registered = {x \in Adapters : scales[x] # None} /\ device.active \in registered \cup {None}
      /\ faults = 0 => DeviceAgrees(device, registered)
  BY DEF LoRAInv, TablesAgree, LayersAgree
<1>4. /\ scales' \in [Adapters -> Scales \cup {None}]
      /\ registered = {x \in Adapters : scales'[x] # None}
  BY <1>1, <1>2, <1>3, LoRAAssumption
<1>5. CASE ActivateAndRun(device, a, scale)
  <2>1. faults' = faults /\ faults' >= faults
    BY <1>2, <1>5 DEF ActivateAndRun
  <2>2. TablesAfter
    BY <1>1, <1>2, <1>4, <2>1, TouchTables
  <2>. QED BY <1>1, <1>2, <1>3, <1>5, <2>1, <2>2, ActivateAndRunInv
<1>6. CASE ActivateRaises(device, a, scale)
  <2>1. faults' \in Nat /\ faults' >= faults
    BY <1>2, <1>6 DEF ActivateRaises, Fault
  <2>2. TablesAfter
    BY <1>1, <1>2, <1>4, <2>1, TouchTables
  <2>. QED BY <1>1, <1>2, <1>3, <1>6, <2>2, ActivateRaisesInv
<1>. QED BY <1>5, <1>6 DEF GenerateCached


(* The device after a call that raised: the layers need not agree, but     *)
(* each has buffers iff it is replaced.                                    *)
LEMMA FailedDevice ==
  ASSUME LoRAInv, NEW a \in Adapters, RecreateFails(a) \/ ReapplyFails(a) \/ WrapFails(a)
  PROVE  DeviceOK(device') /\ device'.active \in {device.active, None}
<1>0. /\ DeviceOK(device) /\ scales \in [Adapters -> Scales \cup {None}] /\ Rank[a] \in Nat \ {0}
      /\ device.active \in Adapters \cup {None} /\ device.max_rank \in Nat
      /\ device.replaced \in SUBSET Layers /\ device.rank \in [Layers -> Nat]
      /\ device.slot \in [Layers -> Contents]
  BY LoRATypes, LoRAAssumption, DeviceFields DEF LoRAInv
<1>1. CASE RecreateFails(a)
  <2>1. PICK done \in SUBSET device.replaced :
          device' = [device EXCEPT !.max_rank = Rank[a],
            !.rank = [l \in Layers |-> IF l \in done THEN Rank[a] ELSE @[l]],
            !.slot = [l \in Layers |-> IF l \in done THEN Nothing ELSE @[l]]]
    BY <1>1, Zenon DEF RecreateFails
  <2> DEFINE rank == [l \in Layers |-> IF l \in done THEN Rank[a] ELSE device.rank[l]]
             slot == [l \in Layers |-> IF l \in done THEN Nothing ELSE device.slot[l]]
  <2>2. device' = [device EXCEPT !.max_rank = Rank[a], !.rank = rank, !.slot = slot]
    BY <2>1
  <2>3. /\ rank \in [Layers -> Nat] /\ slot \in [Layers -> Contents]
        /\ \A l \in Layers : rank[l] > 0 <=> l \in device.replaced
        /\ \A l \in Layers \ device.replaced : slot[l] = Nothing
    BY <1>0, NothingTypes DEF DeviceOK
  <2> HIDE DEF rank, slot
  <2>4. /\ device' \in Devices /\ device'.active = device.active /\ device'.replaced = device.replaced
        /\ device'.rank = rank /\ device'.slot = slot
    BY <1>0, <2>2, <2>3 DEF DeviceOK, Devices
  <2>. QED BY <2>3, <2>4, SMTT(30) DEF DeviceOK
<1>2. CASE ReapplyFails(a)
  <2> DEFINE d == Recreated(device, Rank[a])
  <2>1. PICK done \in SUBSET {l \in d.replaced : Fits(d, d.active, l)} :
          device' = [d EXCEPT !.active = None, !.slot = SlotsWith(d, d.active, scales[d.active], done)]
    BY <1>2 DEF ReapplyFails
  <2>2. device.active # None
    BY <1>2 DEF ReapplyFails, Reapplies
  <2>3. DeviceOK(d) /\ d.active \in Adapters /\ scales[d.active] \in Scales \cup {None}
    BY <1>0, <2>2, RecreatedOK
  <2>4. done \in SUBSET d.replaced
    BY <2>1
  <2> HIDE DEF d
  <2>5. DeviceOK(device')
    BY <2>1, <2>3, <2>4, WrittenOK
  <2>6. device'.active = None
    BY <2>1, <2>3 DEF DeviceOK, Devices
  <2>. QED BY <2>5, <2>6
<1>3. CASE WrapFails(a)
  <2> DEFINE d == RankEnsured(device, Rank[a])
  <2>1. PICK done \in SUBSET NewLayers(d, a) : device' = WithLayers(d, done)
    BY <1>3 DEF WrapFails
  <2>2. DeviceOK(d) /\ d.active = device.active /\ d.max_rank >= Rank[a]
    BY <1>0, RankEnsuredOK
  <2> HIDE DEF d
  <2>3. d.max_rank \in Nat
    BY <2>2, DeviceFields
  <2>4. d.max_rank > 0
    BY <1>0, <2>2, <2>3
  <2>5. done \in SUBSET Layers
    BY <2>1, LoRAAssumption DEF NewLayers
  <2>. QED BY <2>1, <2>2, <2>4, <2>5, WithLayersOK
<1>. QED BY <1>1, <1>2, <1>3

(* add_lora raises: the adapter is registered without a place in the order.*)
LEMMA AddFailsInv ==
  ASSUME LoRAInv, NEW a \in Adapters, NEW scale \in Scales, AddFails(a, scale)
  PROVE  LoRAInv'
<1>0. /\ faults \in Nat /\ registered \in SUBSET Adapters /\ pinned \in SUBSET Adapters
      /\ scales \in [Adapters -> Scales \cup {None}] /\ access_order \in Seq(Adapters)
      /\ MaxCached \in Nat /\ None \notin Scales
  BY LoRATypes, LoRAAssumption DEF LoRAInv
<1>1. /\ a \notin registered /\ faults' = faults + 1
      /\ registered' = registered \cup {a}
      /\ scales' = [scales EXCEPT ![a] = scale]
      /\ generated' = NotRun /\ access_order' = access_order /\ pinned' = pinned
  BY DEF AddFails, Fault
<1>2. /\ registered = {x \in Adapters : scales[x] # None}
      /\ Elements(access_order) \subseteq registered /\ Distinct(access_order)
      /\ pinned \subseteq Elements(access_order)
      /\ device.active \in registered \cup {None}
      /\ Cardinality(registered \ Elements(access_order)) <= faults
      /\ Cardinality(registered) <= MaxCached + faults
  BY DEF LoRAInv, TablesAgree, CacheBounded
<1>3. IsFiniteSet(registered)
  BY <1>0, LoRAAssumption, FS_Subset
<1>4. Cardinality(registered') <= MaxCached + faults'
  <2>1. Cardinality(registered') = Cardinality(registered) + 1 /\ Cardinality(registered) \in Nat
    BY <1>1, <1>3, FS_AddElement, FS_CardinalityType
  <2>. QED BY <1>0, <1>1, <1>2, <2>1
<1>5. Cardinality(registered' \ Elements(access_order')) <= faults'
  <2> DEFINE out == registered \ Elements(access_order)
  <2>1. registered' \ Elements(access_order') = out \cup {a} /\ a \notin out
    BY <1>1, <1>2
  <2>2. IsFiniteSet(out)
    BY <1>3, FS_Subset
  <2>3. Cardinality(out \cup {a}) = Cardinality(out) + 1 /\ Cardinality(out) \in Nat
    BY <2>1, <2>2, FS_AddElement, FS_CardinalityType
  <2>4. Cardinality(registered' \ Elements(access_order')) = Cardinality(out) + 1
    BY <2>1, <2>3
  <2>5. Cardinality(out) <= faults
    BY <1>2
  <2> HIDE DEF out
  <2>. QED BY <1>0, <1>1, <2>3, <2>4, <2>5
<1>6. TablesAfter
  BY <1>0, <1>1, <1>2, <1>4, <1>5 DEF TablesAfter
<1>7. DeviceOK(device') /\ device'.active \in {device.active, None}
  BY FailedDevice DEF AddFails
<1>8. faults' \in Nat /\ faults' # 0
  BY <1>0, <1>1
<1>9. DeviceAfter
  BY <1>1, <1>2, <1>7, <1>8 DEF DeviceAfter
<1>. QED BY <1>1, <1>6, <1>8, <1>9, NotRunInv

(* A request without an adapter.                                           *)
LEMMA GenerateBaseInv ==
  ASSUME LoRAInv, GenerateBase
  PROVE  LoRAInv'
<1>1. /\ device' = Deactivated(device) /\ generated' = Ran(None, None)
      /\ UNCHANGED cacheVars /\ faults' = faults /\ registered' = registered
  BY DEF GenerateBase, cacheVars
<1>2. faults \in Nat /\ faults' >= faults /\ DeviceOK(device)
  BY <1>1, LoRATypes DEF LoRAInv
<1>3. TablesAfter
  BY <1>1, <1>2, TablesStay
<1>4. DeviceOK(device') /\ device'.active = None /\ \A l \in Layers : device'.slot[l].adapter = None
  BY <1>1, <1>2, DeactivatedOK, NothingTypes
<1>5. DeviceAfter
  BY <1>1, <1>2, <1>4, DeactivatedAgrees DEF DeviceAfter, LoRAInv, LayersAgree
<1>6. /\ Ran(None, None) \in [ran : BOOLEAN, adapter : Adapters \cup {None}, scale : Scales \cup {None}]
      /\ Ran(None, None).adapter = None
  BY DEF Ran
<1>. QED BY <1>1, <1>2, <1>3, <1>4, <1>5, <1>6, AfterInv

(* remove_lora.                                                            *)
LEMMA RemoveLoraInv ==
  ASSUME LoRAInv, NEW a \in Adapters, RemoveLora(a)
  PROVE  LoRAInv'
<1>0. /\ faults \in Nat /\ registered \in SUBSET Adapters /\ pinned \in SUBSET Adapters
      /\ scales \in [Adapters -> Scales \cup {None}] /\ access_order \in Seq(Adapters)
      /\ MaxCached \in Nat /\ DeviceOK(device)
  BY LoRATypes, LoRAAssumption DEF LoRAInv
<1>1. /\ a \in registered /\ registered' = registered \ {a}
      /\ scales' = [scales EXCEPT ![a] = None]
      /\ access_order' = Without(access_order, {a})
      /\ pinned' = pinned \ {a}
      /\ device' = IF device.active = a THEN Deactivated(device) ELSE device
      /\ generated' = NotRun /\ faults' = faults
  BY DEF RemoveLora
<1>2. /\ registered = {x \in Adapters : scales[x] # None}
      /\ Elements(access_order) \subseteq registered /\ Distinct(access_order)
      /\ pinned \subseteq Elements(access_order)
      /\ device.active \in registered \cup {None}
      /\ Cardinality(registered \ Elements(access_order)) <= faults
      /\ Cardinality(registered) <= MaxCached + faults
      /\ faults = 0 => DeviceAgrees(device, registered)
  BY DEF LoRAInv, TablesAgree, CacheBounded, LayersAgree
<1>3. /\ access_order' \in Seq(Adapters) /\ Elements(access_order') = Elements(access_order) \ {a}
      /\ Distinct(access_order')
  BY <1>0, <1>1, <1>2, WithoutElements
<1>4. IsFiniteSet(registered) /\ IsFiniteSet(registered \ Elements(access_order))
  BY <1>0, LoRAAssumption, FS_Subset
<1>5. /\ registered' \ Elements(access_order') \subseteq registered \ Elements(access_order)
      /\ registered' \subseteq registered
  BY <1>1, <1>3
<1>6. /\ Cardinality(registered' \ Elements(access_order')) <= Cardinality(registered \ Elements(access_order))
      /\ Cardinality(registered' \ Elements(access_order')) \in Nat
      /\ Cardinality(registered \ Elements(access_order)) \in Nat
      /\ Cardinality(registered') <= Cardinality(registered)
      /\ Cardinality(registered) \in Nat /\ Cardinality(registered') \in Nat
  BY <1>4, <1>5, FS_Subset, FS_CardinalityType
<1>7. Cardinality(registered' \ Elements(access_order')) <= faults'
  BY <1>0, <1>1, <1>2, <1>6
<1>8. Cardinality(registered') <= MaxCached + faults'
  BY <1>0, <1>1, <1>2, <1>6
<1>9. /\ scales' \in [Adapters -> Scales \cup {None}]
      /\ registered' = {x \in Adapters : scales'[x] # None}
      /\ pinned' \in SUBSET Adapters
  BY <1>0, <1>1, <1>2
<1>10. TablesAfter
  BY <1>0, <1>1, <1>2, <1>3, <1>7, <1>8, <1>9 DEF TablesAfter
<1>11. /\ DeviceOK(device') /\ device'.active \in (registered \ {a}) \cup {None}
       /\ faults = 0 => DeviceAgrees(device', registered)
  BY <1>0, <1>1, <1>2, DeactivatedOK, DeactivatedAgrees
<1>12. DeviceAfter
  BY <1>1, <1>5, <1>11, FewerAgree DEF DeviceAfter
<1>. QED BY <1>0, <1>1, <1>10, <1>12, NotRunInv

(* pin_lora.                                                               *)
LEMMA PinLoraInv ==
  ASSUME LoRAInv, NEW a \in Adapters, PinLora(a)
  PROVE  LoRAInv'
<1>1. /\ a \in registered /\ registered' = registered /\ scales' = scales /\ pinned' = pinned \cup {a}
      /\ access_order' = Touched(access_order, a)
      /\ generated' = NotRun /\ faults' = faults /\ device' = device
  BY DEF PinLora
<1>2. /\ faults \in Nat /\ scales \in [Adapters -> Scales \cup {None}] /\ DeviceOK(device)
      /\ faults' >= faults
  BY <1>1, LoRATypes DEF LoRAInv
<1>3. /\ registered = {x \in Adapters : scales[x] # None} /\ device.active \in registered \cup {None}
      /\ faults = 0 => DeviceAgrees(device, registered)
  BY DEF LoRAInv, TablesAgree, LayersAgree
<1>4. TablesAfter
  BY <1>1, <1>2, <1>3, TouchTables
<1>5. DeviceAfter
  BY <1>1, <1>2, <1>3 DEF DeviceAfter
<1>. QED BY <1>1, <1>2, <1>4, <1>5, NotRunInv

(* Every step.                                                             *)
LEMMA LoRANextInv == LoRAInv /\ [LoRANext]_loraVars => LoRAInv'
<1> SUFFICES ASSUME LoRAInv, [LoRANext]_loraVars PROVE LoRAInv'
  OBVIOUS
<1>0. faults \in Nat /\ DeviceOK(device)
  BY LoRATypes DEF LoRAInv
<1>1. CASE NoChange
  <2>1. /\ generated' = NotRun /\ UNCHANGED cacheVars /\ faults' = faults
        /\ device' = device /\ registered' = registered
    BY <1>1 DEF NoChange, cacheVars
  <2>2. faults' \in Nat /\ faults' >= faults
    BY <1>0, <2>1
  <2>3. TablesAfter
    BY <2>1, <2>2, TablesStay
  <2>4. DeviceAfter
    BY <1>0, <2>1 DEF DeviceAfter, LoRAInv, TablesAgree, LayersAgree
  <2>. QED BY <2>1, <2>2, <2>3, <2>4, NotRunInv
<1>2. CASE UNCHANGED loraVars
  BY <1>2 DEF loraVars, cacheVars, LoRAInv, LoRATypeOK, TablesAgree, CacheBounded, LayersAgree, RanAgrees
<1>3. ASSUME NEW a \in Adapters, NEW scale \in Scales,
             AddLora(a, scale) \/ AddFails(a, scale) \/ GenerateCached(a, scale) \/ GenerateLoads(a, scale)
      PROVE  LoRAInv'
  BY <1>3, AddLoraInv, AddFailsInv, GenerateCachedInv, GenerateLoadsInv
<1>4. ASSUME NEW a \in Adapters, RemoveLora(a) \/ PinLora(a)
      PROVE  LoRAInv'
  BY <1>4, RemoveLoraInv, PinLoraInv
<1>. QED BY <1>1, <1>2, <1>3, <1>4, GenerateBaseInv DEF LoRANext

(* The invariant holds in every state.                                     *)
LEMMA LoRASafety == LoRASpec => []LoRAInv
BY LoRAInitInv, LoRANextInv, PTL DEF LoRASpec

(* Type correctness.                                                       *)
THEOREM LoRATypesOK == LoRASpec => []LoRATypeOK
<1>1. LoRAInv => LoRATypeOK
  BY DEF LoRAInv
<1>. QED BY <1>1, LoRASafety, PTL

(* The four tables of the adapter cache agree and the cache keeps its      *)
(* limit, for every number of adapters and every order of calls.           *)
THEOREM CacheStaysConsistent == LoRASpec => []CacheConsistent
<1>1. LoRAInv => CacheConsistent
  <2> SUFFICES ASSUME LoRAInv PROVE CacheConsistent
    OBVIOUS
  <2>1. InOrder = Elements(access_order)
    BY DEF InOrder, Elements
  <2>2. access_order \in Seq(Adapters)
    BY LoRATypes DEF LoRAInv
  <2>3. Cardinality(Elements(access_order)) = Len(access_order)
    BY <2>2, DistinctLength DEF LoRAInv, TablesAgree
  <2>. QED BY <2>1, <2>3 DEF LoRAInv, TablesAgree, CacheBounded, CacheConsistent
<1>. QED BY <1>1, LoRASafety, PTL

(* A request runs with exactly the adapter it asked for.                   *)
THEOREM RunsWithItsAdapter == LoRASpec => []RunsWithAdapter
<1>1. LoRAInv => RunsWithAdapter
  <2> SUFFICES ASSUME LoRAInv PROVE RunsWithAdapter
    OBVIOUS
  <2>1. registered \in SUBSET Adapters /\ DeviceOK(device)
    BY LoRATypes DEF LoRAInv
  <2>2. faults = 0 => DeviceAgrees(device, registered)
    BY DEF LoRAInv, LayersAgree
  <2>3. RanksFit
    <3> SUFFICES ASSUME faults = 0, NEW a \in registered, NEW l \in Layers, l \in Targets[a]
                 PROVE  l \in device.replaced /\ Rank[a] <= device.rank[l]
      BY DEF RanksFit
    <3>1. Rank[a] <= device.max_rank /\ l \in device.replaced
      BY <2>2 DEF DeviceAgrees
    <3>2. device.rank[l] = device.max_rank
      BY <2>2, <3>1 DEF DeviceAgrees
    <3>. QED BY <3>1, <3>2
  <2>4. ASSUME generated.ran, generated.adapter = None, NEW l \in Layers
        PROVE  device.slot[l].adapter = None
    BY <2>4 DEF LoRAInv, RanAgrees
  <2>5. ASSUME generated.ran, generated.adapter # None, faults = 0, NEW l \in Layers
        PROVE  device.slot[l].adapter = IF l \in Targets[generated.adapter] THEN generated.adapter ELSE None
    BY <2>2, <2>5 DEF LoRAInv, RanAgrees, DeviceAgrees
  <2>. QED BY <2>3, <2>4, <2>5 DEF RunsWithAdapter
<1>. QED BY <1>1, LoRASafety, PTL

(* What a step takes out of the cache, other than remove_lora, is unpinned *)
(* and was used before every unpinned adapter that stays.                  *)
LEMMA RegisterEvicts ==
  ASSUME LoRAInv, NEW a \in Adapters \ registered, NEW scale \in Scales, Register(a, scale),
         NEW gone \in registered \ registered'
  PROVE  /\ gone \notin pinned
         /\ \A i, j \in 1..Len(access_order) :
              access_order[i] = gone /\ access_order[j] \in registered' \ pinned => i < j
<1>0. access_order \in Seq(Adapters) /\ LoRATypeOK /\ TablesAgree
  BY LoRATypes DEF LoRAInv
<1>1. registered' = (registered \cup {a}) \ Gone(a)
  BY DEF Register
<1> DEFINE order == Touched(access_order, a)
<1>2. /\ order = Append(access_order, a)
      /\ Gone(a) \subseteq (Elements(access_order) \cup {a}) \ pinned
      /\ \A i, j \in 1..Len(order) : order[i] \in Gone(a) /\ order[j] \notin Gone(a) \cup pinned => i < j
  BY <1>0, GoneOK
<1> HIDE DEF order
<1>3. /\ Len(access_order) \in Nat /\ Len(order) = Len(access_order) + 1
      /\ \A i \in 1..Len(access_order) : order[i] = access_order[i]
  BY <1>0, <1>2, AppendProperties, LenProperties
<1>4. gone \in Gone(a)
  BY <1>1
<1>5. ASSUME NEW i \in 1..Len(access_order), NEW j \in 1..Len(access_order),
             access_order[i] = gone, access_order[j] \in registered' \ pinned
      PROVE  i < j
  <2>1. i \in 1..Len(order) /\ j \in 1..Len(order)
    BY <1>3
  <2>2. order[i] \in Gone(a) /\ order[j] \notin Gone(a) \cup pinned
    BY <1>1, <1>3, <1>4, <1>5
  <2>. QED BY <1>2, <2>1, <2>2
<1>. QED BY <1>2, <1>4, <1>5

(* Only remove_lora takes a pinned adapter out of the cache, and what is   *)
(* evicted was used least recently.                                        *)
THEOREM EvictionsAreLeastRecent == LoRASpec => EvictsLeastRecent
<1> DEFINE Least == \A gone \in registered \ registered' :
             \/ RemoveLora(gone)
             \/ /\ gone \notin pinned
                /\ \A i, j \in 1..Len(access_order) :
                     access_order[i] = gone /\ access_order[j] \in registered' \ pinned => i < j
<1>1. LoRAInv /\ [LoRANext]_loraVars => [Least]_loraVars
  <2> SUFFICES ASSUME LoRAInv, LoRANext PROVE Least
    OBVIOUS
  <2> SUFFICES ASSUME NEW gone \in registered \ registered'
               PROVE  \/ RemoveLora(gone)
                      \/ /\ gone \notin pinned
                         /\ \A i, j \in 1..Len(access_order) :
                              access_order[i] = gone /\ access_order[j] \in registered' \ pinned => i < j
    OBVIOUS
  <2>0. registered' # registered
    OBVIOUS
  <2>1. ASSUME NEW a \in Adapters, NEW scale \in Scales, AddLora(a, scale) \/ GenerateLoads(a, scale)
        PROVE  /\ gone \notin pinned
               /\ \A i, j \in 1..Len(access_order) :
                    access_order[i] = gone /\ access_order[j] \in registered' \ pinned => i < j
    <3>1. a \in Adapters \ registered /\ Register(a, scale)
      BY <2>1 DEF AddLora, GenerateLoads
    <3>. QED BY <3>1, RegisterEvicts
  <2>2. ASSUME NEW a \in Adapters, NEW scale \in Scales, AddFails(a, scale) \/ GenerateCached(a, scale)
        PROVE  FALSE
    BY <2>2 DEF AddFails, GenerateCached
  <2>3. ASSUME NEW a \in Adapters, RemoveLora(a)
        PROVE  RemoveLora(gone)
    <3>1. gone = a
      BY <2>3 DEF RemoveLora
    <3>. QED BY <2>3, <3>1
  <2>4. ASSUME NEW a \in Adapters, PinLora(a)
        PROVE  FALSE
    BY <2>4 DEF PinLora
  <2>5. ~GenerateBase /\ ~NoChange
    BY <2>0 DEF GenerateBase, NoChange, cacheVars
  <2>. QED BY <2>1, <2>2, <2>3, <2>4, <2>5 DEF LoRANext
<1> HIDE DEF Least
<1>2. LoRASpec => [][Least]_loraVars
  BY <1>1, LoRASafety, PTL DEF LoRASpec
<1>. QED BY <1>2 DEF EvictsLeastRecent, Least

=============================================================================
